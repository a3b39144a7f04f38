------------------------------- MODULE Requests -------------------------------
(***************************************************************************)
(* The life of a web request: a page (RH.process) or a service call        *)
(* (ServiceRunner.invokeMethod).  Both run their handler in a transaction, *)
(* retry it when the commit conflicts, hold mails, callbacks and Redis     *)
(* commands back until it has committed, and publish the collected object  *)
(* events at the very end.  They handle the exceptions differently, which  *)
(* is what the two branches of the actions below are about.                *)
(*                                                                         *)
(* A conflict needs a cause: an attempt conflicts exactly when another     *)
(* request has committed since the attempt's sync().  An effect is a pair  *)
(* of its kind and of the attempt that asked for it.                       *)
(***************************************************************************)
EXTENDS Naturals, Sequences

CONSTANTS
  Requests,
  Pages,         \* requests served by RH.process; the others are service calls
  Flaky,         \* requests whose process may lose its database connection
  Faulty,        \* requests whose handler may raise another exception
  MailFails,     \* whether the SMTP server may refuse a mail
  RedisFails,    \* whether Redis may be unreachable
  Unlucky,       \* requests whose last commit, of the collected events, may conflict
  Mortal,        \* requests whose process may die in the middle
  Works,         \* what handlers ask for: sets of kinds
  MaxRetries     \* Config.getMaxRetries()

Kinds == {"hook", "notice", "copy", "links"}
Attempts == 1 .. MaxRetries

ASSUME RequestsAssumption ==
    /\ Pages \subseteq Requests
    /\ Works \subseteq SUBSET Kinds
    /\ MaxRetries \in Nat \ {0}
    /\ {MailFails, RedisFails} \subseteq BOOLEAN

VARIABLES
  version,       \* number of commits
  seen,          \* the version an attempt reads, taken by sync()
  pc,            \* where a request is
  try,           \* its attempt, counted from one
  won,           \* the attempt that committed, 0 for none
  hooks,         \* its after-commit queue
  mails,         \* its e-mail queue
  pipe,          \* its Redis pipeline
  events,        \* the attempts whose object events LiveSync has collected
  sent,          \* effects performed, in their order
  published,     \* events handed over by requestFinished
  reply          \* what the client gets: "none", "ok" or "error"

queues == <<hooks, mails, pipe>>
vars == <<version, seen, pc, try, won, hooks, mails, pipe, events, sent,
          published, reply>>

Effects == Kinds \X Attempts
Asked(r, work, k) == IF k \in work THEN <<<<k, try[r]>>>> ELSE <<>>

TypeOK ==
    /\ version \in Nat
    /\ seen \in [Requests -> Nat]
    /\ pc \in [Requests -> {"idle", "setup", "handler", "commit", "flush",
                            "pipeline", "finish", "done", "crashed"}]
    /\ try \in [Requests -> Attempts]
    /\ won \in [Requests -> {0} \cup Attempts]
    /\ hooks \in [Requests -> Seq(Effects)]
    /\ mails \in [Requests -> Seq(Effects)]
    /\ pipe \in [Requests -> Seq(Effects)]
    /\ events \in [Requests -> SUBSET Attempts]
    /\ sent \in [Requests -> Seq(Effects)]
    /\ published \in [Requests -> SUBSET Attempts]
    /\ reply \in [Requests -> {"none", "ok", "error"}]

Init ==
    /\ version = 0
    /\ seen = [r \in Requests |-> 0]
    /\ pc = [r \in Requests |-> "idle"]
    /\ try = [r \in Requests |-> 1]
    /\ won = [r \in Requests |-> 0]
    /\ hooks = [r \in Requests |-> <<>>]
    /\ mails = [r \in Requests |-> <<>>]
    /\ pipe = [r \in Requests |-> <<>>]
    /\ events = [r \in Requests |-> {}]
    /\ sent = [r \in Requests |-> <<>>]
    /\ published = [r \in Requests |-> {}]
    /\ reply = [r \in Requests |-> "none"]

GoTo(r, there) == pc' = [pc EXCEPT ![r] = there]
Answer(r, what) == reply' = [reply EXCEPT ![r] = what]
Perform(r, effects) == sent' = [sent EXCEPT ![r] = @ \o effects]

-------------------------------------------------------------------------------
(* The attempts *)

Start(r) ==
    /\ pc[r] = "idle"
    /\ GoTo(r, "setup")
    /\ UNCHANGED <<version, seen, try, won, queues, events, sent, published,
                   reply>>

AgainUncounted(r) ==
    /\ try' = [try EXCEPT ![r] = @ + 1]
    /\ GoTo(r, "setup")
    /\ UNCHANGED reply

AgainForever(r) == GoTo(r, "setup") /\ UNCHANGED <<try, reply>>

\* transaction.attempts: the handler is run again while attempts are left.
Again(r) ==
    /\ try[r] < MaxRetries
    /\ try' = [try EXCEPT ![r] = @ + 1]
    /\ GoTo(r, "setup")
    /\ UNCHANGED reply

RaiseIntoSuccess(r) == GoTo(r, "flush") /\ Answer(r, "error") /\ UNCHANGED try

\* The exception leaves the loop: abort, and an error page or a fault.
Raise(r) == GoTo(r, "finish") /\ Answer(r, "error") /\ UNCHANGED try

\* The exception is swallowed in the last attempt: the loop simply ends, and the
\* request goes on as if it had committed.
FallThrough(r) ==
    /\ try[r] = MaxRetries
    /\ GoTo(r, "flush")
    /\ UNCHANGED <<try, reply>>

ConflictSwallowed(r) == Again(r) \/ FallThrough(r)

\* except (ConflictError, POSKeyError): raise, in a page; except ConflictError:
\* abort, in a service call.
Conflict(r) ==
    \/ Again(r)
    \/ r \in Pages /\ try[r] = MaxRetries /\ Raise(r)
    \/ r \notin Pages /\ FallThrough(r)

\* except ClientDisconnected: abort and wait, in both.
Disconnected(r) == r \in Flaky /\ (Again(r) \/ FallThrough(r))

PipeKept(r) == UNCHANGED pipe

\* A page empties its pipeline before each attempt; a service call has a new one
\* as soon as its handler is created.
EmptyPipe(r) == pipe' = [pipe EXCEPT ![r] = <<>>]

SetupKeepingMails(r) ==
    /\ pc[r] = "setup"
    /\ hooks' = [hooks EXCEPT ![r] = <<>>]
    /\ IF r \in Pages THEN EmptyPipe(r) ELSE UNCHANGED pipe
    /\ events' = [events EXCEPT ![r] = {}]
    /\ \/ seen' = [seen EXCEPT ![r] = version] /\ GoTo(r, "handler")
          /\ UNCHANGED <<try, reply>>
       \/ Disconnected(r) /\ UNCHANGED seen
    /\ UNCHANGED <<version, won, mails, sent, published>>

\* The queues are emptied and the events collected by an earlier attempt
\* dropped, then the connection catches up.
Setup(r) ==
    /\ pc[r] = "setup"
    /\ hooks' = [hooks EXCEPT ![r] = <<>>]
    /\ mails' = [mails EXCEPT ![r] = <<>>]
    /\ IF r \in Pages THEN EmptyPipe(r) ELSE UNCHANGED pipe
    /\ events' = [events EXCEPT ![r] = {}]
    /\ \/ seen' = [seen EXCEPT ![r] = version] /\ GoTo(r, "handler")
          /\ UNCHANGED <<try, reply>>
       \/ Disconnected(r) /\ UNCHANGED seen
    /\ UNCHANGED <<version, won, sent, published>>

\* The handler works on the objects, announces it, and asks for effects.
Handle(r) ==
    /\ pc[r] = "handler"
    /\ \E work \in Works :
          /\ hooks' = [hooks EXCEPT ![r] = @ \o Asked(r, work, "hook")]
          /\ mails' = [mails EXCEPT ![r] =
                         @ \o Asked(r, work, "notice") \o Asked(r, work, "copy")]
          /\ pipe' = [pipe EXCEPT ![r] =
                        (IF r \in Pages THEN @ ELSE <<>>) \o Asked(r, work, "links")]
    /\ events' = [events EXCEPT ![r] = @ \cup {try[r]}]
    /\ \/ GoTo(r, "commit") /\ UNCHANGED <<try, reply>>
       \/ r \in Faulty /\ Raise(r)
       \/ Disconnected(r)
    /\ UNCHANGED <<version, seen, won, sent, published>>

Commit(r) ==
    /\ pc[r] = "commit"
    /\ \/ /\ seen[r] = version
          /\ version' = version + 1
          /\ won' = [won EXCEPT ![r] = try[r]]
          /\ GoTo(r, "flush")
          /\ UNCHANGED <<try, reply>>
       \/ /\ seen[r] # version
          /\ Conflict(r)
          /\ UNCHANGED <<version, won>>
       \/ Disconnected(r) /\ UNCHANGED <<version, won>>
    /\ UNCHANGED <<seen, queues, events, sent, published>>

-------------------------------------------------------------------------------
(* After the loop: _process_success and _invokeMethodSuccess *)

\* flush_after_commit_queue(True)
RunHook(r) ==
    /\ pc[r] = "flush" /\ hooks[r] # <<>>
    /\ Perform(r, <<Head(hooks[r])>>)
    /\ hooks' = [hooks EXCEPT ![r] = Tail(@)]
    /\ UNCHANGED <<version, seen, pc, try, won, mails, pipe, events, published,
                   reply>>

SendMailOrFault(r) ==
    /\ pc[r] = "flush" /\ hooks[r] = <<>> /\ mails[r] # <<>>
    /\ \/ Perform(r, <<Head(mails[r])>>)
          /\ mails' = [mails EXCEPT ![r] = Tail(@)]
          /\ UNCHANGED <<pc, reply>>
       \/ /\ MailFails
          /\ GoTo(r, "finish") /\ Answer(r, "error")
          /\ UNCHANGED <<mails, sent>>
    /\ UNCHANGED <<version, seen, try, won, hooks, pipe, events, published>>

\* GenericMailer.flushQueue(True), mail by mail.  A refused mail is logged by a
\* page, which goes on with Redis; in a service call it is the error the client
\* gets.  The mails behind it are not sent.
SendMail(r) ==
    /\ pc[r] = "flush" /\ hooks[r] = <<>> /\ mails[r] # <<>>
    /\ \/ Perform(r, <<Head(mails[r])>>)
          /\ mails' = [mails EXCEPT ![r] = Tail(@)]
          /\ UNCHANGED <<pc, reply>>
       \/ /\ MailFails
          /\ IF r \in Pages THEN GoTo(r, "pipeline") /\ UNCHANGED reply
                            ELSE GoTo(r, "finish") /\ Answer(r, "error")
          /\ UNCHANGED <<mails, sent>>
    /\ UNCHANGED <<version, seen, try, won, hooks, pipe, events, published>>

Flushed(r) ==
    /\ pc[r] = "flush" /\ hooks[r] = <<>> /\ mails[r] = <<>>
    /\ GoTo(r, "pipeline")
    /\ UNCHANGED <<version, seen, try, won, queues, events, sent, published,
                   reply>>

\* A RedisError is logged, and the commands are lost.
ExecutePipeline(r) ==
    /\ pc[r] = "pipeline"
    /\ \/ Perform(r, pipe[r])
       \/ RedisFails /\ UNCHANGED sent
    /\ pipe' = [pipe EXCEPT ![r] = <<>>]
    /\ GoTo(r, "finish")
    /\ Answer(r, "ok")
    /\ UNCHANGED <<version, seen, try, won, hooks, mails, events, published>>

\* What the collected events are stored in can be changed meanwhile by any other
\* request and by LiveSync itself.
StoringFails(r) == (r \in Unlucky /\ events[r] # {}) \/ r \in Flaky

FinishQuietly(r) ==
    /\ pc[r] = "finish"
    /\ \/ published' = [published EXCEPT ![r] = events[r]]
       \/ StoringFails(r) /\ UNCHANGED published
    /\ GoTo(r, "done")
    /\ UNCHANGED <<version, seen, try, won, queues, events, sent, reply>>

\* requestFinished and endRequest, in the finally clause: what has been
\* collected is published, whatever became of the request.  The commit of
\* endRequest is neither retried nor caught: when it fails, the events are gone
\* and the client gets that error, also after a request that succeeded.
Finish(r) ==
    /\ pc[r] = "finish"
    /\ \/ published' = [published EXCEPT ![r] = events[r]] /\ UNCHANGED reply
       \/ StoringFails(r) /\ Answer(r, "error") /\ UNCHANGED published
    /\ GoTo(r, "done")
    /\ UNCHANGED <<version, seen, try, won, queues, events, sent>>

Crash(r) ==
    /\ r \in Mortal
    /\ pc[r] \notin {"idle", "done", "crashed"}
    /\ GoTo(r, "crashed")
    /\ UNCHANGED <<version, seen, try, won, queues, events, sent, published,
                   reply>>

Step(r) ==
    \/ Setup(r) \/ Handle(r) \/ Commit(r) \/ RunHook(r) \/ SendMail(r)
    \/ Flushed(r) \/ ExecutePipeline(r) \/ Finish(r)

Next == \E r \in Requests : Start(r) \/ Step(r) \/ Crash(r)

Spec == Init /\ [][Next]_vars

\* A request that has been accepted is served by its thread; nothing makes
\* requests arrive.
FairSpec == Spec /\ \A r \in Requests : WF_vars(Step(r))

-------------------------------------------------------------------------------
(* What requests guarantee *)

Performed(r) == {sent[r][i] : i \in DOMAIN sent[r]}

\* A request that committed performs only the effects of the attempt that
\* committed, and publishes only that attempt's events: what conflicting attempts
\* queued, collected or put into the pipeline is dropped by _process_retry_setup,
\* _invokeMethodRetryBefore, the new handler and requestRetry.
OnlyTheWinner ==
    \A r \in Requests : won[r] # 0 =>
        /\ \A e \in Performed(r) : e[2] = won[r]
        /\ published[r] \subseteq {won[r]}

\* Effects without a commit come only from a request whose last attempt failed
\* with an exception that the loop swallows: a lost connection, or, in a service
\* call only, a conflict.
EffectsNeedCommit ==
    \A r \in Requests :
        Performed(r) # {} /\ won[r] = 0
            => try[r] = MaxRetries /\ (r \in Flaky \/ r \notin Pages)

\* A mail or a callback is not repeated, however often the request is retried.
EffectsOnce ==
    \A r \in Requests : \A i, j \in DOMAIN sent[r] :
        sent[r][i][1] = sent[r][j][1] => i = j

\* A page that answers with an error has changed nothing: callbacks, mails and
\* Redis, whatever fails there, do not turn into an error page (the user would
\* repeat what has been done).  The one exception is the commit in endRequest, the
\* last thing a request does.
ErrorMeansNoChange ==
    \A r \in Pages : reply[r] = "error" =>
        \/ won[r] = 0 /\ sent[r] = <<>>
        \/ pc[r] = "done" /\ published[r] = {}

\* What a request has committed and reported as done is published to LiveSync: a
\* client that hears of a success never leaves a change behind of which the search
\* services are not told.
SuccessIsPublished ==
    \A r \in Requests :
        pc[r] = "done" /\ reply[r] = "ok" /\ won[r] # 0 => published[r] = {won[r]}

\* A page that has committed and answered has handed its commands to Redis, even
\* when a mail was refused on the way.
LinksSurviveMailFailure ==
    \A r \in Pages : pc[r] = "done" /\ won[r] # 0 => pipe[r] = <<>>

\* Every request ends, whatever the others commit meanwhile: an attempt that
\* conflicts or loses its connection uses up a retry.
RequestEnds ==
    \A r \in Requests : pc[r] = "setup" ~> pc[r] \in {"done", "crashed"}

\* Of run_after_commit: "delay a function call until after a successful commit
\* when executed within a RH context".
HooksAfterCommit ==
    \A r \in Requests : Performed(r) # {} => won[r] # 0

-------------------------------------------------------------------------------
(* Pages that keep their database connection implement AfterCommit *)

Sound == Pages \ Flaky

Winner == [c \in Sound |-> won[c]]
Closed == [c \in Sound |-> pc[c] \in {"done", "crashed"}]
Outcome == [c \in Sound |-> sent[c]]

Promise ==
    INSTANCE AfterCommit WITH
        Clients <- Sound,
        winner <- Winner,
        closed <- Closed,
        performed <- Outcome

\* The deferral of effects, as their users rely on it (AfterCommit).
KeepsPromise == Promise!Spec
===============================================================================
