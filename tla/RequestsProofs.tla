---------------------------- MODULE RequestsProofs ----------------------------
(***************************************************************************)
(* Proofs about Requests: types, the safety invariants, and the refinement *)
(* of AfterCommit by pages that keep their database connection.            *)
(***************************************************************************)
EXTENDS Requests, SequenceTheorems, TLAPS

-------------------------------------------------------------------------------
(* Types *)

\* What a handler asks for are effects of its attempt.
LEMMA AskedType ==
    ASSUME TypeOK, NEW r \in Requests, NEW work, NEW k \in Kinds
    PROVE  Asked(r, work, k) \in Seq(Effects)
  <1>1. <<k, try[r]>> \in Effects
    BY DEF TypeOK, Effects
  <1>2. QED
    BY <1>1 DEF Asked

\* Retrying, giving up and going on keep the types of what they write.
LEMMA OutcomeType ==
    ASSUME TypeOK, NEW r \in Requests,
           Conflict(r) \/ Disconnected(r) \/ Raise(r)
    PROVE  /\ pc' \in [Requests -> {"idle", "setup", "handler", "commit", "flush",
                                  "pipeline", "finish", "done", "crashed"}]
           /\ try' \in [Requests -> Attempts]
           /\ reply' \in [Requests -> {"none", "ok", "error"}]
  <1>1. CASE Raise(r)
    BY <1>1 DEF TypeOK, Raise, GoTo, Answer
  <1>2. CASE Again(r)
    <2>1. try[r] + 1 \in Attempts
      BY <1>2, RequestsAssumption DEF TypeOK, Again, Attempts
    <2>2. QED
      BY <1>2, <2>1 DEF TypeOK, Again, GoTo
  <1>3. CASE FallThrough(r)
    BY <1>3 DEF TypeOK, FallThrough, GoTo
  <1>4. QED
    BY <1>1, <1>2, <1>3 DEF Conflict, Disconnected

LEMMA TypeInit == Init => TypeOK
  BY RequestsAssumption DEF Init, TypeOK, Attempts, Effects

LEMMA TypeStep == TypeOK /\ [Next]_vars => TypeOK'
  <1> SUFFICES ASSUME TypeOK, [Next]_vars PROVE TypeOK'
    OBVIOUS
  <1>1. ASSUME NEW r \in Requests, Start(r) PROVE TypeOK'
    BY <1>1 DEF TypeOK, Start, GoTo, queues
  <1>2. ASSUME NEW r \in Requests, Setup(r) PROVE TypeOK'
    <2>. <<>> \in Seq(Effects)
      OBVIOUS
    <2>1. /\ hooks' \in [Requests -> Seq(Effects)]
          /\ mails' \in [Requests -> Seq(Effects)]
          /\ pipe' \in [Requests -> Seq(Effects)]
      BY <1>2 DEF TypeOK, Setup, EmptyPipe
    <2>2. CASE Disconnected(r) /\ UNCHANGED seen
      BY <1>2, <2>1, <2>2, OutcomeType DEF TypeOK, Setup
    <2>3. CASE seen' = [seen EXCEPT ![r] = version] /\ GoTo(r, "handler")
               /\ UNCHANGED <<try, reply>>
      BY <1>2, <2>1, <2>3 DEF TypeOK, Setup, GoTo
    <2>4. QED
      BY <1>2, <2>2, <2>3 DEF Setup
  <1>3. ASSUME NEW r \in Requests, Handle(r) PROVE TypeOK'
    <2>1. PICK work \in Works :
            /\ hooks' = [hooks EXCEPT ![r] = @ \o Asked(r, work, "hook")]
            /\ mails' = [mails EXCEPT ![r] =
                  @ \o Asked(r, work, "notice") \o Asked(r, work, "copy")]
            /\ pipe' = [pipe EXCEPT ![r] =
                 (IF r \in Pages THEN @ ELSE <<>>) \o Asked(r, work, "links")]
      BY <1>3 DEF Handle
    <2>2. /\ Asked(r, work, "hook") \in Seq(Effects)
          /\ Asked(r, work, "notice") \in Seq(Effects)
          /\ Asked(r, work, "copy") \in Seq(Effects)
          /\ Asked(r, work, "links") \in Seq(Effects)
      BY AskedType DEF Kinds
    <2>3. /\ hooks' \in [Requests -> Seq(Effects)]
          /\ mails' \in [Requests -> Seq(Effects)]
          /\ pipe' \in [Requests -> Seq(Effects)]
      BY <2>1, <2>2 DEF TypeOK
    <2>4. events' \in [Requests -> SUBSET Attempts]
      BY <1>3 DEF TypeOK, Handle
    <2>5. CASE GoTo(r, "commit") /\ UNCHANGED <<try, reply>>
      BY <1>3, <2>3, <2>4, <2>5 DEF TypeOK, Handle, GoTo
    <2>6. CASE Raise(r) \/ Disconnected(r)
      BY <1>3, <2>3, <2>4, <2>6, OutcomeType DEF TypeOK, Handle
    <2>7. QED
      BY <1>3, <2>5, <2>6 DEF Handle
  <1>4. ASSUME NEW r \in Requests, Commit(r) PROVE TypeOK'
    <2>1. CASE seen[r] = version /\ GoTo(r, "flush") /\ UNCHANGED <<try, reply>>
               /\ version' = version + 1 /\ won' = [won EXCEPT ![r] = try[r]]
      BY <1>4, <2>1 DEF TypeOK, Commit, GoTo, queues
    <2>2. CASE (Conflict(r) \/ Disconnected(r)) /\ UNCHANGED <<version, won>>
      BY <1>4, <2>2, OutcomeType DEF TypeOK, Commit, queues
    <2>3. QED
      BY <1>4, <2>1, <2>2 DEF Commit
  <1>5. ASSUME NEW r \in Requests, RunHook(r) PROVE TypeOK'
    <2>1. hooks[r] \in Seq(Effects) /\ hooks[r] # <<>> /\ sent[r] \in Seq(Effects)
      BY <1>5 DEF TypeOK, RunHook
    <2>2. /\ Head(hooks[r]) \in Effects /\ Tail(hooks[r]) \in Seq(Effects)
          /\ sent[r] \o <<Head(hooks[r])>> \in Seq(Effects)
      BY <2>1
    <2>3. QED
      BY <1>5, <2>2 DEF TypeOK, RunHook, Perform
  <1>6. ASSUME NEW r \in Requests, SendMail(r) PROVE TypeOK'
    <2>1. mails[r] \in Seq(Effects) /\ mails[r] # <<>> /\ sent[r] \in Seq(Effects)
      BY <1>6 DEF TypeOK, SendMail
    <2>2. /\ Head(mails[r]) \in Effects /\ Tail(mails[r]) \in Seq(Effects)
          /\ sent[r] \o <<Head(mails[r])>> \in Seq(Effects)
      BY <2>1
    <2>3. sent' \in [Requests -> Seq(Effects)] /\ mails' \in [Requests -> Seq(Effects)]
      <3>1. CASE UNCHANGED <<mails, sent>>
        BY <3>1 DEF TypeOK
      <3>2. CASE Perform(r, <<Head(mails[r])>>) /\ mails' = [mails EXCEPT ![r] = Tail(@)]
        BY <2>2, <3>2 DEF TypeOK, Perform
      <3>3. QED
        BY <1>6, <3>1, <3>2 DEF SendMail
    <2>4. /\ pc' \in [Requests -> {"idle", "setup", "handler", "commit", "flush",
                                   "pipeline", "finish", "done", "crashed"}]
          /\ reply' \in [Requests -> {"none", "ok", "error"}]
      BY <1>6 DEF TypeOK, SendMail, GoTo, Answer
    <2>5. QED
      BY <1>6, <2>3, <2>4 DEF TypeOK, SendMail
  <1>7. ASSUME NEW r \in Requests, Flushed(r) PROVE TypeOK'
    BY <1>7 DEF TypeOK, Flushed, GoTo, queues
  <1>8. ASSUME NEW r \in Requests, ExecutePipeline(r) PROVE TypeOK'
    <2>1. <<>> \in Seq(Effects) /\ sent[r] \o pipe[r] \in Seq(Effects)
      BY DEF TypeOK
    <2>2. QED
      BY <1>8, <2>1 DEF TypeOK, ExecutePipeline, Perform, GoTo, Answer
  <1>9. ASSUME NEW r \in Requests, Finish(r) PROVE TypeOK'
    <2>1. published' \in [Requests -> SUBSET Attempts]
      BY <1>9 DEF TypeOK, Finish
    <2>2. reply' \in [Requests -> {"none", "ok", "error"}]
      BY <1>9 DEF TypeOK, Finish, Answer
    <2>3. QED
      BY <1>9, <2>1, <2>2 DEF TypeOK, Finish, GoTo, queues
  <1>10. ASSUME NEW r \in Requests, Crash(r) PROVE TypeOK'
    BY <1>10 DEF TypeOK, Crash, GoTo, queues
  <1>11. CASE UNCHANGED vars
    BY <1>11 DEF TypeOK, vars, queues
  <1>12. QED
    BY <1>1, <1>2, <1>3, <1>4, <1>5, <1>6, <1>7, <1>8, <1>9, <1>10, <1>11
       DEF Next, Step

\* The type invariant, for any requests, retries and faults.
THEOREM RequestTypes == Spec => []TypeOK
  BY TypeInit, TypeStep, PTL DEF Spec

-------------------------------------------------------------------------------
(* The inductive invariant *)

\* Every effect of the queue q was asked for by attempt i.
Of(q, i) == \A n \in DOMAIN q : q[n][2] = i

Swallowed(r) == try[r] = MaxRetries /\ (r \in Flaky \/ r \notin Pages)

\* What holds of one request at each place of its life: before the commit nothing
\* has left it; the queues hold the effects of the current attempt from the
\* moment its handler has run; after the loop it has committed or its last
\* exception was swallowed.
Sane(r) ==
    /\ pc[r] \in {"idle", "setup", "handler", "commit"}
          => won[r] = 0 /\ sent[r] = <<>> /\ published[r] = {}
    /\ pc[r] = "handler"
          => hooks[r] = <<>> /\ mails[r] = <<>> /\ events[r] = {}
             /\ (r \in Pages => pipe[r] = <<>>)
    /\ pc[r] = "commit" \/ won[r] # 0
          => Of(hooks[r], try[r]) /\ Of(mails[r], try[r]) /\ Of(pipe[r], try[r])
             /\ events[r] = {try[r]}
    /\ won[r] # 0 => won[r] = try[r] /\ Of(sent[r], won[r])
                     /\ published[r] \subseteq {won[r]}
    /\ won[r] = 0 /\ (pc[r] \in {"flush", "pipeline"} \/ sent[r] # <<>>)
          => Swallowed(r)
    /\ r \in Pages /\ reply[r] = "error"
          => \/ won[r] = 0 /\ sent[r] = <<>> /\ pc[r] \in {"finish", "done", "crashed"}
             \/ pc[r] = "done" /\ published[r] = {}
    /\ pc[r] # "done" => published[r] = {}
    /\ pc[r] = "done" /\ reply[r] = "ok" => published[r] = events[r]
    /\ r \in Pages /\ won[r] # 0 /\ pc[r] \in {"finish", "done"} => pipe[r] = <<>>

AllSane == \A r \in Requests : Sane(r)

\* Nothing about a request changes in a step that leaves its variables alone.
LEMMA SaneFrame ==
    ASSUME NEW r \in Requests, Sane(r),
           UNCHANGED <<pc[r], try[r], won[r], hooks[r], mails[r], pipe[r],
                       events[r], sent[r], published[r], reply[r]>>
    PROVE  Sane(r)'
  BY DEF Sane, Of, Swallowed

\* A step of one request leaves the others alone.
LEMMA StepFrame ==
    ASSUME TypeOK, NEW r \in Requests, NEW x \in Requests, x # r,
           Start(r) \/ Step(r) \/ Crash(r)
    PROVE  UNCHANGED <<pc[x], try[x], won[x], hooks[x], mails[x], pipe[x],
                       events[x], sent[x], published[x], reply[x]>>
  <1>. USE DEF TypeOK, GoTo, Answer, Perform, queues
  <1>1. ASSUME Conflict(r) \/ Disconnected(r) \/ Raise(r)
        PROVE  pc'[x] = pc[x] /\ try'[x] = try[x] /\ reply'[x] = reply[x]
    BY <1>1 DEF Conflict, Disconnected, Raise, Again, FallThrough
  <1>2. CASE Start(r)
    BY <1>2 DEF Start
  <1>3. CASE Setup(r)
    BY <1>1, <1>3 DEF Setup, EmptyPipe
  <1>4. CASE Handle(r)
    BY <1>1, <1>4 DEF Handle
  <1>5. CASE Commit(r)
    BY <1>1, <1>5 DEF Commit
  <1>6. CASE RunHook(r)
    BY <1>6 DEF RunHook
  <1>7. CASE SendMail(r)
    BY <1>7 DEF SendMail
  <1>8. CASE Flushed(r)
    BY <1>8 DEF Flushed
  <1>9. CASE ExecutePipeline(r)
    BY <1>9 DEF ExecutePipeline
  <1>10. CASE Finish(r)
    BY <1>10 DEF Finish
  <1>11. CASE Crash(r)
    BY <1>11 DEF Crash
  <1>12. QED
    BY <1>2, <1>3, <1>4, <1>5, <1>6, <1>7, <1>8, <1>9, <1>10, <1>11 DEF Step

LEMMA OfConcat ==
    ASSUME NEW q \in Seq(Effects), NEW p \in Seq(Effects), NEW i,
           Of(q, i), Of(p, i)
    PROVE  Of(q \o p, i)
  BY DEF Of

LEMMA OfTail ==
    ASSUME NEW q \in Seq(Effects), NEW i, Of(q, i), q # <<>>
    PROVE  Of(Tail(q), i) /\ Of(<<Head(q)>>, i)
  <1>1. Head(q) = q[1] /\ 1 \in DOMAIN q
    OBVIOUS
  <1>2. \A n \in DOMAIN Tail(q) : n + 1 \in DOMAIN q /\ Tail(q)[n] = q[n + 1]
    OBVIOUS
  <1>3. QED
    BY <1>1, <1>2 DEF Of

LEMMA OfAsked ==
    ASSUME NEW r \in Requests, NEW work, NEW k
    PROVE  Of(Asked(r, work, k), try[r])
  BY DEF Of, Asked

LEMMA SaneInit == Init => AllSane
  BY DEF Init, AllSane, Sane, Of, Swallowed

LEMMA SaneSetup ==
    ASSUME TypeOK, NEW r \in Requests, Sane(r), Setup(r)
    PROVE  Sane(r)'
  <1>1. /\ won'[r] = 0 /\ sent'[r] = <<>> /\ published'[r] = {} /\ events'[r] = {}
        /\ hooks'[r] = <<>> /\ mails'[r] = <<>> /\ (r \in Pages => pipe'[r] = <<>>)
    BY DEF Setup, Sane, TypeOK, EmptyPipe
  <1>2. /\ pc'[r] \in {"handler", "setup", "flush"} /\ reply'[r] = reply[r]
        /\ pc'[r] = "flush" => try'[r] = MaxRetries /\ r \in Flaky
    BY DEF Setup, TypeOK, Disconnected, Again, FallThrough, GoTo
  <1>3. ~(r \in Pages /\ reply[r] = "error")
    BY DEF Setup, Sane
  <1>4. QED
    BY <1>1, <1>2, <1>3 DEF Sane, Swallowed

LEMMA SaneHandle ==
    ASSUME TypeOK, NEW r \in Requests, Sane(r), Handle(r)
    PROVE  Sane(r)'
  <1>. PICK work \in Works :
            /\ hooks' = [hooks EXCEPT ![r] = @ \o Asked(r, work, "hook")]
            /\ mails' = [mails EXCEPT ![r] =
                  @ \o Asked(r, work, "notice") \o Asked(r, work, "copy")]
            /\ pipe' = [pipe EXCEPT ![r] =
                 (IF r \in Pages THEN @ ELSE <<>>) \o Asked(r, work, "links")]
    BY DEF Handle
  <1>1. /\ won'[r] = 0 /\ sent'[r] = <<>> /\ published'[r] = {}
        /\ events'[r] = {try[r]}
    BY DEF Handle, Sane, TypeOK
  <1>2. /\ hooks[r] = <<>> /\ mails[r] = <<>>
        /\ (IF r \in Pages THEN pipe[r] ELSE <<>>) = <<>>
    BY DEF Handle, Sane
  <1>3. /\ Asked(r, work, "hook") \in Seq(Effects)
        /\ Asked(r, work, "notice") \in Seq(Effects)
        /\ Asked(r, work, "copy") \in Seq(Effects)
        /\ Asked(r, work, "links") \in Seq(Effects)
    BY AskedType DEF Kinds
  <1>4. /\ hooks'[r] = Asked(r, work, "hook")
        /\ mails'[r] = Asked(r, work, "notice") \o Asked(r, work, "copy")
        /\ pipe'[r] = Asked(r, work, "links")
    <2>1. /\ hooks'[r] = <<>> \o Asked(r, work, "hook")
          /\ mails'[r] = <<>> \o Asked(r, work, "notice") \o Asked(r, work, "copy")
          /\ pipe'[r] = <<>> \o Asked(r, work, "links")
      BY <1>2 DEF TypeOK
    <2>2. QED
      BY <1>3, <2>1
  <1>5. Of(hooks'[r], try[r]) /\ Of(mails'[r], try[r]) /\ Of(pipe'[r], try[r])
    <2>1. /\ Of(Asked(r, work, "hook"), try[r]) /\ Of(Asked(r, work, "notice"), try[r])
          /\ Of(Asked(r, work, "copy"), try[r]) /\ Of(Asked(r, work, "links"), try[r])
      BY OfAsked
    <2>2. Of(Asked(r, work, "notice") \o Asked(r, work, "copy"), try[r])
      BY <1>3, <2>1, OfConcat
    <2>3. QED
      BY <1>4, <2>1, <2>2
  <1>6. ~(r \in Pages /\ reply[r] = "error")
    BY DEF Handle, Sane
  <1>7. CASE GoTo(r, "commit") /\ UNCHANGED <<try, reply>>
    <2>1. pc'[r] = "commit" /\ try'[r] = try[r] /\ reply'[r] = reply[r]
      BY <1>7 DEF GoTo, TypeOK
    <2>2. QED
      BY <2>1, <1>1, <1>5, <1>6 DEF Sane
  <1>8. CASE Raise(r)
    <2>1. pc'[r] = "finish"
      BY <1>8 DEF Raise, GoTo, TypeOK
    <2>2. QED
      BY <2>1, <1>1 DEF Sane
  <1>9. CASE Disconnected(r)
    <2>1. /\ pc'[r] \in {"setup", "flush"} /\ reply'[r] = reply[r]
          /\ pc'[r] = "flush" => try'[r] = MaxRetries /\ r \in Flaky
      BY <1>9 DEF TypeOK, Disconnected, Again, FallThrough, GoTo
    <2>2. QED
      BY <2>1, <1>1, <1>6 DEF Sane, Swallowed
  <1>10. QED
    BY <1>7, <1>8, <1>9 DEF Handle

LEMMA SaneCommit ==
    ASSUME TypeOK, NEW r \in Requests, Sane(r), Commit(r)
    PROVE  Sane(r)'
  <1>1. /\ won[r] = 0 /\ sent'[r] = <<>> /\ published'[r] = {}
        /\ Of(hooks'[r], try[r]) /\ Of(mails'[r], try[r]) /\ Of(pipe'[r], try[r])
        /\ events'[r] = {try[r]}
    BY DEF Commit, Sane, queues
  <1>2. ~(r \in Pages /\ reply[r] = "error")
    BY DEF Commit, Sane
  <1>3. CASE GoTo(r, "flush") /\ UNCHANGED <<try, reply>>
             /\ won' = [won EXCEPT ![r] = try[r]]
    <2>1. /\ pc'[r] = "flush" /\ try'[r] = try[r] /\ reply'[r] = reply[r]
          /\ won'[r] = try[r] /\ won'[r] # 0
      BY <1>3, RequestsAssumption DEF GoTo, TypeOK, Attempts
    <2>2. Of(sent'[r], won'[r])
      BY <1>1 DEF Of
    <2>3. QED
      BY <2>1, <2>2, <1>1, <1>2 DEF Sane
  <1>4. CASE (Conflict(r) \/ Disconnected(r)) /\ UNCHANGED <<version, won>>
    <2>1. /\ won'[r] = 0
          /\ pc'[r] \in {"setup", "flush", "finish"}
          /\ pc'[r] = "flush" => Swallowed(r)' /\ reply'[r] = reply[r]
          /\ pc'[r] = "setup" => reply'[r] = reply[r]
      BY <1>1, <1>4 DEF TypeOK, Conflict, Disconnected, Again, FallThrough,
                        Raise, GoTo, Answer, Swallowed
    <2>2. QED
      BY <2>1, <1>1, <1>2 DEF Sane
  <1>5. QED
    BY <1>3, <1>4 DEF Commit

LEMMA SaneRunHook ==
    ASSUME TypeOK, NEW r \in Requests, Sane(r), RunHook(r)
    PROVE  Sane(r)'
  <1>1. /\ hooks[r] \in Seq(Effects) /\ hooks[r] # <<>> /\ sent[r] \in Seq(Effects)
        /\ <<Head(hooks[r])>> \in Seq(Effects)
        /\ hooks'[r] = Tail(hooks[r]) /\ sent'[r] = sent[r] \o <<Head(hooks[r])>>
    BY DEF TypeOK, RunHook, Perform
  <1>2. won[r] # 0 => Of(hooks'[r], try[r]) /\ Of(sent'[r], won[r])
    <2>. SUFFICES ASSUME won[r] # 0
                 PROVE  Of(hooks'[r], try[r]) /\ Of(sent'[r], won[r])
      OBVIOUS
    <2>1. won[r] = try[r] /\ Of(hooks[r], try[r]) /\ Of(sent[r], try[r])
      BY DEF Sane
    <2>2. Of(Tail(hooks[r]), try[r]) /\ Of(<<Head(hooks[r])>>, try[r])
      BY <1>1, <2>1, OfTail
    <2>3. Of(sent[r] \o <<Head(hooks[r])>>, try[r])
      BY <1>1, <2>1, <2>2, OfConcat
    <2>4. QED
      BY <1>1, <2>1, <2>2, <2>3
  <1>3. pc[r] = "flush" /\ ~(r \in Pages /\ reply[r] = "error")
    BY DEF RunHook, Sane
  <1>4. QED
    BY <1>1, <1>2, <1>3 DEF Sane, RunHook, Swallowed

LEMMA SaneSendMail ==
    ASSUME TypeOK, NEW r \in Requests, Sane(r), SendMail(r)
    PROVE  Sane(r)'
  <1>1. /\ mails[r] \in Seq(Effects) /\ mails[r] # <<>> /\ sent[r] \in Seq(Effects)
        /\ <<Head(mails[r])>> \in Seq(Effects)
    BY DEF TypeOK, SendMail
  <1>2. pc[r] = "flush" /\ ~(r \in Pages /\ reply[r] = "error")
    BY DEF SendMail, Sane
  <1>3. CASE Perform(r, <<Head(mails[r])>>) /\ UNCHANGED <<pc, reply>>
             /\ mails' = [mails EXCEPT ![r] = Tail(@)]
    <2>1. mails'[r] = Tail(mails[r]) /\ sent'[r] = sent[r] \o <<Head(mails[r])>>
      BY <1>3 DEF TypeOK, Perform
    <2>2. won[r] # 0 => Of(mails'[r], try[r]) /\ Of(sent'[r], won[r])
      <3>. SUFFICES ASSUME won[r] # 0
                   PROVE  Of(mails'[r], try[r]) /\ Of(sent'[r], won[r])
        OBVIOUS
      <3>1. won[r] = try[r] /\ Of(mails[r], try[r]) /\ Of(sent[r], try[r])
        BY DEF Sane
      <3>2. Of(Tail(mails[r]), try[r]) /\ Of(<<Head(mails[r])>>, try[r])
        BY <1>1, <3>1, OfTail
      <3>3. Of(sent[r] \o <<Head(mails[r])>>, try[r])
        BY <1>1, <3>1, <3>2, OfConcat
      <3>4. QED
        BY <1>1, <2>1, <3>1, <3>2, <3>3
    <2>3. QED
      BY <1>2, <1>3, <2>1, <2>2 DEF Sane, SendMail, Swallowed
  <1>4. CASE /\ UNCHANGED <<mails, sent>>
             /\ IF r \in Pages THEN GoTo(r, "pipeline") /\ UNCHANGED reply
                               ELSE GoTo(r, "finish") /\ Answer(r, "error")
    <2>1. /\ r \in Pages => pc'[r] = "pipeline" /\ reply'[r] = reply[r]
          /\ r \notin Pages => pc'[r] = "finish"
      BY <1>4 DEF TypeOK, GoTo, Answer
    <2>2. QED
      BY <1>2, <1>4, <2>1 DEF Sane, SendMail, Swallowed
  <1>5. QED
    BY <1>3, <1>4 DEF SendMail

LEMMA SanePipeline ==
    ASSUME TypeOK, NEW r \in Requests, Sane(r), ExecutePipeline(r)
    PROVE  Sane(r)'
  <1>1. /\ sent[r] \in Seq(Effects) /\ pipe[r] \in Seq(Effects)
        /\ pipe'[r] = <<>> /\ pc'[r] = "finish" /\ reply'[r] = "ok"
        /\ sent'[r] = sent[r] \o pipe[r] \/ sent'[r] = sent[r]
    <2>1. sent[r] \in Seq(Effects) /\ pipe[r] \in Seq(Effects)
      BY DEF TypeOK
    <2>2. pipe'[r] = <<>> /\ pc'[r] = "finish" /\ reply'[r] = "ok"
      BY DEF TypeOK, ExecutePipeline, GoTo, Answer
    <2>3. sent'[r] = sent[r] \o pipe[r] \/ sent'[r] = sent[r]
      BY DEF TypeOK, ExecutePipeline, Perform
    <2>4. QED
      BY <2>1, <2>2, <2>3
  <1>2. won[r] # 0 => Of(pipe'[r], try[r]) /\ Of(sent'[r], won[r])
    <2>1. Of(<<>>, try[r])
      BY DEF Of
    <2>2. ASSUME won[r] # 0
          PROVE  Of(sent'[r], won[r])
      <3>1. Of(sent[r], won[r]) /\ Of(pipe[r], won[r])
        BY <2>2 DEF Sane, ExecutePipeline
      <3>2. Of(sent[r] \o pipe[r], won[r])
        BY <1>1, <3>1, OfConcat
      <3>3. QED
        BY <1>1, <3>1, <3>2
    <2>3. QED
      BY <1>1, <2>1, <2>2
  <1>3. QED
    BY <1>1, <1>2 DEF Sane, ExecutePipeline, Swallowed

LEMMA SaneRest ==
    ASSUME TypeOK, NEW r \in Requests, Sane(r),
           Start(r) \/ Flushed(r) \/ Finish(r) \/ Crash(r)
    PROVE  Sane(r)'
  <1>1. CASE Start(r)
    BY <1>1 DEF Start, Sane, Swallowed, GoTo, TypeOK, queues
  <1>2. CASE Flushed(r)
    BY <1>2 DEF Flushed, Sane, Swallowed, GoTo, TypeOK, queues
  <1>3. CASE Finish(r)
    <2>1. pc[r] = "finish" /\ pc'[r] = "done" /\ published[r] = {}
      BY <1>3 DEF Finish, Sane, GoTo, TypeOK
    <2>2. UNCHANGED <<try, won, queues, events, sent>>
      BY <1>3 DEF Finish
    <2>3. \/ published'[r] = events[r] /\ reply'[r] = reply[r]
          \/ published'[r] = {} /\ reply'[r] = "error"
      BY <1>3, <2>1 DEF Finish, Answer, TypeOK
    <2>4. won[r] # 0 => won[r] = try[r] /\ events[r] = {try[r]}
      BY DEF Sane
    <2>5. QED
      BY <2>1, <2>2, <2>3, <2>4 DEF Sane, Swallowed, queues
  <1>4. CASE Crash(r)
    BY <1>4 DEF Crash, Sane, Swallowed, GoTo, TypeOK, queues
  <1>5. QED
    BY <1>1, <1>2, <1>3, <1>4

LEMMA SaneStep == TypeOK /\ AllSane /\ [Next]_vars => AllSane'
  <1> SUFFICES ASSUME TypeOK, AllSane, [Next]_vars, NEW x \in Requests
               PROVE  Sane(x)'
    BY DEF AllSane
  <1>1. Sane(x)
    BY DEF AllSane
  <1>2. ASSUME NEW r \in Requests, Start(r) \/ Step(r) \/ Crash(r)
        PROVE  Sane(x)'
    <2>1. CASE x = r
      BY <1>1, <1>2, <2>1, SaneSetup, SaneHandle, SaneCommit, SaneRunHook,
         SaneSendMail, SanePipeline, SaneRest DEF Step
    <2>2. CASE x # r
      BY <1>1, <1>2, <2>2, StepFrame, SaneFrame
    <2>3. QED
      BY <2>1, <2>2
  <1>3. CASE UNCHANGED vars
    BY <1>1, <1>3, SaneFrame DEF vars, queues
  <1>4. QED
    BY <1>2, <1>3 DEF Next

LEMMA SaneAlways == Spec => []AllSane
  <1>1. Init => AllSane
    BY SaneInit
  <1>2. TypeOK /\ AllSane /\ [Next]_vars => AllSane'
    BY SaneStep
  <1>3. QED
    BY <1>1, <1>2, RequestTypes, PTL DEF Spec

-------------------------------------------------------------------------------
(* The safety invariants *)

\* A committed request performs the effects, and publishes the events, of the
\* attempt that committed.
THEOREM OnlyTheWinnerCorrect == Spec => []OnlyTheWinner
  <1>1. AllSane => OnlyTheWinner
    BY DEF AllSane, Sane, Of, OnlyTheWinner, Performed
  <1>2. QED
    BY <1>1, SaneAlways, PTL

\* Effects without a commit come from swallowed exceptions only.
THEOREM EffectsNeedCommitCorrect == Spec => []EffectsNeedCommit
  <1>1. AllSane => EffectsNeedCommit
    BY DEF AllSane, Sane, Swallowed, EffectsNeedCommit, Performed
  <1>2. QED
    BY <1>1, SaneAlways, PTL

\* An error page means that nothing has been changed or sent, but for the error of
\* the commit in endRequest, after which nothing is published either.
THEOREM ErrorMeansNoChangeCorrect == Spec => []ErrorMeansNoChange
  <1>1. AllSane /\ TypeOK => ErrorMeansNoChange
    BY RequestsAssumption DEF AllSane, Sane, ErrorMeansNoChange
  <1>2. QED
    BY <1>1, SaneAlways, RequestTypes, PTL

\* What is committed and reported as done has been published.
THEOREM SuccessIsPublishedCorrect == Spec => []SuccessIsPublished
  <1>1. AllSane => SuccessIsPublished
    BY DEF AllSane, Sane, SuccessIsPublished
  <1>2. QED
    BY <1>1, SaneAlways, PTL

\* A page that has committed and answered has handed its commands to Redis.
THEOREM LinksSurviveCorrect == Spec => []LinksSurviveMailFailure
  <1>1. AllSane => LinksSurviveMailFailure
    BY RequestsAssumption DEF AllSane, Sane, LinksSurviveMailFailure
  <1>2. QED
    BY <1>1, SaneAlways, PTL

-------------------------------------------------------------------------------
(* Effects happen once *)

Distinct(q) == \A i, j \in DOMAIN q : q[i][1] = q[j][1] => i = j
Within(q, K) == \A i \in DOMAIN q : q[i][1] \in K
Fresh(q, p) == \A i \in DOMAIN q, j \in DOMAIN p : q[i][1] # p[j][1]

\* Every kind of effect waits in one queue, once, and not any more when it has been
\* performed.
Once(r) ==
    /\ Distinct(hooks[r]) /\ Within(hooks[r], {"hook"}) /\ Fresh(hooks[r], sent[r])
    /\ Distinct(mails[r]) /\ Within(mails[r], {"notice", "copy"})
    /\ Fresh(mails[r], sent[r])
    /\ Distinct(pipe[r]) /\ Within(pipe[r], {"links"}) /\ Fresh(pipe[r], sent[r])
    /\ Distinct(sent[r])

AllOnce == \A r \in Requests : Once(r)

\* Performing the first effect of a queue.
LEMMA PerformHead ==
    ASSUME NEW q \in Seq(Effects), NEW p \in Seq(Effects), q # <<>>, NEW K,
           Distinct(q), Within(q, K), Distinct(p), Fresh(q, p)
    PROVE  /\ Distinct(Tail(q)) /\ Within(Tail(q), K)
           /\ Distinct(p \o <<Head(q)>>) /\ Fresh(Tail(q), p \o <<Head(q)>>)
  <1>1. /\ Head(q) = q[1] /\ 1 \in DOMAIN q
        /\ \A n \in DOMAIN Tail(q) : /\ n + 1 \in DOMAIN q /\ Tail(q)[n] = q[n + 1]
                                     /\ n \in Nat /\ n # 0 /\ n + 1 # 1
    OBVIOUS
  <1>2. Distinct(Tail(q)) /\ Within(Tail(q), K)
    <2>1. ASSUME NEW i \in DOMAIN Tail(q), NEW j \in DOMAIN Tail(q),
                 Tail(q)[i][1] = Tail(q)[j][1]
          PROVE  i = j
      <3>1. i + 1 = j + 1
        BY <1>1, <2>1 DEF Distinct
      <3>2. QED
        BY <1>1, <3>1
    <2>2. QED
      BY <1>1, <2>1 DEF Distinct, Within
  <1>3. \A n \in DOMAIN (p \o <<Head(q)>>) :
            \/ n \in DOMAIN p /\ (p \o <<Head(q)>>)[n] = p[n]
            \/ n = Len(p) + 1 /\ (p \o <<Head(q)>>)[n] = q[1]
    BY <1>1
  <1>4. Distinct(p \o <<Head(q)>>)
    BY <1>1, <1>3 DEF Distinct, Fresh
  <1>5. Fresh(Tail(q), p \o <<Head(q)>>)
    <2>1. \A n \in DOMAIN Tail(q) : q[n + 1][1] # q[1][1]
      BY <1>1 DEF Distinct
    <2>2. QED
      BY <1>1, <1>3, <2>1 DEF Fresh
  <1>6. QED
    BY <1>2, <1>4, <1>5

\* A queue of other kinds does not mind.
LEMMA PerformOther ==
    ASSUME NEW q \in Seq(Effects), NEW p \in Seq(Effects), q # <<>>, NEW K, NEW L,
           K \cap L = {}, Within(q, K), NEW o, Within(o, L), Fresh(o, p)
    PROVE  Fresh(o, p \o <<Head(q)>>)
  <1>1. Head(q) = q[1] /\ 1 \in DOMAIN q
    OBVIOUS
  <1>2. \A n \in DOMAIN (p \o <<Head(q)>>) :
            \/ n \in DOMAIN p /\ (p \o <<Head(q)>>)[n] = p[n]
            \/ (p \o <<Head(q)>>)[n] = q[1]
    BY <1>1
  <1>3. QED
    BY <1>1, <1>2 DEF Within, Fresh

\* The pipeline holds one effect at most.
LEMMA PipeIsShort ==
    ASSUME NEW q \in Seq(Effects), Distinct(q), Within(q, {"links"}), q # <<>>
    PROVE  q = <<Head(q)>>
  <1>1. \A i, j \in DOMAIN q : i = j
    BY DEF Distinct, Within
  <1>2. Len(q) = 1
    <2>1. 1 \in DOMAIN q /\ Len(q) \in DOMAIN q
      OBVIOUS
    <2>2. QED
      BY <1>1, <2>1
  <1>3. QED
    BY <1>2

\* Effects of one kind behind those of another.
LEMMA KindsConcat ==
    ASSUME NEW q \in Seq(Effects), NEW p \in Seq(Effects), NEW k, NEW l, k # l,
           Distinct(q), Within(q, {k}), Distinct(p), Within(p, {l})
    PROVE  Distinct(q \o p) /\ Within(q \o p, {k, l})
  <1>1. \A i \in DOMAIN (q \o p) :
            \/ i \in DOMAIN q /\ (q \o p)[i] = q[i]
            \/ /\ i - Len(q) \in DOMAIN p /\ (q \o p)[i] = p[i - Len(q)]
               /\ i \in Nat
    OBVIOUS
  <1>2. Within(q \o p, {k, l})
    BY <1>1 DEF Within
  <1>3. ASSUME NEW i \in DOMAIN (q \o p), NEW j \in DOMAIN (q \o p),
               (q \o p)[i][1] = (q \o p)[j][1]
        PROVE  i = j
    <2>1. CASE (q \o p)[i][1] = k
      <3>1. /\ i \in DOMAIN q /\ (q \o p)[i] = q[i]
            /\ j \in DOMAIN q /\ (q \o p)[j] = q[j]
        BY <1>1, <1>3, <2>1 DEF Within
      <3>2. QED
        BY <1>3, <3>1 DEF Distinct
    <2>2. CASE (q \o p)[i][1] # k
      <3>1. /\ i - Len(q) \in DOMAIN p /\ (q \o p)[i] = p[i - Len(q)] /\ i \in Nat
            /\ j - Len(q) \in DOMAIN p /\ (q \o p)[j] = p[j - Len(q)] /\ j \in Nat
        BY <1>1, <1>3, <2>2 DEF Within
      <3>2. i - Len(q) = j - Len(q)
        BY <1>3, <3>1 DEF Distinct
      <3>3. Len(q) \in Nat
        OBVIOUS
      <3>4. QED
        BY <3>1, <3>2, <3>3
    <2>3. QED
      BY <2>1, <2>2
  <1>4. QED
    BY <1>2, <1>3 DEF Distinct

\* What a handler asks for.
LEMMA AskedOnce ==
    ASSUME TypeOK, NEW r \in Requests, NEW work
    PROVE  /\ \A k \in Kinds : /\ Distinct(Asked(r, work, k))
                               /\ Within(Asked(r, work, k), {k})
           /\ LET q == Asked(r, work, "notice") \o Asked(r, work, "copy")
              IN  Distinct(q) /\ Within(q, {"notice", "copy"})
  <1>1. ASSUME NEW k \in Kinds
        PROVE  Asked(r, work, k) = <<>> \/ Asked(r, work, k) = <<<<k, try[r]>>>>
    BY DEF Asked
  <1>2. \A k \in Kinds : /\ Distinct(Asked(r, work, k))
                         /\ Within(Asked(r, work, k), {k})
    BY <1>1 DEF Distinct, Within
  <1>3. "notice" \in Kinds /\ "copy" \in Kinds
    BY DEF Kinds
  <1>4. \A k \in Kinds : Asked(r, work, k) \in Seq(Effects)
    BY AskedType
  <1>5. QED
    BY <1>2, <1>3, <1>4, KindsConcat

LEMMA OnceFrame ==
    ASSUME NEW r \in Requests, Once(r),
           UNCHANGED <<hooks[r], mails[r], pipe[r], sent[r]>>
    PROVE  Once(r)'
  BY DEF Once, Distinct, Within, Fresh

LEMMA OnceSetup ==
    ASSUME TypeOK, NEW r \in Requests, Sane(r), Once(r), Setup(r)
    PROVE  Once(r)'
  <1>1. /\ hooks'[r] = <<>> /\ mails'[r] = <<>> /\ sent'[r] = sent[r]
        /\ pipe'[r] = <<>> \/ pipe'[r] = pipe[r]
    BY DEF Setup, TypeOK, EmptyPipe
  <1>2. QED
    BY <1>1 DEF Once, Distinct, Within, Fresh

LEMMA OnceHandle ==
    ASSUME TypeOK, NEW r \in Requests, Sane(r), Once(r), Handle(r)
    PROVE  Once(r)'
  <1>. PICK work \in Works :
            /\ hooks' = [hooks EXCEPT ![r] = @ \o Asked(r, work, "hook")]
            /\ mails' = [mails EXCEPT ![r] =
                  @ \o Asked(r, work, "notice") \o Asked(r, work, "copy")]
            /\ pipe' = [pipe EXCEPT ![r] =
                 (IF r \in Pages THEN @ ELSE <<>>) \o Asked(r, work, "links")]
    BY DEF Handle
  <1>1. /\ hooks[r] = <<>> /\ mails[r] = <<>>
        /\ (IF r \in Pages THEN pipe[r] ELSE <<>>) = <<>>
    BY DEF Handle, Sane
  <1>2. \A k \in Kinds : Asked(r, work, k) \in Seq(Effects)
    BY AskedType
  <1>3. /\ hooks'[r] = Asked(r, work, "hook")
        /\ mails'[r] = Asked(r, work, "notice") \o Asked(r, work, "copy")
        /\ pipe'[r] = Asked(r, work, "links")
    <2>1. {"hook", "notice", "copy", "links"} \subseteq Kinds
      BY DEF Kinds
    <2>2. /\ hooks'[r] = <<>> \o Asked(r, work, "hook")
          /\ mails'[r] = <<>> \o Asked(r, work, "notice") \o Asked(r, work, "copy")
          /\ pipe'[r] = <<>> \o Asked(r, work, "links")
      BY <1>1 DEF TypeOK
    <2>3. \A k \in Kinds : <<>> \o Asked(r, work, k) = Asked(r, work, k)
      BY <1>2
    <2>4. QED
      BY <2>1, <2>2, <2>3
  <1>4. sent'[r] = <<>>
    BY DEF Handle, Sane
  <1>5. /\ Distinct(hooks'[r]) /\ Within(hooks'[r], {"hook"})
        /\ Distinct(mails'[r]) /\ Within(mails'[r], {"notice", "copy"})
        /\ Distinct(pipe'[r]) /\ Within(pipe'[r], {"links"})
    BY <1>3, AskedOnce DEF Kinds
  <1>6. \A q : Fresh(q, sent'[r])
    BY <1>4 DEF Fresh
  <1>7. Distinct(sent'[r])
    BY <1>4 DEF Distinct
  <1>8. QED
    BY <1>5, <1>6, <1>7 DEF Once

LEMMA OnceRunHook ==
    ASSUME TypeOK, NEW r \in Requests, Once(r), RunHook(r)
    PROVE  Once(r)'
  <1>1. /\ hooks[r] \in Seq(Effects) /\ hooks[r] # <<>> /\ sent[r] \in Seq(Effects)
        /\ hooks'[r] = Tail(hooks[r]) /\ sent'[r] = sent[r] \o <<Head(hooks[r])>>
        /\ mails' = mails /\ pipe' = pipe
    BY DEF TypeOK, RunHook, Perform
  <1>2. Fresh(mails[r], sent'[r]) /\ Fresh(pipe[r], sent'[r])
    BY <1>1, PerformOther DEF Once
  <1>3. QED
    BY <1>1, <1>2, PerformHead DEF Once

LEMMA OnceSendMail ==
    ASSUME TypeOK, NEW r \in Requests, Once(r), SendMail(r)
    PROVE  Once(r)'
  <1>1. CASE UNCHANGED <<mails, sent>>
    BY <1>1, OnceFrame DEF SendMail
  <1>2. CASE Perform(r, <<Head(mails[r])>>) /\ mails' = [mails EXCEPT ![r] = Tail(@)]
    <2>1. /\ mails[r] \in Seq(Effects) /\ mails[r] # <<>> /\ sent[r] \in Seq(Effects)
          /\ mails'[r] = Tail(mails[r]) /\ sent'[r] = sent[r] \o <<Head(mails[r])>>
          /\ hooks' = hooks /\ pipe' = pipe
      BY <1>2 DEF TypeOK, SendMail, Perform
    <2>2. Fresh(hooks[r], sent'[r]) /\ Fresh(pipe[r], sent'[r])
      BY <2>1, PerformOther DEF Once
    <2>3. QED
      BY <2>1, <2>2, PerformHead DEF Once
  <1>3. QED
    BY <1>1, <1>2 DEF SendMail

LEMMA OncePipeline ==
    ASSUME TypeOK, NEW r \in Requests, Once(r), ExecutePipeline(r)
    PROVE  Once(r)'
  <1>1. /\ sent[r] \in Seq(Effects) /\ pipe[r] \in Seq(Effects)
        /\ pipe'[r] = <<>> /\ hooks' = hooks /\ mails' = mails
        /\ sent'[r] = sent[r] \o pipe[r] \/ sent'[r] = sent[r]
    BY DEF TypeOK, ExecutePipeline, Perform
  <1>2. CASE sent'[r] = sent[r]
    BY <1>1, <1>2 DEF Once, Distinct, Within, Fresh
  <1>3. CASE sent'[r] = sent[r] \o pipe[r] /\ pipe[r] # <<>>
    <2>1. sent'[r] = sent[r] \o <<Head(pipe[r])>>
      BY <1>1, <1>3, PipeIsShort DEF Once
    <2>2. Fresh(hooks[r], sent'[r]) /\ Fresh(mails[r], sent'[r])
      BY <1>1, <1>3, <2>1, PerformOther DEF Once
    <2>3. Distinct(sent'[r])
      BY <1>1, <1>3, <2>1, PerformHead DEF Once
    <2>4. Distinct(pipe'[r]) /\ Within(pipe'[r], {"links"}) /\ Fresh(pipe'[r], sent'[r])
      BY <1>1 DEF Distinct, Within, Fresh
    <2>5. QED
      BY <1>1, <2>2, <2>3, <2>4 DEF Once
  <1>4. CASE pipe[r] = <<>>
    BY <1>1, <1>2, <1>4
  <1>5. QED
    BY <1>1, <1>2, <1>3, <1>4

LEMMA OnceStep == TypeOK /\ AllSane /\ AllOnce /\ [Next]_vars => AllOnce'
  <1> SUFFICES ASSUME TypeOK, AllSane, AllOnce, [Next]_vars, NEW x \in Requests
               PROVE  Once(x)'
    BY DEF AllOnce
  <1>1. Once(x) /\ Sane(x)
    BY DEF AllOnce, AllSane
  <1>2. ASSUME NEW r \in Requests, Start(r) \/ Step(r) \/ Crash(r)
        PROVE  Once(x)'
    <2>1. CASE x = r
      <3>1. CASE Start(r) \/ Commit(r) \/ Flushed(r) \/ Finish(r) \/ Crash(r)
        BY <1>1, <2>1, <3>1, OnceFrame DEF Start, Commit, Flushed, Finish, Crash, queues
      <3>2. QED
        BY <1>1, <1>2, <2>1, <3>1, OnceSetup, OnceHandle, OnceRunHook, OnceSendMail,
           OncePipeline DEF Step
    <2>2. CASE x # r
      BY <1>1, <1>2, <2>2, StepFrame, OnceFrame
    <2>3. QED
      BY <2>1, <2>2
  <1>3. CASE UNCHANGED vars
    BY <1>1, <1>3, OnceFrame DEF vars, queues
  <1>4. QED
    BY <1>2, <1>3 DEF Next

LEMMA OnceAlways == Spec => []AllOnce
  <1>1. Init => AllOnce
    <2> SUFFICES ASSUME Init, NEW r \in Requests PROVE Once(r)
      BY DEF AllOnce
    <2>1. /\ hooks[r] = <<>> /\ mails[r] = <<>>
          /\ pipe[r] = <<>> /\ sent[r] = <<>>
      BY DEF Init
    <2>2. /\ Distinct(<<>>) /\ Fresh(<<>>, <<>>)
          /\ Within(<<>>, {"hook"}) /\ Within(<<>>, {"notice", "copy"})
          /\ Within(<<>>, {"links"})
      BY DEF Distinct, Within, Fresh
    <2>3. QED
      BY <2>1, <2>2, Zenon DEF Once
  <1>2. TypeOK /\ AllSane /\ AllOnce /\ [Next]_vars => AllOnce'
    BY OnceStep
  <1>3. QED
    BY <1>1, <1>2, RequestTypes, SaneAlways, PTL DEF Spec

\* No mail, callback or command is repeated, whatever was retried.
THEOREM EffectsOnceCorrect == Spec => []EffectsOnce
  <1>1. AllOnce => EffectsOnce
    BY DEF AllOnce, Once, Distinct, EffectsOnce
  <1>2. QED
    BY <1>1, OnceAlways, PTL

-------------------------------------------------------------------------------
(* The refinement *)

LEMMA PromiseInit == Init => Promise!Init
  <1>. SUFFICES ASSUME Init PROVE Promise!Init
    OBVIOUS
  <1>1. Sound \subseteq Requests
    BY RequestsAssumption DEF Sound
  <1>2. Winner = [c \in Sound |-> 0]
    BY <1>1 DEF Init, Winner
  <1>3. Closed = [c \in Sound |-> FALSE]
    <2>1. \A c \in Sound : ~(pc[c] \in {"done", "crashed"})
      BY <1>1 DEF Init
    <2>2. \A c \in Sound : (pc[c] \in {"done", "crashed"}) = FALSE
      BY <2>1
    <2>3. QED
      BY <2>2, Zenon DEF Closed
  <1>4. Outcome = [c \in Sound |-> <<>>]
    BY <1>1 DEF Init, Outcome
  <1>5. QED
    BY <1>2, <1>3, <1>4, Zenon DEF Promise!Init

\* Performing an effect of the committed attempt, of a kind that has not been
\* performed, is a Perform step of the abstract request.
LEMMA PerformMaps ==
    ASSUME TypeOK, NEW c \in Sound, NEW q \in Seq(Effects), q # <<>>, won[c] # 0,
           Of(q, won[c]), Fresh(q, sent[c]), ~Closed[c], Closed' = Closed, won' = won,
           sent' = [sent EXCEPT ![c] = @ \o <<Head(q)>>]
    PROVE  Promise!Perform(c)
  <1>1. c \in Requests /\ Sound \subseteq Requests /\ sent[c] \in Seq(Effects)
    BY RequestsAssumption DEF Sound, TypeOK
  <1>2. Winner[c] = won[c] /\ Winner' = Winner /\ Outcome[c] = sent[c]
    BY DEF Winner, Outcome
  <1>3. PICK k \in Kinds : Head(q) = <<k, won[c]>>
    <2>1. Head(q) \in Effects /\ Head(q)[2] = won[c]
      BY DEF Of
    <2>2. QED
      BY <2>1 DEF Effects
  <1>4. \A i \in DOMAIN Outcome[c] : Outcome[c][i][1] # k
    <2>1. 1 \in DOMAIN q /\ q[1] = <<k, won[c]>>
      BY <1>3
    <2>2. QED
      BY <1>2, <2>1 DEF Fresh
  <1>5. sent'[c] = Append(sent[c], <<k, Winner[c]>>)
    BY <1>1, <1>2, <1>3 DEF TypeOK
  <1>6. \A x \in Sound : x # c => sent'[x] = sent[x]
    BY <1>1 DEF TypeOK
  <1>7. Outcome' = [Outcome EXCEPT ![c] = Append(@, <<k, Winner[c]>>)]
    BY <1>5, <1>6 DEF Outcome
  <1>8. QED
    BY <1>2, <1>4, <1>7 DEF Promise!Perform

\* What of a request the refinement mapping shows.
LEMMA StutterMaps ==
    ASSUME UNCHANGED <<won, pc, sent>>
    PROVE  UNCHANGED Promise!vars
  BY DEF Promise!vars, Winner, Closed, Outcome

\* A step of a request the promise is not made to is not seen.
LEMMA OthersMap ==
    ASSUME TypeOK, NEW r \in Requests, r \notin Sound,
           Start(r) \/ Step(r) \/ Crash(r)
    PROVE  UNCHANGED Promise!vars
  <1>1. \A x \in Sound : pc'[x] = pc[x] /\ won'[x] = won[x] /\ sent'[x] = sent[x]
    BY StepFrame, RequestsAssumption DEF Sound
  <1>2. Winner' = Winner
    BY <1>1 DEF Winner
  <1>3. Closed' = Closed
    BY <1>1 DEF Closed
  <1>4. Outcome' = Outcome
    BY <1>1 DEF Outcome
  <1>5. QED
    BY <1>2, <1>3, <1>4 DEF Promise!vars

\* Every step of a request the promise is made to is a step of AfterCommit, or
\* changes nothing of what AfterCommit speaks of.
LEMMA SoundMaps ==
    ASSUME TypeOK, NEW c \in Sound, c \in Requests, Sane(c), Once(c),
           Start(c) \/ Step(c) \/ Crash(c)
    PROVE  Promise!Next \/ UNCHANGED Promise!vars
  <1>. DEFINE Ended == {"done", "crashed"}
  <1>1. ASSUME pc[c] \notin Ended, pc'[c] \notin Ended,
               \A x \in Sound : x # c => pc'[x] = pc[x]
        PROVE  Closed' = Closed
    <2>1. \A x \in Sound : (pc'[x] \in Ended) = (pc[x] \in Ended)
      BY <1>1
    <2>2. QED
      BY <2>1 DEF Closed
  <1>2. \A x \in Sound : x # c => pc'[x] = pc[x]
    BY StepFrame, RequestsAssumption DEF Sound
  <1>3. c \in Pages /\ ~Swallowed(c)
    BY DEF Sound, Swallowed
  <1>4. ASSUME pc[c] \notin Ended, pc'[c] \notin Ended, UNCHANGED <<won, sent>>
        PROVE  UNCHANGED Promise!vars
    <2>1. Closed' = Closed
      BY <1>1, <1>2, <1>4
    <2>2. QED
      BY <1>4, <2>1 DEF Promise!vars, Winner, Outcome
  <1>5. ASSUME pc[c] = "flush" \/ pc[c] = "pipeline", pc'[c] \notin Ended,
               UNCHANGED won, NEW q \in Seq(Effects), q # <<>>, Of(q, won[c]),
               Fresh(q, sent[c]), sent' = [sent EXCEPT ![c] = @ \o <<Head(q)>>]
        PROVE  Promise!Next
    <2>1. won[c] # 0
      BY <1>3, <1>5 DEF Sane
    <2>2. Closed' = Closed /\ ~Closed[c]
      BY <1>1, <1>2, <1>5 DEF Closed
    <2>3. Promise!Perform(c)
      BY <1>5, <2>1, <2>2, PerformMaps
    <2>4. QED
      BY <2>3 DEF Promise!Next
  <1>6. CASE Start(c)
    BY <1>4, <1>6 DEF Start, GoTo, TypeOK
  <1>7. CASE Setup(c)
    <2>1. pc'[c] \notin Ended
      BY <1>7 DEF Setup, GoTo, TypeOK, Disconnected, Again, FallThrough
    <2>2. QED
      BY <1>4, <1>7, <2>1 DEF Setup
  <1>8. CASE Handle(c)
    <2>1. pc'[c] \notin Ended
      BY <1>8 DEF Handle, GoTo, TypeOK, Disconnected, Again, FallThrough, Raise
    <2>2. QED
      BY <1>4, <1>8, <2>1 DEF Handle
  <1>9. CASE Commit(c)
    <2>1. pc'[c] \notin Ended
      BY <1>9 DEF Commit, GoTo, TypeOK, Conflict, Disconnected, Again, FallThrough,
                  Raise
    <2>2. CASE UNCHANGED won
      BY <1>4, <1>9, <2>1, <2>2 DEF Commit
    <2>3. CASE won' = [won EXCEPT ![c] = try[c]]
      <3>1. Winner' = [Winner EXCEPT ![c] = try[c]] /\ Winner[c] = 0
        <4>1. \A x \in Sound : x \in Requests
          BY RequestsAssumption DEF Sound
        <4>2. won[c] = 0
          BY <1>9 DEF Commit, Sane
        <4>3. \A x \in Sound : won'[x] = IF x = c THEN try[c] ELSE won[x]
          BY <2>3, <4>1 DEF TypeOK
        <4>4. QED
          BY <4>2, <4>3 DEF Winner
      <3>2. Closed' = Closed /\ ~Closed[c]
        BY <1>1, <1>2, <1>9, <2>1 DEF Closed, Commit
      <3>3. Outcome' = Outcome
        BY <1>9 DEF Outcome, Commit
      <3>4. try[c] \in Attempts
        BY DEF TypeOK
      <3>5. Promise!Commit(c)
        BY <3>1, <3>2, <3>3, <3>4 DEF Promise!Commit
      <3>6. QED
        BY <3>5 DEF Promise!Next
    <2>4. QED
      BY <1>9, <2>2, <2>3 DEF Commit
  <1>10. CASE RunHook(c)
    <2>1. won[c] # 0
      BY <1>3, <1>10 DEF Sane, RunHook
    <2>2. hooks[c] \in Seq(Effects) /\ hooks[c] # <<>> /\ Of(hooks[c], won[c])
      BY <1>10, <2>1 DEF RunHook, Sane, TypeOK
    <2>3. QED
      BY <1>5, <1>10, <2>2 DEF RunHook, Perform, Once
  <1>11. CASE SendMail(c)
    <2>1. won[c] # 0
      BY <1>3, <1>11 DEF Sane, SendMail
    <2>2. mails[c] \in Seq(Effects) /\ mails[c] # <<>> /\ Of(mails[c], won[c])
      BY <1>11, <2>1 DEF SendMail, Sane, TypeOK
    <2>4. CASE Perform(c, <<Head(mails[c])>>) /\ UNCHANGED <<pc, reply>>
      BY <1>5, <1>11, <2>2, <2>4 DEF SendMail, Perform, Once
    <2>5. CASE GoTo(c, "pipeline") /\ UNCHANGED sent
      <3>1. pc'[c] = "pipeline"
        BY <2>5 DEF GoTo, TypeOK
      <3>2. QED
        BY <1>4, <1>11, <2>5, <3>1 DEF SendMail
    <2>6. QED
      BY <1>3, <1>11, <2>4, <2>5 DEF SendMail
  <1>12. CASE Flushed(c)
    <2>1. pc'[c] = "pipeline"
      BY <1>12 DEF Flushed, GoTo, TypeOK
    <2>2. QED
      BY <1>4, <1>12, <2>1 DEF Flushed
  <1>13. CASE ExecutePipeline(c)
    <2>1. won[c] # 0
      BY <1>3, <1>13 DEF Sane, ExecutePipeline
    <2>2. pipe[c] \in Seq(Effects) /\ Of(pipe[c], won[c])
      BY <1>13, <2>1 DEF ExecutePipeline, Sane, TypeOK
    <2>3. pc[c] = "pipeline" /\ pc'[c] = "finish" /\ won' = won
      BY <1>13 DEF ExecutePipeline, GoTo, TypeOK
    <2>4. CASE Perform(c, pipe[c])
      <3>1. CASE pipe[c] = <<>>
        <4>1. sent' = sent
          BY <2>4, <3>1 DEF Perform, TypeOK
        <4>2. QED
          BY <1>4, <2>3, <4>1
      <3>2. CASE pipe[c] # <<>>
        <4>1. pipe[c] = <<Head(pipe[c])>>
          BY <2>2, <3>2, PipeIsShort DEF Once
        <4>2. sent' = [sent EXCEPT ![c] = @ \o <<Head(pipe[c])>>]
          BY <2>4, <4>1 DEF Perform
        <4>3. QED
          BY <1>5, <2>2, <2>3, <3>2, <4>2 DEF Once
      <3>3. QED
        BY <3>1, <3>2
    <2>5. CASE UNCHANGED sent
      BY <1>4, <2>3, <2>5
    <2>6. QED
      BY <1>13, <2>4, <2>5 DEF ExecutePipeline
  <1>14. ASSUME pc[c] \notin Ended, UNCHANGED <<won, sent>>,
                pc' = [pc EXCEPT ![c] = "done"] \/ pc' = [pc EXCEPT ![c] = "crashed"]
         PROVE  Promise!Next
    <2>1. pc'[c] \in Ended
      BY <1>14 DEF TypeOK
    <2>2. Closed' = [Closed EXCEPT ![c] = TRUE]
      <3>1. \A x \in Sound : (pc'[x] \in Ended)
                               = (IF x = c THEN TRUE ELSE pc[x] \in Ended)
        BY <1>2, <2>1
      <3>2. QED
        BY <3>1 DEF Closed
    <2>3. Promise!Close(c)
      BY <1>14, <2>2 DEF Promise!Close, Winner, Outcome
    <2>4. QED
      BY <2>3 DEF Promise!Next
  <1>15. CASE Finish(c)
    BY <1>14, <1>15 DEF Finish, GoTo
  <1>16. CASE Crash(c)
    BY <1>14, <1>16 DEF Crash, GoTo
  <1>17. QED
    BY <1>6, <1>7, <1>8, <1>9, <1>10, <1>11, <1>12, <1>13, <1>15, <1>16 DEF Step

\* Pages that keep their connection implement AfterCommit: effects of the
\* committed attempt only, each once, after the commit, none when the request has
\* ended.
THEOREM PagesKeepPromise == Spec => KeepsPromise
  <1>1. Init => Promise!Init
    BY PromiseInit
  <1>2. TypeOK /\ AllSane /\ AllOnce /\ [Next]_vars => [Promise!Next]_(Promise!vars)
    <2>. SUFFICES ASSUME TypeOK, AllSane, AllOnce, [Next]_vars
                  PROVE  Promise!Next \/ UNCHANGED Promise!vars
      OBVIOUS
    <2>1. ASSUME NEW r \in Requests, Start(r) \/ Step(r) \/ Crash(r)
          PROVE  Promise!Next \/ UNCHANGED Promise!vars
      BY <2>1, SoundMaps, OthersMap DEF AllSane, AllOnce
    <2>2. CASE UNCHANGED vars
      BY <2>2, StutterMaps DEF vars
    <2>3. QED
      BY <2>1, <2>2 DEF Next
  <1>3. QED
    BY <1>1, <1>2, RequestTypes, SaneAlways, OnceAlways, PTL
    DEF Spec, KeepsPromise, Promise!Spec
===============================================================================
