------------------------------- MODULE LiveSync -------------------------------
(***************************************************************************)
(* LiveSync: requests publish what they changed in a track, an ordered map *)
(* from granules of time to actions; each agent has a pointer into it; a   *)
(* periodic task uploads to every active agent what lies between its       *)
(* pointer and the granule before the current one, and then moves the      *)
(* pointer.  Time is counted in granules (100 seconds).                    *)
(*                                                                         *)
(* The task works on a snapshot of the database, taken when it starts and  *)
(* renewed by every commit and abort.  A request stamps its action before  *)
(* the transaction that stores it commits.                                 *)
(***************************************************************************)
EXTENDS Integers, FiniteSets

CONSTANTS
  Agents,
  Actions,
  Configured,   \* agents that are registered and active at the start
  FirstGranule,
  MaxTime,      \* bound on the clock
  MaxOps,       \* bound on the administrator's operations
  MaxFaults,    \* bound on failed uploads and crashes of the task
  None          \* no pointer, no agent

ASSUME LiveSyncAssumption ==
    /\ Configured \subseteq Agents
    /\ FirstGranule \in Nat \ {0, 1}
    /\ {MaxTime, MaxOps, MaxFaults} \subseteq Nat
    /\ None \notin Int \cup Agents

VARIABLES
  now,          \* the current granule
  stage,        \* of an action: "none", "stamped", "stored" or "lost"
  granule,      \* the granule an action was stamped with
  registered,   \* agents known to the manager
  active,       \* agents the task runs
  pointer,      \* the position each agent has acknowledged
  pc,           \* the task: "idle", "next", "query", "consume", "upload", "ack"
  todo,         \* agents it has not come to
  agent,        \* the agent being run
  till,         \* the last granule of this run
  batch,        \* the actions it has read
  view,         \* its snapshot of the database
  stale,        \* whether the pointers have been written since that snapshot
  delivered,    \* actions an agent has received
  missed,       \* actions under way when the agent's query passed their granule
  start,        \* where the last activation put the agent's pointer
  before,       \* the actions that had been stamped by then
  inherits,     \* agents replaced by another with their id during a run
  ops, faults   \* counters for the bounds

adminVars == <<registered, active, pointer, start, ops>>
taskVars == <<pc, todo, agent, till, batch, view, stale>>
runVars == <<pc, todo, agent, till, batch, view>>
historyVars == <<delivered, missed, before, inherits>>
vars == <<now, stage, granule, adminVars, taskVars, historyVars, faults>>

Stored == {x \in Actions : stage[x] = "stored"}

\* What a new transaction sees.
Snapshot == [actions |-> Stored, registered |-> registered, active |-> active,
             pointer |-> pointer]

\* Between two runs the task has no connection.
NoView == [actions |-> {}, registered |-> {}, active |-> {},
           pointer |-> [a \in Agents |-> None]]

Positions == {None} \cup Int

Views == [actions : SUBSET Actions, registered : SUBSET Agents,
          active : SUBSET Agents, pointer : [Agents -> Positions]]

WorldTypeOK ==
    /\ now \in Nat
    /\ stage \in [Actions -> {"none", "stamped", "stored", "lost"}]
    /\ granule \in [Actions -> Nat]
    /\ faults \in 0 .. MaxFaults

AdminTypeOK ==
    /\ registered \subseteq Agents /\ active \subseteq Agents
    /\ pointer \in [Agents -> Positions] /\ start \in [Agents -> Positions]
    /\ ops \in 0 .. MaxOps

TaskTypeOK ==
    /\ pc \in {"idle", "next", "query", "consume", "upload", "ack"}
    /\ todo \subseteq Agents
    /\ agent \in Agents \cup {None}
    /\ pc \in {"query", "consume", "upload", "ack"} => agent \in Agents
    /\ till \in Int
    /\ batch \subseteq Actions
    /\ view \in Views /\ stale \in BOOLEAN

HistoryTypeOK ==
    /\ delivered \in [Agents -> SUBSET Actions]
    /\ missed \in [Agents -> SUBSET Actions]
    /\ before \in [Agents -> SUBSET Actions]
    /\ inherits \subseteq Agents

TypeOK == WorldTypeOK /\ AdminTypeOK /\ TaskTypeOK /\ HistoryTypeOK

Init ==
    /\ now = FirstGranule
    /\ stage = [x \in Actions |-> "none"]
    /\ granule = [x \in Actions |-> 0]
    /\ registered = Configured /\ active = Configured
    /\ pointer = [a \in Agents |-> None]
    /\ pc = "idle" /\ todo = {} /\ agent = None /\ till = 0 /\ batch = {}
    /\ view = NoView /\ stale = FALSE
    /\ delivered = [a \in Agents |-> {}]
    /\ missed = [a \in Agents |-> {}]
    /\ start = [a \in Agents |-> None]
    /\ before = [a \in Agents |-> {}]
    /\ inherits = {}
    /\ ops = 0 /\ faults = 0

Tick ==
    /\ now < MaxTime
    /\ now' = now + 1
    /\ UNCHANGED <<stage, granule, adminVars, taskVars, historyVars, faults>>

-------------------------------------------------------------------------------
(* Requests *)

\* requestFinished: the action gets the time of this moment.
Stamp(x) ==
    /\ stage[x] = "none"
    /\ stage' = [stage EXCEPT ![x] = "stamped"]
    /\ granule' = [granule EXCEPT ![x] = now]
    /\ UNCHANGED <<now, adminVars, taskVars, historyVars, faults>>

\* endRequest: a second transaction stores it.
Store(x) ==
    /\ stage[x] = "stamped"
    /\ stage' = [stage EXCEPT ![x] = "stored"]
    /\ UNCHANGED <<now, granule, adminVars, taskVars, historyVars, faults>>

\* That commit is not retried: when it conflicts, the action is gone.
Lose(x) ==
    /\ stage[x] = "stamped"
    /\ stage' = [stage EXCEPT ![x] = "lost"]
    /\ UNCHANGED <<now, granule, adminVars, taskVars, historyVars, faults>>

-------------------------------------------------------------------------------
(* The administrator *)

Operation == ops < MaxOps /\ ops' = ops + 1

\* AddAgent: an inactive agent without a position; one with the same id is
\* replaced.
AddAgent(a) ==
    /\ Operation
    /\ registered' = registered \cup {a}
    /\ active' = active \ {a}
    /\ pointer' = [pointer EXCEPT ![a] = None]
    /\ stale' = TRUE
    /\ delivered' = [delivered EXCEPT ![a] = {}]
    /\ missed' = [missed EXCEPT ![a] = {}]
    /\ start' = [start EXCEPT ![a] = None]
    /\ before' = [before EXCEPT ![a] = {}]
    /\ inherits' = IF pc # "idle" THEN inherits \cup {a} ELSE inherits \ {a}
    /\ UNCHANGED <<now, stage, granule, runVars, faults>>

\* A task that is running keeps the deleted agent in its hands, active as it was.
DeleteAgent(a) ==
    /\ Operation /\ a \in registered
    /\ registered' = registered \ {a}
    /\ pointer' = [pointer EXCEPT ![a] = None]
    /\ stale' = TRUE
    /\ UNCHANGED <<now, stage, granule, active, runVars, historyVars, start,
                   faults>>

\* movePointer, unless the track is empty.
PreActivate(a) ==
    /\ Operation /\ a \in registered
    /\ IF Stored = {}
       THEN UNCHANGED <<pointer, stale, start, before>>
       ELSE /\ pointer' = [pointer EXCEPT ![a] = now]
            /\ stale' = TRUE
            /\ start' = [start EXCEPT ![a] = now]
            /\ before' = [before EXCEPT ![a] = {x \in Actions : stage[x] # "none"}]
    /\ UNCHANGED <<now, stage, granule, registered, active, runVars,
                   delivered, missed, inherits, faults>>

Activate(a) ==
    /\ Operation /\ a \in registered \ active
    /\ active' = active \cup {a}
    /\ UNCHANGED <<now, stage, granule, registered, pointer, start,
                   taskVars, historyVars, faults>>

-------------------------------------------------------------------------------
(* LiveSyncUpdateTask.run *)

\* A commit or an abort: the connection catches up.
Sync == view' = Snapshot /\ stale' = FALSE

Fault == faults < MaxFaults /\ faults' = faults + 1

\* The run of an agent is over, one way or the other.
Leave == agent' = None /\ batch' = {} /\ till' = 0

StopHalfway == UNCHANGED pc /\ Leave /\ todo' = {} /\ view' = NoView
               /\ stale' = FALSE

Stop == pc' = "idle" /\ Leave /\ todo' = {} /\ view' = NoView
        /\ stale' = FALSE

\* The scheduler runs the task in a new transaction.
RunTask ==
    /\ pc = "idle"
    /\ pc' = "next"
    /\ Sync
    /\ todo' = registered
    /\ UNCHANGED <<now, stage, granule, adminVars, historyVars, agent, till, batch,
                   faults>>

\* The next agent of the loop; inactive ones are skipped.
NextAgent ==
    /\ pc = "next"
    /\ IF todo = {}
       THEN Stop
       ELSE \E a \in todo :
              /\ UNCHANGED <<view, stale>>
              /\ todo' = todo \ {a}
              /\ IF a \in view.active
                 THEN agent' = a /\ pc' = "query" /\ UNCHANGED <<till, batch>>
                 ELSE UNCHANGED <<agent, pc, till, batch>>
    /\ UNCHANGED <<now, stage, granule, adminVars, historyVars, faults>>

EntriesBefore(p, t, actions) ==
    {x \in actions : granule[x] < t /\ (p # None => granule[x] > p)}

\* The entries of the track after position p up to t.
Entries(p, t, actions) ==
    {x \in actions : granule[x] <= t /\ (p # None => granule[x] > p)}

\* Actions behind the query that it does not see: stamped but not stored, or
\* stored since the snapshot.
Unseen(t) ==
    {x \in Actions : stage[x] \in {"stamped", "stored"}
                     /\ granule[x] <= t /\ x \notin view.actions}

CurrentGranule == now

\* int_timestamp(nowutc()) / granularity - 1
LastGranule == now - 1

\* agent.run: the clock gives the end of the range, the snapshot the entries.
\* The pointer of a deleted agent is missing: the exception ends the task.
Query ==
    /\ pc = "query"
    /\ IF agent \notin view.registered
       THEN Stop /\ UNCHANGED missed
       ELSE /\ till' = LastGranule
            /\ batch' = Entries(view.pointer[agent], LastGranule, view.actions)
            /\ missed' = [missed EXCEPT ![agent] = @ \cup Unseen(LastGranule)]
            /\ pc' = "consume"
            /\ UNCHANGED <<todo, agent, view, stale>>
    /\ UNCHANGED <<now, stage, granule, adminVars, delivered, before, inherits,
                   faults>>

\* The upload loop aborts the transaction after each record it takes.
Consume ==
    /\ pc = "consume"
    /\ IF batch = {} THEN UNCHANGED <<view, stale>> ELSE Sync
    /\ pc' = "upload"
    /\ UNCHANGED <<now, stage, granule, adminVars, historyVars, todo, agent, till,
                   batch, faults>>

\* All batches are accepted, or some are and then one is refused: agent.run
\* catches the exception and returns None, so that nothing is acknowledged.  After
\* each answer of the server the task commits the time of its last sign of life
\* (setOnRunningListSince).  A record that cannot be generated is left out of its
\* batch and logged, and counts as delivered with it.
Upload ==
    /\ pc = "upload"
    /\ \/ /\ delivered' = [delivered EXCEPT ![agent] = @ \cup batch]
          /\ pc' = "ack"
          /\ IF batch = {} THEN UNCHANGED <<view, stale>> ELSE Sync
          /\ UNCHANGED <<agent, till, batch, faults>>
       \/ /\ Fault
          /\ \E accepted \in SUBSET batch :
                delivered' = [delivered EXCEPT ![agent] = @ \cup accepted]
          /\ pc' = "next" /\ Leave
          /\ Sync \/ UNCHANGED <<view, stale>>
    /\ UNCHANGED <<now, stage, granule, adminVars, missed, before, inherits, todo>>

\* acknowledge and commit.  movePointer raises when the agent is gone or the
\* track is empty; the commit conflicts when the pointers have been written since
\* the snapshot: then the worker runs the task again.
Acknowledge ==
    /\ pc = "ack"
    /\ IF agent \notin view.registered \/ view.actions = {}
       THEN Stop /\ UNCHANGED pointer
       ELSE IF ~stale
       THEN /\ pointer' = [pointer EXCEPT ![agent] = till]
            /\ view' = [Snapshot EXCEPT !.pointer = pointer']
            /\ stale' = FALSE
            /\ pc' = "next" /\ Leave
            /\ UNCHANGED todo
       ELSE /\ pc' = "next" /\ Leave
            /\ Sync /\ todo' = registered
            /\ UNCHANGED pointer
    /\ UNCHANGED <<now, stage, granule, registered, active, start, ops,
                   historyVars, faults>>

\* The worker dies: what has been uploaded stays uploaded.
Crash ==
    /\ pc # "idle" /\ Fault
    /\ Stop
    /\ UNCHANGED <<now, stage, granule, adminVars, historyVars>>

TaskStep == NextAgent \/ Query \/ Consume \/ Upload \/ Acknowledge

Next ==
    \/ Tick
    \/ \E x \in Actions : Stamp(x) \/ Store(x) \/ Lose(x)
    \/ \E a \in Agents :
          AddAgent(a) \/ DeleteAgent(a) \/ PreActivate(a) \/ Activate(a)
    \/ RunTask \/ TaskStep \/ Crash

Spec == Init /\ [][Next]_vars

\* The clock runs, the scheduler runs the task again and again, and a task that
\* runs goes on.
FairSpec == Spec /\ WF_vars(Tick) /\ WF_vars(RunTask) /\ WF_vars(TaskStep)

-------------------------------------------------------------------------------
(* What LiveSync guarantees *)

\* x is behind the pointer of a.
Passed(a, x) == pointer[a] # None /\ granule[x] <= pointer[a]

\* Actions of the granule in which the agent was activated, or of earlier ones.
BeforeStart(a, x) == start[a] # None /\ granule[x] <= start[a]

\* No action is skipped: one that is stored behind an agent's pointer has been
\* delivered to it, whatever uploads fail, tasks die or agents are changed
\* meanwhile.  The exceptions are the actions under way when the query passed
\* their granule, those of the activation's granule and before, and agents that
\* were replaced during a run of the task, whose position their successor gets.
NothingSkipped ==
    \A a \in registered \ inherits, x \in Stored :
        Passed(a, x) => x \in delivered[a] \cup missed[a] \/ BeforeStart(a, x)

\* Acknowledging moves the pointer to a granule that is over, so that nothing
\* more can be stamped behind it; only an activation puts it on the current one.
AcknowledgedIsOver ==
    \A a \in registered :
        pointer[a] # None => pointer[a] < now \/ pointer[a] = start[a]

\* An active agent receives every action that is stored, unless it was missed or
\* lies before the activation, or the agent is replaced or deleted meanwhile.
EventuallyDelivered ==
    \A a \in Configured, x \in Actions :
        stage[x] = "stored" /\ granule[x] < MaxTime
        /\ a \in active \cap registered
            ~> \/ x \in delivered[a] \cup missed[a]
               \/ BeforeStart(a, x)
               \/ a \in inherits \/ a \notin active \cap registered

\* Of preActivate: "this means everything from the pointer to present will be
\* considered when the next update is done".
RecordedIsDelivered ==
    \A a \in registered \ inherits, x \in Stored :
        start[a] # None /\ x \notin before[a] \cup missed[a]
        /\ Passed(a, x) /\ pointer[a] > granule[x]
            => x \in delivered[a]
===============================================================================
