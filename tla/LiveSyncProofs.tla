---------------------------- MODULE LiveSyncProofs ----------------------------
(***************************************************************************)
(* Proofs about LiveSync: types, where pointers stand, and that no action  *)
(* is skipped.                                                             *)
(***************************************************************************)
EXTENDS LiveSync, TLAPS

-------------------------------------------------------------------------------
(* Types *)

LEMMA SnapshotType == TypeOK => Snapshot \in Views
  BY DEF TypeOK, AdminTypeOK, Snapshot, Views, Stored

LEMMA NoViewType == NoView \in Views
  BY DEF NoView, Views, Positions

LEMMA TypeInit == Init => TypeOK
  <1> SUFFICES ASSUME Init PROVE TypeOK
    OBVIOUS
  <1>1. WorldTypeOK
    BY LiveSyncAssumption DEF Init, WorldTypeOK
  <1>2. AdminTypeOK
    BY LiveSyncAssumption DEF Init, AdminTypeOK, Positions
  <1>3. TaskTypeOK
    <2>1. till \in Int
      BY DEF Init
    <2>2. /\ pc \in {"idle", "next", "query", "consume", "upload", "ack"}
          /\ pc \notin {"query", "consume", "upload", "ack"}
      BY DEF Init
    <2>3. QED
      BY <2>1, <2>2, NoViewType, Zenon DEF Init, TaskTypeOK
  <1>4. HistoryTypeOK
    BY DEF Init, HistoryTypeOK
  <1>5. QED
    BY <1>1, <1>2, <1>3, <1>4 DEF TypeOK

\* One step of the administrator, with the counter of operations.
LEMMA AdminType ==
    ASSUME TypeOK, NEW a \in Agents,
           AddAgent(a) \/ DeleteAgent(a) \/ PreActivate(a) \/ Activate(a)
    PROVE  TypeOK'
  <1>1. ops' \in 0 .. MaxOps
    BY LiveSyncAssumption
    DEF AddAgent, DeleteAgent, PreActivate, Activate, Operation, TypeOK, AdminTypeOK
  <1>2. None \in Positions /\ now \in Positions
    BY DEF Positions, TypeOK, WorldTypeOK
  <1>3. WorldTypeOK'
    BY DEF AddAgent, DeleteAgent, PreActivate, Activate, TypeOK, WorldTypeOK
  <1>4. AdminTypeOK'
    <2>1. registered' \subseteq Agents /\ active' \subseteq Agents
      BY DEF AddAgent, DeleteAgent, PreActivate, Activate, TypeOK, AdminTypeOK
    <2>2. pointer' \in [Agents -> Positions] /\ start' \in [Agents -> Positions]
      BY <1>2
      DEF AddAgent, DeleteAgent, PreActivate, Activate, TypeOK, AdminTypeOK
    <2>3. QED
      BY <1>1, <2>1, <2>2 DEF AdminTypeOK
  <1>5. TaskTypeOK'
    BY DEF AddAgent, DeleteAgent, PreActivate, Activate, TypeOK, TaskTypeOK,
           runVars, taskVars
  <1>6. HistoryTypeOK'
    BY DEF AddAgent, DeleteAgent, PreActivate, Activate, TypeOK, HistoryTypeOK,
           historyVars, WorldTypeOK
  <1>7. QED
    BY <1>3, <1>4, <1>5, <1>6 DEF TypeOK

\* A task that leaves its agent, and one that stops.
LEMMA LeaveType ==
    ASSUME Leave, pc' \in {"idle", "next"}, todo' \subseteq Agents,
           view' \in Views, stale' \in BOOLEAN
    PROVE  TaskTypeOK'
  <1>1. till' \in Int
    BY DEF Leave
  <1>2. batch' \subseteq Actions /\ agent' \in Agents \cup {None}
    BY DEF Leave
  <1>3. /\ pc' \in {"idle", "next", "query", "consume", "upload", "ack"}
        /\ pc' \notin {"query", "consume", "upload", "ack"}
    OBVIOUS
  <1>4. QED
    BY <1>1, <1>2, <1>3, Zenon DEF TaskTypeOK

LEMMA StopType ==
    ASSUME Stop
    PROVE  TaskTypeOK'
  <1>1. Leave /\ pc' \in {"idle", "next"} /\ view' \in Views
    BY NoViewType DEF Stop
  <1>2. todo' \subseteq Agents
    BY DEF Stop
  <1>3. stale' \in BOOLEAN
    BY DEF Stop
  <1>4. QED
    BY <1>1, <1>2, <1>3, LeaveType

LEMMA TaskType ==
    ASSUME TypeOK, RunTask \/ TaskStep \/ Crash
    PROVE  TypeOK'
  <1>1. WorldTypeOK'
    BY LiveSyncAssumption
    DEF RunTask, TaskStep, NextAgent, Query, Consume, Upload, Acknowledge, Crash,
        Fault, TypeOK, WorldTypeOK
  <1>2. AdminTypeOK'
    <2>1. CASE Acknowledge
      BY <2>1 DEF Acknowledge, TypeOK, AdminTypeOK, TaskTypeOK, Positions
    <2>2. CASE ~Acknowledge
      BY <2>2 DEF RunTask, TaskStep, NextAgent, Query, Consume, Upload, Crash,
                  adminVars, TypeOK, AdminTypeOK
    <2>3. QED
      BY <2>1, <2>2
  <1>3. HistoryTypeOK'
    <2>1. CASE Query
      <3>1. Unseen(LastGranule) \subseteq Actions
        BY DEF Unseen
      <3>2. missed' \in [Agents -> SUBSET Actions]
        BY <2>1, <3>1 DEF Query, TypeOK, HistoryTypeOK
      <3>3. QED
        BY <2>1, <3>2 DEF Query, TypeOK, HistoryTypeOK
    <2>2. CASE Upload
      <3>1. \E S \in SUBSET batch :
               delivered' = [delivered EXCEPT ![agent] = @ \cup S]
        BY <2>2 DEF Upload
      <3>2. delivered' \in [Agents -> SUBSET Actions]
        BY <3>1 DEF TypeOK, HistoryTypeOK, TaskTypeOK
      <3>3. QED
        BY <2>2, <3>2 DEF Upload, TypeOK, HistoryTypeOK
    <2>3. CASE ~Query /\ ~Upload
      BY <2>3 DEF RunTask, TaskStep, NextAgent, Consume, Acknowledge, Crash,
                  historyVars, TypeOK, HistoryTypeOK
    <2>4. QED
      BY <2>1, <2>2, <2>3
  <1>4. TaskTypeOK'
    <2>1. CASE RunTask
      BY <2>1, SnapshotType DEF RunTask, Sync, TypeOK, TaskTypeOK, AdminTypeOK
    <2>2. CASE NextAgent
      BY <2>2, StopType DEF NextAgent, TypeOK, TaskTypeOK
    <2>3. CASE Query
      <3>1. CASE agent \notin view.registered
        BY <2>3, <3>1, StopType DEF Query
      <3>2. CASE agent \in view.registered
        <4>1. Entries(view.pointer[agent], LastGranule, view.actions) \subseteq Actions
          BY DEF Entries, Views, TypeOK, TaskTypeOK
        <4>2. LastGranule \in Int
          BY DEF LastGranule, TypeOK, WorldTypeOK
        <4>3. QED
          BY <2>3, <3>2, <4>1, <4>2 DEF Query, TypeOK, TaskTypeOK
      <3>3. QED
        BY <3>1, <3>2
    <2>4. CASE Consume
      BY <2>4, SnapshotType DEF Consume, Sync, TypeOK, TaskTypeOK
    <2>5. CASE Upload
      <3>1. view' \in Views /\ stale' \in BOOLEAN
        BY <2>5, SnapshotType DEF Upload, Sync, TypeOK, TaskTypeOK
      <3>2. CASE Leave /\ pc' = "next" /\ todo' = todo
        BY <3>1, <3>2, LeaveType DEF TypeOK, TaskTypeOK
      <3>3. CASE /\ pc = "upload" /\ pc' = "ack"
                 /\ UNCHANGED <<agent, till, batch, todo>>
        BY <3>1, <3>3 DEF TypeOK, TaskTypeOK
      <3>4. QED
        BY <2>5, <3>2, <3>3 DEF Upload
    <2>6. CASE Acknowledge
      <3>1. CASE agent \notin view.registered \/ view.actions = {}
        BY <2>6, <3>1, StopType DEF Acknowledge
      <3>2. CASE ~(agent \notin view.registered \/ view.actions = {}) /\ ~stale
        <4>1. view' = [actions |-> Stored, registered |-> registered,
                       active |-> active, pointer |-> pointer']
          BY <2>6, <3>2 DEF Acknowledge, Snapshot
        <4>2. view' \in Views
          BY <1>2, <4>1 DEF Views, Stored, TypeOK, AdminTypeOK
        <4>3. QED
          <5>1. Leave /\ pc' = "next" /\ todo' = todo /\ stale' = FALSE
            BY <2>6, <3>2 DEF Acknowledge
          <5>2. QED
            BY <4>2, <5>1, LeaveType DEF TypeOK, TaskTypeOK
      <3>3. CASE ~(agent \notin view.registered \/ view.actions = {}) /\ stale
        <4>1. Leave /\ pc' = "next" /\ todo' = registered /\ Sync
          BY <2>6, <3>3 DEF Acknowledge
        <4>2. QED
          BY <4>1, LeaveType, SnapshotType DEF Sync, TypeOK, AdminTypeOK
      <3>4. QED
        BY <3>1, <3>2, <3>3
    <2>7. CASE Crash
      BY <2>7, StopType DEF Crash
    <2>8. QED
      BY <2>1, <2>2, <2>3, <2>4, <2>5, <2>6, <2>7 DEF TaskStep
  <1>5. QED
    BY <1>1, <1>2, <1>3, <1>4 DEF TypeOK

LEMMA TypeStep == TypeOK /\ [Next]_vars => TypeOK'
  <1> SUFFICES ASSUME TypeOK, [Next]_vars PROVE TypeOK'
    OBVIOUS
  <1>1. CASE Tick
    BY <1>1 DEF Tick, TypeOK, WorldTypeOK, AdminTypeOK, TaskTypeOK, HistoryTypeOK,
                adminVars, taskVars, historyVars
  <1>2. ASSUME NEW x \in Actions, Stamp(x) \/ Store(x) \/ Lose(x) PROVE TypeOK'
    BY <1>2 DEF Stamp, Store, Lose, TypeOK, WorldTypeOK, AdminTypeOK, TaskTypeOK,
                HistoryTypeOK, adminVars, taskVars, historyVars
  <1>3. CASE UNCHANGED vars
    BY <1>3 DEF vars, TypeOK, WorldTypeOK, AdminTypeOK, TaskTypeOK, HistoryTypeOK,
                adminVars, taskVars, historyVars
  <1>4. QED
    BY <1>1, <1>2, <1>3, AdminType, TaskType DEF Next

\* The type invariant, for any agents, actions and bounds.
THEOREM LiveSyncTypes == Spec => []TypeOK
  BY TypeInit, TypeStep, PTL DEF Spec

-------------------------------------------------------------------------------
(* Where pointers stand *)

InRun == {"consume", "upload", "ack"}

Clocks ==
    /\ \A a \in Agents : start[a] # None => start[a] <= now
    /\ pc \in InRun => till < now
    /\ AcknowledgedIsOver
    /\ pc # "idle" /\ ~stale => view.registered = registered
    /\ \A a \in Agents \ registered : pointer[a] = None

LEMMA ClocksInit == Init => Clocks
  BY DEF Init, Clocks, AcknowledgedIsOver, InRun

LEMMA ClocksStep == TypeOK /\ Clocks /\ [Next]_vars => Clocks'
  <1> SUFFICES ASSUME TypeOK, Clocks, [Next]_vars PROVE Clocks'
    OBVIOUS
  <1>. USE DEF Clocks, AcknowledgedIsOver, InRun, TypeOK, WorldTypeOK, AdminTypeOK, TaskTypeOK,
             Positions
  <1>1. CASE Tick
    BY <1>1 DEF Tick, adminVars, taskVars
  <1>2. ASSUME NEW x \in Actions, Stamp(x) \/ Store(x) \/ Lose(x) PROVE Clocks'
    BY <1>2 DEF Stamp, Store, Lose, adminVars, taskVars
  <1>3. ASSUME NEW a \in Agents, AddAgent(a) PROVE Clocks'
    BY <1>3 DEF AddAgent, runVars
  <1>4. ASSUME NEW a \in Agents, DeleteAgent(a) PROVE Clocks'
    BY <1>4 DEF DeleteAgent, runVars
  <1>5. ASSUME NEW a \in Agents, PreActivate(a) PROVE Clocks'
    BY <1>5, LiveSyncAssumption DEF PreActivate, runVars
  <1>6. ASSUME NEW a \in Agents, Activate(a) PROVE Clocks'
    BY <1>6 DEF Activate, taskVars
  <1>7. CASE RunTask
    BY <1>7 DEF RunTask, adminVars, Sync, Snapshot
  <1>8. CASE NextAgent
    BY <1>8 DEF NextAgent, adminVars, Stop
  <1>9. CASE Query
    BY <1>9 DEF Query, adminVars, Stop, LastGranule
  <1>10. CASE Consume
    BY <1>10 DEF Consume, adminVars, Sync, Snapshot
  <1>11. CASE Upload
    <2>1. UNCHANGED <<now, registered, active, start, pointer>> /\ pc = "upload"
      BY <1>11 DEF Upload, adminVars
    <2>2. UNCHANGED <<view, stale>> \/ view' = Snapshot
      BY <1>11 DEF Upload, Sync
    <2>3. pc' = "next" \/ (pc' = "ack" /\ UNCHANGED <<agent, till>>)
      BY <1>11 DEF Upload
    <2>4. QED
      BY <2>1, <2>2, <2>3 DEF Snapshot
  <1>12. CASE Acknowledge
    <2>1. CASE pointer' = pointer
      BY <1>12, <2>1 DEF Acknowledge, Stop, Sync, Snapshot
    <2>2. CASE pointer' = [pointer EXCEPT ![agent] = till] /\ pc' = "next"
               /\ agent \in view.registered /\ ~stale
      <3>1. UNCHANGED <<now, registered, start>>
        BY <1>12 DEF Acknowledge
      <3>0. pc = "ack"
        BY <1>12 DEF Acknowledge
      <3>2. agent \in registered /\ agent \in Agents /\ till < now
        BY <2>2, <3>0
      <3>3. view' = [Snapshot EXCEPT !.pointer = pointer']
        BY <1>12, <2>2 DEF Acknowledge, Stop
      <3>4. view'.registered = registered
        BY <3>3 DEF Snapshot
      <3>5. QED
        BY <2>2, <3>1, <3>2, <3>4
    <2>3. QED
      BY <1>12, <2>1, <2>2 DEF Acknowledge
  <1>13. CASE Crash
    BY <1>13 DEF Crash, adminVars, Stop
  <1>14. CASE UNCHANGED vars
    BY <1>14 DEF vars, adminVars, taskVars
  <1>15. QED
    BY <1>1, <1>2, <1>3, <1>4, <1>5, <1>6, <1>7, <1>8, <1>9, <1>10, <1>11,
       <1>12, <1>13, <1>14 DEF Next, TaskStep

\* Acknowledging moves a pointer to a granule that is over, for any instance.
THEOREM AcknowledgedIsOverCorrect == Spec => []AcknowledgedIsOver
  <1>1. Init => TypeOK /\ Clocks
    BY TypeInit, ClocksInit
  <1>2. TypeOK /\ Clocks /\ [Next]_vars => (TypeOK /\ Clocks)'
    BY TypeStep, ClocksStep
  <1>3. Clocks => AcknowledgedIsOver
    BY DEF Clocks
  <1>4. QED
    BY <1>1, <1>2, <1>3, PTL DEF Spec

-------------------------------------------------------------------------------
(* No action is skipped *)

Live == {x \in Actions : stage[x] \in {"stamped", "stored"}}

Settled(a, x) == x \in delivered[a] \cup missed[a] \/ BeforeStart(a, x)

\* A position p of an agent a is sound: every granule up to it is over or lies
\* within what the activation leaves out, and its actions are settled.
Sound(a, p) ==
    p # None =>
        /\ p < now \/ (start[a] # None /\ p <= start[a])
        /\ \A x \in Live : granule[x] <= p => Settled(a, x)

\* What is being uploaded settles the granules up to the end of the run.
Uploading(a) ==
    agent = a /\ pc \in InRun =>
        \A x \in Live : granule[x] <= till
            => Settled(a, x) \/ (pc # "ack" /\ x \in batch)

\* The task may acknowledge from a snapshot, so that positions in it matter as
\* much as the stored ones.
Kept ==
    \A a \in registered \ inherits :
        /\ Sound(a, pointer[a])
        /\ pc # "idle" => Sound(a, view.pointer[a])
        /\ Uploading(a)

LEMMA KeptInit == Init => Kept
  BY LiveSyncAssumption DEF Init, Kept, Sound, Uploading, InRun

\* A position stays sound while time passes, an activation moves the start
\* forward, actions arrive with the current time and more is settled.
LEMMA SoundStays ==
    ASSUME TypeOK, Clocks, NEW a \in Agents, TypeOK',
           now <= now',
           start'[a] = start[a] \/ start'[a] = now,
           delivered[a] \subseteq delivered'[a], missed[a] \subseteq missed'[a],
           \A x \in Live' : \/ x \in Live /\ granule'[x] = granule[x]
                            \/ granule'[x] = now
    PROVE  /\ \A p \in Positions : Sound(a, p) => Sound(a, p)'
           /\ \A x \in Live : granule'[x] = granule[x] /\ Settled(a, x) => Settled(a, x)'
  <1>0. /\ now \in Int /\ now' \in Int
        /\ start[a] \in Positions /\ start'[a] \in Positions
        /\ \A x \in Actions : granule[x] \in Int /\ granule'[x] \in Int
        /\ start[a] # None => start[a] <= now
        /\ None \notin Int
    BY LiveSyncAssumption
    DEF TypeOK, WorldTypeOK, AdminTypeOK, HistoryTypeOK, Clocks
  <1>1. start[a] # None => start'[a] # None /\ start[a] <= start'[a]
    BY <1>0 DEF Positions
  <1>2. \A x \in Live : granule'[x] = granule[x] /\ Settled(a, x) => Settled(a, x)'
    BY <1>0, <1>1 DEF Settled, BeforeStart, Live, Positions
  <1>3. ASSUME NEW p \in Positions, Sound(a, p), p # None
        PROVE  Sound(a, p)'
    <2>1. p < now' \/ (start'[a] # None /\ p <= start'[a])
      BY <1>0, <1>1, <1>3 DEF Sound, Positions
    <2>2. ASSUME NEW x \in Live', granule'[x] <= p PROVE Settled(a, x)'
      <3>1. CASE x \in Live /\ granule'[x] = granule[x]
        BY <1>2, <1>3, <2>2, <3>1 DEF Sound
      <3>2. CASE granule'[x] = now
        <4>1. start[a] # None /\ now <= start[a]
          BY <1>0, <1>3, <2>2, <3>2 DEF Sound, Positions
        <4>2. QED
          BY <1>0, <1>1, <3>2, <4>1 DEF Settled, BeforeStart, Positions
      <3>3. QED
        BY <3>1, <3>2
    <2>3. QED
      BY <2>1, <2>2 DEF Sound
  <1>4. \A p \in Positions : p = None => Sound(a, p)'
    BY DEF Sound
  <1>5. QED
    BY <1>2, <1>3, <1>4

\* Actions a request stamps or stores, and the clock.
LEMMA KeptWorld ==
    ASSUME TypeOK, Clocks, Kept, TypeOK',
           UNCHANGED <<registered, active, pointer, start>>,
           UNCHANGED <<pc, agent, till, batch, view>>,
           UNCHANGED <<delivered, missed, inherits>>,
           now <= now',
           \A x \in Live' : \/ x \in Live /\ granule'[x] = granule[x]
                            \/ granule'[x] = now
    PROVE  Kept'
  <1> SUFFICES ASSUME NEW a \in registered \ inherits
               PROVE  /\ Sound(a, pointer[a])'
                      /\ pc # "idle" => Sound(a, view.pointer[a])'
                      /\ Uploading(a)'
    BY DEF Kept
  <1>1. /\ a \in Agents /\ Sound(a, pointer[a])
        /\ pc # "idle" => Sound(a, view.pointer[a])
        /\ Uploading(a)
        /\ pointer[a] \in Positions /\ view.pointer[a] \in Positions
    BY DEF Kept, TypeOK, AdminTypeOK, TaskTypeOK, Views
  <1>2. /\ \A p \in Positions : Sound(a, p) => Sound(a, p)'
        /\ \A x \in Live : granule'[x] = granule[x] /\ Settled(a, x) => Settled(a, x)'
    BY <1>1, SoundStays
  <1>3. Sound(a, pointer[a])' /\ (pc # "idle" => Sound(a, view.pointer[a])')
    BY <1>1, <1>2 DEF Sound
  <1>4. ASSUME agent = a, pc \in InRun, NEW x \in Live', granule'[x] <= till
        PROVE  Settled(a, x)' \/ (pc # "ack" /\ x \in batch)
    <2>1. till < now /\ till \in Int /\ now \in Int
      BY <1>4 DEF Clocks, TypeOK, TaskTypeOK, WorldTypeOK
    <2>2. x \in Live /\ granule'[x] = granule[x]
      BY <1>4, <2>1
    <2>3. QED
      BY <1>1, <1>2, <1>4, <2>2 DEF Uploading
  <1>5. QED
    BY <1>3, <1>4 DEF Uploading

\* An operation of the administrator.
LEMMA KeptAdmin ==
    ASSUME TypeOK, Clocks, Kept, TypeOK', NEW b \in Agents,
           AddAgent(b) \/ DeleteAgent(b) \/ PreActivate(b) \/ Activate(b)
    PROVE  Kept'
  <1> SUFFICES ASSUME NEW a \in registered' \ inherits'
               PROVE  /\ Sound(a, pointer[a])'
                      /\ pc' # "idle" => Sound(a, view.pointer[a])'
                      /\ Uploading(a)'
    BY DEF Kept
  <1>1. /\ UNCHANGED <<now, stage, granule, pc, agent, till, batch, view>>
        /\ a \in Agents
    BY DEF AddAgent, DeleteAgent, PreActivate, Activate, runVars, taskVars,
           TypeOK, AdminTypeOK
  <1>2. CASE AddAgent(b) /\ a = b
    <2>1. pc = "idle" /\ pointer'[a] = None
      BY <1>2 DEF AddAgent, TypeOK, AdminTypeOK
    <2>2. QED
      BY <1>1, <2>1 DEF Sound, Uploading, InRun
  <1>3. CASE ~(AddAgent(b) /\ a = b)
    <2>1. /\ a \in registered \ inherits
          /\ delivered'[a] = delivered[a] /\ missed'[a] = missed[a]
          /\ start'[a] = start[a] \/ start'[a] = now
      BY <1>1, <1>3
      DEF AddAgent, DeleteAgent, PreActivate, Activate, historyVars,
          TypeOK, AdminTypeOK, HistoryTypeOK
    <2>2. /\ Sound(a, pointer[a])
          /\ pc # "idle" => Sound(a, view.pointer[a])
          /\ Uploading(a)
          /\ pointer[a] \in Positions /\ view.pointer[a] \in Positions
      BY <1>1, <2>1 DEF Kept, TypeOK, AdminTypeOK, TaskTypeOK, Views
    <2>3. now <= now' /\ \A x \in Live' : x \in Live /\ granule'[x] = granule[x]
      BY <1>1 DEF Live, TypeOK, WorldTypeOK
    <2>4. /\ \A p \in Positions : Sound(a, p) => Sound(a, p)'
          /\ \A x \in Live : granule'[x] = granule[x] /\ Settled(a, x) => Settled(a, x)'
      BY <1>1, <2>1, <2>3, SoundStays
    <2>5. Sound(a, pointer[a])'
      <3>1. CASE pointer'[a] = pointer[a]
        BY <2>2, <2>4, <3>1 DEF Sound
      <3>2. CASE pointer'[a] = None
        BY <3>2 DEF Sound
      <3>3. CASE pointer'[a] = now /\ start'[a] = now
        BY <1>1, <3>3, LiveSyncAssumption
        DEF Sound, Settled, BeforeStart, TypeOK, WorldTypeOK
      <3>4. QED
        BY <1>1, <1>3, <3>1, <3>2, <3>3
        DEF AddAgent, DeleteAgent, PreActivate, Activate, TypeOK, AdminTypeOK
    <2>6. pc' # "idle" => Sound(a, view.pointer[a])'
      BY <1>1, <2>2, <2>4 DEF Sound
    <2>7. Uploading(a)'
      BY <1>1, <2>2, <2>3, <2>4 DEF Uploading
    <2>8. QED
      BY <2>5, <2>6, <2>7
  <1>4. QED
    BY <1>2, <1>3

\* A step of the task, agent by agent.
LEMMA KeptTask ==
    ASSUME TypeOK, Clocks, Kept, TypeOK', RunTask \/ TaskStep \/ Crash
    PROVE  Kept'
  <1> SUFFICES ASSUME NEW a \in registered' \ inherits'
               PROVE  /\ Sound(a, pointer[a])'
                      /\ pc' # "idle" => Sound(a, view.pointer[a])'
                      /\ Uploading(a)'
    BY DEF Kept
  <1>1. /\ UNCHANGED <<now, stage, granule, registered, start, inherits>>
        /\ a \in registered \ inherits /\ a \in Agents
    BY DEF RunTask, TaskStep, NextAgent, Query, Consume, Upload, Acknowledge, Crash,
           adminVars, historyVars, TypeOK, AdminTypeOK
  <1>2. /\ Sound(a, pointer[a])
        /\ pc # "idle" => Sound(a, view.pointer[a])
        /\ Uploading(a)
        /\ pointer[a] \in Positions /\ view.pointer[a] \in Positions
    BY <1>1 DEF Kept, TypeOK, AdminTypeOK, TaskTypeOK, Views
  <1>3. delivered[a] \subseteq delivered'[a] /\ missed[a] \subseteq missed'[a]
    <2>1. CASE Query
      BY <1>1, <2>1 DEF Query, TypeOK, HistoryTypeOK
    <2>2. CASE Upload
      BY <1>1, <2>2 DEF Upload, TypeOK, HistoryTypeOK
    <2>3. CASE ~Query /\ ~Upload
      BY <2>3 DEF RunTask, TaskStep, NextAgent, Consume, Acknowledge, Crash,
                  historyVars
    <2>4. QED
      BY <2>1, <2>2, <2>3
  <1>4. now <= now' /\ \A x \in Live' : x \in Live /\ granule'[x] = granule[x]
    BY <1>1 DEF Live, TypeOK, WorldTypeOK
  <1>5. /\ \A p \in Positions : Sound(a, p) => Sound(a, p)'
        /\ \A x \in Live : Settled(a, x) => Settled(a, x)'
    BY <1>1, <1>3, <1>4, SoundStays
  <1>6. /\ pointer' = pointer => Sound(a, pointer[a])'
        /\ pc # "idle" /\ view' = view => Sound(a, view.pointer[a])'
        /\ view'.pointer[a] = pointer[a] => Sound(a, view.pointer[a])'
    BY <1>2, <1>5 DEF Sound
  <1>7. pc' \notin InRun => Uploading(a)'
    BY DEF Uploading
  <1>8. CASE RunTask
    BY <1>6, <1>7, <1>8 DEF RunTask, Sync, Snapshot, adminVars, InRun
  <1>9. CASE NextAgent
    BY <1>6, <1>7, <1>9 DEF NextAgent, Stop, adminVars, InRun
  <1>10. CASE Crash
    BY <1>6, <1>7, <1>10 DEF Crash, Stop, adminVars, InRun
  <1>11. CASE Query
    <2>1. pointer' = pointer /\ pc = "query"
      BY <1>11 DEF Query, adminVars
    <2>2. CASE agent \notin view.registered
      BY <1>6, <1>7, <1>11, <2>1, <2>2 DEF Query, Stop, InRun
    <2>3. CASE agent \in view.registered
      <3>1. /\ till' = LastGranule /\ view' = view /\ agent' = agent
            /\ batch' = Entries(view.pointer[agent], LastGranule, view.actions)
            /\ missed' = [missed EXCEPT ![agent] = @ \cup Unseen(LastGranule)]
            /\ pc' = "consume"
        BY <1>11, <2>3 DEF Query
      <3>2. ASSUME agent = a, NEW x \in Live, granule[x] <= LastGranule
            PROVE  Settled(a, x)' \/ x \in batch'
        <4>1. CASE x \notin view.actions
          <5>1. x \in Unseen(LastGranule)
            BY <3>2, <4>1 DEF Unseen, Live
          <5>2. x \in missed'[a]
            BY <1>1, <3>1, <3>2, <5>1 DEF TypeOK, HistoryTypeOK
          <5>3. QED
            BY <5>2 DEF Settled
        <4>2. CASE x \in view.actions /\ view.pointer[a] = None
          BY <3>1, <3>2, <4>2 DEF Entries
        <4>3. CASE x \in view.actions /\ view.pointer[a] # None
          <5>1. /\ view.pointer[a] \in Int /\ granule[x] \in Int
                /\ \A y \in Live : granule[y] <= view.pointer[a] => Settled(a, y)
            BY <1>2, <2>1, <4>3 DEF Sound, Positions, Live, TypeOK, WorldTypeOK
          <5>2. CASE granule[x] <= view.pointer[a]
            BY <1>5, <5>1, <5>2
          <5>3. CASE granule[x] > view.pointer[a]
            BY <3>1, <3>2, <4>3, <5>3 DEF Entries
          <5>4. QED
            BY <5>1, <5>2, <5>3
        <4>4. QED
          BY <4>1, <4>2, <4>3
      <3>3. Uploading(a)'
        BY <1>1, <1>4, <3>1, <3>2 DEF Uploading
      <3>4. QED
        BY <1>6, <2>1, <3>1, <3>3
    <2>4. QED
      BY <2>2, <2>3
  <1>12. CASE Consume
    <2>1. /\ pointer' = pointer /\ pc = "consume" /\ pc' = "upload"
          /\ UNCHANGED <<agent, till, batch>>
          /\ view' = view \/ view' = Snapshot
      BY <1>12 DEF Consume, Sync, adminVars
    <2>2. Sound(a, view.pointer[a])'
      BY <1>6, <2>1 DEF Snapshot
    <2>3. Uploading(a)'
      BY <1>2, <1>4, <1>5, <1>1, <2>1 DEF Uploading, InRun
    <2>4. QED
      BY <1>6, <2>1, <2>2, <2>3
  <1>13. CASE Upload
    <2>1. /\ pointer' = pointer /\ pc = "upload"
          /\ view' = view \/ view' = Snapshot
      BY <1>13 DEF Upload, Sync, adminVars
    <2>2. Sound(a, view.pointer[a])'
      BY <1>6, <2>1 DEF Snapshot
    <2>3. CASE pc' = "next"
      BY <1>6, <1>7, <2>1, <2>3, <2>2 DEF InRun
    <2>4. CASE /\ delivered' = [delivered EXCEPT ![agent] = @ \cup batch]
               /\ pc' = "ack" /\ UNCHANGED <<agent, till, batch>>
      <3>1. ASSUME agent = a, NEW x \in Live, granule[x] <= till
            PROVE  Settled(a, x)'
        <4>1. Settled(a, x) \/ x \in batch
          BY <1>2, <2>1, <3>1 DEF Uploading, InRun
        <4>2. CASE x \in batch
          BY <1>1, <2>4, <3>1, <4>2 DEF Settled, TypeOK, HistoryTypeOK
        <4>3. QED
          BY <1>5, <4>1, <4>2
      <3>2. Uploading(a)'
        BY <1>1, <1>4, <2>4, <3>1 DEF Uploading
      <3>3. QED
        BY <1>6, <2>1, <2>2, <3>2
    <2>5. QED
      BY <1>13, <2>3, <2>4 DEF Upload
  <1>14. CASE Acknowledge
    <2>1. pc = "ack" /\ pc' \notin InRun
      BY <1>14 DEF Acknowledge, Stop, InRun
    <2>2. CASE agent \notin view.registered \/ view.actions = {}
      BY <1>6, <1>7, <1>14, <2>1, <2>2 DEF Acknowledge, Stop
    <2>3. CASE ~(agent \notin view.registered \/ view.actions = {}) /\ stale
      BY <1>6, <1>7, <1>14, <2>1, <2>3 DEF Acknowledge, Sync, Snapshot
    <2>4. CASE ~(agent \notin view.registered \/ view.actions = {}) /\ ~stale
      <3>1. /\ pointer' = [pointer EXCEPT ![agent] = till]
            /\ view' = [Snapshot EXCEPT !.pointer = pointer']
        BY <1>14, <2>4 DEF Acknowledge
      <3>2. view'.pointer = pointer'
        BY <3>1 DEF Snapshot
      <3>3. Sound(a, pointer[a])'
        <4>1. CASE agent # a
          BY <1>1, <1>2, <1>5, <3>1, <4>1 DEF TypeOK, AdminTypeOK, Sound
        <4>2. CASE agent = a
          <5>1. till < now /\ pointer'[a] = till
            BY <1>1, <2>1, <3>1, <4>2 DEF Clocks, InRun, TypeOK, AdminTypeOK
          <5>2. \A x \in Live : granule[x] <= till => Settled(a, x)
            BY <1>2, <2>1, <4>2 DEF Uploading, InRun
          <5>3. QED
            BY <1>1, <1>4, <1>5, <5>1, <5>2 DEF Sound
        <4>3. QED
          BY <4>1, <4>2
      <3>4. QED
        BY <1>7, <2>1, <3>2, <3>3
    <2>5. QED
      BY <2>2, <2>3, <2>4
  <1>15. QED
    BY <1>8, <1>9, <1>10, <1>11, <1>12, <1>13, <1>14 DEF TaskStep

LEMMA KeptStep == TypeOK /\ Clocks /\ Kept /\ TypeOK' /\ [Next]_vars => Kept'
  <1> SUFFICES ASSUME TypeOK, Clocks, Kept, TypeOK', [Next]_vars PROVE Kept'
    OBVIOUS
  <1>1. CASE Tick
    BY <1>1, KeptWorld
    DEF Tick, adminVars, taskVars, historyVars, Live, TypeOK, WorldTypeOK
  <1>2. ASSUME NEW x \in Actions, Stamp(x) \/ Store(x) \/ Lose(x) PROVE Kept'
    <2>1. \A y \in Live' : \/ y \in Live /\ granule'[y] = granule[y]
                           \/ granule'[y] = now
      BY <1>2 DEF Stamp, Store, Lose, Live, TypeOK, WorldTypeOK
    <2>2. now <= now'
      BY <1>2 DEF Stamp, Store, Lose, TypeOK, WorldTypeOK
    <2>3. QED
      BY <1>2, <2>1, <2>2, KeptWorld
      DEF Stamp, Store, Lose, adminVars, taskVars, historyVars
  <1>3. ASSUME NEW b \in Agents,
               AddAgent(b) \/ DeleteAgent(b) \/ PreActivate(b) \/ Activate(b)
        PROVE  Kept'
    BY <1>3, KeptAdmin
  <1>4. CASE RunTask \/ TaskStep \/ Crash
    BY <1>4, KeptTask
  <1>5. CASE UNCHANGED vars
    BY <1>5, KeptWorld
    DEF vars, adminVars, taskVars, historyVars, Live, TypeOK, WorldTypeOK
  <1>6. QED
    BY <1>1, <1>2, <1>3, <1>4, <1>5 DEF Next

\* No action is skipped, for any agents, actions, times and failures.
THEOREM NothingSkippedCorrect == Spec => []NothingSkipped
  <1>1. Init => TypeOK /\ Clocks /\ Kept
    BY TypeInit, ClocksInit, KeptInit
  <1>2. TypeOK /\ Clocks /\ Kept /\ [Next]_vars => (TypeOK /\ Clocks /\ Kept)'
    BY TypeStep, ClocksStep, KeptStep
  <1>3. TypeOK /\ Kept => NothingSkipped
    BY DEF Kept, Sound, Settled, Live, NothingSkipped, Passed, Stored
  <1>4. QED
    BY <1>1, <1>2, <1>3, PTL DEF Spec
===============================================================================
