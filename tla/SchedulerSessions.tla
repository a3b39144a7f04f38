--------------------------- MODULE SchedulerSessions ---------------------------
(***************************************************************************)
(* What holds in a daemon's session, and what survives from one session to *)
(* the next: the invariants of the scheduler that are about the workers    *)
(* and about the record of what they did.                                  *)
(***************************************************************************)
EXTENDS SchedulerPlacement

-------------------------------------------------------------------------------
(* What no step does *)

\* No step makes a second 'add' for a task.
LEMMA AddsShrink ==
    ASSUME TypeInv, Placement, [Next]_vars
    PROVE  \A t \in Tasks : ToAdd(t)' => ToAdd(t)
<1>1. ASSUME UNCHANGED <<owner, spool>>, cmd' \in {cmd, NoCmd}
      PROVE  \A t \in Tasks : ToAdd(t)' => ToAdd(t)
    BY <1>1, AddsKept
<1>2. ASSUME NEW t \in Tasks, SpoolCommand(Command("del", t, Never)),
             UNCHANGED cmd, \A u \in Tasks : owner'[u] = "new" => owner[u] = "new"
      PROVE  \A u \in Tasks : ToAdd(u)' => ToAdd(u)
    <2>1. /\ Command("del", t, Never) \in Commands
          /\ Command("del", t, Never).op # "add"
        BY DEF Command, Commands, TaskCommands
    <2> QED
        BY <1>2, <2>1, AddsAfterAppend
<1>3. CASE UNCHANGED vars \/ Tick
    BY <1>1, <1>3 DEF vars, storeVars, clientVars, daemonVars, Tick
<1>4. CASE ClientNext /\ UNCHANGED <<workerVars, daemonVars>>
    <2>1. UNCHANGED cmd
        BY <1>4 DEF daemonVars
    <2>2. ASSUME NEW t \in Tasks, NEW ts \in Times, Enqueue(t, ts)
          PROVE  \A u \in Tasks : ToAdd(u)' => ToAdd(u)
        BY <2>1, <2>2, AddsAfterEnqueue
    <2>3. ASSUME NEW t \in Tasks, NEW ts \in Times, ChangeStart(t, ts)
          PROVE  \A u \in Tasks : ToAdd(u)' => ToAdd(u)
        <3>1. /\ Command("change", t, startOn[t]) \in Commands
              /\ Command("change", t, startOn[t]).op # "add"
            BY DEF TypeInv, TypeOK, StoreTypeOK, Command, Commands, TaskCommands
        <3> QED
            BY <2>1, <2>3, <3>1, AddsAfterAppend DEF ChangeStart
    <2>4. ASSUME NEW t \in Tasks, RemoveAlarm(t) \/ AdminDelete(t)
          PROVE  \A u \in Tasks : ToAdd(u)' => ToAdd(u)
        BY <1>2, <2>1, <2>4
        DEF RemoveAlarm, AdminDelete, TypeInv, TypeOK, ClientTypeOK
    <2>5. CASE \E t \in Tasks : RunFailed(t)
        BY <1>1, <2>1, <2>5 DEF RunFailed
    <2>6. CASE Shutdown
        <3>1. /\ Command("shutdown", NoTask, Never) \in Commands
              /\ Command("shutdown", NoTask, Never).op # "add"
            BY DEF Command, Commands
        <3> QED
            BY <2>1, <2>6, <3>1, AddsAfterAppend DEF Shutdown
    <2>7. CASE ClearSpool
        BY <2>1, <2>7 DEF ClearSpool, ToAdd, Spooled
    <2> QED
        BY <1>4, <2>2, <2>3, <2>4, <2>5, <2>6, <2>7 DEF ClientNext
<1>5. CASE WorkerNext /\ UNCHANGED daemonVars
    <2>1. UNCHANGED cmd
        BY <1>5 DEF daemonVars
    <2>2. PICK w \in Workers : WorkerStep(w) \/ PrepareFails(w) \/ Suicide(w)
        BY <1>5 DEF WorkerNext
    <2>3. CASE WorkerStep(w) \/ PrepareFails(w)
        BY <1>1, <2>1, <2>3
        DEF WorkerStep, Prepare, PrepareFails, Succeed, Fail, storeVars, clientVars
    <2>4. CASE Suicide(w)
        <3>1. job[w] \in Tasks
            BY <2>4 DEF Suicide, TypeInv, LocalsOK
        <3> QED
            BY <1>2, <2>1, <2>4, <3>1 DEF Suicide, TypeInv, TypeOK, ClientTypeOK
    <2> QED
        BY <2>2, <2>3, <2>4
<1>6. CASE PopSpool
    <2>1. CASE spool = <<>>
        BY <1>1, <1>6, <2>1 DEF PopSpool, GoTo, clientVars
    <2>2. CASE spool # <<>>
        BY <1>6, <2>2, AddsAfterPop DEF PopSpool, Popped, clientVars
    <2> QED
        BY <2>1, <2>2
<1>7. CASE DaemonNext /\ ~PopSpool
    <2>1. UNCHANGED <<owner, spool>>
        BY <1>7
        DEF DaemonNext, DaemonStep, RelaunchItem, RelaunchDone, BeginLoop, ExecAdd,
            ExecChange, ExecDelete, DeleteMove, DeleteRaises, ExecShutdown, Notify,
            NotifyTerminated, NotifyOneShot, NotifyPeriodic, NotifyDeleted, Collect,
            FinishedDone, SetTaskRunning, StartWorker, NothingDue, Idle,
            AwolTerminate, AwolRaises, AwolDone, Start, MarkDead, Crash,
            NotifyConflict, storeVars, clientVars
    <2>2. cmd' \in {cmd, NoCmd}
        BY <1>7
        DEF DaemonNext, DaemonStep, RelaunchItem, RelaunchDone, BeginLoop, ExecAdd,
            ExecChange, ExecDelete, DeleteMove, DeleteRaises, ExecShutdown, Notify,
            NotifyTerminated, NotifyOneShot, NotifyPeriodic, NotifyDeleted, Collect,
            FinishedDone, SetTaskRunning, StartWorker, NothingDue, Idle,
            AwolTerminate, AwolRaises, AwolDone, Start, MarkDead, Crash,
            NotifyConflict, daemonVars, NextCommand, RaiseFromSpool, DaemonLocals,
            GoTo, Quit
    <2> QED
        BY <1>1, <2>1, <2>2
<1> QED
    BY <1>3, <1>4, <1>5, <1>6, <1>7 DEF Next

\* A daemon that has relaunched what another one left is not forgotten, and one
\* that starts on such a list is noted.
LEMMA RelaunchedStays ==
    ASSUME TypeInv, Hands, [Next]_vars
    PROVE  (relaunched => relaunched') /\ RelaunchNoted'
<1>1. relaunched \in BOOLEAN /\ RelaunchNoted
    BY DEF TypeInv, TypeOK, WorkerTypeOK, Hands
<1>2. ASSUME UNCHANGED relaunched, UNCHANGED <<pc, running>> \/ pc' # "relaunch"
      PROVE  (relaunched => relaunched') /\ RelaunchNoted'
    BY <1>1, <1>2 DEF RelaunchNoted
<1>3. CASE UNCHANGED vars \/ Tick
    BY <1>2, <1>3 DEF vars, storeVars, workerVars, historyVars, daemonVars, Tick
<1>4. CASE ClientNext /\ UNCHANGED <<workerVars, daemonVars>>
    BY <1>2, <1>4
    DEF ClientNext, Enqueue, ChangeStart, RemoveAlarm, AdminDelete, RunFailed,
        Shutdown, ClearSpool, workerVars, historyVars, daemonVars
<1>5. CASE WorkerNext /\ UNCHANGED daemonVars
    BY <1>2, <1>5
    DEF WorkerNext, WorkerStep, Prepare, PrepareFails, Succeed, Fail, Suicide,
        storeVars, historyVars, daemonVars
<1>6. CASE Start
    BY <1>1, <1>6 DEF Start, RelaunchNoted
<1>7. CASE RelaunchItem
    <2>1. relaunched
        BY <1>1, <1>7 DEF RelaunchItem, RelaunchNoted
    <2> QED
        BY <1>7, <2>1 DEF RelaunchItem, workerVars, historyVars, RelaunchNoted
<1>8. CASE \E t \in Tasks : Notify(t) \/ NotifyConflict(t)
    BY <1>2, <1>8
    DEF Notify, NotifyTerminated, NotifyOneShot, NotifyPeriodic, NotifyDeleted,
        Collect, NotifyConflict, historyVars, daemonVars
<1>9. CASE \/ ExecAdd \/ ExecChange \/ ExecDelete \/ DeleteMove
           \/ SetTaskRunning \/ AwolTerminate
    BY <1>2, <1>9
    DEF ExecAdd, ExecChange, ExecDelete, DeleteMove, NextCommand, SetTaskRunning,
        AwolTerminate, workerVars, historyVars, daemonVars
<1>10. CASE \/ RelaunchDone \/ BeginLoop \/ PopSpool \/ DeleteRaises
            \/ ExecShutdown \/ FinishedDone \/ StartWorker \/ NothingDue \/ Idle
            \/ AwolRaises \/ AwolDone \/ Crash \/ MarkDead
    <2>1. UNCHANGED relaunched
        BY <1>10
        DEF RelaunchDone, BeginLoop, PopSpool, DeleteRaises, ExecShutdown,
            FinishedDone, StartWorker, NothingDue, Idle, AwolRaises, AwolDone,
            Crash, MarkDead, Quit, ForgetWorkers, workerVars, historyVars
    <2>2. UNCHANGED <<pc, running>> \/ pc' # "relaunch"
        BY <1>10
        DEF RelaunchDone, BeginLoop, PopSpool, DeleteRaises, ExecShutdown,
            FinishedDone, StartWorker, NothingDue, Idle, AwolRaises, AwolDone,
            Crash, MarkDead, Quit, GoTo, DaemonLocals, RaiseFromSpool, daemonVars
    <2> QED
        BY <1>2, <2>1, <2>2
<1> QED
    BY <1>3, <1>4, <1>5, <1>6, <1>7, <1>8, <1>9, <1>10
    DEF Next, DaemonNext, DaemonStep

-------------------------------------------------------------------------------
(* The workers' slots *)

\* The slots that are taken stay with the same task, or are freed.
SlotsShrink ==
    \A w \in Workers : phase'[w] # "free" =>
        /\ phase[w] # "free" /\ job'[w] = job[w]
        /\ phase'[w] = "starting" => phase[w] = "starting"

\* The dictionary forgets workers, and none of those that it keeps is freed.
TrackedShrink ==
    \A t \in Tasks : runningWorkers'[t] # NoWorker =>
        /\ runningWorkers'[t] = runningWorkers[t]
        /\ phase'[runningWorkers[t]] # "free"

\* Both hold when nothing happens to the workers,
LEMMA SlotsUnchanged ==
    ASSUME Hands, UNCHANGED <<phase, job, runningWorkers>>
    PROVE  SlotsShrink /\ TrackedShrink
BY DEF Hands, WorkersTracked, Serves, SlotsShrink, TrackedShrink

\* when a worker ends,
LEMMA SlotsDie ==
    ASSUME TypeInv, Hands, NEW w \in Workers, phase[w] # "free", NEW res, Die(w, res)
    PROVE  SlotsShrink /\ TrackedShrink
<1>1. /\ phase \in [Workers -> {"free", "starting", "running", "dead"}]
      /\ job \in [Workers -> Tasks \cup {NoTask}]
      /\ runningWorkers \in [Tasks -> Workers \cup {NoWorker}]
    BY DEF TypeInv, TypeOK, WorkerTypeOK
<1>2. \A t \in Tasks : runningWorkers[t] # NoWorker =>
         /\ runningWorkers[t] \in Workers
         /\ phase[runningWorkers[t]] # "free" /\ job[runningWorkers[t]] = t
    BY <1>1 DEF Hands, WorkersTracked, Serves
<1>3. CASE Tracked(w)
    <2>1. phase' = [phase EXCEPT ![w] = "dead"] /\ UNCHANGED <<job, runningWorkers>>
        BY <1>3 DEF Die
    <2> QED
        BY <1>1, <1>2, <2>1 DEF SlotsShrink, TrackedShrink
<1>4. CASE ~Tracked(w)
    <2>1. /\ phase' = [v \in Workers |-> IF v \in Workers \ {w} THEN phase[v] ELSE "free"]
          /\ job' = [v \in Workers |-> IF v \in Workers \ {w} THEN job[v] ELSE NoTask]
          /\ UNCHANGED runningWorkers
        BY <1>4 DEF Die, Keep
    <2>2. \A t \in Tasks : runningWorkers[t] # w
        BY <1>2, <1>4, StoreAssumption, WorkerAssumption DEF Tracked
    <2> QED
        BY <1>1, <1>2, <2>1, <2>2 DEF SlotsShrink, TrackedShrink
<1> QED
    BY <1>3, <1>4

\* when one is collected,
LEMMA SlotsCollect ==
    ASSUME TypeInv, Hands, NEW t \in Tasks, Collect(t) \/ NotifyConflict(t)
    PROVE  /\ SlotsShrink /\ TrackedShrink
           /\ runningWorkers[t] \in Workers /\ phase[runningWorkers[t]] = "dead"
           /\ phase'[runningWorkers[t]] = "free"
<1> DEFINE w == runningWorkers[t]
<1>1. /\ phase \in [Workers -> {"free", "starting", "running", "dead"}]
      /\ job \in [Workers -> Tasks \cup {NoTask}]
      /\ runningWorkers \in [Tasks -> Workers \cup {NoWorker}]
    BY DEF TypeInv, TypeOK, WorkerTypeOK
<1>2. \A u \in Tasks : runningWorkers[u] # NoWorker =>
         /\ runningWorkers[u] \in Workers
         /\ phase[runningWorkers[u]] # "free" /\ job[runningWorkers[u]] = u
    BY <1>1 DEF Hands, WorkersTracked, Serves
<1>3. /\ w # NoWorker /\ phase[w] = "dead"
      /\ phase' = [v \in Workers |-> IF v \in Workers \ {w} THEN phase[v] ELSE "free"]
      /\ job' = [v \in Workers |-> IF v \in Workers \ {w} THEN job[v] ELSE NoTask]
      /\ runningWorkers' = [runningWorkers EXCEPT ![t] = NoWorker]
    BY DEF Collect, NotifyConflict, Keep
<1>4. \A u \in Tasks \ {t} : runningWorkers[u] # w
    BY <1>2, <1>3
<1> HIDE DEF w
<1>5. w \in Workers
    BY <1>1, <1>3 DEF w
<1>6. SlotsShrink
    BY <1>1, <1>3 DEF SlotsShrink
<1>7. TrackedShrink
    BY <1>1, <1>2, <1>3, <1>4 DEF TrackedShrink
<1> QED
    BY <1>3, <1>5, <1>6, <1>7 DEF w

\* and when the daemon forgets them all.
LEMMA SlotsForget ==
    ASSUME TypeInv, NEW S, ForgetWorkers(S)
    PROVE  SlotsShrink /\ TrackedShrink
BY DEF TypeInv, TypeOK, WorkerTypeOK, ForgetWorkers, Keep, SlotsShrink, TrackedShrink

-------------------------------------------------------------------------------
(* What a step has to show for Hands *)

\* Whatever happened to t, it agrees with where t is now.
Settled(t) ==
    /\ ~ToAdd(t)
    /\ Awaited(t) => QueuedStatus(t)
    /\ \A w \in Workers : Busy(w) /\ job[w] = t =>
          /\ ~Pending(t)
          /\ t \in OneShot => status[t] \notin {"failed", "finished"}

\* A busy worker was busy before, with the same task.
LEMMA BusyShrinks ==
    ASSUME TypeInv, SlotsShrink, relaunched => relaunched'
    PROVE  \A w \in Workers : Busy(w)' =>
               Busy(w) /\ job'[w] = job[w] /\ job[w] \in Tasks
BY DEF TypeInv, LocalsOK, SlotsShrink, Busy

\* A step that starts no worker keeps Hands if every task is left alone, or
\* settled.
LEMMA HandsSettle ==
    ASSUME TypeInv, Placement, Hands, [Next]_vars, SlotsShrink, TrackedShrink,
           \A t \in Tasks :
               \/ status'[t] = status[t] /\ (Pending(t)' => Pending(t))
               \/ Settled(t)'
    PROVE  Hands'
<1>1. /\ \A t \in Tasks : ToAdd(t)' => ToAdd(t)
      /\ relaunched => relaunched'
      /\ RelaunchNoted'
    BY AddsShrink, RelaunchedStays
<1>2. \A w \in Workers : Busy(w)' =>
         Busy(w) /\ job'[w] = job[w] /\ job[w] \in Tasks
    BY <1>1, BusyShrinks
<1>3. \A t \in Tasks : Starting(t)' => Starting(t)
    BY DEF Starting, SlotsShrink
<1>4. \A t \in Tasks : \A w \in Workers : Serves(w, t)' => Serves(w, t)
    BY DEF Serves, SlotsShrink
<1>5. AwaitedIsQueued'
    <2> SUFFICES ASSUME NEW t \in Tasks, Awaited(t)'
                 PROVE  QueuedStatus(t)'
        BY DEF AwaitedIsQueued
    <2>1. CASE status'[t] = status[t] /\ (Pending(t)' => Pending(t))
        <3>1. QueuedStatus(t)
            BY <1>3, <2>1 DEF Hands, AwaitedIsQueued, Awaited
        <3> QED
            BY <1>1, <2>1, <3>1 DEF QueuedStatus
    <2>2. CASE Settled(t)'
        BY <2>2 DEF Settled
    <2> QED
        BY <2>1, <2>2
<1>6. WorkersTracked'
    <2> SUFFICES ASSUME NEW t \in Tasks, runningWorkers'[t] # NoWorker
                 PROVE  Serves(runningWorkers[t], t)'
        BY DEF WorkersTracked
    <2>1. /\ runningWorkers'[t] = runningWorkers[t]
          /\ phase'[runningWorkers[t]] # "free"
          /\ runningWorkers[t] \in Workers
          /\ job[runningWorkers[t]] = t
        BY DEF TrackedShrink, Hands, WorkersTracked, Serves, TypeInv, TypeOK,
               WorkerTypeOK
    <2> QED
        BY <2>1 DEF SlotsShrink, Serves
<1>7. BusyIsOut'
    <2> SUFFICES ASSUME NEW w \in Workers, Busy(w)'
                 PROVE  /\ ~Pending(job[w])'
                        /\ runningWorkers'[job'[w]] \in {w, NoWorker}
                        /\ job'[w] \in OneShot
                              => status'[job'[w]] \notin {"failed", "finished"}
        BY DEF BusyIsOut
    <2>1. PICK t \in Tasks : job'[w] = t /\ job[w] = t /\ Busy(w)
        BY <1>2
    <2>2. /\ ~Pending(t)
          /\ runningWorkers[t] \in {w, NoWorker}
          /\ t \in OneShot => status[t] \notin {"failed", "finished"}
        BY <2>1 DEF Hands, BusyIsOut
    <2>3. runningWorkers'[t] \in {w, NoWorker}
        BY <2>2 DEF TrackedShrink
    <2>4. /\ ~Pending(t)'
          /\ t \in OneShot => status'[t] \notin {"failed", "finished"}
        <3>1. CASE status'[t] = status[t] /\ (Pending(t)' => Pending(t))
            BY <2>2, <3>1
        <3>2. CASE Settled(t)'
            BY <2>1, <3>2 DEF Settled
        <3> QED
            BY <3>1, <3>2
    <2> QED
        BY <2>1, <2>3, <2>4
<1>8. BusyIsSingle'
    BY <1>2 DEF Hands, BusyIsSingle
<1>9. FreshHasNone'
    <2> SUFFICES ASSUME NEW t \in Tasks, ToAdd(t)'
                 PROVE  status'[t] = "none" /\ \A w \in Workers : ~Serves(w, t)'
        BY DEF FreshHasNone
    <2>1. status[t] = "none" /\ \A w \in Workers : ~Serves(w, t)
        BY <1>1 DEF Hands, FreshHasNone
    <2>2. status'[t] = status[t]
        BY DEF Settled
    <2> QED
        BY <1>4, <2>1, <2>2
<1> QED
    BY <1>1, <1>5, <1>6, <1>7, <1>8, <1>9 DEF Hands

-------------------------------------------------------------------------------
(* Hands, step by step *)

\* A step that leaves the waiting queue, the statuses and what is being launched
\* alone.
LEMMA HandsKept ==
    ASSUME TypeInv, Placement, Hands, [Next]_vars, SlotsShrink, TrackedShrink,
           UNCHANGED <<waiting, status>>, launching' \in {launching, NoTask}
    PROVE  Hands'
<1>1. \A t \in Tasks : status'[t] = status[t] /\ (Pending(t)' => Pending(t))
    BY StoreAssumption DEF Pending, Waits
<1> QED
    BY <1>1, HandsSettle

\* A step that queues t, of which nobody has got hold, leaves every other task
\* alone.
LEMMA HandsEnqueue ==
    ASSUME TypeInv, Placement, Hands, [Next]_vars, SlotsShrink, TrackedShrink,
           NEW t \in Tasks, NEW ts \in Times \cup {Never},
           waiting' = waiting \cup Bin(ts, t),
           UNCHANGED launching, launching # t,
           \A u \in Tasks \ {t} : status'[u] = status[u],
           Waits(t)' => status'[t] = "queued",
           ~ToAdd(t)',
           \A w \in Workers : ~(Busy(w)' /\ job'[w] = t)
    PROVE  Hands'
<1>1. \A u \in Tasks \ {t} : Pending(u)' => Pending(u)
    BY DEF Pending, Waits, Bin
<1>2. Awaited(t)' => Waits(t)'
    BY DEF Awaited, Pending, Starting, Busy
<1>3. Settled(t)'
    BY <1>2 DEF Settled, QueuedStatus
<1> QED
    BY <1>1, <1>3, HandsSettle

\* Every request of a client: RunFailedTask finds its task in nobody's hands,
\* because no busy worker has a task that is FAILED.
LEMMA HandsClient ==
    ASSUME TypeInv, Placement, Hands, ClientNext, UNCHANGED <<workerVars, daemonVars>>
    PROVE  Hands'
<1>0. [Next]_vars
    BY DEF Next
<1>1. /\ SlotsShrink /\ TrackedShrink
      /\ UNCHANGED <<launching, phase, job, relaunched>>
    BY SlotsUnchanged DEF workerVars, historyVars, daemonVars
<1>2. CASE UNCHANGED <<waiting, status>>
    BY <1>0, <1>1, <1>2, HandsKept
<1>3. ASSUME NEW t \in Tasks, RunFailed(t)
      PROVE  Hands'
    <2>1. FailedOneShot(t) /\ taskId[t] # 0
        BY <1>3 DEF RunFailed, CanMove, StatusIs, FailedOneShot
    <2>2. ~InHand(t) /\ ~ToAdd(t)
        BY <2>1 DEF Placement, InHandIsOut, AddsAreFresh, Fresh
    <2>3. ~ToAdd(t)'
        BY <1>0, <2>2, AddsShrink
    <2>4. now \in Times \cup {Never} /\ waiting' = waiting \cup Bin(now, t)
        BY <1>3, StoreAssumption DEF RunFailed, Bin, Times
    <2>5. status' = [status EXCEPT ![t] = "queued"]
        BY <1>3 DEF RunFailed
    <2>6. /\ status'[t] = "queued"
          /\ \A u \in Tasks \ {t} : status'[u] = status[u]
        BY <2>5 DEF TypeInv, TypeOK, StoreTypeOK
    <2>7. \A w \in Workers : ~(Busy(w)' /\ job'[w] = t)
        BY <1>1, <2>1 DEF Hands, BusyIsOut, Busy, FailedOneShot
    <2> QED
        BY <1>0, <1>1, <2>2, <2>3, <2>4, <2>6, <2>7, HandsEnqueue DEF InHand
<1> QED
    BY <1>2, <1>3
    DEF ClientNext, Enqueue, ChangeStart, RemoveAlarm, AdminDelete, Shutdown,
        ClearSpool, taskVars

\* Every step of a worker: its task is awaited by nobody else.
LEMMA HandsWorker ==
    ASSUME TypeInv, Placement, Hands, WorkerNext, UNCHANGED daemonVars
    PROVE  Hands'
<1>0. [Next]_vars
    BY DEF Next
<1>1. UNCHANGED launching
    BY DEF daemonVars
<1>2. \A t \in Tasks : ToAdd(t)' => ToAdd(t)
    BY <1>0, AddsShrink
<1>3. ASSUME NEW w \in Workers, phase[w] # "free"
      PROVE  job[w] \in Tasks /\ ~ToAdd(job[w])
    BY <1>3 DEF TypeInv, LocalsOK, Hands, FreshHasNone, Serves
<1>4. ASSUME NEW w \in Workers, Prepare(w)
      PROVE  Hands'
    <2>0. PICK t \in Tasks : t = job[w] /\ ~ToAdd(t)
        BY <1>3, <1>4 DEF Prepare
    <2>1. job[w] = t /\ ~ToAdd(t)' /\ Busy(w)
        BY <1>2, <1>4, <2>0 DEF Prepare, Busy
    <2>2. /\ phase' = [phase EXCEPT ![w] = "running"]
          /\ UNCHANGED <<waiting, job, runningWorkers, relaunched>>
        BY <1>4 DEF Prepare, historyVars
    <2>3. SlotsShrink /\ TrackedShrink
        BY <1>4, <2>2 DEF Prepare, Hands, WorkersTracked, Serves, SlotsShrink,
                          TrackedShrink, TypeInv, TypeOK, WorkerTypeOK
    <2>4. \A u \in Tasks : Pending(u)' <=> Pending(u)
        BY <1>1, <2>2 DEF Pending, Waits
    <2>5. CASE status' = status
        BY <1>0, <2>3, <2>4, <2>5, HandsSettle
    <2>6. CASE status' = [status EXCEPT ![t] = "running"]
        <3>1. /\ status'[t] = "running"
              /\ \A u \in Tasks \ {t} : status'[u] = status[u]
            BY <2>1, <2>6 DEF TypeInv, TypeOK, StoreTypeOK
        <3>2. ~Pending(t)'
            BY <2>1, <2>4 DEF Hands, BusyIsOut
        <3>3. ~Starting(t)'
            <4> SUFFICES ASSUME NEW v \in Workers, phase'[v] = "starting", job[v] = t
                         PROVE  FALSE
                BY <2>2 DEF Starting
            <4>1. v # w /\ Busy(v)
                BY <2>2 DEF Busy, TypeInv, TypeOK, WorkerTypeOK
            <4> QED
                BY <2>1, <4>1 DEF Hands, BusyIsSingle
        <3>4. Settled(t)'
            BY <2>1, <3>1, <3>2, <3>3 DEF Settled, Awaited
        <3> QED
            BY <1>0, <2>3, <2>4, <3>1, <3>4, HandsSettle
    <2> QED
        BY <1>4, <2>1, <2>5, <2>6 DEF Prepare
<1>5. ASSUME NEW w \in Workers, PrepareFails(w) \/ Succeed(w) \/ Fail(w)
      PROVE  Hands'
    <2>1. PICK res : Die(w, res) /\ phase[w] # "free" /\ UNCHANGED <<waiting, status>>
        BY <1>5 DEF PrepareFails, Succeed, Fail, storeVars, taskVars
    <2> QED
        BY <1>0, <1>1, <2>1, SlotsDie, HandsKept
<1>6. ASSUME NEW w \in Workers, Suicide(w)
      PROVE  Hands'
    <2>0. PICK t \in Tasks : t = job[w] /\ ~ToAdd(t)
        BY <1>3, <1>6 DEF Suicide
    <2>1. /\ job[w] = t /\ ~ToAdd(t)' /\ t \in OneShot /\ "suicide" \in Events
          /\ phase[w] = "running"
        BY <1>2, <1>6, <2>0 DEF Suicide, Disturb
    <2>2. /\ Die(w, TRUE) /\ status' = [status EXCEPT ![t] = "terminated"]
          /\ UNCHANGED <<waiting, relaunched>>
        BY <1>6, <2>1 DEF Suicide
    <2>3. SlotsShrink /\ TrackedShrink
        BY <2>1, <2>2, SlotsDie
    <2>4. \A u \in Tasks : Pending(u)' <=> Pending(u)
        BY <1>1, <2>2 DEF Pending, Waits
    <2>5. /\ status'[t] = "terminated"
          /\ \A u \in Tasks \ {t} : status'[u] = status[u]
        BY <2>1, <2>2 DEF TypeInv, TypeOK, StoreTypeOK
    <2>6. \A v \in Workers : Busy(v)' => Busy(v) /\ job'[v] = job[v]
        BY <2>2, <2>3, BusyShrinks
    <2>7. Awaited(t)' => QueuedStatus(t)'
        <3>1. CASE relaunched
            BY <2>1, <2>2, <2>5, <3>1 DEF QueuedStatus
        <3>2. CASE ~relaunched
            <4>1. Busy(w)
                BY <2>1, <3>2 DEF Busy
            <4>2. ~Pending(t)'
                BY <2>1, <2>4, <4>1 DEF Hands, BusyIsOut
            <4>3. ~Starting(t)'
                <5> SUFFICES ASSUME NEW v \in Workers, phase'[v] = "starting",
                                    job'[v] = t
                             PROVE  FALSE
                    BY DEF Starting
                <5>1. phase[v] = "starting" /\ job[v] = t
                    BY <2>3 DEF SlotsShrink
                <5>2. v # w /\ Busy(v)
                    BY <2>1, <5>1 DEF Busy
                <5> QED
                    BY <2>1, <4>1, <5>1, <5>2 DEF Hands, BusyIsSingle
            <4> QED
                BY <4>2, <4>3 DEF Awaited
        <3> QED
            BY <3>1, <3>2
    <2>8. Settled(t)'
        BY <2>1, <2>4, <2>5, <2>6, <2>7 DEF Settled, Hands, BusyIsOut
    <2> QED
        BY <1>0, <2>3, <2>4, <2>5, <2>8, HandsSettle
<1> QED
    BY <1>4, <1>5, <1>6 DEF WorkerNext, WorkerStep

\* The daemon's steps that move no task and start no worker.
LEMMA HandsControl ==
    ASSUME TypeInv, Placement, Hands, [Next]_vars,
           \/ Start \/ RelaunchDone \/ BeginLoop \/ PopSpool
           \/ ExecDelete \/ DeleteRaises \/ ExecShutdown \/ FinishedDone
           \/ NothingDue \/ Idle \/ AwolRaises \/ AwolDone
           \/ Crash \/ MarkDead
    PROVE  Hands'
<1>1. UNCHANGED <<waiting, status>>
    BY DEF Start, RelaunchDone, BeginLoop, PopSpool, ExecDelete, DeleteRaises,
           ExecShutdown, FinishedDone, NothingDue, Idle, AwolRaises, AwolDone, Crash,
           MarkDead, storeVars, taskVars
<1>2. launching' \in {launching, NoTask}
    BY DEF Start, RelaunchDone, BeginLoop, PopSpool, ExecDelete, DeleteRaises,
           ExecShutdown, FinishedDone, NothingDue, Idle, AwolRaises, AwolDone, Crash,
           MarkDead, daemonVars, DaemonLocals, GoTo, RaiseFromSpool, Quit
<1>3. \/ UNCHANGED <<phase, job, runningWorkers>>
      \/ \E S : ForgetWorkers(S)
    BY DEF Start, RelaunchDone, BeginLoop, PopSpool, ExecDelete, DeleteRaises,
           ExecShutdown, FinishedDone, NothingDue, Idle, AwolRaises, AwolDone, Crash,
           MarkDead, workerVars, Quit
<1>4. SlotsShrink /\ TrackedShrink
    BY <1>3, SlotsUnchanged, SlotsForget
<1> QED
    BY <1>1, <1>2, <1>4, HandsKept

\* The daemon takes the head of the queue: nobody else has got hold of it.
LEMMA HandsSetRunning ==
    ASSUME TypeInv, Placement, Hands, [Next]_vars, SetTaskRunning
    PROVE  Hands'
<1>1. PICK e \in waiting :
         waiting' = waiting \ {e} /\ launching' = e[2] /\ UNCHANGED status
    BY DEF SetTaskRunning, TakenFromBin
<1>2. PICK x \in Times, t \in Tasks : e = <<x, t>>
    BY <1>1 DEF TypeInv, TypeOK, StoreTypeOK
<1>3. Waits(t) /\ launching' = t
    BY <1>1, <1>2 DEF Waits
<1>4. \A u \in Tasks : Pending(u)' => Pending(u)
    BY <1>1, <1>3 DEF Pending, Waits
<1>5. SlotsShrink /\ TrackedShrink
    BY SlotsUnchanged DEF SetTaskRunning, workerVars
<1> QED
    BY <1>1, <1>4, <1>5, HandsSettle

\* The daemon starts a worker for the task it is launching.
LEMMA HandsStartWorker ==
    ASSUME TypeInv, Placement, Hands, [Next]_vars, StartWorker
    PROVE  Hands'
<1>0. PICK t \in Tasks : t = launching
    BY DEF TypeInv, LocalsOK, StartWorker
<1>1. PICK w \in Workers :
         /\ phase[w] = "free"
         /\ phase' = [phase EXCEPT ![w] = "starting"]
         /\ job' = [job EXCEPT ![w] = t]
         /\ runningWorkers' = [runningWorkers EXCEPT ![t] = w]
    BY <1>0 DEF StartWorker
<1>2. /\ launching' = NoTask
      /\ UNCHANGED <<waiting, status, relaunched>>
    BY DEF StartWorker, DaemonLocals, storeVars, taskVars, historyVars
<1>3. /\ phase \in [Workers -> {"free", "starting", "running", "dead"}]
      /\ job \in [Workers -> Tasks \cup {NoTask}]
      /\ runningWorkers \in [Tasks -> Workers \cup {NoWorker}]
    BY DEF TypeInv, TypeOK, WorkerTypeOK
<1>4. /\ \A u \in Tasks : ToAdd(u)' => ToAdd(u)
      /\ RelaunchNoted'
    BY AddsShrink, RelaunchedStays
<1>5. InHand(t) /\ ~Waits(t) /\ ~ToAdd(t) /\ Pending(t)
    BY <1>0, PlacedIsAdded DEF InHand, Placement, InHandIsOut, Pending
<1>6. \A u \in Tasks : Pending(u)' => Pending(u) /\ u # t
    BY <1>0, <1>2, <1>5, StoreAssumption DEF Pending, Waits
<1>7. /\ phase'[w] = "starting" /\ job'[w] = t /\ runningWorkers'[t] = w
      /\ \A v \in Workers \ {w} : phase'[v] = phase[v] /\ job'[v] = job[v]
      /\ \A u \in Tasks \ {t} : runningWorkers'[u] = runningWorkers[u]
    BY <1>1, <1>3
<1>8. AwaitedIsQueued'
    <2>1. \A u \in Tasks : Awaited(u)' => Awaited(u)
        BY <1>5, <1>6, <1>7 DEF Awaited, Starting
    <2> QED
        BY <1>2, <2>1 DEF Hands, AwaitedIsQueued, QueuedStatus
<1>9. WorkersTracked'
    BY <1>1, <1>3, <1>7 DEF Hands, WorkersTracked, Serves
<1>10. \A v \in Workers \ {w} : Busy(v)' => Busy(v) /\ job[v] \in Tasks /\ job[v] # t
    BY <1>2, <1>5, <1>7 DEF Busy, Hands, BusyIsOut, TypeInv, LocalsOK
<1>11. BusyIsOut'
    <2> SUFFICES ASSUME NEW v \in Workers, Busy(v)'
                 PROVE  /\ ~Pending(job[v])'
                        /\ runningWorkers'[job'[v]] \in {v, NoWorker}
                        /\ job'[v] \in OneShot
                              => status'[job'[v]] \notin {"failed", "finished"}
        BY DEF BusyIsOut
    <2>1. CASE v = w
        <3>1. status[t] \notin {"failed", "finished"}
            BY <1>5 DEF Hands, AwaitedIsQueued, Awaited, QueuedStatus
        <3>2. ~Pending(t)'
            BY <1>6
        <3> QED
            BY <1>2, <1>7, <2>1, <3>1, <3>2
    <2>2. CASE v # w
        <3>1. PICK u \in Tasks : job'[v] = u /\ job[v] = u /\ u # t /\ Busy(v)
            BY <1>7, <1>10, <2>2
        <3>2. /\ ~Pending(u) /\ runningWorkers[u] \in {v, NoWorker}
              /\ u \in OneShot => status[u] \notin {"failed", "finished"}
            BY <3>1 DEF Hands, BusyIsOut
        <3>3. ~Pending(u)'
            BY <1>6, <3>2
        <3> QED
            BY <1>2, <1>7, <3>1, <3>2, <3>3
    <2> QED
        BY <2>1, <2>2
<1>12. BusyIsSingle'
    <2> SUFFICES ASSUME NEW u \in Workers, NEW v \in Workers, Busy(u)', Busy(v)',
                        job'[u] = job'[v]
                 PROVE  u = v
        BY DEF BusyIsSingle
    <2> QED
        BY <1>7, <1>10 DEF Hands, BusyIsSingle
<1>13. FreshHasNone'
    BY <1>2, <1>4, <1>5, <1>7 DEF Hands, FreshHasNone, Serves
<1> QED
    BY <1>4, <1>8, <1>9, <1>11, <1>12, <1>13 DEF Hands

\* The daemon's steps that move a task in or out of its containers.
LEMMA HandsTasks ==
    ASSUME TypeInv, Placement, Hands, [Next]_vars,
           RelaunchItem \/ ExecAdd \/ ExecChange \/ DeleteMove \/ AwolTerminate
    PROVE  Hands'
<1>0. StoreTypeOK /\ OneBin
    BY DEF TypeInv, TypeOK, Placement
<1>1. /\ SlotsShrink /\ TrackedShrink
      /\ UNCHANGED <<launching, phase, job, relaunched>>
    <2>1. UNCHANGED <<workerVars, launching>>
        BY DEF RelaunchItem, ExecAdd, ExecChange, DeleteMove, AwolTerminate,
               NextCommand, daemonVars
    <2> QED
        BY <2>1, SlotsUnchanged DEF workerVars, historyVars
<1>2. \A t \in Tasks : ToAdd(t)' => ToAdd(t)
    BY AddsShrink
<1>3. \A w \in Workers : Busy(w)' <=> Busy(w)
    BY <1>1 DEF Busy
<1>4. CASE RelaunchItem
    <2>1. PICK t \in Tasks : t = running[cursor] /\ OnRunningList(t)
        BY <1>0, <1>4, ElementOfSeq, LenProperties
        DEF RelaunchItem, StoreTypeOK, OnRunningList
    <2>2. ~InHand(t) /\ ~ToAdd(t) /\ relaunched
        <3>1. ~InHand(t)
            BY <1>4, <2>1, StoreAssumption
            DEF RelaunchItem, Placement, DownHasNone, LaunchingAtStart, InHand
        <3>2. running # <<>>
            BY <2>1 DEF OnRunningList
        <3> QED
            BY <1>4, <2>1, <3>1, <3>2, PlacedIsAdded
            DEF RelaunchItem, Hands, RelaunchNoted
    <2>3. CASE /\ StatusIs(t, "running") /\ MoveTask(t, "running", "queued")
               /\ status' = [status EXCEPT ![t] = StatusQueued(startOn[t], @)]
        <3>1. startOn[t] \in Times \cup {Never}
            BY <1>0 DEF StoreTypeOK
        <3>2. waiting' = waiting \cup Bin(startOn[t], t)
            BY <2>3 DEF MoveTask, WaitingAfter, Enqueued
        <3>3. ~Awaited(t)
            BY <2>3 DEF Hands, AwaitedIsQueued, QueuedStatus, StatusIs
        <3>4. Waits(t)' => status'[t] = "queued"
            BY <1>0, <2>3, <3>2, <3>3, StoreAssumption
            DEF Waits, Awaited, Pending, Bin, StatusQueued, StoreTypeOK
        <3>5. \A u \in Tasks \ {t} : status'[u] = status[u]
            BY <1>0, <2>3 DEF StoreTypeOK
        <3>6. \A w \in Workers : ~(Busy(w)' /\ job'[w] = t)
            BY <1>1, <2>2, <3>3 DEF Busy, Awaited, Starting
        <3> QED
            BY <1>1, <1>2, <2>2, <3>1, <3>2, <3>4, <3>5, <3>6, HandsEnqueue
            DEF InHand
    <2>4. CASE MoveTask(t, "running", "failed") /\ UNCHANGED status
        BY <1>1, <2>4, HandsKept DEF MoveTask, WaitingAfter
    <2> QED
        BY <1>4, <2>1, <2>3, <2>4 DEF RelaunchItem
<1>5. CASE ExecAdd
    <2>1. PICK t \in Tasks : t = cmd.task /\ cmd.op = "add"
        BY <1>5, ExecutingType DEF ExecAdd, Executing
    <2>2. Spooled("add", t) /\ ToAdd(t)
        BY <2>1 DEF Spooled, ToAdd
    <2>3. Fresh(t) /\ owner[t] # "new" /\ \A i \in DOMAIN spool : ~Adds(i, t)
        BY <2>1, <2>2 DEF Placement, AddsAreFresh, AddsAreSingle
    <2>4. ~ToAdd(t)'
        BY <1>5, <2>3
        DEF ExecAdd, NextCommand, clientVars, ToAdd, Spooled, Adds, NoCmd, Command
    <2>5. /\ waiting' = waiting \cup Bin(startOn[t], t)
          /\ status' = [status EXCEPT ![t] = StatusQueued(startOn[t], "spooled")]
          /\ startOn[t] \in Times \cup {Never}
        BY <1>0, <1>5, <2>1 DEF ExecAdd, Enqueued, StoreTypeOK
    <2>6. /\ Waits(t)' => status'[t] = "queued"
          /\ \A u \in Tasks \ {t} : status'[u] = status[u]
        BY <1>0, <2>3, <2>5, StoreAssumption
        DEF Fresh, Waits, Bin, StatusQueued, StoreTypeOK
    <2>7. \A w \in Workers : ~(Busy(w)' /\ job'[w] = t)
        BY <1>1, <1>3, <2>2 DEF Hands, FreshHasNone, Serves, Busy
    <2> QED
        BY <1>1, <2>3, <2>4, <2>5, <2>6, <2>7, HandsEnqueue DEF Fresh, InHand
<1>6. CASE ExecChange
    <2>1. PICK t \in Tasks : t = cmd.task
        BY <1>6, ExecutingType DEF ExecChange
    <2>2. \A u \in Tasks : Waits(u)' => Waits(u)
        <3>1. CASE <<cmd.ts, t>> \notin waiting
            BY <1>6, <2>1, <3>1 DEF ExecChange, Rebinned, Waits
        <3>2. CASE <<cmd.ts, t>> \in waiting
            <4>1. waiting' = (waiting \ {<<cmd.ts, t>>}) \cup Bin(startOn[t], t)
                BY <1>6, <2>1, <3>2 DEF ExecChange, Rebinned, Enqueued
            <4>2. cmd.ts \in Times /\ startOn[t] \in Times \cup {Never}
                BY <1>0, <3>2 DEF StoreTypeOK
            <4> QED
                BY <1>0, <3>2, <4>1, <4>2, BinsAfterChange
        <3> QED
            BY <3>1, <3>2
    <2>3. UNCHANGED status
        BY <1>6 DEF ExecChange, taskVars
    <2> QED
        BY <1>1, <2>2, <2>3, HandsSettle DEF Pending
<1>7. CASE DeleteMove
    <2>1. waiting' \subseteq waiting /\ UNCHANGED status
        BY <1>7 DEF DeleteMove, MoveTask, WaitingAfter, taskVars
    <2>2. \A u \in Tasks : Pending(u)' => Pending(u)
        BY <1>1, <2>1 DEF Pending, Waits
    <2> QED
        BY <1>1, <2>1, <2>2, HandsSettle
<1>8. CASE AwolTerminate
    <2>1. PICK i \in DOMAIN running :
             /\ StatusIs(running[i], "running")
             /\ MoveTask(running[i], "running", "terminated")
             /\ status' = [status EXCEPT ![running[i]] = "terminated"]
        BY <1>8 DEF AwolTerminate
    <2>2. PICK t \in Tasks : t = running[i] /\ OnRunningList(t)
        BY <1>0, <2>1, ElementOfSeq, LenProperties DEF StoreTypeOK, OnRunningList
    <2>3. UNCHANGED waiting
        BY <2>1 DEF MoveTask, WaitingAfter
    <2>4. \A u \in Tasks : Pending(u)' <=> Pending(u)
        BY <1>1, <2>3 DEF Pending, Waits
    <2>5. ~Awaited(t)
        BY <2>1, <2>2 DEF Hands, AwaitedIsQueued, QueuedStatus, StatusIs
    <2>6. /\ status'[t] = "terminated"
          /\ \A u \in Tasks \ {t} : status'[u] = status[u]
        BY <1>0, <2>1, <2>2 DEF StoreTypeOK
    <2>7. ~Awaited(t)'
        BY <1>1, <2>4, <2>5 DEF Awaited, Starting
    <2>8. ~ToAdd(t)'
        BY <1>2, <2>2, PlacedIsAdded
    <2>9. Settled(t)'
        BY <2>6, <2>7, <2>8 DEF Settled, Awaited
    <2> QED
        BY <1>1, <2>4, <2>6, <2>9, HandsSettle
<1> QED
    BY <1>4, <1>5, <1>6, <1>7, <1>8

\* The end of a worker is recorded, or the recording is lost: nobody but that
\* worker had its task.
LEMMA HandsNotify ==
    ASSUME TypeInv, Placement, Hands, [Next]_vars,
           NEW t \in Tasks, Notify(t) \/ NotifyConflict(t)
    PROVE  Hands'
<1>0. StoreTypeOK
    BY DEF TypeInv, TypeOK
<1>1. Collect(t) \/ NotifyConflict(t)
    BY DEF Notify, NotifyTerminated, NotifyOneShot, NotifyPeriodic, NotifyDeleted
<1>2. /\ SlotsShrink /\ TrackedShrink
      /\ runningWorkers[t] \in Workers /\ phase[runningWorkers[t]] = "dead"
      /\ phase'[runningWorkers[t]] = "free"
    BY <1>1, SlotsCollect
<1>3. /\ ~Waits(t) /\ ~ToAdd(t)' /\ launching = NoTask
      /\ UNCHANGED <<launching, relaunched>>
    BY <1>1, CollectKeeps
    DEF Collect, NotifyConflict, daemonVars, historyVars, Placement,
        LaunchingAtStart
<1>4. \A w \in Workers : ~(Busy(w)' /\ job'[w] = t)
    <2> SUFFICES ASSUME NEW w \in Workers, Busy(w)', job'[w] = t
                 PROVE  FALSE
        OBVIOUS
    <2>1. Busy(w) /\ job[w] = t
        BY <1>2, <1>3, BusyShrinks
    <2>2. runningWorkers[t] = w
        BY <1>2, <2>1, WorkerAssumption DEF Hands, BusyIsOut
    <2> QED
        BY <1>2, <1>3, <2>2 DEF Busy
<1>5. CASE NotifyTerminated(t)
    BY <1>2, <1>3, <1>5, HandsKept DEF NotifyTerminated
<1>6. CASE NotifyOneShot(t) \/ NotifyDeleted(t)
    <2>1. UNCHANGED waiting /\ \A u \in Tasks \ {t} : status'[u] = status[u]
        BY <1>0, <1>6
        DEF NotifyOneShot, NotifyDeleted, MoveTask, WaitingAfter, Outcome,
            StoreTypeOK
    <2>2. \A u \in Tasks : Pending(u)' => Pending(u)
        BY <1>3, <2>1 DEF Pending, Waits
    <2>3. ~Awaited(t)'
        BY <1>3, <1>4, <2>1, StoreAssumption
        DEF Awaited, Pending, Starting, Waits, Busy
    <2>4. Settled(t)'
        BY <1>3, <1>4, <2>3 DEF Settled
    <2> QED
        BY <1>2, <2>1, <2>2, <2>4, HandsSettle
<1>7. CASE NotifyPeriodic(t)
    <2>1. PICK ts \in Times \cup {Never} :
             /\ waiting' = waiting \cup Bin(ts, t)
             /\ status' = [status EXCEPT ![t] = StatusQueued(ts, Outcome(t))]
        BY <1>7 DEF NotifyPeriodic, NextOccurrences
    <2>2. /\ Waits(t)' => status'[t] = "queued"
          /\ \A u \in Tasks \ {t} : status'[u] = status[u]
        BY <1>0, <1>3, <2>1, StoreAssumption
        DEF Waits, Bin, StatusQueued, StoreTypeOK
    <2> QED
        BY <1>2, <1>3, <1>4, <2>1, <2>2, StoreAssumption, HandsEnqueue
<1>8. CASE NotifyConflict(t)
    <2>1. /\ waiting' = waiting \cup Bin(startOn[t], t)
          /\ status' = [status EXCEPT ![t] = "queued"]
          /\ startOn[t] \in Times \cup {Never}
        BY <1>0, <1>8 DEF NotifyConflict, Enqueued, StoreTypeOK
    <2>2. /\ status'[t] = "queued"
          /\ \A u \in Tasks \ {t} : status'[u] = status[u]
        BY <1>0, <2>1 DEF StoreTypeOK
    <2> QED
        BY <1>2, <1>3, <1>4, <2>1, <2>2, StoreAssumption, HandsEnqueue
<1> QED
    BY <1>5, <1>6, <1>7, <1>8 DEF Notify

\* At first there is nothing in anybody's hands.
LEMMA HandsInit == Init => Hands
<1> SUFFICES ASSUME Init PROVE Hands
    OBVIOUS
<1>1. /\ waiting = {} /\ launching = NoTask /\ pc = "down"
      /\ \A w \in Workers : phase[w] = "free"
      /\ \A t \in Tasks : runningWorkers[t] = NoWorker /\ status[t] = "none"
    BY DEF Init, StoreInit, WorkerInit, DaemonInit
<1> QED
    BY <1>1, StoreAssumption
    DEF Hands, AwaitedIsQueued, Awaited, Pending, Starting, Waits, WorkersTracked,
        BusyIsOut, BusyIsSingle, Busy, FreshHasNone, Serves, RelaunchNoted

\* Every step keeps it.
LEMMA HandsNext ==
    ASSUME TypeInv, Placement, Hands, [Next]_vars
    PROVE  Hands'
<1>1. CASE UNCHANGED vars \/ Tick
    <2>1. UNCHANGED <<waiting, status, launching, phase, job, runningWorkers>>
        BY <1>1 DEF vars, storeVars, taskVars, workerVars, daemonVars, Tick
    <2> QED
        BY <2>1, SlotsUnchanged, HandsKept
<1>2. CASE DaemonNext
    BY <1>2, HandsControl, HandsSetRunning, HandsStartWorker, HandsTasks, HandsNotify
    DEF DaemonNext, DaemonStep
<1> QED
    BY <1>1, <1>2, HandsClient, HandsWorker DEF Next

\* Where the tasks are, and who has got hold of them.
Sound == TypeInv /\ Placement /\ Hands

LEMMA SoundNext ==
    ASSUME Sound, [Next]_vars
    PROVE  Sound'
BY TypeNext, PlacementNext, HandsNext DEF Sound, Hands

LEMMA SoundAlways == Spec => []Sound
<1>1. Init => Sound
    BY TypeInit, PlacementInit, HandsInit DEF Sound
<1>2. Sound /\ [Next]_vars => Sound'
    BY SoundNext
<1> QED
    BY <1>1, <1>2, PTL DEF Spec

-------------------------------------------------------------------------------
(* What follows for the queue, the list and the workers *)

\* Unless the nested operation of _db_notifyTaskStatus conflicts, a task is in
\* one bin of the waiting queue or once on the running list, or in neither,
\* whatever clients, crashes and restarts do.
THEOREM SingleCopyCorrect ==
    ASSUME "conflict" \notin Events
    PROVE  Spec => []SingleCopy
<1>1. Sound => SingleCopy
    BY PlacementImplies DEF Sound
<1> QED
    BY <1>1, SoundAlways, PTL

\* A task with a worker in _runningWorkers does not wait, whatever happens: also
\* when a conflict has left a second copy of it on the running list.
THEOREM TrackedNotWaitingCorrect == Spec => []TrackedNotWaiting
<1>1. Sound => TrackedNotWaiting
    BY BinsAreWaits DEF Sound, Placement, InHandIsOut, InHand, TrackedNotWaiting
<1> QED
    BY <1>1, SoundAlways, PTL

\* What waits is QUEUED, unless an alarm of which a worker outlived its daemon
\* puts itself to death.
THEOREM WaitingIsQueuedCorrect ==
    ASSUME "suicide" \notin Events
    PROVE  Spec => []WaitingIsQueued
<1>1. Sound => WaitingIsQueued
    <2> SUFFICES ASSUME Sound, NEW e \in waiting
                 PROVE  status[e[2]] = "queued"
        BY DEF WaitingIsQueued
    <2>1. PICK x \in Times, t \in Tasks : e = <<x, t>>
        BY DEF Sound, TypeInv, TypeOK, StoreTypeOK
    <2>2. Awaited(t)
        BY <2>1 DEF Awaited, Pending, Waits
    <2> QED
        BY <2>1, <2>2 DEF Sound, Hands, AwaitedIsQueued, QueuedStatus
<1> QED
    BY <1>1, SoundAlways, PTL

\* In a session no task has two workers alive, for any mixture of disturbances.
THEOREM OneWorkerPerTaskCorrect == Spec => []OneWorkerPerTask
<1>1. Sound => OneWorkerPerTask
    BY DEF Sound, Hands, BusyIsSingle, Busy, OneWorkerPerTask, Alive
<1> QED
    BY <1>1, SoundAlways, PTL

-------------------------------------------------------------------------------
(* The status of a one-shot task *)

\* A task whose worker has not ended yet is not FINISHED in this session.
LEMMA ServedIsNotOver ==
    ASSUME Sound, ~relaunched, NEW w \in Workers, phase[w] # "free",
           job[w] \in OneShot
    PROVE  status[job[w]] \notin {"failed", "finished"}
BY DEF Sound, Hands, BusyIsOut, Busy

\* A step of a session that changes the status of a one-shot task finds it
\* neither FINISHED nor TERMINATED.
LEMMA FinalStays ==
    ASSUME Sound, [Next]_vars, ~relaunched, NEW t \in OneShot,
           status[t] \in {"finished", "terminated"}
    PROVE  status'[t] = status[t]
<1>0. t \in Tasks /\ status \in [Tasks -> Statuses] /\ StoreTypeOK
    BY DEF Tasks, Sound, TypeInv, TypeOK, StoreTypeOK
<1>1. ASSUME NEW w \in Workers, phase[w] # "free"
      PROVE  job[w] \in Tasks
    BY <1>1 DEF Sound, TypeInv, LocalsOK
<1>2. CASE UNCHANGED vars \/ Tick
    BY <1>2 DEF vars, storeVars, taskVars, Tick
<1>3. CASE ClientNext
    <2>1. CASE \E u \in Tasks : RunFailed(u)
        <3>1. PICK u \in Tasks : /\ status[u] = "failed"
                                 /\ status' = [status EXCEPT ![u] = "queued"]
            BY <2>1 DEF RunFailed, CanMove, StatusIs
        <3> QED
            BY <1>0, <3>1
    <2>2. CASE UNCHANGED status
        BY <2>2
    <2> QED
        BY <1>3, <2>1, <2>2
        DEF ClientNext, Enqueue, ChangeStart, RemoveAlarm, AdminDelete, Shutdown,
            ClearSpool, taskVars
<1>4. CASE WorkerNext
    <2>1. PICK w \in Workers : WorkerStep(w) \/ PrepareFails(w) \/ Suicide(w)
        BY <1>4 DEF WorkerNext
    <2>2. CASE Prepare(w)
        <3>1. job[w] \in Tasks /\ status[job[w]] = "queued"
            BY <1>1, <2>2
            DEF Prepare, Sound, Hands, AwaitedIsQueued, Awaited, Starting,
                QueuedStatus
        <3>2. \/ status' = [status EXCEPT ![job[w]] = "running"]
              \/ status' = status
            BY <2>2 DEF Prepare
        <3> QED
            BY <1>0, <3>1, <3>2
    <2>3. CASE Suicide(w)
        <3>1. /\ job[w] \in Tasks /\ job[w] \in OneShot /\ phase[w] = "running"
              /\ status' = [status EXCEPT ![job[w]] = "terminated"]
            BY <1>1, <2>3 DEF Suicide
        <3>2. status[job[w]] # "finished"
            BY <3>1, ServedIsNotOver
        <3> QED
            BY <1>0, <3>1, <3>2
    <2>4. CASE Succeed(w) \/ Fail(w) \/ PrepareFails(w)
        BY <2>4 DEF Succeed, Fail, PrepareFails, storeVars, taskVars
    <2> QED
        BY <2>1, <2>2, <2>3, <2>4 DEF WorkerStep
<1>5. CASE \/ Start \/ RelaunchDone \/ BeginLoop \/ PopSpool
           \/ ExecChange \/ ExecDelete \/ DeleteMove \/ DeleteRaises \/ ExecShutdown
           \/ FinishedDone \/ SetTaskRunning \/ StartWorker \/ NothingDue \/ Idle
           \/ AwolRaises \/ AwolDone \/ Crash \/ MarkDead
    BY <1>5 DEF Start, RelaunchDone, BeginLoop, PopSpool, ExecChange, ExecDelete,
                DeleteMove, DeleteRaises, ExecShutdown, FinishedDone,
                SetTaskRunning, StartWorker, NothingDue, Idle, AwolRaises, AwolDone,
                Crash, MarkDead, storeVars, taskVars
<1>6. CASE RelaunchItem
    BY <1>6 DEF RelaunchItem, Sound, Hands, RelaunchNoted
<1>7. CASE ExecAdd
    <2>1. /\ cmd.task \in Tasks /\ ToAdd(cmd.task)
          /\ status' = [status EXCEPT
                           ![cmd.task] = StatusQueued(startOn[cmd.task], "spooled")]
        BY <1>7, ExecutingType DEF ExecAdd, Executing, Spooled, ToAdd, Sound
    <2>2. status[cmd.task] = "none"
        BY <2>1 DEF Sound, Hands, FreshHasNone
    <2> QED
        BY <1>0, <2>1, <2>2
<1>8. CASE AwolTerminate
    <2>1. PICK i \in DOMAIN running :
             /\ status[running[i]] = "running"
             /\ status' = [status EXCEPT ![running[i]] = "terminated"]
        BY <1>8 DEF AwolTerminate, StatusIs
    <2> QED
        BY <1>0, <2>1
<1>9. ASSUME NEW u \in Tasks, Notify(u) \/ NotifyConflict(u)
      PROVE  status'[t] = status[t]
    <2>1. CASE u # t
        BY <1>0, <1>9, <2>1
        DEF Notify, NotifyTerminated, NotifyOneShot, NotifyPeriodic, NotifyDeleted,
            NotifyConflict
    <2>2. CASE u = t
        <3>1. t \notin Periodic
            BY StoreAssumption
        <3>2. CASE NotifyTerminated(t)
            BY <3>2 DEF NotifyTerminated
        <3>3. CASE NotifyOneShot(t)
            <4> DEFINE w == runningWorkers[t]
            <4>1. w \in Workers /\ phase[w] = "dead"
                BY <1>0, <3>3, SlotsCollect DEF NotifyOneShot, Sound
            <4>2. job[w] = t
                BY <1>0, <4>1, WorkerAssumption
                DEF Sound, Hands, WorkersTracked, Serves
            <4>3. status[t] # "finished"
                BY <4>1, <4>2, ServedIsNotOver
            <4> QED
                BY <3>3, <4>3 DEF NotifyOneShot, Terminated
        <3> QED
            BY <1>9, <2>2, <3>1, <3>2, <3>3
            DEF Notify, NotifyPeriodic, NotifyDeleted, NotifyConflict
    <2> QED
        BY <2>1, <2>2
<1> QED
    BY <1>2, <1>3, <1>4, <1>5, <1>6, <1>7, <1>8, <1>9
    DEF Next, DaemonNext, DaemonStep

\* A one-shot task that is FINISHED or TERMINATED stays so for the rest of the
\* session: no late worker, no deletion and no AWOL check gets at its status.
THEOREM FinalIsFinalCorrect == Spec => FinalIsFinal
<1>1. Sound /\ [Next]_vars =>
         (~relaunched => \A t \in OneShot : status[t] \in {"finished", "terminated"}
                                                => status'[t] = status[t])
    BY FinalStays
<1> QED
    BY <1>1, SoundAlways, PTL DEF Spec, FinalIsFinal

-------------------------------------------------------------------------------
(* Executions of a one-shot task *)

\* The workers of t are those it had, in the same phase and with the same result.
RecordsKept(t) ==
    \A w \in Workers : Serves(w, t)' =>
        Serves(w, t) /\ phase'[w] = phase[w] /\ result'[w] = result[w]

\* Nothing is left that could execute t again.
Spent(t) ==
    /\ ~Awaited(t) /\ ~FailedOneShot(t) /\ ~ToAdd(t)
    /\ \A w \in Workers : Serves(w, t) => phase[w] = "dead" /\ result[w]

Executed ==
    ~relaunched => \A t \in OneShot : runs[t] <= 1 /\ (runs[t] = 1 => Spent(t))

\* Slots that are kept keep their task, their phase and their result.
LEMMA KeepsRecords ==
    ASSUME WorkerTypeOK, NEW S, Keep(S), NEW t \in Tasks
    PROVE  RecordsKept(t)
<1> SUFFICES ASSUME NEW w \in Workers, Serves(w, t)'
             PROVE  Serves(w, t) /\ phase'[w] = phase[w] /\ result'[w] = result[w]
    BY DEF RecordsKept
<1>1. w \in S /\ phase'[w] = phase[w] /\ job'[w] = job[w]
    BY DEF Keep, Serves, WorkerTypeOK
<1>2. result'[w] = (w \in S /\ result[w])
    BY Zenon DEF Keep
<1>3. result[w] \in BOOLEAN
    BY Zenon DEF WorkerTypeOK
<1> QED
    BY <1>1, <1>2, <1>3 DEF Serves

\* The end of a worker is no news of any task but its own.
LEMMA DieKeepsRecords ==
    ASSUME TypeInv, NEW w \in Workers, NEW res, Die(w, res), NEW t \in Tasks,
           job[w] # t
    PROVE  RecordsKept(t)
<1>1. CASE Tracked(w)
    BY <1>1 DEF Die, RecordsKept, Serves, TypeInv, TypeOK, WorkerTypeOK
<1>2. CASE ~Tracked(w)
    BY <1>2, KeepsRecords DEF Die, TypeInv, TypeOK
<1> QED
    BY <1>1, <1>2

\* A step that keeps t out of the way keeps it spent.
LEMMA SpentKept ==
    ASSUME Sound, [Next]_vars, NEW t \in Tasks, Spent(t), RecordsKept(t),
           Pending(t)' => Pending(t), FailedOneShot(t)' => FailedOneShot(t)
    PROVE  Spent(t)'
<1>1. ~ToAdd(t)'
    BY AddsShrink DEF Sound, Spent
<1>2. ~Starting(t)'
    BY DEF Starting, RecordsKept, Serves, Spent, Awaited
<1> QED
    BY <1>1, <1>2 DEF Spent, Awaited, RecordsKept

\* In a session no step gives a spent task another chance.
LEMMA SpentStays ==
    ASSUME Sound, [Next]_vars, ~relaunched, NEW t \in OneShot, Spent(t)
    PROVE  Spent(t)'
<1>0. /\ t \in Tasks /\ t \notin Periodic
      /\ StoreTypeOK /\ TypeInv /\ Placement /\ Hands
    BY StoreAssumption DEF Tasks, Sound, TypeInv, TypeOK
<1>1. ASSUME UNCHANGED <<phase, job, result>>
      PROVE  RecordsKept(t)
    BY <1>1 DEF RecordsKept, Serves
<1>2. ASSUME UNCHANGED <<waiting, status, phase, job, result>>,
             launching' \in {launching, NoTask}
      PROVE  Spent(t)'
    BY <1>0, <1>1, <1>2, SpentKept, StoreAssumption DEF Pending, Waits, FailedOneShot
<1>3. CASE UNCHANGED vars \/ Tick
    BY <1>2, <1>3 DEF vars, storeVars, taskVars, workerVars, daemonVars, Tick
<1>4. CASE ClientNext /\ UNCHANGED <<workerVars, daemonVars>>
    <2>1. UNCHANGED <<launching, phase, job, result>>
        BY <1>4 DEF workerVars, daemonVars
    <2>2. CASE UNCHANGED <<waiting, status>>
        BY <1>2, <2>1, <2>2
    <2>3. CASE \E u \in Tasks : RunFailed(u)
        <3>1. PICK u \in Tasks :
                 /\ u \in OneShot /\ status[u] = "failed"
                 /\ waiting' = waiting \cup {<<now, u>>}
                 /\ status' = [status EXCEPT ![u] = "queued"]
            BY <2>3 DEF RunFailed, CanMove, StatusIs
        <3>2. u # t
            BY <3>1 DEF Spent, FailedOneShot
        <3>3. /\ Pending(t)' => Pending(t)
              /\ FailedOneShot(t)' => FailedOneShot(t)
            BY <1>0, <2>1, <3>1, <3>2
            DEF Pending, Waits, FailedOneShot, StoreTypeOK
        <3> QED
            BY <1>0, <1>1, <2>1, <3>3, SpentKept
    <2> QED
        BY <1>4, <2>2, <2>3
        DEF ClientNext, Enqueue, ChangeStart, RemoveAlarm, AdminDelete, Shutdown,
            ClearSpool, taskVars
<1>5. CASE WorkerNext /\ UNCHANGED daemonVars
    <2>1. PICK w \in Workers : WorkerStep(w) \/ PrepareFails(w) \/ Suicide(w)
        BY <1>5 DEF WorkerNext
    <2>2. job[w] # t
        BY <2>1 DEF WorkerStep, Prepare, PrepareFails, Succeed, Fail, Suicide, Spent,
                    Serves
    <2>3. RecordsKept(t)
        <3>1. CASE Prepare(w)
            BY <1>0, <2>2, <3>1
            DEF Prepare, RecordsKept, Serves, TypeInv, TypeOK, WorkerTypeOK
        <3>2. CASE ~Prepare(w)
            <4>1. PICK res : Die(w, res)
                BY <2>1, <3>2 DEF WorkerStep, PrepareFails, Succeed, Fail, Suicide
            <4> QED
                BY <1>0, <2>2, <4>1, DieKeepsRecords
        <3> QED
            BY <3>1, <3>2
    <2>4. UNCHANGED <<waiting, launching>> /\ status'[t] = status[t]
        BY <1>0, <1>5, <2>1, <2>2
        DEF WorkerStep, Prepare, PrepareFails, Succeed, Fail, Suicide, storeVars,
            taskVars, daemonVars, StoreTypeOK
    <2> QED
        BY <1>0, <2>3, <2>4, SpentKept DEF Pending, Waits, FailedOneShot
<1>6. CASE \/ Start \/ RelaunchDone \/ BeginLoop \/ PopSpool
           \/ ExecDelete \/ DeleteRaises \/ ExecShutdown \/ FinishedDone
           \/ NothingDue \/ Idle \/ AwolRaises \/ AwolDone
           \/ Crash \/ MarkDead
    <2>1. UNCHANGED <<waiting, status>>
        BY <1>6
        DEF Start, RelaunchDone, BeginLoop, PopSpool, ExecDelete, DeleteRaises,
            ExecShutdown, FinishedDone, NothingDue, Idle, AwolRaises, AwolDone, Crash,
            MarkDead, storeVars, taskVars
    <2>2. launching' \in {launching, NoTask}
        BY <1>6
        DEF Start, RelaunchDone, BeginLoop, PopSpool, ExecDelete, DeleteRaises,
            ExecShutdown, FinishedDone, NothingDue, Idle, AwolRaises, AwolDone, Crash,
            MarkDead, daemonVars, DaemonLocals, GoTo, RaiseFromSpool, Quit
    <2>3. UNCHANGED <<phase, job, result>> \/ \E S : Keep(S)
        BY <1>6
        DEF Start, RelaunchDone, BeginLoop, PopSpool, ExecDelete, DeleteRaises,
            ExecShutdown, FinishedDone, NothingDue, Idle, AwolRaises, AwolDone, Crash,
            MarkDead, workerVars, Quit, ForgetWorkers
    <2>4. RecordsKept(t)
        BY <1>0, <1>1, <2>3, KeepsRecords DEF TypeInv, TypeOK
    <2> QED
        BY <1>0, <2>1, <2>2, <2>4, SpentKept, StoreAssumption
        DEF Pending, Waits, FailedOneShot
<1>7. CASE RelaunchItem
    BY <1>7 DEF RelaunchItem, Sound, Hands, RelaunchNoted
<1>8. CASE ExecAdd
    <2>1. PICK u \in Tasks : u = cmd.task /\ cmd.op = "add"
        BY <1>0, <1>8, ExecutingType DEF ExecAdd, Executing
    <2>2. u # t
        BY <2>1 DEF Spent, ToAdd, Spooled
    <2>3. /\ \A x \in Times : <<x, t>> \in waiting' => <<x, t>> \in waiting
          /\ status'[t] = status[t]
          /\ UNCHANGED <<launching, phase, job, result>>
        BY <1>0, <1>8, <2>1, <2>2
        DEF ExecAdd, Enqueued, Bin, NextCommand, workerVars, StoreTypeOK
    <2> QED
        BY <1>0, <1>1, <2>3, SpentKept DEF Pending, Waits, FailedOneShot
<1>9. CASE ExecChange
    <2>1. PICK u \in Tasks : u = cmd.task
        BY <1>0, <1>9, ExecutingType DEF ExecChange
    <2>2. Waits(t)' => Waits(t)
        <3>1. CASE u # t
            BY <1>9, <2>1, <3>1 DEF ExecChange, Rebinned, Enqueued, Bin, Waits
        <3>2. CASE u = t
            <4>1. <<cmd.ts, t>> \notin waiting
                BY <1>0 DEF Spent, Awaited, Pending, Waits, StoreTypeOK
            <4> QED
                BY <1>9, <2>1, <3>2, <4>1 DEF ExecChange, Rebinned, Waits
        <3> QED
            BY <3>1, <3>2
    <2>3. UNCHANGED <<status, launching, phase, job, result>>
        BY <1>9 DEF ExecChange, NextCommand, taskVars, workerVars
    <2> QED
        BY <1>0, <1>1, <2>2, <2>3, SpentKept DEF Pending, FailedOneShot
<1>10. CASE DeleteMove
    <2>1. /\ waiting' \subseteq waiting
          /\ UNCHANGED <<status, launching, phase, job, result>>
        BY <1>10 DEF DeleteMove, MoveTask, WaitingAfter, NextCommand, taskVars,
                     workerVars
    <2> QED
        BY <1>0, <1>1, <2>1, SpentKept DEF Pending, Waits, FailedOneShot
<1>11. CASE SetTaskRunning
    <2>1. PICK e \in waiting : waiting' = waiting \ {e} /\ launching' = e[2]
        BY <1>11 DEF SetTaskRunning, TakenFromBin
    <2>2. PICK x \in Times, u \in Tasks : e = <<x, u>>
        BY <1>0, <2>1 DEF StoreTypeOK
    <2>3. u # t
        BY <2>1, <2>2 DEF Spent, Awaited, Pending, Waits
    <2>4. UNCHANGED <<status, phase, job, result>>
        BY <1>11 DEF SetTaskRunning, workerVars
    <2> QED
        BY <1>0, <1>1, <2>1, <2>2, <2>3, <2>4, SpentKept
        DEF Pending, Waits, FailedOneShot
<1>12. CASE StartWorker
    <2>1. PICK w \in Workers : /\ phase[w] = "free"
                               /\ phase' = [phase EXCEPT ![w] = "starting"]
                               /\ job' = [job EXCEPT ![w] = launching]
        BY <1>12 DEF StartWorker
    <2>2. launching # t /\ launching' = NoTask
          /\ UNCHANGED <<waiting, status, result>>
        BY <1>12 DEF StartWorker, DaemonLocals, storeVars, taskVars, Spent, Awaited,
                     Pending
    <2>3. RecordsKept(t)
        BY <1>0, <2>1, <2>2
        DEF RecordsKept, Serves, TypeInv, TypeOK, WorkerTypeOK
    <2> QED
        BY <1>0, <2>2, <2>3, SpentKept, StoreAssumption
        DEF Pending, Waits, FailedOneShot
<1>13. CASE AwolTerminate
    <2>1. PICK i \in DOMAIN running :
             /\ MoveTask(running[i], "running", "terminated")
             /\ status' = [status EXCEPT ![running[i]] = "terminated"]
        BY <1>13 DEF AwolTerminate
    <2>2. /\ UNCHANGED <<waiting, launching, phase, job, result>>
          /\ FailedOneShot(t)' => FailedOneShot(t)
        BY <1>0, <1>13, <2>1
        DEF AwolTerminate, MoveTask, WaitingAfter, workerVars, daemonVars,
            FailedOneShot, StoreTypeOK
    <2> QED
        BY <1>0, <1>1, <2>2, SpentKept DEF Pending, Waits
<1>14. ASSUME NEW u \in Tasks, Notify(u) \/ NotifyConflict(u)
       PROVE  Spent(t)'
    <2>0. Collect(u) \/ NotifyConflict(u)
        BY <1>14
        DEF Notify, NotifyTerminated, NotifyOneShot, NotifyPeriodic, NotifyDeleted
    <2>1. RecordsKept(t) /\ UNCHANGED launching
        BY <1>0, <1>1, <2>0, KeepsRecords
        DEF Collect, NotifyConflict, TypeInv, TypeOK, workerVars, daemonVars
    <2>2. CASE u # t
        <3>1. Waits(t)' => Waits(t)
            BY <1>14, <2>2
            DEF Notify, NotifyTerminated, NotifyOneShot, NotifyPeriodic,
                NotifyDeleted, NotifyConflict, MoveTask, WaitingAfter, Enqueued, Bin,
                Outcome, Waits
        <3>2. status'[t] = status[t]
            BY <1>0, <1>14, <2>2
            DEF Notify, NotifyTerminated, NotifyOneShot, NotifyPeriodic,
                NotifyDeleted, NotifyConflict, StoreTypeOK
        <3> QED
            BY <1>0, <2>1, <3>1, <3>2, SpentKept DEF Pending, FailedOneShot
    <2>3. CASE u = t
        <3>1. CASE NotifyTerminated(t)
            BY <1>0, <2>1, <3>1, SpentKept
            DEF NotifyTerminated, Pending, Waits, FailedOneShot
        <3>2. CASE NotifyOneShot(t)
            <4> DEFINE w == runningWorkers[t]
            <4>1. w \in Workers /\ phase[w] = "dead"
                BY <1>0, <3>2, SlotsCollect DEF NotifyOneShot
            <4>2. Serves(w, t)
                BY <1>0, <4>1, WorkerAssumption DEF Hands, WorkersTracked
            <4>3. Outcome(t) = "finished"
                BY <4>1, <4>2 DEF Spent, Outcome
            <4>4. UNCHANGED waiting /\ status'[t] = "finished"
                BY <1>0, <3>2, <4>3
                DEF NotifyOneShot, MoveTask, WaitingAfter, StoreTypeOK
            <4> QED
                BY <1>0, <2>1, <4>4, SpentKept DEF Pending, Waits, FailedOneShot
        <3> QED
            BY <1>0, <1>14, <2>3, <3>1, <3>2
            DEF Notify, NotifyPeriodic, NotifyDeleted, NotifyConflict
    <2> QED
        BY <2>2, <2>3
<1> QED
    BY <1>3, <1>4, <1>5, <1>6, <1>7, <1>8, <1>9, <1>10, <1>11, <1>12, <1>13, <1>14
    DEF Next, DaemonNext, DaemonStep


\* The commit of an execution leaves nothing that could execute the task again.
LEMMA ExecutionSpends ==
    ASSUME Sound, [Next]_vars, ~relaunched, NEW w \in Workers, NEW t \in OneShot,
           job[w] = t, phase[w] = "running", Die(w, TRUE),
           UNCHANGED <<waiting, launching>>,
           status' \in {status, [status EXCEPT ![t] = "terminated"]}
    PROVE  Spent(t)'
<1>0. /\ t \in Tasks /\ TypeInv /\ Placement /\ Hands /\ StoreTypeOK
      /\ Serves(w, t) /\ Busy(w)
    BY DEF Tasks, Sound, TypeInv, TypeOK, Serves, Busy
<1>1. \A v \in Workers : Serves(v, t) => v = w
    BY <1>0 DEF Hands, BusyIsSingle, Busy, Serves
<1>2. ~Pending(t)'
    BY <1>0 DEF Hands, BusyIsOut, Pending, Waits
<1>3. ~FailedOneShot(t)'
    BY <1>0 DEF Hands, BusyIsOut, FailedOneShot, StoreTypeOK
<1>4. ~ToAdd(t)'
    BY <1>0, AddsShrink DEF Hands, FreshHasNone
<1>5. \A v \in Workers : Serves(v, t)' => phase'[v] = "dead" /\ result'[v]
    <2>1. CASE Tracked(w)
        BY <1>0, <1>1, <2>1 DEF Die, Serves, TypeInv, TypeOK, WorkerTypeOK
    <2>2. CASE ~Tracked(w)
        BY <1>1, <2>2 DEF Die, Keep, Serves
    <2> QED
        BY <2>1, <2>2
<1>6. ~Starting(t)'
    BY <1>5 DEF Starting, Serves
<1> QED
    BY <1>2, <1>3, <1>4, <1>5, <1>6 DEF Spent, Awaited

\* Who counts an execution.
LEMMA RunsChange ==
    ASSUME TypeInv, [Next]_vars
    PROVE  \/ UNCHANGED runs
           \/ \E w \in Workers :
                 /\ Succeed(w) \/ Suicide(w)
                 /\ UNCHANGED daemonVars
                 /\ runs' = [runs EXCEPT ![job[w]] = @ + 1]
<1>1. CASE UNCHANGED vars \/ Tick
    BY <1>1 DEF vars, workerVars, historyVars, Tick
<1>2. CASE ClientNext /\ UNCHANGED <<workerVars, daemonVars>>
    BY <1>2 DEF workerVars, historyVars
<1>3. CASE WorkerNext /\ UNCHANGED daemonVars
    BY <1>3
    DEF WorkerNext, WorkerStep, Prepare, PrepareFails, Succeed, Fail, Suicide,
        historyVars
<1>4. CASE DaemonNext
    BY <1>4
    DEF DaemonNext, DaemonStep, RelaunchItem, RelaunchDone, BeginLoop, PopSpool,
        ExecAdd, ExecChange, ExecDelete, DeleteMove, DeleteRaises, ExecShutdown,
        Notify, NotifyTerminated, NotifyOneShot, NotifyPeriodic, NotifyDeleted,
        Collect, FinishedDone, SetTaskRunning, StartWorker, NothingDue, Idle,
        AwolTerminate, AwolRaises, AwolDone, Start, MarkDead, Crash, NotifyConflict,
        workerVars, historyVars, Quit, ForgetWorkers
<1> QED
    BY <1>1, <1>2, <1>3, <1>4 DEF Next

\* Every step keeps the record: an execution that commits is the first one, for a
\* task that has been executed is spent.
LEMMA ExecutedNext ==
    ASSUME Sound, Executed, [Next]_vars
    PROVE  Executed'
<1> SUFFICES ASSUME ~relaunched', NEW t \in OneShot
             PROVE  runs'[t] <= 1 /\ (runs'[t] = 1 => Spent(t)')
    BY DEF Executed
<1>0. ~relaunched /\ t \in Tasks /\ runs \in [Tasks -> Nat] /\ TypeInv
    BY RelaunchedStays DEF Sound, Tasks, TypeInv, TypeOK, WorkerTypeOK
<1>1. runs[t] <= 1 /\ (runs[t] = 1 => Spent(t))
    BY <1>0 DEF Executed
<1>2. CASE runs'[t] = runs[t]
    BY <1>0, <1>1, <1>2, SpentStays
<1>3. CASE runs'[t] # runs[t]
    <2>1. PICK w \in Workers : /\ Succeed(w) \/ Suicide(w)
                               /\ UNCHANGED daemonVars
                               /\ runs' = [runs EXCEPT ![job[w]] = @ + 1]
        BY <1>0, <1>3, RunsChange
    <2>2. job[w] = t /\ runs'[t] = runs[t] + 1
        BY <1>0, <1>3, <2>1
    <2>3. phase[w] = "running" /\ Die(w, TRUE) /\ UNCHANGED waiting
          /\ status' \in {status, [status EXCEPT ![t] = "terminated"]}
        BY <2>1, <2>2 DEF Succeed, Suicide
    <2>4. UNCHANGED launching
        BY <2>1 DEF daemonVars
    <2>5. ~Spent(t)
        BY <2>2, <2>3 DEF Spent, Serves
    <2>6. runs'[t] = 1
        BY <1>0, <1>1, <2>2, <2>5
    <2>7. Spent(t)'
        BY <1>0, <2>2, <2>3, <2>4, ExecutionSpends
    <2> QED
        BY <2>6, <2>7
<1> QED
    BY <1>2, <1>3

\* A one-shot task is executed at most once in a daemon's session, whatever its
\* owner, the administrator and the failures of the environment do meanwhile:
\* Prepare after a change of date, RunFailedTask and a deletion included.
THEOREM AtMostOnceCorrect == Spec => []AtMostOnce
<1>1. Init => Executed
    BY DEF Init, WorkerInit, Executed, Tasks
<1>2. Sound /\ Executed /\ [Next]_vars => Executed'
    BY ExecutedNext
<1>3. Executed => AtMostOnce
    BY DEF Executed, AtMostOnce
<1> QED
    BY <1>1, <1>2, <1>3, SoundAlways, PTL DEF Spec

===============================================================================
