-------------------------- MODULE SchedulerPlacement --------------------------
(***************************************************************************)
(* Where a task may be: in one bin of the waiting queue, or once on the    *)
(* running list, or in neither, but for the second copy of a periodic task *)
(* that a conflict of the nested operation of _db_notifyTaskStatus may     *)
(* leave behind.  Each step keeps that, given what SchedulerSessions knows *)
(* of the workers (Hands).  Crashes, restarts, workers that outlive the    *)
(* daemon, deletions and a cleared spool are all in it.                    *)
(***************************************************************************)
EXTENDS SchedulerProofs

Waits(t) == \E ts \in Times : <<ts, t>> \in waiting

OneBin ==
    \A t \in Tasks : \A x, y \in Times :
        <<x, t>> \in waiting /\ <<y, t>> \in waiting => x = y

\* The tasks of which there is never a second copy: the lost writes of
\* NotifyConflict leave a periodic task on the list while it is queued.
Single == IF "conflict" \in Events THEN OneShot ELSE Tasks

Once ==
    \A i, j \in DOMAIN running :
        running[i] = running[j] /\ running[i] \in Single => i = j

Apart == \A t \in Single : Waits(t) => ~OnRunningList(t)

\* The daemon has a worker for t, or is about to start one.
InHand(t) == runningWorkers[t] # NoWorker \/ launching = t

\* Whoever enqueues t does so after looking at its status only.
FailedOneShot(t) == t \in OneShot /\ status[t] = "failed"

InHandIsOut == \A t \in Tasks : InHand(t) => ~Waits(t) /\ ~FailedOneShot(t)

FailedIsOut ==
    \A t \in Tasks : FailedOneShot(t) => ~Waits(t) /\ ~OnRunningList(t)

\* The task of an 'add' that has not been executed is nowhere yet.
Fresh(t) == taskId[t] = 0 /\ ~Waits(t) /\ ~OnRunningList(t) /\ ~InHand(t)

ToAdd(t) == owner[t] = "new" \/ Spooled("add", t)

AddsAreFresh == \A t \in Tasks : ToAdd(t) => Fresh(t)

Adds(i, t) == spool[i].op = "add" /\ spool[i].task = t

AddsAreSingle ==
    \A t \in Tasks :
        /\ \A i, j \in DOMAIN spool : Adds(i, t) /\ Adds(j, t) => i = j
        /\ cmd.op = "add" /\ cmd.task = t => \A i \in DOMAIN spool : ~Adds(i, t)
        /\ owner[t] = "new" => ~Spooled("add", t)

DownHasNone ==
    pc \in {"down", "relaunch"} => \A t \in Tasks : runningWorkers[t] = NoWorker

LaunchingAtStart == launching # NoTask => pc = "start"

Placement ==
    /\ OneBin /\ Once /\ Apart
    /\ InHandIsOut /\ FailedIsOut
    /\ AddsAreFresh /\ AddsAreSingle
    /\ DownHasNone /\ LaunchingAtStart

-------------------------------------------------------------------------------
(* What the workers have in their hands *)

\* The slot of w is taken by a worker for t.
Serves(w, t) == phase[w] # "free" /\ job[w] = t

Starting(t) == \E w \in Workers : phase[w] = "starting" /\ job[w] = t

\* t is to be given to a worker.
Pending(t) == Waits(t) \/ launching = t

\* t is on its way to prepare().
Awaited(t) == Pending(t) \/ Starting(t)

\* A worker that outlived its daemon may put an alarm to death that the next
\* daemon has queued again.
QueuedStatus(t) ==
    \/ status[t] = "queued"
    \/ /\ relaunched /\ t \in OneShot /\ "suicide" \in Events
       /\ status[t] = "terminated"

AwaitedIsQueued == \A t \in Tasks : Awaited(t) => QueuedStatus(t)

WorkersTracked ==
    \A t \in Tasks :
        runningWorkers[t] # NoWorker => Serves(runningWorkers[t], t)

\* Nobody else can get hold of the task of a worker that is starting or, within
\* the session of one daemon, of any worker.
Busy(w) == phase[w] = "starting" \/ (phase[w] # "free" /\ ~relaunched)

BusyIsOut ==
    \A w \in Workers : Busy(w) =>
        /\ ~Pending(job[w])
        /\ runningWorkers[job[w]] \in {w, NoWorker}
        /\ job[w] \in OneShot => status[job[w]] \notin {"failed", "finished"}

BusyIsSingle ==
    \A v, w \in Workers : Busy(v) /\ Busy(w) /\ job[v] = job[w] => v = w

FreshHasNone ==
    \A t \in Tasks : ToAdd(t) =>
        status[t] = "none" /\ \A w \in Workers : ~Serves(w, t)

RelaunchNoted == pc = "relaunch" /\ running # <<>> => relaunched

Hands ==
    /\ AwaitedIsQueued /\ WorkersTracked
    /\ BusyIsOut /\ BusyIsSingle
    /\ FreshHasNone /\ RelaunchNoted

-------------------------------------------------------------------------------
(* What a step has to show: either the containers shrink, or one task that  *)
(* is nowhere else enters the waiting queue.                               *)

\* OneShot tasks have no second copy, and no task has one without a conflict.
LEMMA SingleTasks ==
    /\ OneShot \subseteq Single /\ Single \subseteq Tasks
    /\ "conflict" \notin Events => Single = Tasks
BY DEF Single, Tasks

\* A step that puts no task anywhere keeps the invariant; a one-shot task may
\* become FAILED if it is then nowhere.
LEMMA PlacementShrinks ==
    ASSUME TypeInv, Placement,
           OneBin', Once',
           \A t \in Tasks : Waits(t)' => Waits(t),
           \A t \in Tasks : OnRunningList(t)' => OnRunningList(t),
           \A t \in Tasks : InHand(t)' => InHand(t),
           \A t \in Tasks : FailedOneShot(t)' =>
               \/ FailedOneShot(t)
               \/ ~Waits(t)' /\ ~OnRunningList(t)' /\ ~InHand(t)',
           taskId' = taskId,
           \A t \in Tasks : ToAdd(t)' => ToAdd(t),
           AddsAreSingle', DownHasNone', LaunchingAtStart'
    PROVE  Placement'
<1>1. Apart'
    BY SingleTasks DEF Placement, Apart, Single
<1>2. InHandIsOut'
    BY DEF Placement, InHandIsOut
<1>3. FailedIsOut'
    BY DEF Placement, FailedIsOut
<1>4. AddsAreFresh'
    BY DEF Placement, AddsAreFresh, Fresh
<1> QED
    BY <1>1, <1>2, <1>3, <1>4 DEF Placement

\* A step that puts one task in one bin keeps the invariant if the task is then
\* in nobody's hand, in no 'add' and, unless it may have a second copy, on no
\* list.
LEMMA PlacementEnqueues ==
    ASSUME TypeInv, Placement,
           NEW t \in Tasks, NEW ts \in Times \cup {Never},
           waiting' = waiting \cup Bin(ts, t), ~Waits(t),
           Once',
           \A u \in Tasks : OnRunningList(u)' => OnRunningList(u),
           t \in Single => ~OnRunningList(t)',
           \A u \in Tasks : InHand(u)' => InHand(u),
           ~InHand(t)',
           \A u \in Tasks : FailedOneShot(u)' => FailedOneShot(u),
           ~FailedOneShot(t)',
           \A u \in Tasks \ {t} : taskId'[u] = taskId[u],
           \A u \in Tasks : ToAdd(u)' => ToAdd(u),
           ~ToAdd(t)',
           AddsAreSingle', DownHasNone', LaunchingAtStart'
    PROVE  Placement'
<1>1. \A u \in Tasks \ {t} : \A x \in Times :
         <<x, u>> \in waiting' <=> <<x, u>> \in waiting
    BY DEF Bin
<1>2. \A x \in Times : <<x, t>> \in waiting' => x = ts
    BY DEF Waits, Bin
<1>3. \A u \in Tasks \ {t} : Waits(u)' => Waits(u)
    BY <1>1 DEF Waits
<1>4. OneBin'
    <2> SUFFICES ASSUME NEW u \in Tasks, NEW x \in Times, NEW y \in Times,
                        <<x, u>> \in waiting', <<y, u>> \in waiting'
                 PROVE  x = y
        BY DEF OneBin
    <2>1. CASE u = t
        BY <1>2, <2>1
    <2>2. CASE u # t
        BY <1>1, <2>2 DEF Placement, OneBin
    <2> QED
        BY <2>1, <2>2
<1>5. Apart'
    BY <1>3, SingleTasks DEF Placement, Apart, Single
<1>6. InHandIsOut'
    BY <1>3 DEF Placement, InHandIsOut
<1>7. FailedIsOut'
    BY <1>3 DEF Placement, FailedIsOut
<1>8. AddsAreFresh'
    BY <1>3 DEF Placement, AddsAreFresh, Fresh
<1> QED
    BY <1>4, <1>5, <1>6, <1>7, <1>8 DEF Placement

\* moveTask takes the only copy of a task off the running list.
LEMMA RunningShrinks ==
    ASSUME StoreTypeOK, Once, NEW t, NEW from, running' = RunningAfter(t, from)
    PROVE  /\ Once'
           /\ \A u \in Tasks : OnRunningList(u)' => OnRunningList(u)
           /\ from = "running" /\ t \in Single => ~OnRunningList(t)'
<1>1. CASE from = "running"
    <2>1. running' = RemoveFirst(running, t)
        BY <1>1 DEF RunningAfter
    <2>2. Once' /\ (t \in Single => ~OnRunningList(t)')
        <3>1. running \in Seq(Tasks)
            BY DEF StoreTypeOK
        <3>2. \A i, j \in DOMAIN running :
                 running[i] = running[j] /\ running[i] \in Single => i = j
            BY DEF Once
        <3>3. /\ \A i, j \in DOMAIN running' :
                    running'[i] = running'[j] /\ running'[i] \in Single => i = j
              /\ t \in Single => \A i \in DOMAIN running' : running'[i] # t
            BY <2>1, <3>1, <3>2, RemoveFirstDistinct
        <3> QED
            BY <3>3 DEF Once, OnRunningList, Single
    <2>3. \A u \in Tasks : OnRunningList(u)' => OnRunningList(u)
        BY <2>1, RemoveFirstSubset DEF StoreTypeOK, OnRunningList
    <2> QED
        BY <2>2, <2>3
<1>2. CASE from # "running"
    BY <1>2 DEF RunningAfter, Once, OnRunningList, Single
<1> QED
    BY <1>1, <1>2

-------------------------------------------------------------------------------
(* The waiting queue *)

\* Taking a task out of its bin leaves it in no bin.
LEMMA BinsAfterTake ==
    ASSUME OneBin, NEW x \in Times, NEW t \in Tasks, <<x, t>> \in waiting,
           waiting' = waiting \ {<<x, t>>}
    PROVE  OneBin' /\ ~Waits(t)' /\ \A u \in Tasks : Waits(u)' => Waits(u)
<1>1. \A u \in Tasks : \A y \in Times :
         <<y, u>> \in waiting' => <<y, u>> \in waiting /\ (u = t => y # x)
    OBVIOUS
<1>2. \A y \in Times : <<y, t>> \in waiting => y = x
    BY DEF OneBin
<1> QED
    BY <1>1, <1>2 DEF OneBin, Waits

\* Moving a task from its bin to another leaves it in that one only.
LEMMA BinsAfterChange ==
    ASSUME OneBin, NEW x \in Times, NEW t \in Tasks, <<x, t>> \in waiting,
           NEW ts \in Times \cup {Never},
           waiting' = (waiting \ {<<x, t>>}) \cup Bin(ts, t)
    PROVE  OneBin' /\ \A u \in Tasks : Waits(u)' => Waits(u)
<1>1. \A y \in Times : <<y, t>> \in waiting => y = x
    BY DEF OneBin
<1>2. \A y \in Times : <<y, t>> \in waiting' => y = ts
    BY <1>1 DEF Bin
<1>3. \A u \in Tasks \ {t} : \A y \in Times :
         <<y, u>> \in waiting' => <<y, u>> \in waiting
    BY DEF Bin
<1>4. OneBin'
    <2> SUFFICES ASSUME NEW u \in Tasks, NEW y \in Times, NEW z \in Times,
                        <<y, u>> \in waiting', <<z, u>> \in waiting'
                 PROVE  y = z
        BY DEF OneBin
    <2>1. CASE u = t
        BY <1>2, <2>1
    <2>2. CASE u # t
        BY <1>3, <2>2 DEF OneBin
    <2> QED
        BY <2>1, <2>2
<1> QED
    BY <1>3, <1>4 DEF Waits

-------------------------------------------------------------------------------
(* The 'add' commands *)

\* A command that has been executed leaves the 'add' commands alone.
LEMMA AddsKept ==
    ASSUME TypeInv, Placement, UNCHANGED <<owner, spool>>, cmd' \in {cmd, NoCmd}
    PROVE  AddsAreSingle' /\ \A t \in Tasks : ToAdd(t)' => ToAdd(t)
BY DEF Placement, AddsAreSingle, ToAdd, Spooled, Adds, NoCmd, Command

\* So does a request that spools any other command.
LEMMA AddsAfterAppend ==
    ASSUME TypeInv, Placement, NEW c \in Commands, c.op # "add", SpoolCommand(c),
           UNCHANGED cmd, \A t \in Tasks : owner'[t] = "new" => owner[t] = "new"
    PROVE  AddsAreSingle' /\ \A t \in Tasks : ToAdd(t)' => ToAdd(t)
<1>1. /\ Len(spool) \in Nat /\ DOMAIN spool = 1 .. Len(spool)
      /\ DOMAIN spool' = 1 .. Len(spool) + 1
      /\ \A i \in 1 .. Len(spool) : spool'[i] = spool[i]
      /\ spool'[Len(spool) + 1] = c
    BY AppendProperties, LenProperties
    DEF TypeInv, TypeOK, StoreTypeOK, SpoolCommand
<1>2. \A i \in DOMAIN spool' : \A t \in Tasks :
         Adds(i, t)' => i \in DOMAIN spool /\ Adds(i, t)
    BY <1>1 DEF Adds
<1>3. \A t \in Tasks : Spooled("add", t)' => Spooled("add", t)
    BY <1>2 DEF Spooled, Adds
<1>4. AddsAreSingle'
    BY <1>2, <1>3 DEF Placement, AddsAreSingle
<1> QED
    BY <1>3, <1>4 DEF ToAdd

\* A client enqueues only a task of its own that it has not enqueued before.
LEMMA AddsAfterEnqueue ==
    ASSUME TypeInv, Placement, NEW t \in Tasks, NEW ts \in Times,
           Enqueue(t, ts), UNCHANGED cmd
    PROVE  AddsAreSingle' /\ \A u \in Tasks : ToAdd(u)' => ToAdd(u)
<1> DEFINE n == Len(spool) + 1
<1>1. /\ Len(spool) \in Nat /\ DOMAIN spool = 1 .. Len(spool)
      /\ DOMAIN spool' = 1 .. n
      /\ \A i \in 1 .. Len(spool) : spool'[i] = spool[i]
      /\ spool'[n] = Command("add", t, Never)
    <2>1. Command("add", t, Never) \in Commands
        BY DEF Command, Commands, TaskCommands
    <2> QED
        BY <2>1, AppendProperties, LenProperties
        DEF TypeInv, TypeOK, StoreTypeOK, Enqueue, SpoolCommand
<1>2. owner[t] = "new" /\ owner' = [owner EXCEPT ![t] = "held"]
    BY DEF Enqueue
<1>3. \A i \in 1 .. n : \A u \in Tasks : Adds(i, u)' =>
         (i \in DOMAIN spool /\ Adds(i, u)) \/ (i = n /\ u = t)
    BY <1>1 DEF Adds, Command
<1>4. ~Spooled("add", t)
    BY <1>2 DEF Placement, AddsAreSingle
<1>5. \A u \in Tasks : Spooled("add", u)' => Spooled("add", u) \/ u = t
    BY <1>1, <1>3 DEF Spooled, Adds
<1>6. \A u \in Tasks : ToAdd(u)' => ToAdd(u)
    BY <1>2, <1>5 DEF ToAdd, TypeInv, TypeOK, ClientTypeOK
<1>7. \A i \in DOMAIN spool : ~Adds(i, t)
    BY <1>4 DEF Spooled, Adds
<1>8. AddsAreSingle'
    <2> SUFFICES ASSUME NEW u \in Tasks
                 PROVE  /\ \A i, j \in DOMAIN spool' :
                              Adds(i, u)' /\ Adds(j, u)' => i = j
                        /\ cmd'.op = "add" /\ cmd'.task = u
                              => \A i \in DOMAIN spool' : ~Adds(i, u)'
                        /\ owner'[u] = "new" => ~Spooled("add", u)'
        BY DEF AddsAreSingle
    <2>1. CASE u = t
        <3>1. \A i \in DOMAIN spool' : Adds(i, t)' => i = n
            BY <1>1, <1>3, <1>7
        <3>2. ~(cmd'.op = "add" /\ cmd'.task = t)
            BY <1>4 DEF Spooled
        <3>3. owner'[t] = "held"
            BY <1>2 DEF TypeInv, TypeOK, ClientTypeOK
        <3> QED
            BY <2>1, <3>1, <3>2, <3>3
    <2>2. CASE u # t
        <3>1. \A i \in DOMAIN spool' : Adds(i, u)' => i \in DOMAIN spool /\ Adds(i, u)
            BY <1>1, <1>3, <2>2
        <3>2. owner'[u] = owner[u]
            BY <1>2, <2>2 DEF TypeInv, TypeOK, ClientTypeOK
        <3> QED
            BY <1>5, <2>2, <3>1, <3>2 DEF Placement, AddsAreSingle
    <2> QED
        BY <2>1, <2>2
<1> QED
    BY <1>6, <1>8

\* Popping a command from the spool makes no second copy of it.
LEMMA AddsAfterPop ==
    ASSUME TypeInv, Placement, spool # <<>>, cmd' = Head(spool),
           spool' = Tail(spool), UNCHANGED owner
    PROVE  AddsAreSingle' /\ \A t \in Tasks : ToAdd(t)' => ToAdd(t)
<1>1. /\ Len(spool) \in Nat /\ DOMAIN spool = 1 .. Len(spool) /\ Len(spool) > 0
      /\ DOMAIN spool' = 1 .. Len(spool) - 1
      /\ \A i \in 1 .. Len(spool) - 1 : spool'[i] = spool[i + 1]
      /\ cmd' = spool[1]
    BY HeadTailProperties, LenProperties, EmptySeq
    DEF TypeInv, TypeOK, StoreTypeOK
<1>2. \A i \in DOMAIN spool' : \A t \in Tasks :
         Adds(i, t)' => i + 1 \in DOMAIN spool /\ Adds(i + 1, t)
    BY <1>1 DEF Adds
<1>3. \A t \in Tasks : cmd'.op = "add" /\ cmd'.task = t
                          => 1 \in DOMAIN spool /\ Adds(1, t)
    BY <1>1 DEF Adds
<1>4. \A t \in Tasks : Spooled("add", t)' => Spooled("add", t)
    BY <1>2, <1>3 DEF Spooled, Adds
<1>5. ASSUME NEW t \in Tasks, NEW i \in DOMAIN spool', NEW j \in DOMAIN spool',
             Adds(i, t)', Adds(j, t)'
      PROVE  i = j
    <2>1. i + 1 = j + 1
        BY <1>2, <1>5 DEF Placement, AddsAreSingle
    <2> QED
        BY <1>1, <2>1
<1>6. ASSUME NEW t \in Tasks, NEW i \in DOMAIN spool', Adds(i, t)',
             cmd'.op = "add", cmd'.task = t
      PROVE  FALSE
    <2>1. i + 1 = 1
        BY <1>2, <1>3, <1>6 DEF Placement, AddsAreSingle
    <2> QED
        BY <1>1, <2>1
<1>7. \A t \in Tasks : owner'[t] = "new" => ~Spooled("add", t)'
    BY <1>4 DEF Placement, AddsAreSingle
<1>8. AddsAreSingle'
    BY <1>5, <1>6, <1>7 DEF AddsAreSingle
<1> QED
    BY <1>4, <1>8 DEF ToAdd

-------------------------------------------------------------------------------
(* The steps *)

\* A step that leaves the containers alone.
LEMMA PlacementControl ==
    ASSUME TypeInv, Placement, UNCHANGED <<waiting, running, taskId>>,
           \A t \in Tasks : InHand(t)' => InHand(t),
           \A t \in Tasks : FailedOneShot(t)' => FailedOneShot(t),
           \A t \in Tasks : ToAdd(t)' => ToAdd(t),
           AddsAreSingle', DownHasNone', LaunchingAtStart'
    PROVE  Placement'
<1>1. /\ OneBin' /\ Once'
      /\ \A t \in Tasks : Waits(t)' => Waits(t)
      /\ \A t \in Tasks : OnRunningList(t)' => OnRunningList(t)
    BY DEF Placement, OneBin, Once, Single, Waits, OnRunningList
<1> QED
    BY <1>1, PlacementShrinks

\* A step outside the daemon leaves what it has in hand.
LEMMA DaemonKept ==
    ASSUME Placement, UNCHANGED <<pc, launching, runningWorkers>>
    PROVE  /\ DownHasNone' /\ LaunchingAtStart'
           /\ \A t \in Tasks : InHand(t)' => InHand(t)
BY DEF Placement, DownHasNone, LaunchingAtStart, InHand

\* A step that sets no status makes no task FAILED.
LEMMA StatusKept ==
    ASSUME UNCHANGED status
    PROVE  \A t \in Tasks : FailedOneShot(t)' => FailedOneShot(t)
BY DEF FailedOneShot

\* Every request of a client keeps the invariant: RunFailedTask, the only one
\* that touches the queue, requires FAILED, and a FAILED task is nowhere.
LEMMA PlacementClient ==
    ASSUME TypeInv, Placement, ClientNext, UNCHANGED <<workerVars, daemonVars>>
    PROVE  Placement'
<1>1. /\ DownHasNone' /\ LaunchingAtStart'
      /\ \A t \in Tasks : InHand(t)' => InHand(t)
      /\ UNCHANGED cmd
    BY DaemonKept DEF workerVars, daemonVars
<1>2. ASSUME NEW t \in Tasks, NEW ts \in Times, Enqueue(t, ts)
      PROVE  Placement'
    <2>1. AddsAreSingle' /\ \A u \in Tasks : ToAdd(u)' => ToAdd(u)
        BY <1>1, <1>2, AddsAfterEnqueue
    <2> QED
        BY <1>1, <1>2, <2>1, StatusKept, PlacementControl DEF Enqueue
<1>3. ASSUME NEW t \in Tasks, NEW ts \in Times, ChangeStart(t, ts)
      PROVE  Placement'
    <2>1. Command("change", t, startOn[t]) \in Commands
        BY DEF TypeInv, TypeOK, StoreTypeOK, Command, Commands, TaskCommands
    <2>2. Command("change", t, startOn[t]).op # "add"
        BY DEF Command
    <2>3. AddsAreSingle' /\ \A u \in Tasks : ToAdd(u)' => ToAdd(u)
        BY <1>1, <1>3, <2>1, <2>2, AddsAfterAppend DEF ChangeStart
    <2> QED
        BY <1>1, <1>3, <2>3, StatusKept, PlacementControl DEF ChangeStart
<1>4. ASSUME NEW t \in Tasks, RemoveAlarm(t) \/ AdminDelete(t)
      PROVE  Placement'
    <2>1. Command("del", t, Never) \in Commands
        BY DEF Command, Commands, TaskCommands
    <2>2. Command("del", t, Never).op # "add"
        BY DEF Command
    <2>3. \A u \in Tasks : owner'[u] = "new" => owner[u] = "new"
        BY <1>4 DEF RemoveAlarm, AdminDelete, TypeInv, TypeOK, ClientTypeOK
    <2>4. AddsAreSingle' /\ \A u \in Tasks : ToAdd(u)' => ToAdd(u)
        BY <1>1, <1>4, <2>1, <2>2, <2>3, AddsAfterAppend
        DEF RemoveAlarm, AdminDelete
    <2> QED
        BY <1>1, <1>4, <2>4, StatusKept, PlacementControl
        DEF RemoveAlarm, AdminDelete, taskVars
<1>5. ASSUME NEW t \in Tasks, RunFailed(t)
      PROVE  Placement'
    <2>1. FailedOneShot(t) /\ taskId[t] # 0
        BY <1>5 DEF RunFailed, CanMove, StatusIs, FailedOneShot
    <2>2. ~Waits(t) /\ ~OnRunningList(t) /\ ~InHand(t) /\ ~ToAdd(t)
        BY <2>1 DEF Placement, FailedIsOut, InHandIsOut, AddsAreFresh, Fresh
    <2>3. now \in Times \cup {Never} /\ waiting' = waiting \cup Bin(now, t)
        BY <1>5, StoreAssumption DEF RunFailed, Bin, Times
    <2>4. /\ ~FailedOneShot(t)'
          /\ \A u \in Tasks : FailedOneShot(u)' => FailedOneShot(u)
        BY <1>5 DEF RunFailed, FailedOneShot, TypeInv, TypeOK, StoreTypeOK
    <2>5. /\ Once'
          /\ \A u \in Tasks : OnRunningList(u)' <=> OnRunningList(u)
        BY <1>5 DEF RunFailed, Placement, Once, Single, OnRunningList
    <2>6. /\ AddsAreSingle'
          /\ \A u \in Tasks : ToAdd(u)' => ToAdd(u)
        BY <1>1, <1>5, AddsKept DEF RunFailed
    <2> QED
        BY <1>1, <1>5, <2>2, <2>3, <2>4, <2>5, <2>6, PlacementEnqueues
        DEF RunFailed
<1>6. ASSUME Shutdown
      PROVE  Placement'
    <2>1. Command("shutdown", NoTask, Never) \in Commands
        BY DEF Commands
    <2>2. Command("shutdown", NoTask, Never).op # "add"
        BY DEF Command
    <2>3. AddsAreSingle' /\ \A u \in Tasks : ToAdd(u)' => ToAdd(u)
        BY <1>1, <1>6, <2>1, <2>2, AddsAfterAppend DEF Shutdown
    <2> QED
        BY <1>1, <1>6, <2>3, StatusKept, PlacementControl DEF Shutdown, taskVars
<1>7. ASSUME ClearSpool
      PROVE  Placement'
    <2>1. DOMAIN spool' = {} /\ UNCHANGED owner
        BY <1>7 DEF ClearSpool
    <2>2. \A u \in Tasks : Spooled("add", u)' => Spooled("add", u)
        BY <1>1, <2>1 DEF Spooled
    <2>3. AddsAreSingle' /\ \A u \in Tasks : ToAdd(u)' => ToAdd(u)
        BY <2>1, <2>2 DEF Placement, AddsAreSingle, ToAdd
    <2> QED
        BY <1>1, <1>7, <2>3, StatusKept, PlacementControl
        DEF ClearSpool, taskVars
<1> QED
    BY <1>2, <1>3, <1>4, <1>5, <1>6, <1>7 DEF ClientNext

\* Every step of a worker keeps the invariant: workers touch no container.
LEMMA PlacementWorker ==
    ASSUME TypeInv, Placement, WorkerNext, UNCHANGED daemonVars
    PROVE  Placement'
<1>1. ASSUME UNCHANGED runningWorkers
      PROVE  /\ DownHasNone' /\ LaunchingAtStart'
             /\ \A t \in Tasks : InHand(t)' => InHand(t)
             /\ UNCHANGED cmd
    BY <1>1, DaemonKept DEF daemonVars
<1>2. \A w \in Workers : \A res : Die(w, res) => UNCHANGED runningWorkers
    BY DEF Die
<1>3. ASSUME NEW w \in Workers, phase[w] # "free"
      PROVE  job[w] \in Tasks
    BY <1>3 DEF TypeInv, LocalsOK
<1>4. ASSUME NEW w \in Workers, Prepare(w)
      PROVE  Placement'
    <2>1. \A t \in Tasks : FailedOneShot(t)' => FailedOneShot(t)
        BY <1>4 DEF Prepare, FailedOneShot, TypeInv, TypeOK, StoreTypeOK
    <2>2. AddsAreSingle' /\ \A t \in Tasks : ToAdd(t)' => ToAdd(t)
        BY <1>1, <1>4, AddsKept DEF Prepare, clientVars
    <2> QED
        BY <1>1, <1>4, <2>1, <2>2, PlacementControl DEF Prepare
<1>5. ASSUME NEW w \in Workers, PrepareFails(w) \/ Fail(w)
      PROVE  Placement'
    <2>1. UNCHANGED <<storeVars, owner, runningWorkers>>
        BY <1>2, <1>5 DEF PrepareFails, Fail, clientVars
    <2>2. AddsAreSingle' /\ \A t \in Tasks : ToAdd(t)' => ToAdd(t)
        BY <1>1, <2>1, AddsKept DEF storeVars
    <2> QED
        BY <1>1, <2>1, <2>2, StatusKept, PlacementControl
        DEF storeVars, taskVars
<1>6. ASSUME NEW w \in Workers, Succeed(w)
      PROVE  Placement'
    <2>1. UNCHANGED runningWorkers
        BY <1>2, <1>6 DEF Succeed
    <2>2. AddsAreSingle' /\ \A t \in Tasks : ToAdd(t)' => ToAdd(t)
        BY <1>1, <1>6, <2>1, AddsKept DEF Succeed, clientVars
    <2> QED
        BY <1>1, <1>6, <2>1, <2>2, StatusKept, PlacementControl DEF Succeed
<1>7. ASSUME NEW w \in Workers, Suicide(w)
      PROVE  Placement'
    <2>1. UNCHANGED runningWorkers /\ job[w] \in Tasks
        BY <1>2, <1>3, <1>7 DEF Suicide
    <2>2. /\ Command("del", job[w], Never) \in Commands
          /\ Command("del", job[w], Never).op # "add"
        BY <2>1 DEF Command, Commands, TaskCommands
    <2>3. \A t \in Tasks : owner'[t] = "new" => owner[t] = "new"
        BY <1>7 DEF Suicide, TypeInv, TypeOK, ClientTypeOK
    <2>4. AddsAreSingle' /\ \A t \in Tasks : ToAdd(t)' => ToAdd(t)
        BY <1>1, <1>7, <2>1, <2>2, <2>3, AddsAfterAppend DEF Suicide
    <2>5. \A t \in Tasks : FailedOneShot(t)' => FailedOneShot(t)
        BY <1>7 DEF Suicide, FailedOneShot, TypeInv, TypeOK, StoreTypeOK
    <2> QED
        BY <1>1, <1>7, <2>1, <2>4, <2>5, PlacementControl DEF Suicide
<1> QED
    BY <1>4, <1>5, <1>6, <1>7 DEF WorkerNext, WorkerStep

\* The daemon's local variables at a new turn of the loop.
LEMMA LocalsReset ==
    ASSUME NEW l, l # "start", DaemonLocals(l)
    PROVE  /\ pc' = l /\ cmd' = NoCmd /\ launching' = NoTask /\ LaunchingAtStart'
BY DEF DaemonLocals, LaunchingAtStart

\* When the daemon ends it has no task in hand.
LEMMA QuitPlacement ==
    ASSUME TypeInv, Placement, UNCHANGED <<waiting, running, taskId, status>>,
           UNCHANGED <<owner, spool>>,
           DaemonLocals("down"), NEW S, ForgetWorkers(S)
    PROVE  Placement'
<1>1. \A t \in Tasks : ~InHand(t)'
    BY StoreAssumption DEF DaemonLocals, ForgetWorkers, InHand
<1>2. DownHasNone' /\ LaunchingAtStart' /\ cmd' = NoCmd
    BY LocalsReset DEF ForgetWorkers, DownHasNone
<1>3. AddsAreSingle' /\ \A t \in Tasks : ToAdd(t)' => ToAdd(t)
    BY <1>2, AddsKept
<1> QED
    BY <1>1, <1>2, <1>3, StatusKept, PlacementControl

\* What is in hand stays so when neither the dictionary nor launching changes.
LEMMA InHandKept ==
    ASSUME TypeInv, Placement, UNCHANGED runningWorkers,
           launching' \in {launching, NoTask}
    PROVE  \A t \in Tasks : InHand(t)' => InHand(t)
BY StoreAssumption DEF InHand

\* The daemon's steps that move no task.
LEMMA PlacementDaemonControl ==
    ASSUME TypeInv, Placement,
           \/ Start \/ RelaunchDone \/ BeginLoop \/ PopSpool
           \/ ExecDelete \/ DeleteRaises \/ ExecShutdown \/ FinishedDone
           \/ StartWorker \/ NothingDue \/ Idle \/ AwolRaises \/ AwolDone
           \/ Crash \/ MarkDead
    PROVE  Placement'
<1>1. ASSUME UNCHANGED <<waiting, running, taskId, status, owner, spool>>,
             UNCHANGED runningWorkers, cmd' \in {cmd, NoCmd},
             launching' \in {launching, NoTask},
             DownHasNone', LaunchingAtStart'
      PROVE  Placement'
    BY <1>1, AddsKept, InHandKept, StatusKept, PlacementControl
<1>2. ASSUME pc \notin {"down", "relaunch", "start"}
      PROVE  launching = NoTask
    BY <1>2 DEF Placement, LaunchingAtStart
<1>3. CASE Start
    <2>1. DownHasNone' /\ LaunchingAtStart'
        BY <1>3 DEF Start, Placement, DownHasNone, LaunchingAtStart
    <2> QED
        BY <1>1, <1>3, <2>1 DEF Start, taskVars, clientVars
<1>4. CASE RelaunchDone \/ NothingDue
    <2>1. DownHasNone' /\ LaunchingAtStart' /\ cmd' = NoCmd /\ launching' = NoTask
        BY <1>4, LocalsReset DEF RelaunchDone, NothingDue, DownHasNone
    <2> QED
        BY <1>1, <1>4, <2>1
        DEF RelaunchDone, NothingDue, storeVars, taskVars, clientVars, workerVars
<1>5. CASE BeginLoop
    <2>1. DownHasNone' /\ LaunchingAtStart'
        BY <1>5 DEF BeginLoop, Placement, DownHasNone, LaunchingAtStart
    <2> QED
        BY <1>1, <1>5, <2>1
        DEF BeginLoop, storeVars, taskVars, clientVars, workerVars
<1>6. CASE PopSpool
    <2>1. /\ DownHasNone' /\ LaunchingAtStart'
          /\ UNCHANGED <<launching, runningWorkers>>
        BY <1>6 DEF PopSpool, GoTo, Placement, DownHasNone, LaunchingAtStart,
                    workerVars
    <2>2. AddsAreSingle' /\ \A t \in Tasks : ToAdd(t)' => ToAdd(t)
        <3>1. CASE spool = <<>>
            BY <1>6, <3>1, AddsKept DEF PopSpool, GoTo, clientVars
        <3>2. CASE spool # <<>>
            BY <1>6, <3>2, AddsAfterPop DEF PopSpool, Popped, clientVars
        <3> QED
            BY <3>1, <3>2
    <2> QED
        BY <1>6, <2>1, <2>2, InHandKept, StatusKept, PlacementControl
        DEF PopSpool, taskVars
<1>7. CASE ExecDelete
    <2>1. DownHasNone' /\ LaunchingAtStart'
        BY <1>7 DEF ExecDelete, Executing, Placement, DownHasNone,
                    LaunchingAtStart
    <2> QED
        BY <1>1, <1>7, <2>1 DEF ExecDelete, clientVars, workerVars
<1>8. CASE DeleteRaises \/ ExecShutdown
    <2>1. DownHasNone' /\ LaunchingAtStart'
        BY <1>8 DEF DeleteRaises, ExecShutdown, Executing, RaiseFromSpool,
                    Placement, DownHasNone, LaunchingAtStart
    <2> QED
        BY <1>1, <1>8, <2>1
        DEF DeleteRaises, ExecShutdown, RaiseFromSpool, storeVars, taskVars,
            clientVars, workerVars
<1>9. CASE FinishedDone
    <2>1. CASE exiting
        BY <1>9, <2>1, QuitPlacement DEF FinishedDone, Quit, taskVars, clientVars
    <2>2. CASE ~exiting
        <3>1. DownHasNone' /\ LaunchingAtStart'
            BY <1>9, <2>2 DEF FinishedDone, GoTo, Placement, DownHasNone,
                              LaunchingAtStart
        <3> QED
            BY <1>1, <1>9, <2>2, <3>1
            DEF FinishedDone, GoTo, taskVars, clientVars, workerVars
    <2> QED
        BY <2>1, <2>2
<1>10. CASE StartWorker
    <2>1. PICK w \in Workers :
             runningWorkers' = [runningWorkers EXCEPT ![launching] = w]
        BY <1>10 DEF StartWorker
    <2>2. DownHasNone' /\ LaunchingAtStart' /\ cmd' = NoCmd /\ launching' = NoTask
        BY <1>10, LocalsReset DEF StartWorker, DownHasNone
    <2>3. \A t \in Tasks : InHand(t)' => InHand(t)
        BY <2>1, <2>2, StoreAssumption
        DEF InHand, TypeInv, TypeOK, WorkerTypeOK
    <2>4. AddsAreSingle' /\ \A t \in Tasks : ToAdd(t)' => ToAdd(t)
        BY <1>10, <2>2, AddsKept DEF StartWorker, storeVars, clientVars
    <2> QED
        BY <1>10, <2>2, <2>3, <2>4, StatusKept, PlacementControl
        DEF StartWorker, storeVars, taskVars
<1>11. CASE Idle \/ AwolDone
    <2>1. DownHasNone' /\ LaunchingAtStart'
        BY <1>11 DEF Idle, AwolDone, GoTo, Placement, DownHasNone,
                     LaunchingAtStart
    <2> QED
        BY <1>1, <1>11, <2>1
        DEF Idle, AwolDone, GoTo, storeVars, taskVars, clientVars, workerVars
<1>12. CASE AwolRaises
    BY <1>12, QuitPlacement DEF AwolRaises, Quit, taskVars, clientVars
<1>13. CASE Crash
    BY <1>13, QuitPlacement DEF Crash, storeVars, taskVars
<1>14. CASE MarkDead
    <2>1. DownHasNone' /\ LaunchingAtStart'
        BY <1>14 DEF MarkDead, Placement, DownHasNone, LaunchingAtStart,
                     workerVars, daemonVars
    <2> QED
        BY <1>1, <1>14, <2>1 DEF MarkDead, taskVars, clientVars, workerVars,
                                 daemonVars
<1> QED
    BY <1>3, <1>4, <1>5, <1>6, <1>7, <1>8, <1>9, <1>10, <1>11, <1>12, <1>13,
       <1>14

\* A task that is waiting, on the list or in hand has no 'add' outstanding.
LEMMA PlacedIsAdded ==
    ASSUME Placement, NEW t \in Tasks, Waits(t) \/ OnRunningList(t) \/ InHand(t)
    PROVE  ~ToAdd(t)
BY DEF Placement, AddsAreFresh, Fresh

\* The daemon's steps that move a task.
LEMMA PlacementTasks ==
    ASSUME TypeInv, Placement, AwaitedIsQueued,
           \/ RelaunchItem \/ ExecAdd \/ ExecChange \/ DeleteMove
           \/ SetTaskRunning \/ AwolTerminate
    PROVE  Placement'
<1>1. \A t \in Tasks : startOn[t] \in Times \cup {Never}
    BY DEF TypeInv, TypeOK, StoreTypeOK
<1>2. StoreTypeOK /\ Once
    BY DEF TypeInv, TypeOK, Placement
<1>3. CASE RelaunchItem
    <2>1. PICK t \in Tasks : t = running[cursor] /\ OnRunningList(t)
        BY <1>2, <1>3, ElementOfSeq, LenProperties
        DEF RelaunchItem, StoreTypeOK, OnRunningList
    <2>2. /\ DownHasNone' /\ LaunchingAtStart' /\ cmd' = cmd
          /\ \A u \in Tasks : InHand(u)' => InHand(u)
          /\ UNCHANGED <<owner, spool, taskId>>
        BY <1>3, InHandKept DEF RelaunchItem, workerVars, clientVars, Placement,
                                DownHasNone, LaunchingAtStart
    <2>3. AddsAreSingle' /\ \A u \in Tasks : ToAdd(u)' => ToAdd(u)
        BY <2>2, AddsKept
    <2>4. ~InHand(t)
        BY <1>3, <2>1, StoreAssumption
        DEF RelaunchItem, Placement, DownHasNone, LaunchingAtStart, InHand
    <2>5. running' = RunningAfter(t, "running")
        BY <1>3, <2>1 DEF RelaunchItem, MoveTask
    <2>6. /\ Once' /\ (t \in Single => ~OnRunningList(t)')
          /\ \A u \in Tasks : OnRunningList(u)' => OnRunningList(u)
        BY <1>2, <2>5, RunningShrinks
    <2>7. ~ToAdd(t)
        BY <2>1, PlacedIsAdded
    <2>8. CASE /\ StatusIs(t, "running") /\ MoveTask(t, "running", "queued")
               /\ status' = [status EXCEPT ![t] = StatusQueued(startOn[t], @)]
        <3>1. waiting' = waiting \cup Bin(startOn[t], t)
            BY <2>8 DEF MoveTask, WaitingAfter, Enqueued
        <3>2. /\ ~FailedOneShot(t)'
              /\ \A u \in Tasks : FailedOneShot(u)' => FailedOneShot(u)
            BY <1>2, <2>1, <2>8 DEF FailedOneShot, StatusQueued, StatusIs,
                                      StoreTypeOK
        <3>3. ~Waits(t)
            BY <2>8 DEF AwaitedIsQueued, Awaited, Pending, QueuedStatus, StatusIs
        <3> QED
            BY <1>1, <2>1, <2>2, <2>3, <2>4, <2>6, <2>7, <3>1, <3>2, <3>3,
               PlacementEnqueues
    <2>9. CASE MoveTask(t, "running", "failed") /\ UNCHANGED status
        <3>1. waiting' = waiting
            BY <2>9 DEF MoveTask, WaitingAfter
        <3>2. OneBin' /\ \A u \in Tasks : Waits(u)' => Waits(u)
            BY <3>1 DEF Placement, OneBin, Waits
        <3> QED
            BY <2>2, <2>3, <2>6, <2>9, <3>2, StatusKept, PlacementShrinks
    <2> QED
        BY <1>3, <2>1, <2>8, <2>9 DEF RelaunchItem
<1>4. CASE ExecAdd
    <2>1. PICK t \in Tasks : t = cmd.task /\ cmd.op = "add" /\ pc = "exec"
        BY <1>4, ExecutingType DEF ExecAdd, Executing
    <2>2. Spooled("add", t) /\ Fresh(t)
        BY <2>1 DEF Spooled, Placement, AddsAreFresh, ToAdd
    <2>3. /\ cmd' = NoCmd /\ pc' = "spool"
          /\ UNCHANGED <<owner, spool, running, launching, runningWorkers>>
        BY <1>4 DEF ExecAdd, NextCommand, clientVars, workerVars
    <2>4. DownHasNone' /\ LaunchingAtStart'
        BY <2>1, <2>3 DEF Placement, DownHasNone, LaunchingAtStart
    <2>5. AddsAreSingle' /\ \A u \in Tasks : ToAdd(u)' => ToAdd(u)
        BY <2>3, AddsKept
    <2>6. ~ToAdd(t)'
        <3>1. owner[t] # "new" /\ \A i \in DOMAIN spool : ~Adds(i, t)
            BY <2>1, <2>2 DEF Placement, AddsAreSingle
        <3> QED
            BY <2>3, <3>1 DEF ToAdd, Spooled, Adds, NoCmd, Command
    <2>7. /\ \A u \in Tasks : InHand(u)' => InHand(u)
          /\ \A u \in Tasks : OnRunningList(u)' => OnRunningList(u)
          /\ Once'
        BY <1>2, <2>3 DEF InHand, OnRunningList, Once, Single
    <2>8. ~InHand(t)' /\ ~OnRunningList(t)' /\ ~Waits(t)
        BY <2>1, <2>2, <2>7 DEF Fresh
    <2>9. /\ waiting' = waiting \cup Bin(startOn[t], t)
          /\ status' = [status EXCEPT ![t] = StatusQueued(startOn[t], "spooled")]
          /\ \A u \in Tasks \ {t} : taskId'[u] = taskId[u]
        BY <1>2, <1>4, <2>1 DEF ExecAdd, Enqueued, StoreTypeOK
    <2>10. /\ ~FailedOneShot(t)'
           /\ \A u \in Tasks : FailedOneShot(u)' => FailedOneShot(u)
        BY <1>2, <2>1, <2>9 DEF FailedOneShot, StatusQueued, StoreTypeOK
    <2> QED
        BY <1>1, <2>1, <2>4, <2>5, <2>6, <2>7, <2>8, <2>9, <2>10,
           PlacementEnqueues
<1>5. CASE ExecChange
    <2> DEFINE t == cmd.task
               old == <<cmd.ts, cmd.task>>
    <2>1. t \in Tasks
        BY <1>5, ExecutingType DEF ExecChange
    <2>2. /\ cmd' = NoCmd /\ pc = "exec" /\ pc' = "spool"
          /\ UNCHANGED <<owner, spool, running, launching, runningWorkers,
                         status, taskId>>
        BY <1>5 DEF ExecChange, Executing, NextCommand, clientVars, workerVars,
                    taskVars
    <2>3. DownHasNone' /\ LaunchingAtStart'
        BY <2>2 DEF Placement, DownHasNone, LaunchingAtStart
    <2>4. AddsAreSingle' /\ \A u \in Tasks : ToAdd(u)' => ToAdd(u)
        BY <2>2, AddsKept
    <2>5. /\ \A u \in Tasks : InHand(u)' => InHand(u)
          /\ \A u \in Tasks : OnRunningList(u)' => OnRunningList(u)
          /\ Once'
        BY <1>2, <2>2 DEF InHand, OnRunningList, Once, Single
    <2>6. OneBin' /\ \A u \in Tasks : Waits(u)' => Waits(u)
        <3>1. CASE old \notin waiting
            <4>1. waiting' = waiting
                BY <1>5, <3>1 DEF ExecChange, Rebinned
            <4> QED
                BY <4>1 DEF Placement, OneBin, Waits
        <3>2. CASE old \in waiting
            <4>1. waiting' = (waiting \ {old}) \cup Bin(startOn[t], t)
                BY <1>5, <3>2 DEF ExecChange, Rebinned, Enqueued
            <4>2. cmd.ts \in Times /\ OneBin
                BY <1>2, <3>2 DEF StoreTypeOK, Placement
            <4> QED
                BY <1>1, <2>1, <3>2, <4>1, <4>2, BinsAfterChange
        <3> QED
            BY <3>1, <3>2
    <2> QED
        BY <2>2, <2>3, <2>4, <2>5, <2>6, StatusKept, PlacementShrinks
<1>6. CASE DeleteMove
    <2>1. /\ cmd' = NoCmd /\ pc = "delete" /\ pc' = "spool"
          /\ UNCHANGED <<owner, spool, launching, runningWorkers, status, taskId>>
        BY <1>6 DEF DeleteMove, NextCommand, clientVars, workerVars, taskVars
    <2>2. DownHasNone' /\ LaunchingAtStart'
        BY <2>1 DEF Placement, DownHasNone, LaunchingAtStart
    <2>3. AddsAreSingle' /\ \A u \in Tasks : ToAdd(u)' => ToAdd(u)
        BY <2>1, AddsKept
    <2>4. \A u \in Tasks : InHand(u)' => InHand(u)
        BY <2>1 DEF InHand
    <2>5. waiting' \subseteq waiting
        BY <1>6 DEF DeleteMove, MoveTask, WaitingAfter
    <2>6. OneBin' /\ \A u \in Tasks : Waits(u)' => Waits(u)
        BY <2>5 DEF Placement, OneBin, Waits
    <2>7. Once' /\ \A u \in Tasks : OnRunningList(u)' => OnRunningList(u)
        BY <1>2, <1>6, RunningShrinks DEF DeleteMove, MoveTask
    <2> QED
        BY <2>1, <2>2, <2>3, <2>4, <2>6, <2>7, StatusKept, PlacementShrinks
<1>7. CASE SetTaskRunning
    <2>1. PICK e \in waiting :
             /\ waiting' = waiting \ {e}
             /\ running' = Append(running, e[2])
             /\ launching' = e[2]
        BY <1>7 DEF SetTaskRunning, TakenFromBin
    <2>2. PICK x \in Times, t \in Tasks : e = <<x, t>>
        BY <1>2, <2>1 DEF StoreTypeOK
    <2>3. <<x, t>> \in waiting /\ Waits(t)
        BY <2>1, <2>2 DEF Waits
    <2>4. /\ t \in Single => ~OnRunningList(t)
          /\ ~FailedOneShot(t) /\ ~ToAdd(t)
        BY <2>2, <2>3, PlacedIsAdded DEF Placement, Apart, FailedIsOut
    <2>5. /\ waiting' = waiting \ {<<x, t>>}
          /\ running' = Append(running, t)
          /\ launching' = t
        BY <2>1, <2>2
    <2>6. OneBin' /\ ~Waits(t)' /\ \A u \in Tasks : Waits(u)' => Waits(u)
        BY <2>3, <2>5, BinsAfterTake DEF Placement
    <2>7. /\ Len(running) \in Nat /\ DOMAIN running = 1 .. Len(running)
          /\ DOMAIN running' = 1 .. Len(running) + 1
          /\ \A i \in 1 .. Len(running) : running'[i] = running[i]
          /\ running'[Len(running) + 1] = t
        BY <1>2, <2>5, AppendProperties, LenProperties DEF StoreTypeOK
    <2>8. Once'
        BY <1>2, <2>4, <2>7 DEF Once, OnRunningList, Single
    <2>9. \A u \in Tasks \ {t} : OnRunningList(u)' => OnRunningList(u)
        BY <2>7 DEF OnRunningList
    <2>10. /\ pc = "peek" /\ pc' = "start" /\ launching' = t
           /\ UNCHANGED <<owner, spool, cmd, runningWorkers, status, taskId>>
        BY <1>7, <2>5 DEF SetTaskRunning, clientVars, workerVars
    <2>11. DownHasNone' /\ LaunchingAtStart'
        BY <2>10 DEF Placement, DownHasNone, LaunchingAtStart
    <2>12. AddsAreSingle' /\ \A u \in Tasks : ToAdd(u)' => ToAdd(u)
        BY <2>10, AddsKept
    <2>13. \A u \in Tasks \ {t} : InHand(u)' => InHand(u)
        BY <2>10 DEF InHand
    <2>14. \A u \in Tasks : FailedOneShot(u)' => FailedOneShot(u) /\ u # t
        BY <2>4, <2>10 DEF FailedOneShot
    <2>15. Apart'
        BY <2>6, <2>9, SingleTasks DEF Placement, Apart, Single
    <2>16. InHandIsOut'
        BY <2>6, <2>13, <2>14 DEF Placement, InHandIsOut
    <2>17. FailedIsOut'
        BY <2>6, <2>9, <2>14 DEF Placement, FailedIsOut
    <2>18. AddsAreFresh'
        BY <2>4, <2>6, <2>9, <2>10, <2>12, <2>13
        DEF Placement, AddsAreFresh, Fresh
    <2> QED
        BY <2>6, <2>8, <2>11, <2>12, <2>15, <2>16, <2>17, <2>18 DEF Placement
<1>8. CASE AwolTerminate
    <2>1. PICK i \in DOMAIN running :
             /\ MoveTask(running[i], "running", "terminated")
             /\ status' = [status EXCEPT ![running[i]] = "terminated"]
        BY <1>8 DEF AwolTerminate
    <2>2. UNCHANGED <<owner, spool, cmd, pc, launching, runningWorkers, taskId>>
        BY <1>8 DEF AwolTerminate, clientVars, workerVars, daemonVars
    <2>3. /\ DownHasNone' /\ LaunchingAtStart'
          /\ \A u \in Tasks : InHand(u)' => InHand(u)
        BY <2>2, DaemonKept
    <2>4. AddsAreSingle' /\ \A u \in Tasks : ToAdd(u)' => ToAdd(u)
        BY <2>2, AddsKept
    <2>5. waiting' = waiting
        BY <2>1 DEF MoveTask, WaitingAfter
    <2>6. OneBin' /\ \A u \in Tasks : Waits(u)' => Waits(u)
        BY <2>5 DEF Placement, OneBin, Waits
    <2>7. Once' /\ \A u \in Tasks : OnRunningList(u)' => OnRunningList(u)
        BY <1>2, <2>1, RunningShrinks DEF MoveTask
    <2>8. \A u \in Tasks : FailedOneShot(u)' => FailedOneShot(u)
        BY <1>2, <2>1 DEF FailedOneShot, StoreTypeOK
    <2> QED
        BY <2>2, <2>3, <2>4, <2>6, <2>7, <2>8, PlacementShrinks
<1> QED
    BY <1>3, <1>4, <1>5, <1>6, <1>7, <1>8

-------------------------------------------------------------------------------
(* The end of a worker *)

\* Collecting a worker leaves its task in nobody's hand.
LEMMA CollectKeeps ==
    ASSUME TypeInv, Placement, NEW t \in Tasks, Collect(t) \/ NotifyConflict(t)
    PROVE  /\ ~Waits(t) /\ ~InHand(t)' /\ ~ToAdd(t)'
           /\ \A u \in Tasks : InHand(u)' => InHand(u)
           /\ DownHasNone' /\ LaunchingAtStart'
           /\ AddsAreSingle' /\ \A u \in Tasks : ToAdd(u)' => ToAdd(u)
           /\ taskId' = taskId
<1>1. /\ pc = "finished" /\ runningWorkers[t] # NoWorker
      /\ runningWorkers' = [runningWorkers EXCEPT ![t] = NoWorker]
      /\ UNCHANGED <<owner, spool, taskId, cmd, pc, launching>>
    BY DEF Collect, NotifyConflict, clientVars, daemonVars
<1>2. launching = NoTask
    BY <1>1 DEF Placement, LaunchingAtStart
<1>3. InHand(t) /\ ~InHand(t)' /\ \A u \in Tasks : InHand(u)' => InHand(u)
    BY <1>1, <1>2, StoreAssumption
    DEF InHand, TypeInv, TypeOK, WorkerTypeOK
<1>4. DownHasNone' /\ LaunchingAtStart'
    BY <1>1, <1>2 DEF DownHasNone, LaunchingAtStart
<1>5. AddsAreSingle' /\ \A u \in Tasks : ToAdd(u)' => ToAdd(u)
    BY <1>1, AddsKept
<1>6. ~Waits(t) /\ ~ToAdd(t)
    BY <1>3, PlacedIsAdded DEF Placement, InHandIsOut
<1> QED
    BY <1>1, <1>3, <1>4, <1>5, <1>6

\* _db_notifyTaskStatus, in each of its four cases.
LEMMA PlacementNotify ==
    ASSUME TypeInv, Placement, NEW t \in Tasks, Notify(t)
    PROVE  Placement'
<1>1. StoreTypeOK /\ Once /\ Collect(t)
    BY DEF TypeInv, TypeOK, Placement, Notify, NotifyTerminated, NotifyOneShot,
           NotifyPeriodic, NotifyDeleted
<1>2. Outcome(t) \in {"finished", "failed"}
    BY DEF Outcome
<1>3. ASSUME UNCHANGED waiting
      PROVE  OneBin' /\ \A u \in Tasks : Waits(u)' => Waits(u)
    BY <1>3 DEF Placement, OneBin, Waits
<1>4. CASE NotifyTerminated(t)
    <2>1. UNCHANGED <<waiting, status>> /\ running' = RunningAfter(t, "running")
        BY <1>4 DEF NotifyTerminated
    <2> QED
        BY <1>1, <1>3, <2>1, CollectKeeps, RunningShrinks, StatusKept,
           PlacementShrinks
<1>5. CASE NotifyOneShot(t)
    <2>1. /\ running' = RunningAfter(t, "running")
          /\ status' = [status EXCEPT ![t] = Outcome(t)]
          /\ waiting' = waiting
        BY <1>2, <1>5 DEF NotifyOneShot, MoveTask, WaitingAfter
    <2>2. /\ Once' /\ ~OnRunningList(t)'
          /\ \A u \in Tasks : OnRunningList(u)' => OnRunningList(u)
        BY <1>1, <1>5, <2>1, RunningShrinks, SingleTasks DEF NotifyOneShot
    <2>3. ~Waits(t)'
        BY <1>1, <1>3, <2>1, CollectKeeps
    <2>4. \A u \in Tasks : FailedOneShot(u)' => FailedOneShot(u) \/ u = t
        BY <1>1, <2>1 DEF FailedOneShot, StoreTypeOK
    <2> QED
        BY <1>1, <1>3, <2>1, <2>2, <2>3, <2>4, CollectKeeps, PlacementShrinks
<1>6. CASE NotifyPeriodic(t)
    <2>1. PICK ts \in Times \cup {Never} :
             /\ waiting' = waiting \cup Bin(ts, t)
             /\ status' = [status EXCEPT ![t] = StatusQueued(ts, Outcome(t))]
        BY <1>6 DEF NotifyPeriodic, NextOccurrences
    <2>2. t \notin OneShot /\ running' = RunningAfter(t, "running")
        BY <1>6, StoreAssumption DEF NotifyPeriodic
    <2>3. /\ Once' /\ (t \in Single => ~OnRunningList(t)')
          /\ \A u \in Tasks : OnRunningList(u)' => OnRunningList(u)
        BY <1>1, <2>2, RunningShrinks
    <2>4. /\ ~FailedOneShot(t)'
          /\ \A u \in Tasks : FailedOneShot(u)' => FailedOneShot(u)
        BY <1>1, <2>1, <2>2 DEF FailedOneShot, StoreTypeOK
    <2>5. /\ ~Waits(t) /\ ~InHand(t)' /\ ~ToAdd(t)'
          /\ \A u \in Tasks : InHand(u)' => InHand(u)
          /\ DownHasNone' /\ LaunchingAtStart'
          /\ AddsAreSingle' /\ \A u \in Tasks : ToAdd(u)' => ToAdd(u)
          /\ \A u \in Tasks \ {t} : taskId'[u] = taskId[u]
        BY <1>1, CollectKeeps
    <2> QED
        BY <2>1, <2>3, <2>4, <2>5, PlacementEnqueues
<1>7. CASE NotifyDeleted(t)
    <2>1. /\ UNCHANGED <<waiting, running>> /\ t \notin OneShot
          /\ status' = [status EXCEPT ![t] = Outcome(t)]
        BY <1>7, StoreAssumption DEF NotifyDeleted
    <2>2. \A u \in Tasks : FailedOneShot(u)' => FailedOneShot(u)
        BY <1>1, <2>1 DEF FailedOneShot, StoreTypeOK
    <2> QED
        BY <1>1, <2>1, <2>2, CollectKeeps, PlacementControl
<1> QED
    BY <1>4, <1>5, <1>6, <1>7 DEF Notify

\* The lost writes of a conflict: the task is queued, and may still be on the
\* list.
LEMMA PlacementConflict ==
    ASSUME TypeInv, Placement, NEW t \in Tasks, NotifyConflict(t)
    PROVE  Placement'
<1>1. /\ t \in Periodic /\ t \notin OneShot /\ t \notin Single
      /\ UNCHANGED <<running, startOn>>
      /\ waiting' = waiting \cup Bin(startOn[t], t)
      /\ status' = [status EXCEPT ![t] = "queued"]
    BY StoreAssumption DEF NotifyConflict, Disturb, Single, Enqueued
<1>2. startOn[t] \in Times \cup {Never}
    BY DEF TypeInv, TypeOK, StoreTypeOK
<1>3. Once' /\ \A u \in Tasks : OnRunningList(u)' => OnRunningList(u)
    BY <1>1 DEF Placement, Once, OnRunningList, Single
<1>4. /\ ~FailedOneShot(t)'
      /\ \A u \in Tasks : FailedOneShot(u)' => FailedOneShot(u)
    BY <1>1 DEF FailedOneShot, TypeInv, TypeOK, StoreTypeOK
<1>5. /\ ~Waits(t) /\ ~InHand(t)' /\ ~ToAdd(t)'
      /\ \A u \in Tasks : InHand(u)' => InHand(u)
      /\ DownHasNone' /\ LaunchingAtStart'
      /\ AddsAreSingle' /\ \A u \in Tasks : ToAdd(u)' => ToAdd(u)
      /\ \A u \in Tasks \ {t} : taskId'[u] = taskId[u]
    BY CollectKeeps
<1> QED
    BY <1>1, <1>2, <1>3, <1>4, <1>5, PlacementEnqueues

-------------------------------------------------------------------------------
(* The invariant *)

\* At first there is no task anywhere.
LEMMA PlacementInit == Init => Placement
<1> SUFFICES ASSUME Init PROVE Placement
    OBVIOUS
<1>1. waiting = {} /\ running = <<>> /\ spool = <<>>
    BY DEF Init, StoreInit
<1>2. DOMAIN running = {} /\ DOMAIN spool = {}
    BY <1>1
<1>3. \A t \in Tasks : ~Waits(t) /\ ~OnRunningList(t) /\ ~InHand(t)
    BY <1>1, <1>2, StoreAssumption
    DEF Waits, OnRunningList, InHand, Init, WorkerInit, DaemonInit
<1>4. OneBin /\ Once /\ Apart
    BY <1>1, <1>2, <1>3, SingleTasks DEF OneBin, Once, Apart
<1>5. InHandIsOut /\ FailedIsOut
    BY <1>3 DEF InHandIsOut, FailedIsOut, FailedOneShot, Init, StoreInit
<1>6. AddsAreFresh
    BY <1>3 DEF AddsAreFresh, Fresh, Init, StoreInit
<1>7. AddsAreSingle
    BY <1>2 DEF AddsAreSingle, Spooled, Init, DaemonInit, NoCmd, Command
<1>8. DownHasNone /\ LaunchingAtStart
    BY DEF DownHasNone, LaunchingAtStart, Init, WorkerInit, DaemonInit
<1> QED
    BY <1>4, <1>5, <1>6, <1>7, <1>8 DEF Placement

\* Every step keeps the invariant.
LEMMA PlacementNext ==
    ASSUME TypeInv, Placement, AwaitedIsQueued, [Next]_vars
    PROVE  Placement'
<1>1. ASSUME UNCHANGED <<waiting, running, taskId, status, owner, spool, cmd,
                         pc, launching, runningWorkers>>
      PROVE  Placement'
    <2>1. AddsAreSingle' /\ \A u \in Tasks : ToAdd(u)' => ToAdd(u)
        BY <1>1, AddsKept
    <2> QED
        BY <1>1, <2>1, DaemonKept, StatusKept, PlacementControl
<1>2. CASE UNCHANGED vars
    BY <1>1, <1>2 DEF vars, storeVars, taskVars, clientVars, workerVars,
                      daemonVars
<1>3. CASE Tick
    BY <1>1, <1>3 DEF Tick, taskVars, clientVars, workerVars, daemonVars
<1>4. CASE DaemonNext
    BY <1>4, PlacementDaemonControl, PlacementTasks, PlacementNotify,
       PlacementConflict DEF DaemonNext, DaemonStep
<1> QED
    BY <1>2, <1>3, <1>4, PlacementClient, PlacementWorker DEF Next

\* What is in a bin of t is a date and t.
LEMMA BinsAreWaits ==
    ASSUME TypeInv, NEW t \in Tasks
    PROVE  /\ \A e \in Bins(t) :
                 \E x \in Times : e = <<x, t>> /\ <<x, t>> \in waiting
           /\ Bins(t) # {} <=> Waits(t)
<1>1. waiting \subseteq Times \X Tasks
    BY DEF TypeInv, TypeOK, StoreTypeOK
<1>2. \A e \in Bins(t) : \E x \in Times : e = <<x, t>> /\ <<x, t>> \in waiting
    BY <1>1 DEF Bins
<1>3. Bins(t) # {} => Waits(t)
    BY <1>2 DEF Waits
<1>4. Waits(t) => Bins(t) # {}
    BY DEF Waits, Bins
<1> QED
    BY <1>2, <1>3, <1>4

\* Without the conflict, the invariant is stronger than SingleCopy.
LEMMA PlacementImplies ==
    ASSUME "conflict" \notin Events, TypeInv, Placement
    PROVE  SingleCopy
<1>1. ASSUME NEW t \in Tasks, NEW e \in Bins(t), NEW f \in Bins(t)
      PROVE  e = f
    <2>1. PICK x \in Times : e = <<x, t>> /\ <<x, t>> \in waiting
        BY BinsAreWaits
    <2>2. PICK y \in Times : f = <<y, t>> /\ <<y, t>> \in waiting
        BY BinsAreWaits
    <2>3. x = y
        BY <2>1, <2>2 DEF Placement, OneBin
    <2> QED
        BY <2>1, <2>2, <2>3
<1>2. \A t \in Tasks : Bins(t) # {} => ~OnRunningList(t)
    BY BinsAreWaits, SingleTasks DEF Placement, Apart
<1> QED
    BY <1>1, <1>2, SingleTasks DEF SingleCopy, Placement, Once

===============================================================================
