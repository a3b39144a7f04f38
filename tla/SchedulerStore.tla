---------------------------- MODULE SchedulerStore ----------------------------
(***************************************************************************)
(* The scheduler's persistent state: the SchedulerModule object kept in    *)
(* the ZODB (indico/modules/scheduler/module.py), the attributes of the    *)
(* task objects it refers to (tasks/__init__.py, tasks/periodic.py) and    *)
(* the spool of commands through which the web processes talk to the       *)
(* daemon (client.py).                                                     *)
(*                                                                         *)
(* A transaction that commits is one step.  OperationManager repeats an    *)
(* operation on fresh data when its commit conflicts, so an operation is   *)
(* one atomic step on the committed state; where that is not what the code *)
(* does (the nested operation of _db_notifyTaskStatus) SchedulerDaemon has *)
(* an action for it.                                                       *)
(***************************************************************************)
EXTENDS Integers, Sequences, FiniteSets, SequencesExt

CONSTANTS
    OneShot,        \* tasks that run once (alarms, reminders, HTTP tasks)
    Periodic,       \* tasks that are rescheduled after each occurrence
    MaxTime,        \* bound: the clock, and start dates, stop here
    Expiry,         \* [task -> expiryDate], Never for none
    Never,          \* a start date or an expiry date that is None
    NoTask          \* no task at all

Tasks == OneShot \cup Periodic
Times == 1 .. MaxTime

ASSUME StoreAssumption ==
    /\ MaxTime \in Nat \ {0}
    /\ OneShot \cap Periodic = {}
    /\ IsFiniteSet(Tasks)
    /\ Never \notin Int
    /\ NoTask \notin Tasks
    /\ Expiry \in [Tasks -> Times \cup {Never}]

VARIABLES
    now,            \* the clock every process reads (base.TimeSource)
    spool,          \* _taskSpool: FIFO queue of commands
    waiting,        \* _waitingQueue: {<<timestamp, task>>}
    running,        \* _runningList: a list, so a task may occur twice
    failedIndex,    \* _failedIndex: {<<task, occurrence number>>}
    finishedIndex,  \* _finishedIndex, likewise; number 0 is the task itself
    taskId,         \* the serial id given by _indexTask, 0 before that
    status,         \* task.status
    startOn,        \* task.getStartOn()
    ended,          \* task.endedOn is set
    repeat,         \* PeriodicTask._repeat
    since,          \* task.onRunningListSince, 0 before the first launch
    occurrences,    \* PeriodicTask._occurrenceCount
    schedulerStatus \* _schedulerStatus: a daemon claims to be running

indexVars == <<failedIndex, finishedIndex>>
taskVars  == <<status, startOn, ended, repeat, since, occurrences, taskId>>
storeVars == <<now, spool, waiting, running, indexVars, taskVars,
               schedulerStatus>>

Statuses == {"none", "spooled", "queued", "running", "failed", "finished",
             "terminated"}

\* A command of the spool; ts is the old start date of a 'change'.
Command(op, t, ts) == [op |-> op, task |-> t, ts |-> ts]
TaskCommands == [op : {"add", "del", "change"}, task : Tasks,
                 ts : Times \cup {Never}]
Commands == TaskCommands \cup {Command("shutdown", NoTask, Never)}

Entry(t) == <<t, 0>>

StoreTypeOK ==
    /\ now \in 0 .. MaxTime
    /\ spool \in Seq(Commands)
    /\ waiting \subseteq Times \X Tasks
    /\ running \in Seq(Tasks)
    /\ failedIndex \subseteq Tasks \X Nat
    /\ finishedIndex \subseteq Tasks \X Nat
    /\ taskId \in [Tasks -> Nat]
    /\ status \in [Tasks -> Statuses]
    /\ startOn \in [Tasks -> Times \cup {Never}]
    /\ ended \in [Tasks -> BOOLEAN]
    /\ repeat \in [Tasks -> BOOLEAN]
    /\ since \in [Tasks -> 0 .. MaxTime]
    /\ occurrences \in [Tasks -> Nat]
    /\ schedulerStatus \in BOOLEAN

StoreInit ==
    /\ now = 0
    /\ spool = <<>>
    /\ waiting = {}
    /\ running = <<>>
    /\ failedIndex = {}
    /\ finishedIndex = {}
    /\ taskId = [t \in Tasks |-> 0]
    /\ status = [t \in Tasks |-> "none"]
    /\ startOn = [t \in Tasks |-> Never]
    /\ ended = [t \in Tasks |-> FALSE]
    /\ repeat = [t \in Tasks |-> t \in Periodic]
    /\ since = [t \in Tasks |-> 0]
    /\ occurrences = [t \in Tasks |-> 0]
    /\ schedulerStatus = FALSE

-------------------------------------------------------------------------------
(* PersistentWaitingQueue: bins of tasks by timestamp, served in the order *)
(* of the timestamp and then of the task's id.                             *)

Bins(t) == {e \in waiting : e[2] = t}

Before(a, b) == a[1] < b[1] \/ (a[1] = b[1] /\ taskId[a[2]] < taskId[b[2]])

IsNext(e) == e \in waiting /\ \A f \in waiting \ {e} : Before(e, f)

OnRunningList(t) == \E i \in DOMAIN running : running[i] = t

-------------------------------------------------------------------------------
(* SchedulerModule.moveTask(task, moveFrom, status, occurrence): what it   *)
(* leaves in each container, and when it raises.                           *)

RunningKept(t, from) == running

RunningAfter(t, from) ==
    IF from = "running" THEN RemoveFirst(running, t) ELSE running

BinUnchecked(ts, t) == {<<ts, t>>}

\* The place in the queue of a task that starts at ts: addTaskToWaitingQueue
\* queues nothing when there is no start date.
Bin(ts, t) == {<<u, t>> : u \in {ts} \ {Never}}

EnqueuedIfFuture(t) == {<<ts, t>> : ts \in {startOn[t]} \cap now + 1 .. MaxTime}

Enqueued(t) == Bin(startOn[t], t)

\* The status addTaskToWaitingQueue leaves behind.
StatusQueuedLate(ts, before) == before
StatusQueued(ts, before) == IF ts = Never THEN before ELSE "queued"

\* changeTaskStartDate: a task that is not in its old bin is left alone; the
\* new bin is that of the start date at this moment.
RebinnedAlways(t, old) == (waiting \ {old}) \cup Enqueued(t)
RebinnedUnlessDue(t, old) ==
    IF old \in waiting /\ old[1] > now THEN (waiting \ {old}) \cup Enqueued(t)
                                      ELSE waiting
Rebinned(t, old) ==
    IF old \in waiting THEN (waiting \ {old}) \cup Enqueued(t) ELSE waiting

WaitingAfter(t, from, to) ==
    (IF from = "queued" THEN waiting \ Enqueued(t) ELSE waiting)
        \cup (IF to = "queued" THEN Enqueued(t) ELSE {})

FailedAfter(from, to, entry) ==
    (IF from = "failed" THEN failedIndex \ {entry} ELSE failedIndex)
        \cup (IF to \in {"failed", "terminated"} THEN {entry} ELSE {})

FinishedAfter(to, entry) ==
    finishedIndex \cup (IF to = "finished" THEN {entry} ELSE {})

\* _assertTaskStatus
StatusIs(t, from) ==
    /\ status[t] = from
    /\ from = "running" => OnRunningList(t)

\* No step of moveTask raises: the status agrees, the bin holds the task, the
\* failed index knows it.
CanMove(t, from) ==
    /\ StatusIs(t, from)
    /\ from = "queued" => <<startOn[t], t>> \in waiting
    /\ from = "failed" => Entry(t) \in failedIndex

MoveTask(t, from, to) ==
    /\ running' = RunningAfter(t, from)
    /\ waiting' = WaitingAfter(t, from, to)
    /\ failedIndex' = FailedAfter(from, to, Entry(t))
    /\ finishedIndex' = FinishedAfter(to, Entry(t))
===============================================================================
