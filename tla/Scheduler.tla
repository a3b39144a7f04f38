------------------------------- MODULE Scheduler ------------------------------
(***************************************************************************)
(* The whole scheduler: clients, daemon, workers and the clock.            *)
(***************************************************************************)
EXTENDS SchedulerDaemon

TypeOK == StoreTypeOK /\ ClientTypeOK /\ WorkerTypeOK /\ DaemonTypeOK

Init == StoreInit /\ ClientInit /\ WorkerInit /\ DaemonInit

Tick ==
    /\ now < MaxTime
    /\ now' = now + 1
    /\ UNCHANGED <<spool, waiting, running, indexVars, taskVars,
                   schedulerStatus, clientVars, workerVars, daemonVars>>

Next ==
    \/ ClientNext /\ UNCHANGED <<workerVars, daemonVars>>
    \/ WorkerNext /\ UNCHANGED daemonVars
    \/ DaemonNext
    \/ Tick

Spec == Init /\ [][Next]_vars

-------------------------------------------------------------------------------
(* What the scheduler promises *)

\* A command about t is in the spool, or has been taken out of it and is being
\* executed.
Spooled(op, t) == \/ \E i \in DOMAIN spool : spool[i].op = op /\ spool[i].task = t
                  \/ cmd.op = op /\ cmd.task = t

\* A task is in one place: in one bin of the waiting queue, or once on the
\* running list, or in neither.  Each move between them is two writes of one
\* operation (_db_setTaskRunning, moveTask, changeTaskStartDate), and a second
\* copy would be executed again.
SingleCopy ==
    \A t \in Tasks :
        /\ \A e, f \in Bins(t) : e = f
        /\ Bins(t) # {} => ~OnRunningList(t)
        /\ \A i, j \in DOMAIN running :
              running[i] = t /\ running[j] = t => i = j

Located(t) ==
    \/ Spooled("add", t)
    \/ Bins(t) # {}
    \/ OnRunningList(t)
    \/ status[t] = "terminated"
    \/ t \in OneShot /\ Entry(t) \in failedIndex \cup finishedIndex
    \/ t \in Periodic /\ startOn[t] = Never

\* A task its owner still holds can be found somewhere: on its way in the
\* spool, waiting, on the running list, or with a final status.  The operations
\* of the daemon, commit by commit, leave no task behind (moveTask,
\* changeTaskStartDate, _db_notifyTaskStatus), whatever clients do meanwhile.
NoTaskLost ==
    ~relaunched => \A t \in Tasks : owner[t] = "held" => Located(t)

\* An entry of the finished index stands for an execution that committed,
\* although Worker.run deduces success from task.endedOn alone, which an earlier
\* occurrence may have set.
FinishedMeansRan ==
    \A t \in Tasks :
        Cardinality({e \in finishedIndex : e[1] = t}) <= runs[t]

\* A one-shot task is executed at most once in a daemon's session, whatever its
\* owner and the administrator do to it meanwhile (change of date, removal,
\* RunFailedTask).  What counts are committed executions: the attempts of one
\* launch that conflict may each have sent a mail.
AtMostOnce == ~relaunched => \A t \in OneShot : runs[t] <= 1

\* _runningWorkers is indexed by task id: two workers alive for one task would
\* be confused with each other, and _taskCycle does not look before it starts
\* one.
OneWorkerPerTask ==
    ~relaunched =>
    \A v, w \in Workers : Alive(v) /\ Alive(w) /\ job[v] = job[w] => v = w

\* An item of the running list has a worker, or is about to get one, until
\* _checkFinishedTasks has recorded how it ended: within a session no item is
\* left on the list for the AWOL check to find.
RunningHasWorker ==
    ~relaunched /\ pc # "down" =>
        \A t \in Tasks : OnRunningList(t) =>
            launching = t \/ runningWorkers[t] # NoWorker

\* Once the pending changes of a task are done, it waits in the bin of its
\* start date: Client.moveTask changes the date at once and the queue later,
\* through the old date it put in the command.  Both moveTask and the client
\* look for a task in the bin of its start date.
BinIsStartDate ==
    \A e \in waiting : Spooled("change", e[2]) \/ e[1] = startOn[e[2]]

\* A one-shot task that has finished, or that the AWOL check or its own suicide
\* has terminated, keeps that status for good: the late end of its worker does
\* not overwrite it (_db_notifyTaskStatus).
FinalIsFinal ==
    [][~relaunched =>
       \A t \in OneShot : status[t] \in {"finished", "terminated"}
                             => status'[t] = status[t]]_vars

\* A task with a worker in _runningWorkers does not wait, whatever crashes and
\* lost operations came before: rescheduling it in _db_notifyTaskStatus cannot
\* meet a DuplicateElementException, which would end the daemon, and _taskCycle
\* cannot replace its worker by another one in the dictionary.
TrackedNotWaiting ==
    \A t \in Tasks : runningWorkers[t] # NoWorker => Bins(t) = {}

\* What waits is QUEUED, also after crashes, lost operations and deletions:
\* the daemon finds the container of a task by its status
\* (_db_deleteTaskFromQueue), so an item with another status could not be
\* removed any more.
WaitingIsQueued == \A e \in waiting : status[e[2]] = "queued"

-------------------------------------------------------------------------------
(* What the comments and docstrings of the code say *)

\* "During startup any item in runningList will have died prematurely (except
\* for AWOL tasks), so we relaunch them": _relaunchRunningListItems leaves
\* nothing on the list.
AllRelaunched ==
    [][pc = "relaunch" /\ pc' = "loop" => running = <<>>]_vars

\* "it doesn't matter if the task is already running again, get rid of it":
\* _db_deleteTaskFromQueue can remove a task that is on the running list.
RunningIsDeletable ==
    pc = "delete" /\ OnRunningList(cmd.task) => CanMove(cmd.task, oldStatus)

\* "A task will refuse to run if current time is past `expiryDate`": no worker
\* goes from prepare() to the execution of an expired task.
ExpiredRefused ==
    [][\A w \in Workers :
          phase[w] = "starting" /\ phase'[w] = "running"
              => ~Expired(job[w])]_vars

-------------------------------------------------------------------------------
(* Fairness: the daemon's loop, the worker threads and the clock go on.     *)
(* Nothing obliges a client to send a command, an administrator to start   *)
(* the daemon, an operation to conflict, or an idle turn to make the AWOL  *)
(* check.                                                                  *)

Fairness ==
    /\ WF_vars(DaemonStep)
    /\ \A w \in Workers : WF_vars(WorkerStep(w) /\ UNCHANGED daemonVars)
    /\ WF_vars(Tick)

FairSpec == Spec /\ Fairness

Down == pc = "down"

\* The commands of the spool get executed unless the daemon goes down: the
\* clients only append to it (_processSpool drains it in every turn).
CommandsExecuted == spool # <<>> ~> (spool = <<>> \/ Down)

\* A task that waits is launched, or taken out of the queue: no task is passed
\* over for ever, whatever the order of dates and ids in the bins.
WaitingIsLaunched ==
    \A t \in Tasks : (Bins(t) # {}) ~> (Bins(t) = {} \/ Down)

\* A task on the running list leaves it, without the help of the AWOL check:
\* each launch is followed by the end of its worker and by _checkFinishedTasks.
RunningIsRecorded ==
    \A t \in Tasks :
        OnRunningList(t) ~> (~OnRunningList(t) \/ Down \/ relaunched)
===============================================================================
