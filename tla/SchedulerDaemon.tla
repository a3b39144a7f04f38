---------------------------- MODULE SchedulerDaemon ---------------------------
(***************************************************************************)
(* The scheduler daemon (server.py): start-up and relaunch, the spool, the *)
(* finished workers, the waiting queue, the AWOL check, shutdown, and its  *)
(* death by an uncaught exception or from outside.                         *)
(***************************************************************************)
EXTENDS SchedulerWorker

CONSTANTS
    AWOLThreshold,  \* BaseTask._AWOLThresold, in ticks of the clock
    Mode            \* multitask_mode: "threads" or "processes"

ASSUME DaemonAssumption ==
    AWOLThreshold \in Nat /\ Mode \in {"threads", "processes"}

VARIABLES
    pc,             \* where the main loop is
    cursor,         \* position of the iterator over _runningList
    cmd,            \* the command popped from the spool
    oldStatus,      \* status read by _db_deleteTaskFromQueue
    curTS,          \* currentTimestamp of _iterateTasks
    launching,      \* the task between _db_setTaskRunning and its worker
    exiting         \* an exception is on its way out of _processSpool

daemonVars == <<pc, cursor, cmd, oldStatus, curTS, launching, exiting>>
vars == <<storeVars, clientVars, workerVars, daemonVars>>

NoCmd == Command("none", NoTask, Never)

DaemonTypeOK ==
    /\ pc \in {"down", "relaunch", "loop", "spool", "exec", "delete",
               "finished", "peek", "start", "idle", "awol"}
    /\ cursor \in Nat
    /\ cmd \in Commands \cup {NoCmd}
    /\ oldStatus \in Statuses
    /\ curTS \in 0 .. MaxTime
    /\ launching \in Tasks \cup {NoTask}
    /\ exiting \in BOOLEAN

DaemonLocals(l) ==
    /\ pc' = l
    /\ cursor' = 0
    /\ cmd' = NoCmd
    /\ oldStatus' = "none"
    /\ curTS' = 0
    /\ launching' = NoTask
    /\ exiting' = FALSE

DaemonInit ==
    /\ pc = "down"
    /\ cursor = 0
    /\ cmd = NoCmd
    /\ oldStatus = "none"
    /\ curTS = 0
    /\ launching = NoTask
    /\ exiting = FALSE

GoTo(l) ==
    /\ pc' = l
    /\ UNCHANGED <<cursor, cmd, oldStatus, curTS, launching, exiting>>

\* The dictionary of workers is lost; only live workers are left, untracked.
ForgetWorkers(survivors) ==
    /\ runningWorkers' = [t \in Tasks |-> NoWorker]
    /\ Keep({w \in survivors : Alive(w)})
    /\ UNCHANGED historyVars

\* The end of Scheduler.run, by exception or by shutdown.  The threads (and
\* processes) of the workers go on until their task ends.
Quit ==
    /\ DaemonLocals("down")
    /\ schedulerStatus' = FALSE
    /\ ForgetWorkers(Workers)

-------------------------------------------------------------------------------
(* Start-up *)

\* `indico_scheduler start`, without -f
Start ==
    /\ pc = "down" /\ ~schedulerStatus
    /\ schedulerStatus' = TRUE
    /\ pc' = "relaunch" /\ cursor' = 1
    /\ relaunched' = (relaunched \/ running # <<>>)
    /\ UNCHANGED <<now, spool, waiting, running, indexVars, taskVars,
                   clientVars, phase, job, result, runningWorkers, runs, cmd,
                   oldStatus, curTS, launching, exiting>>

\* _relaunchRunningListItems iterates over _runningList while moveTask removes
\* from it: the iterator's position moves on past the next item.
RelaunchItem ==
    LET t == running[cursor] IN
    /\ pc = "relaunch" /\ cursor \in DOMAIN running
    /\ cursor' = cursor + 1
    /\ \/ /\ StatusIs(t, "running")
          /\ MoveTask(t, "running", "queued")
          /\ status' = [status EXCEPT ![t] = StatusQueued(startOn[t], @)]
       \/ /\ ~StatusIs(t, "running")
          /\ MoveTask(t, "running", "failed")
          /\ UNCHANGED status
    /\ UNCHANGED <<now, spool, startOn, ended, repeat, since, occurrences,
                   taskId, schedulerStatus, clientVars, workerVars, pc, cmd,
                   oldStatus, curTS, launching, exiting>>

RelaunchDone ==
    /\ pc = "relaunch" /\ cursor \notin DOMAIN running
    /\ DaemonLocals("loop")
    /\ UNCHANGED <<storeVars, clientVars, workerVars>>

-------------------------------------------------------------------------------
(* One turn of _iterateTasks *)

BeginLoop ==
    /\ pc = "loop"
    /\ pc' = "spool" /\ curTS' = now
    /\ UNCHANGED <<storeVars, clientVars, workerVars, cursor, cmd, oldStatus,
                   launching, exiting>>

PoppedPeek == spool
Popped == Tail(spool)

\* _db_popFromSpool commits before the command is executed.
PopSpool ==
    /\ pc = "spool"
    /\ IF spool = <<>>
       THEN GoTo("finished") /\ UNCHANGED spool
       ELSE /\ cmd' = Head(spool) /\ spool' = Popped /\ pc' = "exec"
            /\ UNCHANGED <<cursor, oldStatus, curTS, launching, exiting>>
    /\ UNCHANGED <<now, waiting, running, indexVars, taskVars,
                   schedulerStatus, clientVars, workerVars>>

Executing(op) == pc = "exec" /\ cmd.op = op

NextCommand ==
    /\ pc' = "spool" /\ cmd' = NoCmd /\ oldStatus' = "none"
    /\ UNCHANGED <<cursor, curTS, launching, exiting>>

\* An exception leaves _processSpool: the `finally` still looks at the
\* finished workers, then the daemon quits.
RaiseFromSpool ==
    /\ pc' = "finished" /\ exiting' = TRUE
    /\ cmd' = NoCmd /\ oldStatus' = "none"
    /\ UNCHANGED <<cursor, curTS, launching>>

\* addTaskToWaitingQueue(index = True)
ExecAdd ==
    LET t == cmd.task IN
    /\ Executing("add")
    /\ taskId' = [taskId EXCEPT
                    ![t] = 1 + Cardinality({u \in Tasks : taskId[u] # 0})]
    /\ waiting' = waiting \cup Enqueued(t)
    /\ status' = [status EXCEPT ![t] = StatusQueued(startOn[t], "spooled")]
    /\ NextCommand
    /\ UNCHANGED <<now, spool, running, indexVars, startOn, ended, repeat,
                   since, occurrences, schedulerStatus, clientVars, workerVars>>

\* changeTaskStartDate
ExecChange ==
    /\ Executing("change")
    /\ waiting' = Rebinned(cmd.task, <<cmd.ts, cmd.task>>)
    /\ NextCommand
    /\ UNCHANGED <<now, spool, running, indexVars, taskVars, schedulerStatus,
                   clientVars, workerVars>>

\* _db_deleteTaskFromQueue, up to reading the status; for a periodic task
\* dontComeBack is committed first.
ExecDelete ==
    LET t == cmd.task IN
    /\ Executing("del")
    /\ repeat' = [repeat EXCEPT ![t] = FALSE]
    /\ oldStatus' = status[t]
    /\ pc' = "delete"
    /\ UNCHANGED <<now, spool, waiting, running, indexVars, status, startOn,
                   ended, since, occurrences, taskId, schedulerStatus,
                   clientVars, workerVars, cmd, cursor, curTS, launching,
                   exiting>>

\* _db_moveTask(task, oldStatus, NONE): the status itself is not touched.
DeleteMove ==
    LET t == cmd.task IN
    /\ pc = "delete"
    /\ CanMove(t, oldStatus)
    /\ MoveTask(t, oldStatus, "none")
    /\ NextCommand
    /\ UNCHANGED <<now, spool, taskVars, schedulerStatus, clientVars,
                   workerVars>>

\* TaskInconsistentStatusException, a KeyError of the waiting queue or an
\* ElementNotFoundException of the failed index.
DeleteRaises ==
    /\ pc = "delete"
    /\ ~CanMove(cmd.task, oldStatus)
    /\ RaiseFromSpool
    /\ UNCHANGED <<storeVars, clientVars, workerVars>>

\* SchedulerQuitException
ExecShutdown ==
    /\ Executing("shutdown")
    /\ RaiseFromSpool
    /\ UNCHANGED <<storeVars, clientVars, workerVars>>

-------------------------------------------------------------------------------
(* _checkFinishedTasks and _db_notifyTaskStatus *)

\* The worker of t has ended; the daemon drops it from its dictionary.
Collect(t) ==
    LET w == runningWorkers[t] IN
    /\ pc = "finished"
    /\ w # NoWorker /\ phase[w] = "dead"
    /\ runningWorkers' = [runningWorkers EXCEPT ![t] = NoWorker]
    /\ Keep(Workers \ {w})
    /\ UNCHANGED <<now, spool, since, taskId, repeat, schedulerStatus,
                   clientVars, historyVars, daemonVars>>

OutcomeStrict(t) == "failed"
Outcome(t) == IF result[runningWorkers[t]] THEN "finished" ELSE "failed"

TerminatedIgnored(t) == FALSE
Terminated(t) == status[t] = "terminated"

\* A terminated task keeps its status and leaves the running list.
NotifyTerminated(t) ==
    /\ Collect(t)
    /\ Terminated(t)
    /\ running' = RunningAfter(t, "running")
    /\ UNCHANGED <<waiting, indexVars, status, startOn, ended, occurrences>>

\* moveTask(task, RUNNING, status, nocheck = True)
NotifyOneShot(t) ==
    /\ Collect(t)
    /\ ~Terminated(t) /\ t \in OneShot
    /\ status' = [status EXCEPT ![t] = Outcome(t)]
    /\ MoveTask(t, "running", Outcome(t))
    /\ UNCHANGED <<startOn, ended, occurrences>>

\* Dates the recurrence rule may give after both the last occurrence and now;
\* Never when the rule is exhausted.
NextOccurrences(t) ==
    {ts \in Times : ts > startOn[t] /\ ts > now} \cup {Never}

\* "reset ended on", before the next occurrence
EndedKept(t) == ended
EndedReset(t) == [ended EXCEPT ![t] = FALSE]

\* A periodic task: the occurrence is indexed, the task itself is rescheduled
\* (addTaskToWaitingQueue makes it QUEUED if there is a next date).
NotifyPeriodic(t) ==
    LET entry == <<t, occurrences[t] + 1>> IN
    /\ Collect(t)
    /\ ~Terminated(t) /\ t \in Periodic /\ repeat[t]
    /\ occurrences' = [occurrences EXCEPT ![t] = @ + 1]
    /\ ended' = EndedReset(t)
    /\ running' = RunningAfter(t, "running")
    /\ failedIndex' = FailedAfter("running", Outcome(t), entry)
    /\ finishedIndex' = FinishedAfter(Outcome(t), entry)
    /\ \E ts \in NextOccurrences(t) :
          /\ startOn' = [startOn EXCEPT ![t] = ts]
          /\ waiting' = waiting \cup Bin(ts, t)
          /\ status' = [status EXCEPT ![t] = StatusQueued(ts, Outcome(t))]

\* The commit of the nested _db_addTaskToQueue conflicts: the sync throws away
\* all that _db_notifyTaskStatus had done, and only the nested operation is
\* repeated, on the task as it was before.
NotifyConflict(t) ==
    /\ Disturb("conflict")
    /\ pc = "finished"
    /\ LET w == runningWorkers[t] IN
       /\ w # NoWorker /\ phase[w] = "dead"
       /\ Keep(Workers \ {w})
    /\ ~Terminated(t) /\ t \in Periodic /\ repeat[t]
    /\ runningWorkers' = [runningWorkers EXCEPT ![t] = NoWorker]
    /\ waiting' = waiting \cup Enqueued(t)
    /\ status' = [status EXCEPT ![t] = "queued"]
    /\ UNCHANGED <<now, spool, running, indexVars, startOn, ended, repeat,
                   since, occurrences, taskId, schedulerStatus, owner, historyVars,
                   daemonVars>>

\* A periodic task that was deleted while it ran: the occurrence is kept with
\* the task, and nothing is moved.
NotifyDeleted(t) ==
    /\ Collect(t)
    /\ ~Terminated(t) /\ t \in Periodic /\ ~repeat[t]
    /\ status' = [status EXCEPT ![t] = Outcome(t)]
    /\ occurrences' = [occurrences EXCEPT ![t] = @ + 1]
    /\ UNCHANGED <<waiting, running, indexVars, startOn, ended>>

Notify(t) == NotifyTerminated(t) \/ NotifyOneShot(t) \/ NotifyPeriodic(t)
                \/ NotifyDeleted(t)

FinishedDone ==
    /\ pc = "finished"
    /\ \A t \in Tasks : runningWorkers[t] # NoWorker
                           => phase[runningWorkers[t]] # "dead"
    /\ IF exiting
       THEN Quit
       ELSE GoTo("peek") /\ UNCHANGED <<schedulerStatus, workerVars>>
    /\ UNCHANGED <<now, spool, waiting, running, indexVars, taskVars,
                   clientVars>>

-------------------------------------------------------------------------------
(* The waiting queue and _taskCycle *)

DueStrictly(e) == e[1] < curTS
Due(e) == e[1] <= curTS

\* removeWaitingTask
LeftInBin(e) == waiting
TakenFromBin(e) == waiting \ {e}

\* The head of the waiting queue is due: _db_setTaskRunning.  The status stays
\* QUEUED until the worker has prepared the task.
SetTaskRunning ==
    /\ pc = "peek"
    /\ \E e \in waiting :
          /\ IsNext(e) /\ Due(e)
          /\ waiting' = TakenFromBin(e)
          /\ since' = [since EXCEPT ![e[2]] = now]
          /\ running' = Append(running, e[2])
          /\ launching' = e[2]
    /\ pc' = "start" /\ curTS' = 0
    /\ UNCHANGED <<now, spool, indexVars, status, startOn, ended, repeat,
                   occurrences, taskId, schedulerStatus, clientVars,
                   workerVars, cursor, cmd, oldStatus, exiting>>

StartWorker ==
    /\ pc = "start"
    /\ \E w \in Workers :
          /\ phase[w] = "free"
          /\ phase' = [phase EXCEPT ![w] = "starting"]
          /\ job' = [job EXCEPT ![w] = launching]
          /\ runningWorkers' = [runningWorkers EXCEPT ![launching] = w]
    /\ DaemonLocals("loop")
    /\ UNCHANGED <<storeVars, clientVars, result, historyVars>>

NothingDue ==
    /\ pc = "peek"
    /\ \A e \in waiting : ~Due(e)
    /\ DaemonLocals("idle")
    /\ UNCHANGED <<storeVars, clientVars, workerVars>>

\* The AWOL check is made in some of the idle turns; then the daemon sleeps.
Idle ==
    /\ pc = "idle"
    /\ GoTo("awol") \/ GoTo("loop")
    /\ UNCHANGED <<storeVars, clientVars, workerVars>>

-------------------------------------------------------------------------------
(* _checkAWOLTasks *)

Overdue(i) == now - since[running[i]] > AWOLThreshold

FirstOverdue(i) ==
    i \in DOMAIN running /\ Overdue(i) /\ \A j \in 1 .. i - 1 : ~Overdue(j)

AwolTerminate ==
    /\ pc = "awol"
    /\ \E i \in DOMAIN running :
          /\ FirstOverdue(i) /\ StatusIs(running[i], "running")
          /\ MoveTask(running[i], "running", "terminated")
          /\ status' = [status EXCEPT ![running[i]] = "terminated"]
    /\ UNCHANGED <<now, spool, startOn, ended, repeat, since, occurrences,
                   taskId, schedulerStatus, clientVars, workerVars, daemonVars>>

\* TaskInconsistentStatusException: nothing catches it.
AwolRaises ==
    /\ pc = "awol"
    /\ \E i \in DOMAIN running :
          FirstOverdue(i) /\ ~StatusIs(running[i], "running")
    /\ Quit
    /\ UNCHANGED <<now, spool, waiting, running, indexVars, taskVars,
                   clientVars>>

AwolDone ==
    /\ pc = "awol"
    /\ \A i \in DOMAIN running : ~Overdue(i)
    /\ GoTo("loop")
    /\ UNCHANGED <<storeVars, clientVars, workerVars>>

-------------------------------------------------------------------------------
(* From outside *)

\* kill -9 or a crash of the host.  A process worker may outlive the daemon, a
\* thread does not.  The scheduler still claims to be running.
Crash ==
    /\ Disturb("crash")
    /\ pc # "down"
    /\ DaemonLocals("down")
    /\ ForgetWorkers({}) \/ (Mode = "processes" /\ ForgetWorkers(Workers))
    /\ UNCHANGED <<storeVars, owner>>

\* `indico_scheduler check` marks a dead scheduler as not running.
MarkDead ==
    /\ pc = "down" /\ schedulerStatus
    /\ schedulerStatus' = FALSE
    /\ UNCHANGED <<now, spool, waiting, running, indexVars, taskVars,
                   clientVars, workerVars, daemonVars>>

DaemonStep ==
    \/ RelaunchItem \/ RelaunchDone
    \/ BeginLoop \/ PopSpool
    \/ ExecAdd \/ ExecChange \/ ExecDelete \/ DeleteMove \/ DeleteRaises
    \/ ExecShutdown
    \/ \E t \in Tasks : Notify(t)
    \/ FinishedDone
    \/ SetTaskRunning \/ StartWorker \/ NothingDue \/ Idle
    \/ AwolTerminate \/ AwolRaises \/ AwolDone

DaemonNext ==
    \/ DaemonStep
    \/ Start \/ MarkDead \/ Crash
    \/ \E t \in Tasks : NotifyConflict(t)
===============================================================================
