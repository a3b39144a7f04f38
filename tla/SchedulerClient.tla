---------------------------- MODULE SchedulerClient ---------------------------
(***************************************************************************)
(* What the web processes and the command line do to the scheduler: the    *)
(* Client methods (client.py) as the conference, the LiveSync console, the *)
(* administration services and the daemon script call them.  Each action   *)
(* is one committed request.                                               *)
(***************************************************************************)
EXTENDS SchedulerStore

CONSTANTS
    Events,         \* the kinds of disturbance a behaviour may contain
    MaxEvents       \* bound: how many of them

VARIABLES
    owner,          \* "new", "held" (conference.alarmList), "released"
    happened        \* number of disturbances so far

clientVars == <<owner, happened>>

AllEvents == {"move", "remove", "adminDelete", "runFailed", "clearSpool",
              "stop", "crash", "conflict", "prepareFails", "suicide"}

ASSUME ClientAssumption == Events \subseteq AllEvents /\ MaxEvents \in Nat

ClientTypeOK ==
    /\ owner \in [Tasks -> {"new", "held", "released"}]
    /\ happened \in 0 .. MaxEvents

ClientInit ==
    /\ owner = [t \in Tasks |-> "new"]
    /\ happened = 0

Disturb(e) ==
    /\ e \in Events
    /\ happened < MaxEvents
    /\ happened' = happened + 1

SpoolCommand(c) == spool' = Append(spool, c)

-------------------------------------------------------------------------------

\* Conference.newAlarm -> Client.enqueue.  The task starts whenever its owner
\* says, the past included.
Enqueue(t, ts) ==
    /\ owner[t] = "new"
    /\ owner' = [owner EXCEPT ![t] = "held"]
    /\ startOn' = [startOn EXCEPT ![t] = ts]
    /\ SpoolCommand(Command("add", t, Never))
    /\ UNCHANGED <<now, waiting, running, indexVars, status, ended, repeat,
                   since, occurrences, taskId, schedulerStatus, happened>>

\* Client.moveTask, from Conference._updateAlarms: the start date changes at
\* once, the queue when the daemon gets to the command.
ChangeStart(t, ts) ==
    /\ Disturb("move")
    /\ t \in OneShot /\ owner[t] = "held"
    /\ startOn' = [startOn EXCEPT ![t] = ts]
    /\ SpoolCommand(Command("change", t, startOn[t]))
    /\ UNCHANGED <<now, waiting, running, indexVars, status, ended, repeat,
                   since, occurrences, taskId, schedulerStatus, owner>>

\* Conference.removeAlarm -> Client.dequeue; a second removal raises.
RemoveAlarm(t) ==
    /\ Disturb("remove")
    /\ t \in OneShot /\ owner[t] = "held"
    /\ owner' = [owner EXCEPT ![t] = "released"]
    /\ SpoolCommand(Command("del", t, Never))
    /\ UNCHANGED <<now, waiting, running, indexVars, taskVars,
                   schedulerStatus>>

\* The DeleteTask service of the administration page: any task with an id.
AdminDelete(t) ==
    /\ Disturb("adminDelete")
    /\ taskId[t] # 0
    /\ SpoolCommand(Command("del", t, Never))
    /\ UNCHANGED <<now, waiting, running, indexVars, taskVars,
                   schedulerStatus, owner>>

\* The RunFailedTask service: not a command but a direct move, made by the web
\* process.  A periodic task has no setStartOn, so the service fails for it.
RunFailed(t) ==
    /\ Disturb("runFailed")
    /\ t \in OneShot /\ taskId[t] # 0 /\ now \in Times
    /\ CanMove(t, "failed") /\ <<now, t>> \notin waiting
    /\ startOn' = [startOn EXCEPT ![t] = now]
    /\ failedIndex' = FailedAfter("failed", "queued", Entry(t))
    /\ waiting' = waiting \cup {<<now, t>>}
    /\ status' = [status EXCEPT ![t] = "queued"]
    /\ UNCHANGED <<now, spool, running, finishedIndex, ended, repeat, since,
                   occurrences, taskId, schedulerStatus, owner>>

\* `indico_scheduler stop` refuses when no daemon claims to be running.
Shutdown ==
    /\ Disturb("stop")
    /\ schedulerStatus
    /\ SpoolCommand(Command("shutdown", NoTask, Never))
    /\ UNCHANGED <<now, waiting, running, indexVars, taskVars,
                   schedulerStatus, owner>>

\* `indico_scheduler cmd clear_spool`
ClearSpool ==
    /\ Disturb("clearSpool")
    /\ spool # <<>>
    /\ spool' = <<>>
    /\ UNCHANGED <<now, waiting, running, indexVars, taskVars,
                   schedulerStatus, owner>>

ClientNext ==
    \/ \E t \in Tasks, ts \in Times : Enqueue(t, ts) \/ ChangeStart(t, ts)
    \/ \E t \in Tasks : RemoveAlarm(t) \/ AdminDelete(t) \/ RunFailed(t)
    \/ Shutdown
    \/ ClearSpool
===============================================================================
