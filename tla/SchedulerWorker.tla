---------------------------- MODULE SchedulerWorker ---------------------------
(***************************************************************************)
(* The workers that execute tasks (slave.py): one thread or process per    *)
(* launch.  The attempts of Worker.run are folded into one step that       *)
(* either commits the task's transaction or gives up.                      *)
(***************************************************************************)
EXTENDS SchedulerClient

CONSTANTS
    Workers,        \* bound: as many launches may be alive at once
    NoWorker

ASSUME WorkerAssumption == NoWorker \notin Workers

VARIABLES
    phase,          \* [worker -> "free", "starting", "running", "dead"]
    job,            \* [worker -> the task it was started for]
    result,         \* [worker -> getResult()]
    runningWorkers, \* [task -> worker], the daemon's dictionary
    runs,           \* history: [task -> committed executions]
    relaunched      \* history: a daemon has started on a running list that
                    \* an earlier one had left behind

historyVars == <<runs, relaunched>>
workerVars == <<phase, job, result, runningWorkers, historyVars>>

WorkerTypeOK ==
    /\ phase \in [Workers -> {"free", "starting", "running", "dead"}]
    /\ job \in [Workers -> Tasks \cup {NoTask}]
    /\ result \in [Workers -> BOOLEAN]
    /\ runningWorkers \in [Tasks -> Workers \cup {NoWorker}]
    /\ runs \in [Tasks -> Nat]
    /\ relaunched \in BOOLEAN

WorkerInit ==
    /\ phase = [w \in Workers |-> "free"]
    /\ job = [w \in Workers |-> NoTask]
    /\ result = [w \in Workers |-> FALSE]
    /\ runningWorkers = [t \in Tasks |-> NoWorker]
    /\ runs = [t \in Tasks |-> 0]
    /\ relaunched = FALSE

Alive(w) == phase[w] \in {"starting", "running"}
Tracked(w) == job[w] # NoTask /\ runningWorkers[job[w]] = w

\* Workers outside the set become free slots again.
Keep(S) ==
    /\ phase' = [w \in Workers |-> IF w \in S THEN phase[w] ELSE "free"]
    /\ job' = [w \in Workers |-> IF w \in S THEN job[w] ELSE NoTask]
    /\ result' = [w \in Workers |-> w \in S /\ result[w]]

\* The worker ends.  Nobody reads the result of one that is not in the
\* dictionary.
Die(w, res) ==
    /\ IF Tracked(w)
       THEN /\ phase' = [phase EXCEPT ![w] = "dead"]
            /\ result' = [result EXCEPT ![w] = res]
            /\ UNCHANGED job
       ELSE Keep(Workers \ {w})
    /\ UNCHANGED runningWorkers

Expired(t) == Expiry[t] # Never /\ now > Expiry[t]

\* BaseTask.prepare sleeps until the start date, which a client may have moved
\* since the launch.  It returns False for a task that had expired before the
\* sleep, and does not set the status; _Worker._prepare does not look at the
\* value and the task is run.
Prepare(w) ==
    LET t == job[w] IN
    /\ phase[w] = "starting"
    /\ startOn[t] \in 1 .. now
    /\ status' \in {[status EXCEPT ![t] = "running"]}
                    \cup {s \in {status} : Expired(t)}
    /\ phase' = [phase EXCEPT ![w] = "running"]
    /\ UNCHANGED <<now, spool, waiting, running, indexVars, startOn, ended,
                   repeat, since, occurrences, taskId, schedulerStatus,
                   clientVars, job, result, runningWorkers, historyVars>>

\* The commit of prepare() conflicts ("potentially conflict-prone"): it is not
\* inside the retry loop, so the worker dies with the initial result.
PrepareFails(w) ==
    /\ Disturb("prepareFails")
    /\ phase[w] = "starting"
    /\ Die(w, FALSE)
    /\ UNCHANGED <<storeVars, owner, historyVars>>

\* An attempt commits: endedOn is set in the same transaction.
Succeed(w) ==
    LET t == job[w] IN
    /\ phase[w] = "running"
    /\ ended' = [ended EXCEPT ![t] = TRUE]
    /\ runs' = [runs EXCEPT ![t] = @ + 1]
    /\ Die(w, TRUE)
    /\ UNCHANGED <<now, spool, waiting, running, indexVars, status, startOn,
                   repeat, since, occurrences, taskId, schedulerStatus,
                   clientVars, relaunched>>

\* The task raises, or every attempt conflicts: nothing is committed, and the
\* result is read off the endedOn that is in the database.
Fail(w) ==
    /\ phase[w] = "running"
    /\ Die(w, ended[job[w]])
    /\ UNCHANGED <<storeVars, clientVars, historyVars>>

\* AlarmTask._prepare on an event that has already started: the alarm is taken
\* off the event (which spools its deletion) and marks itself terminated.
Suicide(w) ==
    LET t == job[w] IN
    /\ Disturb("suicide")
    /\ phase[w] = "running" /\ t \in OneShot /\ owner[t] = "held"
    /\ owner' = [owner EXCEPT ![t] = "released"]
    /\ SpoolCommand(Command("del", t, Never))
    /\ status' = [status EXCEPT ![t] = "terminated"]
    /\ ended' = [ended EXCEPT ![t] = TRUE]
    /\ runs' = [runs EXCEPT ![t] = @ + 1]
    /\ Die(w, TRUE)
    /\ UNCHANGED <<now, waiting, running, indexVars, startOn, repeat, since,
                   occurrences, taskId, schedulerStatus, relaunched>>

WorkerStep(w) == Prepare(w) \/ Succeed(w) \/ Fail(w)

WorkerNext == \E w \in Workers : WorkerStep(w) \/ PrepareFails(w) \/ Suicide(w)
===============================================================================
