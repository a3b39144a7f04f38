---------------------------- MODULE SchedulerRecords ----------------------------
(***************************************************************************)
(* What the scheduler's records say of the tasks: the finished index of    *)
(* their executions, the spool of what is still to be done to them, the    *)
(* running list of their workers, the bins of their start dates; and that  *)
(* between all of them no task is lost.                                    *)
(***************************************************************************)
EXTENDS SchedulerSessions

-------------------------------------------------------------------------------
(* The finished index against the executions *)

FinishedOf(t) == {e \in finishedIndex : e[1] = t}

\* The end of a worker of t may be recorded as a success: task.endedOn is set, or
\* the worker has already read it.
Credit(t) ==
    ended[t] \/ \E w \in Workers : phase[w] = "dead" /\ job[w] = t /\ result[w]

\* A success that is recorded, or may be, has an execution of its own; a one-shot
\* task is only recorded once.
Recorded(t) ==
    /\ IsFiniteSet(FinishedOf(t))
    /\ t \in OneShot =>
          /\ FinishedOf(t) \subseteq {Entry(t)}
          /\ Credit(t) \/ FinishedOf(t) # {} => runs[t] >= 1
    /\ t \in Periodic =>
          /\ Cardinality(FinishedOf(t)) <= runs[t]
          /\ Credit(t) => Cardinality(FinishedOf(t)) + 1 <= runs[t]

\* The daemon will hear of the end of a worker, or nobody will.
DeadIsTracked ==
    \A w \in Workers : phase[w] = "dead" => runningWorkers[job[w]] = w

LaunchingUntracked ==
    \A t \in Tasks : launching = t => runningWorkers[t] = NoWorker

Ledger == DeadIsTracked /\ LaunchingUntracked /\ \A t \in Tasks : Recorded(t)

\* No worker ends, and the daemon forgets none that has ended.
NobodyDies ==
    \A w \in Workers : phase'[w] = "dead" =>
        /\ phase[w] = "dead" /\ job'[w] = job[w] /\ result'[w] = result[w]
        /\ runningWorkers'[job[w]] = runningWorkers[job[w]]

\* A record stays right when no success is recorded and no new one may be.
LEMMA RecordedKept ==
    ASSUME NEW t \in Tasks, Recorded(t), FinishedOf(t)' = FinishedOf(t),
           Credit(t)' => Credit(t), runs'[t] = runs[t]
    PROVE  Recorded(t)'
BY DEF Recorded, Entry

\* An execution pays for whatever may be recorded afterwards.
LEMMA RecordedRun ==
    ASSUME TypeInv, NEW t \in Tasks, Recorded(t), FinishedOf(t)' = FinishedOf(t),
           runs'[t] = runs[t] + 1
    PROVE  Recorded(t)'
<1>1. /\ runs[t] \in Nat /\ IsFiniteSet(FinishedOf(t))
      /\ Cardinality(FinishedOf(t)) \in Nat
    BY FS_CardinalityType DEF TypeInv, TypeOK, WorkerTypeOK, Recorded
<1> QED
    BY <1>1 DEF Recorded, Entry

\* Unless a worker ends, what may be recorded is what might have been before.
LEMMA CreditKept ==
    ASSUME NobodyDies, UNCHANGED ended, NEW t \in Tasks, Credit(t)'
    PROVE  Credit(t)
BY DEF NobodyDies, Credit

\* A step in which no worker ends and nothing is recorded.
LEMMA LedgerKept ==
    ASSUME TypeInv, Ledger, NobodyDies,
           UNCHANGED <<finishedIndex, ended, runs>>,
           launching' \in {launching, NoTask},
           \A t \in Tasks : runningWorkers'[t] \in {runningWorkers[t], NoWorker}
    PROVE  Ledger'
<1>1. DeadIsTracked'
    BY DEF Ledger, DeadIsTracked, NobodyDies
<1>2. LaunchingUntracked'
    BY StoreAssumption DEF Ledger, LaunchingUntracked
<1>3. ASSUME NEW t \in Tasks PROVE Recorded(t)'
    BY CreditKept, RecordedKept DEF Ledger, FinishedOf
<1> QED
    BY <1>1, <1>2, <1>3 DEF Ledger

\* A worker ends: what its result says of the task was true before, unless the
\* step is an execution.
LEMMA LedgerDie ==
    ASSUME TypeInv, Ledger, NEW w \in Workers, NEW t \in Tasks, job[w] = t,
           phase[w] # "free", NEW res \in BOOLEAN, Die(w, res),
           UNCHANGED <<finishedIndex, launching>>,
           \/ UNCHANGED <<ended, runs>> /\ (res => Credit(t))
           \/ /\ ended' = [ended EXCEPT ![t] = TRUE]
              /\ runs' = [runs EXCEPT ![t] = @ + 1]
    PROVE  Ledger'
<1>0. /\ phase \in [Workers -> {"free", "starting", "running", "dead"}]
      /\ job \in [Workers -> Tasks \cup {NoTask}]
      /\ result \in [Workers -> BOOLEAN]
      /\ ended \in [Tasks -> BOOLEAN] /\ runs \in [Tasks -> Nat]
      /\ UNCHANGED runningWorkers /\ t # NoTask
    BY StoreAssumption DEF TypeInv, TypeOK, WorkerTypeOK, StoreTypeOK, Die
<1>1. \A v \in Workers \ {w} : phase'[v] = "dead" =>
         phase[v] = "dead" /\ job'[v] = job[v] /\ result'[v] = result[v]
    <2>1. CASE Tracked(w)
        BY <1>0, <2>1 DEF Die
    <2>2. CASE ~Tracked(w)
        <3> SUFFICES ASSUME NEW v \in Workers \ {w}
                     PROVE  /\ phase'[v] = phase[v] /\ job'[v] = job[v]
                            /\ result'[v] = result[v]
            OBVIOUS
        <3>1. phase'[v] = phase[v] /\ job'[v] = job[v]
            BY <2>2 DEF Die, Keep
        <3>2. result'[v] = (v \in Workers \ {w} /\ result[v])
            BY <2>2, Zenon DEF Die, Keep
        <3> QED
            BY <1>0, <3>1, <3>2
    <2> QED
        BY <2>1, <2>2
<1>2. phase'[w] = "dead" =>
         job'[w] = t /\ runningWorkers[t] = w /\ result'[w] = res
    <2>1. CASE Tracked(w)
        BY <1>0, <2>1 DEF Die, Tracked
    <2>2. CASE ~Tracked(w)
        BY <2>2 DEF Die, Keep
    <2> QED
        BY <2>1, <2>2
<1>3. DeadIsTracked'
    BY <1>0, <1>1, <1>2 DEF Ledger, DeadIsTracked
<1>4. LaunchingUntracked'
    BY <1>0 DEF Ledger, LaunchingUntracked
<1>5. ASSUME NEW u \in Tasks \ {t} PROVE Recorded(u)'
    <2>1. ended'[u] = ended[u] /\ runs'[u] = runs[u]
        BY <1>0
    <2>2. Credit(u)' => Credit(u)
        BY <1>1, <1>2, <2>1 DEF Credit
    <2> QED
        BY <2>1, <2>2, RecordedKept DEF Ledger, FinishedOf
<1>6. Recorded(t)'
    <2>1. CASE UNCHANGED <<ended, runs>> /\ (res => Credit(t))
        <3>1. Credit(t)' => Credit(t)
            BY <1>1, <1>2, <2>1 DEF Credit
        <3> QED
            BY <2>1, <3>1, RecordedKept DEF Ledger, FinishedOf
    <2>2. CASE runs' = [runs EXCEPT ![t] = @ + 1]
        BY <1>0, <2>2, RecordedRun DEF Ledger, FinishedOf
    <2> QED
        BY <2>1, <2>2
<1> QED
    BY <1>3, <1>4, <1>5, <1>6 DEF Ledger


\* What FinishedAfter does to the record of a task.
LEMMA FinishedOfAfter ==
    ASSUME NEW t \in Tasks, NEW n \in Nat, NEW to,
           finishedIndex' = FinishedAfter(to, <<t, n>>)
    PROVE  /\ \A u \in Tasks \ {t} : FinishedOf(u)' = FinishedOf(u)
           /\ to # "finished" => FinishedOf(t)' = FinishedOf(t)
           /\ to = "finished" => FinishedOf(t)' = FinishedOf(t) \cup {<<t, n>>}
<1>1. CASE to = "finished"
    <2>1. finishedIndex' = finishedIndex \cup {<<t, n>>}
        BY <1>1 DEF FinishedAfter
    <2> QED
        BY <1>1, <2>1 DEF FinishedOf
<1>2. CASE to # "finished"
    BY <1>2 DEF FinishedAfter, FinishedOf
<1> QED
    BY <1>1, <1>2

\* One more entry of a task is at most one more.
LEMMA AddFinished ==
    ASSUME NEW t \in Tasks, Recorded(t), NEW e
    PROVE  /\ IsFiniteSet(FinishedOf(t) \cup {e})
           /\ Cardinality(FinishedOf(t) \cup {e}) \in
                 {Cardinality(FinishedOf(t)), Cardinality(FinishedOf(t)) + 1}
<1> DEFINE F == FinishedOf(t)
<1>1. IsFiniteSet(F)
    BY DEF Recorded
<1> HIDE DEF F
<1>2. /\ IsFiniteSet(F \cup {e})
      /\ Cardinality(F \cup {e}) = IF e \in F THEN Cardinality(F)
                                             ELSE Cardinality(F) + 1
    BY <1>1, FS_AddElement
<1> QED
    BY <1>2 DEF F

\* A worker that ends with success is recorded once, and is then gone; a periodic
\* task loses its endedOn with it.
LEMMA LedgerNotify ==
    ASSUME Sound, Ledger, NEW t \in Tasks, Notify(t) \/ NotifyConflict(t)
    PROVE  Ledger'
<1> DEFINE w == runningWorkers[t]
<1>0. /\ Collect(t) \/ NotifyConflict(t)
      /\ TypeInv /\ Hands /\ StoreTypeOK /\ WorkerTypeOK
    BY DEF Sound, TypeInv, TypeOK, Notify, NotifyTerminated, NotifyOneShot,
           NotifyPeriodic, NotifyDeleted
<1>1. w \in Workers /\ phase[w] = "dead" /\ job[w] = t
    BY <1>0, SlotsCollect, WorkerAssumption DEF Hands, WorkersTracked, Serves
<1>2. /\ Keep(Workers \ {w}) /\ UNCHANGED <<runs, launching>>
      /\ runningWorkers' = [runningWorkers EXCEPT ![t] = NoWorker]
    BY <1>0 DEF Collect, NotifyConflict, historyVars, daemonVars
<1>3. ASSUME NEW v \in Workers, phase'[v] = "dead"
      PROVE  /\ phase[v] = "dead" /\ job'[v] = job[v] /\ result'[v] = result[v]
             /\ runningWorkers[job[v]] = v /\ job[v] # t /\ job[v] \in Tasks
    <2>1. v # w /\ phase[v] = "dead" /\ job'[v] = job[v]
        BY <1>2, <1>3 DEF Keep
    <2>2. result'[v] = (v \in Workers \ {w} /\ result[v])
        BY <1>2, Zenon DEF Keep
    <2>3. result[v] \in BOOLEAN
        BY <1>0, Zenon DEF WorkerTypeOK
    <2> QED
        BY <1>0, <2>1, <2>2, <2>3 DEF Ledger, DeadIsTracked, TypeInv, LocalsOK
<1>4. \A u \in Tasks \ {t} : runningWorkers'[u] = runningWorkers[u]
    BY <1>0, <1>2 DEF WorkerTypeOK
<1>5. runningWorkers'[t] = NoWorker
    BY <1>0, <1>2 DEF WorkerTypeOK
<1>6. NobodyDies
    BY <1>3, <1>4 DEF NobodyDies
<1>7. DeadIsTracked'
    BY <1>3, <1>4 DEF DeadIsTracked
<1>8. LaunchingUntracked'
    BY <1>2, <1>4, <1>5 DEF Ledger, LaunchingUntracked
<1>9. ASSUME UNCHANGED <<finishedIndex, ended>>
      PROVE  Ledger'
    <2>1. ASSUME NEW u \in Tasks PROVE Recorded(u)'
        BY <1>2, <1>6, <1>9, CreditKept, RecordedKept DEF Ledger, FinishedOf
    <2> QED
        BY <1>7, <1>8, <2>1 DEF Ledger
<1>10. ASSUME NEW n \in Nat, finishedIndex' = FinishedAfter(Outcome(t), <<t, n>>),
              \A u \in Tasks \ {t} : ended'[u] = ended[u],
              Recorded(t)'
       PROVE  Ledger'
    <2>1. ASSUME NEW u \in Tasks \ {t} PROVE Recorded(u)'
        <3>1. Credit(u)' => Credit(u)
            BY <1>3, <1>10 DEF Credit
        <3>2. FinishedOf(u)' = FinishedOf(u)
            BY <1>10, FinishedOfAfter
        <3> QED
            BY <1>2, <3>1, <3>2, RecordedKept DEF Ledger
    <2> QED
        BY <1>7, <1>8, <1>10, <2>1 DEF Ledger
<1>11. Recorded(t) /\ runs[t] \in Nat /\ Cardinality(FinishedOf(t)) \in Nat
    BY <1>0, FS_CardinalityType DEF Ledger, Recorded, WorkerTypeOK
<1>12. Outcome(t) = "finished" => Credit(t)
    BY <1>1 DEF Outcome, Credit
<1>13. CASE NotifyTerminated(t) \/ NotifyDeleted(t) \/ NotifyConflict(t)
    BY <1>9, <1>13
    DEF NotifyTerminated, NotifyDeleted, NotifyConflict, indexVars
<1>14. CASE NotifyOneShot(t)
    <2>1. /\ finishedIndex' = FinishedAfter(Outcome(t), <<t, 0>>)
          /\ UNCHANGED ended /\ t \in OneShot /\ t \notin Periodic
        BY <1>14, StoreAssumption DEF NotifyOneShot, MoveTask, Entry
    <2>2. CASE Outcome(t) = "finished"
        <3>1. FinishedOf(t)' = FinishedOf(t) \cup {<<t, 0>>} /\ runs[t] >= 1
            BY <1>11, <1>12, <2>1, <2>2, FinishedOfAfter DEF Recorded
        <3>2. IsFiniteSet(FinishedOf(t)')
            BY <1>11, <3>1, AddFinished
        <3>3. Recorded(t)'
            BY <1>2, <1>11, <2>1, <3>1, <3>2 DEF Recorded, Entry
        <3> QED
            BY <1>10, <2>1, <3>3
    <2>3. CASE Outcome(t) # "finished"
        <3>1. UNCHANGED finishedIndex
            BY <2>1, <2>3 DEF FinishedAfter
        <3> QED
            BY <1>9, <2>1, <3>1
    <2> QED
        BY <2>2, <2>3
<1>15. CASE NotifyPeriodic(t)
    <2> DEFINE n == occurrences[t] + 1
    <2>1. /\ n \in Nat /\ finishedIndex' = FinishedAfter(Outcome(t), <<t, n>>)
          /\ ended' = [ended EXCEPT ![t] = FALSE]
          /\ t \in Periodic /\ t \notin OneShot
        BY <1>0, <1>15, StoreAssumption DEF NotifyPeriodic, EndedReset, StoreTypeOK
    <2>2. ended'[t] = FALSE /\ \A u \in Tasks \ {t} : ended'[u] = ended[u]
        BY <1>0, <2>1 DEF StoreTypeOK
    <2>3. ~Credit(t)'
        BY <1>3, <2>2 DEF Credit
    <2>4. CASE Outcome(t) = "finished"
        <3>1. /\ FinishedOf(t)' = FinishedOf(t) \cup {<<t, n>>}
              /\ Cardinality(FinishedOf(t)) + 1 <= runs[t]
            BY <1>11, <1>12, <2>1, <2>4, FinishedOfAfter DEF Recorded
        <3>2. /\ IsFiniteSet(FinishedOf(t)')
              /\ Cardinality(FinishedOf(t)') \in {Cardinality(FinishedOf(t)),
                                                  Cardinality(FinishedOf(t)) + 1}
            BY <1>11, <3>1, AddFinished
        <3>3. Cardinality(FinishedOf(t)') <= runs'[t]
            BY <1>2, <1>11, <3>1, <3>2
        <3>4. Recorded(t)'
            BY <2>1, <2>3, <3>2, <3>3 DEF Recorded
        <3> QED
            BY <1>10, <2>1, <2>2, <3>4
    <2>5. CASE Outcome(t) # "finished"
        <3>1. FinishedOf(t)' = FinishedOf(t)
            BY <2>1, <2>5, FinishedOfAfter
        <3>2. Recorded(t)'
            BY <1>2, <1>11, <2>3, <3>1, RecordedKept
        <3> QED
            BY <1>10, <2>1, <2>2, <3>2
    <2> QED
        BY <2>4, <2>5
<1> QED
    BY <1>13, <1>14, <1>15 DEF Notify


\* Whoever moves a task to another place than FINISHED records no success.
LEMMA MoveRecordsNothing ==
    ASSUME NEW t, NEW from, NEW to, to # "finished", MoveTask(t, from, to)
    PROVE  UNCHANGED finishedIndex
BY DEF MoveTask, FinishedAfter

\* Every step keeps the books.
LEMMA LedgerNext ==
    ASSUME Sound, Ledger, [Next]_vars
    PROVE  Ledger'
<1>0. TypeInv /\ Placement /\ Hands /\ StoreTypeOK /\ WorkerTypeOK
    BY DEF Sound, TypeInv, TypeOK
<1>1. ASSUME UNCHANGED <<finishedIndex, ended, runs>>,
             UNCHANGED <<phase, job, result, runningWorkers>>,
             launching' \in {launching, NoTask}
      PROVE  Ledger'
    BY <1>0, <1>1, LedgerKept DEF NobodyDies
<1>2. ASSUME UNCHANGED <<finishedIndex, ended, runs>>, NEW S, ForgetWorkers(S),
             launching' = NoTask
      PROVE  Ledger'
    <2>1. /\ Keep({w \in S : Alive(w)})
          /\ \A t \in Tasks : runningWorkers'[t] = NoWorker
        BY <1>2 DEF ForgetWorkers
    <2>2. \A w \in Workers : phase'[w] # "dead"
        BY <2>1 DEF Keep, Alive
    <2> QED
        BY <1>0, <1>2, <2>1, <2>2, LedgerKept DEF NobodyDies
<1>3. CASE UNCHANGED vars \/ Tick
    BY <1>1, <1>3 DEF vars, storeVars, indexVars, taskVars, workerVars, historyVars,
                      daemonVars, Tick
<1>4. CASE ClientNext /\ UNCHANGED <<workerVars, daemonVars>>
    <2>1. UNCHANGED <<finishedIndex, ended>>
        BY <1>4
        DEF ClientNext, Enqueue, ChangeStart, RemoveAlarm, AdminDelete, RunFailed,
            Shutdown, ClearSpool, indexVars, taskVars
    <2> QED
        BY <1>1, <1>4, <2>1 DEF workerVars, historyVars, daemonVars
<1>5. CASE WorkerNext /\ UNCHANGED daemonVars
    <2>0. UNCHANGED launching
        BY <1>5 DEF daemonVars
    <2>1. PICK w \in Workers : WorkerStep(w) \/ PrepareFails(w) \/ Suicide(w)
        BY <1>5 DEF WorkerNext
    <2>2. /\ phase[w] # "free"
          /\ UNCHANGED finishedIndex
        BY <2>1 DEF WorkerStep, Prepare, PrepareFails, Succeed, Fail, Suicide,
                    storeVars, indexVars
    <2>3. PICK t \in Tasks : job[w] = t
        BY <1>0, <2>2 DEF TypeInv, LocalsOK
    <2>4. CASE Prepare(w)
        <3>1. phase' = [phase EXCEPT ![w] = "running"]
              /\ UNCHANGED <<job, result, runningWorkers, runs, ended>>
            BY <2>4 DEF Prepare, historyVars
        <3>2. NobodyDies
            BY <1>0, <3>1 DEF NobodyDies, WorkerTypeOK
        <3> QED
            BY <1>0, <2>0, <2>2, <3>1, <3>2, LedgerKept
    <2>5. CASE PrepareFails(w)
        <3>1. Die(w, FALSE) /\ UNCHANGED <<ended, runs>>
            BY <2>5 DEF PrepareFails, storeVars, taskVars, historyVars
        <3> QED
            BY <1>0, <2>0, <2>2, <2>3, <3>1, LedgerDie
    <2>6. CASE Fail(w)
        <3>1. Die(w, ended[t]) /\ UNCHANGED <<ended, runs>> /\ ended[t] \in BOOLEAN
            BY <1>0, <2>3, <2>6
            DEF Fail, storeVars, taskVars, historyVars, StoreTypeOK
        <3>2. ended[t] => Credit(t)
            BY DEF Credit
        <3> QED
            BY <1>0, <2>0, <2>2, <2>3, <3>1, <3>2, LedgerDie
    <2>7. CASE Succeed(w) \/ Suicide(w)
        <3>1. /\ Die(w, TRUE)
              /\ ended' = [ended EXCEPT ![t] = TRUE]
              /\ runs' = [runs EXCEPT ![t] = @ + 1]
            BY <2>3, <2>7 DEF Succeed, Suicide
        <3> QED
            BY <1>0, <2>0, <2>2, <2>3, <3>1, LedgerDie
    <2> QED
        BY <2>1, <2>4, <2>5, <2>6, <2>7 DEF WorkerStep
<1>6. CASE \/ Start \/ RelaunchDone \/ BeginLoop \/ PopSpool \/ ExecAdd
           \/ ExecChange \/ ExecDelete \/ DeleteRaises \/ ExecShutdown
           \/ NothingDue \/ Idle \/ AwolDone \/ MarkDead
    <2>1. /\ UNCHANGED <<finishedIndex, ended, runs>>
          /\ UNCHANGED <<phase, job, result, runningWorkers>>
        BY <1>6
        DEF Start, RelaunchDone, BeginLoop, PopSpool, ExecAdd, ExecChange,
            ExecDelete, DeleteRaises, ExecShutdown, NothingDue, Idle, AwolDone,
            MarkDead, storeVars, indexVars, taskVars, workerVars, historyVars
    <2>2. launching' \in {launching, NoTask}
        BY <1>6
        DEF Start, RelaunchDone, BeginLoop, PopSpool, ExecAdd, ExecChange,
            ExecDelete, DeleteRaises, ExecShutdown, NothingDue, Idle, AwolDone,
            MarkDead, daemonVars, GoTo, DaemonLocals, NextCommand, RaiseFromSpool
    <2> QED
        BY <1>1, <2>1, <2>2
<1>7. CASE RelaunchItem \/ DeleteMove \/ AwolTerminate
    <2>1. UNCHANGED finishedIndex
        BY <1>7, MoveRecordsNothing DEF RelaunchItem, DeleteMove, AwolTerminate
    <2>2. /\ UNCHANGED <<ended, runs>>
          /\ UNCHANGED <<phase, job, result, runningWorkers, launching>>
        BY <1>7
        DEF RelaunchItem, DeleteMove, AwolTerminate, NextCommand, taskVars,
            workerVars, historyVars, daemonVars
    <2> QED
        BY <1>1, <2>1, <2>2
<1>8. CASE FinishedDone
    <2>1. CASE exiting
        BY <1>2, <1>8, <2>1
        DEF FinishedDone, Quit, DaemonLocals, indexVars, taskVars, ForgetWorkers,
            historyVars
    <2>2. CASE ~exiting
        BY <1>1, <1>8, <2>2
        DEF FinishedDone, GoTo, indexVars, taskVars, workerVars, historyVars
    <2> QED
        BY <2>1, <2>2
<1>9. CASE AwolRaises \/ Crash
    <2>1. PICK S : ForgetWorkers(S)
        BY <1>9 DEF AwolRaises, Quit, Crash
    <2> QED
        BY <1>2, <1>9, <2>1
        DEF AwolRaises, Quit, Crash, DaemonLocals, storeVars, indexVars, taskVars,
            ForgetWorkers, historyVars
<1>10. CASE SetTaskRunning
    <2>1. PICK e \in waiting : launching' = e[2]
        BY <1>10 DEF SetTaskRunning
    <2>2. PICK x \in Times, t \in Tasks : e = <<x, t>>
        BY <1>0, <2>1 DEF StoreTypeOK
    <2>3. launching' = t /\ runningWorkers[t] = NoWorker
        BY <1>0, <2>1, <2>2 DEF Placement, InHandIsOut, InHand, Waits
    <2>4. /\ UNCHANGED <<finishedIndex, ended, runs>>
          /\ UNCHANGED <<phase, job, result, runningWorkers>>
        BY <1>10 DEF SetTaskRunning, indexVars, workerVars, historyVars
    <2>5. ASSUME NEW u \in Tasks PROVE Recorded(u)'
        BY <2>4, RecordedKept DEF Ledger, FinishedOf, Credit
    <2> QED
        BY <2>3, <2>4, <2>5 DEF Ledger, DeadIsTracked, LaunchingUntracked
<1>11. CASE StartWorker
    <2>1. PICK w \in Workers :
             /\ phase[w] = "free"
             /\ phase' = [phase EXCEPT ![w] = "starting"]
             /\ job' = [job EXCEPT ![w] = launching]
             /\ runningWorkers' = [runningWorkers EXCEPT ![launching] = w]
        BY <1>11 DEF StartWorker
    <2>2. /\ launching \in Tasks /\ runningWorkers[launching] = NoWorker
          /\ launching' = NoTask
          /\ UNCHANGED <<finishedIndex, ended, runs, result>>
        BY <1>0, <1>11
        DEF StartWorker, DaemonLocals, TypeInv, LocalsOK, Ledger,
            LaunchingUntracked, storeVars, indexVars, taskVars, historyVars
    <2>3. NobodyDies
        <3> SUFFICES ASSUME NEW v \in Workers, phase'[v] = "dead"
                     PROVE  /\ phase[v] = "dead" /\ job'[v] = job[v]
                            /\ runningWorkers'[job[v]] = runningWorkers[job[v]]
            BY <2>2 DEF NobodyDies
        <3>1. v # w /\ phase[v] = "dead" /\ job'[v] = job[v]
            BY <1>0, <2>1 DEF WorkerTypeOK
        <3>2. job[v] \in Tasks /\ runningWorkers[job[v]] = v
            BY <1>0, <3>1 DEF TypeInv, LocalsOK, Ledger, DeadIsTracked
        <3>3. job[v] # launching
            BY <2>2, <3>2, WorkerAssumption
        <3> QED
            BY <1>0, <2>1, <3>1, <3>2, <3>3 DEF WorkerTypeOK
    <2>4. ASSUME NEW u \in Tasks PROVE Recorded(u)'
        BY <2>2, <2>3, CreditKept, RecordedKept DEF Ledger, FinishedOf
    <2>5. DeadIsTracked'
        BY <2>3 DEF Ledger, DeadIsTracked, NobodyDies
    <2>6. LaunchingUntracked'
        BY <2>2, StoreAssumption DEF LaunchingUntracked
    <2> QED
        BY <2>4, <2>5, <2>6 DEF Ledger
<1> QED
    BY <1>0, <1>3, <1>4, <1>5, <1>6, <1>7, <1>8, <1>9, <1>10, <1>11, LedgerNotify
    DEF Next, DaemonNext, DaemonStep

\* The finished index never shows more successes of a task than executions that
\* committed, whatever the results the workers read off endedOn.
THEOREM FinishedMeansRanCorrect == Spec => []FinishedMeansRan
<1>1. Init => Ledger
    <2> SUFFICES ASSUME Init PROVE Ledger
        OBVIOUS
    <2>1. /\ finishedIndex = {} /\ launching = NoTask
          /\ \A w \in Workers : phase[w] = "free"
          /\ \A t \in Tasks : runs[t] = 0 /\ ~ended[t]
        BY DEF Init, StoreInit, WorkerInit, DaemonInit
    <2>2. ASSUME NEW t \in Tasks PROVE Recorded(t)
        <3>1. FinishedOf(t) = {} /\ ~Credit(t)
            BY <2>1 DEF FinishedOf, Credit
        <3> QED
            BY <2>1, <3>1, FS_EmptySet DEF Recorded
    <2> QED
        BY <2>1, <2>2, StoreAssumption DEF Ledger, DeadIsTracked, LaunchingUntracked
<1>2. Sound /\ Ledger /\ [Next]_vars => Ledger'
    BY LedgerNext
<1>3. Sound /\ Ledger => FinishedMeansRan
    <2> SUFFICES ASSUME Sound, Ledger, NEW t \in Tasks
                 PROVE  Cardinality(FinishedOf(t)) <= runs[t]
        BY DEF FinishedMeansRan, FinishedOf
    <2>1. Recorded(t) /\ runs[t] \in Nat
        BY DEF Ledger, Sound, TypeInv, TypeOK, WorkerTypeOK
    <2>2. CASE t \in Periodic
        BY <2>1, <2>2 DEF Recorded
    <2>3. CASE FinishedOf(t) = {}
        BY <2>1, <2>3, FS_EmptySet
    <2>4. CASE t \in OneShot /\ FinishedOf(t) # {}
        <3>1. FinishedOf(t) = {Entry(t)} /\ runs[t] >= 1
            BY <2>1, <2>4 DEF Recorded
        <3> QED
            BY <2>1, <3>1, FS_Singleton
    <2> QED
        BY <2>2, <2>3, <2>4 DEF Tasks
<1> QED
    BY <1>1, <1>2, <1>3, SoundAlways, PTL DEF Spec


-------------------------------------------------------------------------------
(* The commands *)

\* The commands that are on their way to the daemon, or in its hands.
Sent == {spool[i] : i \in DOMAIN spool} \cup {cmd}

LEMMA SpooledIsSent ==
    ASSUME NEW op, NEW t
    PROVE  Spooled(op, t) <=> \E c \in Sent : c.op = op /\ c.task = t
BY DEF Spooled, Sent

\* The commands of the clients.
LEMMA CommandTypes ==
    ASSUME NEW t \in Tasks, NEW ts \in Times \cup {Never}
    PROVE  /\ \A op \in {"add", "del", "change"} : Command(op, t, ts) \in Commands
           /\ Command("shutdown", NoTask, Never) \in Commands
BY DEF Command, Commands, TaskCommands

\* A request appends its command,
LEMMA SentAppend ==
    ASSUME TypeInv, NEW c \in Commands, SpoolCommand(c), UNCHANGED cmd
    PROVE  Sent' = Sent \cup {c}
<1>1. /\ Len(spool) \in Nat /\ DOMAIN spool = 1 .. Len(spool)
      /\ DOMAIN spool' = 1 .. Len(spool) + 1
      /\ \A i \in 1 .. Len(spool) : spool'[i] = spool[i]
      /\ spool'[Len(spool) + 1] = c
    BY AppendProperties, LenProperties
    DEF TypeInv, TypeOK, StoreTypeOK, SpoolCommand
<1>2. Sent' \subseteq Sent \cup {c}
    BY <1>1 DEF Sent
<1>3. Sent \subseteq Sent'
    <2>1. \A i \in DOMAIN spool : i \in DOMAIN spool' /\ spool'[i] = spool[i]
        BY <1>1
    <2> QED
        BY <2>1 DEF Sent
<1>4. c \in Sent'
    <2>1. Len(spool) + 1 \in DOMAIN spool'
        BY <1>1
    <2> QED
        BY <1>1, <2>1 DEF Sent
<1> QED
    BY <1>2, <1>3, <1>4

\* and the daemon takes the first one, in the place of the one it had.
LEMMA SentPop ==
    ASSUME TypeInv, spool # <<>>, cmd' = Head(spool), spool' = Tail(spool)
    PROVE  Sent' \subseteq Sent /\ Sent \ {cmd} \subseteq Sent'
<1>1. /\ Len(spool) \in Nat \ {0} /\ DOMAIN spool = 1 .. Len(spool)
      /\ DOMAIN spool' = 1 .. Len(spool) - 1
      /\ \A i \in 1 .. Len(spool) - 1 : spool'[i] = spool[i + 1]
      /\ cmd' = spool[1]
    BY HeadTailProperties, EmptySeq, LenProperties
    DEF TypeInv, TypeOK, StoreTypeOK
<1>2. Sent' \subseteq Sent
    BY <1>1 DEF Sent
<1>3. ASSUME NEW i \in DOMAIN spool
      PROVE  spool[i] \in Sent'
    <2>1. CASE i = 1
        BY <1>1, <2>1 DEF Sent
    <2>2. CASE i # 1
        <3>1. i - 1 \in DOMAIN spool' /\ spool'[i - 1] = spool[i]
            BY <1>1, <2>2
        <3> QED
            BY <3>1 DEF Sent
    <2> QED
        BY <2>1, <2>2
<1> QED
    BY <1>2, <1>3 DEF Sent

\* Who sends what: no other step makes a command.
LEMMA SentStep ==
    ASSUME TypeInv, [Next]_vars
    PROVE  \/ Sent' \subseteq Sent \cup {NoCmd}
           \/ Shutdown /\ Sent' = Sent \cup {Command("shutdown", NoTask, Never)}
           \/ \E t \in Tasks, ts \in Times :
                 \/ Enqueue(t, ts) /\ Sent' = Sent \cup {Command("add", t, Never)}
                 \/ /\ ChangeStart(t, ts)
                    /\ Sent' = Sent \cup {Command("change", t, startOn[t])}
           \/ \E t \in Tasks :
                 /\ Sent' = Sent \cup {Command("del", t, Never)}
                 /\ \/ RemoveAlarm(t) \/ AdminDelete(t)
                    \/ \E w \in Workers : Suicide(w) /\ job[w] = t
<1>1. ASSUME UNCHANGED spool, cmd' \in {cmd, NoCmd}
      PROVE  Sent' \subseteq Sent \cup {NoCmd}
    BY <1>1 DEF Sent
<1>2. CASE UNCHANGED vars \/ Tick
    BY <1>1, <1>2 DEF vars, storeVars, daemonVars, Tick
<1>3. CASE ClientNext /\ UNCHANGED <<workerVars, daemonVars>>
    <2>1. UNCHANGED cmd
        BY <1>3 DEF daemonVars
    <2>2. CASE \E t \in Tasks, ts \in Times : Enqueue(t, ts) \/ ChangeStart(t, ts)
        <3>1. PICK t \in Tasks, ts \in Times : Enqueue(t, ts) \/ ChangeStart(t, ts)
            BY <2>2
        <3>2. startOn[t] \in Times \cup {Never}
            BY DEF TypeInv, TypeOK, StoreTypeOK
        <3>3. Enqueue(t, ts) => Sent' = Sent \cup {Command("add", t, Never)}
            BY <2>1, CommandTypes, SentAppend DEF Enqueue
        <3>4. ChangeStart(t, ts)
                 => Sent' = Sent \cup {Command("change", t, startOn[t])}
            BY <2>1, <3>2, CommandTypes, SentAppend DEF ChangeStart
        <3> QED
            BY <3>1, <3>3, <3>4
    <2>3. CASE \E t \in Tasks : RemoveAlarm(t) \/ AdminDelete(t)
        <3>1. PICK t \in Tasks : RemoveAlarm(t) \/ AdminDelete(t)
            BY <2>3
        <3>2. Sent' = Sent \cup {Command("del", t, Never)}
            BY <2>1, <3>1, CommandTypes, SentAppend DEF RemoveAlarm, AdminDelete
        <3> QED
            BY <3>1, <3>2
    <2>4. CASE \E t \in Tasks : RunFailed(t)
        BY <1>1, <2>1, <2>4 DEF RunFailed
    <2>5. CASE Shutdown
        <3>1. Command("shutdown", NoTask, Never) \in Commands
            BY DEF Commands
        <3> QED
            BY <2>1, <2>5, <3>1, SentAppend DEF Shutdown
    <2>6. CASE ClearSpool
        BY <2>1, <2>6 DEF ClearSpool, Sent
    <2> QED
        BY <1>3, <2>2, <2>3, <2>4, <2>5, <2>6 DEF ClientNext
<1>4. CASE WorkerNext /\ UNCHANGED daemonVars
    <2>1. UNCHANGED cmd
        BY <1>4 DEF daemonVars
    <2>2. PICK w \in Workers : WorkerStep(w) \/ PrepareFails(w) \/ Suicide(w)
        BY <1>4 DEF WorkerNext
    <2>3. CASE WorkerStep(w) \/ PrepareFails(w)
        BY <1>1, <2>1, <2>3
        DEF WorkerStep, Prepare, PrepareFails, Succeed, Fail, storeVars
    <2>4. CASE Suicide(w)
        <3>1. PICK t \in Tasks : t = job[w]
            BY <2>4 DEF Suicide, TypeInv, LocalsOK
        <3>2. Sent' = Sent \cup {Command("del", t, Never)}
            BY <2>1, <2>4, <3>1, CommandTypes, SentAppend DEF Suicide
        <3> QED
            BY <2>4, <3>1, <3>2
    <2> QED
        BY <2>2, <2>3, <2>4
<1>5. CASE PopSpool
    BY <1>1, <1>5, SentPop DEF PopSpool, Popped, GoTo
<1>6. CASE DaemonNext /\ ~PopSpool
    <2>1. UNCHANGED spool
        BY <1>6
        DEF DaemonNext, DaemonStep, RelaunchItem, RelaunchDone, BeginLoop, ExecAdd,
            ExecChange, ExecDelete, DeleteMove, DeleteRaises, ExecShutdown, Notify,
            NotifyTerminated, NotifyOneShot, NotifyPeriodic, NotifyDeleted, Collect,
            FinishedDone, SetTaskRunning, StartWorker, NothingDue, Idle,
            AwolTerminate, AwolRaises, AwolDone, Start, MarkDead, Crash,
            NotifyConflict, storeVars
    <2>2. cmd' \in {cmd, NoCmd}
        BY <1>6
        DEF DaemonNext, DaemonStep, RelaunchItem, RelaunchDone, BeginLoop, ExecAdd,
            ExecChange, ExecDelete, DeleteMove, DeleteRaises, ExecShutdown, Notify,
            NotifyTerminated, NotifyOneShot, NotifyPeriodic, NotifyDeleted, Collect,
            FinishedDone, SetTaskRunning, StartWorker, NothingDue, Idle,
            AwolTerminate, AwolRaises, AwolDone, Start, MarkDead, Crash,
            NotifyConflict, daemonVars, NextCommand, RaiseFromSpool, DaemonLocals,
            GoTo, Quit
    <2> QED
        BY <1>1, <2>1, <2>2
<1> QED
    BY <1>2, <1>3, <1>4, <1>5, <1>6 DEF Next

\* What is deleted is an alarm its owner has let go.
DelsAreReleased ==
    \A t \in Tasks : Spooled("del", t) => t \in OneShot /\ owner[t] = "released"

LEMMA DelsNext ==
    ASSUME "adminDelete" \notin Events, TypeInv, DelsAreReleased, [Next]_vars
    PROVE  DelsAreReleased'
<1>1. \A t \in Tasks : owner[t] = "released" => owner'[t] = "released"
    <2>0. owner \in [Tasks -> {"new", "held", "released"}]
        BY DEF TypeInv, TypeOK, ClientTypeOK
    <2>1. CASE UNCHANGED vars \/ Tick \/ DaemonNext
        BY <2>1
        DEF vars, clientVars, Tick, DaemonNext, DaemonStep, RelaunchItem,
            RelaunchDone, BeginLoop, PopSpool, ExecAdd,
            ExecChange, ExecDelete, DeleteMove, DeleteRaises, ExecShutdown, Notify,
            NotifyTerminated, NotifyOneShot, NotifyPeriodic, NotifyDeleted, Collect,
            FinishedDone, SetTaskRunning, StartWorker, NothingDue, Idle,
            AwolTerminate, AwolRaises, AwolDone, Start, MarkDead, Crash,
            NotifyConflict
    <2>2. CASE ClientNext
        BY <2>0, <2>2
        DEF ClientNext, Enqueue, ChangeStart, RemoveAlarm, AdminDelete, RunFailed,
            Shutdown, ClearSpool
    <2>3. CASE WorkerNext
        BY <2>0, <2>3
        DEF WorkerNext, WorkerStep, Prepare, PrepareFails, Succeed, Fail, Suicide,
            clientVars
    <2> QED
        BY <2>1, <2>2, <2>3 DEF Next
<1>2. ASSUME NEW c, c.op # "del", Sent' \subseteq Sent \cup {c}
      PROVE  DelsAreReleased'
    <2>1. \A t \in Tasks : Spooled("del", t)' => Spooled("del", t)
        BY <1>2 DEF Spooled, Sent
    <2> QED
        BY <1>1, <2>1 DEF DelsAreReleased
<1>3. ASSUME NEW t \in Tasks, Sent' = Sent \cup {Command("del", t, Never)},
             RemoveAlarm(t) \/ \E w \in Workers : Suicide(w) /\ job[w] = t
      PROVE  DelsAreReleased'
    <2>1. t \in OneShot /\ owner'[t] = "released"
        BY <1>3 DEF RemoveAlarm, Suicide, TypeInv, TypeOK, ClientTypeOK
    <2>2. \A u \in Tasks : Spooled("del", u)' => Spooled("del", u) \/ u = t
        BY <1>3 DEF Spooled, Sent, Command
    <2> QED
        BY <1>1, <2>1, <2>2 DEF DelsAreReleased
<1>4. \A t \in Tasks : ~AdminDelete(t)
    BY DEF AdminDelete, Disturb
<1> QED
    BY <1>2, <1>3, <1>4, SentStep DEF NoCmd, Command


-------------------------------------------------------------------------------
(* The running list and the workers *)

\* A periodic task goes on being one, since nobody deletes it.
Recurring == \A t \in Periodic : repeat[t]

Manned == DelsAreReleased /\ Recurring /\ RunningHasWorker

LEMMA RecurringNext ==
    ASSUME TypeInv, DelsAreReleased, Recurring, [Next]_vars
    PROVE  Recurring'
<1>1. CASE UNCHANGED repeat
    BY <1>1 DEF Recurring
<1>2. CASE ExecDelete
    <2>1. cmd.task \in Tasks /\ Spooled("del", cmd.task)
        BY <1>2, ExecutingType DEF ExecDelete, Executing, Spooled
    <2>2. cmd.task \notin Periodic
        BY <2>1, StoreAssumption DEF DelsAreReleased
    <2> QED
        BY <1>2, <2>2
        DEF ExecDelete, Recurring, TypeInv, TypeOK, StoreTypeOK, Tasks
<1>3. ~ExecDelete => UNCHANGED repeat
    BY DEF vars, storeVars, taskVars, Next, Tick, ClientNext, Enqueue, ChangeStart,
           RemoveAlarm, AdminDelete, RunFailed, Shutdown, ClearSpool, WorkerNext,
           WorkerStep, Prepare, PrepareFails, Succeed, Fail, Suicide, DaemonNext,
           DaemonStep, RelaunchItem, RelaunchDone, BeginLoop, PopSpool, ExecAdd,
           ExecChange, DeleteMove, DeleteRaises, ExecShutdown, Notify,
           NotifyTerminated, NotifyOneShot, NotifyPeriodic, NotifyDeleted, Collect,
           FinishedDone, SetTaskRunning, StartWorker, NothingDue, Idle,
           AwolTerminate, AwolRaises, AwolDone, Start, MarkDead, Crash,
           NotifyConflict
<1> QED
    BY <1>1, <1>2, <1>3

\* The worker of an item leaves the dictionary in the step that takes the item
\* off the list; what starts the next session without one is noted.
LEMMA MannedStep ==
    ASSUME {"conflict", "adminDelete"} \cap Events = {},
           Sound, Manned, [Next]_vars
    PROVE  RunningHasWorker'
<1> SUFFICES ASSUME ~relaunched', pc' # "down", NEW t \in Tasks, OnRunningList(t)'
             PROVE  launching' = t \/ runningWorkers'[t] # NoWorker
    BY DEF RunningHasWorker
<1>0. /\ TypeInv /\ Placement /\ Hands /\ StoreTypeOK /\ WorkerTypeOK /\ Once
      /\ ~relaunched
    BY RelaunchedStays DEF Sound, TypeInv, TypeOK, Placement
<1>1. ASSUME pc # "down", OnRunningList(t), runningWorkers'[t] = runningWorkers[t],
             launching' = launching \/ pc # "start"
      PROVE  launching' = t \/ runningWorkers'[t] # NoWorker
    BY <1>0, <1>1, StoreAssumption
    DEF Manned, RunningHasWorker, Placement, LaunchingAtStart
<1>2. CASE UNCHANGED vars \/ Tick
    BY <1>1, <1>2 DEF vars, storeVars, workerVars, daemonVars, Tick, OnRunningList
<1>3. CASE ClientNext /\ UNCHANGED <<workerVars, daemonVars>>
    <2>1. UNCHANGED running
        BY <1>3
        DEF ClientNext, Enqueue, ChangeStart, RemoveAlarm, AdminDelete, RunFailed,
            Shutdown, ClearSpool
    <2> QED
        BY <1>1, <1>3, <2>1 DEF workerVars, daemonVars, OnRunningList
<1>4. CASE WorkerNext /\ UNCHANGED daemonVars
    <2>1. UNCHANGED <<running, runningWorkers>>
        BY <1>4
        DEF WorkerNext, WorkerStep, Prepare, PrepareFails, Succeed, Fail, Suicide,
            Die, storeVars
    <2> QED
        BY <1>1, <1>4, <2>1 DEF daemonVars, OnRunningList
<1>5. CASE Start
    <2>1. running = <<>> /\ UNCHANGED running
        BY <1>5 DEF Start
    <2> QED
        BY <2>1, EmptySeq DEF OnRunningList
<1>6. CASE AwolRaises \/ Crash \/ MarkDead \/ (FinishedDone /\ exiting)
    BY <1>6 DEF AwolRaises, Crash, MarkDead, FinishedDone, Quit, DaemonLocals,
                daemonVars
<1>7. CASE \/ RelaunchDone \/ BeginLoop \/ PopSpool \/ ExecAdd \/ ExecChange
           \/ ExecDelete \/ DeleteRaises \/ ExecShutdown \/ NothingDue \/ Idle
           \/ AwolDone \/ (FinishedDone /\ ~exiting)
    <2>1. UNCHANGED <<running, runningWorkers>>
        BY <1>7
        DEF RelaunchDone, BeginLoop, PopSpool, ExecAdd, ExecChange, ExecDelete,
            DeleteRaises, ExecShutdown, NothingDue, Idle, AwolDone, FinishedDone,
            storeVars, workerVars
    <2>2. pc \notin {"down", "start"}
        BY <1>7
        DEF RelaunchDone, BeginLoop, PopSpool, ExecAdd, ExecChange, ExecDelete,
            DeleteRaises, ExecShutdown, NothingDue, Idle, AwolDone, FinishedDone,
            Executing
    <2> QED
        BY <1>1, <2>1, <2>2 DEF OnRunningList
<1>8. CASE RelaunchItem \/ DeleteMove \/ AwolTerminate
    <2>1. PICK u, from : running' = RunningAfter(u, from)
        BY <1>8 DEF RelaunchItem, DeleteMove, AwolTerminate, MoveTask
    <2>2. UNCHANGED runningWorkers /\ pc \notin {"down", "start"}
        BY <1>8 DEF RelaunchItem, DeleteMove, AwolTerminate, workerVars
    <2> QED
        BY <1>0, <1>1, <2>1, <2>2, RunningShrinks
<1>9. CASE SetTaskRunning
    <2>1. PICK e \in waiting : launching' = e[2] /\ running' = Append(running, e[2])
        BY <1>9 DEF SetTaskRunning
    <2>2. PICK x \in Times, u \in Tasks : e = <<x, u>>
        BY <1>0, <2>1 DEF StoreTypeOK
    <2>3. OnRunningList(t) \/ u = t
        <3>1. running \in Seq(Tasks) /\ running' = Append(running, u)
            BY <1>0, <2>1, <2>2 DEF StoreTypeOK
        <3>2. /\ Len(running) \in Nat /\ DOMAIN running = 1 .. Len(running)
              /\ DOMAIN running' = 1 .. Len(running) + 1
              /\ \A i \in 1 .. Len(running) : running'[i] = running[i]
              /\ running'[Len(running) + 1] = u
            BY <3>1, AppendProperties, LenProperties
        <3> QED
            BY <3>2 DEF OnRunningList
    <2>4. pc = "peek" /\ UNCHANGED runningWorkers
        BY <1>9 DEF SetTaskRunning, workerVars
    <2> QED
        BY <1>1, <2>1, <2>2, <2>3, <2>4
<1>10. CASE StartWorker
    <2>1. PICK w \in Workers : runningWorkers' = [runningWorkers EXCEPT ![launching] = w]
        BY <1>10 DEF StartWorker
    <2>2. pc = "start" /\ launching \in Tasks /\ UNCHANGED running
        BY <1>0, <1>10 DEF StartWorker, TypeInv, LocalsOK, storeVars
    <2>3. launching = t \/ runningWorkers[t] # NoWorker
        BY <1>0, <2>2 DEF Manned, RunningHasWorker, OnRunningList
    <2> QED
        BY <1>0, <2>1, <2>2, <2>3, WorkerAssumption DEF WorkerTypeOK
<1>11. ASSUME NEW u \in Tasks, Notify(u)
       PROVE  launching' = t \/ runningWorkers'[t] # NoWorker
    <2>1. ~NotifyDeleted(u)
        BY DEF NotifyDeleted, Manned, Recurring
    <2>2. Collect(u) /\ running' = RunningAfter(u, "running")
        BY <1>11, <2>1
        DEF Notify, NotifyTerminated, NotifyOneShot, NotifyPeriodic, MoveTask
    <2>3. u \in Single
        BY SingleTasks
    <2>4. OnRunningList(t) /\ u # t
        BY <1>0, <2>2, <2>3, RunningShrinks
    <2>5. pc = "finished" /\ runningWorkers'[t] = runningWorkers[t]
        BY <1>0, <2>2, <2>4 DEF Collect, WorkerTypeOK
    <2> QED
        BY <1>1, <2>4, <2>5
<1>12. \A u \in Tasks : ~NotifyConflict(u)
    BY DEF NotifyConflict, Disturb
<1> QED
    BY <1>2, <1>3, <1>4, <1>5, <1>6, <1>7, <1>8, <1>9, <1>10, <1>11, <1>12
    DEF Next, DaemonNext, DaemonStep

\* In a session every item of the running list has a worker, or is about to get
\* one, unless a commit conflicts in _db_notifyTaskStatus or the administrator
\* deletes a periodic task while it runs: both leave the item behind.
THEOREM RunningHasWorkerCorrect ==
    ASSUME {"conflict", "adminDelete"} \cap Events = {}
    PROVE  Spec => []RunningHasWorker
<1>1. Init => Manned
    <2> SUFFICES ASSUME Init PROVE Manned
        OBVIOUS
    <2>1. pc = "down" /\ spool = <<>> /\ cmd = NoCmd
        BY DEF Init, StoreInit, DaemonInit
    <2>2. \A t \in Periodic : repeat[t]
        BY DEF Init, StoreInit, Tasks
    <2>3. DelsAreReleased
        BY <2>1 DEF DelsAreReleased, Spooled, NoCmd, Command
    <2> QED
        BY <2>1, <2>2, <2>3 DEF Manned, Recurring, RunningHasWorker
<1>2. Sound /\ Manned /\ [Next]_vars => Manned'
    BY DelsNext, RecurringNext, MannedStep DEF Manned, Sound
<1>3. Manned => RunningHasWorker
    BY DEF Manned
<1> QED
    BY <1>1, <1>2, <1>3, SoundAlways, PTL DEF Spec


-------------------------------------------------------------------------------
(* Commands that are not lost *)

\* A command that puts a task in the queue, or moves it, is executed at once.
CmdAtExec == cmd.op \in {"add", "change"} => pc = "exec"

LEMMA CmdAtExecNext ==
    ASSUME CmdAtExec, [Next]_vars
    PROVE  CmdAtExec'
<1>1. CASE cmd' = NoCmd \/ pc' = "exec"
    BY <1>1 DEF CmdAtExec, NoCmd, Command
<1>2. CASE UNCHANGED cmd /\ (UNCHANGED pc \/ pc # "exec" \/ cmd.op = "del")
    BY <1>2 DEF CmdAtExec
<1>3. CASE UNCHANGED vars \/ Tick \/ ((ClientNext \/ WorkerNext) /\ UNCHANGED daemonVars)
    BY <1>2, <1>3 DEF vars, daemonVars, Tick
<1>4. CASE \E t \in Tasks : Notify(t) \/ NotifyConflict(t)
    BY <1>2, <1>4
    DEF Notify, NotifyTerminated, NotifyOneShot, NotifyPeriodic, NotifyDeleted,
        Collect, NotifyConflict, daemonVars
<1>5. CASE \/ RelaunchDone \/ ExecAdd \/ ExecChange \/ DeleteMove \/ DeleteRaises
           \/ ExecShutdown \/ StartWorker \/ NothingDue \/ AwolRaises \/ Crash
    BY <1>1, <1>5
    DEF RelaunchDone, ExecAdd, ExecChange, DeleteMove, DeleteRaises, ExecShutdown,
        StartWorker, NothingDue, AwolRaises, Crash, Quit, DaemonLocals, NextCommand,
        RaiseFromSpool
<1>6. CASE \/ Start \/ RelaunchItem \/ BeginLoop \/ ExecDelete \/ SetTaskRunning
           \/ Idle \/ AwolTerminate \/ AwolDone \/ MarkDead
    BY <1>2, <1>6
    DEF Start, RelaunchItem, BeginLoop, ExecDelete, Executing, SetTaskRunning, Idle,
        AwolTerminate, AwolDone, MarkDead, GoTo, daemonVars
<1>7. CASE PopSpool \/ FinishedDone
    BY <1>1, <1>2, <1>7 DEF PopSpool, FinishedDone, GoTo, Quit, DaemonLocals
<1> QED
    BY <1>3, <1>4, <1>5, <1>6, <1>7 DEF Next, DaemonNext, DaemonStep

\* An 'add' or a 'change' goes on being there until it has been executed, unless
\* the spool is cleared or the daemon crashes in between.
LEMMA SentStays ==
    ASSUME {"clearSpool", "crash"} \cap Events = {}, TypeInv, CmdAtExec,
           [Next]_vars, NEW c \in Sent, c.op \in {"add", "change"}
    PROVE  c \in Sent' \/ (c = cmd /\ (ExecAdd \/ ExecChange))
<1>1. CASE UNCHANGED spool /\ (UNCHANGED cmd \/ c # cmd)
    BY <1>1 DEF Sent
<1>2. ASSUME NEW d \in Commands, SpoolCommand(d), UNCHANGED cmd
      PROVE  c \in Sent'
    BY <1>2, SentAppend
<1>3. CASE UNCHANGED vars \/ Tick
    BY <1>1, <1>3 DEF vars, storeVars, daemonVars, Tick
<1>4. CASE ClientNext /\ UNCHANGED <<workerVars, daemonVars>>
    <2>1. ~ClearSpool
        BY DEF ClearSpool, Disturb
    <2>2. UNCHANGED cmd
        BY <1>4 DEF daemonVars
    <2>3. ASSUME NEW t \in Tasks, NEW ts \in Times,
                 Enqueue(t, ts) \/ ChangeStart(t, ts)
          PROVE  c \in Sent'
        <3>1. /\ Command("add", t, Never) \in Commands
              /\ Command("change", t, startOn[t]) \in Commands
            BY CommandTypes DEF TypeInv, TypeOK, StoreTypeOK
        <3> QED
            BY <1>2, <2>2, <2>3, <3>1 DEF Enqueue, ChangeStart
    <2>4. ASSUME NEW t \in Tasks, RemoveAlarm(t) \/ AdminDelete(t)
          PROVE  c \in Sent'
        <3>1. Command("del", t, Never) \in Commands
            BY CommandTypes
        <3> QED
            BY <1>2, <2>2, <2>4, <3>1 DEF RemoveAlarm, AdminDelete
    <2>5. ASSUME NEW t \in Tasks, RunFailed(t)
          PROVE  c \in Sent'
        BY <1>1, <2>2, <2>5, <1>4 DEF RunFailed, Sent
    <2>6. CASE Shutdown
        <3>1. Command("shutdown", NoTask, Never) \in Commands
            BY DEF Commands
        <3> QED
            BY <1>2, <2>2, <2>6, <3>1 DEF Shutdown
    <2> QED
        BY <1>4, <2>1, <2>3, <2>4, <2>5, <2>6 DEF ClientNext
<1>5. CASE WorkerNext /\ UNCHANGED daemonVars
    <2>1. UNCHANGED cmd
        BY <1>5 DEF daemonVars
    <2>2. PICK w \in Workers : WorkerStep(w) \/ PrepareFails(w) \/ Suicide(w)
        BY <1>5 DEF WorkerNext
    <2>3. CASE WorkerStep(w) \/ PrepareFails(w)
        BY <1>1, <2>1, <2>3
        DEF WorkerStep, Prepare, PrepareFails, Succeed, Fail, storeVars
    <2>4. CASE Suicide(w)
        <3>1. job[w] \in Tasks
            BY <2>4 DEF Suicide, TypeInv, LocalsOK
        <3> QED
            BY <1>2, <2>1, <2>4, <3>1, CommandTypes DEF Suicide
    <2> QED
        BY <2>2, <2>3, <2>4
<1>6. CASE PopSpool
    <2>1. c # cmd
        BY <1>6 DEF PopSpool, CmdAtExec
    <2> QED
        BY <1>1, <1>6, <2>1, SentPop DEF PopSpool, Popped, GoTo
<1>7. CASE ExecAdd \/ ExecChange
    BY <1>1, <1>7 DEF ExecAdd, ExecChange
<1>8. CASE \E t \in Tasks : Notify(t) \/ NotifyConflict(t)
    BY <1>1, <1>8
    DEF Notify, NotifyTerminated, NotifyOneShot, NotifyPeriodic, NotifyDeleted,
        Collect, NotifyConflict, daemonVars
<1>9. CASE \/ RelaunchDone \/ ExecShutdown \/ DeleteMove \/ DeleteRaises
           \/ FinishedDone \/ StartWorker \/ NothingDue \/ AwolRaises
    <2>1. UNCHANGED spool
        BY <1>9
        DEF RelaunchDone, ExecShutdown, DeleteMove, DeleteRaises, FinishedDone,
            StartWorker, NothingDue, AwolRaises, storeVars
    <2>2. c # cmd
        BY <1>9
        DEF RelaunchDone, ExecShutdown, DeleteMove, DeleteRaises, FinishedDone,
            StartWorker, NothingDue, AwolRaises, Executing, CmdAtExec
    <2> QED
        BY <1>1, <2>1, <2>2
<1>10. CASE \/ Start \/ RelaunchItem \/ BeginLoop \/ ExecDelete \/ SetTaskRunning
            \/ Idle \/ AwolTerminate \/ AwolDone \/ MarkDead
    BY <1>1, <1>10
    DEF Start, RelaunchItem, BeginLoop, ExecDelete, SetTaskRunning, Idle,
        AwolTerminate, AwolDone, MarkDead, GoTo, storeVars, daemonVars
<1>11. ~Crash
    BY DEF Crash, Disturb
<1> QED
    BY <1>3, <1>4, <1>5, <1>6, <1>7, <1>8, <1>9, <1>10, <1>11
    DEF Next, DaemonNext, DaemonStep


-------------------------------------------------------------------------------
(* The bins and the start dates *)

\* A task that waits in another bin than that of its start date has the 'change'
\* that will find it there on its way.
MovesPending ==
    \A t \in Tasks, x \in Times :
        <<x, t>> \in waiting /\ x # startOn[t] => Command("change", t, x) \in Sent

Dated == CmdAtExec /\ MovesPending

\* Whatever enters the queue enters the bin of the start date, and dates change
\* only of what does not wait, or with a 'change'.
LEMMA DatesStep ==
    ASSUME Sound, [Next]_vars, NEW t \in Tasks, NEW x \in Times,
           <<x, t>> \in waiting', x # startOn'[t], ~ExecChange,
           UNCHANGED daemonVars => \A ts \in Times : ~ChangeStart(t, ts)
    PROVE  <<x, t>> \in waiting /\ startOn'[t] = startOn[t]
<1>0. TypeInv /\ Placement /\ StoreTypeOK
    BY DEF Sound, TypeInv, TypeOK
<1>1. ASSUME waiting' \subseteq waiting, UNCHANGED startOn
      PROVE  <<x, t>> \in waiting /\ startOn'[t] = startOn[t]
    BY <1>1
<1>2. ASSUME NEW u \in Tasks, waiting' \subseteq waiting \cup Enqueued(u),
             UNCHANGED startOn
      PROVE  <<x, t>> \in waiting /\ startOn'[t] = startOn[t]
    BY <1>2 DEF Enqueued, Bin
<1>3. CASE UNCHANGED vars \/ Tick
    BY <1>1, <1>3 DEF vars, storeVars, taskVars, Tick
<1>4. CASE ClientNext /\ UNCHANGED daemonVars
    <2>1. ASSUME NEW u \in Tasks, NEW ts \in Times, Enqueue(u, ts)
          PROVE  <<x, t>> \in waiting /\ startOn'[t] = startOn[t]
        <3>1. /\ UNCHANGED waiting /\ startOn' = [startOn EXCEPT ![u] = ts]
              /\ ~Waits(u)
            BY <1>0, <2>1 DEF Enqueue, Placement, AddsAreFresh, Fresh, ToAdd
        <3> QED
            BY <1>0, <3>1 DEF Waits, StoreTypeOK
    <2>2. ASSUME NEW u \in Tasks, NEW ts \in Times, ChangeStart(u, ts)
          PROVE  <<x, t>> \in waiting /\ startOn'[t] = startOn[t]
        BY <1>0, <1>4, <2>2 DEF ChangeStart, StoreTypeOK
    <2>3. ASSUME NEW u \in Tasks, RunFailed(u)
          PROVE  <<x, t>> \in waiting /\ startOn'[t] = startOn[t]
        <3>1. /\ waiting' = waiting \cup {<<now, u>>}
              /\ startOn' = [startOn EXCEPT ![u] = now]
            BY <2>3 DEF RunFailed
        <3>2. ~Waits(u)
            BY <1>0, <2>3
            DEF RunFailed, CanMove, StatusIs, Placement, FailedIsOut, FailedOneShot
        <3> QED
            BY <1>0, <3>1, <3>2 DEF Waits, StoreTypeOK
    <2>4. CASE Shutdown \/ ClearSpool \/ \E u \in Tasks : RemoveAlarm(u) \/ AdminDelete(u)
        BY <1>1, <2>4 DEF Shutdown, ClearSpool, RemoveAlarm, AdminDelete, taskVars
    <2> QED
        BY <1>4, <2>1, <2>2, <2>3, <2>4 DEF ClientNext
<1>5. CASE WorkerNext
    BY <1>1, <1>5
    DEF WorkerNext, WorkerStep, Prepare, PrepareFails, Succeed, Fail, Suicide,
        storeVars, taskVars
<1>6. CASE \/ Start \/ RelaunchDone \/ BeginLoop \/ PopSpool \/ ExecDelete
           \/ DeleteRaises \/ ExecShutdown \/ FinishedDone \/ SetTaskRunning
           \/ StartWorker \/ NothingDue \/ Idle \/ AwolRaises \/ AwolDone \/ Crash
           \/ MarkDead
    BY <1>1, <1>6
    DEF Start, RelaunchDone, BeginLoop, PopSpool, ExecDelete, DeleteRaises,
        ExecShutdown, FinishedDone, SetTaskRunning, TakenFromBin, StartWorker,
        NothingDue, Idle, AwolRaises, AwolDone, Crash, MarkDead, storeVars, taskVars
<1>7. CASE RelaunchItem
    <2>1. PICK u \in Tasks : u = running[cursor]
        BY <1>0, <1>7, ElementOfSeq DEF RelaunchItem, StoreTypeOK
    <2>2. waiting' \subseteq waiting \cup Enqueued(u) /\ UNCHANGED startOn
        BY <1>7, <2>1 DEF RelaunchItem, MoveTask, WaitingAfter
    <2> QED
        BY <1>2, <2>2
<1>8. CASE ExecAdd
    <2>1. cmd.task \in Tasks
        BY <1>0, <1>8, ExecutingType DEF ExecAdd
    <2> QED
        BY <1>2, <1>8, <2>1 DEF ExecAdd
<1>9. CASE DeleteMove \/ AwolTerminate
    BY <1>1, <1>9 DEF DeleteMove, AwolTerminate, MoveTask, WaitingAfter, taskVars
<1>10. ASSUME NEW u \in Tasks, Notify(u) \/ NotifyConflict(u)
       PROVE  <<x, t>> \in waiting /\ startOn'[t] = startOn[t]
    <2>1. CASE NotifyPeriodic(u)
        <3>1. PICK ts \in Times \cup {Never} :
                 /\ startOn' = [startOn EXCEPT ![u] = ts]
                 /\ waiting' = waiting \cup Bin(ts, u)
            BY <2>1 DEF NotifyPeriodic, NextOccurrences
        <3>2. ~Waits(u)
            BY <1>0, <1>10, <2>1, CollectKeeps DEF NotifyPeriodic
        <3> QED
            BY <1>0, <3>1, <3>2 DEF Bin, Waits, StoreTypeOK
    <2>2. CASE NotifyTerminated(u) \/ NotifyOneShot(u) \/ NotifyDeleted(u)
        BY <1>1, <2>2
        DEF NotifyTerminated, NotifyOneShot, NotifyDeleted, MoveTask, WaitingAfter,
            Outcome
    <2>3. CASE NotifyConflict(u)
        BY <1>2, <2>3 DEF NotifyConflict
    <2> QED
        BY <1>10, <2>1, <2>2, <2>3 DEF Notify
<1> QED
    BY <1>3, <1>4, <1>5, <1>6, <1>7, <1>8, <1>9, <1>10
    DEF Next, DaemonNext, DaemonStep

\* Every step keeps the 'change' until it has moved the task.
LEMMA MovesNext ==
    ASSUME {"clearSpool", "crash"} \cap Events = {}, Sound, Dated, [Next]_vars
    PROVE  Dated'
<1>0. TypeInv /\ Placement /\ StoreTypeOK /\ CmdAtExec
    BY DEF Sound, TypeInv, TypeOK, Dated
<1> SUFFICES ASSUME NEW t \in Tasks, NEW x \in Times,
                    <<x, t>> \in waiting', x # startOn'[t]
             PROVE  Command("change", t, x) \in Sent'
    BY CmdAtExecNext DEF Dated, MovesPending
<1> DEFINE c == Command("change", t, x)
<1>1. ASSUME <<x, t>> \in waiting, startOn'[t] = startOn[t], ~ExecChange
      PROVE  c \in Sent'
    <2>1. c \in Sent
        BY <1>1 DEF Dated, MovesPending
    <2>2. c.op = "change" /\ (ExecAdd => c # cmd)
        BY DEF Command, ExecAdd, Executing
    <2> QED
        BY <1>0, <1>1, <2>1, <2>2, SentStays
<1>2. CASE ExecChange
    <2>1. /\ cmd.task \in Tasks /\ cmd.op = "change"
          /\ waiting' = Rebinned(cmd.task, <<cmd.ts, cmd.task>>)
          /\ UNCHANGED <<startOn, spool>>
        BY <1>0, <1>2, ExecutingType DEF ExecChange, Executing, taskVars
    <2>2. <<x, t>> \in waiting
        BY <2>1 DEF Rebinned, Enqueued, Bin
    <2>3. c \in Sent
        BY <2>1, <2>2 DEF Dated, MovesPending
    <2>4. c # cmd
        <3> SUFFICES ASSUME c = cmd PROVE FALSE
            OBVIOUS
        <3>1. cmd.task = t /\ cmd.ts = x
            BY DEF Command
        <3>2. waiting' = (waiting \ {<<x, t>>}) \cup Enqueued(t)
            BY <2>1, <2>2, <3>1 DEF Rebinned
        <3> QED
            BY <2>1, <3>2 DEF Enqueued, Bin
    <2> QED
        BY <2>1, <2>3, <2>4 DEF Sent
<1>3. ASSUME NEW ts \in Times, ChangeStart(t, ts), UNCHANGED daemonVars
      PROVE  c \in Sent'
    <2>1. UNCHANGED waiting /\ SpoolCommand(Command("change", t, startOn[t]))
        BY <1>3 DEF ChangeStart
    <2>2. UNCHANGED cmd
        BY <1>3 DEF daemonVars
    <2>3. Sent' = Sent \cup {Command("change", t, startOn[t])}
        BY <1>0, <2>1, <2>2, CommandTypes, SentAppend DEF StoreTypeOK
    <2> QED
        BY <2>1, <2>3 DEF Dated, MovesPending
<1> QED
    BY <1>1, <1>2, <1>3, DatesStep

\* Without a cleared spool or a crash, a task that waits is in the bin of its
\* start date, or the 'change' that moves it is on its way: deletions, daemons
\* that end and start again and tasks that are run again included.
THEOREM BinIsStartDateCorrect ==
    ASSUME {"clearSpool", "crash"} \cap Events = {}
    PROVE  Spec => []BinIsStartDate
<1>1. Init => Dated
    BY DEF Init, StoreInit, DaemonInit, NoCmd, Command, Dated, CmdAtExec, MovesPending
<1>2. Sound /\ Dated /\ [Next]_vars => Dated'
    BY MovesNext
<1>3. Sound /\ Dated => BinIsStartDate
    <2> SUFFICES ASSUME Sound, Dated, NEW e \in waiting
                 PROVE  Spooled("change", e[2]) \/ e[1] = startOn[e[2]]
        BY DEF BinIsStartDate
    <2>1. PICK x \in Times, t \in Tasks : e = <<x, t>>
        BY DEF Sound, TypeInv, TypeOK, StoreTypeOK
    <2>2. CASE x # startOn[t]
        BY <2>1, <2>2, SpooledIsSent DEF Dated, MovesPending, Command
    <2> QED
        BY <2>1, <2>2
<1> QED
    BY <1>1, <1>2, <1>3, SoundAlways, PTL DEF Spec


-------------------------------------------------------------------------------
(* No task is lost *)

\* A one-shot task has a date once it has an owner.
HeldHasDate == \A t \in OneShot : owner[t] # "new" => startOn[t] # Never

\* Where a task is to be found that is not on its way in the spool.
Placed(t) ==
    \/ Waits(t)
    \/ OnRunningList(t)
    \/ status[t] = "terminated"
    \/ t \in OneShot /\ Entry(t) \in failedIndex \cup finishedIndex
    \/ t \in Periodic /\ startOn[t] = Never

LEMMA LocatedIsPlaced ==
    ASSUME TypeInv, NEW t \in Tasks
    PROVE  Located(t) <=> Spooled("add", t) \/ Placed(t)
BY BinsAreWaits DEF Located, Placed

LEMMA HeldHasDateNext ==
    ASSUME TypeInv, HeldHasDate, [Next]_vars
    PROVE  HeldHasDate'
<1>0. /\ startOn \in [Tasks -> Times \cup {Never}]
      /\ owner \in [Tasks -> {"new", "held", "released"}]
      /\ OneShot \subseteq Tasks /\ \A t \in OneShot : t \notin Periodic
      /\ Never \notin Times
    BY StoreAssumption
    DEF TypeInv, TypeOK, StoreTypeOK, ClientTypeOK, Tasks, Times
<1>1. ASSUME UNCHANGED startOn,
             \A t \in Tasks : owner'[t] # "new" => owner[t] # "new"
      PROVE  HeldHasDate'
    BY <1>0, <1>1 DEF HeldHasDate
<1>2. CASE UNCHANGED vars \/ Tick
    BY <1>1, <1>2 DEF vars, storeVars, taskVars, clientVars, Tick
<1>3. CASE ClientNext
    <2>1. ASSUME NEW t \in Tasks, NEW ts \in Times,
                 Enqueue(t, ts) \/ ChangeStart(t, ts)
          PROVE  HeldHasDate'
        <3>1. /\ startOn' = [startOn EXCEPT ![t] = ts]
              /\ \A u \in Tasks \ {t} : owner'[u] = owner[u]
            BY <1>0, <2>1 DEF Enqueue, ChangeStart
        <3> QED
            BY <1>0, <3>1 DEF HeldHasDate
    <2>2. ASSUME NEW t \in Tasks, RemoveAlarm(t)
          PROVE  HeldHasDate'
        BY <1>0, <1>1, <2>2 DEF RemoveAlarm, taskVars
    <2>3. ASSUME NEW t \in Tasks, RunFailed(t)
          PROVE  HeldHasDate'
        BY <1>0, <2>3 DEF RunFailed, HeldHasDate
    <2>4. CASE Shutdown \/ ClearSpool \/ \E t \in Tasks : AdminDelete(t)
        BY <1>1, <2>4 DEF Shutdown, ClearSpool, AdminDelete, taskVars
    <2> QED
        BY <1>3, <2>1, <2>2, <2>3, <2>4 DEF ClientNext
<1>4. CASE WorkerNext
    <2>1. UNCHANGED startOn
        BY <1>4 DEF WorkerNext, WorkerStep, Prepare, PrepareFails, Succeed, Fail,
                    Suicide, storeVars, taskVars
    <2>2. \A t \in Tasks : owner'[t] # "new" => owner[t] # "new"
        BY <1>0, <1>4 DEF WorkerNext, WorkerStep, Prepare, PrepareFails, Succeed,
                    Fail, Suicide, clientVars
    <2> QED
        BY <1>1, <2>1, <2>2
<1>5. CASE DaemonNext
    <2>1. UNCHANGED owner
        BY <1>5
        DEF clientVars, DaemonNext, DaemonStep, RelaunchItem, RelaunchDone,
            BeginLoop, PopSpool, ExecAdd, ExecChange, ExecDelete, DeleteMove,
            DeleteRaises, ExecShutdown, Notify, NotifyTerminated, NotifyOneShot,
            NotifyPeriodic, NotifyDeleted, Collect, FinishedDone, SetTaskRunning,
            StartWorker, NothingDue, Idle, AwolTerminate, AwolRaises, AwolDone,
            Start, MarkDead, Crash, NotifyConflict
    <2>2. CASE \E u \in Tasks : NotifyPeriodic(u)
        BY <1>0, <2>1, <2>2 DEF NotifyPeriodic, HeldHasDate
    <2>3. CASE ~\E u \in Tasks : NotifyPeriodic(u)
        <3>1. UNCHANGED startOn
            BY <1>5, <2>3
            DEF storeVars, taskVars, DaemonNext, DaemonStep, RelaunchItem,
                RelaunchDone, BeginLoop, PopSpool, ExecAdd, ExecChange, ExecDelete,
                DeleteMove, DeleteRaises, ExecShutdown, Notify, NotifyTerminated,
                NotifyOneShot, NotifyDeleted, FinishedDone,
                SetTaskRunning, StartWorker, NothingDue, Idle, AwolTerminate,
                AwolRaises, AwolDone, Start, MarkDead, Crash, NotifyConflict
        <3> QED
            BY <1>1, <2>1, <3>1
    <2> QED
        BY <2>2, <2>3
<1> QED
    BY <1>2, <1>3, <1>4, <1>5 DEF Next

\* moveTask leaves the other tasks where they are.
LEMMA RunningSpares ==
    ASSUME StoreTypeOK, NEW u, NEW from, running' = RunningAfter(u, from),
           NEW t \in Tasks, t # u, OnRunningList(t)
    PROVE  OnRunningList(t)'
<1>1. CASE from = "running"
    <2>1. PICK m \in DOMAIN running : running[m] = t
        BY DEF OnRunningList
    <2>2. \E i \in DOMAIN RemoveFirst(running, u) :
             RemoveFirst(running, u)[i] = running[m]
        BY <2>1, RemoveFirstKeeps DEF StoreTypeOK
    <2> QED
        BY <1>1, <2>1, <2>2 DEF RunningAfter, OnRunningList
<1>2. CASE from # "running"
    BY <1>2 DEF RunningAfter, OnRunningList
<1> QED
    BY <1>1, <1>2

LEMMA MoveSpares ==
    ASSUME StoreTypeOK, NEW u \in Tasks, NEW from, NEW to, MoveTask(u, from, to),
           NEW t \in Tasks, t # u, UNCHANGED startOn, status'[t] = status[t],
           Placed(t)
    PROVE  Placed(t)'
<1>1. OnRunningList(t) => OnRunningList(t)'
    BY RunningSpares DEF MoveTask
<1>2. Waits(t) => Waits(t)'
    BY DEF MoveTask, WaitingAfter, Enqueued, Bin, Waits
<1>3. Entry(t) \in failedIndex => Entry(t) \in failedIndex'
    BY DEF MoveTask, FailedAfter, Entry
<1>4. Entry(t) \in finishedIndex => Entry(t) \in finishedIndex'
    BY DEF MoveTask, FinishedAfter
<1>5. Entry(t)' = Entry(t)
    BY DEF Entry
<1> QED
    BY <1>1, <1>2, <1>3, <1>4, <1>5 DEF Placed


Kept == CmdAtExec /\ DelsAreReleased /\ HeldHasDate

\* Each operation of the daemon, and whatever clients and workers do meanwhile,
\* leaves a task its owner still holds somewhere.
LEMMA PlacedStays ==
    ASSUME Sound, Kept, [Next]_vars, ~relaunched, NEW t \in Tasks,
           owner[t] = "held", owner'[t] = "held", Placed(t)
    PROVE  Placed(t)'
<1>0. /\ TypeInv /\ Placement /\ Hands /\ StoreTypeOK
      /\ CmdAtExec /\ DelsAreReleased /\ HeldHasDate
      /\ Entry(t)' = Entry(t) /\ \A u \in OneShot : u \notin Periodic
    BY StoreAssumption DEF Sound, Kept, TypeInv, TypeOK, Entry
<1>1. ASSUME waiting \subseteq waiting', OnRunningList(t) => OnRunningList(t)',
             status[t] = "terminated" => status'[t] = "terminated",
             UNCHANGED indexVars,
             t \in Periodic => startOn'[t] = startOn[t]
      PROVE  Placed(t)'
    BY <1>0, <1>1 DEF Placed, Waits, indexVars
<1>2. ASSUME UNCHANGED <<waiting, running, status, indexVars, startOn>>
      PROVE  Placed(t)'
    BY <1>1, <1>2 DEF OnRunningList
<1>3. CASE UNCHANGED vars \/ Tick
    BY <1>2, <1>3 DEF vars, storeVars, taskVars, Tick
<1>4. CASE ClientNext
    <2>1. ASSUME NEW u \in Tasks, NEW ts \in Times,
                 Enqueue(u, ts) \/ ChangeStart(u, ts)
          PROVE  Placed(t)'
        <3>1. /\ UNCHANGED <<waiting, running, status, indexVars>>
              /\ startOn' = [startOn EXCEPT ![u] = ts]
              /\ u = t => t \in OneShot
            BY <2>1 DEF Enqueue, ChangeStart
        <3> QED
            BY <1>0, <1>1, <3>1 DEF OnRunningList, StoreTypeOK
    <2>2. ASSUME NEW u \in Tasks, RunFailed(u)
          PROVE  Placed(t)'
        <3>1. /\ waiting' = waiting \cup {<<now, u>>}
              /\ status' = [status EXCEPT ![u] = "queued"]
              /\ startOn' = [startOn EXCEPT ![u] = now]
              /\ failedIndex' = failedIndex \ {Entry(u)}
              /\ UNCHANGED <<running, finishedIndex>>
              /\ now \in Times
            BY <2>2 DEF RunFailed, FailedAfter
        <3>2. CASE u = t
            BY <3>1, <3>2 DEF Placed, Waits
        <3>3. CASE u # t
            <4>1. Entry(t) \in failedIndex => Entry(t) \in failedIndex'
                BY <3>1, <3>3 DEF Entry
            <4>2. status'[t] = status[t] /\ startOn'[t] = startOn[t]
                BY <1>0, <3>1, <3>3 DEF StoreTypeOK
            <4> QED
                BY <1>0, <3>1, <4>1, <4>2 DEF Placed, Waits, OnRunningList
        <3> QED
            BY <3>2, <3>3
    <2>3. CASE Shutdown \/ ClearSpool \/ \E u \in Tasks : RemoveAlarm(u) \/ AdminDelete(u)
        BY <1>2, <2>3 DEF Shutdown, ClearSpool, RemoveAlarm, AdminDelete, taskVars
    <2> QED
        BY <1>4, <2>1, <2>2, <2>3 DEF ClientNext
<1>5. CASE WorkerNext
    <2>1. PICK w \in Workers : WorkerStep(w) \/ PrepareFails(w) \/ Suicide(w)
        BY <1>5 DEF WorkerNext
    <2>2. UNCHANGED <<waiting, running, indexVars, startOn>>
        BY <2>1 DEF WorkerStep, Prepare, PrepareFails, Succeed, Fail, Suicide,
                    storeVars, taskVars
    <2>3. CASE Prepare(w)
        <3>1. job[w] \in Tasks /\ status[job[w]] = "queued"
            BY <1>0, <2>3
            DEF Prepare, TypeInv, LocalsOK, Hands, AwaitedIsQueued, Awaited,
                Starting, QueuedStatus
        <3>2. \/ status' = [status EXCEPT ![job[w]] = "running"]
              \/ status' = status
            BY <2>3 DEF Prepare
        <3>3. status[t] = "terminated" => status'[t] = "terminated"
            BY <1>0, <3>1, <3>2 DEF StoreTypeOK
        <3> QED
            BY <1>1, <2>2, <3>3 DEF OnRunningList
    <2>4. CASE Suicide(w)
        <3>1. status' = [status EXCEPT ![job[w]] = "terminated"]
            BY <2>4 DEF Suicide
        <3>2. status[t] = "terminated" => status'[t] = "terminated"
            BY <1>0, <3>1 DEF StoreTypeOK
        <3> QED
            BY <1>1, <2>2, <3>2 DEF OnRunningList
    <2>5. CASE Succeed(w) \/ Fail(w) \/ PrepareFails(w)
        BY <1>2, <2>2, <2>5 DEF Succeed, Fail, PrepareFails, storeVars, taskVars
    <2> QED
        BY <2>1, <2>3, <2>4, <2>5 DEF WorkerStep
<1>6. CASE \/ Start \/ RelaunchDone \/ BeginLoop \/ PopSpool \/ ExecDelete
           \/ DeleteRaises \/ ExecShutdown \/ FinishedDone
           \/ StartWorker \/ NothingDue \/ Idle \/ AwolRaises \/ AwolDone \/ Crash
           \/ MarkDead
    BY <1>2, <1>6
    DEF Start, RelaunchDone, BeginLoop, PopSpool, ExecDelete, DeleteRaises,
        ExecShutdown, FinishedDone, StartWorker, NothingDue, Idle, AwolRaises,
        AwolDone, Crash, MarkDead, storeVars, taskVars
<1>7. CASE RelaunchItem
    BY <1>0, <1>7 DEF RelaunchItem, Hands, RelaunchNoted
<1>8. CASE ExecAdd
    <2>1. /\ waiting \subseteq waiting' /\ UNCHANGED <<running, indexVars, startOn>>
          /\ cmd.task \in Tasks /\ ToAdd(cmd.task)
          /\ \A u \in Tasks \ {cmd.task} : status'[u] = status[u]
        BY <1>0, <1>8, ExecutingType
        DEF ExecAdd, Executing, ToAdd, Spooled, StoreTypeOK
    <2>2. status[cmd.task] = "none"
        BY <1>0, <2>1 DEF Hands, FreshHasNone
    <2> QED
        BY <1>1, <2>1, <2>2 DEF OnRunningList
<1>9. CASE ExecChange
    <2>1. /\ cmd.task \in Tasks
          /\ waiting' = Rebinned(cmd.task, <<cmd.ts, cmd.task>>)
          /\ UNCHANGED <<running, indexVars, startOn, status>>
        BY <1>0, <1>9, ExecutingType DEF ExecChange, taskVars
    <2>2. CASE cmd.task # t
        <3>1. Waits(t) => Waits(t)'
            BY <2>1, <2>2 DEF Rebinned, Waits
        <3> QED
            BY <1>0, <2>1, <3>1 DEF Placed, OnRunningList, indexVars
    <2>3. CASE cmd.task = t /\ startOn[t] # Never
        <3>1. Waits(t) => Waits(t)'
            BY <1>0, <2>1, <2>3 DEF Rebinned, Enqueued, Bin, Waits, StoreTypeOK
        <3> QED
            BY <1>0, <2>1, <3>1 DEF Placed, OnRunningList, indexVars
    <2>4. CASE startOn[t] = Never
        BY <1>0, <2>1, <2>4 DEF HeldHasDate, Placed, Tasks
    <2> QED
        BY <2>2, <2>3, <2>4
<1>10. CASE DeleteMove
    <2>1. /\ cmd.task \in Tasks /\ cmd.op = "del"
          /\ MoveTask(cmd.task, oldStatus, "none")
          /\ UNCHANGED <<startOn, status>>
        BY <1>0, <1>10
        DEF DeleteMove, TypeInv, LocalsOK, TaskCommands, CmdAtExec, taskVars
    <2>2. cmd.task # t
        BY <1>0, <2>1 DEF DelsAreReleased, Spooled
    <2> QED
        BY <1>0, <2>1, <2>2, MoveSpares
<1>11. CASE SetTaskRunning
    <2>1. PICK e \in waiting : /\ waiting' = waiting \ {e}
                               /\ running' = Append(running, e[2])
        BY <1>11 DEF SetTaskRunning, TakenFromBin
    <2>2. PICK x \in Times, u \in Tasks : e = <<x, u>>
        BY <1>0, <2>1 DEF StoreTypeOK
    <2>3. /\ OnRunningList(t) => OnRunningList(t)'
          /\ OnRunningList(u)'
        <3>1. running \in Seq(Tasks) /\ running' = Append(running, u)
            BY <1>0, <2>1, <2>2 DEF StoreTypeOK
        <3>2. /\ Len(running) \in Nat /\ DOMAIN running = 1 .. Len(running)
              /\ DOMAIN running' = 1 .. Len(running) + 1
              /\ \A i \in 1 .. Len(running) : running'[i] = running[i]
              /\ running'[Len(running) + 1] = u
            BY <3>1, AppendProperties, LenProperties
        <3>3. Len(running) + 1 \in DOMAIN running'
            BY <3>2
        <3>4. \A i \in DOMAIN running : i \in DOMAIN running'
            BY <3>2
        <3> QED
            BY <3>2, <3>3, <3>4 DEF OnRunningList
    <2>4. u # t => (Waits(t) => Waits(t)')
        BY <2>1, <2>2 DEF Waits
    <2>5. UNCHANGED <<status, startOn, indexVars>>
        BY <1>11 DEF SetTaskRunning
    <2> QED
        BY <1>0, <2>3, <2>4, <2>5 DEF Placed, indexVars
<1>12. CASE AwolTerminate
    <2>1. PICK i \in DOMAIN running :
             /\ MoveTask(running[i], "running", "terminated")
             /\ status' = [status EXCEPT ![running[i]] = "terminated"]
        BY <1>12 DEF AwolTerminate
    <2>2. PICK u \in Tasks : u = running[i]
        BY <1>0, <2>1, ElementOfSeq DEF StoreTypeOK
    <2>3. CASE u = t
        BY <1>0, <2>1, <2>2, <2>3 DEF Placed, StoreTypeOK
    <2>4. CASE u # t
        BY <1>0, <1>12, <2>1, <2>2, <2>4, MoveSpares DEF AwolTerminate, StoreTypeOK
    <2> QED
        BY <2>3, <2>4
<1>13. ASSUME NEW u \in Tasks, Notify(u) \/ NotifyConflict(u)
       PROVE  Placed(t)'
    <2>1. CASE NotifyTerminated(u)
        <3>1. /\ UNCHANGED <<waiting, indexVars, status, startOn>>
              /\ running' = RunningAfter(u, "running") /\ status[u] = "terminated"
            BY <2>1 DEF NotifyTerminated, Terminated
        <3>2. u # t /\ OnRunningList(t) => OnRunningList(t)'
            BY <1>0, <3>1, RunningSpares
        <3> QED
            BY <1>0, <3>1, <3>2 DEF Placed, Waits, indexVars
    <2>2. CASE NotifyOneShot(u)
        <3>1. /\ MoveTask(u, "running", Outcome(u)) /\ u \in OneShot
              /\ UNCHANGED startOn
              /\ status' = [status EXCEPT ![u] = Outcome(u)]
            BY <2>2 DEF NotifyOneShot
        <3>2. CASE u = t
            <4>1. Entry(t) \in failedIndex' \cup finishedIndex'
                BY <3>1, <3>2 DEF MoveTask, Outcome, FailedAfter, FinishedAfter
            <4> QED
                BY <1>0, <3>1, <3>2, <4>1 DEF Placed
        <3>3. CASE u # t
            BY <1>0, <3>1, <3>3, MoveSpares DEF StoreTypeOK
        <3> QED
            BY <3>2, <3>3
    <2>3. CASE NotifyPeriodic(u)
        <3>1. PICK ts \in Times \cup {Never} :
                 /\ startOn' = [startOn EXCEPT ![u] = ts]
                 /\ waiting' = waiting \cup Bin(ts, u)
                 /\ status' = [status EXCEPT ![u] = StatusQueued(ts, Outcome(u))]
            BY <2>3 DEF NotifyPeriodic, NextOccurrences
        <3>2. CASE u = t /\ ts # Never
            BY <3>1, <3>2 DEF Bin, Placed, Waits
        <3>3. CASE u = t /\ ts = Never
            BY <1>0, <2>3, <3>1, <3>3 DEF NotifyPeriodic, Placed, StoreTypeOK
        <3>4. CASE u # t
            <4>1. OnRunningList(t) => OnRunningList(t)'
                BY <1>0, <2>3, <3>4, RunningSpares DEF NotifyPeriodic
            <4>2. /\ failedIndex \subseteq failedIndex'
                  /\ finishedIndex \subseteq finishedIndex'
                BY <2>3 DEF NotifyPeriodic, FailedAfter, FinishedAfter
            <4>3. status'[t] = status[t] /\ startOn'[t] = startOn[t]
                BY <1>0, <3>1, <3>4 DEF StoreTypeOK
            <4> QED
                BY <1>0, <3>1, <4>1, <4>2, <4>3 DEF Placed, Waits
        <3> QED
            BY <3>1, <3>2, <3>3, <3>4
    <2>4. CASE NotifyDeleted(u) \/ NotifyConflict(u)
        <3>1. /\ waiting \subseteq waiting'
              /\ UNCHANGED <<running, indexVars, startOn>>
              /\ status[u] # "terminated"
              /\ \A v \in Tasks \ {u} : status'[v] = status[v]
            BY <1>0, <2>4 DEF NotifyDeleted, NotifyConflict, Terminated, StoreTypeOK
        <3> QED
            BY <1>1, <3>1 DEF OnRunningList
    <2> QED
        BY <1>13, <2>1, <2>2, <2>3, <2>4 DEF Notify
<1> QED
    BY <1>3, <1>4, <1>5, <1>6, <1>7, <1>8, <1>9, <1>10, <1>11, <1>12, <1>13
    DEF Next, DaemonNext, DaemonStep


\* A task gets its owner with the command that takes it to the queue.
LEMMA HeldStep ==
    ASSUME TypeInv, [Next]_vars, NEW t \in Tasks, owner'[t] = "held"
    PROVE  owner[t] = "held" \/ \E ts \in Times : Enqueue(t, ts) /\ UNCHANGED cmd
<1>0. owner \in [Tasks -> {"new", "held", "released"}]
    BY DEF TypeInv, TypeOK, ClientTypeOK
<1>1. CASE UNCHANGED vars \/ Tick
    BY <1>1 DEF vars, clientVars, Tick
<1>2. CASE ClientNext /\ UNCHANGED <<workerVars, daemonVars>>
    BY <1>0, <1>2
    DEF ClientNext, Enqueue, ChangeStart, RemoveAlarm, AdminDelete, RunFailed,
        Shutdown, ClearSpool, daemonVars
<1>3. CASE WorkerNext
    BY <1>0, <1>3
    DEF WorkerNext, WorkerStep, Prepare, PrepareFails, Succeed, Fail, Suicide,
        clientVars
<1>4. CASE DaemonNext
    BY <1>4
    DEF clientVars, DaemonNext, DaemonStep, RelaunchItem, RelaunchDone, BeginLoop,
        PopSpool, ExecAdd, ExecChange, ExecDelete, DeleteMove, DeleteRaises,
        ExecShutdown, Notify, NotifyTerminated, NotifyOneShot, NotifyPeriodic,
        NotifyDeleted, Collect, FinishedDone, SetTaskRunning, StartWorker,
        NothingDue, Idle, AwolTerminate, AwolRaises, AwolDone, Start, MarkDead,
        Crash, NotifyConflict
<1> QED
    BY <1>1, <1>2, <1>3, <1>4 DEF Next

\* What is taken from the spool is put in the queue.
LEMMA AddedIsPlaced ==
    ASSUME TypeInv, HeldHasDate, NEW t \in Tasks, owner[t] = "held",
           ExecAdd, cmd.task = t
    PROVE  Placed(t)'
<1>1. UNCHANGED startOn /\ Enqueued(t) \subseteq waiting'
    BY DEF ExecAdd
<1>2. CASE startOn[t] = Never
    BY <1>1, <1>2 DEF HeldHasDate, Placed, Tasks
<1>3. CASE startOn[t] # Never
    BY <1>1, <1>3
    DEF Enqueued, Bin, Placed, Waits, TypeInv, TypeOK, StoreTypeOK
<1> QED
    BY <1>2, <1>3

LEMMA LostNext ==
    ASSUME {"clearSpool", "crash", "adminDelete"} \cap Events = {},
           Sound, Kept, NoTaskLost, [Next]_vars
    PROVE  NoTaskLost'
<1> SUFFICES ASSUME ~relaunched', NEW t \in Tasks, owner'[t] = "held"
             PROVE  Located(t)'
    BY DEF NoTaskLost
<1>0. /\ TypeInv /\ StoreTypeOK /\ Placement /\ Hands /\ ~relaunched
      /\ CmdAtExec /\ HeldHasDate
    BY RelaunchedStays DEF Sound, Kept, TypeInv, TypeOK
<1>1. Placed(t)' => Located(t)'
    <2>1. Waits(t)' => Bins(t)' # {}
        BY DEF Waits, Bins
    <2> QED
        BY <2>1 DEF Placed, Located
<1>2. ASSUME Sent' = Sent \cup {Command("add", t, Never)}
      PROVE  Located(t)'
    <2>1. \E c \in Sent' : c.op = "add" /\ c.task = t
        <3>1. Command("add", t, Never) \in Sent'
            BY <1>2
        <3>2. /\ Command("add", t, Never).op = "add"
              /\ Command("add", t, Never).task = t
            BY DEF Command
        <3> QED
            BY <3>1, <3>2
    <2>2. Spooled("add", t)'
        BY <2>1 DEF Spooled, Sent
    <2> QED
        BY <2>2 DEF Located
<1>3. CASE owner[t] = "held"
    <2>1. Spooled("add", t) \/ Placed(t)
        BY <1>0, <1>3, LocatedIsPlaced DEF NoTaskLost
    <2>2. CASE Placed(t)
        BY <1>0, <1>1, <1>3, <2>2, PlacedStays
    <2>3. CASE Spooled("add", t)
        <3>1. PICK c \in Sent : c.op = "add" /\ c.task = t
            BY <2>3, SpooledIsSent
        <3>2. CASE c \in Sent'
            BY <3>1, <3>2 DEF Located, Spooled, Sent
        <3>3. CASE c = cmd /\ (ExecAdd \/ ExecChange)
            <4>1. ExecAdd /\ cmd.task = t
                BY <3>1, <3>3 DEF ExecChange, Executing
            <4> QED
                BY <1>0, <1>1, <1>3, <4>1, AddedIsPlaced
        <3> QED
            BY <1>0, <3>1, <3>2, <3>3, SentStays
    <2> QED
        BY <2>1, <2>2, <2>3
<1>4. CASE \E ts \in Times : Enqueue(t, ts) /\ UNCHANGED cmd
    BY <1>0, <1>2, <1>4, CommandTypes, SentAppend DEF Enqueue
<1> QED
    BY <1>0, <1>3, <1>4, HeldStep

\* No task is lost between its owner and its end: it is on its way in the spool,
\* waits, is on the running list, or has its final place.  Commands that are
\* thrown away, crashes, and deletions of tasks the owner still holds are the
\* three ways to lose one.
THEOREM NoTaskLostCorrect ==
    ASSUME {"clearSpool", "crash", "adminDelete"} \cap Events = {}
    PROVE  Spec => []NoTaskLost
<1>1. Init => Kept /\ NoTaskLost
    <2> SUFFICES ASSUME Init PROVE Kept /\ NoTaskLost
        OBVIOUS
    <2>1. /\ spool = <<>> /\ cmd = NoCmd
          /\ \A t \in Tasks : owner[t] = "new"
        BY DEF Init, StoreInit, ClientInit, DaemonInit
    <2>2. Kept
        BY <2>1 DEF Kept, CmdAtExec, DelsAreReleased, Spooled, HeldHasDate, NoCmd,
                    Command, Tasks
    <2>3. NoTaskLost
        BY <2>1 DEF NoTaskLost
    <2> QED
        BY <2>2, <2>3
<1>2. Sound /\ Kept /\ NoTaskLost /\ [Next]_vars => (Kept /\ NoTaskLost)'
    <2> SUFFICES ASSUME Sound, Kept, NoTaskLost, [Next]_vars
                 PROVE  Kept' /\ NoTaskLost'
        OBVIOUS
    <2>1. Kept'
        BY CmdAtExecNext, DelsNext, HeldHasDateNext DEF Kept, Sound
    <2> QED
        BY <2>1, LostNext
<1>3. Kept /\ NoTaskLost => NoTaskLost
    OBVIOUS
<1> QED
    BY <1>1, <1>2, <1>3, SoundAlways, PTL DEF Spec

===============================================================================
