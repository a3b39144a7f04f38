---------------------------- MODULE SchedulerProofs ---------------------------
(***************************************************************************)
(* Invariants of the scheduler, for any set of tasks and workers, any      *)
(* bounds and either multitask mode.                                       *)
(***************************************************************************)
EXTENDS Scheduler, SequenceTheorems, FiniteSetTheorems, WellFoundedInduction,
        TLAPS

-------------------------------------------------------------------------------
(* What Python's list.remove does, for any list *)

\* The library defines Min by CHOOSE: a set of naturals that is not empty has one.
LEMMA MinOfNats ==
    ASSUME NEW I \in SUBSET Nat, I # {}
    PROVE  Min(I) \in I
<1>1. PICK x \in I : \A y \in I : ~ (<<y, x>> \in OpToRel(<, Nat))
    BY WFMin, NatLessThanWellFounded
<1>2. \A y \in I : x <= y
    <2> TAKE y \in I
    <2>1. x \in Nat /\ y \in Nat
        OBVIOUS
    <2>2. ~ (y < x)
        BY <1>1, <2>1 DEF OpToRel
    <2> QED
        BY <2>1, <2>2
<1> QED
    BY <1>2 DEF Min

\* list.remove takes one item out and leaves the others in their order.
LEMMA RemoveFirstProperties ==
    ASSUME NEW S, NEW s \in Seq(S), NEW e
    PROVE  \/ /\ \A i \in DOMAIN s : s[i] # e
              /\ RemoveFirst(s, e) = s
           \/ \E k \in DOMAIN s :
                 /\ s[k] = e
                 /\ RemoveFirst(s, e) \in Seq(S)
                 /\ DOMAIN RemoveFirst(s, e) = 1 .. Len(s) - 1
                 /\ \A i \in 1 .. Len(s) - 1 :
                       RemoveFirst(s, e)[i] = IF i < k THEN s[i] ELSE s[i + 1]
<1>0. Len(s) \in Nat /\ DOMAIN s = 1 .. Len(s) /\ \A i \in DOMAIN s : s[i] \in S
    BY LenProperties
<1>1. CASE \A i \in 1 .. Len(s) : s[i] # e
    BY <1>0, <1>1 DEF RemoveFirst
<1>2. CASE ~ \A i \in 1 .. Len(s) : s[i] # e
    <2> DEFINE I == {i \in 1 .. Len(s) : s[i] = e}
               k == Min(I)
               u == SubSeq(s, 1, k - 1)
               v == SubSeq(s, k + 1, Len(s))
    <2>1. I \in SUBSET Nat /\ I # {}
        BY <1>0, <1>2
    <2>2. k \in I
        BY <2>1, MinOfNats
    <2>3. SelectInSeq(s, LAMBDA w : w = e) = k
        BY <2>1 DEF SelectInSeq
    <2>4. RemoveFirst(s, e) = u \o v
        BY <1>2, <2>3 DEF RemoveFirst, RemoveAt
    <2> HIDE DEF I, k
    <2>5. k \in 1 .. Len(s) /\ s[k] = e
        BY <2>2 DEF I
    <2>6. u \in Seq(S) /\ Len(u) = k - 1 /\ \A i \in 1 .. k - 1 : u[i] = s[i]
        <3>1. 1 \in Int /\ k - 1 \in Int /\ \A i \in 1 .. k - 1 : s[i] \in S
            BY <1>0, <2>5
        <3>2. /\ u \in Seq(S) /\ Len(u) = IF 1 <= k - 1 THEN (k - 1) - 1 + 1 ELSE 0
              /\ \A i \in 1 .. (k - 1) - 1 + 1 : u[i] = s[1 + i - 1]
            BY <3>1, SubSeqProperties
        <3> HIDE DEF u
        <3> QED
            BY <2>5, <1>0, <3>2
    <2>7. /\ v \in Seq(S) /\ Len(v) = Len(s) - k
          /\ \A i \in 1 .. Len(s) - k : v[i] = s[k + i]
        <3>1. /\ k + 1 \in Int /\ Len(s) \in Int
              /\ \A i \in k + 1 .. Len(s) : s[i] \in S
            BY <1>0, <2>5
        <3>2. /\ v \in Seq(S)
              /\ Len(v) = IF k + 1 <= Len(s) THEN Len(s) - (k + 1) + 1 ELSE 0
              /\ \A i \in 1 .. Len(s) - (k + 1) + 1 : v[i] = s[k + 1 + i - 1]
            BY <3>1, SubSeqProperties
        <3> HIDE DEF v
        <3>3. Len(s) - (k + 1) + 1 = Len(s) - k
            BY <1>0, <2>5
        <3>4. \A i \in 1 .. Len(s) - k : k + 1 + i - 1 = k + i
            BY <1>0, <2>5
        <3>5. \A i \in 1 .. Len(s) - k : v[i] = s[k + i]
            BY <3>2, <3>3, <3>4, Zenon
        <3>6. Len(v) = Len(s) - k
            <4>1. Len(v) = IF k + 1 <= Len(s) THEN Len(s) - (k + 1) + 1 ELSE 0
                BY <3>2
            <4>2. k \in Int /\ Len(s) \in Int /\ k <= Len(s)
                BY <1>0, <2>5
            <4> QED
                BY <4>1, <4>2
        <3> QED
            BY <3>2, <3>5, <3>6
    <2> HIDE DEF u, v
    <2>8. /\ u \o v \in Seq(S)
          /\ Len(u \o v) = Len(s) - 1
          /\ \A i \in 1 .. Len(s) - 1 :
                (u \o v)[i] = IF i <= k - 1 THEN u[i] ELSE v[i - (k - 1)]
        <3>1. /\ u \o v \in Seq(S)
              /\ Len(u \o v) = Len(u) + Len(v)
              /\ \A i \in 1 .. Len(u) + Len(v) :
                    (u \o v)[i] = IF i <= Len(u) THEN u[i] ELSE v[i - Len(u)]
            BY <2>6, <2>7, ConcatProperties
        <3>2. Len(u) + Len(v) = Len(s) - 1
            BY <1>0, <2>5, <2>6, <2>7
        <3> QED
            BY <2>6, <3>1, <3>2
    <2>9. \A i \in 1 .. Len(s) - 1 :
             (u \o v)[i] = IF i < k THEN s[i] ELSE s[i + 1]
        BY <1>0, <2>5, <2>6, <2>7, <2>8
    <2> QED
        BY <1>0, <2>4, <2>5, <2>8, <2>9, LenProperties
<1> QED
    BY <1>1, <1>2

\* RemoveFirst stays within the type of the list and adds nothing to it.
LEMMA RemoveFirstSubset ==
    ASSUME NEW S, NEW s \in Seq(S), NEW e
    PROVE  /\ RemoveFirst(s, e) \in Seq(S)
           /\ \A i \in DOMAIN RemoveFirst(s, e) :
                 \E j \in DOMAIN s : RemoveFirst(s, e)[i] = s[j]
<1> DEFINE r == RemoveFirst(s, e)
<1>1. Len(s) \in Nat /\ DOMAIN s = 1 .. Len(s)
    BY LenProperties
<1>2. CASE \E k \in DOMAIN s :
              /\ r \in Seq(S)
              /\ DOMAIN r = 1 .. Len(s) - 1
              /\ \A i \in 1 .. Len(s) - 1 : r[i] = IF i < k THEN s[i] ELSE s[i + 1]
    <2>1. PICK k \in DOMAIN s :
              /\ r \in Seq(S)
              /\ DOMAIN r = 1 .. Len(s) - 1
              /\ \A i \in 1 .. Len(s) - 1 : r[i] = IF i < k THEN s[i] ELSE s[i + 1]
        BY <1>2
    <2> HIDE DEF r
    <2>2. \A i \in DOMAIN r : i \in DOMAIN s /\ i + 1 \in DOMAIN s
        BY <1>1, <2>1
    <2>3. \A i \in DOMAIN r : r[i] = s[i] \/ r[i] = s[i + 1]
        BY <2>1
    <2> QED
        BY <2>1, <2>2, <2>3 DEF r
<1>3. CASE r = s
    BY <1>3
<1>4. \/ r = s
      \/ \E k \in DOMAIN s :
            /\ s[k] = e
            /\ r \in Seq(S)
            /\ DOMAIN r = 1 .. Len(s) - 1
            /\ \A i \in 1 .. Len(s) - 1 : r[i] = IF i < k THEN s[i] ELSE s[i + 1]
    BY RemoveFirstProperties
<1> HIDE DEF r
<1> QED
    BY <1>2, <1>3, <1>4 DEF r

\* Among the items of K, a list without duplicates stays one, and no longer has
\* the item that was removed.
LEMMA RemoveFirstDistinct ==
    ASSUME NEW S, NEW s \in Seq(S), NEW e, NEW K,
           NEW r, r = RemoveFirst(s, e),
           \A i, j \in DOMAIN s : s[i] = s[j] /\ s[i] \in K => i = j
    PROVE  /\ \A i, j \in DOMAIN r : r[i] = r[j] /\ r[i] \in K => i = j
           /\ e \in K => \A i \in DOMAIN r : r[i] # e
<1>1. Len(s) \in Nat /\ DOMAIN s = 1 .. Len(s)
    BY LenProperties
<1>2. CASE \A i \in DOMAIN s : s[i] # e
    BY <1>2, RemoveFirstProperties
<1>3. CASE \E i \in DOMAIN s : s[i] = e
    <2>0. PICK m \in DOMAIN s : s[m] = e
        BY <1>3
    <2>1. PICK k \in DOMAIN s :
             /\ s[k] = e
             /\ DOMAIN r = 1 .. Len(s) - 1
             /\ \A i \in 1 .. Len(s) - 1 : r[i] = IF i < k THEN s[i] ELSE s[i + 1]
        BY <2>0, RemoveFirstProperties
    <2> DEFINE from(i) == IF i < k THEN i ELSE i + 1
    <2>2. \A i \in DOMAIN r : from(i) \in DOMAIN s /\ from(i) # k /\ r[i] = s[from(i)]
        BY <1>1, <2>1
    <2>3. \A i, j \in DOMAIN r : from(i) = from(j) => i = j
        BY <1>1, <2>1
    <2> HIDE DEF from
    <2>4. \A i, j \in DOMAIN r : r[i] = r[j] /\ r[i] \in K => i = j
        BY <2>2, <2>3
    <2>5. e \in K => \A i \in DOMAIN r : r[i] # e
        BY <2>1, <2>2
    <2> QED
        BY <2>4, <2>5
<1> QED
    BY <1>2, <1>3

\* The other items are still in the list.
LEMMA RemoveFirstKeeps ==
    ASSUME NEW S, NEW s \in Seq(S), NEW e, NEW m \in DOMAIN s, s[m] # e
    PROVE  \E i \in DOMAIN RemoveFirst(s, e) : RemoveFirst(s, e)[i] = s[m]
<1> DEFINE r == RemoveFirst(s, e)
<1>1. Len(s) \in Nat /\ DOMAIN s = 1 .. Len(s)
    BY LenProperties
<1>2. CASE r = s
    BY <1>2
<1>3. CASE r # s
    <2>1. PICK k \in DOMAIN s :
             /\ s[k] = e
             /\ DOMAIN r = 1 .. Len(s) - 1
             /\ \A i \in 1 .. Len(s) - 1 : r[i] = IF i < k THEN s[i] ELSE s[i + 1]
        BY <1>3, RemoveFirstProperties
    <2> HIDE DEF r
    <2>2. CASE m < k
        <3>1. m \in DOMAIN r /\ r[m] = s[m]
            BY <1>1, <2>1, <2>2
        <3> QED
            BY <3>1 DEF r
    <2>3. CASE m > k
        <3>1. m - 1 \in DOMAIN r /\ r[m - 1] = s[m]
            BY <1>1, <2>1, <2>3
        <3> QED
            BY <3>1 DEF r
    <2>4. m # k
        BY <2>1
    <2> QED
        BY <1>1, <2>1, <2>2, <2>3, <2>4
<1> QED
    BY <1>2, <1>3

-------------------------------------------------------------------------------
(* Types *)

\* What the daemon's local variables and the workers' slots refer to while they
\* are in use.
LocalsOK ==
    /\ pc = "delete" => cmd \in TaskCommands
    /\ pc = "start" => launching \in Tasks
    /\ \A w \in Workers : phase[w] # "free" => job[w] \in Tasks

TypeInv == TypeOK /\ LocalsOK

\* A bin of a task is made of a date and that task.
LEMMA BinType ==
    ASSUME NEW t \in Tasks, NEW ts \in Times \cup {Never}
    PROVE  Bin(ts, t) \subseteq Times \X Tasks
BY DEF Bin

\* addTaskToWaitingQueue adds pairs of a date and a task only.
LEMMA EnqueuedType ==
    ASSUME StoreTypeOK, NEW t \in Tasks
    PROVE  Enqueued(t) \subseteq Times \X Tasks
<1>1. startOn[t] \in Times \cup {Never}
    BY DEF StoreTypeOK
<1> QED
    BY <1>1, BinType DEF Enqueued

\* changeTaskStartDate keeps the type of the waiting queue.
LEMMA RebinnedType ==
    ASSUME StoreTypeOK, NEW t \in Tasks, NEW old
    PROVE  Rebinned(t, old) \subseteq Times \X Tasks
BY EnqueuedType DEF StoreTypeOK, Rebinned

\* A command put in the spool keeps its type.
LEMMA SpoolType ==
    ASSUME StoreTypeOK, NEW c \in Commands, SpoolCommand(c)
    PROVE  spool' \in Seq(Commands)
BY AppendProperties DEF StoreTypeOK, SpoolCommand

\* moveTask keeps the running list a list of tasks.
LEMMA RunningAfterType ==
    ASSUME StoreTypeOK, NEW t, NEW from
    PROVE  RunningAfter(t, from) \in Seq(Tasks)
BY RemoveFirstSubset DEF StoreTypeOK, RunningAfter

\* moveTask keeps the type of the two indexes.
LEMMA EntriesType ==
    ASSUME StoreTypeOK, NEW t \in Tasks, NEW n \in Nat, NEW from, NEW to
    PROVE  /\ FailedAfter(from, to, <<t, n>>) \subseteq Tasks \X Nat
           /\ FinishedAfter(to, <<t, n>>) \subseteq Tasks \X Nat
BY DEF StoreTypeOK, FailedAfter, FinishedAfter

\* moveTask keeps the type of every container.
LEMMA MoveTaskType ==
    ASSUME StoreTypeOK, NEW t \in Tasks, NEW from, NEW to, MoveTask(t, from, to)
    PROVE  /\ running' \in Seq(Tasks)
           /\ waiting' \subseteq Times \X Tasks
           /\ failedIndex' \subseteq Tasks \X Nat
           /\ finishedIndex' \subseteq Tasks \X Nat
<1>1. waiting' \subseteq Times \X Tasks
    BY EnqueuedType DEF StoreTypeOK, MoveTask, WaitingAfter
<1>2. Entry(t) = <<t, 0>> /\ 0 \in Nat
    BY DEF Entry
<1> QED
    BY <1>1, <1>2, RunningAfterType, EntriesType DEF MoveTask

WorkerSlotsOK ==
    /\ phase \in [Workers -> {"free", "starting", "running", "dead"}]
    /\ job \in [Workers -> Tasks \cup {NoTask}]
    /\ result \in [Workers -> BOOLEAN]
    /\ \A w \in Workers : phase[w] # "free" => job[w] \in Tasks

\* Freeing the slots of some workers keeps the type of the slots.
LEMMA KeepType ==
    ASSUME WorkerSlotsOK, NEW S, Keep(S)
    PROVE  WorkerSlotsOK'
<1>1. phase' \in [Workers -> {"free", "starting", "running", "dead"}]
    BY DEF WorkerSlotsOK, Keep
<1>2. job' \in [Workers -> Tasks \cup {NoTask}]
    BY DEF WorkerSlotsOK, Keep
<1>3. result' \in [Workers -> BOOLEAN]
    BY Zenon DEF WorkerSlotsOK, Keep
<1>4. \A w \in Workers : phase'[w] # "free" => job'[w] \in Tasks
    BY DEF WorkerSlotsOK, Keep
<1> QED
    BY <1>1, <1>2, <1>3, <1>4 DEF WorkerSlotsOK

\* The end of a worker keeps the type of the slots.
LEMMA DieType ==
    ASSUME WorkerSlotsOK, NEW w \in Workers, NEW res \in BOOLEAN,
           phase[w] # "free", Die(w, res)
    PROVE  WorkerSlotsOK' /\ UNCHANGED runningWorkers
<1>1. CASE Tracked(w)
    BY <1>1 DEF WorkerSlotsOK, Die
<1>2. CASE ~Tracked(w)
    BY <1>2, KeepType DEF Die
<1> QED
    BY <1>1, <1>2

\* The initial states have the right types.
LEMMA TypeInit == Init => TypeInv
<1> SUFFICES ASSUME Init
             PROVE  TypeInv
    OBVIOUS
<1>0. 0 \in 0 .. MaxTime
    BY StoreAssumption
<1>1. StoreTypeOK
    <2>1. repeat \in [Tasks -> BOOLEAN]
        <3>1. repeat = [t \in Tasks |-> t \in Periodic]
            BY DEF Init, StoreInit
        <3>2. \A t \in Tasks : repeat[t] \in BOOLEAN
            BY <3>1
        <3> QED
            BY <3>1, <3>2, Zenon
    <2>2. ended \in [Tasks -> BOOLEAN] /\ schedulerStatus \in BOOLEAN
        BY DEF Init, StoreInit
    <2>3. spool \in Seq(Commands) /\ running \in Seq(Tasks)
        BY EmptySeq DEF Init, StoreInit
    <2> QED
        BY <1>0, <2>1, <2>2, <2>3 DEF Init, StoreInit, StoreTypeOK, Statuses
<1>2. ClientTypeOK
    BY ClientAssumption DEF Init, ClientInit, ClientTypeOK
<1>3. WorkerTypeOK
    <2>1. result \in [Workers -> BOOLEAN] /\ relaunched \in BOOLEAN
        BY DEF Init, WorkerInit
    <2>2. runs \in [Tasks -> Nat]
        BY DEF Init, WorkerInit
    <2> QED
        BY <2>1, <2>2 DEF Init, WorkerInit, WorkerTypeOK
<1>4. DaemonTypeOK
    BY <1>0 DEF Init, DaemonInit, DaemonTypeOK, Statuses
<1>5. LocalsOK
    BY DEF Init, DaemonInit, WorkerInit, LocalsOK
<1> QED
    BY <1>1, <1>2, <1>3, <1>4, <1>5 DEF TypeInv, TypeOK

\* A disturbance is counted up to the bound.
LEMMA DisturbType ==
    ASSUME ClientTypeOK, NEW e, Disturb(e)
    PROVE  happened' \in 0 .. MaxEvents
BY ClientAssumption DEF ClientTypeOK, Disturb

\* The parts of TypeInv a step may leave alone.
LEMMA TypeUnchanged ==
    ASSUME TypeInv
    PROVE  /\ UNCHANGED storeVars => StoreTypeOK'
           /\ UNCHANGED clientVars => ClientTypeOK'
           /\ UNCHANGED workerVars => WorkerTypeOK' /\ WorkerSlotsOK'
           /\ UNCHANGED daemonVars => DaemonTypeOK'
BY DEF TypeInv, TypeOK, StoreTypeOK, ClientTypeOK, WorkerTypeOK, DaemonTypeOK,
       LocalsOK, WorkerSlotsOK, storeVars, indexVars, taskVars, clientVars,
       workerVars, historyVars, daemonVars

\* So do the states after a request of a client,
LEMMA TypeClient ==
    ASSUME TypeInv, ClientNext, UNCHANGED <<workerVars, daemonVars>>
    PROVE  TypeInv'
<1> USE DEF TypeInv, TypeOK
<1>1. WorkerTypeOK' /\ DaemonTypeOK' /\ LocalsOK'
    BY TypeUnchanged DEF LocalsOK, workerVars, daemonVars
<1>2. ASSUME NEW t \in Tasks, NEW ts \in Times, Enqueue(t, ts)
      PROVE  StoreTypeOK' /\ ClientTypeOK'
    <2>1. Command("add", t, Never) \in Commands
        BY DEF Command, Commands, TaskCommands
    <2>2. spool' \in Seq(Commands)
        BY <1>2, <2>1, SpoolType DEF Enqueue
    <2> QED
        BY <1>2, <2>2 DEF Enqueue, StoreTypeOK, ClientTypeOK, indexVars
<1>3. ASSUME NEW t \in Tasks, NEW ts \in Times, ChangeStart(t, ts)
      PROVE  StoreTypeOK' /\ ClientTypeOK'
    <2>1. Command("change", t, startOn[t]) \in Commands
        BY DEF StoreTypeOK, Command, Commands, TaskCommands
    <2>2. spool' \in Seq(Commands)
        BY <1>3, <2>1, SpoolType DEF ChangeStart
    <2> QED
        BY <1>3, <2>2, ClientAssumption
        DEF ChangeStart, Disturb, StoreTypeOK, ClientTypeOK, indexVars
<1>4. ASSUME NEW t \in Tasks, RemoveAlarm(t) \/ AdminDelete(t)
      PROVE  StoreTypeOK' /\ ClientTypeOK'
    <2>1. Command("del", t, Never) \in Commands
        BY DEF Command, Commands, TaskCommands
    <2>2. spool' \in Seq(Commands)
        BY <1>4, <2>1, SpoolType DEF RemoveAlarm, AdminDelete
    <2> QED
        <3>1. StoreTypeOK'
            BY <1>4, <2>2 DEF RemoveAlarm, AdminDelete, StoreTypeOK, indexVars,
                              taskVars
        <3>2. happened' \in 0 .. MaxEvents
            BY <1>4, DisturbType DEF RemoveAlarm, AdminDelete
        <3>3. owner' \in [Tasks -> {"new", "held", "released"}]
            BY <1>4 DEF RemoveAlarm, AdminDelete, ClientTypeOK
        <3> QED
            BY <3>1, <3>2, <3>3 DEF ClientTypeOK
<1>5. ASSUME NEW t \in Tasks, RunFailed(t)
      PROVE  StoreTypeOK' /\ ClientTypeOK'
    <2>1. failedIndex' \subseteq Tasks \X Nat
        BY <1>5, EntriesType DEF RunFailed, Entry
    <2>2. waiting' \subseteq Times \X Tasks
        BY <1>5 DEF RunFailed, StoreTypeOK
    <2> QED
        BY <1>5, <2>1, <2>2, ClientAssumption
        DEF RunFailed, Disturb, StoreTypeOK, ClientTypeOK, Statuses
<1>6. ASSUME Shutdown
      PROVE  StoreTypeOK' /\ ClientTypeOK'
    <2>1. Command("shutdown", NoTask, Never) \in Commands
        BY DEF Commands
    <2>2. spool' \in Seq(Commands)
        BY <1>6, <2>1, SpoolType DEF Shutdown
    <2>3. StoreTypeOK'
        BY <1>6, <2>2 DEF Shutdown, StoreTypeOK, indexVars, taskVars
    <2> QED
        BY <1>6, <2>3, ClientAssumption DEF Shutdown, Disturb, ClientTypeOK
<1>7. ASSUME ClearSpool
      PROVE  StoreTypeOK' /\ ClientTypeOK'
    BY <1>7, ClientAssumption, EmptySeq
    DEF ClearSpool, Disturb, StoreTypeOK, ClientTypeOK, indexVars, taskVars
<1> QED
    BY <1>1, <1>2, <1>3, <1>4, <1>5, <1>6, <1>7 DEF ClientNext

\* after a step of a worker,
LEMMA TypeWorker ==
    ASSUME TypeInv, WorkerNext, UNCHANGED daemonVars
    PROVE  TypeInv'
<1> USE DEF TypeInv, TypeOK
<1>1. WorkerSlotsOK
    BY DEF WorkerSlotsOK, WorkerTypeOK, LocalsOK
<1>2. SUFFICES StoreTypeOK' /\ ClientTypeOK' /\ WorkerTypeOK' /\ WorkerSlotsOK'
    BY TypeUnchanged DEF LocalsOK, WorkerSlotsOK, daemonVars
<1>3. ASSUME NEW w \in Workers, Prepare(w)
      PROVE  StoreTypeOK' /\ ClientTypeOK' /\ WorkerTypeOK' /\ WorkerSlotsOK'
    <2>1. job[w] \in Tasks
        BY <1>3, <1>1 DEF WorkerSlotsOK, Prepare
    <2>2. status' \in [Tasks -> Statuses]
        BY <1>3, <2>1 DEF Prepare, StoreTypeOK, Statuses
    <2>3. StoreTypeOK'
        BY <1>3, <2>2 DEF Prepare, StoreTypeOK, indexVars
    <2>4. WorkerTypeOK' /\ WorkerSlotsOK'
        BY <1>3, <2>1, <1>1 DEF Prepare, WorkerTypeOK, WorkerSlotsOK, historyVars
    <2> QED
        BY <1>3, <2>3, <2>4 DEF Prepare, ClientTypeOK, clientVars
<1>4. ASSUME NEW w \in Workers, PrepareFails(w)
      PROVE  StoreTypeOK' /\ ClientTypeOK' /\ WorkerTypeOK' /\ WorkerSlotsOK'
    <2>1. WorkerSlotsOK' /\ UNCHANGED runningWorkers
        BY <1>1, <1>4, DieType DEF PrepareFails
    <2>2. WorkerTypeOK'
        BY <1>4, <2>1 DEF PrepareFails, WorkerTypeOK, WorkerSlotsOK, historyVars
    <2> QED
        BY <1>4, <2>1, <2>2, TypeUnchanged, ClientAssumption
        DEF PrepareFails, Disturb, ClientTypeOK
<1>5. ASSUME NEW w \in Workers, Succeed(w)
      PROVE  StoreTypeOK' /\ ClientTypeOK' /\ WorkerTypeOK' /\ WorkerSlotsOK'
    <2>1. WorkerSlotsOK' /\ UNCHANGED runningWorkers
        BY <1>1, <1>5, DieType DEF Succeed
    <2>2. job[w] \in Tasks
        BY <1>5, <1>1 DEF WorkerSlotsOK, Succeed
    <2>3. runs' \in [Tasks -> Nat]
        BY <1>5, <2>2 DEF Succeed, WorkerTypeOK
    <2>4. WorkerTypeOK'
        BY <1>5, <2>1, <2>3 DEF Succeed, WorkerTypeOK, WorkerSlotsOK
    <2> QED
        BY <1>5, <2>1, <2>4
        DEF Succeed, StoreTypeOK, ClientTypeOK, indexVars, clientVars
<1>6. ASSUME NEW w \in Workers, Fail(w)
      PROVE  StoreTypeOK' /\ ClientTypeOK' /\ WorkerTypeOK' /\ WorkerSlotsOK'
    <2>1. ended[job[w]] \in BOOLEAN
        BY <1>1, <1>6 DEF Fail, StoreTypeOK, WorkerSlotsOK
    <2>2. WorkerSlotsOK' /\ UNCHANGED runningWorkers
        BY <1>1, <1>6, <2>1, DieType DEF Fail
    <2>3. WorkerTypeOK'
        BY <1>6, <2>2 DEF Fail, WorkerTypeOK, WorkerSlotsOK, historyVars
    <2> QED
        BY <1>6, <2>2, <2>3, TypeUnchanged DEF Fail
<1>7. ASSUME NEW w \in Workers, Suicide(w)
      PROVE  StoreTypeOK' /\ ClientTypeOK' /\ WorkerTypeOK' /\ WorkerSlotsOK'
    <2>1. job[w] \in Tasks
        BY <1>7, <1>1 DEF WorkerSlotsOK, Suicide
    <2>2. WorkerSlotsOK' /\ UNCHANGED runningWorkers
        BY <1>1, <1>7, DieType DEF Suicide
    <2>3. WorkerTypeOK'
        <3>1. runs' \in [Tasks -> Nat]
            BY <1>7, <2>1 DEF Suicide, WorkerTypeOK
        <3> QED
            BY <1>7, <2>2, <3>1 DEF Suicide, WorkerTypeOK, WorkerSlotsOK
    <2>4. Command("del", job[w], Never) \in Commands
        BY <2>1 DEF Command, Commands, TaskCommands
    <2>5. spool' \in Seq(Commands)
        BY <1>7, <2>4, SpoolType DEF Suicide
    <2>6. StoreTypeOK'
        BY <1>7, <2>1, <2>5 DEF Suicide, StoreTypeOK, indexVars, Statuses
    <2> QED
        BY <1>7, <2>2, <2>3, <2>6, DisturbType DEF Suicide, ClientTypeOK
<1> QED
    BY <1>3, <1>4, <1>5, <1>6, <1>7 DEF WorkerNext, WorkerStep

\* What the shared ends of the daemon's actions do to the types.
LEMMA DaemonLocalsType ==
    ASSUME TypeInv, NEW l \in {"down", "loop", "idle"}, DaemonLocals(l)
    PROVE  DaemonTypeOK' /\ pc' \notin {"delete", "start"}
<1>1. 0 \in 0 .. MaxTime
    BY StoreAssumption
<1> QED
    BY <1>1 DEF DaemonLocals, DaemonTypeOK, Statuses

\* The main loop goes to one of its places.
LEMMA GoToType ==
    ASSUME TypeInv, NEW l \in {"finished", "peek", "awol", "loop"}, GoTo(l)
    PROVE  DaemonTypeOK' /\ pc' \notin {"delete", "start"}
BY DEF TypeInv, TypeOK, GoTo, DaemonTypeOK

\* The daemon is done with a command.
LEMMA NextCommandType ==
    ASSUME TypeInv, NextCommand
    PROVE  DaemonTypeOK' /\ pc' \notin {"delete", "start"}
BY DEF TypeInv, TypeOK, NextCommand, DaemonTypeOK, Statuses

\* An exception leaves _processSpool.
LEMMA RaiseFromSpoolType ==
    ASSUME TypeInv, RaiseFromSpool
    PROVE  DaemonTypeOK' /\ pc' \notin {"delete", "start"}
BY DEF TypeInv, TypeOK, RaiseFromSpool, DaemonTypeOK, Statuses

\* The daemon's dictionary of workers is lost.
LEMMA ForgetWorkersType ==
    ASSUME TypeInv, NEW S, ForgetWorkers(S)
    PROVE  WorkerTypeOK' /\ WorkerSlotsOK'
<1>1. WorkerSlotsOK
    BY DEF TypeInv, TypeOK, WorkerTypeOK, LocalsOK, WorkerSlotsOK
<1>2. WorkerSlotsOK'
    BY <1>1, KeepType DEF ForgetWorkers
<1> QED
    BY <1>2 DEF TypeInv, TypeOK, ForgetWorkers, WorkerTypeOK, WorkerSlotsOK,
                historyVars

\* The daemon ends.
LEMMA QuitType ==
    ASSUME TypeInv, Quit
    PROVE  /\ DaemonTypeOK' /\ pc' \notin {"delete", "start"}
           /\ WorkerTypeOK' /\ WorkerSlotsOK'
           /\ schedulerStatus' \in BOOLEAN
BY DaemonLocalsType, ForgetWorkersType DEF Quit

\* A command of a given kind, once popped, is one of the spool's commands.
LEMMA ExecutingType ==
    ASSUME TypeInv, NEW op \in {"add", "del", "change"}, Executing(op)
    PROVE  cmd \in TaskCommands /\ cmd.task \in Tasks
BY DEF TypeInv, TypeOK, DaemonTypeOK, Executing, Commands, TaskCommands,
       Command, NoCmd

\* The steps of the daemon that leave the tasks and their containers alone.
LEMMA TypeControl ==
    ASSUME TypeInv,
           \/ Start \/ RelaunchDone \/ BeginLoop \/ PopSpool
           \/ DeleteRaises \/ ExecShutdown \/ FinishedDone \/ StartWorker
           \/ NothingDue \/ Idle \/ AwolRaises \/ AwolDone \/ Crash \/ MarkDead
    PROVE  TypeInv'
<1> USE DEF TypeInv, TypeOK
<1>0. WorkerSlotsOK
    BY DEF WorkerTypeOK, LocalsOK, WorkerSlotsOK
<1>1. ASSUME StoreTypeOK', ClientTypeOK', WorkerTypeOK', WorkerSlotsOK',
             DaemonTypeOK', pc' \notin {"delete", "start"}
      PROVE  TypeInv'
    BY <1>1 DEF LocalsOK, WorkerSlotsOK
<1>2. CASE Start
    <2>1. StoreTypeOK'
        BY <1>2 DEF Start, StoreTypeOK, indexVars, taskVars
    <2>2. ClientTypeOK'
        BY <1>2, TypeUnchanged DEF Start
    <2>3. WorkerTypeOK' /\ WorkerSlotsOK'
        <3>1. relaunched' \in BOOLEAN
            BY <1>2 DEF Start, WorkerTypeOK
        <3> QED
            BY <1>2, <1>0, <3>1 DEF Start, WorkerTypeOK, WorkerSlotsOK
    <2>4. DaemonTypeOK' /\ pc' = "relaunch"
        BY <1>2 DEF Start, DaemonTypeOK
    <2> QED
        BY <1>1, <2>1, <2>2, <2>3, <2>4
<1>3. CASE RelaunchDone
    BY <1>1, <1>3, TypeUnchanged, DaemonLocalsType DEF RelaunchDone
<1>4. CASE BeginLoop
    <2>1. DaemonTypeOK' /\ pc' = "spool"
        BY <1>4 DEF BeginLoop, DaemonTypeOK, StoreTypeOK
    <2> QED
        BY <1>1, <1>4, <2>1, TypeUnchanged DEF BeginLoop
<1>5. CASE PopSpool
    <2>1. ClientTypeOK' /\ WorkerTypeOK' /\ WorkerSlotsOK'
        BY <1>5, TypeUnchanged DEF PopSpool
    <2>2. CASE spool = <<>>
        <3>1. StoreTypeOK'
            BY <1>5, <2>2 DEF PopSpool, StoreTypeOK, indexVars, taskVars
        <3>2. DaemonTypeOK' /\ pc' \notin {"delete", "start"}
            BY <1>5, <2>2, GoToType DEF PopSpool
        <3> QED
            BY <1>1, <2>1, <3>1, <3>2
    <2>3. CASE spool # <<>>
        <3>1. Head(spool) \in Commands /\ Tail(spool) \in Seq(Commands)
            BY <2>3, HeadTailProperties DEF StoreTypeOK
        <3>2. StoreTypeOK'
            BY <1>5, <2>3, <3>1 DEF PopSpool, Popped, StoreTypeOK, indexVars,
                                    taskVars
        <3>3. DaemonTypeOK' /\ pc' = "exec"
            BY <1>5, <2>3, <3>1 DEF PopSpool, DaemonTypeOK
        <3> QED
            BY <1>1, <2>1, <3>2, <3>3
    <2> QED
        BY <2>2, <2>3
<1>6. CASE DeleteRaises
    BY <1>1, <1>6, TypeUnchanged, RaiseFromSpoolType DEF DeleteRaises
<1>7. CASE ExecShutdown
    BY <1>1, <1>7, TypeUnchanged, RaiseFromSpoolType DEF ExecShutdown
<1>8. CASE FinishedDone
    <2>1. ClientTypeOK'
        BY <1>8, TypeUnchanged DEF FinishedDone
    <2>2. CASE exiting
        <3>1. StoreTypeOK'
            BY <1>8, <2>2, QuitType DEF FinishedDone, StoreTypeOK, indexVars,
                                        taskVars
        <3> QED
            BY <1>1, <1>8, <2>1, <2>2, <3>1, QuitType DEF FinishedDone
    <2>3. CASE ~exiting
        <3>1. StoreTypeOK'
            BY <1>8, <2>3 DEF FinishedDone, StoreTypeOK, indexVars, taskVars
        <3> QED
            BY <1>1, <1>8, <2>1, <2>3, <3>1, TypeUnchanged, GoToType
            DEF FinishedDone
    <2> QED
        BY <2>2, <2>3
<1>9. CASE StartWorker
    <2>1. launching \in Tasks
        BY <1>9 DEF StartWorker, LocalsOK
    <2>2. PICK w \in Workers :
             /\ phase' = [phase EXCEPT ![w] = "starting"]
             /\ job' = [job EXCEPT ![w] = launching]
             /\ runningWorkers' = [runningWorkers EXCEPT ![launching] = w]
        BY <1>9 DEF StartWorker
    <2>3. WorkerTypeOK' /\ WorkerSlotsOK'
        BY <1>9, <1>0, <2>1, <2>2 DEF StartWorker, WorkerTypeOK, WorkerSlotsOK,
                                       historyVars
    <2> QED
        BY <1>1, <1>9, <2>3, TypeUnchanged, DaemonLocalsType DEF StartWorker
<1>10. CASE NothingDue
    BY <1>1, <1>10, TypeUnchanged, DaemonLocalsType DEF NothingDue
<1>11. CASE Idle
    BY <1>1, <1>11, TypeUnchanged, GoToType DEF Idle
<1>12. CASE AwolRaises
    <2>1. StoreTypeOK'
        BY <1>12, QuitType DEF AwolRaises, StoreTypeOK, indexVars, taskVars
    <2> QED
        BY <1>1, <1>12, <2>1, TypeUnchanged, QuitType DEF AwolRaises
<1>13. CASE AwolDone
    BY <1>1, <1>13, TypeUnchanged, GoToType DEF AwolDone
<1>14. CASE Crash
    <2>1. WorkerTypeOK' /\ WorkerSlotsOK'
        BY <1>14, ForgetWorkersType DEF Crash
    <2>2. ClientTypeOK'
        BY <1>14, DisturbType DEF Crash, ClientTypeOK
    <2> QED
        BY <1>1, <1>14, <2>1, <2>2, TypeUnchanged, DaemonLocalsType DEF Crash
<1>15. CASE MarkDead
    <2>1. StoreTypeOK'
        BY <1>15 DEF MarkDead, StoreTypeOK, indexVars, taskVars
    <2>2. pc' = "down"
        BY <1>15 DEF MarkDead, daemonVars
    <2> QED
        BY <1>1, <1>15, <2>1, <2>2, TypeUnchanged DEF MarkDead
<1> QED
    BY <1>2, <1>3, <1>4, <1>5, <1>6, <1>7, <1>8, <1>9, <1>10, <1>11, <1>12,
       <1>13, <1>14, <1>15

\* The steps of the daemon on the tasks, except for the end of a worker.
LEMMA TypeTasks ==
    ASSUME TypeInv,
           \/ RelaunchItem \/ ExecAdd \/ ExecChange \/ ExecDelete \/ DeleteMove
           \/ SetTaskRunning \/ AwolTerminate
    PROVE  TypeInv'
<1> USE DEF TypeInv, TypeOK
<1>1. ASSUME StoreTypeOK', DaemonTypeOK', UNCHANGED <<clientVars, workerVars>>,
             pc' \notin {"delete", "start"}
      PROVE  TypeInv'
    BY <1>1, TypeUnchanged DEF LocalsOK, WorkerSlotsOK
<1>2. CASE RelaunchItem
    <2>1. running[cursor] \in Tasks
        BY <1>2, ElementOfSeq, LenProperties DEF RelaunchItem, StoreTypeOK
    <2>2. /\ running' \in Seq(Tasks)
          /\ waiting' \subseteq Times \X Tasks
          /\ failedIndex' \subseteq Tasks \X Nat
          /\ finishedIndex' \subseteq Tasks \X Nat
        BY <1>2, <2>1, MoveTaskType DEF RelaunchItem
    <2>3. status' \in [Tasks -> Statuses]
        BY <1>2, <2>1 DEF RelaunchItem, StatusQueued, StoreTypeOK, Statuses
    <2>4. StoreTypeOK'
        BY <1>2, <2>2, <2>3 DEF RelaunchItem, StoreTypeOK
    <2>5. DaemonTypeOK' /\ pc' = "relaunch"
        BY <1>2 DEF RelaunchItem, DaemonTypeOK
    <2> QED
        BY <1>1, <1>2, <2>4, <2>5 DEF RelaunchItem
<1>3. CASE ExecAdd
    <2>1. cmd.task \in Tasks
        BY <1>3, ExecutingType DEF ExecAdd
    <2>2. 1 + Cardinality({u \in Tasks : taskId[u] # 0}) \in Nat
        BY StoreAssumption, FS_Subset, FS_CardinalityType
    <2>3. taskId' \in [Tasks -> Nat]
        BY <1>3, <2>1, <2>2 DEF ExecAdd, StoreTypeOK
    <2>4. status' \in [Tasks -> Statuses]
        BY <1>3, <2>1 DEF ExecAdd, StatusQueued, StoreTypeOK, Statuses
    <2>5. waiting' \subseteq Times \X Tasks
        BY <1>3, <2>1, EnqueuedType DEF ExecAdd, StoreTypeOK
    <2>6. StoreTypeOK'
        BY <1>3, <2>3, <2>4, <2>5 DEF ExecAdd, StoreTypeOK, indexVars
    <2> QED
        BY <1>1, <1>3, <2>6, NextCommandType DEF ExecAdd
<1>4. CASE ExecChange
    <2>1. cmd.task \in Tasks
        BY <1>4, ExecutingType DEF ExecChange
    <2>2. waiting' \subseteq Times \X Tasks
        BY <1>4, <2>1, RebinnedType DEF ExecChange
    <2>3. StoreTypeOK'
        BY <1>4, <2>2 DEF ExecChange, StoreTypeOK, indexVars, taskVars
    <2> QED
        BY <1>1, <1>4, <2>3, NextCommandType DEF ExecChange
<1>5. CASE ExecDelete
    <2>1. cmd \in TaskCommands /\ cmd.task \in Tasks
        BY <1>5, ExecutingType DEF ExecDelete
    <2>2. StoreTypeOK'
        BY <1>5, <2>1 DEF ExecDelete, StoreTypeOK, indexVars
    <2>3. oldStatus' \in Statuses
        BY <1>5, <2>1 DEF ExecDelete, StoreTypeOK
    <2>4. DaemonTypeOK' /\ pc' = "delete" /\ cmd' \in TaskCommands
        BY <1>5, <2>1, <2>3 DEF ExecDelete, DaemonTypeOK
    <2> QED
        BY <1>5, <2>2, <2>4, TypeUnchanged
        DEF ExecDelete, LocalsOK, WorkerSlotsOK
<1>6. CASE DeleteMove
    <2>1. cmd.task \in Tasks
        BY <1>6 DEF DeleteMove, LocalsOK, TaskCommands
    <2>2. StoreTypeOK'
        BY <1>6, <2>1, MoveTaskType DEF DeleteMove, StoreTypeOK, taskVars
    <2> QED
        BY <1>1, <1>6, <2>2, NextCommandType DEF DeleteMove
<1>7. CASE SetTaskRunning
    <2>1. PICK e \in waiting :
             /\ waiting' = waiting \ {e}
             /\ since' = [since EXCEPT ![e[2]] = now]
             /\ running' = Append(running, e[2])
             /\ launching' = e[2]
        BY <1>7 DEF SetTaskRunning, TakenFromBin
    <2>2. e[2] \in Tasks
        BY <2>1 DEF StoreTypeOK
    <2>3. running' \in Seq(Tasks)
        BY <2>1, <2>2, AppendProperties DEF StoreTypeOK
    <2>4. StoreTypeOK'
        BY <1>7, <2>1, <2>2, <2>3 DEF SetTaskRunning, StoreTypeOK, indexVars
    <2>5. DaemonTypeOK' /\ pc' = "start" /\ launching' \in Tasks
        <3>1. 0 \in 0 .. MaxTime
            BY StoreAssumption
        <3> QED
            BY <1>7, <2>1, <2>2, <3>1 DEF SetTaskRunning, DaemonTypeOK
    <2> QED
        BY <1>7, <2>4, <2>5, TypeUnchanged
        DEF SetTaskRunning, LocalsOK, WorkerSlotsOK
<1>8. CASE AwolTerminate
    <2>1. PICK i \in DOMAIN running :
             /\ MoveTask(running[i], "running", "terminated")
             /\ status' = [status EXCEPT ![running[i]] = "terminated"]
        BY <1>8 DEF AwolTerminate
    <2>2. running[i] \in Tasks
        BY <2>1, ElementOfSeq, LenProperties DEF StoreTypeOK
    <2>3. /\ running' \in Seq(Tasks)
          /\ waiting' \subseteq Times \X Tasks
          /\ failedIndex' \subseteq Tasks \X Nat
          /\ finishedIndex' \subseteq Tasks \X Nat
        BY <2>1, <2>2, MoveTaskType
    <2>4. StoreTypeOK'
        BY <1>8, <2>1, <2>2, <2>3 DEF AwolTerminate, StoreTypeOK, Statuses
    <2>5. DaemonTypeOK' /\ pc' = "awol"
        BY <1>8, TypeUnchanged DEF AwolTerminate, daemonVars
    <2> QED
        BY <1>1, <1>8, <2>4, <2>5 DEF AwolTerminate
<1> QED
    BY <1>2, <1>3, <1>4, <1>5, <1>6, <1>7, <1>8

\* The end of a worker is recorded, or the recording is lost.
LEMMA TypeNotify ==
    ASSUME TypeInv, NEW t \in Tasks, Notify(t) \/ NotifyConflict(t)
    PROVE  TypeInv'
<1> USE DEF TypeInv, TypeOK
<1>0. WorkerSlotsOK
    BY DEF WorkerTypeOK, LocalsOK, WorkerSlotsOK
<1>1. WorkerTypeOK' /\ WorkerSlotsOK'
    <2>1. PICK S : Keep(S)
        BY DEF Notify, NotifyTerminated, NotifyOneShot, NotifyPeriodic,
               NotifyDeleted, Collect, NotifyConflict
    <2>2. WorkerSlotsOK'
        BY <1>0, <2>1, KeepType
    <2>3. /\ runningWorkers' = [runningWorkers EXCEPT ![t] = NoWorker]
          /\ UNCHANGED historyVars
        BY DEF Notify, NotifyTerminated, NotifyOneShot, NotifyPeriodic,
               NotifyDeleted, Collect, NotifyConflict
    <2> QED
        BY <2>2, <2>3 DEF WorkerTypeOK, WorkerSlotsOK, historyVars
<1>2. DaemonTypeOK' /\ LocalsOK'
    BY <1>1, TypeUnchanged
    DEF Notify, NotifyTerminated, NotifyOneShot, NotifyPeriodic, NotifyDeleted,
        Collect, NotifyConflict, LocalsOK, WorkerSlotsOK, daemonVars
<1>3. /\ RunningAfter(t, "running") \in Seq(Tasks)
      /\ Outcome(t) \in Statuses
    BY RunningAfterType DEF Outcome, Statuses
<1>4. CASE NotifyTerminated(t)
    BY <1>1, <1>2, <1>3, <1>4, TypeUnchanged
    DEF NotifyTerminated, Collect, StoreTypeOK, indexVars
<1>5. CASE NotifyOneShot(t)
    <2>1. /\ running' \in Seq(Tasks)
          /\ waiting' \subseteq Times \X Tasks
          /\ failedIndex' \subseteq Tasks \X Nat
          /\ finishedIndex' \subseteq Tasks \X Nat
        BY <1>5, MoveTaskType DEF NotifyOneShot
    <2> QED
        BY <1>1, <1>2, <1>3, <1>5, <2>1, TypeUnchanged
        DEF NotifyOneShot, Collect, StoreTypeOK
<1>6. CASE NotifyPeriodic(t)
    <2>1. occurrences[t] + 1 \in Nat
        BY DEF StoreTypeOK
    <2>2. /\ failedIndex' \subseteq Tasks \X Nat
          /\ finishedIndex' \subseteq Tasks \X Nat
        BY <1>6, <2>1, EntriesType DEF NotifyPeriodic
    <2>3. PICK ts \in NextOccurrences(t) :
             /\ startOn' = [startOn EXCEPT ![t] = ts]
             /\ waiting' = waiting \cup Bin(ts, t)
             /\ status' = [status EXCEPT ![t] = StatusQueued(ts, Outcome(t))]
        BY <1>6 DEF NotifyPeriodic
    <2>4. ts \in Times \cup {Never}
        BY DEF NextOccurrences
    <2>5. startOn' \in [Tasks -> Times \cup {Never}]
        BY <2>3, <2>4 DEF StoreTypeOK
    <2>6. waiting' \subseteq Times \X Tasks
        BY <2>3, <2>4, BinType DEF StoreTypeOK
    <2>7. status' \in [Tasks -> Statuses]
        BY <1>3, <2>3 DEF StatusQueued, StoreTypeOK, Statuses
    <2>8. ended' \in [Tasks -> BOOLEAN] /\ occurrences' \in [Tasks -> Nat]
        BY <1>6, <2>1 DEF NotifyPeriodic, EndedReset, StoreTypeOK
    <2>9. running' \in Seq(Tasks)
        BY <1>3, <1>6 DEF NotifyPeriodic
    <2>10. StoreTypeOK'
        BY <1>6, <2>2, <2>5, <2>6, <2>7, <2>8, <2>9
        DEF NotifyPeriodic, Collect, StoreTypeOK
    <2> QED
        BY <1>1, <1>2, <1>6, <2>10, TypeUnchanged DEF NotifyPeriodic, Collect
<1>7. CASE NotifyDeleted(t)
    <2>1. status' \in [Tasks -> Statuses] /\ occurrences' \in [Tasks -> Nat]
        BY <1>3, <1>7 DEF NotifyDeleted, StoreTypeOK
    <2>2. StoreTypeOK'
        BY <1>7, <2>1 DEF NotifyDeleted, Collect, StoreTypeOK, indexVars
    <2> QED
        BY <1>1, <1>2, <1>7, <2>2, TypeUnchanged DEF NotifyDeleted, Collect
<1>8. CASE NotifyConflict(t)
    <2>1. waiting' \subseteq Times \X Tasks
        BY <1>8, EnqueuedType DEF NotifyConflict, StoreTypeOK
    <2>2. StoreTypeOK'
        BY <1>8, <2>1 DEF NotifyConflict, StoreTypeOK, Statuses, indexVars
    <2>3. ClientTypeOK'
        BY <1>8, DisturbType DEF NotifyConflict, ClientTypeOK
    <2> QED
        BY <1>1, <1>2, <2>2, <2>3
<1> QED
    BY <1>4, <1>5, <1>6, <1>7, <1>8 DEF Notify

\* The clock goes on within its bound.
LEMMA TypeTick ==
    ASSUME TypeInv, Tick
    PROVE  TypeInv'
<1>1. now' \in 0 .. MaxTime
    <2>1. now \in 0 .. MaxTime /\ MaxTime \in Nat
        BY StoreAssumption DEF TypeInv, TypeOK, StoreTypeOK
    <2>2. now < MaxTime /\ now' = now + 1
        BY DEF Tick
    <2> QED
        BY <2>1, <2>2
<1>2. StoreTypeOK'
    BY <1>1 DEF TypeInv, TypeOK, StoreTypeOK, Tick, indexVars, taskVars
<1>3. UNCHANGED <<clientVars, workerVars, daemonVars>>
    BY DEF Tick
<1>4. LocalsOK'
    BY <1>3 DEF TypeInv, LocalsOK, workerVars, daemonVars
<1> QED
    BY <1>2, <1>3, <1>4, TypeUnchanged DEF TypeInv, TypeOK

\* Every step keeps the types.
LEMMA TypeNext ==
    ASSUME TypeInv, [Next]_vars
    PROVE  TypeInv'
<1>1. CASE UNCHANGED vars
    <2>1. UNCHANGED <<storeVars, clientVars, workerVars, daemonVars>>
        BY <1>1 DEF vars
    <2>2. LocalsOK'
        BY <2>1 DEF TypeInv, LocalsOK, workerVars, daemonVars
    <2> QED
        BY <2>1, <2>2, TypeUnchanged DEF TypeInv, TypeOK
<1>2. CASE DaemonNext
    BY <1>2, TypeControl, TypeTasks, TypeNotify DEF DaemonNext, DaemonStep
<1> QED
    BY <1>1, <1>2, TypeClient, TypeWorker, TypeTick DEF Next

\* Every variable keeps its type, and what the daemon's local variables and the
\* workers refer to when they are used is a task.
THEOREM TypeCorrect == Spec => []TypeInv
BY TypeInit, TypeNext, PTL DEF Spec

\* The type invariant the runs check.
THEOREM TypeOKCorrect == Spec => []TypeOK
<1>1. TypeInv => TypeOK
    BY DEF TypeInv
<1> QED
    BY <1>1, TypeCorrect, PTL

===============================================================================
