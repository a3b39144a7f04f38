# Indico: a verification project

TLA+ models of the parts of Indico where several processes share state, the TLC
runs that check them on small instances, and theorems about them that TLAPS
checks for every instance.  Indico (branch 1.9/2.0, Python 2) is a Flask
application over a ZODB object database, with a relational database for room
bookings, Redis for links and suggestions, and one background daemon.

Five parts are modelled: the task scheduler, the transactions of web requests,
LiveSync, the mirror of links in Redis, and room booking.  They are the places
where Indico keeps one thing in two, or lets two processes at the same thing.
Most of its code is not of this kind: pages, forms, templates and persistent
objects that one transaction changes; see "What is not modelled".

## The system's parts

| part | state | operations | what is hard | what makes it correct |
|---|---|---|---|---|
| Scheduler store (`modules/scheduler/module.py`, `util/struct/queue.py`) | spool, waiting queue, running list, failed and finished indexes, task attributes | `spool`, `moveTask`, `changeTaskStartDate`, `addTaskToWaitingQueue`, ... | several containers written by one move, several processes | a task is in one place, in none only when it is over |
| Scheduler clients (`client.py`, conferences, administration, `indico_scheduler`) | `conference.alarmList` | enqueue, dequeue, move, shutdown, clear spool, run failed task | they change a task at once and the queue by a command executed later; `startFailedTask` does not use the spool at all | commands get executed; dates and bins agree again |
| Scheduler daemon (`server.py`) | `_runningWorkers`, the place in the loop | relaunch, spool, finished workers, launch, AWOL check | a commit per operation, crash between any two, nested operation, exceptions that end the daemon | nothing lost, nothing executed twice, final statuses final |
| Scheduler workers (`slave.py`, `tasks/`) | one thread or process per launch | prepare, execute, fail, suicide | run beside the daemon, may outlive it, retry on conflict | what is recorded as finished did run |
| Request transactions (`webinterface/rh/base.py`, `rpc/process.py`, `core/db`, `common/mail.py`) | attempt number, mail queue, after-commit queue, Redis pipeline | attempts, commit, abort, flush | conflicts, retries, effects outside the database | outside effects happen once, and only of what was committed |
| Room booking (`modules/rb`) | reservations, occurrences, blockings | book, accept, reject, cancel, block | two users at once, repeated occurrences | no two accepted valid occurrences of a room overlap |
| LiveSync (`ext/livesync`) | multi-pointer track, agents | add actions, query, acknowledge, register, remove | entries arriving at the granule being read, failures of one agent | every action is delivered to every agent at least once |
| Redis links and suggestions (`util/redis`) | sets and sorted sets by avatar and event | Lua scripts: add, delete, merge | written after the ZODB commit, merge of avatars | both directions agree, dates kept |
| Participants (`MaKaC/participant.py`) | participants, pending, declined | apply, invite, accept, refuse, withdraw | long sequences of legal calls | a person is in one list, the limit holds |
| Abstract review (`MaKaC/review.py`) | status of an abstract, judgements, tracks | propose, accept, merge, withdraw, transfer | many statuses, undo | statuses follow judgements |
| Caches (`MaKaC/common/cache.py`) | files, Redis keys | set, get, expire | readers and writers at once | a reader gets a whole value |
| Everything else | | | see `components` in PROJECT.json | |

The scheduler's processes share only the database.  Clients append commands to a
FIFO *spool* (`Client` -> `SchedulerModule.spool`), the daemon pops them, keeps a
queue of tasks by date, starts a worker for each task that is due, and later
collects the worker's result.  The clients also write the task objects directly:
`Client.moveTask` sets the start date in the client's transaction and leaves the
queue to the daemon, `Client.startFailedTask` moves the task itself.

The models of the other parts stand beside the scheduler's and beside each other.
Every request is a transaction of `Requests`: that effects outside the database
come after the commit and only from the attempt that committed is shown there, and
`AvatarLinks` and `RoomBooking` start from it, with one step for the commit of a
request and, in `AvatarLinks`, later ones for its Redis commands.  `LiveSync`
starts where `Requests!Finish` publishes the object events.

## The modules

    SchedulerStore      the persistent state and moveTask
      SchedulerClient   + what clients do
        SchedulerWorker + the workers
          SchedulerDaemon  + the daemon
            Scheduler      + the clock, Next, Spec, the properties
              MCScheduler     constants for TLC
              SchedulerProofs      list.remove, types   } proofs, each
                SchedulerPlacement where tasks are      } module extending
                  SchedulerSessions  who executes them  } the one above
                    SchedulerRecords   what is recorded }

    AfterCommit           what handlers are promised about deferred effects
      Requests            the attempts of pages and service calls
        MCRequests, RequestsProofs
    LiveSync              track, agents, update task
      MCLiveSync, LiveSyncProofs
    AvatarLinks           links in the ZODB, scripts and keys in Redis
      MCAvatarLinks, AvatarLinksProofs
    RoomBooking           bookings and a blocking of one room
      MCRoomBooking, RoomBookingProofs

### The scheduler

Each module adds its variables and actions to the ones below; `Scheduler!Next`
is their disjunction.  The `map` in PROJECT.json gives the source lines of every
definition.

**What is one step.**  `OperationManager` repeats an operation on fresh data
until its commit succeeds, so each `_db_...` operation of the daemon is one
atomic step on the committed state, and the places between two of them are
values of `pc`: anything can happen there, a crash included.  The deletion of a
task is two steps (`ExecDelete` reads the status, `DeleteMove` or `DeleteRaises`
uses it).  The exception to the rule is `_db_notifyTaskStatus`: it calls the
operation `_db_addTaskToQueue`, whose commit includes the outer writes and whose
retry, after a conflict, does not; `NotifyConflict` is that outcome.  A client's
request is one step.  A worker's launch is three: the start, `Prepare` (its own
commit) and the end, the attempts in between being folded into `Succeed` or
`Fail`.

**State.**  `waiting` is the `PersistentWaitingQueue` as a set of pairs
(timestamp, task), `peek` being the smallest by time and then by id (`IsNext`).
`running` is a sequence, because the code's list can hold a task twice and
because relaunching walks along it while removing from it.  The two indexes are
sets of entries (task, occurrence).  The time stamps inside the indexes, log
files, and the text of commands are left out.  Dates are `1 .. MaxTime`.

**Disturbances.**  What nobody has to do and what makes the behaviours
interesting is an element of `Events`, and a behaviour has at most `MaxEvents`
of them: `move`, `remove`, `adminDelete`, `runFailed`, `clearSpool`, `stop` (the
clients), `crash` (of the daemon, with or without its process workers),
`conflict` (of the nested operation), `prepareFails` (conflict in `prepare()`),
`suicide` (an alarm whose event has begun).  Failure of a task, a task past its
date, the AWOL check, the death of the daemon by an exception, its restart and
`indico_scheduler check` are always possible and not counted.

**History.**  `runs` counts committed executions of a task; `relaunched` is set
when a daemon starts on a running list another one left behind.  No action of
the system reads either.

### `Requests`

A request goes through `setup` (queues emptied, connection caught up), `handler`,
`commit`, and after the loop `flush` (callbacks, then mails, one by one),
`pipeline` (Redis) and `finish` (object events published).  The two loops, that of
pages (`RH.process`) and that of service calls (`ServiceRunner.invokeMethod`), are
the same actions with the differences in place: a page raises the conflict of its
last attempt, a service call swallows it (`Conflict`); a page logs a refused mail
and goes on to Redis, a service call answers with an error (`SendMail`).  A conflict
has a cause: it happens exactly when another request has committed since the
attempt's `sync()` (`version`, `seen`).  An effect is a pair of its kind (a callback,
two mails, Redis commands) and of the attempt that asked for it, so that leftovers of
an earlier attempt are visible.

`AfterCommit` states the promise without attempts, queues or failures: an effect
is performed after the commit, for the attempt that committed, and once.
The last step, `Finish`, is the `finally` clause: `requestFinished` collects the
events and `endRequest` commits them, in a transaction of its own that is neither
retried nor caught (`base.py:599`).  It conflicts when somebody else writes where they
are stored, another request or LiveSync's task, which happens to requests in `Unlucky`
if they collected any, and fails with a lost connection.  The client then gets that
error, also after a commit.

`Requests!Promise` is the instance for pages that keep their database connection,
and `KeepsPromise` says that they implement it.

### `LiveSync`

Time is counted in granules.  An action is stamped in `requestFinished` (`Stamp`)
and stored by the commit of `endRequest` (`Store`), which is not retried and may lose
it (`Lose`).  The task reads a snapshot of the database (`view`), renewed by every
commit and abort; the loop body of `LiveSyncUpdateTask.run` is `NextAgent`, `Query`
(the range is fixed and the entries are read), `Consume` (the upload loop aborts the
transaction after each record), `Upload`, `Acknowledge`.  The agents in the
repository commit after each uploaded batch (`setOnRunningListSince`), which renews the
snapshot as well, so that an upload may end with the old one only if it never got that
far.  The commit of the
acknowledgement conflicts when the pointers have been written since the snapshot, and
the task starts again.  Meanwhile an administrator adds, deletes, pre-activates and
activates agents.  `missed`, `before` and `inherits` are history.

### `AvatarLinks`

`linked` is what avatars have in `linkedTo`, `members`, `score` and `roles` are the
three families of Redis keys.  A request (`LinkTo`, `UnlinkTo`, `MoveEvent`,
`DeleteEvent`, `MergeAvatar`, `RefreshLinks`) changes the ZODB and leaves a pipeline
of commands; each command is executed on its own (`Execute`), since the pipelines
are opened with `transaction=False`, or the rest of the pipeline is lost
(`LosePipeline`).  A Lua script is one command, as Redis executes it.  `init_links`
is no script, hence three commands, `enlist`, `place` and `grant`; within one of
these the single SADDs are one step.  `torn` and `excused` record where the code
itself lets the mirror go wrong (see below), so that the properties can say that it
is right elsewhere and becomes right again.

### `RoomBooking`

A booking is a set of `times`, of which some are `lost` (cancelled or rejected
occurrences).  A request reads the committed state and prepares its writes
(`Prepare`, called by `Create`, `Modify`, `Accept`, `End`, `EndDay` and the actions
of the blocking), and commits them later (`Commit`) or fails (`Fail`).  The writes are
as blind as the code's: flags are only set, rows are updated where they exist, and a
modification replaces all rows of its booking.  `raced` records the pairs of subjects
whose requests overlapped.

## The runs

| run | question | instance |
|---|---|---|
| `sessions` | Are tasks kept in one place, not lost, executed once and given final statuses for good, whatever clients do and however daemons stop and start? | one alarm, one periodic task, 2 workers, dates 1..2, 2 disturbances of six kinds, threads, AWOL threshold 0 |
| `faults` | What still holds after crashes, survivors, the lost nested commit, administrative deletions, a cleared spool? | the same size, five kinds, processes |
| `progress` | Does the daemon get everything done? | one alarm, one periodic task, 1 disturbance of two kinds |
| `relaunch_skips` | Does a start relaunch everything on the running list? (violated) | two alarms, one crash |
| `delete_running` | Can a task on the running list be deleted? (violated) | one alarm, one removal |
| `expired_runs` | Is an expired task refused? (violated) | one alarm, no disturbance |
| `requests` | What do clients, mailboxes, Redis and LiveSync see of requests that conflict, and do requests end? | two pages and a service call, two attempts; one page may lose its connection and die, the other may raise or fail to store its events; mails may be refused and Redis unreachable |
| `uncommitted_effects` | Do callbacks wait for a successful commit? (violated) | the same three requests without any fault |
| `livesync` | Is every action delivered to every agent, and acknowledged only when it was? | two agents, one of them not yet registered; two actions; granules 2..3; two operations of the administrator, one fault |
| `activation_gap` | Is everything recorded since the activation delivered? (violated) | the same with one operation, granules 2..4, no fault |
| `links` | Does Redis mirror the links? | two avatars, one event with a manager, a participant, a session and two contributions with the same role, two dates, two sessions, four requests |
| `booking` | Is a room given to one booking at a time, and what do blockings, changes and cancellations leave? | two bookings, three dates (two times on the first), a blocking of the first two dates, two sessions, four requests |

### The scheduler's runs

`sessions` checks `TypeOK`, `SingleCopy` (one bin, or once on the list, or
neither), `NoTaskLost` (what its owner holds can be found somewhere),
`AtMostOnce` (a one-shot task), `OneWorkerPerTask`, `RunningHasWorker` (nothing
is left on the list for the AWOL check to find), `BinIsStartDate` (with no
change pending, the bin is the task's date) and `FinalIsFinal`.  `faults` checks
`FinishedMeansRan` (an entry of the finished index stands for an execution,
although the code deduces success from `endedOn` alone), `WaitingIsQueued` and
`TrackedNotWaiting` (so that rescheduling cannot meet a duplicate, nor a launch
overwrite a worker).  Each comment in `Scheduler.tla` says which code the
property is about.

Properties of one session carry the condition `~relaunched`.  Without it they
fail for what the code does by design: a worker may outlive its daemon, and the
next daemon executes its task again.

**Bounds.**  Two dates are enough for a task to be early, due and late, for a
change in either direction, and for a periodic task to have a next occurrence or
none; two workers are enough for a task to be launched again, or another one
launched, while a worker is alive or uncollected; a worker slot is reused when
the worker is collected or untracked.  Two disturbances cover every pair of
events, such as a move while a removal is in the spool, or a crash after a lost
commit.  The spool is not bounded except through the number of clients' actions.
A launch waits when both slots are in use; a real daemon has no such limit.
Workers are interchangeable, hence the symmetry (not used for liveness).

**Fairness** (`FairSpec`).  Weak fairness of the daemon's step: the loop has no
wait but its sleep.  Weak fairness of each worker's step: `prepare()` sleeps no
longer than to the start date, and a task that runs is assumed to end.  Weak
fairness of the clock.  Nothing else is fair: no client has to act and nobody has
to restart the daemon, so each progress property ends in "or the daemon is
down".

### The other runs

`requests` checks that what a committed request performs and publishes is of the
attempt that committed (`OnlyTheWinner`), once (`EffectsOnce`); that effects without a
commit have one cause, an exception swallowed in the last attempt
(`EffectsNeedCommit`); that a page which shows an error has changed nothing,
unless the error is that of the last commit, and then nothing is published
(`ErrorMeansNoChange`); that what was committed and reported as done is published to
LiveSync (`SuccessIsPublished`); that a page which committed reaches Redis although a
mail was refused (`LinksSurviveMailFailure`); that requests end (`RequestEnds`); and the refinement
`KeepsPromise`.  Two attempts and three requests are enough for a request to be
overtaken once and succeed, to be overtaken in every attempt, and to overtake another;
a third attempt repeats the second.

`livesync` checks `NothingSkipped` (what lies behind a pointer was delivered),
`AcknowledgedIsOver` (a pointer is moved only to a granule that is over) and
`EventuallyDelivered`.  `NothingSkipped` names its exceptions, which are the code's:
actions stamped or stored after the snapshot of the query that passed their granule
(`missed`: the task queries up to one granule before the current one, which leaves a
slow request between 1 and 2 granules, but no guarantee), actions of the granule of
the activation and earlier ones, and an agent replaced during a run, whose predecessor's
acknowledgement it gets.  Two granules, both of which the clock can leave open or closed,
are enough for an action to be late for one query and in time for the next.

`links` checks `Symmetric` (a pair is in both directions and has roles, or none of the
three), `RolesMirrored` and `DatesMirrored`.  Two contributions with the same role show
what one entry for two objects does; two avatars allow a merge; two sessions let
pipelines overtake each other; four requests are enough to link, merge, move or
unlink, and put right again.  `booking` checks `NoDoubleBooking`, `EndedHoldsNothing`,
`LiveHoldsSomething`, `BlockingRespected`, and for steps `ConfirmedIsKept` (no other
booking takes a confirmed time away) and `LostStaysLost` (changing a booking does
not bring back a day that was cancelled).  Two bookings collide in all ways that two
can; the dates cover a blocking's first, last and outside date and two times on one
date; four requests are two for each booking, or three and the blocking.  The runs
`links` and `booking` stop when their requests are used up, and all requests in
`requests` end, so that deadlock is not checked there.  Symmetry is used where no
liveness is checked.

**Fairness.**  `Requests!FairSpec`: weak fairness of the steps of each accepted
request, which has a thread of its own; requests need not arrive, connections need not
break, commits of others are not kept away.  `LiveSync!FairSpec`: weak fairness of the
clock, of the scheduler that starts the periodic task, and of the steps of the task;
not of requests, administrators or faults.

**Properties about races.**  `RoomBooking` transactions take no locks on what they
read, and nothing in the code makes two that overlap fail.  Two requests that both
read before either has committed can book a room twice, leave a cancelled booking with
occurrences (one changed it, the other cancelled it), or leave a booking that is alive
without any (each cancelled one of its last two days).  The properties are therefore
about bookings whose requests did not overlap (`Apart`); TLC finds each of these
three outcomes when that condition is dropped.

**Where the code differs from its comments.**  `relaunch_skips`: the list is
iterated while `moveTask` removes from it (`server.py:237`), so every second item
stays on it for the session.  `delete_running`: a launched task keeps the status
QUEUED until its worker prepares it, and its deletion in between looks for it in
the waiting queue; the KeyError ends the daemon (`server.py:461`).
`expired_runs`: nobody looks at the False that `prepare()` returns
(`slave.py:69`).
`uncommitted_effects`: a service call swallows the conflict of its last attempt
(`process.py:147`), so that its callbacks and mails are sent and its client is told it
succeeded.  `activation_gap`: the pointer of an activated agent is the current granule,
and that granule is not read (`struct.py:195`).

Where no run of its own was made, because the difference is stated in a property as
an exception or in an action as a guard:

- `avatar_event_links_del_link.lua:14`, "No roles remaining => avatar/event are not
  linked anymore": a role entry is shared by all objects of the event that give it, so
  that unlinking one of two contributions removes the link of the other
  (`Sibling`).
- `avatar_event_links_merge_avatars.lua:23`, "Ignore source weights - they should be
  the same anyway": an event only the source had gets the score 0 (`Merge`).
  Roles that `mergeAvatar` does not transfer (participants, registrars and others) reach
  the target this way.
- `user.py:320`, "when adding new roles don't forget to handle them in
  AvatarHolder.mergeAvatar": those same roles are in the map and not handled there, nor
  is `resource`, for which it has a branch `file`.
- `user.py:1359`, "tricky, as conference containing it may have been deleted":
  `mergeAvatar` looks for deleted events when it moves the roles of conferences and of
  sessions, and not for contributions (whose owner stays set), tracks, materials or
  abstracts, whose links to a deleted event so come back into Redis (`Movable`, and
  `revived` in `MergeAvatar`).
- `endRequest` commits in the `finally` clause (`base.py:599`): when that commit
  conflicts, a request that has committed and sent its mails ends in an error, and what
  it collected for LiveSync is lost (`Finish`, exception in `ErrorMeansNoChange`).
- A refresh puts links to deleted events back, because participants keep them in
  `linkedTo` (`LinkedEvents`).
- `Reservation.accept` calls `occurrence.reject` without a user, which raises TypeError:
  a pre-booking that collides with another cannot be accepted (guard of `Accept`).
- `Room.get_blocked_rooms` compares dates with datetimes: a booking that meets a
  blocking on its last date only is not refused (`Noticed`, exception in
  `BlockingRespected`).
- A booking that is not valid any more on a date because it was skipped stays lost
  there after every later modification, also when the collision is gone (`LostDates`).

Two more behaviours that no comment speaks about, so that there is no run for
them: a periodic task deleted while it runs stays on the running list until the
AWOL check or the next start (`server.py:182`), and a 'change' lost by a crash or
`clear_spool` leaves a task in a bin that is not its date, where neither a later
change nor a deletion finds it.

## What is proved

Every invariant and every action property that a passing run checks is also a theorem,
for all values of the constants, with the conditions named below.  PROJECT.json lists
the theorems; the modules put each next to the invariant it comes from.

### The scheduler

`SchedulerProofs`: `Spec => []TypeOK` for all sets of tasks and workers, all
bounds, both multitask modes and any `Events`.  The invariant proved is
`TypeInv`, which adds what is needed to make it inductive: the local variables of
the daemon and the slots of the workers hold tasks while they are in use
(`LocalsOK`).  The module begins with what Python's `list.remove` does: it takes out
one copy and keeps the others in order.

`SchedulerPlacement` is about where tasks are.  That a task may be queued follows in
each operation from something else: that an 'add' which has
not been executed is about a task that is nowhere (`AddsAreFresh`, which needs
that there is at most one such command, `AddsAreSingle`); that a task whose worker
is being collected is not waiting (`InHandIsOut`); that a one-shot task with
status FAILED, which `startFailedTask` may move at any time, is neither waiting
nor on the list nor in the daemon's hands (`FailedIsOut`); that a daemon which is
just starting has nothing in hand (`DownHasNone`, `LaunchingAtStart`).
`Placement` is the conjunction.  Two lemmas carry the argument: a step either
puts no task anywhere (`PlacementShrinks`), or puts one task that is nowhere into
one bin (`PlacementEnqueues`); each action is reduced to one of them, except
`SetTaskRunning`, which moves a task from its bin to the list.  After the lost writes
of `NotifyConflict` a periodic task can be in two places.  What the other proofs need
survives that: `Placement` claims a single copy for `Single` tasks only, the one-shot
ones, and all of them where there is no `"conflict"`.

`SchedulerSessions` is about who executes a task within one session of the daemon.
`Hands` ties the workers' slots to the daemon's table: a task that is to be given to a
worker has the status QUEUED (`AwaitedIsQueued`), the worker the daemon tracks for a task
is one of that task (`WorkersTracked`), a task with a worker is neither waiting nor about to
be launched (`BusyIsOut`) and has no second one (`BusyIsSingle`).  It needs `Placement`,
and `Placement` needs it, because a worker's end writes the status by which tasks are
enqueued, so that the two are proved together as `Sound`.  They give `SingleCopy`, `TrackedNotWaiting`,
`WaitingIsQueued`, `OneWorkerPerTask` and `FinalIsFinal`.  `AtMostOnce` needs in
addition that a one-shot task which was executed is `Spent`: nothing that is waiting, in
the spool, on the list or in a worker's hands could execute it again.

`SchedulerRecords` is about what the daemon keeps of tasks.  `FinishedMeansRan`: the
entries of the finished index are counted against the executions, plus one for a worker
that succeeded and has not been collected (`Recorded`), since the daemon deduces a
success from `endedOn` alone.  `RunningHasWorker`, `BinIsStartDate` and `NoTaskLost`
need to know what is in the spool (`Sent`): a 'del' is only about a task its owner has
let go (`DelsAreReleased`); where the bin of a waiting task is not its date, a 'change'
with the bin's date is under way (`MovesPending`); a held task that has no 'add' under way
is waiting, on the running list, or over (`Placed`).

| theorem | no such element in `Events` |
|---|---|
| `SingleCopy` | `conflict` |
| `WaitingIsQueued` | `suicide` |
| `RunningHasWorker` | `conflict`, `adminDelete` |
| `BinIsStartDate` | `clearSpool`, `crash` |
| `NoTaskLost` | `clearSpool`, `crash`, `adminDelete` |
| all others | (any `Events`) |

Each condition is needed: TLC refutes the property on the small instance as soon as one
of the named disturbances is put among the `Events` (for `WaitingIsQueued`, together
with a crash; for `BinIsStartDate`, together with a move).  They are the hazards the code has, not
limits of the proof: the lost nested commit leaves a task on the running list while it is
queued again; an alarm that commits suicide keeps the status it had; an administrator
deletes a task that runs; a spool that is cleared, or lost with the session of a daemon
that crashed, takes its commands along.

### The other modules

`RequestsProofs`: `TypeOK`, `OnlyTheWinner`, `EffectsNeedCommit`, `EffectsOnce`,
`ErrorMeansNoChange`, `SuccessIsPublished`, `LinksSurviveMailFailure` and
`KeepsPromise`, for any sets of requests, of which any may be pages, flaky, faulty,
unlucky or mortal, any number of retries and
any handlers' wishes.  None of them is inductive: what is sent after the commit was
queued before it.  `Sane` says for each request what each place of its life may find:
empty queues when the handler starts, then only effects of the current attempt (`Of`);
nothing sent before the end of the loop and nothing published before the end of the
request; after the loop a commit or a swallowed exception.
For the refinement, each step of a page that keeps its connection is mapped to a
`Commit`, `Perform`, `Close` or a stutter of `AfterCommit` (`SoundMaps`), and steps of
other requests to stutters (`OthersMap`).  That nothing is performed twice needs
`Once` beside `Sane`: every kind of effect waits in one queue only (`Within`), at most
once in it (`Distinct`), and no longer when it has been performed (`Fresh`).  It gives
`EffectsOnce`, and the "once" of the refinement.

`LiveSyncProofs`: `TypeOK`, `AcknowledgedIsOver` and `NothingSkipped`.  The pointer
the task acknowledges was chosen in `Query`, from a snapshot that other transactions
have left behind since.  `Clocks` keeps what ties the two together (the end of a run is
over, a snapshot that is not stale knows the registered agents), and `Kept` says that
the stored pointer, the pointer in the snapshot and the range being uploaded are all
sound: every live action up to there is delivered, missed, in the batch, or before the
start.  `SoundStays` is the lemma that positions stay sound while time passes, actions
arrive and more is delivered.

`AvatarLinksProofs`: `TypeOK`, `Symmetric`, `RolesMirrored` and `DatesMirrored`.
Every script by itself keeps the directions in agreement (`MergeAgrees`,
`ScriptsAgree`), whatever the state it meets; `init_links` does not, hence `Built`:
links being rebuilt agree but for what the
command at the head of the pipeline has still to write (`HalfAgree`), one request at a
time rebuilds them, and another that touches them makes them `torn`.

What Redis shows is right only once the pipelines have run, so that the invariant behind
`RolesMirrored` speaks of what they are going to do (`Mirror`): an entry that nobody is
writing is right, and one that a pipeline is writing will be right when that pipeline has
run to its end (`Right`, which says for the last command of a pipeline what the ones
before it must leave: for a merge, that the links it knows of are taken from the source
and given to the target, so that the script finds nothing else to move).  It
holds because an entry that is not excused is written by one request at a time
(`Owned`), because the commands before the last touch nothing that the last one does not
(`Shaped`), and because the source of a merge is gone, so that no later request spoils
what is being moved (`Carried`).  `LongStep` and `ShortStep` are the execution of a
command, `FrameEntry` what it leaves alone.  Each request is reduced to `Sane`, the four
things it owes the others: it excuses what it races with and what the code gets wrong,
its pipeline is right for the rest, it leaves other entries alone, and it does not touch
avatars that are gone except with the whole event.

`RoomBookingProofs`: `TypeOK`, `NoDoubleBooking`, `EndedHoldsNothing`,
`LiveHoldsSomething`, `BlockingRespected`, `ConfirmedIsKept` and `LostStaysLost`, for any
calendar, series, blocking and number of concurrent requests.  What a request
prepared stays `Sound` while others commit, unless they overlap with it: new
occurrences keep clear of what is confirmed and reject the rest (`Clear`), an accepted
booking collides with nothing (`Acceptable`), a booking that ends loses all it has
(`Ending`).  `CommitLeavesSound` is that step, `CommitBooksOnce` the other half.  The
last four properties need in the same way that it stays `Careful`: a request takes from
a booking all it has only if it ends it (`Leaving`), keeps off a blocking it noticed
(`Heeding`), approves a blocking by taking every blocked time (`Clearing`), takes nothing
confirmed from another booking (`Gentle`) and does not bring back a lost date
(`Remembering`).

### Assumptions, and what is left to TLC

The proofs assume only the named assumptions of the modules
(`StoreAssumption`, `ClientAssumption`, `WorkerAssumption`, `DaemonAssumption`):
kinds of tasks are disjoint and finite in number, `Never`, `NoTask` and
`NoWorker` are none of the values they stand beside, and the bounds are naturals.
For the other modules these are `RequestsAssumption` (at least one attempt),
`LiveSyncAssumption` (the clock starts late enough for a granule before the last),
`LinksAssumption` (finitely many avatars and objects, dates are naturals and `None` is
none) and `BookingAssumption` (a series is not empty and has one time a date, as
`iter_start_time` makes them, the blocking is not a booking).

Model-checked only, because liveness and ENABLED are out of the prover's reach: the
scheduler's `CommandsExecuted`, `WaitingIsLaunched` and `RunningIsRecorded`,
`RequestEnds` and `EventuallyDelivered`.

## What is not modelled

In the scheduler: a second daemon (`start -f`); the branch of the AWOL check for
an item without `onRunningListSince`; the commit that
`LiveSyncUpdateTask.setOnRunningListSince` makes in the middle of
`_db_setTaskRunning`; `recoverAlarm` and the dry run of the alarm form; ten
conflicting commits in a row; two index entries of one task in one second; what a
task does outside the database, such as a mail sent again by each attempt.
PROJECT.json lists these under `hazards`.

In requests: forced conflicts (a test setting, taken as 0); `POSKeyError`, which pages
treat as a conflict; callbacks that raise; the two-phase commit that joins the ZODB and
the relational database, a commit being one step; commits whose outcome is in doubt;
the connection that stays open when `endRequest` raises.
In LiveSync: how actions are merged into records and records formatted (a record whose
metadata cannot be generated is logged, left out of its batch and acknowledged with it,
so that `delivered` means that the agent took the action in hand), excluded
categories, `EditAgent` (names and addresses only), the command line tool that resets
the track.  In Redis: the suggestions scripts; single objects deleted inside an event that stays;
answers to evaluations in a merge, whose old link is left to the script.  In room booking: non-bookable periods,
bookable hours and advance days; permissions other than that to override a
blocking, which is drawn anew for each request; changes of a blocking's access list;
several rooms and several blockings; modifications that change no date, time or
repetition; the difference between cancelled and rejected.  A request's reads are taken
at one moment, where READ COMMITTED lets each query read anew, and row locks are left
out: both matter only to requests that overlap, which the properties set apart.

The rest of Indico is listed under `components`.  Participants, abstracts, paper
reviewing, registration, the timetable, the category tree, access control and the
indexes are changed inside one request's transaction, so that the concurrency they see
is that of `Requests`; what remains of them is sequential list and status handling,
which the repository's unit tests reach.  The caches are files and Redis keys with an
expiry.  Pages, templates, PDF and export code, plugins that drive services outside
the repository, and migration scripts keep no state worth a model.  They are by
far the larger part of the code, which is why the map covers little of it.

## Plan

Done: the scheduler; requests and `AfterCommit`; LiveSync; links; room booking; the
proofs above.  Next, by what they would add:

1. `Participation` (applications, invitations, the limit of an event) and
   `AbstractReview` (judgements and the status they imply), each with an abstract
   specification of what may happen to a person or an abstract.
2. The caches under concurrent readers and writers, and the pending queues.
3. For the scheduler, a specification of a task's life without queues, spool and
   processes, which the daemon and the clients implement within a session.
