------------------------------ MODULE RoomBooking ------------------------------
(***************************************************************************)
(* The bookings of one room, whose occurrences are at some time of some    *)
(* dates, and a blocking of the room.  Every request is a transaction that *)
(* reads what is committed (Prepare), takes no lock on what it has read,   *)
(* and commits its writes later (Commit) or fails.  Cancelled and rejected *)
(* occurrences, and cancelled and rejected bookings, are not told apart.   *)
(***************************************************************************)
EXTENDS Integers, FiniteSets

CONSTANTS
  Bookings,      \* reservations
  Times,         \* when the room can be booked
  DateOf,        \* the date of a time
  Series,        \* the sets of times a booking may repeat at, one a date
  FirstBlocked, LastBlocked,   \* the blocking's dates
  Blocking,      \* the blocking, as the subject of a request
  Sessions,      \* requests at a time
  MaxRequests,   \* bound on the requests
  Idle           \* no request

Subjects == Bookings \cup {Blocking}
BlockedTimes == {d \in Times : FirstBlocked <= DateOf[d] /\ DateOf[d] <= LastBlocked}

ASSUME BookingAssumption ==
    /\ DateOf \in [Times -> Int]
    /\ \A D \in Series : \A c, d \in D : DateOf[c] = DateOf[d] => c = d
    /\ FirstBlocked \in Int /\ LastBlocked \in Int
    /\ Series \subseteq (SUBSET Times) \ {{}}
    /\ Blocking \notin Bookings
    /\ MaxRequests \in Nat

VARIABLES
  times,        \* of each booking's occurrences, none if there is no booking
  lost,         \* those whose occurrence is cancelled or rejected
  accepted,    \* confirmed bookings; the others are pre-bookings
  ended,       \* cancelled and rejected bookings
  privileged,  \* bookings whose creator may override the blocking
  blocked,     \* state of the blocking
  work,        \* writes of each request that has yet to commit
  requests,    \* number of requests so far
  overriding,  \* history: bookings last (re)created by who may override
  raced        \* history: subjects of requests that overlapped

bookings == <<times, lost, accepted, ended, privileged>>
history == <<overriding, raced>>
vars == <<bookings, blocked, work, requests, history>>

Works ==
    [on : Subjects,
     series : Series \cup {{}},    \* new occurrences of the subject, if any
     lost : SUBSET Times,           \* those that are not valid
     accepts : BOOLEAN,
     privileged : BOOLEAN,         \* the user may override the blocking
     ends : SUBSET Bookings,
     loses : SUBSET (Bookings \X Times),
     state : {"none", "pending", "accepted", "rejected"}]

TypeOK ==
    /\ times \in [Bookings -> Series \cup {{}}]
    /\ lost \in [Bookings -> SUBSET Times]
    /\ \A r \in Bookings : lost[r] \subseteq times[r]
    /\ accepted \subseteq Bookings /\ ended \subseteq Bookings
    /\ privileged \subseteq Bookings
    /\ blocked \in {"none", "pending", "accepted", "rejected"}
    /\ work \in [Sessions -> Works \cup {Idle}]
    /\ requests \in 0 .. MaxRequests
    /\ overriding \subseteq Bookings
    /\ raced \subseteq Subjects \X Subjects

Init ==
    /\ times = [r \in Bookings |-> {}] /\ lost = [r \in Bookings |-> {}]
    /\ accepted = {} /\ ended = {} /\ privileged = {}
    /\ blocked = "none"
    /\ work = [s \in Sessions |-> Idle]
    /\ requests = 0
    /\ overriding = {} /\ raced = {}

-------------------------------------------------------------------------------
(* What a request reads *)

Exists(r) == times[r] # {}
Live(r) == Exists(r) /\ r \notin ended
Valid(r) == times[r] \ lost[r]

Confirmed(r) == UNION {Valid(o) : o \in accepted \ {r}}

\* Valid occurrences of the other bookings that are not confirmed.
PendingOn(r, D) ==
    {p \in Bookings \X Times :
        p[1] \notin accepted \cup {r} /\ p[2] \in Valid(p[1]) \cap D}

\* Bookings that lose their last occurrences: the call is forwarded to the
\* reservation.
LastDayLost(losses) == {}

LastOccurrence(losses) ==
    {r \in Bookings : Valid(r) # {} /\ \A d \in Valid(r) : <<r, d>> \in losses}

\* Blockings are looked up by the start times of the occurrences: a booking on the
\* last date starts after the midnight its date stands for.
Noticed(D) == \E d \in D \cap BlockedTimes : DateOf[d] < LastBlocked

\* Times of a new series that are not free for it.
Skipped(r, D, override) ==
    (D \cap Confirmed(r))
    \cup (IF blocked = "accepted" /\ ~override /\ Noticed(D)
          THEN D \cap BlockedTimes ELSE {})

-------------------------------------------------------------------------------
(* Requests *)

Nothing(subject) ==
    [on |-> subject, series |-> {}, lost |-> {}, accepts |-> FALSE,
     privileged |-> FALSE, ends |-> {}, loses |-> {}, state |-> blocked]

Active == {s \in Sessions : work[s] # Idle}

UnderWay == {work[s].on : s \in Active}

Prepare(s, writes) ==
    /\ work[s] = Idle /\ requests < MaxRequests
    /\ requests' = requests + 1
    /\ work' = [work EXCEPT ![s] = writes]
    /\ UNCHANGED <<bookings, blocked, history>>

RejectingAll(r, D, confirmed, override) ==
    LET losses == {p \in Bookings \X Times : /\ confirmed /\ p[1] # r
                                           /\ p[2] \in Valid(p[1]) \cap D}
    IN  [Nothing(r) EXCEPT !.series = D, !.lost = Skipped(r, D, override),
                           !.accepts = confirmed, !.privileged = override,
                           !.loses = losses, !.ends = LastOccurrence(losses)]

\* New occurrences skip the times that are taken; at the others a confirmed booking
\* rejects the pre-bookings.
Occurrences(r, D, confirmed, override) ==
    LET losses == IF confirmed THEN PendingOn(r, D \ Skipped(r, D, override)) ELSE {}
    IN  [Nothing(r) EXCEPT !.series = D, !.lost = Skipped(r, D, override),
                           !.accepts = confirmed, !.privileged = override,
                           !.loses = losses, !.ends = LastOccurrence(losses)]

Create(s, r, D, confirmed, override) ==
    LET w == Occurrences(r, D, confirmed, override)
    IN  /\ ~Exists(r) /\ r \notin UnderWay
        /\ w.lost # D
        /\ Prepare(s, w)

\* Times of D on dates whose occurrence was lost.
LostDates(r, D) == {d \in D : \E l \in lost[r] : DateOf[l] = DateOf[d]}

KeptDates(r, D) ==
    {d \in D : \E v \in Valid(r) : DateOf[v] = DateOf[d]}

RestoredRegardless(r, D, skipped) == (skipped \ KeptDates(r, D)) \cup LostDates(r, D)

RestoredNever(r, D, skipped) == skipped

\* What a recreated occurrence takes from the one of its date, unless it is skipped.
Restored(r, D, skipped) == skipped \cup LostDates(r, D)

Modify(s, r, D, override) ==
    LET w == Occurrences(r, D, r \in accepted, override)
        left == Restored(r, D, w.lost)
    IN  /\ Live(r)
        /\ left # D
        /\ Prepare(s, [w EXCEPT !.lost = left])

\* accept() cannot reject a pre-booking it collides with: the call lacks an argument
\* and fails.
Accept(s, r) ==
    /\ Live(r) /\ r \notin accepted
    /\ \A o \in Bookings \ {r} : Valid(o) \cap Valid(r) = {}
    /\ Prepare(s, [Nothing(r) EXCEPT !.accepts = TRUE])

EndReservationOnly(s, r) ==
    /\ Live(r)
    /\ Prepare(s, [Nothing(r) EXCEPT !.ends = {r}])

\* Cancel or reject, by a user or when the event it belongs to is deleted: one
\* statement updates whatever occurrences there are.
End(s, r) ==
    /\ Live(r)
    /\ Prepare(s, [Nothing(r) EXCEPT !.ends = {r}, !.loses = {r} \X Times])

\* Cancel or reject one occurrence.
EndDay(s, r, d) ==
    /\ d \in Valid(r)
    /\ LET ends == LastOccurrence({<<r, d>>})
       IN  Prepare(s, [Nothing(r) EXCEPT !.ends = ends,
                           !.loses = IF ends = {} THEN {<<r, d>>} ELSE {r} \X Times])

\* What an accepted blocking rejects: bookings inside it, and occurrences of others.
Whole == {r \in Bookings \ privileged : Live(r) /\ times[r] \subseteq BlockedTimes}

Single ==
    {p \in Bookings \X Times :
        /\ p[1] \notin Whole \cup privileged /\ Live(p[1])
        /\ p[2] \in Valid(p[1]) \cap BlockedTimes}

ApprovalOfWhole ==
    [Nothing(Blocking) EXCEPT !.state = "accepted",
        !.ends = Whole, !.loses = Whole \X Times]

Approval ==
    [Nothing(Blocking) EXCEPT !.state = "accepted",
        !.ends = Whole \cup LastOccurrence(Single),
        !.loses = (Whole \X Times) \cup Single]

\* The owner of the room needs no approval.
CreateBlocking(s, owner) ==
    /\ blocked = "none" /\ Blocking \notin UnderWay
    /\ Prepare(s, IF owner THEN Approval
                  ELSE [Nothing(Blocking) EXCEPT !.state = "pending"])

ApproveBlocking(s) == blocked # "none" /\ Prepare(s, Approval)

RejectBlocking(s) ==
    /\ blocked # "none"
    /\ Prepare(s, [Nothing(Blocking) EXCEPT !.state = "rejected"])

-------------------------------------------------------------------------------
(* Transactions *)

Touched(w) == {w.on} \cup w.ends \cup {p[1] : p \in w.loses}

Overlap(s) ==
    LET others == UNION {Touched(work[t]) : t \in Active \ {s}}
    IN  (Touched(work[s]) \X others) \cup (others \X Touched(work[s]))

\* Times without a valid occurrence once w is written: rows are inserted by the
\* request that recreates them, and updated by others where they still exist.
LostOverOldRows(w) ==
    [r \in Bookings |->
        LET given == {d \in times[r] : <<r, d>> \in w.loses}
        IN  IF w.series # {} /\ r = w.on THEN lost[r] \cup w.lost
            ELSE lost[r] \cup given]

LostAfter(w) ==
    [r \in Bookings |->
        LET given == {d \in times[r] : <<r, d>> \in w.loses}
        IN  IF w.series # {} /\ r = w.on THEN w.lost ELSE lost[r] \cup given]

\* Flags are only ever set.
Commit(s) ==
    /\ work[s] # Idle
    /\ LET w == work[s]
           renewed == w.series # {}
       IN  /\ times' = IF renewed THEN [times EXCEPT ![w.on] = w.series] ELSE times
           /\ lost' = LostAfter(w)
           /\ accepted' = accepted \cup (IF w.accepts THEN {w.on} ELSE {})
           /\ ended' = ended \cup w.ends
           /\ privileged' = privileged \cup
                 (IF renewed /\ times[w.on] = {} /\ w.privileged THEN {w.on} ELSE {})
           /\ overriding' = IF ~renewed THEN overriding
                            ELSE IF w.privileged THEN overriding \cup {w.on}
                            ELSE overriding \ {w.on}
           /\ blocked' = IF w.on = Blocking THEN w.state ELSE blocked
    /\ raced' = raced \cup Overlap(s)
    /\ work' = [work EXCEPT ![s] = Idle]
    /\ UNCHANGED requests

Fail(s) ==
    /\ work[s] # Idle
    /\ work' = [work EXCEPT ![s] = Idle]
    /\ UNCHANGED <<bookings, blocked, requests, history>>

\* An administrator deletes a booking with its occurrences, someone the blocking.
\* Requests that were to write its rows fail.
Dropping(x) == [s \in Sessions |-> IF s \in Active /\ x \in Touched(work[s])
                                   THEN Idle ELSE work[s]]

Forgetting(x) == {p \in raced : x \notin {p[1], p[2]}}

Delete(r) ==
    /\ Exists(r)
    /\ times' = [times EXCEPT ![r] = {}] /\ lost' = [lost EXCEPT ![r] = {}]
    /\ accepted' = accepted \ {r} /\ ended' = ended \ {r}
    /\ privileged' = privileged \ {r} /\ overriding' = overriding \ {r}
    /\ work' = Dropping(r) /\ raced' = Forgetting(r)
    /\ UNCHANGED <<blocked, requests>>

DeleteBlocking ==
    /\ blocked # "none"
    /\ blocked' = "none"
    /\ work' = Dropping(Blocking) /\ raced' = Forgetting(Blocking)
    /\ UNCHANGED <<bookings, requests, overriding>>

Next ==
    \/ \E s \in Sessions, r \in Bookings :
          \/ \E D \in Series, override \in BOOLEAN :
                \/ \E confirmed \in BOOLEAN : Create(s, r, D, confirmed, override)
                \/ Modify(s, r, D, override)
          \/ Accept(s, r) \/ End(s, r) \/ \E d \in Times : EndDay(s, r, d)
    \/ \E s \in Sessions :
          \/ \E owner \in BOOLEAN : CreateBlocking(s, owner)
          \/ ApproveBlocking(s) \/ RejectBlocking(s) \/ Commit(s) \/ Fail(s)
    \/ \E r \in Bookings : Delete(r)
    \/ DeleteBlocking

Spec == Init /\ [][Next]_vars

-------------------------------------------------------------------------------
(* What bookings guarantee *)

\* No two requests on either of the two overlapped.
Apart(x, y) == raced \cap ({x, y} \X {x, y}) = {}

\* A confirmed time is nobody else's, not even as a pre-booking, whatever is
\* created, modified, accepted, restored or rejected: it takes two requests at a
\* time to book the room twice.
NoDoubleBooking ==
    \A r \in accepted : \A o \in Bookings \ {r} :
        Apart(r, o) => Valid(r) \cap Valid(o) = {}

\* A cancelled or rejected booking holds no time.
EndedHoldsNothing == \A r \in ended : Apart(r, r) => Valid(r) = {}

\* A booking that is neither holds one, however many it lost one by one.
LiveHoldsSomething == \A r \in Bookings : Live(r) /\ Apart(r, r) => Valid(r) # {}

\* On the dates of an accepted blocking only those who may override it hold
\* bookings; and those a booking that meets it on its last date only.
BlockingRespected ==
    blocked = "accepted" =>
        \A r \in Bookings \ (privileged \cup overriding) :
            Apart(r, Blocking) /\ Valid(r) \cap BlockedTimes # {}
                => ~Noticed(times[r])

\* Only requests on the booking itself, its deletion and the blocking take a
\* confirmed occurrence away, never another booking.
ConfirmedIsKept ==
    [][\A r \in accepted :
          \/ Valid(r) \subseteq Valid(r)' \/ times'[r] = {}
          \/ \E s \in Active : /\ work'[s] = Idle
                               /\ \/ work[s].on \in {r, Blocking}
                                  \/ <<work[s].on, r>> \in raced']_vars

\* A date that was cancelled or rejected is not valid again, however often the
\* booking is modified while it repeats on that date.
LostStaysLost ==
    [][\A r \in Bookings : <<r, r>> \in raced'
                           \/ LostDates(r, times'[r]) \subseteq lost'[r]]_vars
===============================================================================
