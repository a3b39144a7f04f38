--------------------------- MODULE RoomBookingProofs ---------------------------
(***************************************************************************)
(* Proofs about RoomBooking: with any number of bookings and requests, a   *)
(* time is booked twice only by requests that overlap.                     *)
(***************************************************************************)
EXTENDS RoomBooking, TLAPS

-------------------------------------------------------------------------------
(* The inductive invariant *)

ApartFrom(r, o) == o \in Bookings \ {r} /\ Apart(r, o)

\* What the writes of a request are good for, but where another one overlapped:
\* new occurrences keep clear of confirmed ones, and of the others if they are
\* confirmed; an accepted booking collides with none; a booking that ends holds
\* nothing afterwards.
Clear(w) ==
    w.series # {} =>
        /\ \A o \in Bookings : ApartFrom(w.on, o) =>
              /\ o \in accepted => (w.series \ w.lost) \cap Valid(o) = {}
              /\ w.accepts => \A d \in (w.series \ w.lost) \cap Valid(o) :
                                  <<o, d>> \in w.loses
        /\ w.on \in accepted => w.accepts \/ <<w.on, w.on>> \in raced
        /\ w.on \notin ended \/ <<w.on, w.on>> \in raced
        /\ w.on \in Bookings /\ w.on \notin w.ends /\ w.lost \subseteq w.series

Acceptable(w) ==
    w.accepts /\ w.series = {} =>
        /\ w.on \in Bookings /\ Exists(w.on)
        /\ \A o \in Bookings : ApartFrom(w.on, o) => Valid(o) \cap Valid(w.on) = {}

Ending(w) ==
    \A e \in w.ends :
        Exists(e) /\ (\/ <<e, e>> \in raced
                      \/ \A d \in Valid(e) : <<e, d>> \in w.loses)

Sound(w) == Clear(w) /\ Acceptable(w) /\ Ending(w)

IInv ==
    /\ TypeOK
    /\ \A r \in accepted \cup ended : Exists(r)
    /\ \A s \in Sessions : work[s] # Idle => Sound(work[s])
    /\ NoDoubleBooking
    /\ EndedHoldsNothing

LEMMA Start ==
    ASSUME Init
    PROVE  IInv
  <1>1. TypeOK
    BY BookingAssumption DEF Init, TypeOK
  <1>2. (\A s \in Sessions : work[s] = Idle) /\ accepted = {} /\ ended = {}
    BY DEF Init
  <1>3. QED
    BY <1>1, <1>2 DEF IInv, NoDoubleBooking, EndedHoldsNothing

-------------------------------------------------------------------------------
(* Preparing *)

\* A request that has read what is committed and whose writes are sound.
LEMMA PrepareKeeps ==
    ASSUME IInv, NEW s \in Sessions, NEW w \in Works, Prepare(s, w), Sound(w)
    PROVE  IInv'
  <1>1. /\ work' = [work EXCEPT ![s] = w]
        /\ UNCHANGED <<times, lost, accepted, ended, privileged, blocked, overriding,
                       raced>>
        /\ requests' = requests + 1 /\ requests < MaxRequests
    BY DEF Prepare, bookings, history
  <1>2. TypeOK'
    BY <1>1, BookingAssumption DEF IInv, TypeOK
  <1>3. ASSUME NEW t \in Sessions, work'[t] # Idle
        PROVE  Sound(work[t])'
    <2>1. work' \in [Sessions -> Works \cup {Idle}] /\ work \in [Sessions -> Works \cup {Idle}]
      BY <1>2 DEF IInv, TypeOK
    <2>2. CASE t = s
      <3>1. work'[t] = w
        BY <1>1, <2>1, <2>2
      <3>2. QED
        BY <1>1, <3>1 DEF Sound, Clear, Acceptable, Ending, Valid, Exists, ApartFrom,
                          Apart
    <2>3. CASE t # s
      <3>1. work'[t] = work[t] /\ Sound(work[t])
        BY <1>1, <1>3, <2>1, <2>3 DEF IInv
      <3>2. QED
        BY <1>1, <3>1 DEF Sound, Clear, Acceptable, Ending, Valid, Exists, ApartFrom,
                          Apart
    <2>4. QED
      BY <2>2, <2>3
  <1>4. (\A r \in accepted \cup ended : Exists(r))'
    BY <1>1 DEF IInv, Exists
  <1>5. NoDoubleBooking'
    BY <1>1 DEF IInv, NoDoubleBooking, Valid, Apart
  <1>6. EndedHoldsNothing'
    BY <1>1 DEF IInv, EndedHoldsNothing, Valid, Apart
  <1>7. QED
    BY <1>2, <1>3, <1>4, <1>5, <1>6 DEF IInv

\* The writes that recreate the occurrences of a booking.
LEMMA OccurrencesSound ==
    ASSUME IInv, NEW r \in Bookings, NEW D \in Series, NEW confirmed \in BOOLEAN,
           NEW override \in BOOLEAN, NEW more \in SUBSET D,
           r \in accepted => confirmed, r \notin ended,
           NEW w, w = [Occurrences(r, D, confirmed, override)
                          EXCEPT !.lost = Skipped(r, D, override) \cup more]
    PROVE  w \in Works /\ Sound(w)
  <1>. DEFINE skipped == Skipped(r, D, override)
              losses == IF confirmed THEN PendingOn(r, D \ skipped) ELSE {}
  <1>1. /\ w.on = r /\ w.series = D /\ w.lost = skipped \cup more
        /\ w.accepts = confirmed /\ w.loses = losses /\ w.ends = LastOccurrence(losses)
        /\ w = [on |-> r, series |-> D, lost |-> skipped \cup more,
                accepts |-> confirmed, privileged |-> override,
                ends |-> LastOccurrence(losses), loses |-> losses, state |-> blocked]
    BY DEF Occurrences, Nothing
  <1>2. D \subseteq Times /\ D # {}
    BY BookingAssumption
  <1>3. skipped \subseteq D /\ D \cap Confirmed(r) \subseteq skipped
    BY DEF Skipped
  <1>4. /\ losses \subseteq Bookings \X Times
        /\ \A p \in losses : p[1] # r
        /\ LastOccurrence(losses) \subseteq Bookings
        /\ \A e \in LastOccurrence(losses) :
              Valid(e) # {} /\ \A d \in Valid(e) : <<e, d>> \in losses
    BY DEF PendingOn, LastOccurrence
  <1>5. r \notin LastOccurrence(losses)
    BY <1>4
  <1>6. w \in Works
    <2>. HIDE DEF losses, skipped
    <2>. QED BY <1>1, <1>2, <1>3, <1>4 DEF Works, Subjects, IInv, TypeOK
  <1>7. ASSUME NEW o \in Bookings \ {r}
        PROVE  /\ o \in accepted => (D \ (skipped \cup more)) \cap Valid(o) = {}
               /\ confirmed => \A d \in (D \ (skipped \cup more)) \cap Valid(o) :
                                  <<o, d>> \in losses
    <2>1. o \in accepted => (D \ (skipped \cup more)) \cap Valid(o) = {}
      BY <1>3 DEF Confirmed
    <2>2. ASSUME confirmed, NEW d \in (D \ (skipped \cup more)) \cap Valid(o)
          PROVE  <<o, d>> \in losses
      <3>1. o \notin accepted
        BY <2>1, <2>2
      <3>2. d \in Times /\ d \in Valid(o) \cap (D \ skipped)
        BY <1>2, <2>2
      <3>3. QED
        BY <2>2, <3>1, <3>2 DEF PendingOn
    <2>3. QED
      BY <2>1, <2>2
  <1>8. Clear(w)
    <2>. HIDE DEF losses, skipped
    <2>. QED BY <1>1, <1>3, <1>5, <1>7 DEF Clear, ApartFrom
  <1>9. Acceptable(w)
    BY <1>1, <1>2 DEF Acceptable
  <1>10. Ending(w)
    <2>1. \A e : Valid(e) # {} => Exists(e)
      BY DEF Valid, Exists
    <2>. HIDE DEF losses, skipped
    <2>2. QED
      BY <1>1, <1>4, <2>1 DEF Ending
  <1>11. QED
    BY <1>6, <1>8, <1>9, <1>10 DEF Sound

\* Writes that leave the subject's own occurrences in place.
LEMMA EndingSound ==
    ASSUME IInv, NEW x \in Subjects, NEW ends \in SUBSET Bookings,
           NEW loses \in SUBSET (Bookings \X Times),
           NEW state \in {"none", "pending", "accepted", "rejected"},
           \A e \in ends : Exists(e) /\ \A d \in Valid(e) : <<e, d>> \in loses,
           NEW w, w = [on |-> x, series |-> {}, lost |-> {}, accepts |-> FALSE,
                       privileged |-> FALSE, ends |-> ends, loses |-> loses,
                       state |-> state]
    PROVE  w \in Works /\ Sound(w)
  BY DEF Works, Sound, Clear, Acceptable, Ending

LEMMA ValidTimes ==
    ASSUME TypeOK, NEW r \in Bookings
    PROVE  Valid(r) \subseteq Times /\ times[r] \subseteq Times
  BY BookingAssumption DEF TypeOK, Valid

LEMMA RequestsKeep ==
    ASSUME IInv, NEW s \in Sessions, NEW r \in Bookings
    PROVE  /\ \A D \in Series, confirmed, override \in BOOLEAN :
                 Create(s, r, D, confirmed, override) => IInv'
           /\ \A D \in Series, override \in BOOLEAN : Modify(s, r, D, override) => IInv'
           /\ Accept(s, r) => IInv'
           /\ End(s, r) => IInv'
           /\ \A d \in Times : EndDay(s, r, d) => IInv'
  <1>1. ASSUME NEW D \in Series, NEW confirmed \in BOOLEAN, NEW override \in BOOLEAN,
               Create(s, r, D, confirmed, override)
        PROVE  IInv'
    <2>. DEFINE w == Occurrences(r, D, confirmed, override)
    <2>1. r \notin accepted \cup ended
      BY <1>1 DEF Create, IInv
    <2>2. w = [w EXCEPT !.lost = Skipped(r, D, override) \cup {}]
      BY DEF Occurrences, Nothing
    <2>3. w \in Works /\ Sound(w)
      <3>. HIDE DEF w
      <3>. QED BY <2>1, <2>2, OccurrencesSound DEF w
    <2>4. Prepare(s, w)
      BY <1>1 DEF Create
    <2>. HIDE DEF w
    <2>5. QED
      BY <2>3, <2>4, PrepareKeeps
  <1>2. ASSUME NEW D \in Series, NEW override \in BOOLEAN, Modify(s, r, D, override)
        PROVE  IInv'
    <2>. DEFINE confirmed == r \in accepted
                o == Occurrences(r, D, confirmed, override)
                w == [o EXCEPT !.lost = Skipped(r, D, override) \cup LostDates(r, D)]
    <2>1. r \notin ended /\ confirmed \in BOOLEAN /\ (r \in accepted => confirmed)
      BY <1>2 DEF Modify, Live
    <2>2. LostDates(r, D) \in SUBSET D
      BY DEF LostDates
    <2>3. w \in Works /\ Sound(w)
      <3>. HIDE DEF confirmed
      <3>. QED BY <2>1, <2>2, OccurrencesSound
    <2>4. o.lost = Skipped(r, D, override)
      BY DEF Occurrences, Nothing
    <2>5. Prepare(s, w)
      <3>. HIDE DEF o
      <3>. QED BY <1>2, <2>4 DEF Modify, Restored, o
    <2>. HIDE DEF w
    <2>6. QED
      BY <2>3, <2>5, PrepareKeeps
  <1>3. ASSUME Accept(s, r)
        PROVE  IInv'
    <2>0. PICK w : w = [Nothing(r) EXCEPT !.accepts = TRUE]
      OBVIOUS
    <2>1. w = [on |-> r, series |-> {}, lost |-> {}, accepts |-> TRUE,
               privileged |-> FALSE, ends |-> {}, loses |-> {}, state |-> blocked]
      BY <2>0 DEF Nothing
    <2>2. Exists(r) /\ \A o \in Bookings \ {r} : Valid(o) \cap Valid(r) = {}
      BY <1>3 DEF Accept, Live
    <2>3. Prepare(s, w)
      BY <1>3, <2>0 DEF Accept
    <2>4. w \in Works
      BY <2>1 DEF Works, Subjects, IInv, TypeOK
    <2>5. Sound(w)
      BY <2>1, <2>2 DEF Sound, Clear, Acceptable, Ending, ApartFrom
    <2>6. QED
      BY <2>3, <2>4, <2>5, PrepareKeeps
  <1>4. ASSUME End(s, r)
        PROVE  IInv'
    <2>0. PICK w : w = [Nothing(r) EXCEPT !.ends = {r}, !.loses = {r} \X Times]
      OBVIOUS
    <2>1. w = [on |-> r, series |-> {}, lost |-> {}, accepts |-> FALSE,
               privileged |-> FALSE, ends |-> {r}, loses |-> {r} \X Times,
               state |-> blocked]
      BY <2>0 DEF Nothing
    <2>2. Exists(r) /\ \A d \in Valid(r) : <<r, d>> \in {r} \X Times
      BY <1>4, ValidTimes DEF End, Live, IInv
    <2>3. Prepare(s, w)
      BY <1>4, <2>0 DEF End
    <2>4. blocked \in {"none", "pending", "accepted", "rejected"}
      BY DEF IInv, TypeOK
    <2>5. w \in Works /\ Sound(w)
      BY <2>1, <2>2, <2>4, EndingSound DEF Subjects
    <2>6. QED
      BY <2>3, <2>5, PrepareKeeps
  <1>5. ASSUME NEW d \in Times, EndDay(s, r, d)
        PROVE  IInv'
    <2>. DEFINE ends == LastOccurrence({<<r, d>>})
                loses == IF ends = {} THEN {<<r, d>>} ELSE {r} \X Times
    <2>0. PICK w : w = [Nothing(r) EXCEPT !.ends = ends, !.loses = loses]
      OBVIOUS
    <2>1. ends \subseteq {r}
      BY DEF LastOccurrence
    <2>2. w = [on |-> r, series |-> {}, lost |-> {}, accepts |-> FALSE,
               privileged |-> FALSE, ends |-> ends, loses |-> loses, state |-> blocked]
      BY <2>0 DEF Nothing
    <2>3. Exists(r)
      BY <1>5 DEF EndDay, Valid, Exists
    <2>4. loses \in SUBSET (Bookings \X Times)
      BY <2>1
    <2>5. \A e \in ends : \A v \in Valid(e) : <<e, v>> \in loses
      BY <2>1, ValidTimes DEF IInv
    <2>6. Prepare(s, w)
      BY <1>5, <2>0 DEF EndDay
    <2>. HIDE DEF ends, loses
    <2>7. w \in Works /\ Sound(w)
      BY <2>1, <2>2, <2>3, <2>4, <2>5, EndingSound DEF Subjects, IInv, TypeOK
    <2>8. QED
      BY <2>6, <2>7, PrepareKeeps
  <1>6. QED
    BY <1>1, <1>2, <1>3, <1>4, <1>5

LEMMA BlockingsKeep ==
    ASSUME IInv, NEW s \in Sessions
    PROVE  /\ \A owner \in BOOLEAN : CreateBlocking(s, owner) => IInv'
           /\ ApproveBlocking(s) => IInv'
           /\ RejectBlocking(s) => IInv'
  <1>1. ASSUME Prepare(s, Approval)
        PROVE  IInv'
    <2>. DEFINE ends == Whole \cup LastOccurrence(Single)
                loses == (Whole \X Times) \cup Single
    <2>0. PICK w : w = Approval
      OBVIOUS
    <2>1. w = [on |-> Blocking, series |-> {}, lost |-> {}, accepts |-> FALSE,
               privileged |-> FALSE, ends |-> ends, loses |-> loses,
               state |-> "accepted"]
      BY <2>0 DEF Approval, Nothing
    <2>2. /\ ends \subseteq Bookings /\ loses \subseteq Bookings \X Times
          /\ Whole \subseteq Bookings
      BY DEF Whole, Single, LastOccurrence
    <2>3. \A e \in ends : Exists(e) /\ \A d \in Valid(e) : <<e, d>> \in loses
      <3>1. ASSUME NEW e \in Whole
            PROVE  Exists(e) /\ \A d \in Valid(e) : <<e, d>> \in loses
        BY <2>2, ValidTimes DEF Whole, Live, IInv
      <3>2. ASSUME NEW e \in LastOccurrence(Single)
            PROVE  Exists(e) /\ \A d \in Valid(e) : <<e, d>> \in loses
        <4>1. Valid(e) # {} /\ \A d \in Valid(e) : <<e, d>> \in Single
          BY DEF LastOccurrence
        <4>2. QED
          BY <4>1 DEF Valid, Exists
      <3>3. QED
        BY <3>1, <3>2
    <2>. HIDE DEF ends, loses
    <2>4. w \in Works /\ Sound(w)
      BY <2>1, <2>2, <2>3, EndingSound DEF Subjects
    <2>5. QED
      BY <1>1, <2>0, <2>4, PrepareKeeps
  <1>2. ASSUME NEW state \in {"pending", "rejected"},
               Prepare(s, [Nothing(Blocking) EXCEPT !.state = state])
        PROVE  IInv'
    <2>0. PICK w : w = [Nothing(Blocking) EXCEPT !.state = state]
      OBVIOUS
    <2>1. w = [on |-> Blocking, series |-> {}, lost |-> {}, accepts |-> FALSE,
               privileged |-> FALSE, ends |-> {}, loses |-> {}, state |-> state]
      BY <2>0 DEF Nothing
    <2>2. w \in Works /\ Sound(w)
      BY <2>1, EndingSound DEF Subjects
    <2>3. Prepare(s, w)
      BY <1>2, <2>0
    <2>4. QED
      BY <2>2, <2>3, PrepareKeeps
  <1>3. QED
    BY <1>1, <1>2 DEF CreateBlocking, ApproveBlocking, RejectBlocking
-------------------------------------------------------------------------------
(* Committing *)

\* What a commit does to the bookings.
LEMMA CommitWrites ==
    ASSUME IInv, NEW s \in Sessions, Commit(s), NEW w, w = work[s]
    PROVE  /\ w \in Works /\ w # Idle /\ Sound(w)
           /\ \A r \in Bookings :
                 /\ w.series # {} /\ r = w.on =>
                       times'[r] = w.series /\ Valid(r)' = w.series \ w.lost
                 /\ w.series = {} \/ r # w.on =>
                       /\ times'[r] = times[r]
                       /\ Valid(r)' = {d \in Valid(r) : <<r, d>> \notin w.loses}
           /\ accepted' = accepted \cup (IF w.accepts THEN {w.on} ELSE {})
           /\ ended' = ended \cup w.ends
           /\ raced \subseteq raced'
           /\ \A t \in Sessions \ {s} :
                 /\ work'[t] = work[t]
                 /\ work[t] # Idle =>
                       \A x \in Touched(w), y \in Touched(work[t]) :
                          <<x, y>> \in raced' /\ <<y, x>> \in raced'
           /\ work'[s] = Idle
  <1>1. /\ work[s] # Idle
        /\ times' = IF w.series # {} THEN [times EXCEPT ![w.on] = w.series] ELSE times
        /\ lost' = LostAfter(w)
        /\ accepted' = accepted \cup (IF w.accepts THEN {w.on} ELSE {})
        /\ ended' = ended \cup w.ends
        /\ raced' = raced \cup Overlap(s)
        /\ work' = [work EXCEPT ![s] = Idle]
    BY DEF Commit
  <1>2. w \in Works /\ w # Idle /\ Sound(w)
    BY <1>1 DEF IInv, TypeOK
  <1>3. ASSUME NEW r \in Bookings
        PROVE  /\ w.series # {} /\ r = w.on =>
                     times'[r] = w.series /\ Valid(r)' = w.series \ w.lost
               /\ w.series = {} \/ r # w.on =>
                     /\ times'[r] = times[r]
                     /\ Valid(r)' = {d \in Valid(r) : <<r, d>> \notin w.loses}
    <2>1. lost'[r] = IF w.series # {} /\ r = w.on THEN w.lost
                     ELSE lost[r] \cup {d \in times[r] : <<r, d>> \in w.loses}
      BY <1>1 DEF LostAfter
    <2>2. times'[r] = IF w.series # {} /\ r = w.on THEN w.series ELSE times[r]
      BY <1>1 DEF IInv, TypeOK
    <2>3. QED
      BY <2>1, <2>2 DEF Valid
  <1>4. ASSUME NEW t \in Sessions \ {s}
        PROVE  /\ work'[t] = work[t]
               /\ work[t] # Idle =>
                     \A x \in Touched(w), y \in Touched(work[t]) :
                        <<x, y>> \in raced' /\ <<y, x>> \in raced'
    <2>1. work'[t] = work[t]
      BY <1>1 DEF IInv, TypeOK
    <2>2. ASSUME work[t] # Idle
          PROVE  Touched(work[t]) \subseteq UNION {Touched(work[u]) : u \in Active \ {s}}
      BY <2>2 DEF Active
    <2>3. QED
      BY <1>1, <2>1, <2>2 DEF Overlap
  <1>5. work'[s] = Idle
    BY <1>1 DEF IInv, TypeOK
  <1>6. QED
    BY <1>1, <1>2, <1>3, <1>4, <1>5

\* A booking a request does not touch stays as it was.
LEMMA Untouched ==
    ASSUME IInv, NEW s \in Sessions, Commit(s), NEW r \in Bookings,
           r \notin Touched(work[s])
    PROVE  /\ Valid(r)' = Valid(r)
           /\ r \in accepted' <=> r \in accepted
           /\ r \in ended' <=> r \in ended
  <1>1. PICK w : w = work[s]
    OBVIOUS
  <1>2. r # w.on /\ r \notin w.ends /\ \A d : <<r, d>> \notin w.loses
    BY <1>1 DEF Touched
  <1>3. /\ Valid(r)' = {d \in Valid(r) : <<r, d>> \notin w.loses}
        /\ accepted' = accepted \cup (IF w.accepts THEN {w.on} ELSE {})
        /\ ended' = ended \cup w.ends
    BY <1>1, <1>2, CommitWrites
  <1>4. Valid(r)' = Valid(r)
    BY <1>2, <1>3
  <1>5. QED
    BY <1>2, <1>3, <1>4

LEMMA ExistsAfter ==
    ASSUME IInv, NEW s \in Sessions, Commit(s), NEW r \in Bookings, Exists(r)
    PROVE  Exists(r)'
  <1>1. PICK w : w = work[s]
    OBVIOUS
  <1>2. \/ times'[r] = times[r]
        \/ times'[r] = w.series /\ w.series # {}
    BY <1>1, CommitWrites
  <1>3. QED
    BY <1>2 DEF Exists
LEMMA CommitTypes ==
    ASSUME IInv, NEW s \in Sessions, Commit(s)
    PROVE  TypeOK'
  <1>1. PICK w : w = work[s]
    OBVIOUS
  <1>2. /\ w \in Works /\ w # Idle /\ Sound(w) /\ TypeOK
        /\ times' = IF w.series # {} THEN [times EXCEPT ![w.on] = w.series] ELSE times
        /\ lost' = LostAfter(w)
        /\ accepted' = accepted \cup (IF w.accepts THEN {w.on} ELSE {})
        /\ ended' = ended \cup w.ends
        /\ privileged' = privileged \cup
              (IF w.series # {} /\ times[w.on] = {} /\ w.privileged
               THEN {w.on} ELSE {})
        /\ overriding' = IF w.series = {} THEN overriding
                         ELSE IF w.privileged THEN overriding \cup {w.on}
                         ELSE overriding \ {w.on}
        /\ blocked' = IF w.on = Blocking THEN w.state ELSE blocked
        /\ raced' = raced \cup Overlap(s)
        /\ work' = [work EXCEPT ![s] = Idle]
        /\ requests' = requests
    BY <1>1, CommitWrites DEF Commit, IInv
  <1>3. /\ w.on \in Subjects /\ w.series \in Series \cup {{}} /\ w.lost \in SUBSET Times
        /\ w.accepts \in BOOLEAN /\ w.ends \subseteq Bookings
        /\ w.loses \subseteq Bookings \X Times
        /\ w.state \in {"none", "pending", "accepted", "rejected"}
    BY <1>2 DEF Works
  <1>4. /\ w.series # {} => w.on \in Bookings /\ w.lost \subseteq w.series
        /\ w.accepts => w.on \in Bookings
    BY <1>2 DEF Sound, Clear, Acceptable
  <1>5. times' \in [Bookings -> Series \cup {{}}]
    BY <1>2, <1>3, <1>4 DEF TypeOK
  <1>6. ASSUME NEW r \in Bookings
        PROVE  lost'[r] \subseteq times'[r] /\ lost'[r] \in SUBSET Times
    <2>1. lost'[r] = IF w.series # {} /\ r = w.on THEN w.lost
                     ELSE lost[r] \cup {d \in times[r] : <<r, d>> \in w.loses}
      BY <1>2 DEF LostAfter
    <2>2. times'[r] = IF w.series # {} /\ r = w.on THEN w.series ELSE times[r]
      BY <1>2 DEF TypeOK
    <2>3. lost[r] \subseteq times[r] /\ times[r] \in SUBSET Times
      BY <1>2, BookingAssumption DEF TypeOK
    <2>4. QED
      BY <1>3, <1>4, <2>1, <2>2, <2>3
  <1>7. lost' \in [Bookings -> SUBSET Times]
    BY <1>2, <1>6 DEF LostAfter
  <1>8. /\ accepted' \subseteq Bookings /\ ended' \subseteq Bookings
        /\ privileged' \subseteq Bookings /\ overriding' \subseteq Bookings
        /\ blocked' \in {"none", "pending", "accepted", "rejected"}
        /\ requests' \in 0 .. MaxRequests
    BY <1>2, <1>3, <1>4 DEF TypeOK
  <1>9. work' \in [Sessions -> Works \cup {Idle}]
    BY <1>2 DEF TypeOK
  <1>10. raced' \subseteq Subjects \X Subjects
    <2>1. ASSUME NEW t \in Sessions, work[t] # Idle
          PROVE  Touched(work[t]) \subseteq Subjects
      <3>1. work[t] \in Works
        BY <1>2, <2>1 DEF TypeOK
      <3>2. PICK v : v = work[t]
        OBVIOUS
      <3>3. /\ v.on \in Subjects /\ v.ends \subseteq Bookings
            /\ v.loses \subseteq Bookings \X Times
        BY <3>1, <3>2 DEF Works
      <3>4. QED
        BY <3>2, <3>3 DEF Touched, Subjects
    <2>2. UNION {Touched(work[t]) : t \in Active \ {s}} \subseteq Subjects
      BY <2>1 DEF Active
    <2>3. Touched(work[s]) \subseteq Subjects
      BY <1>1, <1>2, <2>1
    <2>4. Overlap(s) \subseteq Subjects \X Subjects
      BY <2>2, <2>3 DEF Overlap
    <2>5. QED
      BY <1>2, <2>4 DEF TypeOK
  <1>11. QED
    BY <1>5, <1>6, <1>7, <1>8, <1>9, <1>10 DEF TypeOK

\* The writes of the requests that go on remain sound: those that touch a booking
\* this one touches have overlapped with it.
LEMMA CommitLeavesSound ==
    ASSUME IInv, NEW s \in Sessions, Commit(s), NEW t \in Sessions, work'[t] # Idle
    PROVE  Sound(work[t])'
  <1>1. PICK w : w = work[s]
    OBVIOUS
  <1>2. PICK v : v = work[t]
    OBVIOUS
  <1>3. /\ work'[t] = v /\ v # Idle /\ Sound(v) /\ raced \subseteq raced'
        /\ \A x \in Touched(w), y \in Touched(v) : <<x, y>> \in raced' /\ <<y, x>> \in raced'
    BY <1>1, <1>2, CommitWrites DEF IInv
  <1>4. v.on \in Touched(v) /\ v.ends \subseteq Touched(v)
    BY DEF Touched
  <1>5. \A x, y : Apart(x, y)' => Apart(x, y)
    BY <1>3 DEF Apart
  <1>6. \A x, y : Apart(x, y)' => <<x, y>> \notin raced' /\ <<x, x>> \notin raced'
    BY DEF Apart
  <1>7. ASSUME NEW o \in Bookings, ApartFrom(v.on, o)'
        PROVE  /\ ApartFrom(v.on, o)
               /\ Valid(o)' = Valid(o) /\ (o \in accepted' <=> o \in accepted)
               /\ v.on \notin Touched(w)
    <2>1. o # v.on /\ Apart(v.on, o)'
      BY <1>7 DEF ApartFrom
    <2>2. o \notin Touched(w) /\ v.on \notin Touched(w)
      BY <1>3, <1>4, <1>6, <2>1
    <2>3. QED
      BY <1>1, <1>5, <2>1, <2>2, Untouched DEF ApartFrom
  <1>8. Clear(v)'
    <2>1. SUFFICES ASSUME v.series # {}
                   PROVE  Clear(v)'
      BY DEF Clear
    <2>2. v.on \in Bookings /\ v.on \notin v.ends /\ v.lost \subseteq v.series
      BY <1>3, <2>1 DEF Sound, Clear
    <2>3. \A o \in Bookings : ApartFrom(v.on, o)' =>
              /\ o \in accepted' => (v.series \ v.lost) \cap Valid(o)' = {}
              /\ v.accepts => \A d \in (v.series \ v.lost) \cap Valid(o)' :
                                  <<o, d>> \in v.loses
      BY <1>3, <1>7, <2>1 DEF Sound, Clear
    <2>4. /\ v.on \in accepted' => v.accepts \/ <<v.on, v.on>> \in raced'
          /\ v.on \notin ended' \/ <<v.on, v.on>> \in raced'
      <3>1. CASE v.on \in Touched(w)
        BY <1>3, <1>4, <3>1
      <3>2. CASE v.on \notin Touched(w)
        <4>1. (v.on \in accepted' <=> v.on \in accepted) /\ (v.on \in ended' <=> v.on \in ended)
          BY <1>1, <2>2, <3>2, Untouched
        <4>2. QED
          BY <1>3, <2>1, <4>1 DEF Sound, Clear
      <3>3. QED
        BY <3>1, <3>2
    <2>5. QED
      BY <2>2, <2>3, <2>4 DEF Clear
  <1>9. Acceptable(v)'
    <2>1. SUFFICES ASSUME v.accepts, v.series = {}
                   PROVE  Acceptable(v)'
      BY DEF Acceptable
    <2>2. v.on \in Bookings /\ Exists(v.on)
      BY <1>3, <2>1 DEF Sound, Acceptable
    <2>3. Exists(v.on)'
      BY <2>2, ExistsAfter
    <2>4. ASSUME NEW o \in Bookings, ApartFrom(v.on, o)'
          PROVE  Valid(o)' \cap Valid(v.on)' = {}
      <3>1. Valid(v.on)' = Valid(v.on)
        BY <1>1, <1>7, <2>2, <2>4, Untouched
      <3>2. QED
        BY <1>3, <1>7, <2>1, <2>4, <3>1 DEF Sound, Acceptable
    <2>5. QED
      BY <2>2, <2>3, <2>4 DEF Acceptable
  <1>10. Ending(v)'
    <2>1. ASSUME NEW e \in v.ends
          PROVE  /\ Exists(e)'
                 /\ \/ <<e, e>> \in raced'
                    \/ \A d \in Valid(e)' : <<e, d>> \in v.loses
      <3>1. e \in Bookings
        <4>1. v \in Works
          BY <1>2, <1>3 DEF IInv, TypeOK
        <4>2. QED
          BY <2>1, <4>1 DEF Works
      <3>2. Exists(e)
        BY <1>3, <2>1 DEF Sound, Ending
      <3>3. CASE e \in Touched(w)
        BY <1>3, <1>4, <2>1, <3>1, <3>2, <3>3, ExistsAfter
      <3>4. CASE e \notin Touched(w)
        <4>1. Valid(e)' = Valid(e)
          BY <1>1, <3>1, <3>4, Untouched
        <4>2. QED
          BY <1>3, <2>1, <3>1, <3>2, <4>1, ExistsAfter DEF Sound, Ending
      <3>5. QED
        BY <3>3, <3>4
    <2>2. QED
      BY <2>1 DEF Ending
  <1>11. QED
    BY <1>3, <1>8, <1>9, <1>10 DEF Sound
LEMMA CommitBooksOnce ==
    ASSUME IInv, NEW s \in Sessions, Commit(s)
    PROVE  NoDoubleBooking' /\ EndedHoldsNothing'
  <1>1. PICK w : w = work[s]
    OBVIOUS
  <1>2. /\ w \in Works /\ Sound(w) /\ raced \subseteq raced'
        /\ accepted' = accepted \cup (IF w.accepts THEN {w.on} ELSE {})
        /\ ended' = ended \cup w.ends
        /\ TypeOK /\ NoDoubleBooking /\ EndedHoldsNothing
    BY <1>1, CommitWrites DEF IInv
  <1>3. ASSUME NEW r \in Bookings
        PROVE  /\ w.series # {} /\ r = w.on => Valid(r)' = w.series \ w.lost
               /\ w.series = {} \/ r # w.on =>
                     Valid(r)' = {d \in Valid(r) : <<r, d>> \notin w.loses}
    BY <1>1, CommitWrites
  <1>4. \A x, y : Apart(x, y)' => Apart(x, y) /\ <<x, x>> \notin raced
    BY <1>2 DEF Apart
  <1>5. ASSUME NEW r \in accepted', NEW o \in Bookings \ {r}, Apart(r, o)'
        PROVE  Valid(r)' \cap Valid(o)' = {}
    <2>1. r \in Bookings /\ Apart(r, o) /\ Apart(o, r)
      <3>1. r \in Bookings
        BY <1>2 DEF TypeOK, Sound, Clear, Acceptable
      <3>2. QED
        BY <1>4, <1>5, <3>1 DEF Apart
    <2>2. CASE w.series = {}
      <3>1. Valid(r)' \subseteq Valid(r) /\ Valid(o)' \subseteq Valid(o)
        BY <1>3, <2>1, <2>2
      <3>2. CASE r \in accepted
        BY <1>2, <2>1, <3>1, <3>2 DEF NoDoubleBooking
      <3>3. CASE r \notin accepted
        <4>1. w.accepts /\ r = w.on
          BY <1>2, <3>3
        <4>2. Valid(o) \cap Valid(r) = {}
          BY <1>2, <2>1, <2>2, <4>1 DEF Sound, Acceptable, ApartFrom
        <4>3. QED
          BY <3>1, <4>2
      <3>4. QED
        BY <3>2, <3>3
    <2>3. CASE w.series # {} /\ r = w.on
      <3>1. /\ Valid(r)' = w.series \ w.lost
            /\ Valid(o)' = {d \in Valid(o) : <<o, d>> \notin w.loses}
        BY <1>3, <2>1, <2>3
      <3>2. w.accepts
        BY <1>2, <1>4, <1>5, <2>3 DEF Sound, Clear
      <3>3. \A d \in (w.series \ w.lost) \cap Valid(o) : <<o, d>> \in w.loses
        BY <1>2, <2>1, <2>3, <3>2 DEF Sound, Clear, ApartFrom
      <3>4. QED
        BY <3>1, <3>3
    <2>4. CASE w.series # {} /\ o = w.on
      <3>1. /\ Valid(o)' = w.series \ w.lost
            /\ Valid(r)' = {d \in Valid(r) : <<r, d>> \notin w.loses}
        BY <1>3, <2>1, <2>4
      <3>2. r \in accepted
        BY <1>2, <2>4
      <3>3. (w.series \ w.lost) \cap Valid(r) = {}
        BY <1>2, <2>1, <2>4, <3>2 DEF Sound, Clear, ApartFrom
      <3>4. QED
        BY <3>1, <3>3
    <2>5. CASE w.series # {} /\ r # w.on /\ o # w.on
      <3>1. Valid(r)' \subseteq Valid(r) /\ Valid(o)' \subseteq Valid(o)
        BY <1>3, <2>1, <2>5
      <3>2. r \in accepted
        BY <1>2, <2>5
      <3>3. QED
        BY <1>2, <2>1, <3>1, <3>2 DEF NoDoubleBooking
    <2>6. QED
      BY <2>2, <2>3, <2>4, <2>5
  <1>6. ASSUME NEW r \in ended', Apart(r, r)'
        PROVE  Valid(r)' = {}
    <2>1. r \in Bookings
      BY <1>2 DEF TypeOK, Works
    <2>2. Apart(r, r) /\ <<r, r>> \notin raced
      BY <1>4, <1>6
    <2>3. CASE w.series # {} /\ r = w.on
      <3>1. r \notin ended /\ r \notin w.ends
        BY <1>2, <2>2, <2>3 DEF Sound, Clear
      <3>2. QED
        BY <1>2, <1>6, <3>1
    <2>4. CASE w.series = {} \/ r # w.on
      <3>1. Valid(r)' = {d \in Valid(r) : <<r, d>> \notin w.loses}
        BY <1>3, <2>1, <2>4
      <3>2. CASE r \in ended
        BY <1>2, <2>2, <3>1, <3>2 DEF EndedHoldsNothing
      <3>3. CASE r \in w.ends
        BY <1>2, <2>2, <3>1, <3>3 DEF Sound, Ending
      <3>4. QED
        BY <1>2, <1>6, <3>2, <3>3
    <2>5. QED
      BY <2>3, <2>4
  <1>7. QED
    BY <1>5, <1>6 DEF NoDoubleBooking, EndedHoldsNothing

LEMMA CommitKeeps ==
    ASSUME IInv, NEW s \in Sessions, Commit(s)
    PROVE  IInv'
  <1>1. PICK w : w = work[s]
    OBVIOUS
  <1>2. ASSUME NEW r \in accepted' \cup ended'
        PROVE  Exists(r)'
    <2>1. r \in accepted \cup ended \cup w.ends \/ (w.accepts /\ r = w.on)
      BY <1>1, <1>2, CommitWrites
    <2>2. Sound(w) /\ w \in Works
      BY <1>1, CommitWrites
    <2>3. r \in Bookings
      BY <2>1, <2>2 DEF IInv, TypeOK, Works, Sound, Clear, Acceptable
    <2>4. CASE Exists(r)
      BY <2>3, <2>4, ExistsAfter
    <2>5. CASE ~Exists(r)
      <3>1. w.accepts /\ r = w.on
        BY <2>1, <2>2, <2>5 DEF IInv, Sound, Ending
      <3>2. w.series # {}
        BY <2>2, <2>5, <3>1 DEF Sound, Acceptable
      <3>3. times'[r] = w.series
        BY <1>1, <2>3, <3>1, <3>2, CommitWrites
      <3>4. QED
        BY <3>2, <3>3 DEF Exists
    <2>6. QED
      BY <2>4, <2>5
  <1>3. QED
    BY <1>2, CommitTypes, CommitLeavesSound, CommitBooksOnce DEF IInv

LEMMA FailKeeps ==
    ASSUME IInv, NEW s \in Sessions, Fail(s)
    PROVE  IInv'
  <1>1. /\ work' = [work EXCEPT ![s] = Idle]
        /\ UNCHANGED <<times, lost, accepted, ended, privileged, blocked, requests,
                       overriding, raced>>
    BY DEF Fail, bookings, history
  <1>2. TypeOK'
    BY <1>1 DEF IInv, TypeOK
  <1>3. ASSUME NEW t \in Sessions, work'[t] # Idle
        PROVE  Sound(work[t])'
    <2>1. work'[t] = work[t] /\ Sound(work[t])
      BY <1>1, <1>3 DEF IInv, TypeOK
    <2>2. QED
      BY <1>1, <2>1 DEF Sound, Clear, Acceptable, Ending, Valid, Exists, ApartFrom, Apart
  <1>4. (\A r \in accepted \cup ended : Exists(r))'
    BY <1>1 DEF IInv, Exists
  <1>5. NoDoubleBooking'
    BY <1>1 DEF IInv, NoDoubleBooking, Valid, Apart
  <1>6. EndedHoldsNothing'
    BY <1>1 DEF IInv, EndedHoldsNothing, Valid, Apart
  <1>7. QED
    BY <1>2, <1>3, <1>4, <1>5, <1>6 DEF IInv
-------------------------------------------------------------------------------
(* Deleting *)

LEMMA DroppingTypes ==
    ASSUME TypeOK, NEW x, work' = Dropping(x), raced' = Forgetting(x)
    PROVE  /\ work' \in [Sessions -> Works \cup {Idle}]
           /\ raced' \subseteq Subjects \X Subjects
           /\ \A t \in Sessions : work'[t] # Idle =>
                 work'[t] = work[t] /\ x \notin Touched(work[t])
           /\ \A y, z : y # x /\ z # x /\ Apart(y, z)' => Apart(y, z)
           /\ \A y, z : y # x /\ z # x /\ <<y, z>> \in raced => <<y, z>> \in raced'
  <1>1. ASSUME NEW t \in Sessions
        PROVE  work'[t] = IF work[t] # Idle /\ x \in Touched(work[t]) THEN Idle
                          ELSE work[t]
    BY DEF Dropping, Active
  <1>2. work' \in [Sessions -> Works \cup {Idle}]
    <2>1. DOMAIN work' = Sessions /\ work' = [t \in Sessions |-> work'[t]]
      BY DEF Dropping
    <2>2. QED
      BY <1>1, <2>1 DEF TypeOK
  <1>3. raced' \subseteq Subjects \X Subjects
    BY DEF Forgetting, TypeOK
  <1>4. ASSUME NEW y, NEW z, y # x, z # x
        PROVE  /\ Apart(y, z)' => Apart(y, z)
               /\ <<y, z>> \in raced => <<y, z>> \in raced'
    <2>1. \A p \in raced \cap ({y, z} \X {y, z}) : p \in raced'
      BY <1>4 DEF Forgetting
    <2>2. <<y, z>> \in raced => <<y, z>> \in raced'
      BY <1>4 DEF Forgetting
    <2>3. QED
      BY <2>1, <2>2 DEF Apart
  <1>5. QED
    BY <1>1, <1>2, <1>3, <1>4

LEMMA DeleteKeeps ==
    ASSUME IInv, NEW x \in Bookings, Delete(x)
    PROVE  IInv'
  <1>1. /\ times' = [times EXCEPT ![x] = {}] /\ lost' = [lost EXCEPT ![x] = {}]
        /\ accepted' = accepted \ {x} /\ ended' = ended \ {x}
        /\ privileged' = privileged \ {x} /\ overriding' = overriding \ {x}
        /\ UNCHANGED <<blocked, requests>>
    BY DEF Delete
  <1>2. /\ work' \in [Sessions -> Works \cup {Idle}]
        /\ raced' \subseteq Subjects \X Subjects
        /\ \A t \in Sessions : work'[t] # Idle =>
              work'[t] = work[t] /\ x \notin Touched(work[t])
        /\ \A y, z : y # x /\ z # x /\ Apart(y, z)' => Apart(y, z)
        /\ \A y, z : y # x /\ z # x /\ <<y, z>> \in raced => <<y, z>> \in raced'
    BY DroppingTypes DEF Delete, IInv
  <1>3. TypeOK'
    BY <1>1, <1>2 DEF IInv, TypeOK
  <1>4. ASSUME NEW r \in Bookings
        PROVE  /\ r # x => /\ times'[r] = times[r] /\ Valid(r)' = Valid(r)
                           /\ Exists(r)' <=> Exists(r)
               /\ Valid(x)' = {}
    <2>1. /\ r # x => times'[r] = times[r] /\ lost'[r] = lost[r]
          /\ times'[x] = {}
      BY <1>1 DEF IInv, TypeOK
    <2>2. QED
      BY <2>1 DEF Valid, Exists
  <1>5. ASSUME NEW t \in Sessions, work'[t] # Idle
        PROVE  Sound(work[t])'
    <2>1. PICK v : v = work[t]
      OBVIOUS
    <2>2. work'[t] = v /\ x \notin Touched(v) /\ Sound(v) /\ v \in Works
      BY <1>2, <1>5, <2>1 DEF IInv, TypeOK
    <2>3. v.on # x /\ x \notin v.ends
      BY <2>2 DEF Touched
    <2>4. Clear(v)'
      <3>1. SUFFICES ASSUME v.series # {}
                     PROVE  Clear(v)'
        BY DEF Clear
      <3>2. /\ v.on \in Bookings /\ v.on \notin v.ends /\ v.lost \subseteq v.series
            /\ v.on \in accepted => v.accepts \/ <<v.on, v.on>> \in raced
            /\ v.on \notin ended \/ <<v.on, v.on>> \in raced
        BY <2>2, <3>1 DEF Sound, Clear
      <3>3. /\ v.on \in accepted' => v.accepts \/ <<v.on, v.on>> \in raced'
            /\ v.on \notin ended' \/ <<v.on, v.on>> \in raced'
        BY <1>1, <1>2, <2>3, <3>2
      <3>4. ASSUME NEW o \in Bookings, ApartFrom(v.on, o)'
            PROVE  /\ o \in accepted' => (v.series \ v.lost) \cap Valid(o)' = {}
                   /\ v.accepts => \A d \in (v.series \ v.lost) \cap Valid(o)' :
                                       <<o, d>> \in v.loses
        <4>1. CASE o = x
          BY <1>4, <4>1
        <4>2. CASE o # x
          <5>1. ApartFrom(v.on, o)
            BY <1>2, <2>3, <3>4, <4>2 DEF ApartFrom
          <5>2. Valid(o)' = Valid(o) /\ (o \in accepted' <=> o \in accepted)
            BY <1>1, <1>4, <4>2
          <5>3. QED
            BY <2>2, <3>1, <5>1, <5>2 DEF Sound, Clear
        <4>3. QED
          BY <4>1, <4>2
      <3>5. QED
        BY <3>2, <3>3, <3>4 DEF Clear
    <2>5. Acceptable(v)'
      <3>1. SUFFICES ASSUME v.accepts, v.series = {}
                     PROVE  Acceptable(v)'
        BY DEF Acceptable
      <3>2. v.on \in Bookings /\ Exists(v.on)
        BY <2>2, <3>1 DEF Sound, Acceptable
      <3>3. Exists(v.on)' /\ Valid(v.on)' = Valid(v.on)
        BY <1>4, <2>3, <3>2
      <3>4. ASSUME NEW o \in Bookings, ApartFrom(v.on, o)'
            PROVE  Valid(o)' \cap Valid(v.on)' = {}
        <4>1. CASE o = x
          BY <1>4, <4>1
        <4>2. CASE o # x
          <5>1. ApartFrom(v.on, o)
            BY <1>2, <2>3, <3>4, <4>2 DEF ApartFrom
          <5>2. QED
            BY <1>4, <2>2, <3>1, <3>3, <4>2, <5>1 DEF Sound, Acceptable
        <4>3. QED
          BY <4>1, <4>2
      <3>5. QED
        BY <3>2, <3>3, <3>4 DEF Acceptable
    <2>6. Ending(v)'
      <3>1. ASSUME NEW e \in v.ends
            PROVE  /\ Exists(e)'
                   /\ \/ <<e, e>> \in raced'
                      \/ \A d \in Valid(e)' : <<e, d>> \in v.loses
        <4>1. e \in Bookings /\ e # x
          BY <2>2, <2>3, <3>1 DEF Works
        <4>2. QED
          BY <1>2, <1>4, <2>2, <3>1, <4>1 DEF Sound, Ending
      <3>2. QED
        BY <3>1 DEF Ending
    <2>7. QED
      BY <2>2, <2>4, <2>5, <2>6 DEF Sound
  <1>6. (\A r \in accepted \cup ended : Exists(r))'
    BY <1>1, <1>4 DEF IInv, TypeOK
  <1>7. NoDoubleBooking'
    <2>1. ASSUME NEW r \in accepted', NEW o \in Bookings \ {r}, Apart(r, o)'
          PROVE  Valid(r)' \cap Valid(o)' = {}
      <3>1. r \in accepted /\ r # x /\ r \in Bookings
        BY <1>1, <2>1 DEF IInv, TypeOK
      <3>2. CASE o = x
        BY <1>4, <3>2
      <3>3. CASE o # x
        <4>1. Apart(r, o)
          BY <1>2, <2>1, <3>1, <3>3
        <4>2. QED
          BY <1>4, <3>1, <3>3, <4>1 DEF IInv, NoDoubleBooking
      <3>4. QED
        BY <3>2, <3>3
    <2>2. QED
      BY <2>1 DEF NoDoubleBooking
  <1>8. EndedHoldsNothing'
    <2>1. ASSUME NEW r \in ended', Apart(r, r)'
          PROVE  Valid(r)' = {}
      <3>1. r \in ended /\ r # x /\ r \in Bookings
        BY <1>1, <2>1 DEF IInv, TypeOK
      <3>2. QED
        BY <1>2, <1>4, <2>1, <3>1 DEF IInv, EndedHoldsNothing
    <2>2. QED
      BY <2>1 DEF EndedHoldsNothing
  <1>9. QED
    BY <1>3, <1>5, <1>6, <1>7, <1>8 DEF IInv
LEMMA DeleteBlockingKeeps ==
    ASSUME IInv, DeleteBlocking
    PROVE  IInv'
  <1>1. /\ blocked' = "none"
        /\ UNCHANGED <<times, lost, accepted, ended, privileged, requests, overriding>>
    BY DEF DeleteBlocking, bookings
  <1>2. /\ work' \in [Sessions -> Works \cup {Idle}]
        /\ raced' \subseteq Subjects \X Subjects
        /\ \A t \in Sessions : work'[t] # Idle =>
              work'[t] = work[t] /\ Blocking \notin Touched(work[t])
        /\ \A y, z : y # Blocking /\ z # Blocking /\ Apart(y, z)' => Apart(y, z)
        /\ \A y, z : y # Blocking /\ z # Blocking /\ <<y, z>> \in raced
                        => <<y, z>> \in raced'
    BY DroppingTypes DEF DeleteBlocking, IInv
  <1>3. \A r \in Bookings : /\ r # Blocking
                            /\ Valid(r)' = Valid(r) /\ (Exists(r)' <=> Exists(r))
    BY <1>1, BookingAssumption DEF Valid, Exists
  <1>4. TypeOK'
    BY <1>1, <1>2 DEF IInv, TypeOK
  <1>5. ASSUME NEW t \in Sessions, work'[t] # Idle
        PROVE  Sound(work[t])'
    <2>1. PICK v : v = work[t]
      OBVIOUS
    <2>2. work'[t] = v /\ Blocking \notin Touched(v) /\ Sound(v) /\ v \in Works
      BY <1>2, <1>5, <2>1 DEF IInv, TypeOK
    <2>3. v.on # Blocking /\ v.on \in Bookings
      BY <2>2 DEF Touched, Works, Subjects
    <2>4. \A o \in Bookings : ApartFrom(v.on, o)' => ApartFrom(v.on, o)
      BY <1>2, <1>3, <2>3 DEF ApartFrom
    <2>5. Clear(v)'
      <3>1. SUFFICES ASSUME v.series # {}
                     PROVE  Clear(v)'
        BY DEF Clear
      <3>2. /\ v.on \in accepted' => v.accepts \/ <<v.on, v.on>> \in raced'
            /\ v.on \notin ended' \/ <<v.on, v.on>> \in raced'
        BY <1>1, <1>2, <2>2, <2>3, <3>1 DEF Sound, Clear
      <3>3. QED
        BY <1>1, <1>3, <2>2, <2>4, <3>1, <3>2 DEF Sound, Clear
    <2>6. Acceptable(v)'
      BY <1>3, <2>2, <2>3, <2>4 DEF Sound, Acceptable
    <2>7. Ending(v)'
      <3>1. v.ends \subseteq Bookings
        BY <2>2 DEF Works
      <3>2. QED
        BY <1>2, <1>3, <2>2, <3>1 DEF Sound, Ending
    <2>8. QED
      BY <2>2, <2>5, <2>6, <2>7 DEF Sound
  <1>6. (\A r \in accepted \cup ended : Exists(r))'
    BY <1>1, <1>3 DEF IInv, TypeOK
  <1>7. NoDoubleBooking'
    <2>1. accepted \subseteq Bookings /\ NoDoubleBooking
      BY DEF IInv, TypeOK
    <2>2. QED
      BY <1>1, <1>2, <1>3, <2>1 DEF NoDoubleBooking
  <1>8. EndedHoldsNothing'
    <2>1. ended \subseteq Bookings /\ EndedHoldsNothing
      BY DEF IInv, TypeOK
    <2>2. QED
      BY <1>1, <1>2, <1>3, <2>1 DEF EndedHoldsNothing
  <1>9. QED
    BY <1>4, <1>5, <1>6, <1>7, <1>8 DEF IInv

-------------------------------------------------------------------------------
(* Every step keeps the invariant *)

LEMMA Inductive == IInv /\ [Next]_vars => IInv'
  <1>1. SUFFICES ASSUME IInv, [Next]_vars
                 PROVE  IInv'
    OBVIOUS
  <1>2. CASE UNCHANGED vars
    <2>1. UNCHANGED <<times, lost, accepted, ended, privileged, blocked, work, requests,
                      overriding, raced>>
      BY <1>2 DEF vars, bookings, history
    <2>2. TypeOK'
      BY <1>1, <2>1 DEF IInv, TypeOK
    <2>3. ASSUME NEW t \in Sessions, work'[t] # Idle
          PROVE  Sound(work[t])'
      BY <1>1, <2>1, <2>3 DEF IInv, Sound, Clear, Acceptable, Ending, Valid, Exists, ApartFrom,
                        Apart
    <2>4. (\A r \in accepted \cup ended : Exists(r))'
      BY <1>1, <2>1 DEF IInv, Exists
    <2>5. NoDoubleBooking'
      BY <1>1, <2>1 DEF IInv, NoDoubleBooking, Valid, Apart
    <2>6. EndedHoldsNothing'
      BY <1>1, <2>1 DEF IInv, EndedHoldsNothing, Valid, Apart
    <2>7. QED
      BY <2>2, <2>3, <2>4, <2>5, <2>6 DEF IInv
  <1>3. CASE Next
    <2>1. CASE \E s \in Sessions, r \in Bookings :
                  \/ \E D \in Series, override \in BOOLEAN :
                        \/ \E confirmed \in BOOLEAN :
                              Create(s, r, D, confirmed, override)
                        \/ Modify(s, r, D, override)
                  \/ Accept(s, r) \/ End(s, r) \/ \E d \in Times : EndDay(s, r, d)
      BY <1>1, <2>1, RequestsKeep
    <2>2. CASE \E s \in Sessions :
                  \/ \E owner \in BOOLEAN : CreateBlocking(s, owner)
                  \/ ApproveBlocking(s) \/ RejectBlocking(s) \/ Commit(s) \/ Fail(s)
      BY <1>1, <2>2, BlockingsKeep, CommitKeeps, FailKeeps
    <2>3. CASE (\E r \in Bookings : Delete(r)) \/ DeleteBlocking
      BY <1>1, <2>3, DeleteKeeps, DeleteBlockingKeeps
    <2>4. QED
      BY <1>3, <2>1, <2>2, <2>3 DEF Next
  <1>4. QED
    BY <1>1, <1>2, <1>3

LEMMA Holds == Spec => []IInv
  <1>1. Init => IInv
    BY Start
  <1>2. QED
    BY <1>1, Inductive, PTL DEF Spec

-------------------------------------------------------------------------------
(* What a request leaves of others *)

\* A request takes from a booking all that it holds only if it ends it, and renews
\* none without giving it something.
Leaving(w) ==
    /\ w.series # {} => w.lost # w.series
    /\ \A r \in Bookings :
          /\ r # w.on \/ w.series = {}
          /\ Valid(r) # {} /\ \A d \in Valid(r) : <<r, d>> \in w.loses
          => r \in w.ends \/ <<r, r>> \in raced

\* New occurrences keep off an accepted blocking that was noticed.
Heeding(w) ==
    /\ w.series # {} /\ ~w.privileged /\ blocked = "accepted"
    /\ Apart(w.on, Blocking) /\ (w.series \ w.lost) \cap BlockedTimes # {}
    => ~Noticed(w.series)

\* An approval takes the blocked times from whoever may not override the blocking.
Clearing(w) ==
    w.on = Blocking /\ w.state = "accepted" =>
        \A r \in Bookings \ (privileged \cup overriding) :
            Apart(r, Blocking) => \A d \in Valid(r) \cap BlockedTimes : <<r, d>> \in w.loses

\* A request for a booking takes nothing from another that is confirmed.
Gentle(w) ==
    w.on \in Bookings =>
        \A p \in w.loses :
            p[1] = w.on \/ p[1] \notin accepted \/ <<w.on, p[1]>> \in raced

\* New occurrences do not bring back dates that were lost.
Remembering(w) ==
    w.series # {} => <<w.on, w.on>> \in raced \/ LostDates(w.on, w.series) \subseteq w.lost

Careful(w) ==
    Leaving(w) /\ Heeding(w) /\ Clearing(w) /\ Gentle(w) /\ Remembering(w)

AllCareful == \A s \in Sessions : work[s] # Idle => Careful(work[s])

Left == IInv /\ AllCareful /\ LiveHoldsSomething /\ BlockingRespected

LEMMA OccurrencesCareful ==
    ASSUME IInv, NEW r \in Bookings, NEW D \in Series, NEW confirmed \in BOOLEAN,
           NEW override \in BOOLEAN, NEW more \in SUBSET D,
           NEW w, w = [Occurrences(r, D, confirmed, override)
                          EXCEPT !.lost = Skipped(r, D, override) \cup more],
           w.lost # D, LostDates(r, D) \subseteq w.lost
    PROVE  Careful(w)
  <1>. DEFINE skipped == Skipped(r, D, override)
              losses == IF confirmed THEN PendingOn(r, D \ skipped) ELSE {}
  <1>1. /\ w.on = r /\ w.series = D /\ w.lost = skipped \cup more
        /\ w.loses = losses /\ w.ends = LastOccurrence(losses)
        /\ w.privileged = override
    BY DEF Occurrences, Nothing
  <1>2. r # Blocking
    BY BookingAssumption
  <1>3. \A p \in losses : p[1] \notin accepted
    BY DEF PendingOn
  <1>4. \A o \in Bookings : Valid(o) # {} /\ (\A d \in Valid(o) : <<o, d>> \in losses)
                               => o \in LastOccurrence(losses)
    BY DEF LastOccurrence
  <1>5. ~override /\ blocked = "accepted" /\ Noticed(D) => D \cap BlockedTimes \subseteq skipped
    BY DEF Skipped
  <1>. HIDE DEF skipped, losses
  <1>6. Leaving(w)
    BY <1>1, <1>4 DEF Leaving
  <1>7. Heeding(w)
    BY <1>1, <1>5 DEF Heeding
  <1>8. Clearing(w) /\ Gentle(w) /\ Remembering(w)
    BY <1>1, <1>2, <1>3 DEF Clearing, Gentle, Remembering
  <1>9. QED
    BY <1>6, <1>7, <1>8 DEF Careful

\* Requests that leave the occurrences of their subject in place.
LEMMA WritesCareful ==
    ASSUME NEW x, NEW ends, NEW loses, NEW w,
           w.on = x, w.series = {}, w.ends = ends, w.loses = loses,
           LastOccurrence(loses) \subseteq ends,
           x \in Bookings => \A p \in loses : p[1] = x,
           Clearing(w)
    PROVE  Careful(w)
  <1>1. Leaving(w)
    BY DEF Leaving, LastOccurrence
  <1>2. Heeding(w) /\ Gentle(w) /\ Remembering(w)
    BY DEF Heeding, Gentle, Remembering
  <1>3. QED
    BY <1>1, <1>2 DEF Careful

\* Every request for a booking is prepared with care.
LEMMA RequestsCareful ==
    ASSUME Left, NEW s \in Sessions, NEW r \in Bookings,
           \/ \E D \in Series, override \in BOOLEAN :
                 \/ \E confirmed \in BOOLEAN : Create(s, r, D, confirmed, override)
                 \/ Modify(s, r, D, override)
           \/ Accept(s, r) \/ End(s, r) \/ \E d \in Times : EndDay(s, r, d)
    PROVE  \E w : Prepare(s, w) /\ Careful(w)
  <1>0. IInv /\ TypeOK /\ r # Blocking
    BY BookingAssumption DEF Left, IInv
  <1>1. ASSUME NEW D \in Series, NEW confirmed \in BOOLEAN, NEW override \in BOOLEAN,
               Create(s, r, D, confirmed, override)
        PROVE  \E w : Prepare(s, w) /\ Careful(w)
    <2>1. PICK w : w = Occurrences(r, D, confirmed, override)
      OBVIOUS
    <2>2. w = [Occurrences(r, D, confirmed, override)
                  EXCEPT !.lost = Skipped(r, D, override) \cup {}]
      BY <2>1 DEF Occurrences, Nothing
    <2>3. Prepare(s, w) /\ w.lost # D /\ times[r] = {}
      BY <1>1, <2>1 DEF Create, Exists
    <2>4. LostDates(r, D) = {}
      BY <1>0, <2>3 DEF LostDates, TypeOK
    <2>5. Careful(w)
      BY <1>0, <2>2, <2>3, <2>4, OccurrencesCareful
    <2>6. QED
      BY <2>3, <2>5
  <1>2. ASSUME NEW D \in Series, NEW override \in BOOLEAN, Modify(s, r, D, override)
        PROVE  \E w : Prepare(s, w) /\ Careful(w)
    <2>. DEFINE confirmed == r \in accepted
    <2>1. confirmed \in BOOLEAN
      OBVIOUS
    <2>2. PICK o : o = Occurrences(r, D, confirmed, override)
      OBVIOUS
    <2>3. PICK w : w = [o EXCEPT !.lost = Skipped(r, D, override) \cup LostDates(r, D)]
      OBVIOUS
    <2>4. o.lost = Skipped(r, D, override) /\ "lost" \in DOMAIN o
      BY <2>2 DEF Occurrences, Nothing
    <2>5. Prepare(s, w) /\ Skipped(r, D, override) \cup LostDates(r, D) # D
      BY <1>2, <2>2, <2>3, <2>4 DEF Modify, Restored
    <2>. HIDE DEF confirmed
    <2>6. LostDates(r, D) \in SUBSET D
      BY DEF LostDates
    <2>7. w.lost = Skipped(r, D, override) \cup LostDates(r, D)
      BY <2>3, <2>4
    <2>8. Careful(w)
      BY <1>0, <2>1, <2>2, <2>3, <2>5, <2>6, <2>7, OccurrencesCareful
    <2>9. QED
      BY <2>5, <2>8
  <1>3. ASSUME Accept(s, r)
        PROVE  \E w : Prepare(s, w) /\ Careful(w)
    <2>1. PICK w : w = [Nothing(r) EXCEPT !.accepts = TRUE]
      OBVIOUS
    <2>2. w.on = r /\ w.series = {} /\ w.ends = {} /\ w.loses = {}
      BY <2>1 DEF Nothing
    <2>3. LastOccurrence({}) \subseteq {}
      BY DEF LastOccurrence
    <2>4. Careful(w)
      BY <1>0, <2>2, <2>3, WritesCareful DEF Clearing
    <2>5. QED
      BY <1>3, <2>1, <2>4 DEF Accept
  <1>4. ASSUME End(s, r)
        PROVE  \E w : Prepare(s, w) /\ Careful(w)
    <2>1. PICK w : w = [Nothing(r) EXCEPT !.ends = {r}, !.loses = {r} \X Times]
      OBVIOUS
    <2>2. w.on = r /\ w.series = {} /\ w.ends = {r} /\ w.loses = {r} \X Times
      BY <2>1 DEF Nothing
    <2>3. LastOccurrence({r} \X Times) \subseteq {r}
      BY DEF LastOccurrence
    <2>4. Careful(w)
      BY <1>0, <2>2, <2>3, WritesCareful DEF Clearing
    <2>5. QED
      BY <1>4, <2>1, <2>4 DEF End
  <1>5. ASSUME NEW d \in Times, EndDay(s, r, d)
        PROVE  \E w : Prepare(s, w) /\ Careful(w)
    <2>. DEFINE ends == LastOccurrence({<<r, d>>})
                loses == IF ends = {} THEN {<<r, d>>} ELSE {r} \X Times
    <2>1. PICK w : w = [Nothing(r) EXCEPT !.ends = ends, !.loses = loses]
      OBVIOUS
    <2>2. w.on = r /\ w.series = {} /\ w.ends = ends /\ w.loses = loses
      BY <2>1 DEF Nothing
    <2>3. LastOccurrence(loses) \subseteq ends
      <3>1. ends \subseteq {r}
        BY DEF LastOccurrence
      <3>2. CASE ends = {}
        BY <3>2
      <3>3. CASE ends # {}
        <4>1. ends = {r} /\ loses = {r} \X Times
          BY <3>1, <3>3
        <4>2. QED
          BY <4>1 DEF LastOccurrence
      <3>4. QED
        BY <3>2, <3>3
    <2>4. \A p \in loses : p[1] = r
      <3>1. (\A p \in {<<r, d>>} : p[1] = r) /\ (\A p \in {r} \X Times : p[1] = r)
        OBVIOUS
      <3>2. QED
        BY <3>1
    <2>5. Prepare(s, w)
      BY <1>5, <2>1 DEF EndDay
    <2>. HIDE DEF ends, loses
    <2>6. Careful(w)
      BY <1>0, <2>2, <2>3, <2>4, WritesCareful DEF Clearing
    <2>7. QED
      BY <2>5, <2>6
  <1>6. QED
    BY <1>1, <1>2, <1>3, <1>4, <1>5

\* So is every request for the blocking.
LEMMA BlockingsCareful ==
    ASSUME Left, NEW s \in Sessions,
           \/ \E owner \in BOOLEAN : CreateBlocking(s, owner)
           \/ ApproveBlocking(s) \/ RejectBlocking(s)
    PROVE  \E w : Prepare(s, w) /\ Careful(w)
  <1>0. IInv /\ TypeOK /\ Blocking \notin Bookings
    BY BookingAssumption DEF Left, IInv
  <1>1. ASSUME Prepare(s, Approval)
        PROVE  \E w : Prepare(s, w) /\ Careful(w)
    <2>. DEFINE ends == Whole \cup LastOccurrence(Single)
                loses == (Whole \X Times) \cup Single
    <2>1. PICK w : w = Approval
      OBVIOUS
    <2>2. w.on = Blocking /\ w.series = {} /\ w.ends = ends /\ w.loses = loses
      BY <2>1 DEF Approval, Nothing
    <2>3. LastOccurrence(loses) \subseteq ends
      <3>1. ASSUME NEW r \in LastOccurrence(loses), r \notin Whole
            PROVE  r \in LastOccurrence(Single)
        <4>1. r \in Bookings /\ Valid(r) # {} /\ \A d \in Valid(r) : <<r, d>> \in loses
          BY <3>1 DEF LastOccurrence
        <4>2. \A d \in Valid(r) : <<r, d>> \in Single
          BY <3>1, <4>1
        <4>3. QED
          BY <4>1, <4>2 DEF LastOccurrence
      <3>2. QED
        BY <3>1
    <2>4. Clearing(w)
      <3>1. ASSUME NEW r \in Bookings \ (privileged \cup overriding), Apart(r, Blocking),
                   NEW d \in Valid(r) \cap BlockedTimes
            PROVE  <<r, d>> \in loses
        <4>1. d \in Times /\ Exists(r)
          BY <1>0, ValidTimes DEF Valid, Exists
        <4>2. r \notin ended
          BY <1>0, <3>1 DEF IInv, EndedHoldsNothing, Apart
        <4>3. Live(r)
          BY <4>1, <4>2 DEF Live
        <4>4. CASE r \in Whole
          BY <4>1, <4>4
        <4>5. CASE r \notin Whole
          BY <3>1, <4>1, <4>3, <4>5 DEF Single
        <4>6. QED
          BY <4>4, <4>5
      <3>. HIDE DEF loses
      <3>2. QED
        BY <2>2, <3>1 DEF Clearing
    <2>. HIDE DEF ends, loses
    <2>5. Careful(w)
      BY <1>0, <2>2, <2>3, <2>4, WritesCareful
    <2>6. QED
      BY <1>1, <2>1, <2>5
  <1>2. ASSUME NEW state \in {"pending", "rejected"},
               Prepare(s, [Nothing(Blocking) EXCEPT !.state = state])
        PROVE  \E w : Prepare(s, w) /\ Careful(w)
    <2>1. PICK w : w = [Nothing(Blocking) EXCEPT !.state = state]
      OBVIOUS
    <2>2. w.on = Blocking /\ w.series = {} /\ w.ends = {} /\ w.loses = {}
          /\ w.state = state
      BY <2>1 DEF Nothing
    <2>3. LastOccurrence({}) \subseteq {}
      BY DEF LastOccurrence
    <2>4. Clearing(w)
      BY <1>2, <2>2 DEF Clearing
    <2>5. Careful(w)
      BY <1>0, <2>2, <2>3, <2>4, WritesCareful
    <2>6. QED
      BY <1>2, <2>1, <2>5
  <1>3. QED
    BY <1>1, <1>2 DEF CreateBlocking, ApproveBlocking, RejectBlocking

\* While bookings and blocking stay as they are, so does care.
LEMMA CarefulKept ==
    ASSUME NEW w, Careful(w),
           UNCHANGED <<times, lost, accepted, privileged, overriding, blocked, raced>>
    PROVE  Careful(w)'
  <1>1. Leaving(w)'
    BY DEF Careful, Leaving, Valid
  <1>2. Heeding(w)' /\ Gentle(w)' /\ Remembering(w)'
    BY DEF Careful, Heeding, Gentle, Remembering, Apart, LostDates
  <1>3. Clearing(w)'
    BY DEF Careful, Clearing, Valid, Apart
  <1>4. QED
    BY <1>1, <1>2, <1>3 DEF Careful

\* A request that is prepared, given up or not made.
LEMMA QuietKeeps ==
    ASSUME Left, IInv',
           UNCHANGED <<times, lost, accepted, ended, privileged, overriding, blocked, raced>>,
           \A t \in Sessions : work'[t] # Idle => work'[t] = work[t] \/ Careful(work'[t])
    PROVE  Left'
  <1>1. ASSUME NEW t \in Sessions, work'[t] # Idle
        PROVE  Careful(work[t])'
    <2>1. PICK v : v = work'[t]
      OBVIOUS
    <2>2. Careful(v)
      BY <1>1, <2>1 DEF Left, AllCareful
    <2>3. Careful(v)'
      BY <2>2, CarefulKept
    <2>4. QED
      BY <2>1, <2>3
  <1>2. LiveHoldsSomething'
    BY DEF Left, LiveHoldsSomething, Live, Exists, Apart, Valid
  <1>3. BlockingRespected'
    BY DEF Left, BlockingRespected, Apart, Valid
  <1>4. QED
    BY <1>1, <1>2, <1>3 DEF Left, AllCareful

\* A commit leaves bookings and privileges alone that it does not touch, and marks
\* those it touches as raced for every request that touches them as well.
LEMMA Unwritten ==
    ASSUME IInv, NEW s \in Sessions, Commit(s), NEW r \in Bookings,
           r \notin Touched(work[s])
    PROVE  /\ times'[r] = times[r] /\ lost'[r] = lost[r] /\ Valid(r)' = Valid(r)
           /\ r \in accepted' <=> r \in accepted
           /\ r \in privileged' <=> r \in privileged
           /\ r \in overriding' <=> r \in overriding
  <1>1. PICK w : w = work[s]
    OBVIOUS
  <1>2. r # w.on /\ r \notin w.ends /\ \A d : <<r, d>> \notin w.loses
    BY <1>1 DEF Touched
  <1>3. /\ lost' = LostAfter(w)
        /\ privileged' = privileged \cup
              (IF w.series # {} /\ times[w.on] = {} /\ w.privileged
               THEN {w.on} ELSE {})
        /\ overriding' = IF w.series = {} THEN overriding
                         ELSE IF w.privileged THEN overriding \cup {w.on}
                         ELSE overriding \ {w.on}
    BY <1>1 DEF Commit
  <1>4. lost'[r] = lost[r]
    BY <1>2, <1>3 DEF LostAfter
  <1>5. times'[r] = times[r]
    BY <1>1, <1>2, CommitWrites
  <1>6. QED
    BY <1>2, <1>3, <1>4, <1>5, Untouched

LEMMA CommitLeavesCareful ==
    ASSUME IInv, NEW s \in Sessions, Commit(s), NEW t \in Sessions \ {s},
           work[t] # Idle, Careful(work[t])
    PROVE  Careful(work[t])'
  <1>1. PICK v : v = work[t]
    OBVIOUS
  <1>2. PICK w : w = work[s]
    OBVIOUS
  <1>3. /\ work'[t] = v /\ v \in Works /\ Careful(v) /\ Sound(v)
        /\ raced \subseteq raced'
        /\ \A x \in Touched(w), y \in Touched(v) :
              <<x, y>> \in raced' /\ <<y, x>> \in raced'
    BY <1>1, <1>2, CommitWrites DEF IInv, TypeOK
  <1>4. ASSUME NEW r \in Bookings, r \notin Touched(w)
        PROVE  /\ times'[r] = times[r] /\ lost'[r] = lost[r] /\ Valid(r)' = Valid(r)
               /\ r \in accepted' <=> r \in accepted
               /\ r \in privileged' <=> r \in privileged
               /\ r \in overriding' <=> r \in overriding
    BY <1>2, <1>4, Unwritten
  <1>5. /\ v.on \in Touched(v) /\ v.ends \subseteq Touched(v)
        /\ \A p \in v.loses : p[1] \in Touched(v)
        /\ \A x, d : <<x, d>> \in v.loses => x \in Touched(v)
    BY DEF Touched
  <1>6. \A y, z : Apart(y, z)' => Apart(y, z) /\ <<y, y>> \notin raced'
                                  /\ <<y, z>> \notin raced'
    BY <1>3 DEF Apart
  <1>7. v.series # {} => v.on \in Bookings
    BY <1>3 DEF Sound, Clear
  <1>8. Leaving(v)'
    <2>1. ASSUME NEW r \in Bookings, r # v.on \/ v.series = {}, Valid(r)' # {},
                 \A d \in Valid(r)' : <<r, d>> \in v.loses
          PROVE  r \in v.ends \/ <<r, r>> \in raced'
      <3>1. r \in Touched(v)
        BY <1>5, <2>1
      <3>2. CASE r \in Touched(w)
        BY <1>3, <3>1, <3>2
      <3>3. CASE r \notin Touched(w)
        <4>1. Valid(r)' = Valid(r)
          BY <1>4, <3>3
        <4>2. r \in v.ends \/ <<r, r>> \in raced
          BY <1>3, <2>1, <4>1 DEF Careful, Leaving
        <4>3. QED
          BY <1>3, <4>2
      <3>4. QED
        BY <3>2, <3>3
    <2>2. v.series # {} => v.lost # v.series
      BY <1>3 DEF Careful, Leaving
    <2>3. QED
      BY <2>1, <2>2 DEF Leaving
  <1>9. Heeding(v)'
    <2>1. SUFFICES ASSUME v.series # {}, ~v.privileged, blocked' = "accepted",
                          Apart(v.on, Blocking)',
                          (v.series \ v.lost) \cap BlockedTimes # {}
                   PROVE  ~Noticed(v.series)
      BY DEF Heeding
    <2>2. CASE w.on = Blocking
      <3>1. Blocking \in Touched(w)
        BY <2>2 DEF Touched
      <3>2. <<v.on, Blocking>> \in raced'
        BY <1>3, <1>5, <3>1
      <3>3. QED
        BY <1>6, <2>1, <3>2
    <2>3. CASE w.on # Blocking
      <3>1. blocked = "accepted" /\ Apart(v.on, Blocking)
        BY <1>2, <1>6, <2>1, <2>3 DEF Commit
      <3>2. QED
        BY <1>3, <2>1, <3>1 DEF Careful, Heeding
    <2>4. QED
      BY <2>2, <2>3
  <1>10. Clearing(v)'
    <2>1. SUFFICES ASSUME v.on = Blocking, v.state = "accepted",
                          NEW r \in Bookings \ (privileged' \cup overriding'),
                          Apart(r, Blocking)', NEW d \in Valid(r)' \cap BlockedTimes
                   PROVE  <<r, d>> \in v.loses
      BY DEF Clearing
    <2>2. r \notin Touched(w)
      BY <1>3, <1>5, <1>6, <2>1
    <2>3. r \notin privileged \cup overriding /\ d \in Valid(r) /\ Apart(r, Blocking)
      BY <1>4, <1>6, <2>1, <2>2
    <2>4. QED
      BY <1>3, <2>1, <2>3 DEF Careful, Clearing
  <1>11. Gentle(v)'
    <2>1. SUFFICES ASSUME v.on \in Bookings, NEW p \in v.loses, p[1] # v.on,
                          p[1] \in accepted'
                   PROVE  <<v.on, p[1]>> \in raced'
      BY DEF Gentle
    <2>2. CASE p[1] \in Touched(w)
      BY <1>3, <1>5, <2>2
    <2>3. CASE p[1] \notin Touched(w)
      <3>1. p[1] \in Bookings
        BY <1>3, <2>1 DEF Works
      <3>2. p[1] \in accepted
        BY <1>4, <2>1, <2>3, <3>1
      <3>3. <<v.on, p[1]>> \in raced
        BY <1>3, <2>1, <3>2 DEF Careful, Gentle
      <3>4. QED
        BY <1>3, <3>3
    <2>4. QED
      BY <2>2, <2>3
  <1>12. Remembering(v)'
    <2>1. SUFFICES ASSUME v.series # {}, <<v.on, v.on>> \notin raced'
                   PROVE  LostDates(v.on, v.series)' \subseteq v.lost
      BY DEF Remembering
    <2>2. v.on \notin Touched(w) /\ v.on \in Bookings
      BY <1>3, <1>5, <1>7, <2>1
    <2>3. lost'[v.on] = lost[v.on]
      BY <1>4, <2>2
    <2>4. LostDates(v.on, v.series)' = LostDates(v.on, v.series)
      BY <2>3 DEF LostDates
    <2>5. QED
      BY <1>3, <2>1, <2>4 DEF Careful, Remembering
  <1>13. QED
    BY <1>1, <1>3, <1>8, <1>9, <1>10, <1>11, <1>12 DEF Careful

LEMMA CommitLeft ==
    ASSUME Left, IInv', NEW s \in Sessions, Commit(s)
    PROVE  Left'
  <1>1. PICK w : w = work[s]
    OBVIOUS
  <1>2. /\ IInv /\ w \in Works /\ w # Idle /\ Sound(w) /\ Careful(w)
        /\ raced \subseteq raced' /\ work'[s] = Idle
        /\ \A t \in Sessions \ {s} : work'[t] = work[t]
        /\ accepted' = accepted \cup (IF w.accepts THEN {w.on} ELSE {})
        /\ ended' = ended \cup w.ends
    BY <1>1, CommitWrites DEF Left, AllCareful
  <1>3. \A r \in Bookings :
           /\ w.series # {} /\ r = w.on =>
                 times'[r] = w.series /\ Valid(r)' = w.series \ w.lost
           /\ w.series = {} \/ r # w.on =>
                 /\ times'[r] = times[r]
                 /\ Valid(r)' = {d \in Valid(r) : <<r, d>> \notin w.loses}
    BY <1>1, <1>2, CommitWrites
  <1>4. \A y, z : Apart(y, z)' => Apart(y, z)
    BY <1>2 DEF Apart
  <1>5. w.series # {} => w.on \in Bookings /\ w.on # Blocking /\ w.lost \subseteq w.series
    BY <1>2, BookingAssumption DEF Sound, Clear
  <1>6. AllCareful'
    <2>1. ASSUME NEW t \in Sessions, work'[t] # Idle
          PROVE  Careful(work[t])'
      <3>1. t # s /\ work[t] # Idle /\ Careful(work[t])
        BY <1>2, <2>1 DEF Left, AllCareful
      <3>2. QED
        BY <1>2, <3>1, CommitLeavesCareful
    <2>2. QED
      BY <2>1 DEF AllCareful
  <1>7. LiveHoldsSomething'
    <2>1. SUFFICES ASSUME NEW r \in Bookings, Live(r)', Apart(r, r)', Valid(r)' = {}
                   PROVE  FALSE
      BY DEF LiveHoldsSomething
    <2>2. CASE w.series # {} /\ r = w.on
      BY <1>2, <1>3, <1>5, <2>1, <2>2 DEF Careful, Leaving
    <2>3. CASE w.series = {} \/ r # w.on
      <3>1. /\ times'[r] = times[r]
            /\ \A d \in Valid(r) : <<r, d>> \in w.loses
        BY <1>3, <2>1, <2>3
      <3>2. Live(r) /\ r \notin w.ends /\ <<r, r>> \notin raced /\ Apart(r, r)
        BY <1>2, <1>4, <2>1, <3>1 DEF Live, Exists, Apart
      <3>3. Valid(r) # {}
        BY <3>2 DEF Left, LiveHoldsSomething
      <3>4. QED
        BY <1>2, <2>3, <3>1, <3>2, <3>3 DEF Careful, Leaving
    <2>4. QED
      BY <2>2, <2>3
  <1>8. BlockingRespected'
    <2>1. SUFFICES ASSUME blocked' = "accepted",
                          NEW r \in Bookings \ (privileged' \cup overriding'),
                          Apart(r, Blocking)', Valid(r)' \cap BlockedTimes # {}
                   PROVE  ~Noticed(times'[r])
      BY DEF BlockingRespected, Noticed
    <2>2. /\ blocked' = IF w.on = Blocking THEN w.state ELSE blocked
          /\ privileged \subseteq privileged'
          /\ overriding' = IF w.series = {} THEN overriding
                           ELSE IF w.privileged THEN overriding \cup {w.on}
                           ELSE overriding \ {w.on}
      BY <1>1 DEF Commit
    <2>3. CASE w.series # {} /\ r = w.on
      <3>1. ~w.privileged /\ blocked = "accepted" /\ Apart(w.on, Blocking)
        BY <1>4, <1>5, <2>1, <2>2, <2>3
      <3>2. (w.series \ w.lost) \cap BlockedTimes # {} /\ times'[r] = w.series
        BY <1>3, <2>1, <2>3
      <3>3. QED
        BY <1>2, <2>3, <3>1, <3>2 DEF Careful, Heeding
    <2>4. CASE w.series = {} \/ r # w.on
      <3>1. /\ times'[r] = times[r]
            /\ Valid(r)' = {d \in Valid(r) : <<r, d>> \notin w.loses}
        BY <1>3, <2>4
      <3>2. r \notin privileged \cup overriding /\ Apart(r, Blocking)
        BY <1>4, <2>1, <2>2, <2>4
      <3>3. CASE w.on = Blocking
        <4>1. \A d \in Valid(r) \cap BlockedTimes : <<r, d>> \in w.loses
          BY <1>2, <2>1, <2>2, <3>2, <3>3 DEF Careful, Clearing
        <4>2. QED
          BY <2>1, <3>1, <4>1
      <3>4. CASE w.on # Blocking
        BY <2>1, <2>2, <3>1, <3>2, <3>4 DEF Left, BlockingRespected
      <3>5. QED
        BY <3>3, <3>4
    <2>5. QED
      BY <2>3, <2>4
  <1>9. QED
    BY <1>6, <1>7, <1>8 DEF Left

\* The subject of a deletion is touched by no request that goes on.
LEMMA DeletionLeavesCareful ==
    ASSUME TypeOK, NEW x \in Subjects, work' = Dropping(x), raced' = Forgetting(x),
           \A r \in Bookings :
              IF r = x THEN Valid(r)' = {}
              ELSE /\ lost'[r] = lost[r] /\ Valid(r)' = Valid(r)
                   /\ r \in accepted' => r \in accepted
                   /\ r \in privileged => r \in privileged'
                   /\ r \in overriding => r \in overriding',
           x # Blocking => blocked' = blocked, x = Blocking => blocked' = "none",
           NEW t \in Sessions, work'[t] # Idle,
           work[t] # Idle => Sound(work[t]) /\ Careful(work[t])
    PROVE  Careful(work[t])'
  <1>1. PICK v : v = work[t]
    OBVIOUS
  <1>2. /\ work'[t] = v /\ x \notin Touched(v)
        /\ \A y, z : y # x /\ z # x /\ Apart(y, z)' => Apart(y, z)
        /\ \A y, z : y # x /\ z # x /\ <<y, z>> \in raced => <<y, z>> \in raced'
    BY <1>1, DroppingTypes
  <1>3. v # Idle /\ v \in Works /\ Careful(v) /\ Sound(v)
    BY <1>1, <1>2 DEF TypeOK
  <1>4. /\ v.on # x /\ \A p \in v.loses : p[1] # x
        /\ \A d : <<x, d>> \notin v.loses
    BY <1>2 DEF Touched
  <1>5. v.series # {} => v.on \in Bookings
    BY <1>3 DEF Sound, Clear
  <1>6. Leaving(v)'
    <2>1. ASSUME NEW r \in Bookings, r # v.on \/ v.series = {}, Valid(r)' # {},
                 \A d \in Valid(r)' : <<r, d>> \in v.loses
          PROVE  r \in v.ends \/ <<r, r>> \in raced'
      <3>1. r # x
        BY <2>1
      <3>2. Valid(r)' = Valid(r)
        BY <3>1
      <3>3. r \in v.ends \/ <<r, r>> \in raced
        BY <1>3, <2>1, <3>2 DEF Careful, Leaving
      <3>4. QED
        BY <1>2, <3>1, <3>3
    <2>2. v.series # {} => v.lost # v.series
      BY <1>3 DEF Careful, Leaving
    <2>3. QED
      BY <2>1, <2>2 DEF Leaving
  <1>7. Heeding(v)'
    <2>1. SUFFICES ASSUME v.series # {}, ~v.privileged, blocked' = "accepted",
                          Apart(v.on, Blocking)',
                          (v.series \ v.lost) \cap BlockedTimes # {}
                   PROVE  ~Noticed(v.series)
      BY DEF Heeding
    <2>2. blocked = "accepted" /\ x # Blocking
      BY <2>1
    <2>3. Apart(v.on, Blocking)
      BY <1>2, <1>4, <2>1, <2>2
    <2>4. QED
      BY <1>3, <2>1, <2>2, <2>3 DEF Careful, Heeding
  <1>8. Clearing(v)'
    <2>1. SUFFICES ASSUME v.on = Blocking, v.state = "accepted",
                          NEW r \in Bookings \ (privileged' \cup overriding'),
                          Apart(r, Blocking)', NEW d \in Valid(r)' \cap BlockedTimes
                   PROVE  <<r, d>> \in v.loses
      BY DEF Clearing
    <2>2. r # x /\ x # Blocking
      BY <1>4, <2>1
    <2>3. r \notin privileged \cup overriding /\ d \in Valid(r) /\ Apart(r, Blocking)
      BY <1>2, <2>1, <2>2
    <2>4. QED
      BY <1>3, <2>1, <2>3 DEF Careful, Clearing
  <1>9. Gentle(v)'
    <2>1. SUFFICES ASSUME v.on \in Bookings, NEW p \in v.loses, p[1] # v.on,
                          p[1] \in accepted'
                   PROVE  <<v.on, p[1]>> \in raced'
      BY DEF Gentle
    <2>2. p[1] \in Bookings /\ p[1] # x
      BY <1>3, <1>4, <2>1 DEF Works
    <2>3. <<v.on, p[1]>> \in raced
      BY <1>3, <2>1, <2>2 DEF Careful, Gentle
    <2>4. QED
      BY <1>2, <1>4, <2>2, <2>3
  <1>10. Remembering(v)'
    <2>1. SUFFICES ASSUME v.series # {}, <<v.on, v.on>> \notin raced'
                   PROVE  LostDates(v.on, v.series)' \subseteq v.lost
      BY DEF Remembering
    <2>2. lost'[v.on] = lost[v.on] /\ <<v.on, v.on>> \notin raced
      BY <1>2, <1>4, <1>5, <2>1
    <2>3. LostDates(v.on, v.series)' = LostDates(v.on, v.series)
      BY <2>2 DEF LostDates
    <2>4. QED
      BY <1>3, <2>1, <2>2, <2>3 DEF Careful, Remembering
  <1>11. QED
    BY <1>1, <1>2, <1>6, <1>7, <1>8, <1>9, <1>10 DEF Careful

LEMMA DeleteLeft ==
    ASSUME Left, IInv', NEW x \in Bookings, Delete(x)
    PROVE  Left'
  <1>1. /\ times' = [times EXCEPT ![x] = {}] /\ lost' = [lost EXCEPT ![x] = {}]
        /\ accepted' = accepted \ {x} /\ ended' = ended \ {x}
        /\ privileged' = privileged \ {x} /\ overriding' = overriding \ {x}
        /\ work' = Dropping(x) /\ raced' = Forgetting(x) /\ blocked' = blocked
    BY DEF Delete
  <1>2. IInv /\ TypeOK /\ x \in Subjects /\ x # Blocking
    BY BookingAssumption DEF Left, IInv, Subjects
  <1>3. ASSUME NEW r \in Bookings
        PROVE  /\ r # x => times'[r] = times[r] /\ lost'[r] = lost[r] /\ Valid(r)' = Valid(r)
               /\ r = x => times'[r] = {} /\ Valid(r)' = {}
    BY <1>1, <1>2 DEF TypeOK, Valid
  <1>4. \A y, z : y # x /\ z # x /\ Apart(y, z)' => Apart(y, z)
    BY <1>1, <1>2, DroppingTypes
  <1>5. ASSUME NEW t \in Sessions, work'[t] # Idle
        PROVE  Careful(work[t])'
    <2>1. work[t] # Idle => Sound(work[t]) /\ Careful(work[t])
      BY DEF Left, IInv, AllCareful
    <2>2. \A r \in Bookings :
              IF r = x THEN Valid(r)' = {}
              ELSE /\ lost'[r] = lost[r] /\ Valid(r)' = Valid(r)
                   /\ r \in accepted' => r \in accepted
                   /\ r \in privileged => r \in privileged'
                   /\ r \in overriding => r \in overriding'
      BY <1>1, <1>3
    <2>3. QED
      BY <1>1, <1>2, <1>5, <2>1, <2>2, DeletionLeavesCareful
  <1>6. LiveHoldsSomething'
    BY <1>1, <1>3, <1>4 DEF Left, LiveHoldsSomething, Live, Exists
  <1>7. BlockingRespected'
    <2>1. SUFFICES ASSUME blocked' = "accepted",
                          NEW r \in Bookings \ (privileged' \cup overriding'),
                          Apart(r, Blocking)', Valid(r)' \cap BlockedTimes # {}
                   PROVE  ~Noticed(times'[r])
      BY DEF BlockingRespected, Noticed
    <2>2. r # x
      BY <1>3, <2>1
    <2>3. QED
      BY <1>1, <1>2, <1>3, <1>4, <2>1, <2>2 DEF Left, BlockingRespected
  <1>8. QED
    BY <1>5, <1>6, <1>7 DEF Left, AllCareful

LEMMA DeleteBlockingLeft ==
    ASSUME Left, IInv', DeleteBlocking
    PROVE  Left'
  <1>1. /\ work' = Dropping(Blocking) /\ raced' = Forgetting(Blocking)
        /\ blocked' = "none"
        /\ UNCHANGED <<times, lost, accepted, ended, privileged, overriding>>
    BY DEF DeleteBlocking, bookings
  <1>2. IInv /\ TypeOK /\ Blocking \in Subjects /\ Blocking \notin Bookings
    BY BookingAssumption DEF Left, IInv, Subjects
  <1>3. \A r \in Bookings : Valid(r)' = Valid(r) /\ r # Blocking
    BY <1>1, <1>2 DEF Valid
  <1>4. \A y, z : y # Blocking /\ z # Blocking /\ Apart(y, z)' => Apart(y, z)
    BY <1>1, <1>2, DroppingTypes
  <1>5. ASSUME NEW t \in Sessions, work'[t] # Idle
        PROVE  Careful(work[t])'
    <2>1. work[t] # Idle => Sound(work[t]) /\ Careful(work[t])
      BY DEF Left, IInv, AllCareful
    <2>2. QED
      BY <1>1, <1>2, <1>3, <1>5, <2>1, DeletionLeavesCareful
  <1>6. LiveHoldsSomething'
    BY <1>1, <1>3, <1>4 DEF Left, LiveHoldsSomething, Live, Exists
  <1>7. QED
    BY <1>1, <1>5, <1>6 DEF Left, AllCareful, BlockingRespected

LEMMA LeftInductive == Left /\ [Next]_vars => Left'
  <1>1. SUFFICES ASSUME Left, [Next]_vars
                 PROVE  Left'
    OBVIOUS
  <1>2. IInv /\ IInv' /\ TypeOK
    BY <1>1, Inductive DEF Left, IInv
  <1>3. ASSUME NEW s \in Sessions, \E w : Prepare(s, w) /\ Careful(w)
        PROVE  Left'
    <2>1. PICK w : Prepare(s, w) /\ Careful(w)
      BY <1>3
    <2>2. /\ UNCHANGED <<times, lost, accepted, ended, privileged, overriding, blocked,
                         raced>>
          /\ \A t \in Sessions : work'[t] = work[t] \/ work'[t] = w
      BY <1>2, <2>1 DEF Prepare, bookings, history, TypeOK
    <2>3. QED
      BY <1>1, <1>2, <2>1, <2>2, QuietKeeps
  <1>4. ASSUME NEW s \in Sessions, Fail(s)
        PROVE  Left'
    <2>1. /\ UNCHANGED <<times, lost, accepted, ended, privileged, overriding, blocked,
                         raced>>
          /\ \A t \in Sessions : work'[t] # Idle => work'[t] = work[t]
      BY <1>2, <1>4 DEF Fail, bookings, history, TypeOK
    <2>2. QED
      BY <1>1, <1>2, <2>1, QuietKeeps
  <1>5. ASSUME UNCHANGED vars
        PROVE  Left'
    <2>1. UNCHANGED <<times, lost, accepted, ended, privileged, overriding, blocked, raced,
                      work>>
      BY <1>5 DEF vars, bookings, history
    <2>2. QED
      BY <1>1, <1>2, <2>1, QuietKeeps
  <1>6. ASSUME Next
        PROVE  Left'
    <2>1. CASE \E s \in Sessions, r \in Bookings :
                  \/ \E D \in Series, override \in BOOLEAN :
                        \/ \E confirmed \in BOOLEAN :
                              Create(s, r, D, confirmed, override)
                        \/ Modify(s, r, D, override)
                  \/ Accept(s, r) \/ End(s, r) \/ \E d \in Times : EndDay(s, r, d)
      BY <1>1, <1>3, <2>1, RequestsCareful
    <2>2. CASE \E s \in Sessions :
                  \/ \E owner \in BOOLEAN : CreateBlocking(s, owner)
                  \/ ApproveBlocking(s) \/ RejectBlocking(s)
      BY <1>1, <1>3, <2>2, BlockingsCareful
    <2>3. CASE \E s \in Sessions : Commit(s) \/ Fail(s)
      BY <1>1, <1>2, <1>4, <2>3, CommitLeft
    <2>4. CASE (\E r \in Bookings : Delete(r)) \/ DeleteBlocking
      BY <1>1, <1>2, <2>4, DeleteLeft, DeleteBlockingLeft
    <2>5. QED
      BY <1>6, <2>1, <2>2, <2>3, <2>4 DEF Next
  <1>7. QED
    BY <1>1, <1>5, <1>6

LEMMA LeftHolds == Spec => []Left
  <1>1. Init => Left
    <2>1. SUFFICES ASSUME Init
                   PROVE  AllCareful /\ LiveHoldsSomething /\ BlockingRespected
      BY Start DEF Left
    <2>2. QED
      BY <2>1 DEF Init, AllCareful, LiveHoldsSomething, Live, Exists, BlockingRespected
  <1>2. QED
    BY <1>1, LeftInductive, PTL DEF Spec

-------------------------------------------------------------------------------
(* What a step takes away *)

\* The step of a commit, for a confirmed booking.
LEMMA CommitIsGentle ==
    ASSUME Left, NEW s \in Sessions, Commit(s), NEW r \in accepted
    PROVE  \/ Valid(r) \subseteq Valid(r)'
           \/ /\ s \in Active /\ work'[s] = Idle
              /\ work[s].on \in {r, Blocking} \/ <<work[s].on, r>> \in raced'
  <1>1. PICK w : w = work[s]
    OBVIOUS
  <1>2. /\ w \in Works /\ w # Idle /\ Careful(w) /\ work'[s] = Idle /\ r \in Bookings
        /\ raced \subseteq raced'
    BY <1>1, CommitWrites DEF Left, AllCareful, IInv, TypeOK
  <1>3. s \in Active
    BY <1>1, <1>2 DEF Active
  <1>4. CASE w.on \in {r, Blocking}
    BY <1>1, <1>2, <1>3, <1>4
  <1>5. CASE w.on \notin {r, Blocking}
    <2>1. w.on \in Bookings
      BY <1>2, <1>5 DEF Works, Subjects
    <2>2. Valid(r)' = {d \in Valid(r) : <<r, d>> \notin w.loses}
      BY <1>1, <1>2, <1>5, CommitWrites DEF Left
    <2>3. ASSUME NEW d, <<r, d>> \in w.loses
          PROVE  <<w.on, r>> \in raced
      BY <1>2, <1>5, <2>1, <2>3 DEF Careful, Gentle
    <2>4. QED
      BY <1>1, <1>2, <1>3, <2>2, <2>3
  <1>6. QED
    BY <1>4, <1>5

\* The occurrence of a date that was lost is the one that was lost: dates are met once.
LEMMA LostDatesKept ==
    ASSUME TypeOK, NEW r \in Bookings
    PROVE  LostDates(r, times[r]) \subseteq lost[r]
  <1>1. lost[r] \subseteq times[r] /\ times[r] \in Series \cup {{}}
    BY DEF TypeOK
  <1>2. QED
    BY <1>1, BookingAssumption DEF LostDates

LEMMA CommitRemembers ==
    ASSUME Left, NEW s \in Sessions, Commit(s), NEW r \in Bookings,
           <<r, r>> \notin raced'
    PROVE  LostDates(r, times'[r]) \subseteq lost'[r]
  <1>1. PICK w : w = work[s]
    OBVIOUS
  <1>2. w \in Works /\ w # Idle /\ Careful(w) /\ TypeOK /\ raced \subseteq raced'
    BY <1>1, CommitWrites DEF Left, AllCareful, IInv
  <1>3. lost'[r] = IF w.series # {} /\ r = w.on THEN w.lost
                   ELSE lost[r] \cup {d \in times[r] : <<r, d>> \in w.loses}
    BY <1>1 DEF Commit, LostAfter
  <1>4. CASE w.series # {} /\ r = w.on
    <2>1. times'[r] = w.series
      BY <1>1, <1>4, CommitWrites DEF Left
    <2>2. LostDates(r, w.series) \subseteq w.lost
      BY <1>2, <1>4 DEF Careful, Remembering
    <2>3. QED
      BY <1>3, <1>4, <2>1, <2>2
  <1>5. CASE w.series = {} \/ r # w.on
    <2>1. times'[r] = times[r]
      BY <1>1, <1>5, CommitWrites DEF Left
    <2>2. QED
      BY <1>2, <1>3, <1>5, <2>1, LostDatesKept
  <1>6. QED
    BY <1>4, <1>5

\* All steps but a commit and a deletion leave the bookings as they are.
LEMMA OtherSteps ==
    ASSUME [Next]_vars
    PROVE  \/ \E s \in Sessions : Commit(s)
           \/ \E x \in Bookings : Delete(x)
           \/ UNCHANGED <<times, lost>>
  <1>1. ASSUME NEW s \in Sessions, NEW w, Prepare(s, w)
        PROVE  UNCHANGED <<times, lost>>
    BY <1>1 DEF Prepare, bookings
  <1>2. CASE \E s \in Sessions, r \in Bookings :
                \/ \E D \in Series, override \in BOOLEAN :
                      \/ \E confirmed \in BOOLEAN : Create(s, r, D, confirmed, override)
                      \/ Modify(s, r, D, override)
                \/ Accept(s, r) \/ End(s, r) \/ \E d \in Times : EndDay(s, r, d)
    <2>1. PICK s \in Sessions, r \in Bookings :
                \/ \E D \in Series, override \in BOOLEAN :
                      \/ \E confirmed \in BOOLEAN : Create(s, r, D, confirmed, override)
                      \/ Modify(s, r, D, override)
                \/ Accept(s, r) \/ End(s, r) \/ \E d \in Times : EndDay(s, r, d)
      BY <1>2
    <2>2. CASE \E D \in Series, override \in BOOLEAN :
                  \E confirmed \in BOOLEAN : Create(s, r, D, confirmed, override)
      BY <1>1, <2>2 DEF Create
    <2>3. CASE \E D \in Series, override \in BOOLEAN : Modify(s, r, D, override)
      BY <1>1, <2>3 DEF Modify
    <2>4. CASE Accept(s, r) \/ End(s, r) \/ \E d \in Times : EndDay(s, r, d)
      BY <1>1, <2>4 DEF Accept, End, EndDay
    <2>5. QED
      BY <2>1, <2>2, <2>3, <2>4
  <1>3. CASE \E s \in Sessions :
                \/ \E owner \in BOOLEAN : CreateBlocking(s, owner)
                \/ ApproveBlocking(s) \/ RejectBlocking(s)
    BY <1>1, <1>3 DEF CreateBlocking, ApproveBlocking, RejectBlocking
  <1>4. CASE \E s \in Sessions : Fail(s)
    BY <1>4 DEF Fail, bookings
  <1>5. CASE DeleteBlocking
    BY <1>5 DEF DeleteBlocking, bookings
  <1>6. CASE UNCHANGED vars
    BY <1>6 DEF vars, bookings
  <1>7. QED
    BY <1>2, <1>3, <1>4, <1>5, <1>6 DEF Next

-------------------------------------------------------------------------------
(* Theorems *)

\* Every state of every behaviour is well typed, the writes of requests included.
THEOREM BookingTypes == Spec => []TypeOK
  <1>1. IInv => TypeOK
    BY DEF IInv
  <1>2. QED
    BY <1>1, Holds, PTL

\* However many bookings there are and whatever is requested: a time of a confirmed
\* booking is another's only if requests on the two overlapped.
THEOREM NoDoubleBookingCorrect == Spec => []NoDoubleBooking
  <1>1. IInv => NoDoubleBooking
    BY DEF IInv
  <1>2. QED
    BY <1>1, Holds, PTL

\* A cancelled or rejected booking holds no time, unless a modification overlapped
\* what ended it.
THEOREM EndedHoldsNothingCorrect == Spec => []EndedHoldsNothing
  <1>1. IInv => EndedHoldsNothing
    BY DEF IInv
  <1>2. QED
    BY <1>1, Holds, PTL

\* A booking that was neither cancelled nor rejected holds a time, however often it
\* was modified and lost occurrences to others, unless requests about it overlapped.
THEOREM LiveHoldsSomethingCorrect == Spec => []LiveHoldsSomething
  <1>1. Left => LiveHoldsSomething
    BY DEF Left
  <1>2. QED
    BY <1>1, LeftHolds, PTL

\* On the dates of an accepted blocking nobody else holds a time, but for bookings
\* that meet it on its last date only, and requests that overlapped its approval.
THEOREM BlockingRespectedCorrect == Spec => []BlockingRespected
  <1>1. Left => BlockingRespected
    BY DEF Left
  <1>2. QED
    BY <1>1, LeftHolds, PTL

\* No step of another booking takes a confirmed time away.
THEOREM ConfirmedIsKeptCorrect == Spec => ConfirmedIsKept
  <1>. DEFINE Kept == \A r \in accepted :
                  \/ Valid(r) \subseteq Valid(r)' \/ times'[r] = {}
                  \/ \E s \in Active : /\ work'[s] = Idle
                                       /\ \/ work[s].on \in {r, Blocking}
                                          \/ <<work[s].on, r>> \in raced'
  <1>1. Left /\ [Next]_vars => Kept
    <2>1. SUFFICES ASSUME Left, [Next]_vars, NEW r \in accepted
                   PROVE  \/ Valid(r) \subseteq Valid(r)' \/ times'[r] = {}
                          \/ \E s \in Active : /\ work'[s] = Idle
                                               /\ \/ work[s].on \in {r, Blocking}
                                                  \/ <<work[s].on, r>> \in raced'
      OBVIOUS
    <2>2. CASE \E s \in Sessions : Commit(s)
      BY <2>1, <2>2, CommitIsGentle
    <2>3. ASSUME NEW x \in Bookings, Delete(x)
          PROVE  Valid(r) \subseteq Valid(r)' \/ times'[r] = {}
      <3>1. TypeOK /\ r \in Bookings
        BY <2>1 DEF Left, IInv, TypeOK
      <3>2. QED
        BY <2>3, <3>1 DEF Delete, TypeOK, Valid
    <2>4. CASE UNCHANGED <<times, lost>>
      BY <2>4 DEF Valid
    <2>5. QED
      BY <2>1, <2>2, <2>3, <2>4, OtherSteps
  <1>2. Left /\ [Next]_vars => [Kept]_vars
    BY <1>1
  <1>3. QED
    BY <1>2, LeftHolds, PTL DEF Spec, ConfirmedIsKept

\* No modification brings a date back that was cancelled or rejected, unless requests
\* about the booking overlapped.
THEOREM LostStaysLostCorrect == Spec => LostStaysLost
  <1>. DEFINE Stays == \A r \in Bookings :
                  <<r, r>> \in raced' \/ LostDates(r, times'[r]) \subseteq lost'[r]
  <1>1. Left /\ [Next]_vars => Stays
    <2>1. SUFFICES ASSUME Left, [Next]_vars, NEW r \in Bookings, <<r, r>> \notin raced'
                   PROVE  LostDates(r, times'[r]) \subseteq lost'[r]
      OBVIOUS
    <2>2. TypeOK
      BY <2>1 DEF Left, IInv
    <2>3. CASE \E s \in Sessions : Commit(s)
      BY <2>1, <2>3, CommitRemembers
    <2>4. ASSUME NEW x \in Bookings, Delete(x)
          PROVE  LostDates(r, times'[r]) \subseteq lost'[r]
      <3>1. CASE r = x
        BY <2>2, <2>4, <3>1 DEF Delete, TypeOK, LostDates
      <3>2. CASE r # x
        <4>1. times'[r] = times[r] /\ lost'[r] = lost[r]
          BY <2>2, <2>4, <3>2 DEF Delete, TypeOK
        <4>2. QED
          BY <2>2, <4>1, LostDatesKept
      <3>3. QED
        BY <3>1, <3>2
    <2>5. CASE UNCHANGED <<times, lost>>
      BY <2>2, <2>5, LostDatesKept
    <2>6. QED
      BY <2>1, <2>3, <2>4, <2>5, OtherSteps
  <1>2. Left /\ [Next]_vars => [Stays]_vars
    BY <1>1
  <1>3. QED
    BY <1>2, LeftHolds, PTL DEF Spec, LostStaysLost
===============================================================================
