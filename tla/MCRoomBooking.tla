----------------------------- MODULE MCRoomBooking -----------------------------
(* Constants for model checking RoomBooking: a blocking of the first two of      *)
(* three dates.                                                                  *)
EXTENDS RoomBooking, TLC

CONSTANTS p, q, s, t

\* Two times on the first date, one on each of the others.
MCTimes == {11, 12, 21, 31}
MCDateOf == [d \in MCTimes |-> d \div 10]
MCSeries == {{11}, {12}, {21, 31}, {11, 21, 31}}

Symmetry == Permutations(Bookings) \cup Permutations(Sessions)
===============================================================================
