------------------------------ MODULE AfterCommit -----------------------------
(***************************************************************************)
(* What run_after_commit, the mail queue and the Redis pipeline promise to *)
(* the handlers that use them: an effect a handler asked for is performed  *)
(* after its transaction committed, for the attempt that committed, and    *)
(* once; a request that failed performs none.                              *)
(***************************************************************************)
EXTENDS Naturals, Sequences

CONSTANTS
  Clients,      \* the requests the promise is made to
  Attempts,     \* attempts a request may make, positive numbers
  Kinds         \* kinds of effects

VARIABLES
  winner,       \* the attempt that committed, 0 before
  closed,       \* the request has ended, with or without a commit
  performed     \* effects in their order: pairs of a kind and an attempt

vars == <<winner, closed, performed>>

Init ==
    /\ winner = [c \in Clients |-> 0]
    /\ closed = [c \in Clients |-> FALSE]
    /\ performed = [c \in Clients |-> <<>>]

Commit(c) ==
    /\ winner[c] = 0 /\ ~closed[c]
    /\ \E i \in Attempts : winner' = [winner EXCEPT ![c] = i]
    /\ UNCHANGED <<closed, performed>>

Perform(c) ==
    /\ winner[c] # 0 /\ ~closed[c]
    /\ \E k \in Kinds :
          /\ \A i \in DOMAIN performed[c] : performed[c][i][1] # k
          /\ performed' = [performed EXCEPT ![c] = Append(@, <<k, winner[c]>>)]
    /\ UNCHANGED <<winner, closed>>

Close(c) ==
    /\ closed' = [closed EXCEPT ![c] = TRUE]
    /\ UNCHANGED <<winner, performed>>

Next == \E c \in Clients : Commit(c) \/ Perform(c) \/ Close(c)

Spec == Init /\ [][Next]_vars
===============================================================================
