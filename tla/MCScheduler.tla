----------------------------- MODULE MCScheduler ------------------------------
(* Constants for model checking Scheduler. *)
EXTENDS Scheduler

CONSTANTS a, b, p, w1, w2

WorkerSymmetry == Permutations(Workers)
NoExpiry == [t \in Tasks |-> Never]
ExpiresAt1 == [t \in Tasks |-> 1]
===============================================================================
