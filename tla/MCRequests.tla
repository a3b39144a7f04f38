------------------------------ MODULE MCRequests ------------------------------
(* Constants for model checking Requests. *)
EXTENDS Requests

CONSTANTS p, q, s

SomeWorks == {Kinds}
===============================================================================
