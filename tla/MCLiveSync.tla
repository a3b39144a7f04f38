------------------------------ MODULE MCLiveSync ------------------------------
(* Constants for model checking LiveSync. *)
EXTENDS LiveSync

CONSTANTS a, b, x, y
===============================================================================
