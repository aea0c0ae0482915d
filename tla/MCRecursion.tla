---------------------------- MODULE MCRecursion -----------------------------
(* Two threads and a limit of three nested calls, for TLC. *)
EXTENDS Recursion
=============================================================================
