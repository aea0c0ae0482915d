--------------------------- MODULE MCMutexVector ----------------------------
(* Three threads and three groups, for TLC. *)
EXTENDS MutexVector
=============================================================================
