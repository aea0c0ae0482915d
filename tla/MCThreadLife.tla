---------------------------- MODULE MCThreadLife ----------------------------
(* Two callers of one Thread object, for TLC. *)
EXTENDS ThreadLife
=============================================================================
