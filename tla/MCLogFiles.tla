----------------------------- MODULE MCLogFiles -----------------------------
(* A few blocks, days of two ticks, and a failure or two, for TLC. *)
EXTENDS LogFiles
=============================================================================
