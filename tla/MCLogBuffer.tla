---------------------------- MODULE MCLogBuffer ----------------------------
(* Small buffers for TLC. *)
EXTENDS LogBuffer
=============================================================================
