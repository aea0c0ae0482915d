---------------------------- MODULE MCMmapFile -----------------------------
(* Instances of MmapFile for TLC. *)
EXTENDS MmapFile
=============================================================================
