---------------------------- MODULE MCPeriodLogs ----------------------------
(* A day of three hours and files of up to three blocks, for TLC. *)
EXTENDS PeriodLogs
=============================================================================
