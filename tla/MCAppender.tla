----------------------------- MODULE MCAppender -----------------------------
(* Small instances of the appender for TLC. *)
EXTENDS AppenderProps
=============================================================================
