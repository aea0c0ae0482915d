---------------------------- MODULE AbstractLog ----------------------------
(***************************************************************************)
(* What the appender promises of the entries it has accepted, whatever     *)
(* mode it is in: an entry is pending until it reaches the log file, it    *)
(* reaches the log file at most once and never leaves it, and it may be    *)
(* dropped only when the process incarnation or the buffer's life ends,    *)
(* never while the appender simply runs.                                   *)
(***************************************************************************)
CONSTANT Entry,         \* the identities an entry can have
         Lives          \* the incarnations of the process and its buffer

VARIABLES pending,      \* accepted, and held anywhere but in the file
          written,      \* in the log file
          life          \* which incarnation is running

abstractVars == <<pending, written, life>>

AbstractTypeOK ==
  /\ pending \subseteq Entry
  /\ written \subseteq Entry
  /\ life \in Lives

AbstractInit ==
  /\ pending = {}
  /\ written = {}
  /\ life \in Lives

\* Entry e is accepted; it may reach the file in the same step, alone or
\* with entries that were waiting.
Accept(e) ==
  /\ e \notin pending \union written
  /\ pending' \in SUBSET (pending \union {e})
  /\ written' = written \union ((pending \union {e}) \ pending')
  /\ UNCHANGED life

\* Some pending entries reach the file.
Persist ==
  /\ pending' \in SUBSET pending
  /\ written' = written \union (pending \ pending')
  /\ UNCHANGED life

\* The incarnation changes: the only step that may drop an entry.
Turn ==
  /\ life' \in Lives
  /\ life' # life
  /\ pending' \in SUBSET pending
  /\ UNCHANGED written

AbstractNext == Persist \/ Turn \/ \E e \in Entry : Accept(e)

AbstractSpec == AbstractInit /\ [][AbstractNext]_abstractVars
=============================================================================
