--------------------------- MODULE AppenderProps ---------------------------
(***************************************************************************)
(* What is checked of the appender.                                        *)
(***************************************************************************)
EXTENDS Appender

\* Where a calling thread and the background thread can be.
Labels == {"idle", "branch", "Async", "Sync", "log2file", "recover", "measure",
           "copy", "clear", "unclose", "setmode", "beginTip", "recovered", "endTip", "banner", "flushSync",
           "closed", "join", "free", "closefile"}
AsyncLabels == {"ended", "top", "write", "check", "wait", "waiting", "ending"}

\* Every variable has its type.
TypeOK ==
  /\ sg_mode \in {"Async", "Sync"}
  /\ sg_log_close \in BOOLEAN
  /\ sg_log_buff \in Memories \union {"null"}
  /\ mem \in [Memories -> Seq(Entries)]
  /\ deflating \in BOOLEAN
  /\ pc \in [Threads -> Labels]
  /\ cret \in {"idle", "closed"}
  /\ cmode \in {"Async", "Sync"}
  /\ asyncPc \in AsyncLabels
  /\ cTmp \in Seq(Entries)
  /\ asyncTmp \in Seq(Entries)
  /\ stdio \in Seq(Entries)
  /\ file \in Seq(Entries)
  /\ sent \in [Threads -> Nat]
  /\ opens \in Nat /\ crashes \in Nat /\ flushes \in Nat
  /\ flushSyncs \in Nat /\ setModes \in Nat
  /\ fault \in BOOLEAN
  /\ accepted \subseteq Entries
-----------------------------------------------------------------------------
\* What a memory will give to whoever takes its block: nothing once open is
\* about to clear it.
Kept(m) == IF pc[Ctl] = "clear" /\ m = sg_log_buff THEN << >> ELSE mem[m]
Everything == Kept("mmap") \o Kept("heap") \o cTmp \o asyncTmp \o stdio \o file

\* No entry is in two places or twice in one, so none is written twice: the
\* block that leaves the buffer is cleared before anyone can take it again,
\* by the background thread, by flush_sync or by the next open.  It needs an
\* application that calls setmode only while the appender is open: the thread
\* that setmode(Async) starts on a closed one (appender.cc:990) may take the
\* block that open is copying (appender.cc:853).
AtMostOnce ==
  \A i, j \in DOMAIN Everything :
    /\ Everything[i].by = Everything[j].by
    /\ Everything[i].n = Everything[j].n
    => i = j

Places == mem["mmap"] \o mem["heap"] \o cTmp \o asyncTmp \o stdio \o file

\* While neither the process nor the buffer ends its life, an entry leaves
\* its last place only when open clears the buffer after its unlocked Flush
\* (appender.cc:853), and then it is one that this process has appended since
\* open looked: a call left over from the last session may lose its line
\* there, but no block of a dead process is lost, whatever setmode, flush_sync
\* and the background thread do meanwhile.
OnlyOpenWipes ==
  [][UNCHANGED <<crashes, sg_log_buff>> =>
       \A e \in Elems(Places) \ Elems(Places)' :
         pc[Ctl] = "clear" /\ e.run = crashes]_vars

\* Nothing writes through sg_log_buff when it is NULL (appender.cc:642 and
\* :611 have neither lock nor check), in either mode: it takes an application
\* that is quiet while it closes.
NoNullBuffer == ~fault

Earlier(e, f) == e.by = f.by /\ e.run = f.run /\ e.n < f.n

Lines(e) == e.kind # "tip"

\* In the file, what one thread logged in one process is in the order it was
\* logged, across blocks, restarts of the background thread and sessions.
ThreadOrder ==
  \A i, j \in DOMAIN file :
    Lines(file[i]) /\ Lines(file[j]) /\ Earlier(file[i], file[j]) => i < j

\* In a session without a crash the file has no hole in what the appender has
\* accepted: once a line of a thread is in it, so is every line of that thread
\* the buffer took before.  What close throws away with the buffer is a tail
\* of them, never the middle.  (A line for which the buffer has no room is
\* never accepted: appender.cc:655 and :660.)
NoHole ==
  opens <= 1 /\ crashes = 0 =>
    \A f \in Elems(file) : \A e \in accepted :
      Lines(e) /\ Lines(f) /\ Earlier(e, f) => e \in Elems(file)
-----------------------------------------------------------------------------
\* The promise of AbstractLog.
MostCalls == MaxLogs + 5 * MaxSessions + 1
Abstract == INSTANCE AbstractLog WITH
  Entry <- Threads \X (0..MostCalls),
  Lives <- Nat \X (Memories \union {"null"}),
  pending <- {<<e.by, e.n>> : e \in Elems(Kept("mmap") \o Kept("heap") \o cTmp
                                           \o asyncTmp \o stdio)},
  written <- {<<e.by, e.n>> : e \in Elems(file)},
  life <- <<crashes, sg_log_buff>>

\* Every step accepts one entry, moves pending entries to the file, or ends
\* the life of the process or of the buffer: an entry is lost nowhere else,
\* and once in the file it stays.  It needs an application that is quiet while
\* it closes (else see OnlyOpenWipes) and calls setmode only while the
\* appender is open.
Implements == Abstract!AbstractSpec
-----------------------------------------------------------------------------
OnItsWay(t, n) ==
  \E e \in Elems(mem["mmap"] \o cTmp \o asyncTmp) : e.by = t /\ e.n = n
InFile(t, n) == \E e \in Elems(file) : e.by = t /\ e.n = n

\* While the appender stays open in Async mode, what is in the buffer, taken
\* out of it, or recovered from a crashed process reaches the file, even when
\* every notify comes while the background thread is not in its wait.
EventuallyWritten ==
  \A t \in Loggers, n \in 1..MaxLogs :
    (OnItsWay(t, n) /\ ~sg_log_close) ~> (InFile(t, n) \/ sg_log_close)

\* A close that has reached the join returns, even when its own notify was
\* lost.
CloseReturns == (pc[Ctl] = "join") ~> (pc[Ctl] = "idle")
=============================================================================
