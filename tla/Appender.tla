------------------------------ MODULE Appender ------------------------------
(***************************************************************************)
(* The log appender of Sources/Core/log/src/appender.cc: any number of     *)
(* logging threads, one thread that controls it (open, close, flush,       *)
(* flush_sync, setmode) and the background thread that moves blocks from   *)
(* the memory-mapped buffer to the log file.                               *)
(*                                                                         *)
(* A step is a critical section under sg_mutex_buffer_async or             *)
(* sg_mutex_log_file, or one access of an unprotected global: of           *)
(* sg_log_close, sg_mode and sg_log_buff, and of the buffer itself in the  *)
(* Flush of kflog_appender_open, which holds no lock.  An entry is one log *)
(* line, its text abstracted; a block is the sequence of entries the       *)
(* buffer holds (LogBuffer models its bytes), the file is the sequence of  *)
(* entries a reader would decode.                                          *)
(***************************************************************************)
EXTENDS Naturals, Sequences, FiniteSets

CONSTANTS Loggers,       \* the threads that call kflogger_appender
          Ctl,           \* the thread that opens and closes the appender
          Modes,         \* the modes the application asks for
          MmapOutcomes,  \* the outcomes OpenMmapFile can have
          QuietClose,    \* TRUE: the application logs nothing while it closes
          ClosedSetMode, \* TRUE: it may call setmode on a closed appender
          BlockCap,      \* entries that fill the buffer
          HighWater,     \* entries at 4/5 of the buffer
          NotifyAt,      \* entries at 1/3 of the buffer
          MaxLogs,       \* bound: calls of each logging thread
          MaxSessions,   \* bound: calls of kflog_appender_open
          MaxCrashes,    \* bound: crashes of the process
          MaxFlush,      \* bound: calls of kflog_appender_flush
          MaxFlushSync,  \* bound: calls of kflog_appender_flush_sync
          MaxSetMode     \* bound: calls of kflog_appender_setmode

ASSUME ThreadAssumption == Ctl \notin Loggers
ASSUME ModeAssumption == Modes \subseteq {"Async", "Sync"}
ASSUME OutcomeAssumption ==
  /\ MmapOutcomes \subseteq BOOLEAN
  /\ QuietClose \in BOOLEAN /\ ClosedSetMode \in BOOLEAN
ASSUME LimitAssumption ==
  /\ BlockCap \in Nat /\ HighWater \in Nat /\ NotifyAt \in Nat
  /\ NotifyAt <= HighWater /\ HighWater <= BlockCap
ASSUME BoundAssumption ==
  /\ MaxLogs \in Nat /\ MaxSessions \in Nat /\ MaxCrashes \in Nat
  /\ MaxFlush \in Nat /\ MaxFlushSync \in Nat /\ MaxSetMode \in Nat

VARIABLES
  sg_mode,        \* KFLogAppenderMode
  sg_log_close,   \* the volatile flag every call of the appender reads
  sg_log_buff,    \* NULL, or the memory the LogBuffer is attached to
  mem,            \* the entries in each memory a LogBuffer can be attached to
  deflating,      \* the LogBuffer's compression stream is open
  pc,             \* where each calling thread is
  cret,           \* where Ctl's own kflogger_appender call returns to
  cmode,          \* the mode Ctl's open was asked for
  cTmp,           \* the block Ctl took out of the buffer and has to write
  asyncPc,        \* where sg_thread_async is
  asyncTmp,       \* the block it took out of the buffer and has to write
  stdio,          \* what fwrite has put into the open FILE and not yet written
  file,           \* the log file
  sent,           \* calls made by each thread
  opens, crashes, flushes, flushSyncs, setModes,  \* counters of the bounds
  fault,          \* a NULL sg_log_buff was dereferenced
  accepted        \* history: the entries the appender has taken

bufVars == <<mem, deflating>>
procVars == <<pc, cret, cmode, cTmp, asyncPc, asyncTmp, stdio>>
boundVars == <<opens, crashes, flushes, flushSyncs, setModes>>
vars == <<sg_mode, sg_log_close, sg_log_buff, bufVars, procVars, file, sent,
          boundVars, fault, accepted>>

-----------------------------------------------------------------------------
Threads == Loggers \union {Ctl}
Memories == {"mmap", "heap"}

\* An entry: who made the call, which of its calls, in which incarnation of
\* the process, and whether it is the caller's line, the line that replaces
\* it in a nearly full buffer, or a tip written straight to the file.
Entries == [by : Threads, n : Nat, run : Nat, kind : {"log", "warn", "tip"}]

MakeEntry(t, kind) == [by |-> t, n |-> sent[t], run |-> crashes, kind |-> kind]

Elems(s) == {s[i] : i \in DOMAIN s}
Live == sg_log_buff # "null"
Block == IF Live THEN mem[sg_log_buff] ELSE << >>

\* LogBuffer::Write takes an entry: it opens the stream for the first one of
\* a block, but cannot go on with a block that a crash has left.
Writable ==
  /\ Live
  /\ Len(Block) < BlockCap
  /\ Block = << >> \/ deflating

\* Mutant of TakeBlock: the block is copied out but not cleared.
TakeBlockNotCleared ==
  /\ UNCHANGED mem
  /\ deflating' = FALSE

\* LogBuffer::Flush under the lock hands out the block and clears the memory.
TakeBlock ==
  /\ mem' = [mem EXCEPT ![sg_log_buff] = << >>]
  /\ deflating' = FALSE

\* kflog_appender_open holds sg_mutex_log_file at this point.
FileLockFree == pc[Ctl] # "setmode"

\* notifyAll wakes the background thread only when it is in the wait.
Notified == IF asyncPc = "waiting" THEN "top" ELSE asyncPc

Goto(t, l) == pc' = [pc EXCEPT ![t] = l]

\* Where t goes at the end of kflogger_appender.
ReturnFrom(t) == Goto(t, IF t = Ctl THEN cret ELSE "idle")

Closing == pc[Ctl] # "idle" /\ cret = "closed"
LoggersIdle == \A l \in Loggers : pc[l] = "idle"
-----------------------------------------------------------------------------
Init ==
  /\ sg_mode = "Async"
  /\ sg_log_close = TRUE
  /\ sg_log_buff = "null"
  /\ mem = [m \in Memories |-> << >>]
  /\ deflating = FALSE
  /\ pc = [t \in Threads |-> "idle"]
  /\ cret = "idle"
  /\ cmode = "Async"
  /\ cTmp = << >>
  /\ asyncPc = "ended"
  /\ asyncTmp = << >>
  /\ stdio = << >>
  /\ file = << >>
  /\ sent = [t \in Threads |-> 0]
  /\ opens = 0 /\ crashes = 0 /\ flushes = 0 /\ flushSyncs = 0 /\ setModes = 0
  /\ fault = FALSE
  /\ accepted = {}
-----------------------------------------------------------------------------
(* __log2file: under the file lock the entries go into the FILE.  Async     *)
(* mode closes it at once; Sync mode leaves it open, and the library writes *)
(* its buffer out when it is full.                                          *)
Log2File(entries) ==
  /\ FileLockFree
  /\ \/ /\ file' = file \o stdio \o entries
        /\ stdio' = << >>
     \/ /\ sg_mode = "Sync"
        /\ stdio' = stdio \o entries
        /\ UNCHANGED file

\* The process is gone with everything it held outside the page cache.
ProcessDies ==
  /\ sg_mode' = "Async"
  /\ sg_log_close' = TRUE
  /\ sg_log_buff' = "null"
  /\ mem' = [mem EXCEPT !["heap"] = << >>]
  /\ deflating' = FALSE
  /\ pc' = [t \in Threads |-> "idle"]
  /\ cret' = "idle"
  /\ cmode' = "Async"
  /\ cTmp' = << >>
  /\ asyncPc' = "ended"
  /\ asyncTmp' = << >>
  /\ stdio' = << >>
  /\ crashes' = crashes + 1

\* The process dies of a NULL sg_log_buff.
NullBuffer ==
  /\ ~Live
  /\ fault' = TRUE
  /\ ProcessDies

Crash ==
  /\ crashes < MaxCrashes
  /\ ProcessDies
  /\ UNCHANGED <<file, sent, opens, flushes, flushSyncs, setModes, fault,
                 accepted>>
-----------------------------------------------------------------------------
(* kflogger_appender and the two ways it writes an entry.                   *)

CallAppender(l) ==
  /\ pc[l] = "idle"
  /\ sent[l] < MaxLogs
  /\ ~sg_log_close
  /\ QuietClose => ~Closing
  /\ sent' = [sent EXCEPT ![l] = @ + 1]
  /\ Goto(l, "branch")
  /\ UNCHANGED <<sg_mode, sg_log_close, sg_log_buff, bufVars, cret, cmode, cTmp,
                 asyncPc, asyncTmp, stdio, file, boundVars, fault, accepted>>

ReadMode(t) ==
  /\ pc[t] = "branch"
  /\ Goto(t, sg_mode)
  /\ UNCHANGED <<sg_mode, sg_log_close, sg_log_buff, bufVars, cret, cmode, cTmp,
                 asyncPc, asyncTmp, stdio, file, sent, boundVars, fault,
                 accepted>>

\* Mutant of AppendDropped: a full buffer makes the caller write to the file
\* itself.
AppendPastBuffer(t) ==
  /\ pc[t] = "Async"
  /\ ~Writable
  /\ Live
  /\ Log2File(<<MakeEntry(t, "log")>>)
  /\ accepted' = accepted \union {MakeEntry(t, "log")}
  /\ ReturnFrom(t)
  /\ UNCHANGED <<sg_mode, sg_log_close, sg_log_buff, bufVars, cret, cmode, cTmp,
                 asyncPc, asyncTmp, sent, boundVars, fault>>

\* The buffer is gone, or Write fails: the entry is dropped.
AppendDropped(t) ==
  /\ pc[t] = "Async"
  /\ ~Writable
  /\ ReturnFrom(t)
  /\ UNCHANGED <<sg_mode, sg_log_close, sg_log_buff, bufVars, cret, cmode, cTmp,
                 asyncPc, asyncTmp, stdio, file, sent, boundVars, fault,
                 accepted>>

Append2Buffer(t, fatal) ==
  /\ pc[t] = "Async"
  /\ Writable
  /\ deflating' = TRUE
  /\ LET e == MakeEntry(t, IF Len(Block) >= HighWater THEN "warn" ELSE "log")
     IN /\ mem' = [mem EXCEPT ![sg_log_buff] = Append(@, e)]
        /\ accepted' = accepted \union {e}
  /\ asyncPc' = IF fatal \/ Len(Block) + 1 >= NotifyAt THEN Notified ELSE asyncPc
  /\ ReturnFrom(t)
  /\ UNCHANGED <<sg_mode, sg_log_close, sg_log_buff, cret, cmode, cTmp,
                 asyncTmp, stdio, file, sent, boundVars, fault>>

\* sg_log_buff->Write with no lock and no check of the pointer.
SyncFormat(t) ==
  /\ pc[t] = "Sync"
  /\ \/ /\ Live
        /\ Goto(t, "log2file")
        /\ UNCHANGED <<sg_mode, sg_log_close, sg_log_buff, bufVars, cret, cmode,
                       cTmp, asyncPc, asyncTmp, stdio, crashes, fault>>
     \/ NullBuffer
  /\ UNCHANGED <<file, sent, opens, flushes, flushSyncs, setModes, accepted>>

SyncWrite(t) ==
  /\ pc[t] = "log2file"
  /\ Log2File(<<MakeEntry(t, "log")>>)
  /\ accepted' = accepted \union {MakeEntry(t, "log")}
  /\ ReturnFrom(t)
  /\ UNCHANGED <<sg_mode, sg_log_close, sg_log_buff, bufVars, cret, cmode, cTmp,
                 asyncPc, asyncTmp, sent, boundVars, fault>>
-----------------------------------------------------------------------------
(* kflog_appender_open.                                                     *)

\* __writetips2file formats with sg_log_buff, again with no lock and no check,
\* and writes to the file itself.
WriteTip(next) ==
  /\ \/ /\ Live
        /\ LET e == [MakeEntry(Ctl, "tip") EXCEPT !.n = @ + 1]
           IN Log2File(<<e>>) /\ accepted' = accepted \union {e}
        /\ sent' = [sent EXCEPT ![Ctl] = @ + 1]
        /\ Goto(Ctl, next)
        /\ UNCHANGED <<sg_mode, sg_log_close, sg_log_buff, bufVars, cret, cmode,
                       cTmp, asyncPc, asyncTmp, crashes, fault>>
     \/ NullBuffer /\ UNCHANGED <<file, sent, accepted>>
  /\ UNCHANGED <<flushes, flushSyncs, setModes>>

OpenAgain ==
  /\ pc[Ctl] = "idle"
  /\ opens < MaxSessions
  /\ ~sg_log_close
  /\ opens' = opens + 1
  /\ WriteTip("idle")

\* The buffer is attached.  A mapped file holds what the last incarnation
\* left in it; the heap's bytes are uninitialized, and may be a block that
\* an earlier session freed.
OpenBuffer(mode, mapped) ==
  /\ pc[Ctl] = "idle"
  /\ opens < MaxSessions
  /\ sg_log_close
  /\ opens' = opens + 1
  /\ cmode' = mode
  /\ sg_log_buff' = IF mapped THEN "mmap" ELSE "heap"
  /\ \/ UNCHANGED mem
     \/ ~mapped /\ mem' = [mem EXCEPT !["heap"] = << >>]
  /\ deflating' = FALSE
  /\ Goto(Ctl, "recover")
  /\ UNCHANGED <<sg_mode, sg_log_close, cret, cTmp, asyncPc, asyncTmp, stdio,
                 file, sent, crashes, flushes, flushSyncs, setModes, fault,
                 accepted>>

\* LogBuffer::Flush without sg_mutex_buffer_async: the stream is closed, the
\* length read, the block copied and the memory cleared, and whoever holds
\* the mutex may use the buffer before each of these.
OpenEndStream ==
  /\ pc[Ctl] = "recover"
  /\ deflating' = FALSE
  /\ Goto(Ctl, "measure")
  /\ UNCHANGED <<sg_mode, sg_log_close, sg_log_buff, mem, cret, cmode, cTmp,
                 asyncPc, asyncTmp, stdio, file, sent, boundVars, fault,
                 accepted>>

\* Mutant of OpenMeasure: the test of the length is the wrong way round.
OpenMeasureWrong ==
  /\ pc[Ctl] = "measure"
  /\ Goto(Ctl, IF Block = << >> THEN "copy" ELSE "clear")
  /\ UNCHANGED <<sg_mode, sg_log_close, sg_log_buff, bufVars, cret, cmode, cTmp,
                 asyncPc, asyncTmp, stdio, file, sent, boundVars, fault,
                 accepted>>

OpenMeasure ==
  /\ pc[Ctl] = "measure"
  /\ Goto(Ctl, IF Block = << >> THEN "clear" ELSE "copy")
  /\ UNCHANGED <<sg_mode, sg_log_close, sg_log_buff, bufVars, cret, cmode, cTmp,
                 asyncPc, asyncTmp, stdio, file, sent, boundVars, fault,
                 accepted>>

OpenCopy ==
  /\ pc[Ctl] = "copy"
  /\ cTmp' = Block
  /\ Goto(Ctl, "clear")
  /\ UNCHANGED <<sg_mode, sg_log_close, sg_log_buff, bufVars, cret, cmode,
                 asyncPc, asyncTmp, stdio, file, sent, boundVars, fault,
                 accepted>>

OpenClear ==
  /\ pc[Ctl] = "clear"
  /\ mem' = [mem EXCEPT ![sg_log_buff] = << >>]
  /\ Goto(Ctl, "unclose")
  /\ UNCHANGED <<sg_mode, sg_log_close, sg_log_buff, deflating, cret, cmode, cTmp,
                 asyncPc, asyncTmp, stdio, file, sent, boundVars, fault,
                 accepted>>

OpenRecover == OpenEndStream \/ OpenMeasure \/ OpenCopy \/ OpenClear

OpenUnclose ==
  /\ pc[Ctl] = "unclose"
  /\ sg_log_close' = FALSE
  /\ Goto(Ctl, "setmode")
  /\ UNCHANGED <<sg_mode, sg_log_buff, bufVars, cret, cmode, cTmp, asyncPc,
                 asyncTmp, stdio, file, sent, boundVars, fault, accepted>>

\* kflog_appender_setmode: notify, and start the thread unless it runs.
ApplyMode(mode) ==
  /\ sg_mode' = mode
  /\ asyncPc' = IF mode = "Async" /\ asyncPc = "ended" THEN "top" ELSE Notified

OpenSetMode ==
  /\ pc[Ctl] = "setmode"
  /\ ApplyMode(cmode)
  /\ Goto(Ctl, IF cTmp = << >> THEN "banner" ELSE "beginTip")
  /\ UNCHANGED <<sg_log_close, sg_log_buff, bufVars, cret, cmode, cTmp, asyncTmp,
                 stdio, file, sent, boundVars, fault, accepted>>

OpenTip(from, next) ==
  /\ pc[Ctl] = from
  /\ WriteTip(next)
  /\ UNCHANGED opens

\* Ctl writes the block it holds: the recovered one, or flush_sync's.
WriteTaken(from, next) ==
  /\ pc[Ctl] = from
  /\ Log2File(cTmp)
  /\ cTmp' = << >>
  /\ Goto(Ctl, next)
  /\ UNCHANGED <<sg_mode, sg_log_close, sg_log_buff, bufVars, cret, cmode, asyncPc,
                 asyncTmp, sent, boundVars, fault, accepted>>

OpenRecovered ==
  \/ OpenTip("beginTip", "recovered")
  \/ WriteTaken("recovered", "endTip")
  \/ OpenTip("endTip", "banner")

\* The lines that describe the session go through kflogger_appender.
OpenBanner ==
  /\ pc[Ctl] = "banner"
  /\ ~sg_log_close
  /\ sent' = [sent EXCEPT ![Ctl] = @ + 1]
  /\ cret' = "idle"
  /\ Goto(Ctl, "branch")
  /\ UNCHANGED <<sg_mode, sg_log_close, sg_log_buff, bufVars, cmode, cTmp, asyncPc,
                 asyncTmp, stdio, file, boundVars, fault, accepted>>

Open ==
  \/ OpenAgain
  \/ \E mode \in Modes, mapped \in MmapOutcomes : OpenBuffer(mode, mapped)
  \/ OpenRecover \/ OpenUnclose \/ OpenSetMode \/ OpenRecovered \/ OpenBanner
-----------------------------------------------------------------------------
(* kflog_appender_flush, flush_sync and setmode.                            *)

Flush ==
  /\ flushes < MaxFlush
  /\ flushes' = flushes + 1
  /\ asyncPc' = Notified
  /\ UNCHANGED <<sg_mode, sg_log_close, sg_log_buff, bufVars, pc, cret, cmode, cTmp,
                 asyncTmp, stdio, file, sent, opens, crashes, flushSyncs,
                 setModes, fault, accepted>>

\* Mutant of FlushSyncTake: the block is cleared before it is copied.
FlushSyncTakeNothing ==
  /\ pc[Ctl] = "idle"
  /\ flushSyncs < MaxFlushSync
  /\ sg_mode # "Sync"
  /\ Live
  /\ flushSyncs' = flushSyncs + 1
  /\ TakeBlock
  /\ UNCHANGED <<sg_mode, sg_log_close, sg_log_buff, pc, cret, cmode, cTmp,
                 asyncPc, asyncTmp, stdio, file, sent, opens, crashes, flushes,
                 setModes, fault, accepted>>

FlushSyncTake ==
  /\ pc[Ctl] = "idle"
  /\ flushSyncs < MaxFlushSync
  /\ sg_mode # "Sync"
  /\ Live
  /\ Block # << >>
  /\ flushSyncs' = flushSyncs + 1
  /\ cTmp' = Block
  /\ TakeBlock
  /\ Goto(Ctl, "flushSync")
  /\ UNCHANGED <<sg_mode, sg_log_close, sg_log_buff, cret, cmode, asyncPc,
                 asyncTmp, stdio, file, sent, opens, crashes, flushes, setModes,
                 fault, accepted>>

FlushSync == FlushSyncTake \/ WriteTaken("flushSync", "idle")

SetMode(mode) ==
  /\ pc[Ctl] = "idle"
  /\ sg_log_close => ClosedSetMode
  /\ setModes < MaxSetMode
  /\ setModes' = setModes + 1
  /\ ApplyMode(mode)
  /\ UNCHANGED <<sg_log_close, sg_log_buff, bufVars, pc, cret, cmode, cTmp, asyncTmp,
                 stdio, file, sent, opens, crashes, flushes, flushSyncs, fault,
                 accepted>>
-----------------------------------------------------------------------------
(* kflog_appender_close.                                                    *)

\* The mark that ends the session goes through kflogger_appender.
CloseMark ==
  /\ pc[Ctl] = "idle"
  /\ ~sg_log_close
  /\ QuietClose => LoggersIdle
  /\ sent' = [sent EXCEPT ![Ctl] = @ + 1]
  /\ cret' = "closed"
  /\ Goto(Ctl, "branch")
  /\ UNCHANGED <<sg_mode, sg_log_close, sg_log_buff, bufVars, cmode, cTmp, asyncPc,
                 asyncTmp, stdio, file, boundVars, fault, accepted>>

\* Mutant of CloseFlag: the flag is not set.
CloseFlagForgotten ==
  /\ pc[Ctl] = "closed"
  /\ asyncPc' = Notified
  /\ Goto(Ctl, "join")
  /\ UNCHANGED <<sg_mode, sg_log_close, sg_log_buff, bufVars, cret, cmode, cTmp,
                 asyncTmp, stdio, file, sent, boundVars, fault, accepted>>

CloseFlag ==
  /\ pc[Ctl] = "closed"
  /\ sg_log_close' = TRUE
  /\ asyncPc' = Notified
  /\ Goto(Ctl, "join")
  /\ UNCHANGED <<sg_mode, sg_log_buff, bufVars, cret, cmode, cTmp, asyncTmp, stdio,
                 file, sent, boundVars, fault, accepted>>

CloseJoin ==
  /\ pc[Ctl] = "join"
  /\ asyncPc = "ended"
  /\ Goto(Ctl, "free")
  /\ UNCHANGED <<sg_mode, sg_log_close, sg_log_buff, bufVars, cret, cmode, cTmp,
                 asyncPc, asyncTmp, stdio, file, sent, boundVars, fault,
                 accepted>>

\* The mapped bytes are zeroed; the heap's are only returned.
CloseFree ==
  /\ pc[Ctl] = "free"
  /\ mem' = [mem EXCEPT !["mmap"] = IF sg_log_buff = "mmap" THEN << >> ELSE @]
  /\ deflating' = FALSE
  /\ sg_log_buff' = "null"
  /\ Goto(Ctl, "closefile")
  /\ UNCHANGED <<sg_mode, sg_log_close, cret, cmode, cTmp, asyncPc, asyncTmp,
                 stdio, file, sent, boundVars, fault, accepted>>

CloseFile ==
  /\ pc[Ctl] = "closefile"
  /\ file' = file \o stdio
  /\ stdio' = << >>
  /\ cret' = "idle"
  /\ Goto(Ctl, "idle")
  /\ UNCHANGED <<sg_mode, sg_log_close, sg_log_buff, bufVars, cmode, cTmp, asyncPc,
                 asyncTmp, sent, boundVars, fault, accepted>>

Close == CloseMark \/ CloseFlag \/ CloseJoin \/ CloseFree \/ CloseFile
-----------------------------------------------------------------------------
(* __async_log_thread.                                                      *)

AsyncGoto(l) ==
  /\ asyncPc' = l
  /\ UNCHANGED <<sg_mode, sg_log_close, sg_log_buff, pc, cret, cmode, cTmp, sent,
                 boundVars, fault, accepted>>

AsyncTake ==
  /\ asyncPc = "top"
  /\ \/ /\ ~Live
        /\ AsyncGoto("ending")
        /\ UNCHANGED <<bufVars, asyncTmp>>
     \/ /\ Live
        /\ asyncTmp' = Block
        /\ TakeBlock
        /\ AsyncGoto(IF Block = << >> THEN "check" ELSE "write")
  /\ UNCHANGED <<stdio, file>>

AsyncWrite ==
  /\ asyncPc = "write"
  /\ Log2File(asyncTmp)
  /\ asyncTmp' = << >>
  /\ AsyncGoto("check")
  /\ UNCHANGED bufVars

AsyncCheckClose ==
  /\ asyncPc = "check"
  /\ AsyncGoto(IF sg_log_close THEN "ending" ELSE "wait")
  /\ UNCHANGED <<bufVars, asyncTmp, stdio, file>>

AsyncWait ==
  /\ asyncPc = "wait"
  /\ AsyncGoto("waiting")
  /\ UNCHANGED <<bufVars, asyncTmp, stdio, file>>

\* Mutant of AsyncTimeout: the wait has no timeout.
AsyncNoTimeout == FALSE /\ UNCHANGED vars

\* The wait's fifteen minutes are over, or it wakes for no reason.
AsyncTimeout ==
  /\ asyncPc = "waiting"
  /\ AsyncGoto("top")
  /\ UNCHANGED <<bufVars, asyncTmp, stdio, file>>

\* The thread routine is over: isruning() is false only now.
AsyncEnd ==
  /\ asyncPc = "ending"
  /\ AsyncGoto("ended")
  /\ UNCHANGED <<bufVars, asyncTmp, stdio, file>>

AsyncThread ==
  \/ AsyncTake \/ AsyncWrite \/ AsyncCheckClose
  \/ AsyncWait \/ AsyncTimeout \/ AsyncEnd
-----------------------------------------------------------------------------
\* The rest of a call of kflogger_appender that t has entered.
AppenderStep(t) ==
  \/ ReadMode(t) \/ AppendDropped(t) \/ SyncFormat(t) \/ SyncWrite(t)
  \/ \E fatal \in {FALSE} \union {t # Ctl} : Append2Buffer(t, fatal)

Next ==
  \/ Crash
  \/ \E l \in Loggers : CallAppender(l)
  \/ \E t \in Threads : AppenderStep(t)
  \/ Open \/ Close
  \/ Flush \/ FlushSync \/ \E mode \in Modes : SetMode(mode)
  \/ AsyncThread

Spec == Init /\ [][Next]_vars

\* Every thread that has work to do is scheduled, the wait's timer fires, and
\* Ctl finishes the open or close it has begun.  Nobody has to make a call.
Fairness ==
  /\ \A t \in Threads : WF_vars(AppenderStep(t))
  /\ WF_vars(OpenRecover \/ OpenUnclose \/ OpenSetMode \/ OpenRecovered \/ OpenBanner)
  /\ WF_vars(WriteTaken("flushSync", "idle"))
  /\ WF_vars(CloseFlag \/ CloseJoin \/ CloseFree \/ CloseFile)
  /\ WF_vars(AsyncThread)

FairSpec == Spec /\ Fairness
=============================================================================
