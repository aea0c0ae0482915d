--------------------------- MODULE AppenderProofs ---------------------------
(***************************************************************************)
(* What is proved of the appender for any threads, limits and bounds:      *)
(* types, and that only open's clearing of the buffer takes an entry away. *)
(* For an application that calls setmode only while the appender is open:  *)
(* that no entry is in two places, so none is written twice.  For one that *)
(* is quiet while it closes: the uses of the buffer pointer and, with the  *)
(* condition on setmode, that the appender implements AbstractLog.  For    *)
(* one that keeps to the conditions of Plain: the file is in order and its *)
(* first session has no hole.                                              *)
(***************************************************************************)
EXTENDS AppenderProps, SequenceTheorems, TLAPS

-----------------------------------------------------------------------------
(* Types.                                                                   *)

\* An entry made by a thread is an entry.
LEMMA MakeEntryType ==
  ASSUME TypeOK, NEW t \in Threads, NEW kind \in {"log", "warn", "tip"}
  PROVE  MakeEntry(t, kind) \in Entries
BY DEF TypeOK, MakeEntry, Entries

\* What __log2file is given ends up in the file or in the library's buffer.
LEMMA Log2FileType ==
  ASSUME TypeOK, NEW es \in Seq(Entries), Log2File(es)
  PROVE  file' \in Seq(Entries) /\ stdio' \in Seq(Entries)
<1>1. file \in Seq(Entries) /\ stdio \in Seq(Entries)
  BY DEF TypeOK
<1>2. file \o stdio \in Seq(Entries) /\ stdio \o es \in Seq(Entries)
  BY <1>1, ConcatProperties
<1>3. file \o stdio \o es \in Seq(Entries)
  BY <1>2, ConcatProperties
<1>4. << >> \in Seq(Entries)
  BY EmptySeq
<1>5. QED
  BY <1>1, <1>2, <1>3, <1>4 DEF Log2File

\* The block in the buffer is a sequence of entries.
LEMMA BlockType ==
  ASSUME TypeOK
  PROVE  Block \in Seq(Entries)
BY EmptySeq DEF TypeOK, Block, Live

\* A jump of a thread to a label leaves every thread at a label.
LEMMA GotoType ==
  ASSUME TypeOK, NEW t \in Threads, NEW l \in Labels, Goto(t, l)
  PROVE  pc' \in [Threads -> Labels]
BY DEF TypeOK, Goto

\* So does the return from kflogger_appender.
LEMMA ReturnFromType ==
  ASSUME TypeOK, NEW t \in Threads, ReturnFrom(t)
  PROVE  pc' \in [Threads -> Labels]
BY DEF TypeOK, ReturnFrom, Goto, Labels

\* A notified background thread is at one of its labels.
LEMMA NotifiedType ==
  ASSUME TypeOK
  PROVE  Notified \in AsyncLabels
BY DEF TypeOK, Notified, AsyncLabels

\* LogBuffer::Flush leaves sequences of entries in the memories.
LEMMA TakeBlockType ==
  ASSUME TypeOK, TakeBlock
  PROVE  mem' \in [Memories -> Seq(Entries)] /\ deflating' \in BOOLEAN
BY EmptySeq DEF TypeOK, TakeBlock

\* The program starts in a state of its type.
LEMMA InitType == Init => TypeOK
<1> SUFFICES ASSUME Init PROVE TypeOK
  OBVIOUS
<1>1. << >> \in Seq(Entries)
  BY EmptySeq
<1>2. /\ mem \in [Memories -> Seq(Entries)]
      /\ cTmp \in Seq(Entries) /\ asyncTmp \in Seq(Entries)
      /\ stdio \in Seq(Entries) /\ file \in Seq(Entries)
  BY <1>1 DEF Init
<1>3. pc \in [Threads -> Labels] /\ sent \in [Threads -> Nat]
  BY DEF Init, Labels
<1>4. /\ sg_mode \in {"Async", "Sync"} /\ cmode \in {"Async", "Sync"}
      /\ sg_log_close \in BOOLEAN /\ deflating \in BOOLEAN /\ fault \in BOOLEAN
      /\ sg_log_buff \in Memories \union {"null"}
      /\ cret \in {"idle", "closed"} /\ asyncPc \in AsyncLabels
  BY DEF Init, AsyncLabels
<1>5. /\ opens \in Nat /\ crashes \in Nat /\ flushes \in Nat
      /\ flushSyncs \in Nat /\ setModes \in Nat
      /\ accepted \subseteq Entries
  BY DEF Init
<1>6. QED
  BY <1>2, <1>3, <1>4, <1>5 DEF TypeOK

\* A process that dies leaves variables of their types.
LEMMA ProcessDiesType ==
  ASSUME TypeOK, ProcessDies
  PROVE  /\ sg_mode' \in {"Async", "Sync"} /\ cmode' \in {"Async", "Sync"}
         /\ sg_log_close' \in BOOLEAN /\ deflating' \in BOOLEAN
         /\ sg_log_buff' \in Memories \union {"null"}
         /\ cret' \in {"idle", "closed"} /\ asyncPc' \in AsyncLabels
         /\ mem' \in [Memories -> Seq(Entries)]
         /\ cTmp' \in Seq(Entries) /\ asyncTmp' \in Seq(Entries)
         /\ stdio' \in Seq(Entries)
         /\ pc' \in [Threads -> Labels]
         /\ crashes' \in Nat
<1>1. << >> \in Seq(Entries)
  BY EmptySeq
<1>2. /\ mem' \in [Memories -> Seq(Entries)]
      /\ cTmp' \in Seq(Entries) /\ asyncTmp' \in Seq(Entries)
      /\ stdio' \in Seq(Entries)
  BY <1>1 DEF TypeOK, ProcessDies
<1>3. pc' \in [Threads -> Labels]
  BY DEF ProcessDies, Labels
<1>4. /\ sg_mode' \in {"Async", "Sync"} /\ cmode' \in {"Async", "Sync"}
      /\ sg_log_close' \in BOOLEAN /\ deflating' \in BOOLEAN
      /\ sg_log_buff' \in Memories \union {"null"}
      /\ cret' \in {"idle", "closed"} /\ asyncPc' \in AsyncLabels
  BY DEF ProcessDies, AsyncLabels
<1>5. crashes' \in Nat
  BY DEF TypeOK, ProcessDies
<1>6. QED
  BY <1>2, <1>3, <1>4, <1>5

-----------------------------------------------------------------------------
\* Every step of every thread keeps the type.
LEMMA StepType ==
  ASSUME TypeOK, [Next]_vars
  PROVE  TypeOK'
<1> USE DEF bufVars, procVars, boundVars
<1>1. CASE Crash
  BY <1>1, ProcessDiesType DEF Crash, TypeOK
<1>2. ASSUME NEW l \in Loggers, CallAppender(l) PROVE TypeOK'
  <2>1. l \in Threads
    BY DEF Threads
  <2>2. pc' \in [Threads -> Labels]
    BY <1>2, <2>1, GotoType DEF CallAppender, Labels
  <2>3. sent' \in [Threads -> Nat]
    BY <1>2, <2>1 DEF CallAppender, TypeOK
  <2>4. QED
    BY <1>2, <2>2, <2>3 DEF CallAppender, TypeOK
<1>3. ASSUME NEW t \in Threads, ReadMode(t) PROVE TypeOK'
  <2>1. sg_mode \in Labels
    BY DEF TypeOK, Labels
  <2>2. pc' \in [Threads -> Labels]
    BY <1>3, <2>1, GotoType DEF ReadMode
  <2>3. QED
    BY <1>3, <2>2 DEF ReadMode, TypeOK
<1>4. ASSUME NEW t \in Threads, AppendDropped(t) PROVE TypeOK'
  <2>1. pc' \in [Threads -> Labels]
    BY <1>4, ReturnFromType DEF AppendDropped
  <2>2. QED
    BY <1>4, <2>1 DEF AppendDropped, TypeOK
<1>5. ASSUME NEW t \in Threads, NEW fatal \in BOOLEAN, Append2Buffer(t, fatal)
      PROVE  TypeOK'
  <2> DEFINE e == MakeEntry(t, IF Len(Block) >= HighWater THEN "warn" ELSE "log")
  <2>1. e \in Entries
    BY MakeEntryType
  <2>2. \A m \in Memories : Append(mem[m], e) \in Seq(Entries)
    BY <2>1, AppendProperties DEF TypeOK
  <2>3. mem' \in [Memories -> Seq(Entries)]
    BY <1>5, <2>2 DEF Append2Buffer, TypeOK
  <2>4. accepted' \subseteq Entries
    BY <1>5, <2>1 DEF Append2Buffer, TypeOK
  <2>5. pc' \in [Threads -> Labels] /\ asyncPc' \in AsyncLabels
    BY <1>5, ReturnFromType, NotifiedType DEF Append2Buffer, TypeOK
  <2>6. QED
    BY <1>5, <2>3, <2>4, <2>5 DEF Append2Buffer, TypeOK
<1>6. ASSUME NEW t \in Threads, SyncFormat(t) PROVE TypeOK'
  <2>1. CASE Live
    BY <1>6, <2>1, GotoType DEF SyncFormat, NullBuffer, TypeOK, Labels
  <2>2. CASE ~Live
    <3>1. /\ fault' = TRUE /\ ProcessDies
          /\ UNCHANGED <<file, sent, opens, flushes, flushSyncs, setModes, accepted>>
      BY <1>6, <2>2 DEF SyncFormat, NullBuffer
    <3>2. fault' \in BOOLEAN
      BY <3>1, Zenon
    <3>3. QED
      BY <3>1, <3>2, ProcessDiesType DEF TypeOK
  <2>3. QED
    BY <2>1, <2>2
<1>7. ASSUME NEW t \in Threads, SyncWrite(t) PROVE TypeOK'
  <2>1. MakeEntry(t, "log") \in Entries
    BY MakeEntryType
  <2>2. <<MakeEntry(t, "log")>> \in Seq(Entries)
    BY <2>1
  <2>3. file' \in Seq(Entries) /\ stdio' \in Seq(Entries)
    BY <1>7, <2>2, Log2FileType DEF SyncWrite
  <2>4. QED
    BY <1>7, <2>1, <2>3, ReturnFromType DEF SyncWrite, TypeOK
<1>8. ASSUME NEW next \in Labels, WriteTip(next), opens' \in Nat
      PROVE  TypeOK'
  <2> DEFINE e == [MakeEntry(Ctl, "tip") EXCEPT !.n = @ + 1]
  <2>1. MakeEntry(Ctl, "tip") \in Entries
    BY MakeEntryType DEF Threads
  <2>2. e \in Entries
    BY <2>1 DEF Entries
  <2>3. <<e>> \in Seq(Entries)
    BY <2>2
  <2>4. CASE Live
    <3>1. /\ Log2File(<<e>>) /\ accepted' = accepted \union {e}
          /\ sent' = [sent EXCEPT ![Ctl] = @ + 1]
          /\ Goto(Ctl, next)
          /\ UNCHANGED <<sg_mode, sg_log_close, sg_log_buff, bufVars, cret, cmode,
                         cTmp, asyncPc, asyncTmp, crashes, fault,
                         flushes, flushSyncs, setModes>>
      BY <1>8, <2>4 DEF WriteTip, NullBuffer
    <3> HIDE DEF e
    <3>2. file' \in Seq(Entries) /\ stdio' \in Seq(Entries)
      BY <2>3, <3>1, Log2FileType
    <3>3. accepted' \subseteq Entries
      BY <2>2, <3>1 DEF TypeOK
    <3>4. sent' \in [Threads -> Nat]
      BY <3>1 DEF TypeOK, Threads
    <3>5. pc' \in [Threads -> Labels]
      BY <3>1, GotoType DEF Threads
    <3>6. QED
      BY <1>8, <3>1, <3>2, <3>3, <3>4, <3>5 DEF TypeOK
  <2>5. CASE ~Live
    <3>1. /\ fault' = TRUE /\ ProcessDies
          /\ UNCHANGED <<file, sent, accepted, flushes, flushSyncs, setModes>>
      BY <1>8, <2>5 DEF WriteTip, NullBuffer
    <3>2. fault' \in BOOLEAN
      BY <3>1, Zenon
    <3>3. QED
      BY <1>8, <3>1, <3>2, ProcessDiesType DEF TypeOK
  <2>6. QED
    BY <2>4, <2>5
<1>9. CASE OpenAgain
  <2>1. opens' \in Nat /\ WriteTip("idle") /\ "idle" \in Labels
    BY <1>9 DEF OpenAgain, TypeOK, Labels
  <2>2. QED
    BY <1>8, <2>1
<1>10. ASSUME NEW mode \in Modes, NEW mapped \in MmapOutcomes,
              OpenBuffer(mode, mapped)
       PROVE  TypeOK'
  <2>1. mem' \in [Memories -> Seq(Entries)]
    BY <1>10, EmptySeq DEF OpenBuffer, TypeOK
  <2>2. pc' \in [Threads -> Labels]
    BY <1>10, GotoType DEF OpenBuffer, Labels, Threads
  <2>3. QED
    <3>1. cmode' \in {"Async", "Sync"}
      BY <1>10, ModeAssumption DEF OpenBuffer
    <3>2. sg_log_buff' \in Memories \union {"null"}
      BY <1>10 DEF OpenBuffer, Memories
    <3>3. opens' \in Nat /\ deflating' \in BOOLEAN
      <4>1. opens' \in Nat
        BY <1>10 DEF OpenBuffer, TypeOK
      <4>2. deflating' = FALSE
        BY <1>10 DEF OpenBuffer
      <4>3. deflating' \in BOOLEAN
        BY <4>2, Zenon
      <4>4. QED
        BY <4>1, <4>3
    <3>4. UNCHANGED <<sg_mode, sg_log_close, cret, cTmp, asyncPc, asyncTmp,
                      stdio, file, sent, crashes, flushes, flushSyncs, setModes,
                      fault, accepted>>
      BY <1>10 DEF OpenBuffer
    <3>5. QED
      BY <2>1, <2>2, <3>1, <3>2, <3>3, <3>4 DEF TypeOK
<1>11. CASE OpenRecover
  <2>1. CASE OpenEndStream
    <3>1. pc' \in [Threads -> Labels] /\ deflating' \in BOOLEAN
      BY <2>1, GotoType DEF OpenEndStream, Labels, Threads
    <3>2. QED
      BY <2>1, <3>1 DEF OpenEndStream, TypeOK
  <2>2. CASE OpenMeasure
    <3>1. pc' \in [Threads -> Labels]
      BY <2>2, GotoType DEF OpenMeasure, Labels, Threads
    <3>2. QED
      BY <2>2, <3>1 DEF OpenMeasure, TypeOK
  <2>3. CASE OpenCopy
    <3>1. pc' \in [Threads -> Labels]
      BY <2>3, GotoType DEF OpenCopy, Labels, Threads
    <3>2. QED
      BY <2>3, <3>1, BlockType DEF OpenCopy, TypeOK
  <2>4. CASE OpenClear
    <3>1. pc' \in [Threads -> Labels]
      BY <2>4, GotoType DEF OpenClear, Labels, Threads
    <3>2. mem' \in [Memories -> Seq(Entries)]
      BY <2>4, EmptySeq DEF OpenClear, TypeOK
    <3>3. QED
      BY <2>4, <3>1, <3>2 DEF OpenClear, TypeOK
  <2>5. QED
    BY <1>11, <2>1, <2>2, <2>3, <2>4 DEF OpenRecover
<1>12. CASE OpenUnclose
  BY <1>12, GotoType DEF OpenUnclose, TypeOK, Labels, Threads
<1>13. ASSUME NEW mode \in {"Async", "Sync"}, ApplyMode(mode)
       PROVE  sg_mode' \in {"Async", "Sync"} /\ asyncPc' \in AsyncLabels
  BY <1>13, NotifiedType DEF ApplyMode, AsyncLabels
<1>14. CASE OpenSetMode
  <2>1. pc' \in [Threads -> Labels]
    BY <1>14, GotoType DEF OpenSetMode, Labels, Threads
  <2>2. QED
    BY <1>13, <1>14, <2>1 DEF OpenSetMode, TypeOK
<1>15. ASSUME NEW from \in Labels, NEW next \in Labels, OpenTip(from, next)
       PROVE  TypeOK'
  <2>1. opens' \in Nat /\ WriteTip(next)
    BY <1>15 DEF OpenTip, TypeOK
  <2>2. QED
    BY <1>8, <2>1
<1>16. ASSUME NEW from \in Labels, NEW next \in Labels, WriteTaken(from, next)
       PROVE  TypeOK'
  <2>1. file' \in Seq(Entries) /\ stdio' \in Seq(Entries)
    BY <1>16, Log2FileType DEF WriteTaken, TypeOK
  <2>2. pc' \in [Threads -> Labels]
    BY <1>16, GotoType DEF WriteTaken, Threads
  <2>3. QED
    BY <1>16, <2>1, <2>2, EmptySeq DEF WriteTaken, TypeOK
<1>17. CASE OpenRecovered
  BY <1>15, <1>16, <1>17 DEF OpenRecovered, Labels
<1>18. CASE OpenBanner
  <2>1. pc' \in [Threads -> Labels]
    BY <1>18, GotoType DEF OpenBanner, Labels, Threads
  <2>2. QED
    BY <1>18, <2>1 DEF OpenBanner, TypeOK, Threads
<1>19. CASE Close
  <2>1. pc' \in [Threads -> Labels]
    BY <1>19, GotoType DEF Close, CloseMark, CloseFlag, CloseJoin, CloseFree,
                           CloseFile, Labels, Threads
  <2>2. CASE CloseMark
    BY <2>1, <2>2 DEF CloseMark, TypeOK, Threads
  <2>3. CASE CloseFlag
    BY <2>1, <2>3, NotifiedType DEF CloseFlag, TypeOK
  <2>4. CASE CloseJoin
    BY <2>1, <2>4 DEF CloseJoin, TypeOK
  <2>5. CASE CloseFree
    BY <2>1, <2>5, EmptySeq DEF CloseFree, TypeOK, Memories
  <2>6. CASE CloseFile
    BY <2>1, <2>6, EmptySeq, ConcatProperties DEF CloseFile, TypeOK
  <2>7. QED
    BY <1>19, <2>2, <2>3, <2>4, <2>5, <2>6 DEF Close
<1>20. CASE Flush
  BY <1>20, NotifiedType DEF Flush, TypeOK
<1>21. CASE FlushSync
  <2>1. CASE FlushSyncTake
    <3>1. pc' \in [Threads -> Labels]
      BY <2>1, GotoType DEF FlushSyncTake, Labels, Threads
    <3>2. QED
      BY <2>1, <3>1, BlockType, TakeBlockType DEF FlushSyncTake, TypeOK
  <2>2. QED
    BY <1>16, <1>21, <2>1 DEF FlushSync, Labels
<1>22. ASSUME NEW mode \in Modes, SetMode(mode) PROVE TypeOK'
  <2>1. mode \in {"Async", "Sync"}
    BY ModeAssumption
  <2>2. sg_mode' \in {"Async", "Sync"} /\ asyncPc' \in AsyncLabels
    BY <1>13, <1>22, <2>1 DEF SetMode
  <2>3. QED
    BY <1>22, <2>2 DEF SetMode, TypeOK
<1>23. CASE AsyncThread
  <2>1. CASE AsyncTake
    BY <2>1, BlockType, TakeBlockType DEF AsyncTake, AsyncGoto, TypeOK, AsyncLabels
  <2>2. CASE AsyncWrite
    BY <2>2, Log2FileType, EmptySeq DEF AsyncWrite, AsyncGoto, TypeOK, AsyncLabels
  <2>3. CASE AsyncCheckClose \/ AsyncWait \/ AsyncTimeout \/ AsyncEnd
    BY <2>3 DEF AsyncCheckClose, AsyncWait, AsyncTimeout, AsyncEnd, AsyncGoto,
                TypeOK, AsyncLabels
  <2>4. QED
    BY <1>23, <2>1, <2>2, <2>3 DEF AsyncThread
<1>24. CASE UNCHANGED vars
  BY <1>24 DEF vars, TypeOK
<1>25. QED
  <2>1. ASSUME NEW t \in Threads, AppenderStep(t) PROVE TypeOK'
    BY <1>3, <1>4, <1>5, <1>6, <1>7, <2>1 DEF AppenderStep
  <2>2. CASE Open
    BY <1>9, <1>10, <1>11, <1>12, <1>14, <1>17, <1>18, <2>2 DEF Open
  <2>3. QED
    BY <1>1, <1>2, <1>19, <1>20, <1>21, <1>22, <1>23, <1>24, <2>1, <2>2 DEF Next

\* Every reachable state is of its type, for any number of threads, any
\* limits of the buffer and any number of sessions and crashes.
THEOREM TypeCorrect == Spec => []TypeOK
<1>1. QED
  BY InitType, StepType, PTL DEF Spec

-----------------------------------------------------------------------------
(* An application that asks only for Async mode.                            *)

\* An application that only asks for Async never sends a thread down the
\* path that uses the pointer without the lock.
AsyncInv ==
  /\ sg_mode = "Async"
  /\ cmode = "Async"
  /\ \A t \in Threads : pc[t] \notin {"Sync", "log2file"}
  /\ cret \in {"idle", "closed"}

\* An Async application starts on the locked path.
LEMMA AsyncInit == Init => AsyncInv
BY DEF Init, AsyncInv

\* Every step of an Async application stays on it.
LEMMA AsyncStep ==
  ASSUME Modes = {"Async"}, TypeOK, AsyncInv, [Next]_vars
  PROVE  AsyncInv'
<1> USE DEF AsyncInv, bufVars, procVars, boundVars
<1>0. pc \in [Threads -> Labels] /\ Ctl \in Threads
  BY DEF TypeOK, Threads
<1>1. CASE Crash
  BY <1>1 DEF Crash, ProcessDies
<1>2. ASSUME NEW l \in Loggers, CallAppender(l) PROVE AsyncInv'
  BY <1>0, <1>2 DEF CallAppender, Goto
<1>3. ASSUME NEW t \in Threads, AppenderStep(t) PROVE AsyncInv'
  <2>1. ~SyncFormat(t) /\ ~SyncWrite(t)
    BY DEF SyncFormat, SyncWrite
  <2>2. QED
    BY <1>0, <1>3, <2>1 DEF AppenderStep, ReadMode, AppendDropped, Append2Buffer,
                            ReturnFrom, Goto
<1>4. CASE Open
  <2>1. CASE OpenAgain \/ OpenRecovered
    BY <1>0, <2>1 DEF OpenAgain, OpenRecovered, OpenTip, WriteTaken, WriteTip,
                      NullBuffer, ProcessDies, Goto
  <2>2. ASSUME NEW mode \in Modes, NEW mapped \in MmapOutcomes,
               OpenBuffer(mode, mapped)
        PROVE  AsyncInv'
    BY <1>0, <2>2 DEF OpenBuffer, Goto
  <2>3. CASE OpenRecover \/ OpenUnclose \/ OpenSetMode \/ OpenBanner
    BY <1>0, <2>3 DEF OpenRecover, OpenEndStream, OpenMeasure, OpenCopy,
                      OpenClear, OpenUnclose, OpenSetMode, ApplyMode,
                      OpenBanner, Goto
  <2>4. QED
    BY <1>4, <2>1, <2>2, <2>3 DEF Open
<1>5. CASE Close
  BY <1>0, <1>5 DEF Close, CloseMark, CloseFlag, CloseJoin, CloseFree, CloseFile,
                    Goto
<1>6. CASE Flush \/ FlushSync
  BY <1>0, <1>6 DEF Flush, FlushSync, FlushSyncTake, WriteTaken, Goto
<1>7. ASSUME NEW mode \in Modes, SetMode(mode) PROVE AsyncInv'
  BY <1>7 DEF SetMode, ApplyMode
<1>8. CASE AsyncThread
  BY <1>8 DEF AsyncThread, AsyncTake, AsyncWrite, AsyncCheckClose, AsyncWait,
              AsyncTimeout, AsyncEnd, AsyncGoto
<1>9. CASE UNCHANGED vars
  BY <1>9 DEF vars
<1>10. QED
  BY <1>1, <1>2, <1>3, <1>4, <1>5, <1>6, <1>7, <1>8, <1>9 DEF Next

-----------------------------------------------------------------------------
(* The buffer pointer when the application is quiet while it closes.        *)

Calling == {"branch", "Async", "Sync", "log2file"}
Recovering == {"recover", "measure", "copy", "clear", "unclose"}
Opening == {"setmode", "beginTip", "recovered", "endTip", "banner"}

\* The loggers are idle whenever the flag is up or a close is under way, and
\* the pointer is NULL only while the flag is up: so no call that read the
\* flag down is still running when the buffer goes.
QuietInv ==
  /\ sg_log_close \/ Closing => LoggersIdle
  /\ ~sg_log_close => Live
  /\ pc[Ctl] \in Calling \union Opening \union {"closed"} => ~sg_log_close
  /\ pc[Ctl] \in Recovering => sg_log_close /\ Live
  /\ pc[Ctl] \in {"join", "free", "closefile"} => sg_log_close
  /\ pc[Ctl] \in {"closed", "join", "free", "closefile"} => cret = "closed"
  /\ pc[Ctl] \notin Calling \union {"closed", "join", "free", "closefile"}
       => cret = "idle"
  /\ cret \in {"idle", "closed"}
  /\ ~fault

\* Everything is idle at the start.
LEMMA QuietInit == Init => QuietInv
BY DEF Init, QuietInv, Closing, LoggersIdle, Live, Calling, Recovering, Opening,
       Threads

\* No step of a quiet application breaks the invariant.
LEMMA QuietStep ==
  ASSUME QuietClose, TypeOK, QuietInv, [Next]_vars
  PROVE  QuietInv'
<1> USE DEF QuietInv, Closing, LoggersIdle, Live, Calling, Recovering, Opening,
            bufVars, procVars, boundVars
<1>0. /\ pc \in [Threads -> Labels]
      /\ Ctl \in Threads /\ Loggers \subseteq Threads /\ Ctl \notin Loggers
      /\ sg_log_close \in BOOLEAN
  BY ThreadAssumption DEF TypeOK, Threads
<1>1. CASE Crash
  BY <1>0, <1>1 DEF Crash, ProcessDies
<1>2. ASSUME NEW l \in Loggers, CallAppender(l) PROVE QuietInv'
  BY <1>0, <1>2 DEF CallAppender, Goto
<1>3. ASSUME NEW t \in Threads, AppenderStep(t) PROVE QuietInv'
  <2>1. pc[t] \in Calling /\ (t \in Loggers \/ t = Ctl)
    BY <1>3 DEF AppenderStep, ReadMode, AppendDropped, Append2Buffer, SyncFormat,
                SyncWrite, Threads
  <2>2. ~sg_log_close /\ Live
    BY <1>0, <2>1
  <2>3. /\ pc' = [pc EXCEPT ![t] = pc'[t]]
        /\ pc'[t] \in Calling \union {IF t = Ctl THEN cret ELSE "idle"}
        /\ UNCHANGED <<sg_log_close, sg_log_buff, cret, fault>>
    BY <1>0, <1>3, <2>2 DEF AppenderStep, ReadMode, AppendDropped, Append2Buffer,
                NullBuffer, SyncFormat, SyncWrite, ReturnFrom, Goto, TypeOK
  <2>4. QED
    BY <1>0, <2>1, <2>2, <2>3
<1>4. CASE Open
  <2>1. CASE OpenAgain \/ OpenRecovered
    BY <1>0, <2>1 DEF OpenAgain, OpenRecovered, OpenTip, WriteTaken, WriteTip,
                      NullBuffer, Goto
  <2>2. ASSUME NEW mode \in Modes, NEW mapped \in MmapOutcomes,
               OpenBuffer(mode, mapped)
        PROVE  QuietInv'
    BY <1>0, <2>2 DEF OpenBuffer, Goto
  <2>3. CASE OpenRecover \/ OpenUnclose
    BY <1>0, <2>3 DEF OpenRecover, OpenEndStream, OpenMeasure, OpenCopy, OpenClear,
                      OpenUnclose, Goto
  <2>4. CASE OpenSetMode \/ OpenBanner
    BY <1>0, <2>4 DEF OpenSetMode, OpenBanner, Goto
  <2>5. QED
    BY <1>4, <2>1, <2>2, <2>3, <2>4 DEF Open
<1>5. CASE Close
  <2>1. CASE CloseMark \/ CloseFlag
    BY <1>0, <2>1 DEF CloseMark, CloseFlag, Goto
  <2>2. CASE CloseJoin \/ CloseFree \/ CloseFile
    BY <1>0, <2>2 DEF CloseJoin, CloseFree, CloseFile, Goto
  <2>3. QED
    BY <1>5, <2>1, <2>2 DEF Close
<1>6. CASE Flush \/ FlushSync
  BY <1>0, <1>6 DEF Flush, FlushSync, FlushSyncTake, WriteTaken, Goto
<1>7. ASSUME NEW mode \in Modes, SetMode(mode) PROVE QuietInv'
  BY <1>7 DEF SetMode
<1>8. CASE AsyncThread
  BY <1>8 DEF AsyncThread, AsyncTake, AsyncWrite, AsyncCheckClose, AsyncWait,
              AsyncTimeout, AsyncEnd, AsyncGoto
<1>9. CASE UNCHANGED vars
  BY <1>9 DEF vars
<1>10. QED
  BY <1>1, <1>2, <1>3, <1>4, <1>5, <1>6, <1>7, <1>8, <1>9 DEF Next

\* When the application has no call under way as it calls close, and makes
\* none until close returns, the unlocked uses of the buffer pointer are safe
\* in both modes.
THEOREM QuietNoNullBuffer ==
  ASSUME QuietClose
  PROVE  Spec => []NoNullBuffer
<1>1. Init => TypeOK /\ QuietInv
  BY InitType, QuietInit
<1>2. TypeOK /\ QuietInv /\ [Next]_vars => TypeOK' /\ QuietInv'
  BY StepType, QuietStep
<1>3. QuietInv => NoNullBuffer
  BY DEF QuietInv, NoNullBuffer
<1>4. QED
  BY <1>1, <1>2, <1>3, PTL DEF Spec
-----------------------------------------------------------------------------
(* No entry twice.                                                          *)

\* The places an entry can be in, and what they hold.
Spots == {"mmap", "heap", "cTmp", "asyncTmp", "stdio", "file"}
Held == [p \in Spots |-> IF p \in Memories THEN mem[p]
                         ELSE IF p = "cTmp" THEN cTmp
                         ELSE IF p = "asyncTmp" THEN asyncTmp
                         ELSE IF p = "stdio" THEN stdio ELSE file]

\* While open is about to clear the buffer its block is in two places.  Shown
\* is without the one in the buffer, as Kept is, and Bare is what a crash will
\* leave: the one on open's stack is gone.
Clearing == pc[Ctl] = "clear"
Shown == [p \in Spots |-> IF Clearing /\ p = sg_log_buff THEN << >> ELSE Held[p]]
Bare == [p \in Spots |-> IF Clearing /\ p = "cTmp" THEN << >> ELSE Held[p]]

\* The entries of one call.
Same(e, f) == e.by = f.by /\ e.n = f.n

\* Of the sequences K[p]: no two elements are the same.
Once(K) ==
  \A p, q \in Spots : \A i \in DOMAIN K[p], j \in DOMAIN K[q] :
    Same(K[p][i], K[q][j]) => p = q /\ i = j

\* The entries of all the places.
Everywhere(K) == UNION {Elems(K[p]) : p \in Spots}

\* The number of the call that t is in has not been given to an entry yet.
Numbered(e) ==
  e.n <= sent[e.by] /\ (e.n = sent[e.by] => pc[e.by] \notin Calling)

\* There is no background thread while the appender is closed, except the one
\* that close waits for.
Stopped == sg_log_close /\ pc[Ctl] # "join" => asyncPc = "ended"

\* A thread that writes a block is on its way to do it, and the buffer is
\* attached only between open and close.
Phases ==
  /\ pc[Ctl] = "idle" /\ sg_log_close => ~Live
  /\ pc[Ctl] = "closefile" => ~Live
  /\ ~sg_log_close => Live
  /\ pc[Ctl] \in Calling \union Opening \union {"flushSync", "closed"}
       => ~sg_log_close
  /\ pc[Ctl] \in Recovering => sg_log_close /\ Live
  /\ pc[Ctl] \in {"join", "free", "closefile"} => sg_log_close
  /\ pc[Ctl] \notin Calling \union {"closed", "join", "free", "closefile"}
       => cret = "idle"
  /\ cTmp # << >> =>
       pc[Ctl] \in {"clear", "unclose", "setmode", "beginTip", "recovered",
                   "flushSync"}
  /\ asyncTmp # << >> => asyncPc = "write"
  /\ ClosedSetMode \/ Stopped

\* The calls Ctl will still make for the session it is in.
Due ==
  CASE pc[Ctl] \in Recovering \union {"setmode", "beginTip"} -> 4
    [] pc[Ctl] \in {"recovered", "endTip"} -> 3
    [] pc[Ctl] = "banner" -> 2
    [] OTHER -> IF ~sg_log_close /\ cret = "idle" THEN 1 ELSE 0

\* The calls are bounded, those of Ctl by its sessions.
Counts ==
  /\ \A l \in Loggers : sent[l] <= MaxLogs
  /\ sent[Ctl] + Due <= 4 * opens
  /\ opens <= MaxSessions

\* The inductive invariant.
LogInv ==
  /\ TypeOK /\ Phases /\ Counts
  /\ Once(Shown) /\ Once(Bare)
  /\ \A e \in Everywhere(Held) : Numbered(e)
-----------------------------------------------------------------------------
(* What steps do to the places.                                             *)

\* The contents of the places.
Sequences == [Spots -> Seq(Entries)]

\* Some places are emptied, but never the file.
Loses(K, L) ==
  /\ \A p \in Spots : L[p] = K[p] \/ L[p] = << >>
  /\ L["file"] = K["file"]

\* What is in place a goes behind what is in place b.
Moves(K, L, a, b) ==
  /\ L[b] = K[b] \o K[a]
  /\ L[a] = << >>
  /\ \A p \in Spots \ {a, b} : L[p] = K[p]

\* Entry e goes behind what is in place b.
Adds(K, L, b, e) ==
  /\ L[b] = K[b] \o <<e>>
  /\ \A p \in Spots \ {b} : L[p] = K[p]

\* An element of a sequence has a place in it.
LEMMA PlaceInSeq ==
  ASSUME NEW s \in Seq(Entries)
  PROVE  /\ Len(s) \in Nat /\ DOMAIN s = 1..Len(s)
         /\ \A i \in 1..Len(s) : s[i] \in Entries
         /\ Elems(s) \subseteq Entries
         /\ \A e : e \in Elems(s) <=> \E i \in 1..Len(s) : e = s[i]
<1>1. Len(s) \in Nat /\ DOMAIN s = 1..Len(s) /\ s \in [1..Len(s) -> Entries]
  BY LenProperties
<1>2. QED
  BY <1>1 DEF Elems

\* The elements of a concatenation are those of its parts.
LEMMA ElemsConcat ==
  ASSUME NEW s \in Seq(Entries), NEW t \in Seq(Entries)
  PROVE  Elems(s \o t) = Elems(s) \union Elems(t)
<1> DEFINE u == s \o t
<1>1. /\ u \in Seq(Entries) /\ Len(u) = Len(s) + Len(t)
      /\ \A i \in 1..Len(s) + Len(t) :
           u[i] = IF i <= Len(s) THEN s[i] ELSE t[i - Len(s)]
  BY ConcatProperties
<1>2. Len(s) \in Nat /\ Len(t) \in Nat
  BY LenProperties
<1> HIDE DEF u
<1>3. ASSUME NEW e \in Elems(u) PROVE e \in Elems(s) \union Elems(t)
  <2>1. PICK i \in 1..Len(u) : e = u[i]
    BY <1>1, <1>3, PlaceInSeq
  <2>2. CASE i <= Len(s)
    BY <1>1, <1>2, <2>1, <2>2, PlaceInSeq
  <2>3. CASE i > Len(s)
    <3>1. i - Len(s) \in 1..Len(t) /\ e = t[i - Len(s)]
      BY <1>1, <1>2, <2>1, <2>3
    <3>2. QED
      BY <3>1, PlaceInSeq
  <2>4. QED
    BY <1>2, <2>2, <2>3
<1>4. ASSUME NEW e \in Elems(s) PROVE e \in Elems(u)
  <2>1. PICK i \in 1..Len(s) : e = s[i]
    BY <1>4, PlaceInSeq
  <2>2. i \in 1..Len(s) + Len(t) /\ e = u[i]
    BY <1>1, <1>2, <2>1
  <2>3. QED
    BY <1>1, <2>2, PlaceInSeq
<1>5. ASSUME NEW e \in Elems(t) PROVE e \in Elems(u)
  <2>1. PICK i \in 1..Len(t) : e = t[i]
    BY <1>5, PlaceInSeq
  <2>2. i + Len(s) \in 1..Len(s) + Len(t) /\ e = u[i + Len(s)]
    <3>1. /\ i + Len(s) \in 1..Len(s) + Len(t)
          /\ ~(i + Len(s) <= Len(s)) /\ (i + Len(s)) - Len(s) = i
      BY <1>2, <2>1
    <3>2. QED
      BY <1>1, <2>1, <3>1
  <2>3. QED
    BY <1>1, <2>2, PlaceInSeq
<1>6. Elems(u) = Elems(s) \union Elems(t)
  BY <1>3, <1>4, <1>5
<1>7. QED
  BY <1>6 DEF u

\* Losing makes nothing the same.
LEMMA LosesOnce ==
  ASSUME NEW K \in Sequences, NEW L \in Sequences, Once(K), Loses(K, L)
  PROVE  /\ Once(L)
         /\ \A p \in Spots : Elems(L[p]) \subseteq Elems(K[p])
<1>1. DOMAIN << >> = {}
  OBVIOUS
<1>2. Once(L)
  BY <1>1 DEF Once, Loses
<1>3. QED
  BY <1>1, <1>2 DEF Loses, Elems

\* Moving does neither: an element of the new b was in a or in b before.
LEMMA MovesOnce ==
  ASSUME NEW K \in Sequences, NEW L \in Sequences,
         NEW a \in Spots, NEW b \in Spots,
         a # b, Once(K), Moves(K, L, a, b)
  PROVE  /\ Once(L)
         /\ Elems(L[b]) = Elems(K[b]) \union Elems(K[a])
         /\ Elems(L[a]) = {}
         /\ \A p \in Spots \ {a, b} : Elems(L[p]) = Elems(K[p])
<1> DEFINE n == Len(K[b])
<1>1. K[a] \in Seq(Entries) /\ K[b] \in Seq(Entries) /\ L[b] \in Seq(Entries)
  BY DEF Sequences
<1>2. /\ n \in Nat /\ Len(K[a]) \in Nat /\ Len(L[b]) = n + Len(K[a])
      /\ DOMAIN K[a] = 1..Len(K[a]) /\ DOMAIN K[b] = 1..n
      /\ DOMAIN L[b] = 1..n + Len(K[a])
      /\ DOMAIN L[a] = {}
      /\ \A i \in 1..n + Len(K[a]) :
           L[b][i] = IF i <= n THEN K[b][i] ELSE K[a][i - n]
  <2>1. /\ n \in Nat /\ Len(K[a]) \in Nat
        /\ DOMAIN K[a] = 1..Len(K[a]) /\ DOMAIN K[b] = 1..n
        /\ DOMAIN L[b] = 1..Len(L[b])
    BY <1>1, LenProperties
  <2>2. /\ Len(L[b]) = n + Len(K[a])
        /\ \A i \in 1..n + Len(K[a]) :
             L[b][i] = IF i <= n THEN K[b][i] ELSE K[a][i - n]
    <3>1. L[b] = K[b] \o K[a]
      BY DEF Moves
    <3>2. /\ Len(K[b] \o K[a]) = Len(K[b]) + Len(K[a])
          /\ \A i \in 1..Len(K[b]) + Len(K[a]) :
               (K[b] \o K[a])[i] = IF i <= Len(K[b]) THEN K[b][i]
                                   ELSE K[a][i - Len(K[b])]
      BY <1>1, ConcatProperties
    <3>3. QED
      BY <3>1, <3>2
  <2>3. DOMAIN L[a] = {}
    BY DEF Moves
  <2>4. QED
    BY <2>1, <2>2, <2>3
<1> DEFINE From(p, i) == IF p = b /\ i > n THEN a ELSE p
           At(p, i) == IF p = b /\ i > n THEN i - n ELSE i
<1> HIDE DEF n
<1>3. ASSUME NEW p \in Spots, NEW i \in DOMAIN L[p]
      PROVE  /\ From(p, i) \in Spots /\ At(p, i) \in DOMAIN K[From(p, i)]
             /\ L[p][i] = K[From(p, i)][At(p, i)]
  <2>1. CASE p = b
    <3>1. CASE i <= n
      BY <1>2, <1>3, <2>1, <3>1
    <3>2. CASE ~(i <= n)
      <4>1. i - n \in 1..Len(K[a])
        BY <1>2, <1>3, <2>1, <3>2
      <4>2. From(p, i) = a /\ At(p, i) = i - n
        BY <1>2, <1>3, <2>1, <3>2
      <4>3. QED
        BY <1>2, <1>3, <2>1, <3>2, <4>1, <4>2
    <3>3. QED
      BY <3>1, <3>2
  <2>2. CASE p = a
    BY <1>2, <1>3, <2>2
  <2>3. CASE p \notin {a, b}
    BY <1>3, <2>3 DEF Moves
  <2>4. QED
    BY <2>1, <2>2, <2>3
<1>4. ASSUME NEW p \in Spots, NEW q \in Spots,
             NEW i \in DOMAIN L[p], NEW j \in DOMAIN L[q],
             From(p, i) = From(q, j), At(p, i) = At(q, j)
      PROVE  p = q /\ i = j
  <2>1. p # a /\ q # a
    BY <1>2
  <2>2. i \in Nat /\ j \in Nat
    <3>1. L[p] \in Seq(Entries) /\ L[q] \in Seq(Entries)
      BY DEF Sequences
    <3>2. QED
      BY <3>1, LenProperties
  <2>3. QED
    BY <1>2, <1>4, <2>1, <2>2
<1>5. Once(L)
  <2> SUFFICES ASSUME NEW p \in Spots, NEW q \in Spots,
                      NEW i \in DOMAIN L[p], NEW j \in DOMAIN L[q],
                      Same(L[p][i], L[q][j])
               PROVE  p = q /\ i = j
    BY DEF Once
  <2> HIDE DEF From, At
  <2>1. From(p, i) = From(q, j) /\ At(p, i) = At(q, j)
    BY <1>3 DEF Once
  <2>2. QED
    BY <1>4, <2>1
<1>6. Elems(L[b]) = Elems(K[b]) \union Elems(K[a])
  BY <1>1, ElemsConcat DEF Moves
<1>7. Elems(L[a]) = {}
  BY <1>2 DEF Elems
<1>8. QED
  BY <1>5, <1>6, <1>7 DEF Moves

\* Nor does adding an entry with a number of its own.
LEMMA AddsOnce ==
  ASSUME NEW K \in Sequences, NEW L \in Sequences,
         NEW b \in Spots, NEW e \in Entries,
         Once(K), Adds(K, L, b, e), \A f \in Everywhere(K) : ~Same(e, f)
  PROVE  /\ Once(L)
         /\ Elems(L[b]) = Elems(K[b]) \union {e}
         /\ \A p \in Spots \ {b} : Elems(L[p]) = Elems(K[p])
<1> DEFINE n == Len(K[b])
<1>1. K[b] \in Seq(Entries) /\ L[b] \in Seq(Entries) /\ <<e>> \in Seq(Entries)
  BY DEF Sequences
<1>2. /\ n \in Nat
      /\ DOMAIN K[b] = 1..n /\ DOMAIN L[b] = 1..n + 1
      /\ \A i \in 1..n + 1 : L[b][i] = IF i <= n THEN K[b][i] ELSE e
  <2>1. Len(<<e>>) = 1 /\ <<e>>[1] = e
    OBVIOUS
  <2>2. n \in Nat /\ DOMAIN K[b] = 1..n /\ DOMAIN L[b] = 1..Len(L[b])
    BY <1>1, LenProperties
  <2>3. /\ Len(L[b]) = n + 1
        /\ \A i \in 1..n + 1 :
             L[b][i] = IF i <= n THEN K[b][i] ELSE <<e>>[i - n]
    BY <1>1, <2>1, ConcatProperties DEF Adds
  <2>4. QED
    BY <2>1, <2>2, <2>3
<1> HIDE DEF n
<1>3. ASSUME NEW p \in Spots, NEW i \in DOMAIN L[p], ~(p = b /\ i = n + 1)
      PROVE  i \in DOMAIN K[p] /\ L[p][i] = K[p][i] /\ K[p][i] \in Everywhere(K)
  <2>1. i \in DOMAIN K[p] /\ L[p][i] = K[p][i]
    <3>1. CASE p = b
      BY <1>2, <1>3, <3>1
    <3>2. CASE p # b
      BY <1>3, <3>2 DEF Adds
    <3>3. QED
      BY <3>1, <3>2
  <2>2. QED
    BY <2>1 DEF Everywhere, Elems
<1>4. Once(L)
  <2> SUFFICES ASSUME NEW p \in Spots, NEW q \in Spots,
                      NEW i \in DOMAIN L[p], NEW j \in DOMAIN L[q],
                      Same(L[p][i], L[q][j])
               PROVE  p = q /\ i = j
    BY DEF Once
  <2>1. CASE ~(p = b /\ i = n + 1) /\ ~(q = b /\ j = n + 1)
    BY <1>3, <2>1 DEF Once
  <2>2. CASE p = b /\ i = n + 1 /\ ~(q = b /\ j = n + 1)
    BY <1>2, <1>3, <2>2
  <2>3. CASE ~(p = b /\ i = n + 1) /\ q = b /\ j = n + 1
    BY <1>2, <1>3, <2>3 DEF Same
  <2>4. QED
    BY <2>1, <2>2, <2>3
<1>5. Elems(<<e>>) = {e}
  BY DEF Elems
<1>6. Elems(L[b]) = Elems(K[b]) \union {e}
  BY <1>1, <1>5, ElemsConcat DEF Adds
<1>7. QED
  BY <1>4, <1>6 DEF Adds
-----------------------------------------------------------------------------
(* What one step of the appender does to the places.                        *)

\* Entries go from place to place, and from the file none is taken.
Passes ==
  /\ Once(Held') /\ Everywhere(Held') = Everywhere(Held)
  /\ Elems(file) \subseteq Elems(file')

\* Entry e is accepted.
Accepts(e) ==
  /\ Once(Held') /\ Everywhere(Held') = Everywhere(Held) \union {e}
  /\ Elems(file) \subseteq Elems(file')
  /\ \A f \in Everywhere(Held) : ~Same(e, f)

\* The process or the buffer has come to its end.
Ends ==
  /\ <<crashes, sg_log_buff>>' # <<crashes, sg_log_buff>>
  /\ Once(Held') /\ Elems(file') = Elems(file)
  /\ \A p \in Spots : Elems(Held'[p]) \subseteq Elems(Held[p])

\* What each place holds.
LEMMA HeldIs ==
  /\ DOMAIN Held = Spots
  /\ \A m \in Memories : Held[m] = mem[m] /\ Held'[m] = mem'[m]
  /\ Held["cTmp"] = cTmp /\ Held["asyncTmp"] = asyncTmp
  /\ Held["stdio"] = stdio /\ Held["file"] = file
  /\ Held'["cTmp"] = cTmp' /\ Held'["asyncTmp"] = asyncTmp'
  /\ Held'["stdio"] = stdio' /\ Held'["file"] = file'
BY DEF Held, Spots, Memories

\* The places hold entries.
LEMMA HeldType ==
  /\ TypeOK => Held \in Sequences
  /\ TypeOK' => Held' \in Sequences
<1>1. TypeOK => Held \in Sequences
  BY DEF TypeOK, Held, Sequences
<1>2. TypeOK' => Held' \in Sequences
  BY DEF TypeOK, Held, Sequences
<1>3. QED
  BY <1>1, <1>2

\* A step that touches no place.
LEMMA NothingPasses ==
  ASSUME Once(Held), UNCHANGED <<mem, cTmp, asyncTmp, stdio, file>>
  PROVE  Passes
<1>1. Held' = Held
  BY DEF Held
<1>2. QED
  BY <1>1 DEF Passes

\* The move of one place's entries behind those of another.
LEMMA MovePasses ==
  ASSUME TypeOK, TypeOK', Once(Held),
         NEW a \in Spots \ {"file"}, NEW b \in Spots \ {a},
         Moves(Held, Held', a, b)
  PROVE  Passes
<1>1. /\ Once(Held')
      /\ Elems(Held'[b]) = Elems(Held[b]) \union Elems(Held[a])
      /\ Elems(Held'[a]) = {}
      /\ \A p \in Spots \ {a, b} : Elems(Held'[p]) = Elems(Held[p])
  BY HeldType, MovesOnce
<1>2. Everywhere(Held') = Everywhere(Held)
  BY <1>1 DEF Everywhere
<1>3. Elems(file) \subseteq Elems(file')
  BY <1>1, HeldIs DEF Spots
<1>4. QED
  BY <1>1, <1>2, <1>3 DEF Passes

\* The file with what the library still has of it.
Settled == [Held EXCEPT !["file"] = file \o stdio, !["stdio"] = << >>]

\* Flushing the library's buffer neither loses nor doubles an entry.
LEMMA SettledIs ==
  ASSUME TypeOK, Once(Held)
  PROVE  /\ Settled \in Sequences
         /\ Once(Settled)
         /\ Everywhere(Settled) = Everywhere(Held)
         /\ Elems(file) \subseteq Elems(Settled["file"])
<1>1. file \o stdio \in Seq(Entries) /\ << >> \in Seq(Entries)
  BY ConcatProperties, EmptySeq DEF TypeOK
<1>2. Settled \in Sequences
  BY <1>1, HeldType DEF Settled, Sequences
<1>3. Moves(Held, Settled, "stdio", "file")
  BY HeldIs, HeldType DEF Moves, Settled, Sequences, Spots
<1>4. /\ Once(Settled)
      /\ Elems(Settled["file"])
           = Elems(Held["file"]) \union Elems(Held["stdio"])
      /\ Elems(Settled["stdio"]) = {}
      /\ \A p \in Spots \ {"stdio", "file"} : Elems(Settled[p]) = Elems(Held[p])
  BY <1>2, <1>3, HeldType, MovesOnce DEF Spots
<1>5. Everywhere(Settled) = Everywhere(Held)
  BY <1>4 DEF Everywhere, Spots
<1>6. QED
  BY <1>2, <1>4, <1>5, HeldIs

\* A block goes from its stack variable to the file, or behind what the
\* library holds back.
LEMMA WritePasses ==
  ASSUME TypeOK, TypeOK', Once(Held), NEW a \in {"cTmp", "asyncTmp"},
         Log2File(Held[a]), Held'[a] = << >>,
         \A p \in Spots \ {a, "stdio", "file"} : Held'[p] = Held[p]
  PROVE  Passes
<1> DEFINE K == Settled
<1>1. CASE file' = file \o stdio \o Held[a] /\ stdio' = << >>
  <2>1. /\ K["file"] = file \o stdio /\ K["stdio"] = << >>
        /\ \A p \in Spots \ {"stdio", "file"} : K[p] = Held[p]
    BY HeldIs, HeldType DEF Settled, Sequences, Spots
  <2>2. Moves(K, Held', a, "file")
    BY <1>1, <2>1, HeldIs DEF Moves, Spots
  <2>3. /\ Once(Held')
        /\ Elems(Held'["file"]) = Elems(K["file"]) \union Elems(K[a])
        /\ Elems(Held'[a]) = {}
        /\ \A p \in Spots \ {a, "file"} : Elems(Held'[p]) = Elems(K[p])
    <3>1. a \in Spots /\ "file" \in Spots /\ a # "file"
      BY DEF Spots
    <3>2. K \in Sequences /\ Once(K) /\ Held' \in Sequences
      BY SettledIs, HeldType
    <3> HIDE DEF K
    <3>3. QED
      BY <2>2, <3>1, <3>2, MovesOnce
  <2> HIDE DEF K
  <2>4. Everywhere(Held') = Everywhere(K)
    BY <2>3 DEF Everywhere, Spots
  <2>5. QED
    BY <2>3, <2>4, SettledIs, HeldIs DEF Passes, K
<1>2. CASE stdio' = stdio \o Held[a] /\ UNCHANGED file
  <2>1. Moves(Held, Held', a, "stdio")
    BY <1>2, HeldIs DEF Moves, Spots
  <2>2. QED
    BY <2>1, MovePasses DEF Spots
<1>3. QED
  BY <1>1, <1>2 DEF Log2File

\* A line of its own goes to the file, behind what the library still has of
\* it, or behind what the library holds back.
LEMMA WriteOnce ==
  ASSUME NEW K \in Sequences, NEW L \in Sequences, Once(K), NEW e \in Entries,
         \A f \in Everywhere(K) : ~Same(e, f),
         \A p \in Spots \ {"stdio", "file"} : L[p] = K[p],
         \/ L["file"] = K["file"] \o K["stdio"] \o <<e>> /\ L["stdio"] = << >>
         \/ L["stdio"] = K["stdio"] \o <<e>> /\ L["file"] = K["file"]
  PROVE  /\ Once(L) /\ Everywhere(L) = Everywhere(K) \union {e}
         /\ Elems(K["file"]) \subseteq Elems(L["file"])
<1>1. CASE L["file"] = K["file"] \o K["stdio"] \o <<e>> /\ L["stdio"] = << >>
  <2> DEFINE S == [K EXCEPT !["file"] = K["file"] \o K["stdio"],
                            !["stdio"] = << >>]
  <2>1. /\ K["file"] \o K["stdio"] \in Seq(Entries) /\ << >> \in Seq(Entries)
        /\ DOMAIN K = Spots
    BY ConcatProperties, EmptySeq DEF Sequences, Spots
  <2>2. /\ S \in Sequences
        /\ S["file"] = K["file"] \o K["stdio"] /\ S["stdio"] = << >>
        /\ \A p \in Spots \ {"stdio", "file"} : S[p] = K[p]
    BY <2>1 DEF Sequences, Spots
  <2> HIDE DEF S
  <2>0. "stdio" \in Spots /\ "file" \in Spots /\ "stdio" # "file"
    BY DEF Spots
  <2>3. Moves(K, S, "stdio", "file")
    BY <2>2 DEF Moves, Spots
  <2>4. /\ Once(S)
        /\ Elems(S["file"]) = Elems(K["file"]) \union Elems(K["stdio"])
        /\ Elems(S["stdio"]) = {}
        /\ \A p \in Spots \ {"stdio", "file"} : Elems(S[p]) = Elems(K[p])
    BY <2>0, <2>2, <2>3, MovesOnce
  <2>5. Everywhere(S) = Everywhere(K)
    BY <2>4 DEF Everywhere, Spots
  <2>6. Adds(S, L, "file", e)
    BY <1>1, <2>2 DEF Adds, Spots
  <2>7. /\ Once(L)
        /\ Elems(L["file"]) = Elems(S["file"]) \union {e}
        /\ \A p \in Spots \ {"file"} : Elems(L[p]) = Elems(S[p])
    <3>1. Once(S) /\ \A f \in Everywhere(S) : ~Same(e, f)
      BY <2>4, <2>5
    <3>2. S \in Sequences
      BY <2>2
    <3>3. QED
      BY <2>0, <2>6, <3>1, <3>2, AddsOnce
  <2>8. Everywhere(L) = Everywhere(S) \union {e}
    BY <2>7 DEF Everywhere, Spots
  <2>9. QED
    BY <2>4, <2>5, <2>7, <2>8
<1>2. CASE L["stdio"] = K["stdio"] \o <<e>> /\ L["file"] = K["file"]
  <2>1. Adds(K, L, "stdio", e)
    BY <1>2 DEF Adds, Spots
  <2>2. /\ Once(L)
        /\ Elems(L["stdio"]) = Elems(K["stdio"]) \union {e}
        /\ \A p \in Spots \ {"stdio"} : Elems(L[p]) = Elems(K[p])
    BY <2>1, AddsOnce DEF Spots
  <2>3. Everywhere(L) = Everywhere(K) \union {e}
    BY <2>2 DEF Everywhere, Spots
  <2>4. QED
    BY <1>2, <2>2, <2>3
<1>3. QED
  BY <1>1, <1>2

\* So it is accepted.
LEMMA WriteAccepts ==
  ASSUME TypeOK, TypeOK', Once(Held), NEW e \in Entries, Log2File(<<e>>),
         \A f \in Everywhere(Held) : ~Same(e, f),
         UNCHANGED <<mem, cTmp, asyncTmp>>
  PROVE  Accepts(e)
<1>1. \A p \in Spots \ {"stdio", "file"} : Held'[p] = Held[p]
  BY HeldIs DEF Spots, Memories
<1>2. \/ /\ Held'["file"] = Held["file"] \o Held["stdio"] \o <<e>>
         /\ Held'["stdio"] = << >>
      \/ /\ Held'["stdio"] = Held["stdio"] \o <<e>>
         /\ Held'["file"] = Held["file"]
  BY HeldIs DEF Log2File
<1>3. Held \in Sequences /\ Held' \in Sequences
  BY HeldType
<1>4. /\ Once(Held') /\ Everywhere(Held') = Everywhere(Held) \union {e}
      /\ Elems(Held["file"]) \subseteq Elems(Held'["file"])
  BY <1>1, <1>2, <1>3, WriteOnce
<1>5. QED
  BY <1>4, HeldIs DEF Accepts

\* The block goes from the buffer to a stack variable that holds nothing.
LEMMA TakePasses ==
  ASSUME TypeOK, TypeOK', Once(Held), NEW a \in {"cTmp", "asyncTmp"},
         TakeBlock, Held[a] = << >>, Held'[a] = Block,
         \A p \in Spots \ {a, "mmap", "heap"} : Held'[p] = Held[p]
  PROVE  Passes
<1>1. CASE Live
  <2>1. sg_log_buff \in Memories
    BY <1>1 DEF Live, TypeOK
  <2>2. Held[sg_log_buff] = Block /\ Block \in Seq(Entries)
    BY <1>1, <2>1, HeldIs DEF Block, TypeOK
  <2>3. Held'[a] = Held[a] \o Held[sg_log_buff]
    BY <2>2, ConcatEmptySeq
  <2>4. /\ Held'[sg_log_buff] = << >>
        /\ \A m \in Memories \ {sg_log_buff} : Held'[m] = Held[m]
    BY <2>1, HeldIs DEF TakeBlock, TypeOK
  <2>5. Moves(Held, Held', sg_log_buff, a)
    BY <2>1, <2>3, <2>4 DEF Moves, Spots, Memories
  <2>6. QED
    BY <2>1, <2>5, MovePasses DEF Spots, Memories
<1>2. CASE ~Live
  <2>1. Block = << >> /\ sg_log_buff \notin Memories
    BY <1>2 DEF Block, Live, Memories
  <2>2. mem' = mem
    BY <2>1 DEF TakeBlock, TypeOK
  <2>3. \A p \in Spots : Held'[p] = Held[p]
    BY <2>1, <2>2, HeldIs DEF Spots, Memories
  <2>4. Held' = Held
    BY <2>3, HeldType DEF Sequences
  <2>5. QED
    BY <2>4, HeldIs DEF Passes
<1>3. QED
  BY <1>1, <1>2

\* Losses, at the end of a process or of a buffer's life.
LEMMA LossEnds ==
  ASSUME TypeOK, TypeOK', Once(Held),
         <<crashes, sg_log_buff>>' # <<crashes, sg_log_buff>>,
         UNCHANGED file,
         \A m \in Memories : mem'[m] \in {mem[m], << >>},
         cTmp' \in {cTmp, << >>}, asyncTmp' \in {asyncTmp, << >>},
         stdio' \in {stdio, << >>}
  PROVE  Ends
<1>1. Loses(Held, Held')
  BY HeldIs DEF Loses, Spots, Memories
<1>2. QED
  BY <1>1, HeldType, LosesOnce DEF Ends
-----------------------------------------------------------------------------
(* The phases of a session, and the numbers of the calls.                   *)

\* A tip: the pointer is not NULL when __writetips2file is called.
LEMMA TipStep ==
  ASSUME Live, NEW next, WriteTip(next)
  PROVE  /\ LET e == [MakeEntry(Ctl, "tip") EXCEPT !.n = @ + 1]
            IN Log2File(<<e>>) /\ accepted' = accepted \union {e}
         /\ sent' = [sent EXCEPT ![Ctl] = @ + 1]
         /\ Goto(Ctl, next)
         /\ UNCHANGED <<sg_mode, sg_log_close, sg_log_buff, mem, deflating, cret,
                        cmode, cTmp, asyncPc, asyncTmp, crashes, fault>>
BY DEF WriteTip, NullBuffer, bufVars

\* A step of a call a thread has entered: it goes on or it returns.
LEMMA CallStep ==
  ASSUME TypeOK, NEW t \in Threads, AppenderStep(t)
  PROVE  /\ pc[t] \in Calling
         /\ \/ ProcessDies /\ UNCHANGED <<file, sent, opens>>
            \/ /\ \/ Goto(t, "Async") \/ Goto(t, "Sync") \/ Goto(t, "log2file")
                  \/ ReturnFrom(t)
               /\ UNCHANGED <<sg_log_close, sg_log_buff, cret, cTmp, asyncTmp,
                              sent, opens, crashes>>
               /\ asyncPc' \in {asyncPc, Notified}
<1> USE DEF bufVars, procVars, boundVars
<1>1. CASE ReadMode(t)
  BY <1>1 DEF ReadMode, Calling, TypeOK
<1>2. CASE AppendDropped(t)
  BY <1>2 DEF AppendDropped, Calling
<1>3. CASE SyncFormat(t)
  BY <1>3 DEF SyncFormat, NullBuffer, Calling
<1>4. CASE SyncWrite(t)
  BY <1>4 DEF SyncWrite, Calling
<1>5. ASSUME NEW fatal, Append2Buffer(t, fatal)
      PROVE  /\ pc[t] \in Calling /\ ReturnFrom(t)
             /\ UNCHANGED <<sg_log_close, sg_log_buff, cret, cTmp, asyncTmp,
                            sent, opens, crashes>>
             /\ asyncPc' \in {asyncPc, Notified}
  BY <1>5 DEF Append2Buffer, Calling
<1>6. QED
  BY <1>1, <1>2, <1>3, <1>4, <1>5 DEF AppenderStep

\* A notify does not take the background thread away from a block it holds,
\* nor bring it back.
LEMMA NotifiedKeeps == asyncPc \in {"write", "ended"} => Notified = asyncPc
BY DEF Notified

\* Every step keeps the phases.
LEMMA PhasesKept ==
  ASSUME TypeOK, Phases, [Next]_vars
  PROVE  Phases'
<1> USE DEF Phases, Stopped, Live, Calling, Opening, Recovering,
            bufVars, procVars, boundVars
<1>0. /\ pc \in [Threads -> Labels] /\ cret \in {"idle", "closed"}
      /\ Ctl \in Threads /\ Loggers \subseteq Threads /\ Ctl \notin Loggers
      /\ sg_log_close \in BOOLEAN
  BY ThreadAssumption DEF TypeOK, Threads
<1>1. CASE ProcessDies
  BY <1>0, <1>1 DEF ProcessDies
<1>2. ASSUME NEW l \in Loggers, CallAppender(l) PROVE Phases'
  BY <1>0, <1>2 DEF CallAppender, Goto
<1>3. ASSUME NEW t \in Threads, AppenderStep(t) PROVE Phases'
  <2>1. CASE t = Ctl
    BY <1>0, <1>1, <1>3, <2>1, CallStep, NotifiedKeeps DEF ReturnFrom, Goto
  <2>2. CASE t # Ctl
    BY <1>0, <1>1, <1>3, <2>2, CallStep, NotifiedKeeps DEF ReturnFrom, Goto
  <2>3. QED
    BY <2>1, <2>2
<1>4. CASE Open
  <2>1. CASE OpenAgain
    BY <1>0, <2>1 DEF OpenAgain, WriteTip, NullBuffer, Goto
  <2>2. CASE OpenRecovered
    BY <1>0, <2>2 DEF OpenRecovered, OpenTip, WriteTaken, WriteTip,
                      NullBuffer, Goto
  <2>3. ASSUME NEW mode \in Modes, NEW mapped \in MmapOutcomes,
               OpenBuffer(mode, mapped)
        PROVE  Phases'
    BY <1>0, <2>3 DEF OpenBuffer, Goto
  <2>4. CASE OpenRecover \/ OpenUnclose
    BY <1>0, <2>4 DEF OpenRecover, OpenEndStream, OpenMeasure, OpenCopy, OpenClear,
                      OpenUnclose, Goto
  <2>5. CASE OpenSetMode
    BY <1>0, <2>5, NotifiedKeeps DEF OpenSetMode, ApplyMode, Goto
  <2>6. CASE OpenBanner
    BY <1>0, <2>6 DEF OpenBanner, Goto
  <2>7. QED
    BY <1>4, <2>1, <2>2, <2>3, <2>4, <2>5, <2>6 DEF Open
<1>5. CASE Close
  <2>1. CASE CloseMark \/ CloseFlag
    BY <1>0, <2>1, NotifiedKeeps DEF CloseMark, CloseFlag, Goto
  <2>2. CASE CloseJoin \/ CloseFree \/ CloseFile
    BY <1>0, <2>2 DEF CloseJoin, CloseFree, CloseFile, Goto
  <2>3. QED
    BY <1>5, <2>1, <2>2 DEF Close
<1>6. CASE Flush \/ FlushSync
  BY <1>0, <1>6, NotifiedKeeps
     DEF Flush, FlushSync, FlushSyncTake, WriteTaken, Goto
<1>7. ASSUME NEW mode \in Modes, SetMode(mode) PROVE Phases'
  BY <1>7, NotifiedKeeps DEF SetMode, ApplyMode
<1>8. CASE AsyncThread
  <2>1. CASE AsyncTake
    BY <2>1 DEF AsyncTake, AsyncGoto
  <2>2. CASE AsyncWrite
    BY <2>2 DEF AsyncWrite, AsyncGoto
  <2>3. CASE AsyncCheckClose \/ AsyncWait \/ AsyncTimeout \/ AsyncEnd
    BY <2>3 DEF AsyncCheckClose, AsyncWait, AsyncTimeout, AsyncEnd, AsyncGoto
  <2>4. QED
    BY <1>8, <2>1, <2>2, <2>3 DEF AsyncThread
<1>9. CASE UNCHANGED vars
  BY <1>9 DEF vars
<1>10. QED
  BY <1>1, <1>2, <1>3, <1>4, <1>5, <1>6, <1>7, <1>8, <1>9 DEF Next, Crash

\* Every step keeps the counts.
LEMMA CountsKept ==
  ASSUME TypeOK, Phases, Counts, [Next]_vars
  PROVE  Counts'
<1> USE DEF Counts, Due, Calling, Opening, Recovering, bufVars, procVars, boundVars
<1>0. /\ pc \in [Threads -> Labels] /\ cret \in {"idle", "closed"}
      /\ sent \in [Threads -> Nat] /\ opens \in Nat
      /\ Ctl \in Threads /\ Loggers \subseteq Threads /\ Ctl \notin Loggers
      /\ sg_log_close \in BOOLEAN
  BY ThreadAssumption DEF TypeOK, Threads
<1>1. ASSUME ProcessDies, UNCHANGED <<sent, opens>> PROVE Counts'
  BY <1>0, <1>1 DEF ProcessDies
<1>2. ASSUME NEW l \in Loggers, CallAppender(l) PROVE Counts'
  BY <1>0, <1>2, BoundAssumption DEF CallAppender, Goto
<1>3. ASSUME NEW t \in Threads, AppenderStep(t) PROVE Counts'
  <2>1. CASE t = Ctl
    BY <1>0, <1>1, <1>3, <2>1, CallStep DEF ReturnFrom, Goto, Phases
  <2>2. CASE t # Ctl
    BY <1>0, <1>1, <1>3, <2>2, CallStep DEF ReturnFrom, Goto
  <2>3. QED
    BY <2>1, <2>2
<1>4. CASE Open
  <2>1. CASE OpenAgain
    <3>1. /\ pc[Ctl] = "idle" /\ opens < MaxSessions /\ opens' = opens + 1
          /\ ~sg_log_close /\ WriteTip("idle") /\ Live
      BY <2>1 DEF OpenAgain, Phases
    <3>2. /\ sent' = [sent EXCEPT ![Ctl] = @ + 1] /\ pc' = [pc EXCEPT ![Ctl] = "idle"]
          /\ UNCHANGED <<sg_log_close, cret>>
      BY <3>1, TipStep DEF Goto
    <3>3. QED
      BY <1>0, <3>1, <3>2, BoundAssumption DEF Phases
  <2>2. CASE OpenRecovered
    BY <1>0, <2>2 DEF OpenRecovered, OpenTip, WriteTaken, WriteTip,
                      NullBuffer, Goto, Phases, Live
  <2>3. ASSUME NEW mode \in Modes, NEW mapped \in MmapOutcomes,
               OpenBuffer(mode, mapped)
        PROVE  Counts'
    BY <1>0, <2>3, BoundAssumption DEF OpenBuffer, Goto, Phases
  <2>4. CASE OpenRecover \/ OpenUnclose \/ OpenSetMode
    BY <1>0, <2>4 DEF OpenRecover, OpenEndStream, OpenMeasure, OpenCopy, OpenClear,
                      OpenUnclose, OpenSetMode, Goto, Phases
  <2>5. CASE OpenBanner
    BY <1>0, <2>5 DEF OpenBanner, Goto, Phases
  <2>6. QED
    BY <1>4, <2>1, <2>2, <2>3, <2>4, <2>5 DEF Open
<1>5. CASE Close
  <2>1. CASE CloseMark \/ CloseFlag
    BY <1>0, <2>1 DEF CloseMark, CloseFlag, Goto, Phases
  <2>2. CASE CloseJoin \/ CloseFree \/ CloseFile
    BY <1>0, <2>2 DEF CloseJoin, CloseFree, CloseFile, Goto, Phases
  <2>3. QED
    BY <1>5, <2>1, <2>2 DEF Close
<1>6. CASE Flush \/ FlushSync
  BY <1>0, <1>6 DEF Flush, FlushSync, FlushSyncTake, WriteTaken, Goto, Phases
<1>7. ASSUME NEW mode \in Modes, SetMode(mode) PROVE Counts'
  BY <1>7 DEF SetMode
<1>8. CASE AsyncThread
  BY <1>8 DEF AsyncThread, AsyncTake, AsyncWrite, AsyncCheckClose, AsyncWait,
              AsyncTimeout, AsyncEnd, AsyncGoto
<1>9. CASE UNCHANGED vars
  BY <1>9 DEF vars
<1>10. QED
  <2>1. CASE Crash
    BY <1>1, <2>1 DEF Crash
  <2>2. QED
    BY <1>2, <1>3, <1>4, <1>5, <1>6, <1>7, <1>8, <1>9, <2>1 DEF Next

\* An entry's number stays behind its thread's calls.
LEMMA NumberedKept ==
  ASSUME TypeOK, TypeOK', [Next]_vars, NEW e \in Entries, Numbered(e)
  PROVE  Numbered(e)'
<1> USE DEF Calling, bufVars, procVars, boundVars
<1>0. /\ pc \in [Threads -> Labels] /\ cret \in {"idle", "closed"}
      /\ sent \in [Threads -> Nat]
      /\ Ctl \in Threads /\ Loggers \subseteq Threads
      /\ e.by \in Threads /\ e.n \in Nat
  BY DEF TypeOK, Threads, Entries
<1> DEFINE Forward(t) == \/ sent'[t] > sent[t]
                        \/ /\ sent'[t] = sent[t]
                           /\ pc'[t] \in Calling => pc[t] \in Calling
<1>1. SUFFICES \A t \in Threads : Forward(t)
  <2>1. sent' \in [Threads -> Nat]
    BY DEF TypeOK
  <2>2. QED
    BY <1>0, <2>1 DEF Numbered
<1>2. SUFFICES ASSUME NEW t \in Threads PROVE Forward(t)
  OBVIOUS
<1>3. CASE ProcessDies /\ UNCHANGED sent
  BY <1>3 DEF ProcessDies
<1>4. ASSUME NEW l \in Loggers, CallAppender(l) PROVE Forward(t)
  BY <1>0, <1>4 DEF CallAppender, Goto
<1>5. ASSUME NEW s \in Threads, AppenderStep(s) PROVE Forward(t)
  BY <1>0, <1>3, <1>5, CallStep DEF ReturnFrom, Goto
<1>6. CASE Open
  <2>1. CASE OpenAgain \/ OpenRecovered
    BY <1>0, <2>1
       DEF OpenAgain, OpenRecovered, OpenTip, WriteTaken, WriteTip, NullBuffer,
           ProcessDies, Goto
  <2>2. ASSUME NEW mode \in Modes, NEW mapped \in MmapOutcomes,
               OpenBuffer(mode, mapped)
        PROVE  Forward(t)
    BY <1>0, <2>2 DEF OpenBuffer, Goto
  <2>3. CASE OpenRecover \/ OpenUnclose \/ OpenSetMode \/ OpenBanner
    BY <1>0, <2>3 DEF OpenRecover, OpenEndStream, OpenMeasure, OpenCopy, OpenClear,
                      OpenUnclose, OpenSetMode, OpenBanner, Goto
  <2>4. QED
    BY <1>6, <2>1, <2>2, <2>3 DEF Open
<1>7. CASE Close
  BY <1>0, <1>7 DEF Close, CloseMark, CloseFlag, CloseJoin, CloseFree, CloseFile,
                    Goto
<1>8. CASE Flush \/ FlushSync
  BY <1>0, <1>8 DEF Flush, FlushSync, FlushSyncTake, WriteTaken, Goto
<1>9. ASSUME NEW mode \in Modes, SetMode(mode) PROVE Forward(t)
  BY <1>0, <1>9 DEF SetMode
<1>10. CASE AsyncThread
  BY <1>0, <1>10 DEF AsyncThread, AsyncTake, AsyncWrite, AsyncCheckClose,
                     AsyncWait, AsyncTimeout, AsyncEnd, AsyncGoto
<1>11. CASE UNCHANGED vars
  BY <1>0, <1>11 DEF vars
<1>12. QED
  <2>1. CASE Crash
    BY <1>3, <2>1 DEF Crash
  <2>2. QED
    BY <1>4, <1>5, <1>6, <1>7, <1>8, <1>9, <1>10, <1>11, <2>1 DEF Next
-----------------------------------------------------------------------------
(* Every step passes entries on, accepts one, or ends a life.               *)

\* The entry a thread makes for the call it is in is a new one.
LEMMA MadeIsNew ==
  ASSUME LogInv, NEW t \in Threads, pc[t] \in Calling,
         NEW kind \in {"log", "warn", "tip"}
  PROVE  /\ MakeEntry(t, kind) \in Entries
         /\ MakeEntry(t, kind).by = t /\ MakeEntry(t, kind).n = sent[t]
         /\ \A f \in Everywhere(Held) : ~Same(MakeEntry(t, kind), f)
<1>1. MakeEntry(t, kind) \in Entries
  BY MakeEntryType DEF LogInv
<1>2. MakeEntry(t, kind).by = t /\ MakeEntry(t, kind).n = sent[t]
  BY DEF MakeEntry
<1>3. ASSUME NEW f \in Everywhere(Held), Same(MakeEntry(t, kind), f) PROVE FALSE
  <2>1. f.by = t /\ f.n = sent[t] /\ Numbered(f)
    BY <1>2, <1>3 DEF Same, LogInv
  <2>2. QED
    BY <2>1 DEF Numbered
<1>4. QED
  BY <1>1, <1>2, <1>3

\* The process and the buffer live on.
SameLife == UNCHANGED <<crashes, sg_log_buff>>

\* After the step the number of e is behind its thread's calls.
NumberedNext(e) ==
  e.n <= sent'[e.by] /\ (e.n = sent'[e.by] => pc'[e.by] \notin Calling)

\* A call gets its entry in, under a number not used before.
AcceptsOne == \E e \in Entries : Accepts(e) /\ NumberedNext(e)
\* What a step can be.
Kinds == \/ SameLife /\ Passes
         \/ SameLife /\ AcceptsOne
         \/ Ends

\* A line of kflogger_appender.
LEMMA AppenderKinds ==
  ASSUME LogInv, Once(Held), TypeOK', NEW t \in Threads, AppenderStep(t)
  PROVE  Kinds
<1> USE DEF bufVars, procVars, boundVars
<1>0. /\ TypeOK /\ Once(Held) /\ pc[t] \in Calling
      /\ pc \in [Threads -> Labels] /\ sent \in [Threads -> Nat]
      /\ cret \notin Calling
  BY CallStep DEF LogInv, TypeOK, Calling
<1>1. CASE ReadMode(t) \/ AppendDropped(t)
  BY <1>0, <1>1, NothingPasses DEF ReadMode, AppendDropped, Kinds, SameLife
<1>2. ASSUME ProcessDies, UNCHANGED file PROVE Ends
  <2>1. crashes' # crashes
    BY <1>0, <1>2 DEF ProcessDies, TypeOK
  <2>2. \A m \in Memories : mem'[m] \in {mem[m], << >>}
    BY <1>0, <1>2 DEF ProcessDies, TypeOK
  <2>3. QED
    BY <1>0, <1>2, <2>1, <2>2, LossEnds DEF ProcessDies
<1>3. CASE SyncFormat(t)
  BY <1>0, <1>2, <1>3, NothingPasses DEF SyncFormat, NullBuffer, Kinds, SameLife
<1>4. ASSUME NEW kind \in {"log", "warn", "tip"}, ReturnFrom(t), UNCHANGED sent
      PROVE  NumberedNext(MakeEntry(t, kind))
  <2> DEFINE e == MakeEntry(t, kind)
  <2>1. e.by = t /\ e.n = sent[t]
    BY DEF MakeEntry
  <2>2. pc'[t] \notin Calling
    BY <1>0, <1>4 DEF ReturnFrom, Goto, Calling
  <2> HIDE DEF e
  <2>3. e.n <= sent'[e.by] /\ pc'[e.by] \notin Calling
    BY <1>0, <1>4, <2>1, <2>2
  <2>4. QED
    BY <2>3 DEF NumberedNext, e
<1>5. CASE SyncWrite(t)
  <2> DEFINE e == MakeEntry(t, "log")
  <2>1. e \in Entries /\ \A f \in Everywhere(Held) : ~Same(e, f)
    BY <1>0, MadeIsNew
  <2>2. /\ Log2File(<<e>>) /\ ReturnFrom(t)
        /\ UNCHANGED <<mem, cTmp, asyncTmp, sent, crashes, sg_log_buff>>
    BY <1>5 DEF SyncWrite
  <2>3. Accepts(e)
    BY <1>0, <2>1, <2>2, WriteAccepts
  <2>4. QED
    BY <1>4, <2>1, <2>2, <2>3 DEF Kinds, SameLife, AcceptsOne
<1>6. ASSUME NEW fatal, Append2Buffer(t, fatal) PROVE Kinds
  <2> DEFINE kind == IF Len(Block) >= HighWater THEN "warn" ELSE "log"
             e == MakeEntry(t, kind)
  <2>1. e \in Entries /\ \A f \in Everywhere(Held) : ~Same(e, f)
    BY <1>0, MadeIsNew
  <2>2. /\ sg_log_buff \in Memories
        /\ mem' = [mem EXCEPT ![sg_log_buff] = Append(@, e)]
        /\ ReturnFrom(t)
        /\ UNCHANGED <<cTmp, asyncTmp, stdio, file, sent, crashes, sg_log_buff>>
    BY <1>0, <1>6 DEF Append2Buffer, Writable, Live, TypeOK
  <2>3. NumberedNext(e)
    BY <1>4, <2>2
  <2> HIDE DEF e
  <2>4. mem[sg_log_buff] \in Seq(Entries) /\ mem \in [Memories -> Seq(Entries)]
    BY <1>0, <2>2 DEF TypeOK
  <2>5. mem'[sg_log_buff] = mem[sg_log_buff] \o <<e>>
    BY <2>1, <2>2, <2>4, AppendIsConcat
  <2>6. Adds(Held, Held', sg_log_buff, e)
    BY <2>2, <2>4, <2>5, HeldIs DEF Adds, Spots, Memories
  <2>7. /\ Once(Held')
        /\ Elems(Held'[sg_log_buff]) = Elems(Held[sg_log_buff]) \union {e}
        /\ \A p \in Spots \ {sg_log_buff} : Elems(Held'[p]) = Elems(Held[p])
    <3>1. sg_log_buff \in Spots
      BY <2>2 DEF Spots, Memories
    <3>2. QED
      BY <1>0, <2>1, <2>6, <3>1, HeldType, AddsOnce
  <2>8. Everywhere(Held') = Everywhere(Held) \union {e}
    BY <2>2, <2>7 DEF Everywhere, Spots, Memories
  <2>9. Accepts(e)
    BY <2>1, <2>2, <2>7, <2>8 DEF Accepts
  <2>10. QED
    BY <2>1, <2>2, <2>3, <2>9 DEF Kinds, SameLife, AcceptsOne
<1>7. QED
  BY <1>1, <1>3, <1>5, <1>6 DEF AppenderStep

\* A tip takes a number of its own.
LEMMA TipKinds ==
  ASSUME LogInv, Once(Held), TypeOK', NEW next \in Labels \ Calling,
         pc[Ctl] \notin Calling, ~sg_log_close, WriteTip(next)
  PROVE  Kinds
<1> DEFINE e == [MakeEntry(Ctl, "tip") EXCEPT !.n = @ + 1]
<1>0. /\ TypeOK /\ Once(Held) /\ Ctl \in Threads /\ Live
      /\ pc \in [Threads -> Labels] /\ sent \in [Threads -> Nat]
  BY DEF LogInv, TypeOK, Threads, Phases
<1>8. UNCHANGED <<mem, cTmp, asyncTmp, crashes, sg_log_buff>>
  BY <1>0, TipStep
<1>1. MakeEntry(Ctl, "tip") \in Entries
  BY <1>0, MakeEntryType
<1>2. e \in Entries
  BY <1>1 DEF Entries
<1>3. e.by = Ctl /\ e.n = sent[Ctl] + 1
  BY DEF MakeEntry
<1> HIDE DEF e
<1>4. ASSUME NEW f \in Everywhere(Held), Same(e, f) PROVE FALSE
  <2>1. f.by = Ctl /\ f.n = sent[Ctl] + 1 /\ f.n <= sent[Ctl]
    BY <1>3, <1>4 DEF Same, LogInv, Numbered
  <2>2. QED
    BY <1>0, <2>1
<1>5. Accepts(e)
  <2>1. Log2File(<<e>>)
    BY <1>0, TipStep DEF e
  <2>2. QED
    BY <1>0, <1>2, <1>4, <1>8, <2>1, WriteAccepts
<1>6. NumberedNext(e)
  <2>1. sent'[Ctl] = sent[Ctl] + 1 /\ pc'[Ctl] = next
    BY <1>0, TipStep DEF Goto
  <2>2. QED
    BY <1>0, <1>3, <2>1 DEF NumberedNext
<1>7. QED
  BY <1>2, <1>5, <1>6, <1>8 DEF Kinds, SameLife, AcceptsOne

\* Every step is of one of the three kinds, until open clears the buffer.
LEMMA StepKinds ==
  ASSUME LogInv, Once(Held), [Next]_vars, ~Clearing, ~Clearing'
  PROVE  Kinds
<1> USE DEF bufVars, procVars, boundVars
<1>0. /\ TypeOK /\ TypeOK' /\ Once(Held) /\ Phases /\ Ctl \in Threads
      /\ pc \in [Threads -> Labels]
  BY StepType DEF LogInv, TypeOK, Threads
<1>1. CASE Crash
  <2>1. crashes' # crashes
    BY <1>0, <1>1 DEF Crash, ProcessDies, TypeOK
  <2>2. \A m \in Memories : mem'[m] \in {mem[m], << >>}
    BY <1>0, <1>1 DEF Crash, ProcessDies, TypeOK
  <2>3. Ends
    BY <1>0, <1>1, <2>1, <2>2, LossEnds DEF Crash, ProcessDies
  <2>4. QED
    BY <2>3 DEF Kinds
<1>2. ASSUME UNCHANGED <<mem, cTmp, asyncTmp, stdio, file, crashes, sg_log_buff>>
      PROVE  Kinds
  BY <1>0, <1>2, NothingPasses DEF Kinds, SameLife
<1>3. ASSUME NEW l \in Loggers, CallAppender(l) PROVE Kinds
  BY <1>2, <1>3 DEF CallAppender
<1>4. ASSUME NEW from \in Labels, NEW next \in Labels, WriteTaken(from, next)
      PROVE  Kinds
  <2>1. /\ Log2File(Held["cTmp"]) /\ Held'["cTmp"] = << >>
        /\ UNCHANGED <<mem, asyncTmp, crashes, sg_log_buff>>
    BY <1>4, HeldIs DEF WriteTaken
  <2>2. \A p \in Spots \ {"cTmp", "stdio", "file"} : Held'[p] = Held[p]
    BY <2>1, HeldIs DEF Spots, Memories
  <2>3. Passes
    BY <1>0, <2>1, <2>2, WritePasses
  <2>4. QED
    BY <2>1, <2>3 DEF Kinds, SameLife
<1>5. CASE Open
  <2>1. CASE OpenAgain
    <3>1. "idle" \in Labels \ Calling
      BY DEF Labels, Calling
    <3>2. pc[Ctl] \notin Calling /\ ~sg_log_close /\ WriteTip("idle")
      BY <2>1 DEF OpenAgain, Calling
    <3>3. QED
      BY <1>0, <3>1, <3>2, TipKinds
  <2>2. CASE OpenRecovered
    <3>1. ASSUME NEW from \in Opening, NEW next \in Opening, OpenTip(from, next)
          PROVE  Kinds
      <4>1. pc[Ctl] \in Opening /\ next \in Labels \ Calling /\ WriteTip(next)
        BY <3>1 DEF OpenTip, Opening, Labels, Calling
      <4>2. pc[Ctl] \notin Calling /\ ~sg_log_close
        BY <1>0, <4>1 DEF Opening, Calling, Phases
      <4>3. QED
        BY <1>0, <4>1, <4>2, TipKinds
    <3>2. QED
      BY <1>4, <2>2, <3>1 DEF OpenRecovered, Labels, Opening
  <2>3. ASSUME NEW mode \in Modes, NEW mapped \in MmapOutcomes,
               OpenBuffer(mode, mapped)
        PROVE  Kinds
    <3>1. ~Live /\ sg_log_buff' # "null"
      BY <1>0, <2>3 DEF OpenBuffer, Phases
    <3>2. \A m \in Memories : mem'[m] \in {mem[m], << >>}
      BY <1>0, <2>3 DEF OpenBuffer, TypeOK
    <3>3. Ends
      BY <1>0, <2>3, <3>1, <3>2, LossEnds DEF OpenBuffer, Live
    <3>4. QED
      BY <3>3 DEF Kinds
  <2>4. CASE OpenRecover
    <3>1. ~OpenCopy /\ ~OpenClear
      BY <1>0 DEF OpenCopy, OpenClear, Clearing, Goto
    <3>2. QED
      BY <1>2, <2>4, <3>1 DEF OpenRecover, OpenEndStream, OpenMeasure
  <2>5. CASE OpenUnclose \/ OpenSetMode \/ OpenBanner
    BY <1>2, <2>5 DEF OpenUnclose, OpenSetMode, OpenBanner
  <2>6. QED
    BY <1>5, <2>1, <2>2, <2>3, <2>4, <2>5 DEF Open
<1>6. CASE Close
  <2>1. CASE CloseMark \/ CloseFlag \/ CloseJoin
    BY <1>2, <2>1 DEF CloseMark, CloseFlag, CloseJoin
  <2>2. CASE CloseFree
    <3>1. CASE Live
      <4>1. sg_log_buff' # sg_log_buff
        BY <2>2, <3>1 DEF CloseFree, Live
      <4>2. \A m \in Memories : mem'[m] \in {mem[m], << >>}
        BY <1>0, <2>2 DEF CloseFree, TypeOK
      <4>3. Ends
        BY <1>0, <2>2, <4>1, <4>2, LossEnds DEF CloseFree
      <4>4. QED
        BY <4>3 DEF Kinds
    <3>2. CASE ~Live
      <4>1. mem' = mem /\ sg_log_buff' = sg_log_buff
        BY <1>0, <2>2, <3>2 DEF CloseFree, Live, TypeOK
      <4>2. QED
        BY <1>2, <2>2, <4>1 DEF CloseFree
    <3>3. QED
      BY <3>1, <3>2
  <2>3. CASE CloseFile
    <3>1. Moves(Held, Held', "stdio", "file")
      BY <2>3, HeldIs DEF CloseFile, Moves, Spots, Memories
    <3>2. Passes
      BY <1>0, <3>1, MovePasses DEF Spots
    <3>3. QED
      BY <2>3, <3>2 DEF CloseFile, Kinds, SameLife
  <2>4. QED
    BY <1>6, <2>1, <2>2, <2>3 DEF Close
<1>7. CASE Flush
  BY <1>2, <1>7 DEF Flush
<1>8. CASE FlushSync
  <2>1. CASE FlushSyncTake
    <3>1. /\ TakeBlock /\ cTmp' = Block /\ cTmp = << >>
          /\ UNCHANGED <<asyncTmp, stdio, file, crashes, sg_log_buff>>
      BY <1>0, <2>1 DEF FlushSyncTake, Phases
    <3>2. /\ Held["cTmp"] = << >> /\ Held'["cTmp"] = Block
          /\ \A p \in Spots \ {"cTmp", "mmap", "heap"} : Held'[p] = Held[p]
      BY <3>1, HeldIs DEF Spots
    <3>3. Passes
      BY <1>0, <3>1, <3>2, TakePasses
    <3>4. QED
      BY <3>1, <3>3 DEF Kinds, SameLife
  <2>2. QED
    BY <1>4, <1>8, <2>1 DEF FlushSync, Labels
<1>9. ASSUME NEW mode \in Modes, SetMode(mode) PROVE Kinds
  BY <1>2, <1>9 DEF SetMode
<1>10. CASE AsyncThread
  <2>1. CASE AsyncTake
    <3>1. CASE ~Live
      BY <1>2, <2>1, <3>1 DEF AsyncTake, AsyncGoto
    <3>2. CASE Live
      <4>1. /\ TakeBlock /\ asyncTmp' = Block /\ asyncTmp = << >>
            /\ UNCHANGED <<cTmp, stdio, file, crashes, sg_log_buff>>
        BY <1>0, <2>1, <3>2 DEF AsyncTake, AsyncGoto, Phases
      <4>2. /\ Held["asyncTmp"] = << >> /\ Held'["asyncTmp"] = Block
            /\ \A p \in Spots \ {"asyncTmp", "mmap", "heap"} :
                 Held'[p] = Held[p]
        BY <4>1, HeldIs DEF Spots
      <4>3. Passes
        BY <1>0, <4>1, <4>2, TakePasses
      <4>4. QED
        BY <4>1, <4>3 DEF Kinds, SameLife
    <3>3. QED
      BY <3>1, <3>2
  <2>2. CASE AsyncWrite
    <3>1. /\ Log2File(Held["asyncTmp"]) /\ Held'["asyncTmp"] = << >>
          /\ UNCHANGED <<mem, cTmp, crashes, sg_log_buff>>
      BY <2>2, HeldIs DEF AsyncWrite, AsyncGoto
    <3>2. \A p \in Spots \ {"asyncTmp", "stdio", "file"} : Held'[p] = Held[p]
      BY <3>1, HeldIs DEF Spots, Memories
    <3>3. Passes
      BY <1>0, <3>1, <3>2, WritePasses
    <3>4. QED
      BY <3>1, <3>3 DEF Kinds, SameLife
  <2>3. CASE AsyncCheckClose \/ AsyncWait \/ AsyncTimeout \/ AsyncEnd
    BY <1>2, <2>3
       DEF AsyncCheckClose, AsyncWait, AsyncTimeout, AsyncEnd, AsyncGoto
  <2>4. QED
    BY <1>10, <2>1, <2>2, <2>3 DEF AsyncThread
<1>11. CASE UNCHANGED vars
  BY <1>2, <1>11 DEF vars
<1>12. QED
  BY <1>0, <1>1, <1>3, <1>5, <1>6, <1>7, <1>8, <1>9, <1>10, <1>11, AppenderKinds
     DEF Next

-----------------------------------------------------------------------------
(* What Shown and Bare see of the steps at which open clears the buffer.    *)

\* Before and after these steps all three are the same.
LEMMA ViewsAgree ==
  /\ ~Clearing => Shown = Held /\ Bare = Held
  /\ ~Clearing' => Shown' = Held' /\ Bare' = Held'
<1>1. /\ Held = [p \in Spots |-> Held[p]] /\ Held' = [p \in Spots |-> Held'[p]]
  BY DEF Held
<1>2. ~Clearing => Shown = Held /\ Bare = Held
  BY <1>1 DEF Shown, Bare
<1>3. ~Clearing' => Shown' = Held' /\ Bare' = Held'
  BY <1>1 DEF Shown, Bare
<1>4. QED
  BY <1>2, <1>3

\* What they show while open clears the buffer.
LEMMA ViewsDiffer ==
  /\ Clearing =>
       \A p \in Spots :
         /\ Shown[p] = IF p = sg_log_buff THEN << >> ELSE Held[p]
         /\ Bare[p] = IF p = "cTmp" THEN << >> ELSE Held[p]
  /\ Clearing' =>
       \A p \in Spots :
         /\ Shown'[p] = IF p = sg_log_buff' THEN << >> ELSE Held'[p]
         /\ Bare'[p] = IF p = "cTmp" THEN << >> ELSE Held'[p]
BY DEF Shown, Bare

\* They hold entries.
LEMMA ViewsType ==
  /\ TypeOK => Shown \in Sequences /\ Bare \in Sequences
  /\ TypeOK' => Shown' \in Sequences /\ Bare' \in Sequences
<1>1. << >> \in Seq(Entries)
  BY EmptySeq
<1>2. TypeOK => Shown \in Sequences /\ Bare \in Sequences
  BY <1>1, HeldType DEF Shown, Bare, Sequences
<1>3. TypeOK' => Shown' \in Sequences /\ Bare' \in Sequences
  BY <1>1, HeldType DEF Shown, Bare, Sequences
<1>4. QED
  BY <1>2, <1>3

\* Between them they show everything that is held.
LEMMA ViewsCover ==
  /\ TypeOK => Everywhere(Held) = Everywhere(Shown) \union Everywhere(Bare)
  /\ TypeOK' => Everywhere(Held') = Everywhere(Shown') \union Everywhere(Bare')
<1>1. Elems(<< >>) = {} /\ "cTmp" \notin Memories \union {"null"}
  BY DEF Elems, Memories
<1>2. TypeOK => Everywhere(Held) = Everywhere(Shown) \union Everywhere(Bare)
  <2>1. CASE ~Clearing
    BY <2>1, ViewsAgree
  <2>2. ASSUME TypeOK, Clearing, NEW p \in Spots
        PROVE  Elems(Held[p]) = Elems(Shown[p]) \union Elems(Bare[p])
    <3>1. sg_log_buff # "cTmp"
      BY <1>1, <2>2 DEF TypeOK
    <3>2. QED
      BY <1>1, <2>2, <3>1, ViewsDiffer
  <2>3. QED
    BY <2>1, <2>2 DEF Everywhere
<1>3. TypeOK' => Everywhere(Held') = Everywhere(Shown') \union Everywhere(Bare')
  <2>1. CASE ~Clearing'
    BY <2>1, ViewsAgree
  <2>2. ASSUME TypeOK', Clearing', NEW p \in Spots
        PROVE  Elems(Held'[p]) = Elems(Shown'[p]) \union Elems(Bare'[p])
    <3>1. sg_log_buff' # "cTmp"
      BY <1>1, <2>2 DEF TypeOK
    <3>2. QED
      BY <1>1, <2>2, <3>1, ViewsDiffer
  <2>3. QED
    BY <2>1, <2>2 DEF Everywhere
<1>4. QED
  BY <1>2, <1>3

\* Open comes to the clearing with the block of the buffer on its stack.
LEMMA EntersClearing ==
  ASSUME TypeOK, Phases, [Next]_vars, ~Clearing, Clearing'
  PROVE  /\ Live /\ cTmp = << >> /\ cTmp' = Block
         /\ pc[Ctl] \in {"measure", "copy"}
         /\ UNCHANGED <<mem, asyncTmp, stdio, file, crashes, sg_log_buff, accepted,
                        opens, asyncPc>>
<1> USE DEF Clearing, bufVars, procVars, boundVars
<1>0. /\ Ctl \in Threads /\ Ctl \notin Loggers /\ pc \in [Threads -> Labels]
      /\ cret \in {"idle", "closed"} /\ sg_mode \in {"Async", "Sync"}
      /\ pc[Ctl] # "clear" /\ pc'[Ctl] = "clear"
  BY ThreadAssumption DEF TypeOK, Threads
<1>1. ~ProcessDies
  BY <1>0 DEF ProcessDies
<1>2. ASSUME NEW l \in Loggers, CallAppender(l) PROVE FALSE
  BY <1>0, <1>2 DEF CallAppender, Goto
<1>3. ASSUME NEW t \in Threads, AppenderStep(t) PROVE FALSE
  BY <1>0, <1>1, <1>3, CallStep DEF ReturnFrom, Goto
<1>4. ASSUME Open PROVE OpenMeasure \/ OpenCopy
  <2>1. ~OpenAgain /\ ~OpenRecovered
    BY <1>0, <1>1 DEF OpenAgain, OpenRecovered, OpenTip, WriteTaken, WriteTip,
                      NullBuffer, Goto
  <2>2. ASSUME NEW mode \in Modes, NEW mapped \in MmapOutcomes,
               OpenBuffer(mode, mapped)
        PROVE  FALSE
    BY <1>0, <2>2 DEF OpenBuffer, Goto
  <2>3. ~OpenUnclose /\ ~OpenSetMode /\ ~OpenBanner /\ ~OpenEndStream /\ ~OpenClear
    BY <1>0 DEF OpenUnclose, OpenSetMode, OpenBanner, OpenEndStream, OpenClear, Goto
  <2>4. QED
    BY <1>4, <2>1, <2>2, <2>3 DEF Open, OpenRecover
<1>5. ~Close
  BY <1>0 DEF Close, CloseMark, CloseFlag, CloseJoin, CloseFree, CloseFile, Goto
<1>6. ~Flush /\ ~FlushSync /\ ~AsyncThread
  BY <1>0 DEF Flush, FlushSync, FlushSyncTake, WriteTaken, Goto, AsyncThread,
              AsyncTake, AsyncWrite, AsyncCheckClose, AsyncWait, AsyncTimeout,
              AsyncEnd, AsyncGoto
<1>7. ASSUME NEW mode \in Modes, SetMode(mode) PROVE FALSE
  BY <1>0, <1>7 DEF SetMode
<1>8. ~UNCHANGED vars
  BY <1>0 DEF vars
<1>9. OpenMeasure \/ OpenCopy
  BY <1>1, <1>2, <1>3, <1>4, <1>5, <1>6, <1>7, <1>8 DEF Next, Crash
<1>10. pc[Ctl] \in {"measure", "copy"} /\ cTmp = << >> /\ Live
  BY <1>9 DEF OpenMeasure, OpenCopy, Phases, Recovering
<1>11. CASE OpenCopy
  BY <1>10, <1>11 DEF OpenCopy
<1>12. CASE OpenMeasure
  <2>1. Block = << >>
    BY <1>0, <1>12 DEF OpenMeasure, Goto
  <2>2. QED
    BY <1>10, <1>12, <2>1 DEF OpenMeasure
<1>13. QED
  BY <1>9, <1>11, <1>12

\* Entry e has come to the buffer or to the file, and under a new number.
Comes(e) ==
  /\ \A f \in Everywhere(Held) : ~Same(e, f)
  /\ e.run = crashes
  /\ NumberedNext(e)
  /\ \/ mem' = [mem EXCEPT ![sg_log_buff] = @ \o <<e>>] /\ UNCHANGED <<stdio, file>>
     \/ Log2File(<<e>>) /\ UNCHANGED mem

\* A call left over from the last session gets its line in, or nothing
\* happens.
LeftOver ==
  /\ Clearing' /\ UNCHANGED <<sg_log_buff, crashes, cTmp, asyncTmp>>
  /\ \/ UNCHANGED <<mem, stdio, file, accepted, opens>>
     \/ ~LoggersIdle /\ \E e \in Entries : Comes(e)

\* What can happen before open has cleared the buffer.
LEMMA ClearingStep ==
  ASSUME LogInv, ~ClosedSetMode, [Next]_vars, Clearing
  PROVE  \/ ProcessDies /\ UNCHANGED <<file, opens>>
         \/ OpenClear
         \/ LeftOver
<1> USE DEF Clearing, bufVars, procVars, boundVars
<1>0. /\ TypeOK /\ Phases /\ Ctl \in Threads /\ pc \in [Threads -> Labels]
      /\ pc[Ctl] = "clear" /\ sg_log_close /\ Live /\ asyncPc = "ended"
      /\ sg_log_buff \in Memories
  BY DEF LogInv, TypeOK, Threads, Phases, Stopped, Recovering, Live
<1>1. CASE Crash
  BY <1>1 DEF Crash
<1>2. ASSUME NEW l \in Loggers, CallAppender(l) PROVE FALSE
  BY <1>0, <1>2 DEF CallAppender
<1>3. ASSUME NEW t \in Threads, AppenderStep(t)
      PROVE  (ProcessDies /\ UNCHANGED <<file, opens>>) \/ LeftOver
  <2>1. pc[t] \in Calling /\ t # Ctl
    BY <1>0, <1>3, CallStep DEF Calling
  <2>2. ~LoggersIdle
    BY <2>1 DEF LoggersIdle, Threads, Calling
  <2>3. ASSUME ReturnFrom(t) PROVE Clearing' /\ pc'[t] = "idle"
    BY <1>0, <2>1, <2>3 DEF ReturnFrom, Goto
  <2>4. ASSUME NEW kind \in {"log", "warn", "tip"}, ReturnFrom(t), UNCHANGED sent
        PROVE  /\ MakeEntry(t, kind) \in Entries /\ MakeEntry(t, kind).run = crashes
               /\ \A f \in Everywhere(Held) : ~Same(MakeEntry(t, kind), f)
               /\ NumberedNext(MakeEntry(t, kind))
    <3> DEFINE e == MakeEntry(t, kind)
    <3>1. /\ e \in Entries /\ e.by = t /\ e.n = sent[t]
          /\ \A f \in Everywhere(Held) : ~Same(e, f)
      BY <2>1, MadeIsNew
    <3>2. e.run = crashes
      BY DEF MakeEntry
    <3> HIDE DEF e
    <3>3. e.n <= sent'[e.by] /\ pc'[e.by] \notin Calling
      <4>1. sent[t] \in Nat /\ sent'[t] = sent[t]
        BY <1>0, <2>4 DEF TypeOK
      <4>2. QED
        BY <2>3, <2>4, <3>1, <4>1 DEF Calling
    <3>4. QED
      BY <3>1, <3>2, <3>3 DEF NumberedNext, e
  <2>5. CASE ReadMode(t) \/ AppendDropped(t)
    <3>1. Clearing'
      BY <1>0, <2>1, <2>3, <2>5 DEF ReadMode, AppendDropped, Goto
    <3>2. QED
      BY <2>5, <3>1 DEF ReadMode, AppendDropped, LeftOver
  <2>6. CASE SyncFormat(t)
    <3>1. Goto(t, "log2file")
      BY <1>0, <2>6 DEF SyncFormat, NullBuffer
    <3>2. Clearing'
      BY <1>0, <2>1, <3>1 DEF Goto
    <3>3. QED
      BY <1>0, <2>6, <3>2 DEF SyncFormat, NullBuffer, LeftOver
  <2>7. CASE SyncWrite(t)
    <3> DEFINE e == MakeEntry(t, "log")
    <3>1. /\ ReturnFrom(t) /\ Log2File(<<e>>)
          /\ UNCHANGED <<mem, sent, sg_log_buff, crashes, cTmp, asyncTmp>>
      BY <2>7 DEF SyncWrite
    <3>2. e \in Entries /\ Comes(e)
      BY <2>4, <3>1 DEF Comes
    <3> HIDE DEF e
    <3>3. QED
      BY <2>2, <2>3, <3>1, <3>2 DEF LeftOver
  <2>8. ASSUME NEW fatal, Append2Buffer(t, fatal) PROVE LeftOver
    <3> DEFINE kind == IF Len(Block) >= HighWater THEN "warn" ELSE "log"
               e == MakeEntry(t, kind)
    <3>1. /\ ReturnFrom(t) /\ mem' = [mem EXCEPT ![sg_log_buff] = Append(@, e)]
          /\ UNCHANGED <<stdio, file, sent, sg_log_buff, crashes, cTmp, asyncTmp>>
      BY <2>8 DEF Append2Buffer
    <3>2. /\ e \in Entries /\ e.run = crashes /\ NumberedNext(e)
          /\ \A f \in Everywhere(Held) : ~Same(e, f)
      BY <2>4, <3>1
    <3> HIDE DEF e
    <3>3. Append(mem[sg_log_buff], e) = mem[sg_log_buff] \o <<e>>
      <4>1. mem[sg_log_buff] \in Seq(Entries)
        BY <1>0 DEF TypeOK
      <4>2. QED
        BY <3>2, <4>1, AppendIsConcat
    <3>4. Comes(e)
      BY <3>1, <3>2, <3>3 DEF Comes
    <3>5. QED
      BY <2>2, <2>3, <3>1, <3>2, <3>4 DEF LeftOver
  <2>9. QED
    BY <1>3, <2>5, <2>6, <2>7, <2>8 DEF AppenderStep
<1>4. CASE Open
  <2>1. ~OpenAgain /\ ~OpenRecovered
    BY <1>0 DEF OpenAgain, OpenRecovered, OpenTip, WriteTaken
  <2>2. ~OpenUnclose /\ ~OpenSetMode /\ ~OpenBanner /\ ~OpenEndStream
        /\ ~OpenMeasure /\ ~OpenCopy
    BY <1>0 DEF OpenUnclose, OpenSetMode, OpenBanner, OpenEndStream, OpenMeasure,
                OpenCopy
  <2>3. QED
    BY <1>0, <1>4, <2>1, <2>2 DEF Open, OpenRecover, OpenBuffer
<1>5. ~Close /\ ~FlushSync /\ ~AsyncThread
  BY <1>0 DEF Close, CloseMark, CloseFlag, CloseJoin, CloseFree, CloseFile,
              FlushSync, FlushSyncTake, WriteTaken, AsyncThread, AsyncTake,
              AsyncWrite, AsyncCheckClose, AsyncWait, AsyncTimeout, AsyncEnd
<1>6. CASE Flush \/ UNCHANGED vars
  BY <1>0, <1>6 DEF Flush, vars, LeftOver
<1>7. ASSUME NEW mode \in Modes, SetMode(mode) PROVE FALSE
  BY <1>0, <1>7 DEF SetMode
<1>8. QED
  BY <1>1, <1>2, <1>3, <1>4, <1>5, <1>6, <1>7 DEF Next

\* The entries that come to the places have numbers of their own.
Fresh == \A e \in Everywhere(Held') \ Everywhere(Held) : NumberedNext(e)

\* As open takes the block, Shown sees it move to open's stack and Bare sees
\* nothing.
LEMMA EntersViews ==
  ASSUME LogInv, [Next]_vars, ~Clearing, Clearing'
  PROVE  /\ Once(Shown') /\ Once(Bare')
         /\ Everywhere(Shown') = Everywhere(Shown)
         /\ Everywhere(Held') = Everywhere(Held)
<1>1. /\ TypeOK /\ TypeOK' /\ Once(Held) /\ Shown = Held /\ Bare = Held
      /\ Held \in Sequences /\ Held' \in Sequences
      /\ Shown' \in Sequences /\ Bare' \in Sequences
  BY StepType, HeldType, ViewsType, ViewsAgree DEF LogInv
<1>2. /\ Live /\ cTmp = << >> /\ cTmp' = Block
      /\ UNCHANGED <<mem, asyncTmp, stdio, file, sg_log_buff>>
  BY <1>1, EntersClearing DEF LogInv
<1>3. /\ sg_log_buff \in Memories /\ sg_log_buff \in Spots /\ sg_log_buff # "cTmp"
      /\ "cTmp" \in Spots
  BY <1>1, <1>2 DEF TypeOK, Live, Memories, Spots
<1>4. /\ Held[sg_log_buff] = Block /\ Held["cTmp"] = << >>
      /\ Held'["cTmp"] = Block
      /\ \A p \in Spots \ {"cTmp"} : Held'[p] = Held[p]
  BY <1>2, <1>3, HeldIs DEF Block, Spots, Memories
<1>5. /\ Shown'["cTmp"] = Held["cTmp"] \o Held[sg_log_buff]
      /\ Shown'[sg_log_buff] = << >>
      /\ \A p \in Spots \ {sg_log_buff, "cTmp"} : Shown'[p] = Held[p]
  <2>1. Block \in Seq(Entries) /\ << >> \o Block = Block
    BY <1>1, BlockType, ConcatEmptySeq
  <2>2. QED
    BY <1>2, <1>3, <1>4, <2>1, ViewsDiffer
<1>6. Moves(Held, Shown', sg_log_buff, "cTmp")
  BY <1>5 DEF Moves
<1>7. /\ Once(Shown')
      /\ Elems(Shown'["cTmp"]) = Elems(Held["cTmp"]) \union Elems(Held[sg_log_buff])
      /\ Elems(Shown'[sg_log_buff]) = {}
      /\ \A p \in Spots \ {sg_log_buff, "cTmp"} : Elems(Shown'[p]) = Elems(Held[p])
  BY <1>1, <1>3, <1>6, MovesOnce
<1>8. Everywhere(Shown') = Everywhere(Held)
  BY <1>3, <1>7 DEF Everywhere
<1>9. \A p \in Spots : Bare'[p] = Held[p]
  BY <1>4, ViewsDiffer
<1>10. Bare' = Held
  BY <1>1, <1>9 DEF Sequences
<1>11. Everywhere(Held') = Everywhere(Held)
  BY <1>1, <1>8, <1>10, ViewsCover
<1>12. QED
  BY <1>1, <1>7, <1>8, <1>10, <1>11

\* When the process dies before the buffer is cleared, Held has all that Bare
\* had and survives.
LEMMA DiesViews ==
  ASSUME LogInv, TypeOK', Clearing, ProcessDies, UNCHANGED file
  PROVE  /\ ~Clearing' /\ Once(Held') /\ Loses(Bare, Held')
         /\ \A p \in Spots : Elems(Held'[p]) \subseteq Elems(Bare[p])
<1>1. /\ TypeOK /\ Once(Bare) /\ Ctl \in Threads
      /\ Bare \in Sequences /\ Held' \in Sequences
  BY ViewsType, HeldType DEF LogInv, Threads
<1>2. ~Clearing'
  BY <1>1 DEF ProcessDies, Clearing
<1>3. \A p \in Spots : Bare[p] = IF p = "cTmp" THEN << >> ELSE Held[p]
  BY ViewsDiffer
<1>4. \A m \in Memories : mem'[m] \in {mem[m], << >>}
  BY <1>1 DEF ProcessDies, TypeOK
<1>5. Loses(Bare, Held')
  BY <1>3, <1>4, HeldIs DEF Loses, ProcessDies, Spots, Memories
<1>6. QED
  BY <1>1, <1>2, <1>5, LosesOnce

\* Clearing takes the block from the one place where Shown does not see it.
LEMMA ClearViews ==
  ASSUME TypeOK, Clearing, Live, OpenClear
  PROVE  ~Clearing' /\ Held' = Shown /\ Shown' = Shown
<1>1. /\ pc \in [Threads -> Labels] /\ Ctl \in Threads
      /\ sg_log_buff \in Memories /\ sg_log_buff \in Spots
  BY DEF TypeOK, Threads, Live, Memories, Spots
<1>2. ~Clearing'
  BY <1>1 DEF OpenClear, Goto, Clearing
<1>3. \A m \in Memories : mem'[m] = IF m = sg_log_buff THEN << >> ELSE mem[m]
  BY <1>1 DEF OpenClear, TypeOK
<1>4. UNCHANGED <<cTmp, asyncTmp, stdio, file>>
  BY DEF OpenClear
<1>5. \A p \in Spots : Held'[p] = Shown[p]
  BY <1>1, <1>3, <1>4, ViewsDiffer, HeldIs DEF Spots, Memories
<1>6. Held' = Shown
  BY <1>5 DEF Held, Shown
<1>7. QED
  BY <1>2, <1>6, ViewsAgree

\* A line of a call left over from the last session comes to a place of its
\* own.
LEMMA ComesViews ==
  ASSUME LogInv, TypeOK', Clearing, LeftOver, NEW e \in Entries, Comes(e)
  PROVE  /\ Once(Shown') /\ Once(Bare')
         /\ Everywhere(Held') \subseteq Everywhere(Held) \union {e}
<1>1. /\ TypeOK /\ Once(Shown) /\ Once(Bare)
      /\ Shown \in Sequences /\ Bare \in Sequences
      /\ Shown' \in Sequences /\ Bare' \in Sequences
  BY ViewsType DEF LogInv
<1>2. /\ Clearing' /\ UNCHANGED <<sg_log_buff, cTmp, asyncTmp>> /\ Live
      /\ sg_log_buff \in Memories /\ sg_log_buff \in Spots /\ sg_log_buff # "cTmp"
      /\ mem \in [Memories -> Seq(Entries)]
  BY <1>1 DEF LeftOver, LogInv, Phases, Recovering, Clearing, TypeOK, Live,
              Memories, Spots
<1>3. /\ \A p \in Spots :
           /\ Shown[p] = IF p = sg_log_buff THEN << >> ELSE Held[p]
           /\ Bare[p] = IF p = "cTmp" THEN << >> ELSE Held[p]
           /\ Shown'[p] = IF p = sg_log_buff THEN << >> ELSE Held'[p]
           /\ Bare'[p] = IF p = "cTmp" THEN << >> ELSE Held'[p]
  BY <1>2, ViewsDiffer
<1>4. /\ \A f \in Everywhere(Shown) : ~Same(e, f)
      /\ \A f \in Everywhere(Bare) : ~Same(e, f)
  BY <1>1, ViewsCover DEF Comes
<1>5. CASE /\ mem' = [mem EXCEPT ![sg_log_buff] = @ \o <<e>>]
           /\ UNCHANGED <<stdio, file>>
  <2>1. /\ Held'[sg_log_buff] = Held[sg_log_buff] \o <<e>>
        /\ \A p \in Spots \ {sg_log_buff} : Held'[p] = Held[p]
    BY <1>2, <1>5, HeldIs DEF Spots, Memories
  <2>2. Shown' = Shown
    <3>1. \A p \in Spots : Shown'[p] = Shown[p]
      BY <1>3, <2>1
    <3>2. QED
      BY <1>1, <3>1 DEF Sequences
  <2>3. Adds(Bare, Bare', sg_log_buff, e)
    BY <1>2, <1>3, <2>1 DEF Adds
  <2>4. /\ Once(Bare')
        /\ Elems(Bare'[sg_log_buff]) = Elems(Bare[sg_log_buff]) \union {e}
        /\ \A p \in Spots \ {sg_log_buff} : Elems(Bare'[p]) = Elems(Bare[p])
    <3>1. Bare \in Sequences /\ Bare' \in Sequences /\ Once(Bare)
      BY <1>1
    <3>2. \A f \in Everywhere(Bare) : ~Same(e, f)
      BY <1>4
    <3>3. sg_log_buff \in Spots
      BY <1>2
    <3>4. QED
      BY <2>3, <3>1, <3>2, <3>3, AddsOnce
  <2>5. Everywhere(Bare') = Everywhere(Bare) \union {e}
    BY <1>2, <2>4 DEF Everywhere
  <2>6. QED
    BY <1>1, <2>2, <2>4, <2>5, ViewsCover
<1>6. CASE Log2File(<<e>>) /\ UNCHANGED mem
  <2>1. /\ \A p \in Spots \ {"stdio", "file"} : Held'[p] = Held[p]
        /\ \/ /\ Held'["file"] = Held["file"] \o Held["stdio"] \o <<e>>
              /\ Held'["stdio"] = << >>
           \/ /\ Held'["stdio"] = Held["stdio"] \o <<e>>
              /\ Held'["file"] = Held["file"]
    BY <1>2, <1>6, HeldIs DEF Log2File, Spots, Memories
  <2>2. /\ "stdio" \in Spots /\ "file" \in Spots /\ sg_log_buff # "stdio"
        /\ sg_log_buff # "file"
    BY <1>2 DEF Spots, Memories
  <2>3. /\ \A p \in Spots \ {"stdio", "file"} : Shown'[p] = Shown[p]
        /\ \A p \in Spots \ {"stdio", "file"} : Bare'[p] = Bare[p]
        /\ \A p \in {"stdio", "file"} :
             /\ Shown[p] = Held[p] /\ Bare[p] = Held[p]
             /\ Shown'[p] = Held'[p] /\ Bare'[p] = Held'[p]
    BY <1>3, <2>1, <2>2
  <2>4. Once(Shown') /\ Everywhere(Shown') = Everywhere(Shown) \union {e}
    <3>1. Shown \in Sequences /\ Shown' \in Sequences /\ Once(Shown)
      BY <1>1
    <3>2. \/ /\ Shown'["file"] = Shown["file"] \o Shown["stdio"] \o <<e>>
             /\ Shown'["stdio"] = << >>
          \/ /\ Shown'["stdio"] = Shown["stdio"] \o <<e>>
             /\ Shown'["file"] = Shown["file"]
      BY <2>1, <2>3
    <3>3. \A p \in Spots \ {"stdio", "file"} : Shown'[p] = Shown[p]
      BY <2>3
    <3>4. \A f \in Everywhere(Shown) : ~Same(e, f)
      BY <1>4
    <3>5. QED
      BY <3>1, <3>2, <3>3, <3>4, WriteOnce
  <2>5. Once(Bare') /\ Everywhere(Bare') = Everywhere(Bare) \union {e}
    <3>1. Bare \in Sequences /\ Bare' \in Sequences /\ Once(Bare)
      BY <1>1
    <3>2. \/ /\ Bare'["file"] = Bare["file"] \o Bare["stdio"] \o <<e>>
             /\ Bare'["stdio"] = << >>
          \/ /\ Bare'["stdio"] = Bare["stdio"] \o <<e>>
             /\ Bare'["file"] = Bare["file"]
      BY <2>1, <2>3
    <3>3. \A p \in Spots \ {"stdio", "file"} : Bare'[p] = Bare[p]
      BY <2>3
    <3>4. \A f \in Everywhere(Bare) : ~Same(e, f)
      BY <1>4
    <3>5. QED
      BY <3>1, <3>2, <3>3, <3>4, WriteOnce
  <2>6. QED
    BY <1>1, <2>4, <2>5, ViewsCover
<1>7. QED
  BY <1>5, <1>6 DEF Comes

\* When nothing happens, nothing changes.
LEMMA StillViews ==
  ASSUME Clearing, Clearing',
         UNCHANGED <<mem, cTmp, asyncTmp, stdio, file, sg_log_buff>>
  PROVE  Held' = Held /\ Shown' = Shown /\ Bare' = Bare
<1>1. Held' = Held
  BY DEF Held
<1>2. QED
  BY <1>1 DEF Shown, Bare

\* So no step while open clears the buffer makes an entry be twice in one of
\* the views.
LEMMA ClearingViews ==
  ASSUME LogInv, ~ClosedSetMode, [Next]_vars, Clearing
  PROVE  Once(Shown') /\ Once(Bare') /\ Fresh
<1>1. /\ TypeOK /\ TypeOK' /\ Once(Shown) /\ Once(Bare) /\ Live
  BY StepType DEF LogInv, Phases, Recovering, Clearing
<1>2. CASE ProcessDies /\ UNCHANGED file
  <2>1. /\ ~Clearing' /\ Once(Held')
        /\ \A p \in Spots : Elems(Held'[p]) \subseteq Elems(Bare[p])
    BY <1>1, <1>2, DiesViews
  <2>2. Everywhere(Held') \subseteq Everywhere(Bare)
    BY <2>1 DEF Everywhere
  <2>3. QED
    BY <1>1, <2>1, <2>2, ViewsAgree, ViewsCover DEF Fresh
<1>3. CASE OpenClear
  <2>1. ~Clearing' /\ Held' = Shown
    BY <1>1, <1>3, ClearViews
  <2>2. Everywhere(Held') \subseteq Everywhere(Held)
    BY <1>1, <2>1, ViewsCover
  <2>3. QED
    BY <1>1, <2>1, <2>2, ViewsAgree DEF Fresh
<1>4. CASE LeftOver
  <2>1. ASSUME NEW e \in Entries, Comes(e)
        PROVE  Once(Shown') /\ Once(Bare') /\ Fresh
    BY <1>1, <1>4, <2>1, ComesViews DEF Fresh, Comes
  <2>2. CASE UNCHANGED <<mem, stdio, file>>
    <3>1. Held' = Held /\ Shown' = Shown /\ Bare' = Bare
      BY <1>4, <2>2, StillViews DEF LeftOver
    <3>2. QED
      BY <1>1, <3>1 DEF Fresh
  <2>3. QED
    BY <1>4, <2>1, <2>2 DEF LeftOver
<1>5. QED
  BY <1>2, <1>3, <1>4, ClearingStep

-----------------------------------------------------------------------------
(* The invariant.                                                           *)

\* The invariant holds when the program starts.
LEMMA LogInit == Init => LogInv
<1> SUFFICES ASSUME Init PROVE LogInv
  OBVIOUS
<1>1. TypeOK
  BY InitType
<1>2. Phases
  BY DEF Init, Phases, Stopped, Live, Threads, Calling, Opening, Recovering
<1>3. Counts
  <2>1. sent[Ctl] = 0 /\ Due = 0 /\ opens = 0
    BY DEF Init, Due, Threads, Recovering
  <2>2. QED
    BY <2>1, BoundAssumption DEF Init, Counts, Threads
<1>4. \A p \in Spots : Held[p] = << >>
  BY DEF Init, Held, Spots, Memories
<1>5. Once(Held) /\ Everywhere(Held) = {}
  BY <1>4 DEF Once, Everywhere, Elems
<1>6. Shown = Held /\ Bare = Held
  BY ViewsAgree DEF Init, Clearing, Threads
<1>7. QED
  BY <1>1, <1>2, <1>3, <1>5, <1>6 DEF LogInv

\* Every step keeps the invariant.
LEMMA LogStep ==
  ASSUME ~ClosedSetMode, LogInv, [Next]_vars
  PROVE  LogInv'
<1>1. TypeOK' /\ Phases' /\ Counts'
  BY StepType, PhasesKept, CountsKept DEF LogInv
<1>2. Once(Shown') /\ Once(Bare') /\ Fresh
  <2>1. CASE ~Clearing /\ ~Clearing'
    <3>1. Shown = Held /\ Shown' = Held' /\ Bare' = Held' /\ Once(Held)
      BY <2>1, ViewsAgree DEF LogInv
    <3>2. Kinds
      BY <2>1, <3>1, StepKinds
    <3>3. Once(Held')
      BY <3>2 DEF Kinds, Passes, AcceptsOne, Accepts, Ends
    <3>4. Fresh
      <4>1. Everywhere(Held') \subseteq Everywhere(Held) \/ AcceptsOne
        BY <3>2 DEF Kinds, Passes, Ends, Everywhere
      <4>2. QED
        BY <4>1 DEF Fresh, AcceptsOne, Accepts
    <3>5. QED
      BY <3>1, <3>3, <3>4
  <2>2. CASE ~Clearing /\ Clearing'
    BY <2>2, EntersViews DEF Fresh
  <2>3. CASE Clearing
    BY <2>3, ClearingViews
  <2>4. QED
    BY <2>1, <2>2, <2>3
<1>3. ASSUME NEW e \in Everywhere(Held) PROVE Numbered(e)'
  <2>1. e \in Entries
    BY HeldType, PlaceInSeq DEF LogInv, Everywhere, Sequences
  <2>2. QED
    BY <1>1, <2>1, NumberedKept DEF LogInv
<1>4. ASSUME NEW e \in Everywhere(Held') PROVE Numbered(e)'
  BY <1>2, <1>3 DEF Fresh, NumberedNext, Numbered
<1>5. QED
  BY <1>1, <1>2, <1>4 DEF LogInv

\* The invariant behind what follows.
THEOREM LogInvHolds ==
  ASSUME ~ClosedSetMode
  PROVE  Spec => []LogInv
<1>1. LogInv /\ [Next]_vars => LogInv'
  BY LogStep
<1>2. QED
  BY <1>1, LogInit, PTL DEF Spec

-----------------------------------------------------------------------------
(* No entry is in two places.                                               *)

\* No entry is twice in s.
Distinct(s) ==
  \A i, j \in DOMAIN s : s[i].by = s[j].by /\ s[i].n = s[j].n => i = j
\* No entry is in s and in t.
Apart(s, t) == \A e \in Elems(s), f \in Elems(t) : ~Same(e, f)

\* Two sequences that have nothing in common, one behind the other.
LEMMA DistinctConcat ==
  ASSUME NEW s \in Seq(Entries), NEW t \in Seq(Entries),
         Distinct(s), Distinct(t), Apart(s, t)
  PROVE  Distinct(s \o t)
<1> DEFINE u == s \o t
<1>1. /\ Len(s) \in Nat /\ Len(t) \in Nat
      /\ DOMAIN s = 1..Len(s) /\ DOMAIN t = 1..Len(t)
  BY LenProperties
<1>2. /\ u \in Seq(Entries) /\ Len(u) = Len(s) + Len(t)
      /\ \A i \in 1..Len(s) + Len(t) :
           u[i] = IF i <= Len(s) THEN s[i] ELSE t[i - Len(s)]
  BY ConcatProperties
<1>3. DOMAIN u = 1..Len(s) + Len(t)
  BY <1>2, LenProperties
<1> HIDE DEF u
<1>4. ASSUME NEW i \in DOMAIN u, NEW j \in DOMAIN u, i <= Len(s), ~(j <= Len(s))
      PROVE  ~Same(u[i], u[j]) /\ ~Same(u[j], u[i])
  <2>1. i \in 1..Len(s) /\ j - Len(s) \in 1..Len(t)
    BY <1>1, <1>3, <1>4
  <2>2. u[i] = s[i] /\ u[j] = t[j - Len(s)]
    BY <1>2, <1>3, <1>4
  <2>3. u[i] \in Elems(s) /\ u[j] \in Elems(t)
    BY <2>1, <2>2, PlaceInSeq
  <2>4. QED
    BY <2>3 DEF Apart, Same
<1>5. ASSUME NEW i \in DOMAIN u, NEW j \in DOMAIN u, Same(u[i], u[j])
      PROVE  i = j
  <2>1. CASE i <= Len(s) /\ j <= Len(s)
    BY <1>1, <1>2, <1>3, <1>5, <2>1 DEF Distinct, Same
  <2>2. CASE ~(i <= Len(s)) /\ ~(j <= Len(s))
    <3>1. i - Len(s) \in 1..Len(t) /\ j - Len(s) \in 1..Len(t)
      BY <1>1, <1>3, <2>2
    <3>2. u[i] = t[i - Len(s)] /\ u[j] = t[j - Len(s)]
      BY <1>2, <1>3, <2>2
    <3>3. i - Len(s) = j - Len(s)
      BY <1>1, <1>5, <3>1, <3>2 DEF Distinct, Same
    <3>4. QED
      BY <1>1, <1>3, <3>3
  <2>3. QED
    BY <1>4, <1>5, <2>1, <2>2
<1>6. QED
  BY <1>5 DEF Distinct, Same, u

\* What is apart from two sequences is apart from both together.
LEMMA ApartConcat ==
  ASSUME NEW s \in Seq(Entries), NEW t \in Seq(Entries), NEW u,
         Apart(s, u), Apart(t, u)
  PROVE  Apart(s \o t, u)
BY ElemsConcat DEF Apart

\* What is kept in the places one by one is distinct all together.
LEMMA OnceIsOnce == TypeOK /\ Once(Shown) => AtMostOnce
<1> SUFFICES ASSUME TypeOK, Once(Shown) PROVE AtMostOnce
  OBVIOUS
<1>1. \A p \in Spots : Shown[p] \in Seq(Entries) /\ Distinct(Shown[p])
  BY ViewsType DEF Sequences, Once, Distinct, Same
<1>2. ASSUME NEW p \in Spots, NEW q \in Spots, p # q
      PROVE  Apart(Shown[p], Shown[q])
  BY <1>2 DEF Apart, Elems, Once
<1> DEFINE a == Kept("mmap")  b == Kept("heap")
<1>3. /\ a = Shown["mmap"] /\ b = Shown["heap"] /\ cTmp = Shown["cTmp"]
      /\ asyncTmp = Shown["asyncTmp"] /\ stdio = Shown["stdio"]
      /\ file = Shown["file"]
  <2>1. sg_log_buff \notin {"cTmp", "asyncTmp", "stdio", "file"}
    BY DEF TypeOK, Memories
  <2>2. QED
    BY <2>1, HeldIs DEF Shown, Clearing, Kept, Spots, Memories
<1>4. /\ a \in Seq(Entries) /\ b \in Seq(Entries) /\ cTmp \in Seq(Entries)
      /\ asyncTmp \in Seq(Entries) /\ stdio \in Seq(Entries)
      /\ file \in Seq(Entries)
      /\ Distinct(a) /\ Distinct(b) /\ Distinct(cTmp) /\ Distinct(asyncTmp)
      /\ Distinct(stdio) /\ Distinct(file)
  BY <1>1, <1>3 DEF Spots
<1>5. /\ Apart(a, b) /\ Apart(a, cTmp) /\ Apart(a, asyncTmp) /\ Apart(a, stdio)
      /\ Apart(a, file)
      /\ Apart(b, cTmp) /\ Apart(b, asyncTmp) /\ Apart(b, stdio)
      /\ Apart(b, file)
  BY <1>2, <1>3 DEF Spots
<1>6. /\ Apart(cTmp, asyncTmp) /\ Apart(cTmp, stdio) /\ Apart(cTmp, file)
      /\ Apart(asyncTmp, stdio) /\ Apart(asyncTmp, file) /\ Apart(stdio, file)
  BY <1>2, <1>3 DEF Spots
<1> HIDE DEF a, b
<1> DEFINE ab == a \o b
<1>7. /\ ab \in Seq(Entries) /\ Distinct(ab)
      /\ Apart(ab, cTmp) /\ Apart(ab, asyncTmp) /\ Apart(ab, stdio)
      /\ Apart(ab, file)
  BY <1>4, <1>5, ConcatProperties, DistinctConcat, ApartConcat
<1> HIDE DEF ab
<1> DEFINE abc == ab \o cTmp
<1>8. /\ abc \in Seq(Entries) /\ Distinct(abc)
      /\ Apart(abc, asyncTmp) /\ Apart(abc, stdio) /\ Apart(abc, file)
  BY <1>4, <1>6, <1>7, ConcatProperties, DistinctConcat, ApartConcat
<1> HIDE DEF abc
<1> DEFINE abcd == abc \o asyncTmp
<1>9. /\ abcd \in Seq(Entries) /\ Distinct(abcd)
      /\ Apart(abcd, stdio) /\ Apart(abcd, file)
  BY <1>4, <1>6, <1>8, ConcatProperties, DistinctConcat, ApartConcat
<1> HIDE DEF abcd
<1> DEFINE abcde == abcd \o stdio
<1>10. abcde \in Seq(Entries) /\ Distinct(abcde) /\ Apart(abcde, file)
  BY <1>4, <1>6, <1>9, ConcatProperties, DistinctConcat, ApartConcat
<1> HIDE DEF abcde
<1>11. Distinct(abcde \o file)
  BY <1>4, <1>10, DistinctConcat
<1>12. Everything = abcde \o file
  BY DEF Everything, a, b, ab, abc, abcd, abcde
<1>13. QED
  BY <1>11, <1>12 DEF AtMostOnce, Distinct

\* When the application calls setmode only while the appender is open, no
\* entry is in two places or twice in one, so none is written twice, whatever
\* the threads, the modes, the limits, the sessions and the crashes, and
\* however calls left over from a session meet the unlocked Flush of the next
\* open.
THEOREM WrittenAtMostOnce ==
  ASSUME ~ClosedSetMode
  PROVE  Spec => []AtMostOnce
<1>1. LogInv => AtMostOnce
  BY OnceIsOnce DEF LogInv
<1>2. QED
  BY <1>1, LogInvHolds, PTL

-----------------------------------------------------------------------------
(* The appender implements AbstractLog.                                     *)

\* What AbstractLog sees of the state: see Abstract in AppenderProps.
Key(e) == <<e.by, e.n>>
Pending == {Key(e) : e \in Elems(Kept("mmap") \o Kept("heap") \o cTmp
                                 \o asyncTmp \o stdio)}
Written == {Key(e) : e \in Elems(file)}
Life == <<crashes, sg_log_buff>>
Identities == Threads \X (0..MostCalls)

\* Of the places K: the keys of what is in those before the file.
Waiting(K) == UNION {Elems(K[p]) : p \in Spots \ {"file"}}

\* The elements of five sequences one behind the other.
LEMMA ElemsOfFive ==
  ASSUME NEW a \in Seq(Entries), NEW b \in Seq(Entries), NEW c \in Seq(Entries),
         NEW d \in Seq(Entries), NEW s \in Seq(Entries)
  PROVE  /\ a \o b \o c \o d \o s \in Seq(Entries)
         /\ Elems(a \o b \o c \o d \o s)
              = Elems(a) \union Elems(b) \union Elems(c) \union Elems(d)
                \union Elems(s)
<1>1. /\ a \o b \in Seq(Entries)
      /\ Elems(a \o b) = Elems(a) \union Elems(b)
  BY ConcatProperties, ElemsConcat
<1>2. /\ a \o b \o c \in Seq(Entries)
      /\ Elems(a \o b \o c) = Elems(a \o b) \union Elems(c)
  BY <1>1, ConcatProperties, ElemsConcat
<1>3. /\ a \o b \o c \o d \in Seq(Entries)
      /\ Elems(a \o b \o c \o d) = Elems(a \o b \o c) \union Elems(d)
  BY <1>2, ConcatProperties, ElemsConcat
<1>4. /\ a \o b \o c \o d \o s \in Seq(Entries)
      /\ Elems(a \o b \o c \o d \o s) = Elems(a \o b \o c \o d) \union Elems(s)
  BY <1>3, ConcatProperties, ElemsConcat
<1>5. QED
  BY <1>1, <1>2, <1>3, <1>4

\* What is pending is what waits in a place before the file.
LEMMA PendingIs ==
  /\ TypeOK => Pending = {Key(e) : e \in Waiting(Shown)}
  /\ TypeOK' => Pending' = {Key(e) : e \in Waiting(Shown')}
<1>1. \A K : Waiting(K) = Elems(K["mmap"]) \union Elems(K["heap"])
                          \union Elems(K["cTmp"]) \union Elems(K["asyncTmp"])
                          \union Elems(K["stdio"])
  BY DEF Waiting, Spots
<1>2. ASSUME NEW K \in Sequences
      PROVE  Waiting(K) = Elems(K["mmap"] \o K["heap"] \o K["cTmp"]
                                \o K["asyncTmp"] \o K["stdio"])
  <2>1. /\ K["mmap"] \in Seq(Entries) /\ K["heap"] \in Seq(Entries)
        /\ K["cTmp"] \in Seq(Entries) /\ K["asyncTmp"] \in Seq(Entries)
        /\ K["stdio"] \in Seq(Entries)
    BY DEF Sequences, Spots
  <2> DEFINE a == K["mmap"]
             b == K["heap"]
             c == K["cTmp"]
             d == K["asyncTmp"]
             s == K["stdio"]
  <2>2. Waiting(K) = Elems(a) \union Elems(b) \union Elems(c) \union Elems(d)
                     \union Elems(s)
    BY <1>1
  <2>3. /\ a \in Seq(Entries) /\ b \in Seq(Entries) /\ c \in Seq(Entries)
        /\ d \in Seq(Entries) /\ s \in Seq(Entries)
    BY <2>1
  <2> HIDE DEF a, b, c, d, s
  <2>4. Elems(a \o b \o c \o d \o s)
          = Elems(a) \union Elems(b) \union Elems(c) \union Elems(d)
            \union Elems(s)
    BY <2>3, ElemsOfFive
  <2>5. Waiting(K) = Elems(a \o b \o c \o d \o s)
    BY <2>2, <2>4
  <2>6. QED
    BY <2>5 DEF a, b, c, d, s
<1>3. TypeOK => /\ Shown["mmap"] = Kept("mmap") /\ Shown["heap"] = Kept("heap")
                /\ Shown["cTmp"] = cTmp /\ Shown["asyncTmp"] = asyncTmp
                /\ Shown["stdio"] = stdio
  <2>1. TypeOK => sg_log_buff \notin {"cTmp", "asyncTmp", "stdio", "file"}
    BY DEF TypeOK, Memories
  <2>2. QED
    BY <2>1, HeldIs DEF Shown, Clearing, Kept, Spots, Memories
<1>4. TypeOK' => /\ Shown'["mmap"] = Kept("mmap")' /\ Shown'["heap"] = Kept("heap")'
                 /\ Shown'["cTmp"] = cTmp' /\ Shown'["asyncTmp"] = asyncTmp'
                 /\ Shown'["stdio"] = stdio'
  <2>1. TypeOK' => sg_log_buff' \notin {"cTmp", "asyncTmp", "stdio", "file"}
    BY DEF TypeOK, Memories
  <2>2. QED
    BY <2>1, HeldIs DEF Shown, Clearing, Kept, Spots, Memories
<1>5. TypeOK => Pending = {Key(e) : e \in Waiting(Shown)}
  BY <1>2, <1>3, ViewsType DEF Pending
<1>6. TypeOK' => Pending' = {Key(e) : e \in Waiting(Shown')}
  BY <1>2, <1>4, ViewsType DEF Pending
<1>7. QED
  BY <1>5, <1>6

\* Everything is pending or written, and nothing is both.
LEMMA Parted ==
  ASSUME NEW K, Once(K)
  PROVE  /\ Everywhere(K) = Waiting(K) \union Elems(K["file"])
         /\ {Key(e) : e \in Waiting(K)}
              \intersect {Key(e) : e \in Elems(K["file"])} = {}
<1>1. Everywhere(K) = Waiting(K) \union Elems(K["file"])
  BY DEF Everywhere, Waiting, Spots
<1>2. ASSUME NEW e \in Waiting(K), NEW f \in Elems(K["file"]), Key(e) = Key(f)
      PROVE  FALSE
  <2>1. PICK p \in Spots \ {"file"} : e \in Elems(K[p])
    BY DEF Waiting
  <2>2. Same(e, f)
    BY <1>2 DEF Key, Same
  <2>3. QED
    BY <2>1, <2>2 DEF Elems, Once, Spots
<1>3. QED
  BY <1>1, <1>2

\* In terms of sets: what goes from one side to the other is persisted, what
\* comes new is accepted.
LEMMA PersistsOrAccepts ==
  ASSUME NEW P, NEW W, NEW Q, NEW V, NEW N, N \intersect (P \union W) = {},
         Q \union V = P \union W \union N, W \subseteq V, Q \intersect V = {}
  PROVE  /\ Q \subseteq P \union N
         /\ V = W \union ((P \union N) \ Q)
OBVIOUS

\* The initial states map to initial states.
LEMMA LogInitImplements == Init => Abstract!AbstractInit
<1> SUFFICES ASSUME Init PROVE Abstract!AbstractInit
  OBVIOUS
<1>1. TypeOK /\ \A p \in Spots : Held[p] = << >>
  BY InitType DEF Init, Held, Spots, Memories
<1>2. Waiting(Held) = {} /\ Elems(file) = {} /\ Shown = Held
  BY <1>1, HeldIs, ViewsAgree DEF Waiting, Elems, Spots, Init, Clearing, Threads
<1>3. Pending = {} /\ Written = {}
  BY <1>1, <1>2, PendingIs DEF Written
<1>4. Life \in Nat \X (Memories \union {"null"})
  BY DEF Init, Life
<1>5. QED
  BY <1>3, <1>4 DEF Abstract!AbstractInit, Pending, Written, Key, Life

\* The application that is quiet while it closes has no call left over when it
\* opens again: nothing comes to the buffer between the copy and the clearing.
LEMMA QuietClearing ==
  ASSUME LogInv, ~ClosedSetMode, QuietInv, [Next]_vars, Clearing
  PROVE  \/ ProcessDies /\ UNCHANGED <<file, opens>>
         \/ OpenClear
         \/ /\ Clearing'
            /\ UNCHANGED <<mem, cTmp, asyncTmp, stdio, file, sg_log_buff, crashes,
                           accepted, opens>>
<1>1. LoggersIdle
  BY DEF QuietInv, Recovering, Clearing
<1>2. QED
  BY <1>1, ClearingStep DEF LeftOver

\* So until it is cleared the buffer holds what open has copied.
Twin == Clearing => mem[sg_log_buff] = cTmp

\* It does so after every step.
LEMMA TwinStep ==
  ASSUME LogInv, ~ClosedSetMode, QuietInv, Twin, [Next]_vars
  PROVE  Twin'
<1>1. TypeOK /\ Phases /\ Ctl \in Threads /\ pc \in [Threads -> Labels]
  BY DEF LogInv, TypeOK, Threads
<1>2. SUFFICES ASSUME Clearing' PROVE mem'[sg_log_buff'] = cTmp'
  BY DEF Twin
<1>3. CASE ~Clearing
  BY <1>1, <1>2, <1>3, EntersClearing DEF Block
<1>4. CASE Clearing
  <2>1. ~ProcessDies /\ ~OpenClear
    BY <1>1, <1>2 DEF ProcessDies, OpenClear, Clearing, Goto
  <2>2. QED
    BY <1>4, <2>1, QuietClearing DEF Twin
<1>5. QED
  BY <1>3, <1>4

\* What Shown sees of a step.
Turns ==
  \/ /\ SameLife /\ Everywhere(Shown') = Everywhere(Shown)
     /\ Elems(file) \subseteq Elems(file')
  \/ /\ SameLife /\ Elems(file) \subseteq Elems(file')
     /\ \E e \in Entries : /\ Everywhere(Shown') = Everywhere(Shown) \union {e}
                           /\ \A f \in Everywhere(Shown) : ~Same(e, f)
                           /\ NumberedNext(e)
  \/ /\ <<crashes, sg_log_buff>>' # <<crashes, sg_log_buff>>
     /\ Elems(file') = Elems(file)
     /\ Waiting(Shown') \subseteq Waiting(Shown)

\* It passes entries on, accepts one, or ends a life.
LEMMA StepTurns ==
  ASSUME LogInv, ~ClosedSetMode, QuietInv, Twin, [Next]_vars
  PROVE  Turns
<1>1. /\ TypeOK /\ TypeOK' /\ Phases /\ Once(Shown) /\ Once(Bare)
      /\ Ctl \in Threads /\ crashes \in Nat
  BY StepType DEF LogInv, TypeOK, Threads
<1>2. CASE ~Clearing /\ ~Clearing'
  <2>1. Shown = Held /\ Shown' = Held' /\ Once(Held)
    BY <1>1, <1>2, ViewsAgree
  <2>2. Kinds
    BY <1>2, <2>1, StepKinds
  <2>3. CASE SameLife /\ Passes
    BY <2>1, <2>3 DEF Turns, Passes
  <2>4. CASE SameLife /\ AcceptsOne
    BY <2>1, <2>4 DEF Turns, AcceptsOne, Accepts
  <2>5. CASE Ends
    <3>1. Waiting(Held') \subseteq Waiting(Held)
      BY <2>5 DEF Ends, Waiting
    <3>2. QED
      BY <2>1, <2>5, <3>1 DEF Turns, Ends
  <2>6. QED
    BY <2>2, <2>3, <2>4, <2>5 DEF Kinds
<1>3. CASE ~Clearing /\ Clearing'
  <2>1. Everywhere(Shown') = Everywhere(Shown)
    BY <1>3, EntersViews
  <2>2. UNCHANGED <<file, crashes, sg_log_buff>>
    BY <1>1, <1>3, EntersClearing
  <2>3. QED
    BY <2>1, <2>2 DEF Turns, SameLife
<1>4. CASE Clearing
  <2>1. /\ Live /\ sg_log_buff \in Memories /\ sg_log_buff \in Spots
        /\ sg_log_buff # "cTmp" /\ "cTmp" \in Spots \ {"file"}
    BY <1>1, <1>4 DEF Phases, Recovering, Clearing, TypeOK, Live, Memories, Spots
  <2>2. CASE ProcessDies /\ UNCHANGED file
    <3>1. /\ Shown' = Held'
          /\ \A p \in Spots : Elems(Held'[p]) \subseteq Elems(Bare[p])
      BY <1>1, <1>4, <2>2, DiesViews, ViewsAgree
    <3>2. ASSUME NEW p \in Spots \ {"file"}
          PROVE  Elems(Bare[p]) \subseteq Waiting(Shown)
      <4>1. CASE p = "cTmp"
        BY <1>4, <4>1, ViewsDiffer DEF Elems
      <4>2. CASE p = sg_log_buff
        <5>1. Bare[p] = cTmp /\ Shown["cTmp"] = cTmp
          BY <1>4, <2>1, <4>2, ViewsDiffer, HeldIs DEF Twin
        <5>2. QED
          BY <2>1, <5>1 DEF Waiting
      <4>3. CASE p \notin {"cTmp", sg_log_buff}
        <5>1. Bare[p] = Shown[p]
          BY <1>4, <4>3, ViewsDiffer
        <5>2. QED
          BY <5>1 DEF Waiting
      <4>4. QED
        BY <4>1, <4>2, <4>3
    <3>3. Waiting(Shown') \subseteq Waiting(Shown)
      BY <3>1, <3>2 DEF Waiting
    <3>4. crashes' # crashes
      BY <1>1, <2>2 DEF ProcessDies
    <3>5. QED
      BY <2>2, <3>3, <3>4 DEF Turns
  <2>3. CASE OpenClear
    <3>1. Shown' = Shown
      BY <1>1, <1>4, <2>1, <2>3, ClearViews
    <3>2. UNCHANGED <<file, crashes, sg_log_buff>>
      BY <2>3 DEF OpenClear, boundVars
    <3>3. QED
      BY <3>1, <3>2 DEF Turns, SameLife
  <2>4. CASE /\ Clearing'
             /\ UNCHANGED <<mem, cTmp, asyncTmp, stdio, file, sg_log_buff, crashes>>
    <3>1. Shown' = Shown
      BY <1>4, <2>4, StillViews
    <3>2. QED
      BY <2>4, <3>1 DEF Turns, SameLife
  <2>5. QED
    BY <1>4, <2>2, <2>3, <2>4, QuietClearing
<1>5. QED
  BY <1>2, <1>3, <1>4

\* Every step maps to a step of AbstractLog or to none.
LEMMA StepImplements ==
  ASSUME LogInv, ~ClosedSetMode, QuietInv, Twin, [Next]_vars
  PROVE  [Abstract!AbstractNext]_<<Pending, Written, Life>>
<1>0. /\ TypeOK /\ TypeOK' /\ Counts' /\ Once(Shown) /\ Once(Shown')
      /\ LogInv'
  BY LogStep DEF LogInv
<1> DEFINE P == {Key(e) : e \in Waiting(Shown)}
           Q == {Key(e) : e \in Waiting(Shown')}
           W == {Key(e) : e \in Elems(file)}
           V == {Key(e) : e \in Elems(file')}
<1>1. Pending = P /\ Pending' = Q /\ Written = W /\ Written' = V
  BY <1>0, PendingIs DEF Written
<1>2. /\ {Key(e) : e \in Everywhere(Shown)} = P \union W
      /\ {Key(e) : e \in Everywhere(Shown')} = Q \union V
      /\ Q \intersect V = {}
  <2>1. Shown["file"] = file /\ Shown'["file"] = file'
    <3>1. TypeOK => sg_log_buff # "file"
      BY DEF TypeOK, Memories
    <3>2. TypeOK' => sg_log_buff' # "file"
      BY DEF TypeOK, Memories
    <3>3. QED
      BY <1>0, <3>1, <3>2, HeldIs DEF Shown, Spots
  <2>2. /\ Everywhere(Shown) = Waiting(Shown) \union Elems(file)
        /\ Everywhere(Shown') = Waiting(Shown') \union Elems(file')
        /\ Q \intersect V = {}
    BY <1>0, <2>1, Parted
  <2>3. QED
    BY <2>2
<1>3. CASE /\ SameLife /\ Everywhere(Shown') = Everywhere(Shown)
           /\ Elems(file) \subseteq Elems(file')
  <2>1. Q \union V = P \union W /\ W \subseteq V
    BY <1>2, <1>3
  <2> HIDE DEF P, Q, W, V
  <2>2. Q \subseteq P /\ V = W \union (P \ Q)
    BY <1>2, <2>1
  <2>3. Life' = Life
    BY <1>3 DEF SameLife, Life
  <2>4. Abstract!Persist
    BY <1>1, <2>2, <2>3 DEF Abstract!Persist, Pending, Written, Life, Key
  <2>5. QED
    BY <2>4 DEF Abstract!AbstractNext
<1>4. ASSUME SameLife, Elems(file) \subseteq Elems(file'), NEW e \in Entries,
             Everywhere(Shown') = Everywhere(Shown) \union {e},
             \A f \in Everywhere(Shown) : ~Same(e, f), NumberedNext(e)
      PROVE  [Abstract!AbstractNext]_<<Pending, Written, Life>>
  <2>2. /\ Q \union V = P \union W \union {Key(e)} /\ W \subseteq V
    BY <1>2, <1>4
  <2>3. Key(e) \notin P \union W
    BY <1>2, <1>4 DEF Same, Key
  <2>4. Key(e) \in Identities
    <3>1. e.by \in Threads /\ e.n \in Nat
      BY DEF Entries
    <3>2. sent' \in [Threads -> Nat] /\ opens' \in Nat /\ Due' \in Nat
      BY <1>0 DEF TypeOK, Due
    <3>3. sent'[e.by] <= MostCalls
      <4>1. CASE e.by = Ctl
        BY <1>0, <3>2, <4>1, BoundAssumption DEF Counts, MostCalls, Threads
      <4>2. CASE e.by \in Loggers
        BY <1>0, <3>1, <3>2, <4>2, BoundAssumption DEF Counts, MostCalls
      <4>3. QED
        BY <3>1, <4>1, <4>2 DEF Threads
    <3>4. e.n \in 0..MostCalls
      BY <1>4, <3>1, <3>2, <3>3, BoundAssumption DEF NumberedNext, MostCalls
    <3>5. QED
      BY <3>1, <3>4 DEF Identities, Key
  <2> HIDE DEF P, Q, W, V
  <2>5. Q \subseteq P \union {Key(e)} /\ V = W \union ((P \union {Key(e)}) \ Q)
    BY <1>2, <2>2, <2>3
  <2>6. Life' = Life
    BY <1>4 DEF SameLife, Life
  <2>7. Abstract!Accept(Key(e))
    BY <1>1, <2>3, <2>5, <2>6 DEF Abstract!Accept, Pending, Written, Life, Key
  <2>8. QED
    BY <2>4, <2>7 DEF Abstract!AbstractNext, Identities
<1>5. CASE /\ <<crashes, sg_log_buff>>' # <<crashes, sg_log_buff>>
           /\ Elems(file') = Elems(file)
           /\ Waiting(Shown') \subseteq Waiting(Shown)
  <2>1. Life' # Life
    BY <1>5 DEF Life
  <2>2. Life' \in Nat \X (Memories \union {"null"})
    BY <1>0 DEF Life, TypeOK
  <2>3. Q \subseteq P /\ V = W
    BY <1>5
  <2> HIDE DEF P, Q, W, V
  <2>4. Abstract!Turn
    BY <1>1, <2>1, <2>2, <2>3 DEF Abstract!Turn, Pending, Written, Life, Key
  <2>5. QED
    BY <2>4 DEF Abstract!AbstractNext
<1>6. QED
  BY <1>3, <1>4, <1>5, StepTurns DEF Turns

\* Every behaviour of the appender is one that AbstractLog allows, when the
\* application is quiet while it closes and calls setmode only while the
\* appender is open: entries are accepted once, persist once, and are dropped
\* only when the process or the buffer comes to its end.
THEOREM ImplementsLog ==
  ASSUME QuietClose, ~ClosedSetMode
  PROVE  Spec => Implements
<1>1. Init => LogInv /\ QuietInv /\ Twin
  BY LogInit, QuietInit DEF Init, Twin, Clearing, Threads
<1>2. LogInv /\ QuietInv /\ Twin /\ [Next]_vars => LogInv' /\ QuietInv' /\ Twin'
  BY LogStep, QuietStep, TwinStep DEF LogInv
<1>3. Init => Abstract!AbstractInit
  BY LogInitImplements
<1>4. LogInv /\ QuietInv /\ Twin /\ [Next]_vars
        => [Abstract!AbstractNext]_(Abstract!abstractVars)
  BY StepImplements DEF Abstract!abstractVars, Pending, Written, Life, Key
<1>5. QED
  BY <1>1, <1>2, <1>3, <1>4, PTL DEF Spec, Implements, Abstract!AbstractSpec
-----------------------------------------------------------------------------
(* The order of the file.                                                   *)

\* An application that asks only for Async mode, whose buffer is always
\* mapped, that is quiet while it closes, calls setmode only while the appender
\* is open, and never calls flush_sync.
Plain ==
  /\ Modes = {"Async"} /\ MmapOutcomes = {TRUE} /\ QuietClose
  /\ ~ClosedSetMode /\ MaxFlushSync = 0

\* What the mapped buffer will give to whoever takes its block.
Buffered == Kept("mmap")

\* Open looks at the buffer it has attached.
Looking == {"recover", "measure", "copy"}

\* Nothing in s was logged before something of the same thread in t that is
\* behind it.
Behind(s, t) ==
  \A e \in Elems(s), f \in Elems(t) : Lines(e) /\ Lines(f) => ~Earlier(f, e)

\* What one thread logged in one process is in s in the order it was logged.
Sorted(s) ==
  \A i, j \in DOMAIN s : Lines(s[i]) /\ Lines(s[j]) /\ Earlier(s[i], s[j]) => i < j

\* The entries of s are of earlier processes, or all of this one.
Old(s) == \A e \in Elems(s) : e.run < crashes
New(s) == \A e \in Elems(s) : e.run = crashes

\* The file, the block of the background thread and the buffer are in order,
\* one behind the other; so are the file and the recovered block.
Lined(f, c, a, m) ==
  /\ Sorted(f) /\ Sorted(c) /\ Sorted(a) /\ Sorted(m)
  /\ Behind(f, c) /\ Behind(f, a) /\ Behind(f, m) /\ Behind(a, m)

\* The recovered block is of earlier processes and the rest of this one, so
\* it does not matter which is written first; what the buffer holds when it
\* is attached is all of earlier processes.
Runs ==
  /\ stdio = << >>
  /\ sg_log_buff # "heap"
  /\ \A e \in Elems(Buffered) \union Elems(asyncTmp) : e.run <= crashes
  /\ Old(cTmp)
  /\ cTmp # << >> => New(asyncTmp) /\ New(Buffered)
  /\ ~Live \/ pc[Ctl] \in Looking => Old(Buffered)
  /\ ~Live => asyncTmp = << >>

\* In the first session of the first process a line the appender took is on
\* its way or in the file, until close throws the buffer away.
Unbroken ==
  /\ opens = 0 => accepted = {} /\ ~Live
  /\ opens <= 1 /\ crashes = 0 /\ Live =>
       \A e \in accepted : Lines(e) =>
         e \in Elems(file) \union Elems(asyncTmp) \union Elems(Buffered)
  /\ ~Live => NoHole

\* The inductive invariant; Unbroken is one together with it.
OrderInv ==
  /\ LogInv /\ AsyncInv /\ QuietInv /\ Twin
  /\ Runs
  /\ Lined(file, cTmp, asyncTmp, Buffered)
-----------------------------------------------------------------------------
(* Sequences one behind the other.                                          *)

\* An empty sequence has no elements, a sequence of one has one.
LEMMA ElemsOfFew ==
  /\ Elems(<< >>) = {}
  /\ \A e : Elems(<<e>>) = {e}
  /\ Sorted(<< >>)
  /\ \A s : Behind(s, << >>) /\ Behind(<< >>, s)
BY DEF Elems, Sorted, Behind

\* What is empty and what is behind it.
LEMMA EmptyConcat ==
  ASSUME NEW s \in Seq(Entries)
  PROVE  s \o << >> = s /\ << >> \o s = s
BY ConcatEmptySeq

\* One element more.
LEMMA ElemsOfMore ==
  ASSUME NEW s \in Seq(Entries), NEW e \in Entries
  PROVE  Elems(s \o <<e>>) = Elems(s) \union {e}
<1>1. <<e>> \in Seq(Entries) /\ Elems(<<e>>) = {e}
  BY ElemsOfFew
<1> DEFINE t == <<e>>
<1> HIDE DEF t
<1>2. t \in Seq(Entries) /\ Elems(t) = {e}
  BY <1>1 DEF t
<1>3. Elems(s \o t) = Elems(s) \union {e}
  BY <1>2, ElemsConcat
<1>4. QED
  BY <1>3 DEF t

\* Two sorted sequences, one behind the other.
LEMMA SortedConcat ==
  ASSUME NEW s \in Seq(Entries), NEW t \in Seq(Entries),
         Sorted(s), Sorted(t), Behind(s, t)
  PROVE  Sorted(s \o t)
<1> DEFINE u == s \o t
<1>1. /\ Len(s) \in Nat /\ Len(t) \in Nat
      /\ DOMAIN s = 1..Len(s) /\ DOMAIN t = 1..Len(t)
  BY LenProperties
<1>2. /\ u \in Seq(Entries) /\ Len(u) = Len(s) + Len(t)
      /\ \A i \in 1..Len(s) + Len(t) :
           u[i] = IF i <= Len(s) THEN s[i] ELSE t[i - Len(s)]
  BY ConcatProperties
<1>3. DOMAIN u = 1..Len(s) + Len(t)
  BY <1>2, LenProperties
<1> HIDE DEF u
<1>4. ASSUME NEW i \in DOMAIN u, NEW j \in DOMAIN u,
             Lines(u[i]), Lines(u[j]), Earlier(u[i], u[j])
      PROVE  i < j
  <2>1. CASE i <= Len(s) /\ j <= Len(s)
    <3>1. i \in DOMAIN s /\ j \in DOMAIN s /\ u[i] = s[i] /\ u[j] = s[j]
      BY <1>1, <1>2, <1>3, <2>1
    <3>2. QED
      BY <1>4, <3>1 DEF Sorted
  <2>2. CASE ~(i <= Len(s)) /\ ~(j <= Len(s))
    <3>1. /\ i - Len(s) \in DOMAIN t /\ j - Len(s) \in DOMAIN t
          /\ u[i] = t[i - Len(s)] /\ u[j] = t[j - Len(s)]
      BY <1>1, <1>2, <1>3, <2>2
    <3>2. i - Len(s) < j - Len(s)
      BY <1>4, <3>1 DEF Sorted
    <3>3. QED
      BY <1>1, <1>3, <3>2
  <2>3. CASE i <= Len(s) /\ ~(j <= Len(s))
    BY <1>1, <1>3, <2>3
  <2>4. CASE ~(i <= Len(s)) /\ j <= Len(s)
    <3>1. /\ i - Len(s) \in 1..Len(t) /\ j \in 1..Len(s)
          /\ u[i] = t[i - Len(s)] /\ u[j] = s[j]
      BY <1>1, <1>2, <1>3, <2>4
    <3>2. u[i] \in Elems(t) /\ u[j] \in Elems(s)
      BY <3>1, PlaceInSeq
    <3>3. QED
      BY <1>4, <3>2 DEF Behind
  <2>5. QED
    BY <2>1, <2>2, <2>3, <2>4
<1>5. QED
  BY <1>4 DEF Sorted, u

\* What is behind, or before, both parts of a sequence is so of the whole.
LEMMA BehindConcat ==
  ASSUME NEW s \in Seq(Entries), NEW t \in Seq(Entries), NEW u \in Seq(Entries)
  PROVE  /\ Behind(s, u) /\ Behind(t, u) => Behind(s \o t, u)
         /\ Behind(u, s) /\ Behind(u, t) => Behind(u, s \o t)
BY ElemsConcat DEF Behind

\* Entries of earlier processes and entries of this one have no order.
LEMMA RunsApart ==
  ASSUME NEW s, NEW t, Old(s), New(t), crashes \in Nat
  PROVE  Behind(s, t) /\ Behind(t, s)
<1>1. ASSUME NEW e \in Elems(s), NEW f \in Elems(t)
      PROVE  ~Earlier(e, f) /\ ~Earlier(f, e)
  <2>1. e.run < crashes /\ f.run = crashes
    BY DEF Old, New
  <2>2. e.run # f.run
    BY <2>1
  <2>3. QED
    BY <2>2 DEF Earlier
<1>2. QED
  BY <1>1 DEF Behind

\* In Async mode __log2file writes everything.
LEMMA AsyncLog2File ==
  ASSUME TypeOK, sg_mode = "Async", stdio = << >>,
         NEW es \in Seq(Entries), Log2File(es)
  PROVE  file' = file \o es /\ stdio' = << >>
<1>1. file \in Seq(Entries)
  BY DEF TypeOK
<1>2. file \o << >> = file
  BY <1>1, EmptyConcat
<1>3. QED
  BY <1>2 DEF Log2File

\* The places stay lined up when some but the file are emptied,
LEMMA LinedEmptied ==
  ASSUME NEW f, NEW c, NEW a, NEW m, Lined(f, c, a, m),
         NEW d \in {c, << >>}, NEW b \in {a, << >>}, NEW n \in {m, << >>}
  PROVE  Lined(f, d, b, n)
BY ElemsOfFew DEF Lined

\* when a block goes to the file past another it has no order with,
LEMMA LinedWritten ==
  ASSUME NEW f \in Seq(Entries), NEW c \in Seq(Entries), NEW a \in Seq(Entries),
         NEW m \in Seq(Entries), Lined(f, c, a, m)
  PROVE  /\ Behind(c, a) /\ Behind(c, m) => Lined(f \o c, << >>, a, m)
         /\ Behind(a, c) => Lined(f \o a, c, << >>, m)
<1>1. ASSUME Behind(c, a), Behind(c, m)
      PROVE  Lined(f \o c, << >>, a, m)
  BY <1>1, SortedConcat, BehindConcat, ElemsOfFew DEF Lined
<1>2. ASSUME Behind(a, c)
      PROVE  Lined(f \o a, c, << >>, m)
  BY <1>2, SortedConcat, BehindConcat, ElemsOfFew DEF Lined
<1>3. QED
  BY <1>1, <1>2

\* when the buffer's content takes the place of a block, or a crash leaves
\* nothing but the block that is being recovered,
LEMMA LinedTaken ==
  ASSUME NEW f, NEW c, NEW a, NEW m, Lined(f, c, a, m)
  PROVE  /\ Lined(f, m, a, << >>)
         /\ Lined(f, c, m, << >>)
         /\ Lined(f, << >>, << >>, c)
BY ElemsOfFew DEF Lined

\* and when the buffer takes a last entry, or the file one that is no line.
LEMMA LinedAdded ==
  ASSUME NEW f \in Seq(Entries), NEW c \in Seq(Entries), NEW a \in Seq(Entries),
         NEW m \in Seq(Entries), NEW e \in Entries, Lined(f, c, a, m)
  PROVE  /\ (\A x \in Elems(f) \union Elems(a) \union Elems(m) : ~Earlier(e, x))
              => Lined(f, c, a, m \o <<e>>)
         /\ ~Lines(e) => Lined(f \o <<e>>, c, a, m)
<1>1. <<e>> \in Seq(Entries) /\ Elems(<<e>>) = {e}
  BY ElemsOfFew
<1>2. Sorted(<<e>>)
  <2>1. DOMAIN <<e>> = {1}
    OBVIOUS
  <2>2. \A i, j \in {1} : Lines(<<e>>[i]) => ~Earlier(<<e>>[i], <<e>>[j])
    BY DEF Earlier, Entries
  <2>3. QED
    BY <2>1, <2>2 DEF Sorted
<1> DEFINE s == <<e>>
<1>3. s \in Seq(Entries) /\ Elems(s) = {e} /\ Sorted(s)
  BY <1>1, <1>2
<1> HIDE DEF s
<1>4. ASSUME \A x \in Elems(f) \union Elems(a) \union Elems(m) : ~Earlier(e, x)
      PROVE  Lined(f, c, a, m \o s)
  <2>1. Behind(f, s) /\ Behind(a, s) /\ Behind(m, s)
    BY <1>3, <1>4 DEF Behind
  <2>2. QED
    BY <1>3, <2>1, SortedConcat, BehindConcat DEF Lined
<1>5. ASSUME ~Lines(e)
      PROVE  Lined(f \o s, c, a, m)
  <2>1. \A x \in Seq(Entries) : Behind(x, s) /\ Behind(s, x)
    BY <1>3, <1>5 DEF Behind
  <2>2. QED
    BY <1>3, <2>1, SortedConcat, BehindConcat DEF Lined
<1>6. QED
  BY <1>4, <1>5 DEF s
-----------------------------------------------------------------------------
(* The invariant of the order.                                              *)

\* An entry made now is of this process.
LEMMA MadeNow ==
  \A t, kind : MakeEntry(t, kind).run = crashes
BY DEF MakeEntry

\* The entry a thread makes for the call it is in is behind all of its own.
LEMMA MadeIsLast ==
  ASSUME LogInv, NEW t \in Threads, NEW kind \in {"log", "warn", "tip"},
         NEW x \in Everywhere(Held)
  PROVE  ~Earlier(MakeEntry(t, kind), x)
<1>1. MakeEntry(t, kind).by = t /\ MakeEntry(t, kind).n = sent[t]
  BY DEF MakeEntry
<1>2. x.n <= sent[x.by]
  BY DEF LogInv, Numbered
<1>3. sent \in [Threads -> Nat]
  BY DEF LogInv, TypeOK
<1>4. x \in Entries
  BY HeldType, PlaceInSeq DEF LogInv, Everywhere, Sequences
<1>5. x.by \in Threads /\ x.n \in Nat
  BY <1>4 DEF Entries
<1>6. QED
  BY <1>1, <1>2, <1>3, <1>5 DEF Earlier

\* The steps a plain application takes in kflogger_appender: none in Sync
\* mode, and into the buffer only while it is attached, mapped, and not just
\* being recovered.
LEMMA PlainCall ==
  ASSUME Plain, LogInv, AsyncInv, QuietInv, Runs,
         NEW t \in Threads, AppenderStep(t)
  PROVE  /\ Live /\ sg_log_buff = "mmap"
         /\ pc[Ctl] \notin Recovering /\ pc'[Ctl] \notin Recovering
         /\ UNCHANGED <<sg_log_buff, crashes, opens, cTmp, asyncTmp, stdio, file>>
         /\ \/ UNCHANGED <<mem, accepted>>
            \/ \E e \in Entries :
                 /\ e.run = crashes
                 /\ \A x \in Everywhere(Held) : ~Earlier(e, x)
                 /\ mem' = [mem EXCEPT !["mmap"] = @ \o <<e>>]
                 /\ accepted' = accepted \union {e}
<1> USE DEF bufVars, boundVars
<1>1. /\ TypeOK /\ pc[t] \in Calling /\ Ctl \in Threads
      /\ pc \in [Threads -> Labels] /\ ~SyncFormat(t) /\ ~SyncWrite(t)
      /\ cret \in {"idle", "closed"}
  BY CallStep DEF LogInv, TypeOK, Threads, AsyncInv, SyncFormat, SyncWrite
<1>2. ~sg_log_close /\ pc[Ctl] \notin Recovering
  BY <1>1 DEF QuietInv, LoggersIdle, Calling, Threads
<1>3. Live /\ sg_log_buff = "mmap"
  BY <1>1, <1>2 DEF QuietInv, Runs, Live, TypeOK, Memories
<1>4. pc'[Ctl] \notin Recovering
  BY <1>1, <1>2 DEF AppenderStep, ReadMode, AppendDropped, Append2Buffer,
                    ReturnFrom, Goto, AsyncInv, Recovering
<1>5. CASE ReadMode(t) \/ AppendDropped(t)
  BY <1>2, <1>3, <1>4, <1>5 DEF ReadMode, AppendDropped
<1>6. ASSUME NEW fatal, Append2Buffer(t, fatal)
      PROVE  \E e \in Entries :
                 /\ e.run = crashes
                 /\ \A x \in Everywhere(Held) : ~Earlier(e, x)
                 /\ mem' = [mem EXCEPT !["mmap"] = @ \o <<e>>]
                 /\ accepted' = accepted \union {e}
  <2> DEFINE kind == IF Len(Block) >= HighWater THEN "warn" ELSE "log"
             e == MakeEntry(t, kind)
  <2>1. e \in Entries /\ e.run = crashes
    BY <1>1, MadeIsNew, MadeNow
  <2>2. \A x \in Everywhere(Held) : ~Earlier(e, x)
    BY MadeIsLast
  <2>3. /\ mem' = [mem EXCEPT !["mmap"] = Append(@, e)]
        /\ accepted' = accepted \union {e}
    BY <1>3, <1>6 DEF Append2Buffer
  <2> HIDE DEF e
  <2>4. mem["mmap"] \in Seq(Entries)
    BY <1>1 DEF TypeOK, Memories
  <2>5. Append(mem["mmap"], e) = mem["mmap"] \o <<e>>
    BY <2>1, <2>4, AppendIsConcat
  <2>6. QED
    BY <2>1, <2>2, <2>3, <2>5
<1>7. QED
  <2>1. CASE \E fatal \in {FALSE} \union {t # Ctl} : Append2Buffer(t, fatal)
    BY <1>2, <1>3, <1>4, <1>6, <2>1 DEF Append2Buffer
  <2>2. QED
    BY <1>1, <1>5, <2>1 DEF AppenderStep

\* What Ctl does in a plain application, place by place.
LEMMA PlainTip ==
  ASSUME TypeOK, AsyncInv, Live, stdio = << >>, NEW next, WriteTip(next)
  PROVE  /\ stdio' = << >> /\ pc'[Ctl] = next
         /\ UNCHANGED <<mem, cTmp, asyncTmp, crashes, sg_log_buff>>
         /\ \E e \in Entries : /\ ~Lines(e) /\ file' = file \o <<e>>
                               /\ accepted' = accepted \union {e}
<1> DEFINE e == [MakeEntry(Ctl, "tip") EXCEPT !.n = @ + 1]
<1>1. MakeEntry(Ctl, "tip") \in Entries /\ pc \in [Threads -> Labels]
      /\ Ctl \in Threads
  BY MakeEntryType DEF Threads, TypeOK
<1>2. e \in Entries /\ e.kind = "tip"
  BY <1>1 DEF Entries, MakeEntry
<1>3. /\ Log2File(<<e>>) /\ accepted' = accepted \union {e}
      /\ pc'[Ctl] = next
      /\ UNCHANGED <<mem, cTmp, asyncTmp, crashes, sg_log_buff>>
  BY <1>1, TipStep DEF Goto
<1> HIDE DEF e
<1>4. <<e>> \in Seq(Entries)
  BY <1>2
<1>5. file' = file \o <<e>> /\ stdio' = << >>
  BY <1>3, <1>4, AsyncLog2File DEF AsyncInv
<1>6. QED
  BY <1>2, <1>3, <1>5 DEF Lines

\* What the buffer will give, before and after a step.
LEMMA BufferedIs ==
  /\ TypeOK => Buffered \in Seq(Entries)
  /\ ~Clearing => Buffered = mem["mmap"]
  /\ ~Clearing' => Buffered' = mem'["mmap"]
<1>1. TypeOK => Buffered \in Seq(Entries)
  BY EmptySeq DEF TypeOK, Buffered, Kept, Memories
<1>2. QED
  BY <1>1 DEF Clearing, Buffered, Kept

\* What a step is to the places as open comes to the clearing of the buffer,
\* and until it is cleared.
LEMMA PlainClearing ==
  ASSUME Plain, LogInv, QuietInv, Twin, Runs, [Next]_vars, Clearing \/ Clearing'
  PROVE  /\ Live /\ UNCHANGED <<file, opens>>
         /\ \/ /\ pc[Ctl] \in Looking /\ cTmp = << >>
               /\ cTmp' = Buffered /\ Buffered' = << >> /\ pc'[Ctl] = "clear"
               /\ UNCHANGED <<asyncTmp, stdio, crashes, sg_log_buff, accepted>>
            \/ ProcessDies /\ Buffered' = cTmp
            \/ /\ pc'[Ctl] \in {"clear", "unclose"}
               /\ UNCHANGED <<Buffered, cTmp, asyncTmp, stdio, crashes,
                              sg_log_buff, accepted>>
<1> USE DEF Clearing, bufVars, procVars, boundVars
<1>1. /\ TypeOK /\ Phases /\ Ctl \in Threads /\ pc \in [Threads -> Labels]
      /\ mem \in [Memories -> Seq(Entries)]
      /\ "mmap" \in Memories /\ sg_log_buff \in {"mmap", "null"} /\ ~ClosedSetMode
  BY DEF LogInv, TypeOK, Threads, Memories, Runs, Plain
<1>2. CASE ~Clearing
  <2>1. /\ Live /\ cTmp = << >> /\ cTmp' = Block /\ pc[Ctl] \in Looking
        /\ UNCHANGED <<asyncTmp, stdio, file, crashes, sg_log_buff, accepted, opens>>
    BY <1>1, <1>2, EntersClearing DEF Looking
  <2>2. sg_log_buff = "mmap"
    BY <1>1, <2>1 DEF Live
  <2>3. Block = Buffered /\ Buffered' = << >>
    BY <1>2, <2>1, <2>2, BufferedIs DEF Block, Live, Buffered, Kept
  <2>4. QED
    BY <1>2, <2>1, <2>3
<1>3. CASE Clearing
  <2>1. /\ Live /\ sg_log_buff = "mmap" /\ mem["mmap"] = cTmp /\ Buffered = << >>
    BY <1>1, <1>3 DEF Phases, Recovering, Live, Twin, Buffered, Kept
  <2>2. CASE ProcessDies /\ UNCHANGED <<file, opens>>
    <3>1. mem'["mmap"] = mem["mmap"] /\ ~Clearing'
      BY <1>1, <2>2 DEF ProcessDies
    <3>2. QED
      BY <2>1, <2>2, <3>1, BufferedIs
  <2>3. CASE OpenClear
    <3>1. mem'["mmap"] = << >> /\ pc'[Ctl] = "unclose"
      BY <1>1, <2>1, <2>3 DEF OpenClear, Goto
    <3>2. QED
      BY <2>1, <2>3, <3>1, BufferedIs DEF OpenClear
  <2>4. CASE /\ Clearing'
             /\ UNCHANGED <<mem, cTmp, asyncTmp, stdio, file, sg_log_buff, crashes,
                            accepted, opens>>
    <3>1. Buffered' = Buffered
      BY <1>3, <2>4 DEF Buffered, Kept
    <3>2. QED
      BY <2>1, <2>4, <3>1
  <2>5. \/ ProcessDies /\ UNCHANGED <<file, opens>>
        \/ OpenClear
        \/ /\ Clearing'
           /\ UNCHANGED <<mem, cTmp, asyncTmp, stdio, file, sg_log_buff, crashes,
                          accepted, opens>>
    BY <1>1, <1>3, QuietClearing
  <2>6. QED
    BY <2>1, <2>2, <2>3, <2>4, <2>5
<1>4. QED
  BY <1>2, <1>3

\* They leave the processes of the entries apart.
LEMMA RunsCleared ==
  ASSUME Plain, LogInv, QuietInv, Twin, Runs, [Next]_vars, Clearing \/ Clearing'
  PROVE  Runs'
<1> USE DEF Runs
<1>1. /\ TypeOK /\ crashes \in Nat /\ Elems(<< >>) = {} /\ cTmp \in Seq(Entries)
      /\ "clear" \notin Looking /\ "unclose" \notin Looking /\ "idle" \notin Looking
      /\ pc[Ctl] \in Looking => asyncTmp = << >>
  BY ElemsOfFew DEF LogInv, TypeOK, Looking, Phases, Stopped, Recovering, Plain
<1>2. CASE /\ pc[Ctl] \in Looking /\ cTmp = << >>
           /\ cTmp' = Buffered /\ Buffered' = << >> /\ pc'[Ctl] = "clear"
           /\ UNCHANGED <<asyncTmp, stdio, crashes, sg_log_buff>>
  BY <1>1, <1>2, PlainClearing DEF Live, Old, New
<1>3. CASE ProcessDies /\ Buffered' = cTmp
  <2>1. /\ crashes' = crashes + 1 /\ ~Live' /\ cTmp' = << >> /\ asyncTmp' = << >>
        /\ stdio' = << >> /\ sg_log_buff' = "null"
    BY <1>3 DEF ProcessDies, Live
  <2>2. Elems(cTmp) \subseteq Entries
    BY <1>1, PlaceInSeq
  <2>3. \A e \in Elems(cTmp) : e.run \in Nat
    BY <2>2 DEF Entries
  <2>4. QED
    BY <1>1, <1>3, <2>1, <2>3 DEF Old, New
<1>4. CASE /\ pc'[Ctl] \in {"clear", "unclose"}
           /\ UNCHANGED <<Buffered, cTmp, asyncTmp, stdio, crashes, sg_log_buff>>
  BY <1>1, <1>4 DEF Live, Old, New
<1>5. QED
  BY <1>2, <1>3, <1>4, PlainClearing

\* So does every other step of a plain application.
LEMMA RunsKept ==
  ASSUME Plain, LogInv, AsyncInv, QuietInv, Runs, TypeOK', [Next]_vars,
         ~Clearing, ~Clearing'
  PROVE  Runs'
<1> USE DEF Runs, bufVars, procVars, boundVars
<1>0. /\ Buffered = mem["mmap"] /\ Buffered' = mem'["mmap"]
      /\ Looking \subseteq Recovering /\ "idle" \notin Looking
      /\ pc[Ctl] \in Looking \union {"free"} => asyncTmp = << >>
      /\ (~sg_log_close => Live)
      /\ TypeOK /\ Phases /\ Ctl \in Threads /\ crashes \in Nat
      /\ pc \in [Threads -> Labels] /\ mem \in [Memories -> Seq(Entries)]
      /\ "mmap" \in Memories /\ "heap" \in Memories
      /\ sg_log_buff \in Memories \union {"null"} /\ Elems(<< >>) = {}
      /\ asyncPc = "ended" => asyncTmp = << >>
  BY ElemsOfFew, BufferedIs
     DEF LogInv, Phases, TypeOK, Threads, Memories, Looking, Recovering, Stopped,
         Plain
<1> USE <1>0
<1>1. CASE Crash
  <2>1. /\ crashes' = crashes + 1 /\ ~Live' /\ pc'[Ctl] = "idle"
        /\ cTmp' = << >> /\ asyncTmp' = << >> /\ stdio' = << >>
        /\ mem'["mmap"] = mem["mmap"] /\ sg_log_buff' = "null"
    BY <1>1 DEF Crash, ProcessDies, Live, Memories
  <2>2. \A e \in Elems(mem["mmap"]) : e.run \in Nat
    <3>1. mem["mmap"] \in Seq(Entries)
      OBVIOUS
    <3>2. Elems(mem["mmap"]) \subseteq Entries
      BY <3>1, PlaceInSeq
    <3>3. QED
      BY <3>2 DEF Entries
  <2>3. QED
    BY <2>1, <2>2 DEF Old, New
<1>2. ASSUME NEW l \in Loggers, CallAppender(l) PROVE Runs'
  BY <1>2, ThreadAssumption DEF CallAppender, Goto, Live, Old, New
<1>3. ASSUME NEW t \in Threads, AppenderStep(t) PROVE Runs'
  <2>1. /\ Live /\ sg_log_buff = "mmap"
        /\ pc'[Ctl] \notin Recovering
        /\ UNCHANGED <<sg_log_buff, crashes, cTmp, asyncTmp, stdio>>
        /\ \/ UNCHANGED mem
           \/ \E e \in Entries : /\ e.run = crashes
                                 /\ mem' = [mem EXCEPT !["mmap"] = @ \o <<e>>]
    BY <1>3, PlainCall
  <2>2. ASSUME NEW e \in Entries, mem' = [mem EXCEPT !["mmap"] = @ \o <<e>>]
        PROVE  Elems(mem'["mmap"]) = Elems(mem["mmap"]) \union {e}
    <3>1. mem["mmap"] \in Seq(Entries) /\ mem'["mmap"] = mem["mmap"] \o <<e>>
      BY <2>2
    <3>2. QED
      BY <3>1, ElemsOfMore
  <2>3. CASE UNCHANGED mem
    BY <2>1, <2>3 DEF Live, Old, New
  <2>4. ASSUME NEW e \in Entries, e.run = crashes,
               mem' = [mem EXCEPT !["mmap"] = @ \o <<e>>]
        PROVE  Runs'
    <3>1. Elems(mem'["mmap"]) = Elems(mem["mmap"]) \union {e}
      BY <2>2, <2>4
    <3>2. QED
      BY <2>1, <2>4, <3>1 DEF Live, Old, New
  <2>5. QED
    BY <2>1, <2>3, <2>4
<1>4. CASE Open
  <2>1. ASSUME NEW next \in Labels \ Looking, Live, WriteTip(next) PROVE Runs'
    BY <2>1, PlainTip DEF Live, Old, New
  <2>2. ASSUME NEW next \in Labels \ Looking,
               WriteTaken("recovered", next)
        PROVE  Runs'
    <3>1. cTmp \in Seq(Entries) /\ stdio = << >>
      BY DEF TypeOK
    <3>2. stdio' = << >> /\ pc'[Ctl] = next
      BY <2>2, <3>1, AsyncLog2File DEF WriteTaken, Goto, AsyncInv
    <3>3. QED
      BY <2>2, <3>2 DEF WriteTaken, Live, Old
  <2>3. CASE OpenAgain
    BY <2>1, <2>3 DEF OpenAgain, Labels
  <2>4. CASE OpenRecovered
    BY <2>1, <2>2, <2>4 DEF OpenRecovered, OpenTip, Labels, Phases, Opening, Looking
  <2>5. ASSUME NEW mode \in Modes, NEW mapped \in MmapOutcomes,
               OpenBuffer(mode, mapped)
        PROVE  Runs'
    BY <2>5 DEF OpenBuffer, Goto, Live, Phases, Plain, Old, New
  <2>6. CASE OpenRecover
    <3>1. /\ pc[Ctl] \in Looking
          /\ UNCHANGED <<mem, cTmp, asyncTmp, stdio, crashes, sg_log_buff>>
      BY <2>6 DEF OpenRecover, OpenEndStream, OpenMeasure, OpenCopy, OpenClear,
                  Goto, Clearing, Looking
    <3>2. QED
      BY <3>1 DEF Live, Old, New
  <2>7. CASE OpenUnclose \/ OpenSetMode \/ OpenBanner
    BY <2>7 DEF OpenUnclose, OpenSetMode, OpenBanner, Goto, Live, Old, New, Looking
  <2>8. QED
    BY <1>4, <2>3, <2>4, <2>5, <2>6, <2>7 DEF Open
<1>5. CASE Close
  <2>1. CASE CloseMark \/ CloseFlag \/ CloseJoin
    BY <2>1 DEF CloseMark, CloseFlag, CloseJoin, Goto, Live, Old, New, Looking
  <2>2. CASE CloseFree
    BY <2>2 DEF CloseFree, Goto, Live, Old, New, Memories, Looking
  <2>3. CASE CloseFile
    BY <2>3 DEF CloseFile, Goto, Live, Old, New
  <2>4. QED
    BY <1>5, <2>1, <2>2, <2>3 DEF Close
<1>6. CASE Flush
  BY <1>6 DEF Flush, Notified, Live, Old, New
<1>7. ~FlushSyncTake
  BY DEF FlushSyncTake, Plain, TypeOK
<1>8. CASE WriteTaken("flushSync", "idle")
  <2>1. cTmp \in Seq(Entries)
    BY DEF TypeOK
  <2>2. stdio' = << >>
    BY <1>8, <2>1, AsyncLog2File DEF WriteTaken, AsyncInv
  <2>3. QED
    BY <1>8, <2>2 DEF WriteTaken, Goto, Live, Old
<1>9. ASSUME NEW mode \in Modes, SetMode(mode) PROVE Runs'
  BY <1>9 DEF SetMode, Live, Old, New
<1>10. CASE AsyncThread
  <2>1. CASE AsyncTake
    <3>1. CASE ~Live
      BY <2>1, <3>1 DEF AsyncTake, AsyncGoto, Live, Old, New
    <3>2. CASE Live
      <4>1. sg_log_buff = "mmap"
        BY <3>2 DEF Live, Memories
      <4>2. /\ asyncTmp' = mem["mmap"] /\ mem'["mmap"] = << >>
            /\ UNCHANGED <<cTmp, stdio, crashes, sg_log_buff, pc>>
            /\ asyncPc = "top"
        BY <2>1, <3>2, <4>1 DEF AsyncTake, TakeBlock, Block, AsyncGoto
      <4>3. QED
        BY <3>2, <4>1, <4>2 DEF Live, Old, New
    <3>3. QED
      BY <3>1, <3>2
  <2>2. CASE AsyncWrite
    <3>1. asyncTmp \in Seq(Entries)
      BY DEF TypeOK
    <3>2. stdio' = << >>
      BY <2>2, <3>1, AsyncLog2File DEF AsyncWrite, AsyncInv
    <3>3. QED
      BY <2>2, <3>2 DEF AsyncWrite, AsyncGoto, Live, Old, New
  <2>3. CASE AsyncCheckClose \/ AsyncWait \/ AsyncTimeout \/ AsyncEnd
    BY <2>3 DEF AsyncCheckClose, AsyncWait, AsyncTimeout, AsyncEnd, AsyncGoto,
                Live, Old, New
  <2>4. QED
    BY <1>10, <2>1, <2>2, <2>3 DEF AsyncThread
<1>11. CASE UNCHANGED vars
  BY <1>11 DEF vars, Live, Old, New
<1>12. QED
  BY <1>1, <1>2, <1>3, <1>4, <1>5, <1>6, <1>7, <1>8, <1>9, <1>10, <1>11
     DEF Next, FlushSync

\* What is in the mapped buffer and in the variables that hold a block.
LEMMA PlacesType ==
  ASSUME TypeOK
  PROVE  /\ file \in Seq(Entries) /\ cTmp \in Seq(Entries)
         /\ asyncTmp \in Seq(Entries) /\ mem["mmap"] \in Seq(Entries)
BY DEF TypeOK, Memories

\* The entries of the places that are lined up are among all entries.
LEMMA LinedHeld ==
  Elems(file) \union Elems(asyncTmp) \union Elems(mem["mmap"])
    \subseteq Everywhere(Held)
<1>1. Held["file"] = file /\ Held["asyncTmp"] = asyncTmp
      /\ Held["mmap"] = mem["mmap"]
  BY HeldIs DEF Memories
<1>2. QED
  BY <1>1 DEF Everywhere, Spots

\* While open clears the buffer the places stay lined up.
LEMMA LinedCleared ==
  ASSUME Plain, LogInv, QuietInv, Twin, Runs, [Next]_vars, Clearing \/ Clearing',
         Lined(file, cTmp, asyncTmp, Buffered)
  PROVE  Lined(file', cTmp', asyncTmp', Buffered')
<1>1. ASSUME cTmp' = Buffered, Buffered' = << >>, UNCHANGED <<file, asyncTmp>>
      PROVE  Lined(file', cTmp', asyncTmp', Buffered')
  BY <1>1, LinedTaken
<1>2. ASSUME ProcessDies, Buffered' = cTmp, UNCHANGED file
      PROVE  Lined(file', cTmp', asyncTmp', Buffered')
  BY <1>2, LinedTaken DEF ProcessDies
<1>3. QED
  BY <1>1, <1>2, PlainClearing

\* Every other step of a plain application keeps them so.
LEMMA LinedKept ==
  ASSUME Plain, LogInv, AsyncInv, QuietInv, Runs, [Next]_vars,
         ~Clearing, ~Clearing', Lined(file, cTmp, asyncTmp, mem["mmap"])
  PROVE  Lined(file', cTmp', asyncTmp', mem'["mmap"])
<1> USE DEF bufVars, procVars, boundVars
<1> DEFINE m == mem["mmap"]
           Goal == Lined(file', cTmp', asyncTmp', mem'["mmap"])
<1>0. /\ TypeOK /\ Phases /\ Ctl \in Threads /\ crashes \in Nat
      /\ pc \in [Threads -> Labels] /\ mem \in [Memories -> Seq(Entries)]
      /\ "mmap" \in Memories /\ stdio = << >> /\ sg_mode = "Async"
      /\ m = Buffered /\ (~sg_log_close => Live)
      /\ sg_log_buff \in {"mmap", "null"}
      /\ file \in Seq(Entries) /\ cTmp \in Seq(Entries)
      /\ asyncTmp \in Seq(Entries) /\ m \in Seq(Entries)
  BY PlacesType, BufferedIs DEF LogInv, TypeOK, Threads, Memories, AsyncInv, Runs,
                                Phases
<1> USE <1>0
<1>1. ASSUME UNCHANGED file, cTmp' \in {cTmp, << >>},
             asyncTmp' \in {asyncTmp, << >>}, mem'["mmap"] \in {m, << >>}
      PROVE  Goal
  BY <1>1, LinedEmptied
<1>2. CASE Crash
  BY <1>1, <1>2 DEF Crash, ProcessDies
<1>3. ASSUME NEW l \in Loggers, CallAppender(l) PROVE Goal
  BY <1>1, <1>3 DEF CallAppender
<1>4. ASSUME NEW t \in Threads, AppenderStep(t) PROVE Goal
  <2>1. /\ UNCHANGED <<cTmp, asyncTmp, file>>
        /\ \/ UNCHANGED mem
           \/ \E e \in Entries :
                /\ \A x \in Everywhere(Held) : ~Earlier(e, x)
                /\ mem' = [mem EXCEPT !["mmap"] = @ \o <<e>>]
    BY <1>4, PlainCall
  <2>2. ASSUME NEW e \in Entries, \A x \in Everywhere(Held) : ~Earlier(e, x),
               mem' = [mem EXCEPT !["mmap"] = @ \o <<e>>]
        PROVE  Goal
    <3>1. mem'["mmap"] = m \o <<e>>
      BY <2>2
    <3>2. \A x \in Elems(file) \union Elems(asyncTmp) \union Elems(m) :
            ~Earlier(e, x)
      BY <2>2, LinedHeld
    <3>3. Lined(file, cTmp, asyncTmp, m \o <<e>>)
      BY <3>2, LinedAdded
    <3>4. QED
      BY <2>1, <3>1, <3>3
  <2>3. QED
    BY <1>1, <2>1, <2>2
<1>5. ASSUME NEW next, Live, WriteTip(next) PROVE Goal
  <2>1. PICK e \in Entries : ~Lines(e) /\ file' = file \o <<e>>
    BY <1>5, PlainTip
  <2>2. Lined(file \o <<e>>, cTmp, asyncTmp, m)
    BY <2>1, LinedAdded
  <2>3. UNCHANGED <<mem, cTmp, asyncTmp>>
    BY <1>5, PlainTip
  <2>4. QED
    BY <2>1, <2>2, <2>3
<1>6. ASSUME NEW from, NEW next, WriteTaken(from, next) PROVE Goal
  <2>1. /\ file' = file \o cTmp /\ cTmp' = << >>
        /\ UNCHANGED <<mem, asyncTmp>>
    BY <1>6, AsyncLog2File DEF WriteTaken
  <2>2. CASE cTmp = << >>
    <3>1. file' = file
      BY <2>1, <2>2, EmptyConcat
    <3>2. QED
      BY <1>1, <2>1, <3>1
  <2>3. CASE cTmp # << >>
    <3>1. Behind(cTmp, asyncTmp) /\ Behind(cTmp, m)
      BY <2>3, RunsApart DEF Runs
    <3>2. QED
      BY <2>1, <3>1, LinedWritten
  <2>4. QED
    BY <2>2, <2>3
<1>7. CASE Open
  <2>1. CASE OpenAgain
    BY <1>5, <2>1 DEF OpenAgain
  <2>2. CASE OpenRecovered
    BY <1>5, <1>6, <2>2 DEF OpenRecovered, OpenTip, Phases, Opening
  <2>3. ASSUME NEW mode \in Modes, NEW mapped \in MmapOutcomes,
               OpenBuffer(mode, mapped)
        PROVE  Goal
    BY <1>1, <2>3 DEF OpenBuffer, Memories
  <2>4. CASE OpenRecover
    <3>1. UNCHANGED <<mem, cTmp, file, asyncTmp>>
      BY <2>4 DEF OpenRecover, OpenEndStream, OpenMeasure, OpenCopy, OpenClear,
                  Goto, Clearing
    <3>2. QED
      BY <1>1, <3>1
  <2>5. CASE OpenUnclose \/ OpenSetMode \/ OpenBanner
    BY <1>1, <2>5 DEF OpenUnclose, OpenSetMode, OpenBanner
  <2>6. QED
    BY <1>7, <2>1, <2>2, <2>3, <2>4, <2>5 DEF Open
<1>8. CASE Close
  <2>1. CASE CloseMark \/ CloseFlag \/ CloseJoin
    BY <1>1, <2>1 DEF CloseMark, CloseFlag, CloseJoin
  <2>2. CASE CloseFree
    BY <1>1, <2>2 DEF CloseFree
  <2>3. CASE CloseFile
    <3>1. file' = file
      BY <2>3, EmptyConcat DEF CloseFile
    <3>2. QED
      BY <1>1, <2>3, <3>1 DEF CloseFile
  <2>4. QED
    BY <1>8, <2>1, <2>2, <2>3 DEF Close
<1>9. CASE Flush
  BY <1>1, <1>9 DEF Flush
<1>10. ~FlushSyncTake
  BY DEF FlushSyncTake, Plain, TypeOK
<1>11. ASSUME NEW mode \in Modes, SetMode(mode) PROVE Goal
  BY <1>1, <1>11 DEF SetMode
<1>12. CASE AsyncThread
  <2>1. CASE AsyncTake
    <3>1. CASE ~Live
      BY <1>1, <2>1, <3>1 DEF AsyncTake, AsyncGoto
    <3>2. CASE Live
      <4>1. sg_log_buff = "mmap"
        BY <3>2 DEF Live
      <4>2. /\ asyncTmp' = m /\ mem'["mmap"] = << >> /\ UNCHANGED <<file, cTmp>>
        BY <2>1, <3>2, <4>1 DEF AsyncTake, TakeBlock, Block, AsyncGoto
      <4>3. QED
        BY <4>2, LinedTaken
    <3>3. QED
      BY <3>1, <3>2
  <2>2. CASE AsyncWrite
    <3>1. /\ file' = file \o asyncTmp /\ asyncTmp' = << >>
          /\ UNCHANGED <<mem, cTmp>>
      BY <2>2, AsyncLog2File DEF AsyncWrite, AsyncGoto
    <3>2. Behind(asyncTmp, cTmp)
      BY RunsApart, ElemsOfFew DEF Runs
    <3>3. QED
      BY <3>1, <3>2, LinedWritten
  <2>3. CASE AsyncCheckClose \/ AsyncWait \/ AsyncTimeout \/ AsyncEnd
    BY <1>1, <2>3
       DEF AsyncCheckClose, AsyncWait, AsyncTimeout, AsyncEnd, AsyncGoto
  <2>4. QED
    BY <1>12, <2>1, <2>2, <2>3 DEF AsyncThread
<1>13. CASE UNCHANGED vars
  BY <1>1, <1>13 DEF vars
<1>14. QED
  BY <1>2, <1>3, <1>4, <1>6, <1>7, <1>8, <1>9, <1>10, <1>11, <1>12, <1>13
     DEF Next, FlushSync

\* While nothing is broken and the places are lined up, there is no hole.
LEMMA UnbrokenNoHole ==
  ASSUME Unbroken, Lined(file, cTmp, asyncTmp, Buffered)
  PROVE  NoHole
BY DEF Unbroken, Lined, Behind, NoHole

\* In the first process there is nothing of an earlier one.
LEMMA NothingOld ==
  ASSUME NEW s \in Seq(Entries), crashes = 0, Old(s)
  PROVE  s = << >>
<1>1. ASSUME s # << >> PROVE FALSE
  <2>1. 1 \in 1..Len(s)
    BY <1>1, EmptySeq, LenProperties
  <2>2. s[1] \in Elems(s) /\ s[1] \in Entries
    BY <2>1, PlaceInSeq
  <2>3. s[1].run \in Nat /\ s[1].run < 0
    BY <2>2 DEF Old, Entries
  <2>4. QED
    BY <2>3
<1>2. QED
  BY <1>1

\* While open clears the buffer of the first session there is nothing in it.
LEMMA UnbrokenCleared ==
  ASSUME Plain, OrderInv, Unbroken, [Next]_vars, Clearing \/ Clearing'
  PROVE  Unbroken'
<1>1. /\ LogInv /\ QuietInv /\ Twin /\ Runs /\ TypeOK /\ crashes \in Nat
      /\ NoHole /\ Buffered \in Seq(Entries)
  BY UnbrokenNoHole, BufferedIs DEF OrderInv, LogInv, TypeOK
<1>2. Live /\ UNCHANGED <<file, opens>>
  BY <1>1, PlainClearing
<1>3. CASE /\ pc[Ctl] \in Looking /\ Buffered' = << >>
           /\ UNCHANGED <<asyncTmp, crashes, sg_log_buff, accepted>>
  <2>1. crashes = 0 => Buffered = << >>
    BY <1>1, <1>3, NothingOld DEF Runs
  <2>2. QED
    BY <1>2, <1>3, <2>1 DEF Unbroken, Live
<1>4. CASE ProcessDies
  <2>1. crashes' # 0 /\ ~Live' /\ opens # 0
    BY <1>1, <1>2, <1>4 DEF ProcessDies, Live, Unbroken
  <2>2. QED
    BY <1>2, <2>1 DEF Unbroken, NoHole
<1>5. CASE UNCHANGED <<Buffered, asyncTmp, crashes, sg_log_buff, accepted>>
  BY <1>2, <1>5 DEF Unbroken, Live, NoHole
<1>6. QED
  BY <1>1, <1>3, <1>4, <1>5, PlainClearing

\* Every other step of a plain application keeps its first session unbroken.
LEMMA UnbrokenKept ==
  ASSUME Plain, OrderInv, Unbroken, [Next]_vars, ~Clearing, ~Clearing'
  PROVE  Unbroken'
<1> USE DEF bufVars, procVars, boundVars
<1> DEFINE m == mem["mmap"]
           First == opens <= 1 /\ crashes = 0
           All == Elems(file) \union Elems(asyncTmp) \union Elems(m)
<1>0. /\ LogInv /\ AsyncInv /\ QuietInv /\ Runs
      /\ TypeOK /\ Ctl \in Threads /\ crashes \in Nat /\ opens \in Nat
      /\ pc \in [Threads -> Labels] /\ mem \in [Memories -> Seq(Entries)]
      /\ "mmap" \in Memories /\ stdio = << >> /\ sg_mode = "Async"
      /\ sg_log_buff \in {"mmap", "null"}
      /\ file \in Seq(Entries) /\ cTmp \in Seq(Entries)
      /\ asyncTmp \in Seq(Entries) /\ m \in Seq(Entries)
      /\ (Live => opens # 0) /\ NoHole /\ Elems(<< >>) = {}
      /\ (First => cTmp = << >>)
      /\ Buffered = m /\ Buffered' = mem'["mmap"] /\ (~sg_log_close => Live)
  <2>1. /\ LogInv /\ AsyncInv /\ QuietInv /\ Runs /\ TypeOK
    BY DEF OrderInv, LogInv
  <2>2. /\ file \in Seq(Entries) /\ cTmp \in Seq(Entries)
        /\ asyncTmp \in Seq(Entries) /\ m \in Seq(Entries)
    BY <2>1, PlacesType
  <2>3. NoHole /\ (Live => opens # 0)
    BY UnbrokenNoHole DEF OrderInv, Unbroken
  <2>4. First => cTmp = << >>
    BY <2>1, <2>2, NothingOld DEF Runs
  <2>5. QED
    BY <2>1, <2>2, <2>3, <2>4, ElemsOfFew, BufferedIs
       DEF TypeOK, Threads, Memories, AsyncInv, Runs, LogInv, Phases
<1> USE <1>0
<1>1. ASSUME UNCHANGED <<opens, crashes, sg_log_buff>>,
             First => All \subseteq All',
             Live => \A e \in accepted' \ accepted : Lines(e) => e \in All',
             ~Live => accepted' = accepted /\ (First => file' = file)
      PROVE  Unbroken'
  BY <1>1 DEF Unbroken, Live, NoHole
<1>2. ASSUME UNCHANGED <<opens, crashes, sg_log_buff, accepted, file, asyncTmp>>,
             mem'["mmap"] = m
      PROVE  Unbroken'
  BY <1>1, <1>2
<1>3. CASE Crash
  <2>1. /\ crashes' # 0 /\ ~Live' /\ UNCHANGED <<opens, accepted>>
    BY <1>3 DEF Crash, ProcessDies, Live
  <2>2. QED
    BY <2>1 DEF Unbroken, NoHole
<1>4. ASSUME NEW l \in Loggers, CallAppender(l) PROVE Unbroken'
  BY <1>2, <1>4 DEF CallAppender
<1>5. ASSUME NEW t \in Threads, AppenderStep(t) PROVE Unbroken'
  <2>1. /\ Live
        /\ UNCHANGED <<sg_log_buff, crashes, opens, asyncTmp, file>>
        /\ \/ UNCHANGED <<mem, accepted>>
           \/ \E e \in Entries : /\ mem' = [mem EXCEPT !["mmap"] = @ \o <<e>>]
                                 /\ accepted' = accepted \union {e}
    BY <1>5, PlainCall
  <2>2. ASSUME NEW e \in Entries, accepted' = accepted \union {e},
               mem' = [mem EXCEPT !["mmap"] = @ \o <<e>>]
        PROVE  Unbroken'
    <3>1. mem'["mmap"] = m \o <<e>>
      BY <2>2
    <3>2. Elems(mem'["mmap"]) = Elems(m) \union {e}
      BY <3>1, ElemsOfMore
    <3>3. QED
      BY <1>1, <2>1, <2>2, <3>2
  <2>3. QED
    BY <1>2, <2>1, <2>2
<1>6. ASSUME NEW next, Live, WriteTip(next)
      PROVE  /\ UNCHANGED <<asyncTmp, mem, crashes, sg_log_buff>>
             /\ Elems(file) \subseteq Elems(file')
             /\ \A e \in accepted' \ accepted : ~Lines(e)
  <2>1. PICK e \in Entries : /\ ~Lines(e) /\ file' = file \o <<e>>
                             /\ accepted' = accepted \union {e}
    BY <1>6, PlainTip
  <2>2. Elems(file') = Elems(file) \union {e}
    BY <2>1, ElemsOfMore
  <2>3. QED
    BY <1>6, <2>1, <2>2, PlainTip
<1>7. ASSUME NEW from, NEW next, WriteTaken(from, next) PROVE Unbroken'
  <2>1. /\ file' = file \o cTmp
        /\ UNCHANGED <<mem, asyncTmp, opens, crashes, sg_log_buff, accepted>>
    BY <1>7, AsyncLog2File DEF WriteTaken
  <2>2. First => file' = file
    BY <2>1, EmptyConcat
  <2>3. QED
    BY <1>1, <2>1, <2>2
<1>8. CASE Open
  <2>1. CASE OpenAgain
    <3>1. Live /\ opens' = opens + 1 /\ sg_log_buff' = sg_log_buff
      BY <1>6, <2>1 DEF OpenAgain
    <3>2. QED
      BY <3>1 DEF Unbroken, Live
  <2>2. CASE OpenRecovered
    <3>1. ASSUME NEW from, NEW next, Live, OpenTip(from, next) PROVE Unbroken'
      BY <1>1, <1>6, <3>1 DEF OpenTip
    <3>2. QED
      BY <1>7, <2>2, <3>1 DEF OpenRecovered, OpenTip, LogInv, Phases, Opening
  <2>3. ASSUME NEW mode \in Modes, NEW mapped \in MmapOutcomes,
               OpenBuffer(mode, mapped)
        PROVE  Unbroken'
    <3>1. /\ opens' = opens + 1 /\ sg_log_buff' # "null" /\ crashes' = crashes
          /\ accepted' = accepted
      BY <2>3 DEF OpenBuffer
    <3>2. QED
      BY <3>1 DEF Unbroken, Live
  <2>4. CASE OpenRecover
    <3>1. UNCHANGED <<mem, opens, crashes, sg_log_buff, accepted, file, asyncTmp>>
      BY <2>4 DEF OpenRecover, OpenEndStream, OpenMeasure, OpenCopy, OpenClear,
                  Goto, Clearing
    <3>2. QED
      BY <1>2, <3>1
  <2>5. CASE OpenUnclose \/ OpenSetMode \/ OpenBanner
    BY <1>2, <2>5 DEF OpenUnclose, OpenSetMode, OpenBanner
  <2>6. QED
    BY <1>8, <2>1, <2>2, <2>3, <2>4, <2>5 DEF Open
<1>9. CASE Close
  <2>1. CASE CloseMark \/ CloseFlag \/ CloseJoin
    BY <1>2, <2>1 DEF CloseMark, CloseFlag, CloseJoin
  <2>2. CASE CloseFree
    BY <2>2 DEF CloseFree, Unbroken, Live, NoHole
  <2>3. CASE CloseFile
    <3>1. file' = file
      BY <2>3, EmptyConcat DEF CloseFile
    <3>2. QED
      BY <1>2, <2>3, <3>1 DEF CloseFile
  <2>4. QED
    BY <1>9, <2>1, <2>2, <2>3 DEF Close
<1>10. CASE Flush
  BY <1>2, <1>10 DEF Flush
<1>11. ~FlushSyncTake
  BY DEF FlushSyncTake, Plain, TypeOK
<1>12. ASSUME NEW mode \in Modes, SetMode(mode) PROVE Unbroken'
  BY <1>2, <1>12 DEF SetMode
<1>13. CASE AsyncThread
  <2>1. CASE AsyncTake
    <3>1. CASE ~Live
      BY <1>2, <2>1, <3>1 DEF AsyncTake, AsyncGoto
    <3>2. CASE Live
      <4>1. asyncTmp = << >>
        BY <2>1 DEF AsyncTake, LogInv, Phases
      <4>2. /\ asyncTmp' = m /\ mem'["mmap"] = << >>
            /\ UNCHANGED <<file, opens, crashes, sg_log_buff, accepted>>
        BY <2>1, <3>2 DEF AsyncTake, TakeBlock, Block, AsyncGoto, Live
      <4>3. QED
        BY <1>1, <4>1, <4>2
    <3>3. QED
      BY <3>1, <3>2
  <2>2. CASE AsyncWrite
    <3>1. /\ file' = file \o asyncTmp /\ asyncTmp' = << >>
          /\ UNCHANGED <<mem, opens, crashes, sg_log_buff, accepted>>
      BY <2>2, AsyncLog2File DEF AsyncWrite, AsyncGoto
    <3>2. Elems(file') = Elems(file) \union Elems(asyncTmp)
      BY <3>1, ElemsConcat
    <3>3. ~Live => file' = file
      BY <3>1, EmptyConcat DEF Runs
    <3>4. QED
      BY <1>1, <3>1, <3>2, <3>3
  <2>3. CASE AsyncCheckClose \/ AsyncWait \/ AsyncTimeout \/ AsyncEnd
    BY <1>2, <2>3
       DEF AsyncCheckClose, AsyncWait, AsyncTimeout, AsyncEnd, AsyncGoto
  <2>4. QED
    BY <1>13, <2>1, <2>2, <2>3 DEF AsyncThread
<1>14. CASE UNCHANGED vars
  BY <1>2, <1>14 DEF vars
<1>15. QED
  BY <1>3, <1>4, <1>5, <1>7, <1>8, <1>9, <1>10, <1>11, <1>12, <1>13, <1>14
     DEF Next, FlushSync
-----------------------------------------------------------------------------
\* Nothing is logged when the program starts.
LEMMA OrderInit == Init => OrderInv /\ Unbroken
<1> SUFFICES ASSUME Init PROVE OrderInv /\ Unbroken
  OBVIOUS
<1>1. LogInv /\ AsyncInv /\ QuietInv /\ Twin
  BY LogInit, AsyncInit, QuietInit DEF Init, Twin, Clearing, Threads
<1>2. /\ file = << >> /\ cTmp = << >> /\ asyncTmp = << >> /\ mem["mmap"] = << >>
      /\ stdio = << >> /\ sg_log_buff = "null" /\ pc[Ctl] = "idle"
      /\ opens = 0 /\ accepted = {} /\ Buffered = << >>
  BY BufferedIs DEF Init, Memories, Threads, Clearing
<1>3. Runs
  BY <1>2, ElemsOfFew DEF Runs, Old, New, Live
<1>4. Lined(file, cTmp, asyncTmp, Buffered)
  BY <1>2, ElemsOfFew DEF Lined
<1>5. Unbroken
  BY <1>2 DEF Unbroken, Live, NoHole
<1>6. QED
  BY <1>1, <1>3, <1>4, <1>5 DEF OrderInv

\* Every step of a plain application keeps the order.
LEMMA OrderStep ==
  ASSUME Plain, OrderInv, [Next]_vars
  PROVE  OrderInv'
<1>1. LogInv' /\ AsyncInv' /\ QuietInv' /\ Twin' /\ TypeOK'
  BY LogStep, AsyncStep, QuietStep, TwinStep, StepType DEF OrderInv, LogInv, Plain
<1>2. Runs'
  BY <1>1, RunsKept, RunsCleared DEF OrderInv
<1>3. Lined(file, cTmp, asyncTmp, Buffered)'
  BY LinedKept, LinedCleared, BufferedIs DEF OrderInv
<1>4. QED
  BY <1>1, <1>2, <1>3 DEF OrderInv

\* Of a plain application's threads each finds its lines in the file in the
\* order it logged them, whatever the crashes, the restarts of the background
\* thread, the changes of session and the limits.
THEOREM PlainThreadOrder ==
  ASSUME Plain
  PROVE  Spec => []ThreadOrder
<1>1. Init => OrderInv
  BY OrderInit
<1>2. OrderInv /\ [Next]_vars => OrderInv'
  BY OrderStep
<1>3. OrderInv => ThreadOrder
  BY DEF OrderInv, Lined, Sorted, ThreadOrder
<1>4. QED
  BY <1>1, <1>2, <1>3, PTL DEF Spec

\* In the first session of a plain application a line is in the file only
\* together with every line of its thread that the appender accepted before:
\* of those, what is lost is a tail.
THEOREM PlainNoHole ==
  ASSUME Plain
  PROVE  Spec => []NoHole
<1>1. Init => OrderInv /\ Unbroken
  BY OrderInit
<1>2. OrderInv /\ Unbroken /\ [Next]_vars => OrderInv' /\ Unbroken'
  BY OrderStep, UnbrokenKept, UnbrokenCleared
<1>3. OrderInv /\ Unbroken => NoHole
  BY UnbrokenNoHole DEF OrderInv
<1>4. QED
  BY <1>1, <1>2, <1>3, PTL DEF Spec
-----------------------------------------------------------------------------
(* Only open's clearing of the buffer takes an entry away.                  *)

\* What open has not copied of the block it is about to clear, this process
\* has logged since it looked.
Copied ==
  Clearing => \A e \in Elems(mem[sg_log_buff]) \ Elems(cTmp) : e.run = crashes

\* The entries of the places, one by one.
LEMMA PlacesAre ==
  /\ TypeOK => Elems(Places)
       = Elems(mem["mmap"]) \union Elems(mem["heap"]) \union Elems(cTmp)
         \union Elems(asyncTmp) \union Elems(stdio) \union Elems(file)
  /\ TypeOK' => Elems(Places')
       = Elems(mem'["mmap"]) \union Elems(mem'["heap"]) \union Elems(cTmp')
         \union Elems(asyncTmp') \union Elems(stdio') \union Elems(file')
<1>1. TypeOK => /\ mem["mmap"] \in Seq(Entries) /\ mem["heap"] \in Seq(Entries)
                /\ cTmp \in Seq(Entries) /\ asyncTmp \in Seq(Entries)
                /\ stdio \in Seq(Entries) /\ file \in Seq(Entries)
  BY DEF TypeOK, Memories
<1>2. TypeOK' => /\ mem'["mmap"] \in Seq(Entries) /\ mem'["heap"] \in Seq(Entries)
                 /\ cTmp' \in Seq(Entries) /\ asyncTmp' \in Seq(Entries)
                 /\ stdio' \in Seq(Entries) /\ file' \in Seq(Entries)
  BY DEF TypeOK, Memories
<1> DEFINE m == mem["mmap"]
           h == mem["heap"]
           n == mem'["mmap"]
           g == mem'["heap"]
<1> HIDE DEF m, h, n, g
<1>3. TypeOK => Elems(m \o h \o cTmp \o asyncTmp \o stdio \o file)
       = Elems(m) \union Elems(h) \union Elems(cTmp)
         \union Elems(asyncTmp) \union Elems(stdio) \union Elems(file)
  <2>1. ASSUME TypeOK
        PROVE  /\ m \in Seq(Entries) /\ h \in Seq(Entries)
               /\ cTmp \in Seq(Entries) /\ asyncTmp \in Seq(Entries)
               /\ stdio \in Seq(Entries) /\ file \in Seq(Entries)
    BY <1>1, <2>1 DEF m, h
  <2> DEFINE five == m \o h \o cTmp \o asyncTmp \o stdio
  <2>2. ASSUME TypeOK
        PROVE  /\ five \in Seq(Entries)
               /\ Elems(five) = Elems(m) \union Elems(h) \union Elems(cTmp)
                               \union Elems(asyncTmp) \union Elems(stdio)
    BY <2>1, <2>2, ElemsOfFive
  <2> HIDE DEF five
  <2>3. ASSUME TypeOK
        PROVE  Elems(five \o file) = Elems(five) \union Elems(file)
    BY <2>1, <2>2, <2>3, ElemsConcat
  <2>4. TypeOK => Elems(five \o file)
         = Elems(m) \union Elems(h) \union Elems(cTmp)
           \union Elems(asyncTmp) \union Elems(stdio) \union Elems(file)
    BY <2>2, <2>3
  <2>5. QED
    BY <2>4 DEF five
<1>4. TypeOK' => Elems(n \o g \o cTmp' \o asyncTmp' \o stdio' \o file')
       = Elems(n) \union Elems(g) \union Elems(cTmp')
         \union Elems(asyncTmp') \union Elems(stdio') \union Elems(file')
  <2>1. ASSUME TypeOK'
        PROVE  /\ n \in Seq(Entries) /\ g \in Seq(Entries)
               /\ cTmp' \in Seq(Entries) /\ asyncTmp' \in Seq(Entries)
               /\ stdio' \in Seq(Entries) /\ file' \in Seq(Entries)
    BY <1>2, <2>1 DEF n, g
  <2> DEFINE five == n \o g \o cTmp' \o asyncTmp' \o stdio'
  <2>2. ASSUME TypeOK'
        PROVE  /\ five \in Seq(Entries)
               /\ Elems(five) = Elems(n) \union Elems(g) \union Elems(cTmp')
                               \union Elems(asyncTmp') \union Elems(stdio')
    BY <2>1, <2>2, ElemsOfFive
  <2> HIDE DEF five
  <2>3. ASSUME TypeOK'
        PROVE  Elems(five \o file') = Elems(five) \union Elems(file')
    BY <2>1, <2>2, <2>3, ElemsConcat
  <2>4. TypeOK' => Elems(five \o file')
         = Elems(n) \union Elems(g) \union Elems(cTmp')
           \union Elems(asyncTmp') \union Elems(stdio') \union Elems(file')
    BY <2>2, <2>3
  <2>5. QED
    BY <2>4 DEF five
<1>5. QED
  BY <1>3, <1>4 DEF Places, m, h, n, g

\* Nothing leaves its last place.
StaysSomewhere == Elems(Places) \subseteq Elems(Places')

\* __log2file loses neither what it is given nor what is in the FILE.
LEMMA Log2FileStays ==
  ASSUME TypeOK, NEW es \in Seq(Entries), Log2File(es)
  PROVE  Elems(stdio) \union Elems(file) \union Elems(es)
           \subseteq Elems(stdio') \union Elems(file')
<1>1. /\ file \in Seq(Entries) /\ stdio \in Seq(Entries)
      /\ file \o stdio \in Seq(Entries)
  BY ConcatProperties DEF TypeOK
<1>2. /\ Elems(file \o stdio) = Elems(file) \union Elems(stdio)
      /\ Elems(file \o stdio \o es) = Elems(file \o stdio) \union Elems(es)
      /\ Elems(stdio \o es) = Elems(stdio) \union Elems(es)
  BY <1>1, ElemsConcat
<1>3. QED
  BY <1>2 DEF Log2File

\* Nor does a step but open's clearing, while process and buffer live on.
LEMMA StepStays ==
  ASSUME TypeOK, TypeOK', Phases, [Next]_vars, SameLife, ~OpenClear
  PROVE  StaysSomewhere
<1> USE DEF SameLife, bufVars, procVars, boundVars
<1>0. /\ mem \in [Memories -> Seq(Entries)] /\ Memories = {"mmap", "heap"}
      /\ crashes \in Nat /\ Elems(<< >>) = {} /\ Ctl \in Threads
  BY ElemsOfFew DEF TypeOK, Memories, Threads
<1> DEFINE Stays == Elems(stdio) \union Elems(file)
                      \subseteq Elems(stdio') \union Elems(file')
<1>1. ASSUME \A m \in Memories : Elems(mem[m]) \subseteq Elems(Places'),
             Elems(cTmp) \subseteq Elems(Places'),
             Elems(asyncTmp) \subseteq Elems(Places'), Stays
      PROVE  StaysSomewhere
  BY <1>0, <1>1, PlacesAre DEF StaysSomewhere
<1>2. CASE UNCHANGED <<mem, cTmp, asyncTmp>> /\ Stays
  BY <1>0, <1>2, PlacesAre DEF StaysSomewhere
<1>3. ~ProcessDies
  BY <1>0 DEF ProcessDies
<1>4. ASSUME NEW l \in Loggers, CallAppender(l) PROVE StaysSomewhere
  BY <1>2, <1>4 DEF CallAppender
<1>5. ASSUME NEW t \in Threads, AppenderStep(t) PROVE StaysSomewhere
  <2>1. CASE ReadMode(t) \/ AppendDropped(t)
    BY <1>2, <2>1 DEF ReadMode, AppendDropped
  <2>2. CASE SyncFormat(t)
    BY <1>2, <1>3, <2>2 DEF SyncFormat, NullBuffer
  <2>3. CASE SyncWrite(t)
    <3>1. MakeEntry(t, "log") \in Entries
      BY MakeEntryType
    <3>2. <<MakeEntry(t, "log")>> \in Seq(Entries)
      BY <3>1
    <3>3. Stays
      BY <2>3, <3>2, Log2FileStays DEF SyncWrite
    <3>4. QED
      BY <1>2, <2>3, <3>3 DEF SyncWrite
  <2>4. ASSUME NEW fatal, Append2Buffer(t, fatal) PROVE StaysSomewhere
    <3> DEFINE kind == IF Len(Block) >= HighWater THEN "warn" ELSE "log"
               e == MakeEntry(t, kind)
    <3>1. e \in Entries
      BY MakeEntryType
    <3>2. /\ sg_log_buff \in Memories
          /\ mem' = [mem EXCEPT ![sg_log_buff] = Append(@, e)]
          /\ UNCHANGED <<cTmp, asyncTmp, stdio, file>>
      BY <2>4 DEF Append2Buffer, Writable, Live, TypeOK
    <3> HIDE DEF e
    <3>3. ASSUME NEW m \in Memories PROVE Elems(mem[m]) \subseteq Elems(mem'[m])
      <4>1. CASE m = sg_log_buff
        <5>1. /\ mem[m] \in Seq(Entries) /\ mem'[m] = Append(mem[m], e)
          BY <1>0, <3>2, <4>1
        <5>2. Append(mem[m], e) = mem[m] \o <<e>>
          BY <3>1, <5>1, AppendIsConcat
        <5>3. QED
          BY <3>1, <5>1, <5>2, ElemsOfMore
      <4>2. CASE m # sg_log_buff
        BY <1>0, <3>2, <4>2
      <4>3. QED
        BY <4>1, <4>2
    <3>4. QED
      BY <1>0, <3>2, <3>3, PlacesAre DEF StaysSomewhere
  <2>5. QED
    BY <1>5, <2>1, <2>2, <2>3, <2>4 DEF AppenderStep
<1>6. ASSUME NEW next, Live, WriteTip(next) PROVE StaysSomewhere
  <2> DEFINE e == [MakeEntry(Ctl, "tip") EXCEPT !.n = @ + 1]
  <2>1. MakeEntry(Ctl, "tip") \in Entries
    BY <1>0, MakeEntryType
  <2>2. e \in Entries
    BY <2>1 DEF Entries
  <2>3. Log2File(<<e>>) /\ UNCHANGED <<mem, cTmp, asyncTmp>>
    BY <1>6, TipStep
  <2> HIDE DEF e
  <2>4. <<e>> \in Seq(Entries)
    BY <2>2
  <2>5. Stays
    BY <2>3, <2>4, Log2FileStays
  <2>6. QED
    BY <1>2, <2>3, <2>5
<1>7. ASSUME NEW from, NEW next, WriteTaken(from, next) PROVE StaysSomewhere
  <2>1. Log2File(cTmp) /\ UNCHANGED <<mem, asyncTmp>> /\ cTmp \in Seq(Entries)
    BY <1>7 DEF WriteTaken, TypeOK
  <2>2. Stays /\ Elems(cTmp) \subseteq Elems(stdio') \union Elems(file')
    BY <2>1, Log2FileStays
  <2>3. QED
    BY <1>0, <2>1, <2>2, PlacesAre DEF StaysSomewhere
\* The block is taken out of the buffer and into a variable that held nothing.
<1>8. ASSUME TakeBlock, Live, UNCHANGED <<stdio, file>>,
             \/ cTmp = << >> /\ cTmp' = Block /\ UNCHANGED asyncTmp
             \/ asyncTmp = << >> /\ asyncTmp' = Block /\ UNCHANGED cTmp
      PROVE  StaysSomewhere
  <2>1. sg_log_buff \in Memories
    BY <1>8 DEF Live, TypeOK
  <2>2. /\ Block = mem[sg_log_buff]
        /\ \A m \in Memories : mem'[m] = mem[m] \/ m = sg_log_buff
    BY <1>0, <1>8, <2>1 DEF TakeBlock, Block
  <2>3. Elems(Block) \subseteq Elems(cTmp') \union Elems(asyncTmp')
    BY <1>8
  <2>4. QED
    BY <1>0, <1>8, <2>2, <2>3, PlacesAre DEF StaysSomewhere
<1>9. CASE Open
  <2>1. CASE OpenAgain \/ OpenRecovered
    BY <1>6, <1>7, <2>1
       DEF OpenAgain, OpenRecovered, OpenTip, Phases, Opening
  <2>2. ASSUME NEW mode \in Modes, NEW mapped \in MmapOutcomes,
               OpenBuffer(mode, mapped)
        PROVE  FALSE
    BY <2>2 DEF OpenBuffer, Phases, Live
  <2>3. CASE OpenEndStream \/ OpenMeasure
    BY <1>2, <2>3 DEF OpenEndStream, OpenMeasure
  <2>4. CASE OpenCopy
    <3>1. cTmp = << >>
      BY <2>4 DEF OpenCopy, Phases
    <3>2. QED
      BY <1>0, <2>4, <3>1, PlacesAre DEF OpenCopy, StaysSomewhere
  <2>5. CASE OpenUnclose \/ OpenSetMode \/ OpenBanner
    BY <1>2, <2>5 DEF OpenUnclose, OpenSetMode, OpenBanner
  <2>6. QED
    BY <1>9, <2>1, <2>2, <2>3, <2>4, <2>5 DEF Open, OpenRecover
<1>10. CASE Close
  <2>1. CASE CloseMark \/ CloseFlag \/ CloseJoin
    BY <1>2, <2>1 DEF CloseMark, CloseFlag, CloseJoin
  <2>2. CASE CloseFree
    <3>1. UNCHANGED <<mem, cTmp, asyncTmp, stdio, file>>
      BY <1>0, <2>2 DEF CloseFree
    <3>2. QED
      BY <1>2, <3>1
  <2>3. CASE CloseFile
    <3>1. file \in Seq(Entries) /\ stdio \in Seq(Entries)
      BY DEF TypeOK
    <3>2. Elems(file') = Elems(file) \union Elems(stdio)
      BY <2>3, <3>1, ElemsConcat DEF CloseFile
    <3>3. QED
      BY <1>2, <2>3, <3>2 DEF CloseFile
  <2>4. QED
    BY <1>10, <2>1, <2>2, <2>3 DEF Close
<1>11. CASE Flush
  BY <1>2, <1>11 DEF Flush
<1>12. CASE FlushSync
  <2>1. CASE FlushSyncTake
    <3>1. cTmp = << >>
      BY <2>1 DEF FlushSyncTake, Phases
    <3>2. QED
      BY <1>8, <2>1, <3>1 DEF FlushSyncTake
  <2>2. QED
    BY <1>7, <1>12, <2>1 DEF FlushSync
<1>13. ASSUME NEW mode \in Modes, SetMode(mode) PROVE StaysSomewhere
  BY <1>2, <1>13 DEF SetMode
<1>14. CASE AsyncThread
  <2>1. CASE AsyncTake
    <3>1. asyncTmp = << >>
      BY <2>1 DEF AsyncTake, Phases
    <3>2. QED
      BY <1>2, <1>8, <2>1, <3>1 DEF AsyncTake, AsyncGoto
  <2>2. CASE AsyncWrite
    <3>1. /\ Log2File(asyncTmp) /\ UNCHANGED <<mem, cTmp>>
          /\ asyncTmp \in Seq(Entries)
      BY <2>2 DEF AsyncWrite, AsyncGoto, TypeOK
    <3>2. Stays /\ Elems(asyncTmp) \subseteq Elems(stdio') \union Elems(file')
      BY <3>1, Log2FileStays
    <3>3. QED
      BY <1>0, <3>1, <3>2, PlacesAre DEF StaysSomewhere
  <2>3. CASE AsyncCheckClose \/ AsyncWait \/ AsyncTimeout \/ AsyncEnd
    BY <1>2, <2>3
       DEF AsyncCheckClose, AsyncWait, AsyncTimeout, AsyncEnd, AsyncGoto
  <2>4. QED
    BY <1>14, <2>1, <2>2, <2>3 DEF AsyncThread
<1>15. CASE UNCHANGED vars
  BY <1>2, <1>15 DEF vars
<1>16. QED
  BY <1>3, <1>4, <1>5, <1>9, <1>10, <1>11, <1>12, <1>13, <1>14, <1>15 DEF Next, Crash

\* Before and after every step what open has not copied is of this process.
LEMMA CopiedStep ==
  ASSUME TypeOK, Phases, Copied, [Next]_vars
  PROVE  Copied'
<1> USE DEF Clearing, bufVars, procVars, boundVars
<1>0. /\ Ctl \in Threads /\ Ctl \notin Loggers /\ pc \in [Threads -> Labels]
      /\ mem \in [Memories -> Seq(Entries)]
      /\ Elems(<< >>) = {} /\ crashes \in Nat
  BY ElemsOfFew, ThreadAssumption DEF TypeOK, Threads
<1> SUFFICES ASSUME Clearing'
             PROVE  \A e \in Elems(mem'[sg_log_buff']) \ Elems(cTmp') :
                      e.run = crashes'
  BY DEF Copied
<1> DEFINE Goal == \A e \in Elems(mem'[sg_log_buff']) \ Elems(cTmp') :
                     e.run = crashes'
<1>1. CASE ~Clearing
  BY <1>1, EntersClearing DEF Block
<1>2. CASE Clearing
  <2>0. /\ pc[Ctl] = "clear" /\ pc'[Ctl] = "clear" /\ Live
        /\ sg_log_buff \in Memories
    BY <1>2 DEF Phases, Recovering, Live, TypeOK
  <2>1. CASE UNCHANGED <<mem, sg_log_buff, cTmp, crashes>>
    BY <1>2, <2>1 DEF Copied
  <2>2. ~ProcessDies
    BY <1>0, <2>0 DEF ProcessDies
  <2>3. ASSUME NEW l \in Loggers, CallAppender(l) PROVE Goal
    BY <2>1, <2>3 DEF CallAppender
  <2>4. ASSUME NEW t \in Threads, AppenderStep(t) PROVE Goal
    <3>1. ASSUME NEW fatal, Append2Buffer(t, fatal) PROVE Goal
      <4> DEFINE kind == IF Len(Block) >= HighWater THEN "warn" ELSE "log"
                 e == MakeEntry(t, kind)
      <4>1. e \in Entries /\ e.run = crashes
        BY MakeEntryType DEF MakeEntry
      <4>2. /\ mem' = [mem EXCEPT ![sg_log_buff] = Append(@, e)]
            /\ UNCHANGED <<sg_log_buff, cTmp, crashes>>
        BY <3>1 DEF Append2Buffer
      <4> HIDE DEF e
      <4>3. /\ mem[sg_log_buff] \in Seq(Entries)
            /\ mem'[sg_log_buff] = Append(mem[sg_log_buff], e)
        BY <1>0, <2>0, <4>2
      <4>4. Append(mem[sg_log_buff], e) = mem[sg_log_buff] \o <<e>>
        BY <4>1, <4>3, AppendIsConcat
      <4>5. Elems(mem'[sg_log_buff]) = Elems(mem[sg_log_buff]) \union {e}
        BY <4>1, <4>3, <4>4, ElemsOfMore
      <4>6. QED
        BY <1>2, <4>1, <4>2, <4>5 DEF Copied
    <3>2. CASE ReadMode(t) \/ AppendDropped(t) \/ SyncWrite(t)
      BY <2>1, <3>2 DEF ReadMode, AppendDropped, SyncWrite
    <3>3. CASE SyncFormat(t)
      BY <2>1, <2>2, <3>3 DEF SyncFormat, NullBuffer
    <3>4. QED
      BY <2>4, <3>1, <3>2, <3>3 DEF AppenderStep
  <2>5. ~Open
    <3>1. ~OpenAgain /\ ~OpenRecovered /\ ~OpenUnclose /\ ~OpenSetMode /\ ~OpenBanner
      BY <2>0 DEF OpenAgain, OpenRecovered, OpenTip, WriteTaken, OpenUnclose,
                  OpenSetMode, OpenBanner
    <3>2. ~OpenEndStream /\ ~OpenMeasure /\ ~OpenCopy /\ ~OpenClear
      BY <1>0, <2>0 DEF OpenEndStream, OpenMeasure, OpenCopy, OpenClear, Goto
    <3>3. QED
      BY <2>0, <3>1, <3>2 DEF Open, OpenRecover, OpenBuffer
  <2>6. ~Close /\ ~FlushSync
    BY <2>0 DEF Close, CloseMark, CloseFlag, CloseJoin, CloseFree, CloseFile,
                FlushSync, FlushSyncTake, WriteTaken
  <2>7. CASE Flush \/ UNCHANGED vars
    BY <2>1, <2>7 DEF Flush, vars
  <2>8. ASSUME NEW mode \in Modes, SetMode(mode) PROVE Goal
    BY <2>1, <2>8 DEF SetMode
  <2>9. CASE AsyncThread
    <3>1. CASE AsyncTake
      <4>1. mem'[sg_log_buff] = << >> /\ UNCHANGED sg_log_buff
        BY <1>0, <2>0, <3>1 DEF AsyncTake, AsyncGoto, TakeBlock
      <4>2. QED
        BY <1>0, <4>1
    <3>2. CASE AsyncWrite \/ AsyncCheckClose \/ AsyncWait \/ AsyncTimeout \/ AsyncEnd
      BY <2>1, <3>2
         DEF AsyncWrite, AsyncCheckClose, AsyncWait, AsyncTimeout, AsyncEnd, AsyncGoto
    <3>3. QED
      BY <2>9, <3>1, <3>2 DEF AsyncThread
  <2>10. QED
    BY <2>2, <2>3, <2>4, <2>5, <2>6, <2>7, <2>8, <2>9 DEF Next, Crash
<1>3. QED
  BY <1>1, <1>2

\* So open's clearing wipes nothing else.
LEMMA ClearWipes ==
  ASSUME TypeOK, TypeOK', Phases, Copied, OpenClear,
         NEW e \in Elems(Places) \ Elems(Places')
  PROVE  pc[Ctl] = "clear" /\ e.run = crashes
<1>1. /\ pc[Ctl] = "clear" /\ sg_log_buff \in Memories
      /\ mem \in [Memories -> Seq(Entries)] /\ Memories = {"mmap", "heap"}
  BY DEF OpenClear, Phases, Recovering, Live, TypeOK, Memories
<1>2. /\ \A m \in Memories : mem'[m] = mem[m] \/ m = sg_log_buff
      /\ UNCHANGED <<cTmp, asyncTmp, stdio, file>>
  BY <1>1 DEF OpenClear
<1>3. e \in Elems(mem[sg_log_buff]) \ Elems(cTmp)
  BY <1>1, <1>2, PlacesAre
<1>4. QED
  BY <1>1, <1>3 DEF Copied, Clearing

\* Whatever the application does in either mode, also when it logs while it
\* closes and calls setmode on a closed appender: an entry that is gone though
\* process and buffer live on was wiped by open's clearing of the buffer, and
\* this process had logged it since open looked; a block that an earlier
\* process left is never lost.
THEOREM WipedOnlyByOpen == Spec => OnlyOpenWipes
<1> DEFINE Inv == TypeOK /\ Phases /\ Copied
           Wipes == UNCHANGED <<crashes, sg_log_buff>> =>
                      \A e \in Elems(Places) \ Elems(Places)' :
                        pc[Ctl] = "clear" /\ e.run = crashes
<1>1. Init => Inv
  <2>1. Init => Phases /\ Copied
    BY DEF Init, Phases, Stopped, Live, Calling, Opening, Recovering, Threads,
           Copied, Clearing
  <2>2. QED
    BY <2>1, InitType
<1>2. Inv /\ [Next]_vars => Inv'
  BY StepType, PhasesKept, CopiedStep
<1>3. Inv /\ Inv' /\ [Next]_vars => Wipes
  BY StepStays, ClearWipes DEF SameLife, StaysSomewhere
<1>4. Inv /\ Inv' /\ [Next]_vars => [Wipes]_vars
  BY <1>3
<1>5. QED
  BY <1>1, <1>2, <1>4, PTL DEF Spec, OnlyOpenWipes
=============================================================================
