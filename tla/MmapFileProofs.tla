--------------------------- MODULE MmapFileProofs ---------------------------
(***************************************************************************)
(* For any sizes and bounds: the block a dead process left is kept for the *)
(* session that recovers it, an error costs one further session at most,   *)
(* and preallocation does what it is for while nothing cuts it short.      *)
(***************************************************************************)
EXTENDS MmapFile, TLAPS

Opening == {"openfile", "truncate", "map", "fill", "remove"}

\* What is mapped and what the buffer stands on, by the place in the code.
Paths ==
  /\ pc \in Opening \union {"closed"} <=> buffer = "none"
  /\ pc \in {"closed", "openfile", "truncate", "map", "remove"} => ~data_
  /\ pc = "fill" => data_ /\ ~error_
  /\ buffer = "mmap" => data_ /\ ~error_
  /\ buffer = "heap" => (data_ => error_)

\* How far the file is made.
Made ==
  /\ ~there => len = 0
  /\ data_ => len = Pages
  /\ pc = "openfile" => file_exist = there
  /\ pc \in {"truncate", "fill", "remove"} => ~file_exist
  /\ pc = "truncate" => len = 0
  /\ pc \in {"map", "fill"} /\ ~file_exist => len = Pages
  /\ pc \in {"truncate", "map", "fill"} => there
  /\ Creating => used = 0

\* A file that is done with and has a hole was cut short, or a call failed.
Explained ==
  /\ there /\ ~Creating /\ backed < Pages => holed \/ fails > 0
  /\ error_ => holed \/ fails > 0
  /\ BusExplained

\* After a miss the error goes with the mapping.
MissesEnd == MissedOnce /\ (missed > 0 /\ error_ => data_)

\* The inductive invariant.
FileInv == TypeOK /\ Paths /\ Made /\ Explained /\ MissesEnd
-----------------------------------------------------------------------------
\* The numbers, and the rest of the types.
Numbers ==
  /\ len \in {0, Pages}
  /\ backed \in 0..len /\ used \in 0..backed
  /\ room \in Nat
  /\ opens \in Nat /\ crashes \in Nat /\ fails \in Nat /\ missed \in Nat
Marks ==
  /\ there \in BOOLEAN
  /\ pc \in Opening \union {"closed", "attached", "open"}
  /\ file_exist \in BOOLEAN
  /\ data_ \in BOOLEAN /\ error_ \in BOOLEAN
  /\ buffer \in {"none", "mmap", "heap"}
  /\ holed \in BOOLEAN /\ faulted \in BOOLEAN

\* The types are the two together.
LEMMA Types == (TypeOK <=> Numbers /\ Marks) /\ (TypeOK' <=> Numbers' /\ Marks')
BY DEF TypeOK, Numbers, Marks, Opening

\* The invariant holds when the first process starts.
LEMMA FileInit == Init => FileInv
<1> SUFFICES ASSUME Init PROVE FileInv
  OBVIOUS
<1>1. Numbers
  BY SizeAssumption DEF Init, Numbers
<1>2. Marks /\ Paths /\ Made /\ Explained
  BY DEF Init, Marks, Paths, Made, Explained, BusExplained, Opening, Creating
<1>3. MissesEnd
  BY DEF Init, MissesEnd, MissedOnce
<1>4. QED
  BY <1>1, <1>2, <1>3, Types DEF FileInv

\* Every step keeps the numbers in their ranges,
LEMMA StepNumbers == Numbers /\ Paths /\ Made /\ [Next]_vars => Numbers'
<1> SUFFICES ASSUME Numbers, Paths, Made, [Next]_vars PROVE Numbers'
  OBVIOUS
<1> USE SizeAssumption, BoundsAssumption DEF Numbers, Made, Creating, fileVars,
        mapVars, boundVars, historyVars
<1>1. CASE CallOpen
  BY <1>1 DEF CallOpen
<1>2. CASE OpenFile
  BY <1>2 DEF OpenFile
<1>3. CASE Truncate
  BY <1>3 DEF Truncate
<1>4. CASE Map
  BY <1>4 DEF Map, Attach
<1>5. CASE MapFails
  BY <1>5 DEF MapFails, Fails, ClearMap, Attach
<1>6. CASE MapEmpty
  BY <1>6 DEF MapEmpty, ClearMap, Attach
<1>7. CASE FillPage
  BY <1>7 DEF FillPage, Direct
<1>8. CASE FillFails
  BY <1>8 DEF FillFails, Fails, ClearMap, Direct
<1>9. CASE Remove
  BY <1>9 DEF Remove, Attach
<1>10. CASE Fclose
  BY <1>10 DEF Fclose, Attach, Direct
<1>11. CASE Recover
  BY <1>11 DEF Recover
<1>12. CASE WriteLine
  <2>1. len = Pages
    BY <1>12 DEF WriteLine, Paths
  <2>2. QED
    BY <1>12, <2>1 DEF WriteLine
<1>13. CASE TakeBlock
  BY <1>13 DEF TakeBlock
<1>14. CASE CloseMapped
  BY <1>14 DEF CloseMapped, ClearMap
<1>15. CASE CloseOther
  BY <1>15 DEF CloseOther, ClearMap
<1>16. CASE Crash
  BY <1>16 DEF Crash, ClearMap, ProcessEnds
<1>17. CASE BusError
  BY <1>17 DEF BusError, ClearMap, ProcessEnds
<1>18. CASE DeviceChanges
  BY <1>18 DEF DeviceChanges
<1>19. CASE UNCHANGED vars
  BY <1>19 DEF vars
<1>20. QED
  BY <1>1, <1>2, <1>3, <1>4, <1>5, <1>6, <1>7, <1>8, <1>9, <1>10,
     <1>11, <1>12, <1>13, <1>14, <1>15, <1>16, <1>17, <1>18, <1>19
     DEF Next, OpenMmapFile, Close

\* ... the marks in theirs,
LEMMA StepMarks == Marks /\ [Next]_vars => Marks'
<1> SUFFICES ASSUME Marks, [Next]_vars PROVE Marks'
  OBVIOUS
<1> USE DEF Marks, Opening, fileVars, mapVars, boundVars, historyVars
<1>1. CASE CallOpen
  BY <1>1 DEF CallOpen
<1>2. CASE OpenFile
  BY <1>2 DEF OpenFile
<1>3. CASE Truncate
  BY <1>3 DEF Truncate
<1>4. CASE Map
  BY <1>4 DEF Map, Attach
<1>5. CASE MapFails
  BY <1>5 DEF MapFails, Fails, ClearMap, Attach
<1>6. CASE MapEmpty
  BY <1>6 DEF MapEmpty, ClearMap, Attach
<1>7. CASE FillPage
  BY <1>7 DEF FillPage, Direct
<1>8. CASE FillFails
  BY <1>8 DEF FillFails, Fails, ClearMap, Direct
<1>9. CASE Remove
  BY <1>9 DEF Remove, Attach
<1>10. CASE Fclose
  BY <1>10 DEF Fclose, Attach, Direct
<1>11. CASE Recover
  BY <1>11 DEF Recover
<1>12. CASE WriteLine
  BY <1>12 DEF WriteLine
<1>13. CASE TakeBlock
  BY <1>13 DEF TakeBlock
<1>14. CASE CloseMapped
  BY <1>14 DEF CloseMapped, ClearMap
<1>15. CASE CloseOther
  BY <1>15 DEF CloseOther, ClearMap
<1>16. CASE Crash
  BY <1>16 DEF Crash, ClearMap, ProcessEnds
<1>17. CASE BusError
  BY <1>17 DEF BusError, ClearMap, ProcessEnds
<1>18. CASE DeviceChanges
  BY <1>18 DEF DeviceChanges
<1>19. CASE UNCHANGED vars
  BY <1>19 DEF vars
<1>20. QED
  BY <1>1, <1>2, <1>3, <1>4, <1>5, <1>6, <1>7, <1>8, <1>9, <1>10,
     <1>11, <1>12, <1>13, <1>14, <1>15, <1>16, <1>17, <1>18, <1>19
     DEF Next, OpenMmapFile, Close

\* ... and so the types,
LEMMA StepType == FileInv /\ [Next]_vars => TypeOK'
BY StepNumbers, StepMarks, Types DEF FileInv

\* ... what is mapped,
LEMMA StepPaths == FileInv /\ [Next]_vars => Paths'
<1> SUFFICES ASSUME FileInv, [Next]_vars PROVE Paths'
  OBVIOUS
<1> USE SizeAssumption, BoundsAssumption DEF FileInv, TypeOK, Paths, Opening,
        fileVars, mapVars, boundVars, historyVars
<1>1. CASE CallOpen
  BY <1>1 DEF CallOpen
<1>2. CASE OpenFile
  BY <1>2 DEF OpenFile
<1>3. CASE Truncate
  BY <1>3 DEF Truncate
<1>4. CASE Map
  BY <1>4 DEF Map, Attach
<1>5. CASE MapFails
  BY <1>5 DEF MapFails, Fails, ClearMap, Attach
<1>6. CASE MapEmpty
  BY <1>6 DEF MapEmpty, ClearMap, Attach
<1>7. CASE FillPage
  BY <1>7 DEF FillPage, Direct
<1>8. CASE FillFails
  BY <1>8 DEF FillFails, Fails, ClearMap, Direct
<1>9. CASE Remove
  BY <1>9 DEF Remove, Attach
<1>10. CASE Fclose
  BY <1>10 DEF Fclose, Attach, Direct
<1>11. CASE Recover
  BY <1>11 DEF Recover
<1>12. CASE WriteLine
  BY <1>12 DEF WriteLine
<1>13. CASE TakeBlock
  BY <1>13 DEF TakeBlock
<1>14. CASE CloseMapped
  BY <1>14 DEF CloseMapped, ClearMap
<1>15. CASE CloseOther
  BY <1>15 DEF CloseOther, ClearMap
<1>16. CASE Crash
  BY <1>16 DEF Crash, ClearMap, ProcessEnds
<1>17. CASE BusError
  BY <1>17 DEF BusError, ClearMap, ProcessEnds
<1>18. CASE DeviceChanges
  BY <1>18 DEF DeviceChanges
<1>19. CASE UNCHANGED vars
  BY <1>19 DEF vars
<1>20. QED
  BY <1>1, <1>2, <1>3, <1>4, <1>5, <1>6, <1>7, <1>8, <1>9, <1>10,
     <1>11, <1>12, <1>13, <1>14, <1>15, <1>16, <1>17, <1>18, <1>19
     DEF Next, OpenMmapFile, Close

\* ... how far the file is made,
LEMMA StepMade == FileInv /\ [Next]_vars => Made'
<1> SUFFICES ASSUME FileInv, [Next]_vars PROVE Made'
  OBVIOUS
<1> USE SizeAssumption, BoundsAssumption DEF FileInv, TypeOK, Paths, Made,
        Opening, Creating, fileVars, mapVars, boundVars, historyVars
<1>1. CASE CallOpen
  BY <1>1 DEF CallOpen
<1>2. CASE OpenFile
  BY <1>2 DEF OpenFile
<1>3. CASE Truncate
  BY <1>3 DEF Truncate
<1>4. CASE Map
  <2>1. len = Pages
    BY <1>4 DEF Map
  <2>2. QED
    BY <1>4, <2>1 DEF Map, Attach
<1>5. CASE MapFails
  BY <1>5 DEF MapFails, Fails, ClearMap, Attach
<1>6. CASE MapEmpty
  BY <1>6 DEF MapEmpty, ClearMap, Attach
<1>7. CASE FillPage
  BY <1>7 DEF FillPage, Direct
<1>8. CASE FillFails
  BY <1>8 DEF FillFails, Fails, ClearMap, Direct
<1>9. CASE Remove
  BY <1>9 DEF Remove, Attach
<1>10. CASE Fclose
  BY <1>10 DEF Fclose, Attach, Direct
<1>11. CASE Recover
  BY <1>11 DEF Recover
<1>12. CASE WriteLine
  BY <1>12 DEF WriteLine
<1>13. CASE TakeBlock
  BY <1>13 DEF TakeBlock
<1>14. CASE CloseMapped
  BY <1>14 DEF CloseMapped, ClearMap
<1>15. CASE CloseOther
  BY <1>15 DEF CloseOther, ClearMap
<1>16. CASE Crash
  BY <1>16 DEF Crash, ClearMap, ProcessEnds
<1>17. CASE BusError
  BY <1>17 DEF BusError, ClearMap, ProcessEnds
<1>18. CASE DeviceChanges
  BY <1>18 DEF DeviceChanges
<1>19. CASE UNCHANGED vars
  BY <1>19 DEF vars
<1>20. QED
  BY <1>1, <1>2, <1>3, <1>4, <1>5, <1>6, <1>7, <1>8, <1>9, <1>10,
     <1>11, <1>12, <1>13, <1>14, <1>15, <1>16, <1>17, <1>18, <1>19
     DEF Next, OpenMmapFile, Close

\* ... the reasons for what is not there,
LEMMA StepExplained == FileInv /\ [Next]_vars => Explained'
<1> SUFFICES ASSUME FileInv, [Next]_vars PROVE Explained'
  OBVIOUS
<1> USE SizeAssumption, BoundsAssumption DEF FileInv, TypeOK, Paths, Made,
        Explained, BusExplained, Opening, Creating, fileVars, mapVars,
        boundVars, historyVars
<1>1. CASE CallOpen
  BY <1>1 DEF CallOpen
<1>2. CASE OpenFile
  BY <1>2 DEF OpenFile
<1>3. CASE Truncate
  BY <1>3 DEF Truncate
<1>4. CASE Map
  BY <1>4 DEF Map, Attach
<1>5. CASE MapFails
  BY <1>5 DEF MapFails, Fails, ClearMap, Attach
<1>6. CASE MapEmpty
  BY <1>6 DEF MapEmpty, ClearMap, Attach
<1>7. CASE FillPage
  BY <1>7 DEF FillPage, Direct
<1>8. CASE FillFails
  BY <1>8 DEF FillFails, Fails, ClearMap, Direct
<1>9. CASE Remove
  BY <1>9 DEF Remove, Attach
<1>10. CASE Fclose
  BY <1>10 DEF Fclose, Attach, Direct
<1>11. CASE Recover
  BY <1>11 DEF Recover
<1>12. CASE WriteLine
  BY <1>12 DEF WriteLine
<1>13. CASE TakeBlock
  BY <1>13 DEF TakeBlock
<1>14. CASE CloseMapped
  BY <1>14 DEF CloseMapped, ClearMap
<1>15. CASE CloseOther
  BY <1>15 DEF CloseOther, ClearMap
<1>16. CASE Crash
  BY <1>16 DEF Crash, ClearMap, ProcessEnds
<1>17. CASE BusError
  BY <1>17 DEF BusError, ClearMap, ProcessEnds
<1>18. CASE DeviceChanges
  BY <1>18 DEF DeviceChanges
<1>19. CASE UNCHANGED vars
  BY <1>19 DEF vars
<1>20. QED
  BY <1>1, <1>2, <1>3, <1>4, <1>5, <1>6, <1>7, <1>8, <1>9, <1>10,
     <1>11, <1>12, <1>13, <1>14, <1>15, <1>16, <1>17, <1>18, <1>19
     DEF Next, OpenMmapFile, Close

\* ... and the bound on the misses.
LEMMA StepMisses == FileInv /\ [Next]_vars => MissesEnd'
<1> SUFFICES ASSUME FileInv, [Next]_vars PROVE MissesEnd'
  OBVIOUS
<1> USE SizeAssumption, BoundsAssumption DEF FileInv, TypeOK, Paths, MissesEnd,
        MissedOnce, fileVars, mapVars, boundVars, historyVars
<1>1. CASE CallOpen
  BY <1>1 DEF CallOpen
<1>2. CASE OpenFile
  BY <1>2 DEF OpenFile
<1>3. CASE Truncate
  BY <1>3 DEF Truncate
<1>4. CASE Map
  <2>1. missed \in Nat /\ ~data_
    BY <1>4 DEF Map
  <2>2. error_ => missed = 0
    BY <2>1
  <2>3. missed' <= 1
    BY <1>4, <2>1, <2>2 DEF Map
  <2>4. data_'
    BY <1>4 DEF Map
  <2>5. QED
    BY <2>3, <2>4
<1>5. CASE MapFails
  BY <1>5 DEF MapFails, Fails, ClearMap, Attach
<1>6. CASE MapEmpty
  BY <1>6 DEF MapEmpty, ClearMap, Attach
<1>7. CASE FillPage
  BY <1>7 DEF FillPage, Direct
<1>8. CASE FillFails
  BY <1>8 DEF FillFails, Fails, ClearMap, Direct
<1>9. CASE Remove
  BY <1>9 DEF Remove, Attach
<1>10. CASE Fclose
  BY <1>10 DEF Fclose, Attach, Direct
<1>11. CASE Recover
  BY <1>11 DEF Recover
<1>12. CASE WriteLine
  BY <1>12 DEF WriteLine
<1>13. CASE TakeBlock
  BY <1>13 DEF TakeBlock
<1>14. CASE CloseMapped
  BY <1>14 DEF CloseMapped, ClearMap
<1>15. CASE CloseOther
  BY <1>15 DEF CloseOther, ClearMap
<1>16. CASE Crash
  BY <1>16 DEF Crash, ClearMap, ProcessEnds
<1>17. CASE BusError
  BY <1>17 DEF BusError, ClearMap, ProcessEnds
<1>18. CASE DeviceChanges
  BY <1>18 DEF DeviceChanges
<1>19. CASE UNCHANGED vars
  BY <1>19 DEF vars
<1>20. QED
  BY <1>1, <1>2, <1>3, <1>4, <1>5, <1>6, <1>7, <1>8, <1>9, <1>10,
     <1>11, <1>12, <1>13, <1>14, <1>15, <1>16, <1>17, <1>18, <1>19
     DEF Next, OpenMmapFile, Close

\* The invariant always holds.
LEMMA FileInvHolds == Spec => []FileInv
<1>1. FileInv /\ [Next]_vars => FileInv'
  BY StepType, StepPaths, StepMade, StepExplained, StepMisses DEF FileInv
<1>2. QED
  BY <1>1, FileInit, PTL DEF Spec

\* Every variable keeps its type.
THEOREM TypeCorrect == Spec => []TypeOK
<1>1. FileInv => TypeOK
  BY DEF FileInv
<1>2. QED
  BY <1>1, FileInvHolds, PTL

\* After a failure one further session at most runs on heap memory although
\* every call succeeds: IsMmapFileOpenSucc reads an error nobody has cleared.
THEOREM MissesAtMostOnce == Spec => []MissedOnce
<1>1. FileInv => MissedOnce
  BY DEF FileInv, MissesEnd
<1>2. QED
  BY <1>1, FileInvHolds, PTL

\* A full device alone never leads to a bus error: OpenMmapFile removes what
\* it could not fill.
THEOREM BusErrorsExplained == Spec => []BusExplained
<1>1. FileInv => BusExplained
  BY DEF FileInv, Explained
<1>2. QED
  BY <1>1, FileInvHolds, PTL

\* No step outside of a session on the mapping touches its block.
LEMMA StepKeepsBlock ==
  FileInv /\ [Next]_vars => (used > 0 /\ buffer # "mmap" => used' = used)
<1> SUFFICES ASSUME FileInv, [Next]_vars, used > 0, buffer # "mmap"
             PROVE  used' = used
  OBVIOUS
<1> USE SizeAssumption, BoundsAssumption DEF FileInv, TypeOK, Paths, Made,
        Opening, Creating, fileVars, mapVars, boundVars, historyVars
<1>1. CASE CallOpen
  BY <1>1 DEF CallOpen
<1>2. CASE OpenFile
  BY <1>2 DEF OpenFile
<1>3. CASE Truncate
  BY <1>3 DEF Truncate
<1>4. CASE Map
  BY <1>4 DEF Map, Attach
<1>5. CASE MapFails
  BY <1>5 DEF MapFails, Fails, ClearMap, Attach
<1>6. CASE MapEmpty
  BY <1>6 DEF MapEmpty, ClearMap, Attach
<1>7. CASE FillPage
  BY <1>7 DEF FillPage, Direct
<1>8. CASE FillFails
  BY <1>8 DEF FillFails, Fails, ClearMap, Direct
<1>9. CASE Remove
  BY <1>9 DEF Remove, Attach
<1>10. CASE Fclose
  BY <1>10 DEF Fclose, Attach, Direct
<1>11. CASE Recover
  BY <1>11 DEF Recover
<1>12. CASE WriteLine
  BY <1>12 DEF WriteLine
<1>13. CASE TakeBlock
  BY <1>13 DEF TakeBlock
<1>14. CASE CloseMapped
  BY <1>14 DEF CloseMapped, ClearMap
<1>15. CASE CloseOther
  BY <1>15 DEF CloseOther, ClearMap
<1>16. CASE Crash
  BY <1>16 DEF Crash, ClearMap, ProcessEnds
<1>17. CASE BusError
  BY <1>17 DEF BusError, ClearMap, ProcessEnds
<1>18. CASE DeviceChanges
  BY <1>18 DEF DeviceChanges
<1>19. CASE UNCHANGED vars
  BY <1>19 DEF vars
<1>20. QED
  BY <1>1, <1>2, <1>3, <1>4, <1>5, <1>6, <1>7, <1>8, <1>9, <1>10,
     <1>11, <1>12, <1>13, <1>14, <1>15, <1>16, <1>17, <1>18, <1>19
     DEF Next, OpenMmapFile, Close

\* The block of a dead process waits for a session that maps the file.
THEOREM BlockIsKept == Spec => BlockKept
<1>1. FileInv /\ [Next]_vars
        => [used > 0 /\ buffer # "mmap" => used' = used]_vars
  BY StepKeepsBlock
<1>2. QED
  BY <1>1, FileInvHolds, PTL DEF Spec, BlockKept
=============================================================================
