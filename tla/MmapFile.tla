------------------------------ MODULE MmapFile -------------------------------
(***************************************************************************)
(* The file under the appender's buffer: OpenMmapFile (comm/mmap_util.cc), *)
(* the mapped_file it works on (boost/libs/iostreams, built without        *)
(* exceptions), and what kflog_appender_open and _close do with the two.   *)
(*                                                                         *)
(* One step is one call of the operating system: the process can die       *)
(* between any two.  The file has pages.  A page that was never written    *)
(* has no place on the device: it gets one when it is written, and the     *)
(* write of a mapped page that gets none is a bus error.  Pages are        *)
(* written in order, so a number says which have a place.                  *)
(***************************************************************************)
EXTENDS Naturals

CONSTANTS Pages,       \* pages of the buffer: kBufferBlockLength
          Room,        \* pages the device can have free
          MaxOpens,    \* bound: calls of kflog_appender_open
          MaxCrashes,  \* bound: deaths of the process, bus errors not counted
          MaxFails     \* bound: calls of the system that fail by themselves

ASSUME SizeAssumption == Pages \in Nat \ {0} /\ Room \in Nat
ASSUME BoundsAssumption ==
  MaxOpens \in Nat /\ MaxCrashes \in Nat /\ MaxFails \in Nat

VARIABLES
  there,       \* the .mmap3 file exists
  len,         \* its length, in pages
  backed,      \* how many of its pages have a place on the device
  used,        \* how many hold the block: what a dead process left, at first
  room,        \* free pages of the device
  pc,          \* where the controlling thread is
  file_exist,  \* OpenMmapFile's
  data_,       \* mapped_file_impl: a mapping is open
  error_,      \* mapped_file_impl: its last error has not been cleared
  buffer,      \* what sg_log_buff stands on: "none", "mmap" or "heap"
  opens, crashes, fails,   \* counters of the bounds
  missed,      \* history: opens in a row in which nothing failed and which
               \* yet ended with heap memory; not those of an empty file
  holed,       \* history: the creation of the file was cut short, by the
               \* death of the process or in fclose, where nobody looks
  faulted      \* history: there was a bus error

fileVars == <<there, len, backed, used>>
mapVars == <<data_, error_>>
boundVars == <<opens, crashes, fails>>
historyVars == <<missed, holed, faulted>>
vars == <<fileVars, room, pc, file_exist, mapVars, buffer, boundVars,
          historyVars>>
-----------------------------------------------------------------------------
Init ==
  /\ there = FALSE /\ len = 0 /\ backed = 0 /\ used = 0
  /\ room \in 0..Room
  /\ pc = "closed"
  /\ file_exist = FALSE
  /\ data_ = FALSE /\ error_ = FALSE
  /\ buffer = "none"
  /\ opens = 0 /\ crashes = 0 /\ fails = 0
  /\ missed = 0 /\ holed = FALSE /\ faulted = FALSE

\* mapped_file_impl::clear, by a close and by a failure.
ClearMap(error) == data_' = FALSE /\ error_' = error

\* A system call fails by itself.
Fails == fails < MaxFails /\ fails' = fails + 1

\* OpenMmapFile returns: the buffer is the mapping, or heap memory.
Attach(success) ==
  /\ pc' = "attached"
  /\ buffer' = IF success THEN "mmap" ELSE "heap"

\* kflog_appender_open, up to the look whether the file exists.
CallOpen ==
  /\ pc = "closed"
  /\ opens < MaxOpens
  /\ opens' = opens + 1
  /\ file_exist' = there
  /\ pc' = "openfile"
  /\ UNCHANGED <<fileVars, room, mapVars, buffer, crashes, fails, historyVars>>

\* Mutant of OpenFile: new_file_size is set in any case, so the file is
\* truncated.
OpenFileAfresh ==
  /\ pc = "openfile"
  /\ there' = TRUE /\ len' = 0 /\ backed' = 0 /\ used' = 0
  /\ room' = room + backed
  /\ pc' = "truncate"
  /\ UNCHANGED <<file_exist, mapVars, buffer, boundVars, historyVars>>

\* open: a file that is not there is created.
OpenFile ==
  /\ pc = "openfile"
  /\ there' = TRUE
  /\ pc' = IF file_exist THEN "map" ELSE "truncate"
  /\ UNCHANGED <<len, backed, used, room, file_exist, mapVars, buffer,
                 boundVars, historyVars>>

\* ftruncate to the length of the buffer: one big hole.
Truncate ==
  /\ pc = "truncate"
  /\ len' = Pages
  /\ pc' = "map"
  /\ UNCHANGED <<there, backed, used, room, file_exist, mapVars, buffer,
                 boundVars, historyVars>>

\* An open, ftruncate or mmap that fails: cleanup_and_throw throws nothing,
\* and the mmap that follows a failed open or ftruncate fails too.
MapFails ==
  /\ pc \in {"openfile", "truncate", "map"}
  /\ Fails
  /\ ClearMap(TRUE)
  /\ Attach(FALSE)
  /\ missed' = 0
  /\ UNCHANGED <<fileVars, room, file_exist, opens, crashes, holed, faulted>>

\* mmap refuses a file without a byte.
MapEmpty ==
  /\ pc = "map" /\ len = 0
  /\ ClearMap(TRUE)
  /\ Attach(FALSE)
  /\ missed' = 0
  /\ UNCHANGED <<fileVars, room, file_exist, boundVars, holed, faulted>>

\* mmap.  error_ is left as it is: after an earlier failure the mapping is
\* open and is not taken for one.
Map ==
  /\ pc = "map" /\ len > 0
  /\ data_' = TRUE /\ UNCHANGED error_
  /\ \/ /\ ~error_ /\ ~file_exist
        /\ pc' = "fill"
        /\ UNCHANGED <<buffer, missed>>
     \/ /\ error_ \/ file_exist
        /\ Attach(~error_)
        /\ missed' = IF error_ THEN missed + 1 ELSE 0
  /\ UNCHANGED <<fileVars, room, file_exist, boundVars, holed, faulted>>

\* The pages fwrite hands on at once; the last part stays in the FILE until
\* fclose.
Direct == Pages - 1

\* fwrite of zeros into the new file, page by page.
FillPage ==
  /\ pc = "fill" /\ backed < Direct /\ room > 0
  /\ backed' = backed + 1
  /\ room' = room - 1
  /\ UNCHANGED <<there, len, used, pc, file_exist, mapVars, buffer, boundVars,
                 historyVars>>

\* fopen or fwrite fails, or the device has no room for what fwrite writes:
\* the mapping is closed.
FillFails ==
  /\ pc = "fill"
  /\ \/ backed < Direct /\ room = 0 /\ UNCHANGED fails
     \/ (backed = 0 \/ backed < Direct) /\ Fails
  /\ ClearMap(FALSE)
  /\ pc' = "remove"
  /\ UNCHANGED <<fileVars, room, file_exist, buffer, opens, crashes,
                 historyVars>>

\* Mutant of Remove: the file is left.
RemoveNothing ==
  /\ pc = "remove"
  /\ Attach(FALSE)
  /\ missed' = 0
  /\ UNCHANGED <<fileVars, room, file_exist, mapVars, boundVars, holed,
                 faulted>>

\* ... and the file removed.
Remove ==
  /\ pc = "remove"
  /\ there' = FALSE /\ len' = 0 /\ backed' = 0 /\ used' = 0
  /\ room' = room + backed
  /\ Attach(FALSE)
  /\ missed' = 0
  /\ UNCHANGED <<file_exist, mapVars, boundVars, holed, faulted>>

\* fclose writes the rest; what it returns is not looked at.
Fclose ==
  /\ pc = "fill" /\ backed >= Direct
  /\ \/ /\ room > 0
        /\ backed' = Pages /\ room' = room - 1
        /\ UNCHANGED <<fails, holed>>
     \/ /\ room = 0
        /\ holed' = TRUE
        /\ UNCHANGED <<backed, room, fails>>
     \/ /\ fails < MaxFails
        /\ fails' = fails + 1
        /\ UNCHANGED <<backed, room, holed>>
  /\ Attach(TRUE)
  /\ missed' = 0
  /\ UNCHANGED <<there, len, used, file_exist, mapVars, opens, crashes,
                 faulted>>
-----------------------------------------------------------------------------
\* The LogBuffer takes what it finds and Flush empties it: the block of an
\* earlier process is recovered.
Recover ==
  /\ pc = "attached"
  /\ used' = IF buffer = "mmap" THEN 0 ELSE used
  /\ pc' = "open"
  /\ UNCHANGED <<there, len, backed, room, file_exist, mapVars, buffer,
                 boundVars, historyVars>>

\* Lines reach the next page of the buffer.
WriteLine ==
  /\ pc = "open" /\ buffer = "mmap" /\ used < Pages
  /\ used < backed \/ room > 0
  /\ used' = used + 1
  /\ IF used < backed THEN UNCHANGED <<backed, room>>
     ELSE backed' = backed + 1 /\ room' = room - 1
  /\ UNCHANGED <<there, len, pc, file_exist, mapVars, buffer, boundVars,
                 historyVars>>

\* The background thread takes the block.
TakeBlock ==
  /\ pc = "open" /\ buffer = "mmap" /\ used > 0
  /\ used' = 0
  /\ UNCHANGED <<there, len, backed, room, pc, file_exist, mapVars, buffer,
                 boundVars, historyVars>>

\* kflog_appender_close, with a mapping it takes for one: all of it is
\* cleared.
CloseMapped ==
  /\ pc = "open" /\ data_ /\ ~error_
  /\ Pages <= backed + room
  /\ backed' = Pages /\ room' = room - (Pages - backed)
  /\ used' = 0
  /\ ClearMap(FALSE)
  /\ buffer' = "none" /\ pc' = "closed"
  /\ UNCHANGED <<there, len, file_exist, boundVars, historyVars>>

\* Mutant of CloseOther: closing the mapping does not clear the error.
CloseOtherSticky ==
  /\ pc = "open" /\ ~(data_ /\ ~error_)
  /\ ClearMap(error_)
  /\ buffer' = "none" /\ pc' = "closed"
  /\ UNCHANGED <<fileVars, room, file_exist, boundVars, historyVars>>

\* ... with heap memory, and perhaps a mapping that was not taken for one:
\* it is closed as it is, and the heap memory then is not freed.
CloseOther ==
  /\ pc = "open" /\ ~(data_ /\ ~error_)
  /\ ClearMap(error_ /\ ~data_)
  /\ buffer' = "none" /\ pc' = "closed"
  /\ UNCHANGED <<fileVars, room, file_exist, boundVars, historyVars>>
-----------------------------------------------------------------------------
ProcessEnds ==
  /\ pc' = "closed"
  /\ ClearMap(FALSE)
  /\ buffer' = "none"

\* The file is there and OpenMmapFile is not done with making it.
Creating == ~file_exist /\ pc \in {"truncate", "map", "fill", "remove"}

\* The process dies, anywhere.
Crash ==
  /\ crashes < MaxCrashes
  /\ crashes' = crashes + 1
  /\ holed' = (holed \/ Creating)
  /\ ProcessEnds
  /\ UNCHANGED <<fileVars, room, file_exist, opens, fails, missed, faulted>>

\* A page of the mapping is written for which the device has no place.
BusError ==
  /\ pc = "open"
  /\ \/ buffer = "mmap" /\ used < Pages /\ used = backed /\ room = 0
     \/ data_ /\ ~error_ /\ Pages > backed + room
  /\ faulted' = TRUE
  /\ ProcessEnds
  /\ UNCHANGED <<fileVars, room, file_exist, boundVars, missed, holed>>

\* Others write and remove files of their own.
DeviceChanges ==
  /\ \E r \in 0..Room : r # room /\ room' = r
  /\ UNCHANGED <<fileVars, pc, file_exist, mapVars, buffer, boundVars,
                 historyVars>>

OpenMmapFile ==
  \/ OpenFile \/ Truncate \/ Map \/ MapFails \/ MapEmpty
  \/ FillPage \/ FillFails \/ Remove \/ Fclose

Close == CloseMapped \/ CloseOther

Next ==
  \/ CallOpen \/ OpenMmapFile \/ Recover \/ WriteLine \/ TakeBlock \/ Close
  \/ Crash \/ BusError \/ DeviceChanges

Spec == Init /\ [][Next]_vars
-----------------------------------------------------------------------------
\* Every variable has its type.
TypeOK ==
  /\ there \in BOOLEAN
  /\ len \in {0, Pages}
  /\ backed \in 0..len /\ used \in 0..backed
  /\ room \in Nat
  /\ pc \in {"closed", "openfile", "truncate", "map", "fill", "remove",
             "attached", "open"}
  /\ file_exist \in BOOLEAN
  /\ data_ \in BOOLEAN /\ error_ \in BOOLEAN
  /\ buffer \in {"none", "mmap", "heap"}
  /\ opens \in Nat /\ crashes \in Nat /\ fails \in Nat
  /\ missed \in Nat
  /\ holed \in BOOLEAN /\ faulted \in BOOLEAN

\* The block that a dead process left in the file stays there until a session
\* maps the file and recovers it: opens that fail, sessions that run on heap
\* memory and their close do not touch it (mmap_util.cc:43, appender.cc:970).
BlockKept == [][used > 0 /\ buffer # "mmap" => used' = used]_vars

\* After a failure the error of the mapping outlives its cause, but for one
\* session only: no two opens in a row in which every call succeeds end with
\* heap memory (mmap_util.cc:18).  A file left empty is outside of it: it can
\* never be mapped and is never removed.
MissedOnce == missed <= 1

\* The device can be full at any time, and while the calls of the system do
\* what they are for and no process dies within OpenMmapFile, no page is ever
\* written that has no place: a file that could not be filled is removed
\* (mmap_util.cc:67), and no later session maps it.
BusExplained == faulted => holed \/ fails > 0
=============================================================================
