----------------------------- MODULE PeriodLogs -----------------------------
(***************************************************************************)
(* LogCrypt::GetPeriodLogs (log_crypt.cc): the part of a day's log file    *)
(* that holds the blocks of the hours from _begin_hour to before           *)
(* _end_hour.  The file is read block by block; where no block can be, it  *)
(* is read on from the next byte.                                          *)
(*                                                                         *)
(* A file is a sequence of cells, one for each byte: the first byte of a   *)
(* header stands for the header, "h" for its other bytes, "b" for a byte   *)
(* of a body, "e" for a tailer.  Bodies have no byte that looks like a     *)
(* magic.  A crash or a full disk leaves the front part of a block.        *)
(***************************************************************************)
EXTENDS Integers, Sequences

CONSTANTS HeaderLen,   \* bytes of a header
          BodyLens,    \* bytes of a body
          Crypts,      \* whether a public key is set: TRUE, FALSE or both
          LastHour,    \* 23 in the code
          MaxBlocks,   \* bound: blocks, torn ones included
          MaxTorn      \* bound: torn blocks

TailerLen == 1
ASSUME LenAssumption == HeaderLen \in Nat \ {0, 1} /\ BodyLens \subseteq Nat \ {0}
ASSUME CryptAssumption == Crypts \subseteq BOOLEAN
ASSUME HourAssumption == LastHour \in Nat
ASSUME BoundsAssumption == MaxBlocks \in Nat /\ MaxTorn \in Nat

VARIABLES
  file,      \* the bytes
  blocks,    \* the whole blocks in it: where each begins and ends, its hours
  crypt,     \* whether its blocks are encrypted: LogCrypt::is_crypt_
  written,   \* counter of the bound
  pc,        \* "write" while the day lasts, then "scan", "done"
  _begin_hour, _end_hour,      \* what GetPeriodLogs is asked for
  pos,                         \* ftell
  find_begin_pos, last_end_hour, last_end_pos, _begin_pos, _end_pos

asked == <<_begin_hour, _end_hour>>
found == <<find_begin_pos, last_end_hour, last_end_pos, _begin_pos, _end_pos>>
day == <<file, blocks, crypt, written>>
vars == <<day, pc, asked, pos, found>>
-----------------------------------------------------------------------------
Init ==
  /\ file = <<>> /\ blocks = <<>>
  /\ crypt \in Crypts /\ written = 0
  /\ pc = "write"
  /\ _begin_hour = 0 /\ _end_hour = 0
  /\ pos = 0
  /\ find_begin_pos = FALSE /\ last_end_hour = -1 /\ last_end_pos = 0
  /\ _begin_pos = 0 /\ _end_pos = 0

Least(a, b) == IF a < b THEN a ELSE b

\* The bytes of a block, as SetHeaderInfo, UpdateLogHour, UpdateLogLen and
\* SetTailerInfo leave them.
Bytes(begin, end, len) ==
  [i \in 1 .. HeaderLen + len + TailerLen |->
     IF i = 1 THEN [k |-> "magic", begin |-> begin, end |-> end, len |-> len]
     ELSE [k |-> IF i <= HeaderLen THEN "h"
                 ELSE IF i <= HeaderLen + len THEN "b" ELSE "e"]]

\* A block's end hour is the hour at which it was taken, its begin hour that
\* of its first line.  Nothing orders them from block to block: the block of
\* an earlier process is recovered behind a newer tip, a block may have been
\* begun the day before, and the clock may be set.
Hours == 0 .. LastHour

Write ==
  /\ pc = "write" /\ written < MaxBlocks
  /\ \E begin, end \in Hours, len \in BodyLens :
       LET b == Bytes(begin, end, len)
       IN  /\ file' = file \o b
           /\ blocks' = Append(blocks, [from |-> Len(file), to |-> Len(file) + Len(b),
                                        begin |-> Least(begin, end), end |-> end])
  /\ written' = written + 1
  /\ UNCHANGED <<crypt, pc, asked, pos, found>>

\* A crash, or a device that is full: only the front of a block is written.
WriteTorn ==
  /\ pc = "write" /\ written < MaxBlocks
  /\ written - Len(blocks) < MaxTorn
  /\ \E begin, end \in Hours, len \in BodyLens :
       \E cut \in 1 .. HeaderLen + len :
         file' = file \o SubSeq(Bytes(begin, end, len), 1, cut)
  /\ written' = written + 1
  /\ UNCHANGED <<blocks, crypt, pc, asked, pos, found>>

\* GetPeriodLogs is called, with a period that is not empty.
Call ==
  /\ pc = "write"
  /\ \E b \in 0 .. LastHour, e \in 1 .. LastHour + 1 :
       b < e /\ _begin_hour' = b /\ _end_hour' = e
  /\ pc' = "scan"
  /\ UNCHANGED <<day, pos, found>>
-----------------------------------------------------------------------------
Cell == file[pos + 1]    \* the byte at pos
TooShort == pos + HeaderLen + TailerLen > Len(file)

\* Where the block that starts at pos says its tailer is.
TailerPos == pos + HeaderLen + Cell.len

\* Mutant of IsBlock: the tailer is not looked at.
IsBlockByLength ==
  Cell.k = "magic" /\ TailerPos + TailerLen <= Len(file)

\* There is a block at pos: a magic, and a tailer where its length says.
IsBlock ==
  /\ Cell.k = "magic"
  /\ TailerPos + TailerLen <= Len(file)
  /\ file[TailerPos + 1].k = "e"

\* The loop ends: what is left is too short for a block.
Stop ==
  /\ pc = "scan" /\ TooShort
  /\ pc' = "found"
  /\ UNCHANGED <<day, asked, pos, found>>

\* Mutant of Skip: reading goes on where the last try stopped, behind the
\* header.
SkipHeader ==
  /\ pc = "scan" /\ ~TooShort /\ ~IsBlock
  /\ pos' = pos + HeaderLen
  /\ UNCHANGED <<day, pc, asked, found>>

\* No block is here: on with the next byte.
Skip ==
  /\ pc = "scan" /\ ~TooShort /\ ~IsBlock
  /\ pos' = pos + 1
  /\ UNCHANGED <<day, pc, asked, found>>

\* GetLogHour knows the magics of encrypted blocks only: the loop ends.
NoHour ==
  /\ pc = "scan" /\ ~TooShort /\ IsBlock
  /\ ~crypt
  /\ pc' = "found"
  /\ UNCHANGED <<day, asked, pos, found>>

\* The first block of the period.
BeginsAt(begin, end) ==
  \/ _begin_hour > begin /\ _begin_hour <= end
  \/ _begin_hour > last_end_hour /\ _begin_hour <= begin

\* Mutant of EndsAt: the block behind the period is taken with it.
EndsAtNext(begin, end, next) ==
  IF _end_hour > last_end_hour /\ _end_hour <= end THEN next ELSE _end_pos

\* The end of the period, as this block shows it.
EndsAt(begin, end, next) ==
  IF _end_hour > last_end_hour /\ _end_hour <= begin THEN last_end_pos
  ELSE IF _end_hour > begin /\ _end_hour <= end THEN next
  ELSE _end_pos

ReadBlock ==
  /\ pc = "scan" /\ ~TooShort /\ IsBlock
  /\ crypt
  /\ LET end == Cell.end
         begin == Least(Cell.begin, end)
         next == TailerPos + TailerLen
         first == ~find_begin_pos /\ BeginsAt(begin, end)
     IN  /\ find_begin_pos' = (find_begin_pos \/ first)
         /\ _begin_pos' = IF first THEN pos ELSE _begin_pos
         /\ _end_pos' = IF find_begin_pos' THEN EndsAt(begin, end, next) ELSE _end_pos
         /\ last_end_hour' = end
         /\ last_end_pos' = next
         /\ pos' = next
  /\ UNCHANGED <<day, pc, asked>>

\* After the loop: a period that outlasts the last block ends with the file.
Return ==
  /\ pc = "found"
  /\ _end_pos' = IF find_begin_pos /\ _end_hour > last_end_hour
                 THEN Len(file) ELSE _end_pos
  /\ pc' = "done"
  /\ UNCHANGED <<day, asked, pos,
                 find_begin_pos, last_end_hour, last_end_pos, _begin_pos>>

Scan == Stop \/ Skip \/ NoHour \/ ReadBlock \/ Return
Next == Write \/ WriteTorn \/ Call \/ Scan

Spec == Init /\ [][Next]_vars
-----------------------------------------------------------------------------
Cells == [k : {"magic"}, begin : Hours, end : Hours, len : BodyLens]
           \union [k : {"h", "b", "e"}]
Blocks == [from : Nat, to : Nat, begin : Hours, end : Hours]

\* Every variable has its type.
TypeOK ==
  /\ file \in Seq(Cells)
  /\ blocks \in Seq(Blocks)
  /\ pc \in {"write", "scan", "found", "done"}
  /\ crypt \in BOOLEAN /\ find_begin_pos \in BOOLEAN
  /\ written \in Nat
  /\ _begin_hour \in Hours /\ _end_hour \in 0 .. LastHour + 1
  /\ last_end_hour \in -1 .. LastHour
  /\ {pos, last_end_pos, _begin_pos, _end_pos} \subseteq 0 .. Len(file)

\* What GetPeriodLogs returns: whether there is a period in the file.
Found == _end_pos > _begin_pos

InPeriod(b) == b.end >= _begin_hour /\ b.begin < _end_hour
InRange(b) == _begin_pos <= b.from /\ b.to <= _end_pos

\* The front of a block that was cut off is not taken for a block by the
\* tailer of a later one, which happens to be where its length points.
NoFalseTailer ==
  \A i \in 1 .. Len(file) :
    LET t == i + HeaderLen + file[i].len
    IN  file[i].k = "magic" /\ t <= Len(file) /\ file[t].k = "e"
          => \E n \in 1 .. Len(blocks) : blocks[n].from = i - 1

\* No line is missed: in a file of encrypted blocks, every block with lines
\* of the period is in the range, whatever torn blocks are between.
Complete ==
  pc = "done" /\ crypt /\ NoFalseTailer =>
    \A n \in 1 .. Len(blocks) : InPeriod(blocks[n]) => Found /\ InRange(blocks[n])

\* No block too many: the range goes from a block that ends in the period or
\* after it to one that begins in the period or before it.  A block of other
\* hours is in it only where it lies between two such blocks.
Exact ==
  pc = "done" /\ Found /\ crypt /\ NoFalseTailer =>
    \A n \in 1 .. Len(blocks) : InRange(blocks[n]) =>
      /\ \E m \in 1 .. n : blocks[m].end >= _begin_hour /\ InRange(blocks[m])
      /\ \E m \in n .. Len(blocks) : blocks[m].begin < _end_hour /\ InRange(blocks[m])

\* The range begins with a block, never in the middle of one: a decoder can
\* start there.  It does not end within a whole block either.
OnBlocks ==
  pc = "done" /\ Found /\ NoFalseTailer =>
    /\ \E n \in 1 .. Len(blocks) : blocks[n].from = _begin_pos
    /\ \A n \in 1 .. Len(blocks) : ~(blocks[n].from < _end_pos /\ _end_pos < blocks[n].to)
=============================================================================
