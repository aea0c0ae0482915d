-------------------------- MODULE PeriodLogsProofs --------------------------
(***************************************************************************)
(* The range GetPeriodLogs returns holds every block of the period and is  *)
(* no longer than it has to be, whatever the file holds: any number of     *)
(* blocks of any length and of any hours, torn ones between them, and any  *)
(* period.                                                                 *)
(***************************************************************************)
EXTENDS PeriodLogs, TLAPS

\* Where the tailer of the block that begins at p is, by its header.
TailerOf(f, p) == p + HeaderLen + f[p + 1].len

\* In the file f, the search finds a block at p.
BlockAt(f, p) ==
  /\ f[p + 1].k = "magic"
  /\ TailerOf(f, p) + TailerLen <= Len(f)
  /\ f[TailerOf(f, p) + 1].k = "e"

\* Every whole block is in the file, as it was noted when it was written.
Lies(f, b) ==
  /\ b.from < Len(f)
  /\ BlockAt(f, b.from)
  /\ b.to = TailerOf(f, b.from) + TailerLen
  /\ b.end = f[b.from + 1].end
  /\ b.begin = Least(f[b.from + 1].begin, b.end)

Laid == \A n \in DOMAIN blocks : Lies(file, blocks[n])

\* The blocks follow each other in the file; each begins before it ends.
Ordered ==
  /\ \A n \in DOMAIN blocks : blocks[n].begin <= blocks[n].end
  /\ \A m, n \in DOMAIN blocks : m < n => blocks[m].to <= blocks[n].from

\* Before the call the search has not begun; without a key it finds nothing.
Fresh ==
  /\ pos = 0 /\ ~find_begin_pos /\ last_end_hour = -1 /\ last_end_pos = 0
  /\ _begin_pos = 0 /\ _end_pos = 0

Before ==
  /\ pc = "write" => Fresh
  /\ pc # "write" => _begin_hour < _end_hour
  /\ ~crypt \/ ~find_begin_pos => ~find_begin_pos /\ _end_pos = 0
-----------------------------------------------------------------------------
\* The search has read block n.
Passed(n) == blocks[n].to <= pos

\* It stands between two blocks.
Between == \A n \in DOMAIN blocks : Passed(n) \/ pos <= blocks[n].from

\* The last block it has read, if there is one.
LastRead ==
  \/ /\ last_end_hour = -1 /\ last_end_pos = 0
     /\ \A n \in DOMAIN blocks : ~Passed(n)
  \/ \E l \in DOMAIN blocks :
       /\ Passed(l)
       /\ last_end_hour = blocks[l].end /\ last_end_pos = blocks[l].to
       /\ \A n \in DOMAIN blocks : Passed(n) => n <= l

\* _begin_pos is the begin of the first block read that ends in the period or
\* after it.
FirstFound ==
  /\ find_begin_pos =>
       \E f \in DOMAIN blocks :
         /\ Passed(f)
         /\ _begin_pos = blocks[f].from /\ _begin_hour <= blocks[f].end
         /\ \A n \in DOMAIN blocks : n < f => blocks[n].end < _begin_hour
  /\ ~find_begin_pos =>
       \A n \in DOMAIN blocks : Passed(n) => blocks[n].end < _begin_hour

\* _end_pos is the end of a block read that begins before the period is over.
\* Every such block is before it, or the last block read has ended before the
\* period is over, and _end_pos has still to move.
EndFound ==
  find_begin_pos =>
    IF pc = "done" /\ _end_hour > last_end_hour
    THEN _end_pos = Len(file)
    ELSE /\ \/ _end_pos = 0
            \/ \E l \in DOMAIN blocks :
                 /\ Passed(l)
                 /\ _end_pos = blocks[l].to /\ blocks[l].begin < _end_hour
         /\ \/ _end_hour > last_end_hour
            \/ \A n \in DOMAIN blocks :
                 Passed(n) /\ blocks[n].begin < _end_hour => blocks[n].to <= _end_pos

AllRead == pc \in {"found", "done"} => \A n \in DOMAIN blocks : Passed(n)

Right == Between /\ LastRead /\ FirstFound /\ EndFound /\ AllRead

Inv ==
  /\ TypeOK /\ Laid /\ Ordered /\ Before
  /\ pc # "write" /\ crypt /\ NoFalseTailer => Right
-----------------------------------------------------------------------------
\* A magic carries hours and the length of a body.
LEMMA MagicCell ==
  ASSUME NEW c \in Cells, c.k = "magic"
  PROVE  c.len \in BodyLens /\ c.len \in Nat /\ c.len > 0 /\ c.begin \in Hours /\ c.end \in Hours
<1>1. c \notin [k : {"h", "b", "e"}]
  OBVIOUS
<1>2. c \in [k : {"magic"}, begin : Hours, end : Hours, len : BodyLens]
  BY <1>1 DEF Cells
<1>3. c.len \in BodyLens /\ c.begin \in Hours /\ c.end \in Hours
  BY <1>2
<1>4. \A l \in BodyLens : l \in Nat \ {0}
  BY LenAssumption
<1>5. c.len \in Nat \ {0}
  BY <1>3, <1>4, Zenon
<1>6. QED
  BY <1>3, <1>5

\* What a block looks like in the file.
LEMMA BytesIs ==
  ASSUME NEW begin \in Hours, NEW end \in Hours, NEW len \in BodyLens
  PROVE  /\ Bytes(begin, end, len) \in Seq(Cells)
         /\ Len(Bytes(begin, end, len)) = HeaderLen + len + TailerLen
         /\ Bytes(begin, end, len)[1] =
              [k |-> "magic", begin |-> begin, end |-> end, len |-> len]
         /\ Bytes(begin, end, len)[HeaderLen + len + 1].k = "e"
<1> DEFINE size == HeaderLen + len + TailerLen
<1>1. len \in Nat /\ len > 0 /\ HeaderLen \in Nat /\ HeaderLen > 1 /\ size \in Nat
  BY LenAssumption DEF TailerLen
<1>2. [k |-> "magic", begin |-> begin, end |-> end, len |-> len] \in Cells
  BY DEF Cells
<1>3. \A x \in {"h", "b", "e"} : [k |-> x] \in Cells
  BY DEF Cells
<1>4. \A i \in 1 .. size : Bytes(begin, end, len)[i] \in Cells
  BY <1>2, <1>3 DEF Bytes
<1>5. Bytes(begin, end, len) \in [1 .. size -> Cells]
  BY <1>4 DEF Bytes
<1>6. Bytes(begin, end, len) \in Seq(Cells) /\ Len(Bytes(begin, end, len)) = size
  BY <1>1, <1>5
<1>7. 1 \in 1 .. size /\ HeaderLen + len + 1 \in 1 .. size
  BY <1>1 DEF TailerLen
<1>8. Bytes(begin, end, len)[HeaderLen + len + 1].k = "e"
  BY <1>1, <1>7 DEF Bytes
<1>9. QED
  BY <1>6, <1>7, <1>8 DEF Bytes

\* The file f has grown at its end, to g.
Grows(f, g) ==
  /\ f \in Seq(Cells) /\ g \in Seq(Cells)
  /\ Len(f) <= Len(g)
  /\ \A i \in 1 .. Len(f) : g[i] = f[i]

LEMMA AppendGrows ==
  ASSUME NEW f \in Seq(Cells), NEW s \in Seq(Cells)
  PROVE  /\ Grows(f, f \o s)
         /\ Len(f \o s) = Len(f) + Len(s)
         /\ \A i \in 1 .. Len(s) : (f \o s)[Len(f) + i] = s[i]
BY DEF Grows

\* What is at p stays there.
LEMMA BlockStays ==
  ASSUME NEW f, NEW g, Grows(f, g),
         NEW p \in Nat, p < Len(f), BlockAt(f, p)
  PROVE  /\ BlockAt(g, p) /\ TailerOf(g, p) = TailerOf(f, p)
         /\ g[p + 1] = f[p + 1]
<1> USE DEF Grows
<1>1. p + 1 \in 1 .. Len(f) /\ f[p + 1] \in Cells
  OBVIOUS
<1>2. f[p + 1].len \in Nat
  BY <1>1, MagicCell DEF BlockAt
<1>3. g[p + 1] = f[p + 1]
  BY <1>1
<1>4. TailerOf(g, p) = TailerOf(f, p) /\ TailerOf(f, p) \in Nat
  BY <1>2, <1>3, LenAssumption DEF TailerOf
<1>5. TailerOf(f, p) + 1 \in 1 .. Len(f)
  BY <1>4 DEF BlockAt, TailerLen
<1>6. g[TailerOf(f, p) + 1] = f[TailerOf(f, p) + 1]
  BY <1>5
<1>7. QED
  BY <1>3, <1>4, <1>5, <1>6 DEF BlockAt, TailerLen

LEMMA BlockFields ==
  ASSUME NEW b \in Blocks
  PROVE  /\ b.from \in Nat /\ b.to \in Nat
         /\ b.begin \in Hours /\ b.begin \in Nat /\ b.end \in Hours /\ b.end \in Nat
BY HourAssumption DEF Blocks, Hours

LEMMA LiesOn ==
  ASSUME NEW f, NEW g, Grows(f, g), NEW b \in Blocks, Lies(f, b)
  PROVE  Lies(g, b)
<1>1. b.from \in Nat /\ b.from < Len(f) /\ BlockAt(f, b.from)
  BY BlockFields DEF Lies
<1>2. /\ BlockAt(g, b.from) /\ TailerOf(g, b.from) = TailerOf(f, b.from)
      /\ g[b.from + 1] = f[b.from + 1]
  BY <1>1, BlockStays
<1>3. b.from < Len(g)
  BY <1>1 DEF Grows
<1>4. QED
  BY <1>2, <1>3 DEF Lies

LEMMA InitInv == Init => Inv
<1> SUFFICES ASSUME Init PROVE Inv
  OBVIOUS
<1>1. file \in Seq(Cells) /\ Len(file) = 0
  BY DEF Init
<1>2. blocks \in Seq(Blocks) /\ DOMAIN blocks = {}
  BY DEF Init
<1>3. TypeOK
  <2>1. crypt \in BOOLEAN
    BY CryptAssumption DEF Init
  <2>2. 0 \in Hours /\ 0 \in 0 .. LastHour + 1 /\ -1 \in -1 .. LastHour
    BY HourAssumption DEF Hours
  <2>3. {pos, last_end_pos, _begin_pos, _end_pos} \subseteq 0 .. Len(file)
    BY <1>1 DEF Init
  <2>4. QED
    BY <1>1, <1>2, <2>1, <2>2, <2>3 DEF Init, TypeOK
<1>4. Laid /\ Ordered
  BY <1>2 DEF Init, Laid, Ordered
<1>5. Before
  BY DEF Init, Before, Fresh
<1>6. QED
  BY <1>3, <1>4, <1>5 DEF Inv, Init

\* A block is written.
LEMMA WriteKeeps ==
  ASSUME TypeOK, Laid, Ordered, Before, Write
  PROVE  TypeOK' /\ Laid' /\ Ordered' /\ Before'
<1>1. PICK begin \in Hours, end \in Hours, len \in BodyLens :
        /\ file' = file \o Bytes(begin, end, len)
        /\ blocks' = Append(blocks,
             [from |-> Len(file), to |-> Len(file) + Len(Bytes(begin, end, len)),
              begin |-> Least(begin, end), end |-> end])
  BY DEF Write
<1> DEFINE B == Bytes(begin, end, len)
           new == [from |-> Len(file), to |-> Len(file) + Len(B),
                   begin |-> Least(begin, end), end |-> end]
<1>2. Least(begin, end) \in Hours /\ Least(begin, end) <= end
  BY HourAssumption DEF Hours, Least
<1>3. /\ B \in Seq(Cells) /\ Len(B) = HeaderLen + len + TailerLen
      /\ B[1] = [k |-> "magic", begin |-> begin, end |-> end, len |-> len]
      /\ B[HeaderLen + len + 1].k = "e"
  BY BytesIs
<1>4. /\ Grows(file, file')
      /\ Len(file) \in Nat /\ Len(file') = Len(file) + Len(B)
      /\ \A i \in 1 .. Len(B) : file'[Len(file) + i] = B[i]
  <2>1. file \in Seq(Cells) /\ B \in Seq(Cells) /\ file' = file \o B
    BY <1>1, <1>3 DEF TypeOK
  <2> HIDE DEF B
  <2>2. QED
    BY <2>1, AppendGrows
<1>5. len \in Nat /\ len > 0 /\ HeaderLen \in Nat /\ HeaderLen > 1 /\ TailerLen = 1
  BY LenAssumption DEF TailerLen
<1>6. new \in Blocks
  BY <1>2, <1>3, <1>4, <1>5 DEF Blocks
<1>7. /\ blocks \in Seq(Blocks) /\ blocks' \in Seq(Blocks)
      /\ DOMAIN blocks' = DOMAIN blocks \union {Len(blocks) + 1}
      /\ blocks'[Len(blocks) + 1] = new
      /\ \A n \in DOMAIN blocks : /\ blocks'[n] = blocks[n] /\ blocks[n] \in Blocks
                                  /\ n \in Nat /\ n < Len(blocks) + 1
  <2>1. blocks \in Seq(Blocks) /\ blocks' = Append(blocks, new)
    BY <1>1 DEF TypeOK
  <2> HIDE DEF new
  <2>2. QED
    BY <1>6, <2>1
<1>8. TypeOK'
  <2>1. UNCHANGED <<crypt, pc, asked, pos, found>> /\ written' = written + 1
    BY DEF Write
  <2>2. 0 .. Len(file) \subseteq 0 .. Len(file')
    BY <1>4 DEF Grows
  <2>3. {pos, last_end_pos, _begin_pos, _end_pos}' \subseteq 0 .. Len(file')
    BY <2>1, <2>2 DEF TypeOK, asked, found
  <2>4. file' \in Seq(Cells) /\ blocks' \in Seq(Blocks) /\ written' \in Nat
    BY <1>4, <1>7, <2>1 DEF TypeOK, Grows
  <2>5. QED
    BY <2>1, <2>3, <2>4 DEF TypeOK, asked, found
<1>9. Lies(file', new)
  <2>1. file'[Len(file) + 1] = B[1]
        /\ file'[Len(file) + (HeaderLen + len + 1)] = B[HeaderLen + len + 1]
    BY <1>3, <1>4, <1>5
  <2>2. file'[new.from + 1] = [k |-> "magic", begin |-> begin, end |-> end, len |-> len]
    BY <1>3, <2>1
  <2>3. TailerOf(file', new.from) = Len(file) + HeaderLen + len
    BY <1>4, <1>5, <2>2 DEF TailerOf
  <2>4. Len(file) + HeaderLen + len + 1 = Len(file) + (HeaderLen + len + 1)
    BY <1>4, <1>5
  <2>5. BlockAt(file', new.from)
    BY <1>3, <1>4, <1>5, <2>1, <2>2, <2>3, <2>4 DEF BlockAt
  <2>6. new.to = TailerOf(file', new.from) + TailerLen /\ new.from < Len(file')
    BY <1>3, <1>4, <1>5, <2>3
  <2>7. QED
    BY <2>2, <2>5, <2>6 DEF Lies
<1>10. Laid'
  <2>1. ASSUME NEW n \in DOMAIN blocks PROVE Lies(file', blocks'[n])
    BY <1>4, <1>7, LiesOn DEF Laid
  <2> HIDE DEF new
  <2>2. QED
    BY <1>7, <1>9, <2>1 DEF Laid
<1>11. Ordered'
  <2>1. ASSUME NEW n \in DOMAIN blocks PROVE blocks[n].to <= new.from
    <3>1. Lies(file, blocks[n])
      BY DEF Laid
    <3>2. QED
      BY <3>1 DEF Lies, BlockAt
  <2>2. ASSUME NEW n \in DOMAIN blocks'
        PROVE  blocks'[n].begin <= blocks'[n].end
    BY <1>2, <1>7 DEF Ordered
  <2>3. ASSUME NEW m \in DOMAIN blocks', NEW n \in DOMAIN blocks', m < n
        PROVE  blocks'[m].to <= blocks'[n].from
    <3>1. m \in DOMAIN blocks
      BY <1>7, <2>3
    <3>2. CASE n \in DOMAIN blocks
      BY <1>7, <2>3, <3>1, <3>2 DEF Ordered
    <3>3. CASE n = Len(blocks) + 1
      BY <1>7, <2>1, <3>1, <3>3
    <3>4. QED
      BY <1>7, <3>2, <3>3
  <2>4. QED
    BY <2>2, <2>3 DEF Ordered
<1>12. Before'
  BY DEF Write, Before, Fresh, asked, found
<1>13. QED
  BY <1>8, <1>10, <1>11, <1>12

\* The front of a block is written.
LEMMA WriteTornKeeps ==
  ASSUME TypeOK, Laid, Ordered, Before, WriteTorn
  PROVE  TypeOK' /\ Laid' /\ Ordered' /\ Before'
<1>1. PICK begin \in Hours, end \in Hours, len \in BodyLens :
        \E cut \in 1 .. HeaderLen + len :
          file' = file \o SubSeq(Bytes(begin, end, len), 1, cut)
  BY DEF WriteTorn
<1>2. len \in Nat /\ HeaderLen \in Nat
  BY LenAssumption
<1>3. Grows(file, file')
  <2>1. /\ Bytes(begin, end, len) \in Seq(Cells)
        /\ Len(Bytes(begin, end, len)) = HeaderLen + len + TailerLen
    BY BytesIs
  <2>2. PICK cut \in 1 .. HeaderLen + len :
          file' = file \o SubSeq(Bytes(begin, end, len), 1, cut)
    BY <1>1
  <2>3. cut \in Nat /\ cut <= Len(Bytes(begin, end, len))
    BY <1>2, <2>1 DEF TailerLen
  <2>4. SubSeq(Bytes(begin, end, len), 1, cut) \in Seq(Cells)
    BY <2>1, <2>3
  <2>5. file \in Seq(Cells)
    BY DEF TypeOK
  <2>6. QED
    BY <2>2, <2>4, <2>5, AppendGrows
<1>4. UNCHANGED <<blocks, crypt, pc, asked, pos, found>> /\ written' = written + 1
  BY DEF WriteTorn
<1>5. TypeOK'
  <2>1. file' \in Seq(Cells) /\ 0 .. Len(file) \subseteq 0 .. Len(file')
    BY <1>3 DEF Grows, TypeOK
  <2>2. {pos, last_end_pos, _begin_pos, _end_pos}' \subseteq 0 .. Len(file')
    BY <1>4, <2>1 DEF TypeOK, found
  <2>3. QED
    BY <1>4, <2>1, <2>2 DEF TypeOK, asked, found
<1>6. Laid'
  <2>1. ASSUME NEW n \in DOMAIN blocks PROVE blocks[n] \in Blocks
    BY DEF TypeOK
  <2>2. QED
    BY <1>3, <1>4, <2>1, LiesOn DEF Laid
<1>7. Ordered'
  BY <1>4 DEF Ordered
<1>8. Before'
  BY <1>4 DEF WriteTorn, Before, Fresh, asked, found
<1>9. QED
  BY <1>5, <1>6, <1>7, <1>8

\* The blocks are within the file.
LEMMA BlockPlaces ==
  ASSUME TypeOK, Laid, NEW n \in DOMAIN blocks
  PROVE  /\ n \in Nat /\ blocks[n] \in Blocks
         /\ blocks[n].from \in Nat /\ blocks[n].to \in Nat
         /\ blocks[n].begin \in Nat /\ blocks[n].end \in Nat
         /\ blocks[n].from + HeaderLen + TailerLen < blocks[n].to
         /\ blocks[n].from < blocks[n].to
         /\ blocks[n].to <= Len(file)
<1>1. n \in Nat /\ blocks[n] \in Blocks /\ Lies(file, blocks[n])
  BY DEF TypeOK, Laid
<1>2. /\ blocks[n].from \in Nat /\ blocks[n].to \in Nat
      /\ blocks[n].begin \in Nat /\ blocks[n].end \in Nat
  BY <1>1, BlockFields
<1>3. file[blocks[n].from + 1] \in Cells
  BY <1>1, <1>2 DEF Lies, TypeOK
<1>4. file[blocks[n].from + 1].len \in Nat /\ file[blocks[n].from + 1].len > 0
  BY <1>1, <1>3, MagicCell DEF Lies, BlockAt
<1>5. HeaderLen \in Nat /\ TailerLen = 1
  BY LenAssumption DEF TailerLen
<1>6. /\ blocks[n].to = blocks[n].from + HeaderLen + file[blocks[n].from + 1].len + TailerLen
      /\ blocks[n].to <= Len(file)
  BY <1>1 DEF Lies, BlockAt, TailerOf
<1>7. QED
  BY <1>1, <1>2, <1>4, <1>5, <1>6

\* The search begins.
LEMMA CallKeeps ==
  ASSUME TypeOK, Laid, Ordered, Before, Call
  PROVE  TypeOK' /\ Laid' /\ Ordered' /\ Before' /\ Right'
<1>1. UNCHANGED <<day, pos, found>> /\ pc = "write" /\ pc' = "scan"
  BY DEF Call
<1>2. _begin_hour' \in Hours /\ _end_hour' \in 0 .. LastHour + 1 /\ _begin_hour' < _end_hour'
  BY HourAssumption DEF Call, Hours
<1>3. TypeOK' /\ Laid' /\ Ordered'
  BY <1>1, <1>2 DEF TypeOK, Laid, Ordered, day, found
<1>4. Fresh /\ Fresh'
  BY <1>1 DEF Before, Fresh, found
<1>5. Before'
  BY <1>1, <1>2, <1>4 DEF Before, Fresh
<1>6. ASSUME NEW n \in DOMAIN blocks'
      PROVE  ~Passed(n)' /\ pos' <= blocks'[n].from
  <2>1. n \in DOMAIN blocks /\ blocks' = blocks /\ pos' = 0
    BY <1>1, <1>4 DEF day, Fresh
  <2>2. blocks[n].from \in Nat /\ blocks[n].to \in Nat /\ blocks[n].from < blocks[n].to
    BY <2>1, BlockPlaces
  <2>3. QED
    BY <2>1, <2>2 DEF Passed
<1>7. Right'
  BY <1>1, <1>4, <1>6
  DEF Right, Between, LastRead, FirstFound, EndFound, AllRead, Fresh
<1>8. QED
  BY <1>3, <1>5, <1>7
-----------------------------------------------------------------------------
\* Where no torn block can be mistaken, what the search takes for a block is
\* one.
LEMMA BlockHere ==
  ASSUME TypeOK, Laid, NoFalseTailer, ~TooShort, IsBlock
  PROVE  \E k \in DOMAIN blocks :
           /\ blocks[k].from = pos
           /\ blocks[k].to = TailerPos + TailerLen
           /\ blocks[k].end = Cell.end
           /\ blocks[k].begin = Least(Cell.begin, Cell.end)
<1>1. pos \in Nat /\ HeaderLen \in Nat /\ TailerLen = 1 /\ Len(file) \in Nat
  BY LenAssumption DEF TypeOK, TailerLen
<1>2. pos + 1 \in 1 .. Len(file)
  BY <1>1 DEF TooShort
<1>3. Cell \in Cells /\ Cell.len \in Nat
  BY <1>2, MagicCell DEF IsBlock, Cell, TypeOK
<1>4. PICK k \in 1 .. Len(blocks) : blocks[k].from = pos
  <2>1. /\ file[pos + 1].k = "magic"
        /\ (pos + 1) + HeaderLen + file[pos + 1].len <= Len(file)
        /\ file[(pos + 1) + HeaderLen + file[pos + 1].len].k = "e"
    <3>1. TailerPos + 1 = (pos + 1) + HeaderLen + file[pos + 1].len
      BY <1>1, <1>3 DEF TailerPos, Cell
    <3>2. QED
      BY <1>1, <3>1 DEF IsBlock, Cell
  <2>2. \E n \in 1 .. Len(blocks) : blocks[n].from = (pos + 1) - 1
    BY <1>2, <2>1 DEF NoFalseTailer
  <2>3. QED
    BY <1>1, <2>2
<1>5. k \in DOMAIN blocks /\ Lies(file, blocks[k])
  BY DEF TypeOK, Laid
<1>6. QED
  BY <1>4, <1>5 DEF Lies, TailerOf, TailerPos, Cell

\* Where the search finds no block, none begins.
LEMMA NoneHere ==
  ASSUME TypeOK, Laid, ~IsBlock, NEW n \in DOMAIN blocks
  PROVE  blocks[n].from # pos
BY DEF Laid, Lies, BlockAt, TailerOf, IsBlock, TailerPos, Cell

\* The search leaves the file alone.
LEMMA DayStays ==
  ASSUME Laid, Ordered, UNCHANGED day
  PROVE  /\ Laid' /\ Ordered'
         /\ file' = file /\ blocks' = blocks /\ crypt' = crypt
         /\ written' = written
         /\ NoFalseTailer' <=> NoFalseTailer
BY DEF day, Laid, Ordered, NoFalseTailer

LEMMA StopKeeps ==
  ASSUME Inv, Stop
  PROVE  Inv'
<1>1. TypeOK /\ Laid /\ Ordered /\ Before /\ UNCHANGED <<day, asked, pos, found>>
      /\ pc = "scan" /\ pc' = "found"
  BY DEF Inv, Stop
<1>2. /\ Laid' /\ Ordered' /\ file' = file /\ blocks' = blocks /\ crypt' = crypt
      /\ written' = written
      /\ NoFalseTailer' <=> NoFalseTailer
  BY <1>1, DayStays
<1>3. TypeOK' /\ Before'
  BY <1>1, <1>2 DEF TypeOK, Before, asked, found
<1>4. ASSUME Right PROVE Right'
  <2>1. ASSUME NEW n \in DOMAIN blocks PROVE Passed(n)
    <3>1. /\ pos \in Nat /\ HeaderLen \in Nat /\ TailerLen = 1 /\ Len(file) \in Nat
          /\ pos + HeaderLen + TailerLen > Len(file)
      BY <1>1, LenAssumption DEF TypeOK, Stop, TooShort, TailerLen
    <3>2. /\ blocks[n].from + HeaderLen + TailerLen < blocks[n].to
          /\ blocks[n].to <= Len(file)
          /\ blocks[n].from \in Nat /\ blocks[n].to \in Nat
      BY <1>1, BlockPlaces
    <3>3. ~(pos <= blocks[n].from)
      BY <3>1, <3>2
    <3>4. QED
      BY <1>4, <3>3 DEF Right, Between
  <2>2. QED
    BY <1>1, <1>2, <1>4, <2>1
    DEF Right, Between, LastRead, FirstFound, EndFound, AllRead, Passed,
        asked, found
<1>5. QED
  BY <1>1, <1>2, <1>3, <1>4 DEF Inv

LEMMA NoHourKeeps ==
  ASSUME Inv, NoHour
  PROVE  Inv'
<1>1. TypeOK /\ Laid /\ Ordered /\ Before /\ UNCHANGED <<day, asked, pos, found>>
      /\ pc = "scan" /\ pc' = "found" /\ ~crypt
  BY DEF Inv, NoHour
<1>2. /\ Laid' /\ Ordered' /\ file' = file /\ blocks' = blocks /\ crypt' = crypt
      /\ written' = written
  BY <1>1, DayStays
<1>3. TypeOK' /\ Before'
  BY <1>1, <1>2 DEF TypeOK, Before, asked, found
<1>4. QED
  BY <1>1, <1>2, <1>3 DEF Inv

LEMMA SkipKeeps ==
  ASSUME Inv, Skip
  PROVE  Inv'
<1>1. TypeOK /\ Laid /\ Ordered /\ Before /\ UNCHANGED <<day, pc, asked, found>>
      /\ pc = "scan" /\ pos' = pos + 1 /\ ~IsBlock /\ ~TooShort
  BY DEF Inv, Skip
<1>2. /\ Laid' /\ Ordered' /\ file' = file /\ blocks' = blocks /\ crypt' = crypt
      /\ written' = written
      /\ NoFalseTailer' <=> NoFalseTailer
  BY <1>1, DayStays
<1>3. pos \in Nat /\ pos + 1 \in 0 .. Len(file)
  BY <1>1, LenAssumption DEF TypeOK, TooShort, TailerLen
<1>4. TypeOK' /\ Before'
  BY <1>1, <1>2, <1>3 DEF TypeOK, Before, asked, found
<1>5. ASSUME Right PROVE Right'
  <2>1. ASSUME NEW n \in DOMAIN blocks
        PROVE  /\ Passed(n)' <=> Passed(n)
               /\ Passed(n) \/ pos + 1 <= blocks[n].from
    <3>1. blocks[n].from \in Nat /\ blocks[n].to \in Nat /\ blocks[n].from < blocks[n].to
      BY <1>1, BlockPlaces
    <3>2. blocks[n].from # pos
      BY <1>1, NoneHere
    <3>3. Passed(n) \/ pos + 1 <= blocks[n].from
      BY <1>3, <1>5, <3>1, <3>2 DEF Right, Between
    <3>4. QED
      BY <1>1, <1>2, <1>3, <3>1, <3>3 DEF Passed
  <2>2. QED
    BY <1>1, <1>2, <1>5, <2>1
    DEF Right, Between, LastRead, FirstFound, EndFound, AllRead, asked, found
<1>6. QED
  BY <1>1, <1>2, <1>4, <1>5 DEF Inv

LEMMA ReturnKeeps ==
  ASSUME Inv, Return
  PROVE  Inv'
<1>1. /\ TypeOK /\ Laid /\ Ordered /\ Before /\ UNCHANGED <<day, asked, pos>>
      /\ UNCHANGED <<find_begin_pos, last_end_hour, last_end_pos, _begin_pos>>
      /\ pc = "found" /\ pc' = "done"
      /\ _end_pos' = IF find_begin_pos /\ _end_hour > last_end_hour
                     THEN Len(file) ELSE _end_pos
  BY DEF Inv, Return
<1>2. /\ Laid' /\ Ordered' /\ file' = file /\ blocks' = blocks /\ crypt' = crypt
      /\ written' = written
      /\ NoFalseTailer' <=> NoFalseTailer
  BY <1>1, DayStays
<1>3. _end_pos' \in 0 .. Len(file)
  BY <1>1 DEF TypeOK
<1>4. TypeOK' /\ Before'
  BY <1>1, <1>2, <1>3 DEF TypeOK, Before, asked
<1>5. ASSUME Right PROVE Right'
  <2>1. _end_hour \in Int /\ last_end_hour \in Int
    BY <1>1, HourAssumption DEF TypeOK
  <2>2. Between' /\ LastRead' /\ FirstFound' /\ AllRead'
    BY <1>1, <1>2, <1>5
    DEF Right, Between, LastRead, FirstFound, AllRead, Passed, asked
  <2>3. EndFound'
    BY <1>1, <1>2, <1>5, <2>1 DEF Right, EndFound, Passed, asked
  <2>4. QED
    BY <2>2, <2>3 DEF Right
<1>6. QED
  BY <1>1, <1>2, <1>4, <1>5 DEF Inv

\* A block is read.
LEMMA ReadBlockTypes ==
  ASSUME TypeOK, Laid, Ordered, Before, ReadBlock
  PROVE  TypeOK' /\ Laid' /\ Ordered' /\ Before'
<1>1. /\ UNCHANGED <<day, pc, asked>> /\ pc = "scan" /\ crypt
      /\ ~TooShort /\ IsBlock
  BY DEF ReadBlock
<1>2. /\ Laid' /\ Ordered' /\ file' = file /\ blocks' = blocks /\ crypt' = crypt
      /\ written' = written
  BY <1>1, DayStays
<1>3. pos \in Nat /\ HeaderLen \in Nat /\ TailerLen = 1 /\ Len(file) \in Nat
  BY LenAssumption DEF TypeOK, TailerLen
<1>4. pos + 1 \in 1 .. Len(file)
  BY <1>1, <1>3 DEF TooShort
<1>5. Cell \in Cells
  BY <1>4 DEF Cell, TypeOK
<1>6. Cell.len \in Nat /\ Cell.end \in Hours /\ Cell.begin \in Hours
  BY <1>1, <1>5, MagicCell DEF IsBlock
<1>7. TailerPos + TailerLen \in 0 .. Len(file)
  BY <1>1, <1>3, <1>6 DEF IsBlock, TailerPos
<1>8. Cell.end \in -1 .. LastHour
  BY <1>6, HourAssumption DEF Hours
<1>9. EndsAt(Least(Cell.begin, Cell.end), Cell.end, TailerPos + TailerLen) \in 0 .. Len(file)
  BY <1>7 DEF EndsAt, TypeOK
<1>10. /\ find_begin_pos' \in BOOLEAN
       /\ last_end_hour' \in -1 .. LastHour
       /\ {pos, last_end_pos, _begin_pos, _end_pos}' \subseteq 0 .. Len(file)
  BY <1>7, <1>8, <1>9 DEF ReadBlock, TypeOK
<1>11. TypeOK'
  BY <1>1, <1>2, <1>10 DEF TypeOK, asked
<1>12. Before'
  <2>1. ~find_begin_pos' => ~find_begin_pos /\ _end_pos' = _end_pos
    BY DEF ReadBlock
  <2>2. QED
    BY <1>1, <1>2, <2>1 DEF Before, asked
<1>13. QED
  BY <1>2, <1>11, <1>12

LEMMA ReadBlockRight ==
  ASSUME TypeOK, Laid, Ordered, Before, Right, NoFalseTailer, ReadBlock
  PROVE  Right'
<1>1. /\ UNCHANGED <<day, pc, asked>> /\ pc = "scan" /\ pc' = "scan" /\ crypt
      /\ ~TooShort /\ IsBlock
  BY DEF ReadBlock
<1>2. blocks' = blocks /\ _begin_hour' = _begin_hour /\ _end_hour' = _end_hour
  BY <1>1 DEF day, asked
<1>3. PICK k \in DOMAIN blocks :
        /\ blocks[k].from = pos
        /\ blocks[k].to = TailerPos + TailerLen
        /\ blocks[k].end = Cell.end
        /\ blocks[k].begin = Least(Cell.begin, Cell.end)
  BY <1>1, BlockHere
<1> DEFINE from(n) == blocks[n].from
           to(n) == blocks[n].to
           b(n) == blocks[n].begin
           e(n) == blocks[n].end
           first == ~find_begin_pos /\ BeginsAt(b(k), e(k))
<1>4. /\ find_begin_pos' = (find_begin_pos \/ first)
      /\ _begin_pos' = IF first THEN from(k) ELSE _begin_pos
      /\ _end_pos' = IF find_begin_pos' THEN EndsAt(b(k), e(k), to(k)) ELSE _end_pos
      /\ last_end_hour' = e(k) /\ last_end_pos' = to(k) /\ pos' = to(k)
  BY <1>3 DEF ReadBlock
<1>5. ASSUME NEW n \in DOMAIN blocks
      PROVE  /\ n \in Nat /\ from(n) \in Nat /\ to(n) \in Nat /\ b(n) \in Nat /\ e(n) \in Nat
             /\ from(n) < to(n) /\ b(n) <= e(n)
  BY BlockPlaces DEF Ordered
<1>6. ASSUME NEW m \in DOMAIN blocks, NEW n \in DOMAIN blocks, m < n
      PROVE  to(m) <= from(n)
  BY <1>6 DEF Ordered
<1>7. /\ _begin_hour \in Nat /\ _end_hour \in Nat /\ _begin_hour < _end_hour
      /\ last_end_hour \in Int /\ _end_pos \in Nat /\ _begin_pos \in Nat /\ pos \in Nat
      /\ find_begin_pos \in BOOLEAN
  BY <1>1, HourAssumption DEF TypeOK, Hours, Before
<1>8. from(k) = pos
  BY <1>3
<1> HIDE DEF from, to, b, e
<1>9. ASSUME NEW n \in DOMAIN blocks
      PROVE  /\ Passed(n) <=> n < k
             /\ Passed(n)' <=> n <= k
  <2>1. Passed(n) <=> to(n) <= from(k)
    BY <1>8 DEF Passed, to
  <2>2. Passed(n)' <=> to(n) <= to(k)
    BY <1>2, <1>4 DEF Passed, to
  <2>3. CASE n < k
    BY <1>5, <1>6, <2>1, <2>2, <2>3
  <2>4. CASE n = k
    BY <1>5, <2>1, <2>2, <2>4
  <2>5. CASE n > k
    <3>1. to(k) <= from(n) /\ from(n) < to(n) /\ from(k) < to(k)
      BY <1>5, <1>6, <2>5
    <3>2. QED
      BY <1>5, <2>1, <2>2, <2>5, <3>1
  <2>6. QED
    BY <1>5, <2>3, <2>4, <2>5
<1>10. Between'
  <2>1. ASSUME NEW n \in DOMAIN blocks PROVE Passed(n)' \/ to(k) <= from(n)
    BY <1>5, <1>6, <1>9
  <2>2. QED
    BY <1>2, <1>4, <2>1 DEF Between, from
<1>11. LastRead'
  <2>1. Passed(k)' /\ \A n \in DOMAIN blocks : Passed(n)' => n <= k
    BY <1>5, <1>9
  <2>2. QED
    BY <1>2, <1>4, <2>1 DEF LastRead, to, e
<1>12. \/ /\ last_end_hour = -1 /\ last_end_pos = 0
          /\ \A n \in DOMAIN blocks : ~(n < k)
       \/ \E l \in DOMAIN blocks :
            /\ l < k /\ last_end_hour = e(l) /\ last_end_pos = to(l)
            /\ \A n \in DOMAIN blocks : n < k => n <= l
  BY <1>9 DEF Right, LastRead, e, to
<1>13. ~find_begin_pos => last_end_hour < _begin_hour
  <2>1. CASE last_end_hour = -1
    BY <1>7, <2>1
  <2>2. CASE \E l \in DOMAIN blocks : l < k /\ last_end_hour = e(l)
    BY <1>9, <2>2 DEF Right, FirstFound, e
  <2>3. QED
    BY <1>12, <2>1, <2>2
<1>14. ~find_begin_pos => (BeginsAt(b(k), e(k)) <=> _begin_hour <= e(k))
  <2>1. b(k) \in Nat /\ e(k) \in Nat /\ b(k) <= e(k)
    BY <1>5
  <2>2. QED
    BY <1>7, <1>13, <2>1 DEF BeginsAt
<1>15. FirstFound'
  <2>1. CASE find_begin_pos
    <3>1. PICK f \in DOMAIN blocks :
            /\ Passed(f)
            /\ _begin_pos = blocks[f].from /\ _begin_hour <= blocks[f].end
            /\ \A n \in DOMAIN blocks : n < f => blocks[n].end < _begin_hour
      BY <2>1 DEF Right, FirstFound
    <3>2. Passed(f)'
      BY <1>5, <1>9, <3>1
    <3>3. _begin_pos' = _begin_pos /\ find_begin_pos'
      BY <1>4, <2>1, Zenon
    <3>4. QED
      BY <1>2, <3>1, <3>2, <3>3 DEF FirstFound
  <2>2. CASE ~find_begin_pos
    <3>1. \A n \in DOMAIN blocks : n < k => e(n) < _begin_hour
      BY <1>9, <2>2 DEF Right, FirstFound, e
    <3>2. CASE _begin_hour <= e(k)
      <4>1. Passed(k)'
        BY <1>5, <1>9
      <4>2. find_begin_pos' /\ _begin_pos' = from(k)
        BY <1>4, <1>14, <2>2, <3>2, Zenon
      <4>3. QED
        BY <1>2, <3>1, <3>2, <4>1, <4>2 DEF FirstFound, from, e
    <3>3. CASE ~(_begin_hour <= e(k))
      <4>1. ~find_begin_pos'
        BY <1>4, <1>14, <2>2, <3>3
      <4>2. \A n \in DOMAIN blocks : Passed(n)' => e(n) < _begin_hour
        BY <1>5, <1>7, <1>9, <3>1, <3>3
      <4>3. QED
        BY <1>2, <4>1, <4>2 DEF FirstFound, e
    <3>4. QED
      BY <3>2, <3>3
  <2>3. QED
    BY <2>1, <2>2
<1>16. EndFound'
  <2> SUFFICES ASSUME find_begin_pos'
               PROVE  EndFound'
    BY DEF EndFound
  <2>1. _end_pos' = EndsAt(b(k), e(k), to(k))
    BY <1>4
  <2>2. /\ b(k) \in Nat /\ e(k) \in Nat /\ b(k) <= e(k) /\ k \in Nat
    BY <1>5
  <2>3. EndFound' <=>
          /\ \/ _end_pos' = 0
             \/ \E l \in DOMAIN blocks :
                  l <= k /\ _end_pos' = to(l) /\ b(l) < _end_hour
          /\ \/ _end_hour > e(k)
             \/ \A n \in DOMAIN blocks :
                  n <= k /\ b(n) < _end_hour => to(n) <= _end_pos'
    BY <1>1, <1>2, <1>4, <1>9 DEF EndFound, to, b
  <2>4. /\ \/ _end_pos = 0
           \/ \E l \in DOMAIN blocks :
                l < k /\ _end_pos = to(l) /\ b(l) < _end_hour
        /\ \/ _end_hour > last_end_hour
           \/ \A n \in DOMAIN blocks :
                n < k /\ b(n) < _end_hour => to(n) <= _end_pos
    <3>1. CASE find_begin_pos
      BY <1>1, <1>9, <3>1 DEF Right, EndFound, to, b
    <3>2. CASE ~find_begin_pos
      <4>1. _end_pos = 0
        BY <3>2 DEF Before
      <4>2. _end_hour > last_end_hour
        BY <1>7, <1>13, <3>2
      <4>3. QED
        BY <4>1, <4>2
    <3>3. QED
      BY <3>1, <3>2
  <2>5. ASSUME NEW m \in DOMAIN blocks, NEW n \in DOMAIN blocks, m <= n
        PROVE  to(m) <= to(n)
    <3>1. CASE m = n
      BY <1>5, <3>1
    <3>2. CASE m < n
      BY <1>5, <1>6, <3>2
    <3>3. QED
      BY <1>5, <2>5, <3>1, <3>2
  <2>6. CASE _end_hour > last_end_hour /\ _end_hour <= b(k)
    <3>1. _end_pos' = last_end_pos
      BY <2>1, <2>6 DEF EndsAt
    <3>2. ASSUME NEW n \in DOMAIN blocks, n <= k, b(n) < _end_hour
          PROVE  n < k
      BY <1>5, <1>7, <2>2, <2>6, <3>2
    <3>3. CASE last_end_pos = 0 /\ \A n \in DOMAIN blocks : ~(n < k)
      BY <2>3, <3>1, <3>2, <3>3
    <3>4. CASE \E l \in DOMAIN blocks :
                 /\ l < k /\ last_end_hour = e(l) /\ last_end_pos = to(l)
                 /\ \A n \in DOMAIN blocks : n < k => n <= l
      <4>1. PICK l \in DOMAIN blocks :
              /\ l < k /\ last_end_hour = e(l) /\ last_end_pos = to(l)
              /\ \A n \in DOMAIN blocks : n < k => n <= l
        BY <3>4
      <4>2. b(l) < _end_hour /\ l <= k
        BY <1>5, <1>7, <2>6, <4>1
      <4>3. \A n \in DOMAIN blocks : n <= k /\ b(n) < _end_hour => to(n) <= to(l)
        BY <2>5, <3>2, <4>1
      <4>4. QED
        BY <2>3, <3>1, <4>1, <4>2, <4>3
    <3>5. QED
      BY <1>12, <3>3, <3>4
  <2>7. CASE _end_hour > b(k) /\ _end_hour <= e(k)
    <3>1. ~(_end_hour <= b(k)) /\ b(k) < _end_hour /\ k <= k
      BY <1>7, <2>2, <2>7
    <3>2. _end_pos' = to(k)
      BY <2>1, <2>7, <3>1 DEF EndsAt
    <3>3. \A n \in DOMAIN blocks : n <= k => to(n) <= to(k)
      BY <2>5
    <3>4. QED
      BY <2>3, <3>1, <3>2, <3>3
  <2>8. CASE /\ ~(_end_hour > last_end_hour /\ _end_hour <= b(k))
             /\ ~(_end_hour > b(k) /\ _end_hour <= e(k))
    <3>1. _end_pos' = _end_pos
      BY <2>1, <2>8, Zenon DEF EndsAt
    <3>2. \/ _end_pos' = 0
          \/ \E l \in DOMAIN blocks :
               l <= k /\ _end_pos' = to(l) /\ b(l) < _end_hour
      BY <1>5, <2>4, <3>1
    <3>3. CASE _end_hour > e(k)
      BY <2>3, <3>2, <3>3
    <3>4. CASE ~(_end_hour > e(k))
      <4>1. _end_hour <= b(k) /\ ~(_end_hour > last_end_hour)
        BY <1>7, <2>2, <2>8, <3>4
      <4>2. ASSUME NEW n \in DOMAIN blocks, n <= k, b(n) < _end_hour
            PROVE  to(n) <= _end_pos'
        <5>1. n < k
          BY <1>5, <1>7, <2>2, <4>1, <4>2
        <5>2. QED
          BY <2>4, <3>1, <4>1, <4>2, <5>1
      <4>3. QED
        BY <2>3, <3>2, <4>2
    <3>5. QED
      BY <3>3, <3>4
  <2>9. QED
    BY <2>6, <2>7, <2>8
<1>17. AllRead'
  BY <1>1 DEF AllRead
<1>18. QED
  BY <1>10, <1>11, <1>15, <1>16, <1>17 DEF Right

LEMMA ReadBlockKeeps ==
  ASSUME Inv, ReadBlock
  PROVE  Inv'
<1>1. TypeOK /\ Laid /\ Ordered /\ Before /\ UNCHANGED day /\ pc = "scan" /\ crypt
  BY DEF Inv, ReadBlock
<1>2. NoFalseTailer' <=> NoFalseTailer
  BY <1>1, DayStays
<1>3. ASSUME NoFalseTailer PROVE Right'
  BY <1>1, <1>3, ReadBlockRight DEF Inv
<1>4. QED
  BY <1>1, <1>2, <1>3, ReadBlockTypes DEF Inv
-----------------------------------------------------------------------------
LEMMA Inductive == Inv /\ [Next]_vars => Inv'
<1> SUFFICES ASSUME Inv, [Next]_vars PROVE Inv'
  OBVIOUS
<1>1. TypeOK /\ Laid /\ Ordered /\ Before
  BY DEF Inv
<1>2. CASE Write
  <2>1. pc' = "write"
    BY <1>2 DEF Write
  <2>2. QED
    BY <1>1, <1>2, <2>1, WriteKeeps DEF Inv
<1>3. CASE WriteTorn
  <2>1. pc' = "write"
    BY <1>3 DEF WriteTorn
  <2>2. QED
    BY <1>1, <1>3, <2>1, WriteTornKeeps DEF Inv
<1>4. CASE Call
  BY <1>1, <1>4, CallKeeps DEF Inv
<1>5. CASE Scan
  BY <1>5, StopKeeps, SkipKeeps, NoHourKeeps, ReadBlockKeeps, ReturnKeeps DEF Scan
<1>6. CASE UNCHANGED vars
  <2>1. /\ TypeOK' /\ Laid' /\ Ordered' /\ Before' /\ pc' = pc /\ crypt' = crypt
        /\ NoFalseTailer' <=> NoFalseTailer
    BY <1>1, <1>6, DayStays DEF TypeOK, Before, Fresh, vars, day, asked, found
  <2>2. Right' <=> Right
    BY <1>6
    DEF Right, Between, LastRead, FirstFound, EndFound, AllRead, Passed,
        vars, day, asked, found
  <2>3. QED
    BY <1>1, <2>1, <2>2 DEF Inv
<1>7. QED
  BY <1>2, <1>3, <1>4, <1>5, <1>6 DEF Next

\* The invariant of the search holds in every state.
THEOREM InvHolds == Spec => []Inv
<1>1. Init => Inv
  BY InitInv
<1>2. Inv /\ [Next]_vars => Inv'
  BY Inductive
<1>3. QED
  BY <1>1, <1>2, PTL DEF Spec

\* Every variable of GetPeriodLogs has its type: no position it computes or
\* returns is outside the file.
THEOREM TypeCorrect == Spec => []TypeOK
<1>1. Inv => TypeOK
  BY DEF Inv
<1>2. QED
  BY <1>1, InvHolds, PTL

\* Where the range begins that a search has found.
LEMMA RangeBegins ==
  ASSUME Inv, pc = "done", crypt, NoFalseTailer, find_begin_pos
  PROVE  \E f \in DOMAIN blocks :
           /\ _begin_pos = blocks[f].from /\ blocks[f].end >= _begin_hour
           /\ \A n \in DOMAIN blocks :
                /\ blocks[n].end >= _begin_hour => f <= n
                /\ f <= n <=> _begin_pos <= blocks[n].from
<1>1. TypeOK /\ Laid /\ Ordered /\ Right
  BY DEF Inv
<1>2. PICK f \in DOMAIN blocks :
        /\ _begin_pos = blocks[f].from /\ _begin_hour <= blocks[f].end
        /\ \A m \in DOMAIN blocks : m < f => blocks[m].end < _begin_hour
  BY <1>1 DEF Right, FirstFound
<1>3. ASSUME NEW m \in DOMAIN blocks
      PROVE  /\ m \in Nat /\ blocks[m].from \in Nat /\ blocks[m].to \in Nat
             /\ blocks[m].end \in Nat /\ blocks[m].from < blocks[m].to
  BY <1>1, BlockPlaces
<1>4. _begin_hour \in Nat
  BY <1>1, HourAssumption DEF TypeOK, Hours
<1>5. ASSUME NEW n \in DOMAIN blocks
      PROVE  /\ blocks[n].end >= _begin_hour => f <= n
             /\ f <= n <=> _begin_pos <= blocks[n].from
  <2>1. CASE n < f
    <3>1. blocks[n].to <= blocks[f].from /\ blocks[n].end < _begin_hour
      BY <1>1, <1>2, <2>1 DEF Ordered
    <3>2. QED
      BY <1>2, <1>3, <1>4, <2>1, <3>1
  <2>2. CASE n = f
    BY <1>2, <1>3, <2>2
  <2>3. CASE f < n
    <3>1. blocks[f].to <= blocks[n].from
      BY <1>1, <2>3 DEF Ordered
    <3>2. QED
      BY <1>2, <1>3, <2>3, <3>1
  <2>4. QED
    BY <1>3, <2>1, <2>2, <2>3
<1>6. blocks[f].end >= _begin_hour
  BY <1>2, <1>3, <1>4
<1>7. QED
  BY <1>2, <1>5, <1>6

\* Where it ends.
LEMMA RangeEnds ==
  ASSUME Inv, pc = "done", crypt, NoFalseTailer, find_begin_pos,
         NEW n \in DOMAIN blocks
  PROVE  /\ blocks[n].begin < _end_hour => blocks[n].to <= _end_pos
         /\ blocks[n].to <= _end_pos =>
              \E l \in DOMAIN blocks :
                n <= l /\ blocks[l].begin < _end_hour /\ blocks[l].to <= _end_pos
         /\ ~(blocks[n].from < _end_pos /\ _end_pos < blocks[n].to)
<1>1. TypeOK /\ Laid /\ Ordered /\ Right
  BY DEF Inv
<1>2. ASSUME NEW m \in DOMAIN blocks
      PROVE  /\ m \in Nat /\ blocks[m].from \in Nat /\ blocks[m].to \in Nat
             /\ blocks[m].begin \in Nat /\ blocks[m].end \in Nat
             /\ blocks[m].from < blocks[m].to /\ blocks[m].begin <= blocks[m].end
             /\ blocks[m].to <= Len(file) /\ Passed(m)
  BY <1>1, BlockPlaces DEF Ordered, Right, AllRead
<1>3. _end_hour \in Nat /\ last_end_hour \in Int /\ Len(file) \in Nat
  BY <1>1, HourAssumption DEF TypeOK
<1>4. CASE _end_hour > last_end_hour
  <2>1. _end_pos = Len(file)
    BY <1>1, <1>4 DEF Right, EndFound
  <2>2. PICK l \in DOMAIN blocks :
          last_end_hour = blocks[l].end /\ \A m \in DOMAIN blocks : Passed(m) => m <= l
    BY <1>1, <1>2 DEF Right, LastRead
  <2>3. n <= l /\ blocks[l].begin < _end_hour /\ blocks[l].to <= _end_pos
    BY <1>2, <1>3, <1>4, <2>1, <2>2
  <2>4. QED
    BY <1>2, <1>3, <2>1, <2>3
<1>5. CASE ~(_end_hour > last_end_hour)
  <2>1. blocks[n].begin < _end_hour => blocks[n].to <= _end_pos
    BY <1>1, <1>2, <1>5 DEF Right, EndFound
  <2>2. CASE _end_pos = 0
    BY <1>2, <2>1, <2>2
  <2>3. CASE \E l \in DOMAIN blocks : _end_pos = blocks[l].to /\ blocks[l].begin < _end_hour
    <3>1. PICK l \in DOMAIN blocks : _end_pos = blocks[l].to /\ blocks[l].begin < _end_hour
      BY <2>3
    <3>2. CASE n < l
      <4>1. blocks[n].to <= blocks[l].from
        BY <1>1, <3>2 DEF Ordered
      <4>2. QED
        BY <1>2, <2>1, <3>1, <3>2, <4>1
    <3>3. CASE n = l
      BY <1>2, <2>1, <3>1, <3>3
    <3>4. CASE l < n
      <4>1. blocks[l].to <= blocks[n].from
        BY <1>1, <3>4 DEF Ordered
      <4>2. QED
        BY <1>2, <2>1, <3>1, <3>4, <4>1
    <3>5. QED
      BY <1>2, <3>2, <3>3, <3>4
  <2>4. QED
    BY <1>1, <1>5, <2>2, <2>3 DEF Right, EndFound
<1>6. QED
  BY <1>4, <1>5

\* Without a first block nothing is returned.
LEMMA NothingFound ==
  ASSUME Inv, ~crypt \/ ~find_begin_pos
  PROVE  ~Found
<1>1. _end_pos = 0 /\ _begin_pos \in Nat
  BY DEF Inv, Before, TypeOK
<1>2. QED
  BY <1>1 DEF Found

\* GetPeriodLogs misses no block of the period it is asked for, whatever torn
\* blocks it has to step over.
THEOREM MissesNone == Spec => []Complete
<1>1. Inv => Complete
  <2> SUFFICES ASSUME Inv, pc = "done", crypt, NoFalseTailer,
                      NEW n \in 1 .. Len(blocks), InPeriod(blocks[n])
               PROVE  Found /\ InRange(blocks[n])
    BY DEF Complete
  <2>1. TypeOK /\ Laid /\ Right
    BY DEF Inv
  <2>2. n \in DOMAIN blocks
    BY <2>1 DEF TypeOK
  <2>3. find_begin_pos
    <3>1. Passed(n) /\ blocks[n].end >= _begin_hour
      BY <2>1, <2>2 DEF Right, AllRead, InPeriod
    <3>2. blocks[n].end \in Nat /\ _begin_hour \in Nat
      BY <2>1, <2>2, BlockPlaces, HourAssumption DEF TypeOK, Hours
    <3>3. find_begin_pos \/ blocks[n].end < _begin_hour
      BY <2>1, <2>2, <3>1 DEF Right, FirstFound
    <3>4. QED
      BY <3>1, <3>2, <3>3
  <2>4. _begin_pos <= blocks[n].from /\ blocks[n].to <= _end_pos
    BY <2>2, <2>3, RangeBegins, RangeEnds DEF InPeriod
  <2>5. blocks[n].from \in Nat /\ blocks[n].to \in Nat /\ blocks[n].from < blocks[n].to
    BY <2>1, <2>2, BlockPlaces
  <2>6. _begin_pos \in Nat /\ _end_pos \in Nat
    BY <2>1 DEF TypeOK
  <2>7. QED
    BY <2>4, <2>5, <2>6 DEF Found, InRange
<1>2. QED
  BY <1>1, InvHolds, PTL

\* GetPeriodLogs takes no block that does not lie between two of those it has
\* to take, whatever the hours of the blocks.
THEOREM TakesNoMore == Spec => []Exact
<1>1. Inv => Exact
  <2> SUFFICES ASSUME Inv, pc = "done", Found, crypt, NoFalseTailer,
                      NEW n \in 1 .. Len(blocks), InRange(blocks[n])
               PROVE  /\ \E m \in 1 .. n :
                           blocks[m].end >= _begin_hour /\ InRange(blocks[m])
                      /\ \E m \in n .. Len(blocks) :
                           blocks[m].begin < _end_hour /\ InRange(blocks[m])
    BY DEF Exact
  <2>1. TypeOK /\ Laid /\ Ordered
    BY DEF Inv
  <2>2. DOMAIN blocks = 1 .. Len(blocks) /\ Len(blocks) \in Nat
    BY <2>1 DEF TypeOK
  <2>3. find_begin_pos
    BY NothingFound
  <2>4. /\ _begin_pos \in Nat /\ _end_pos \in Nat
        /\ _begin_pos <= blocks[n].from /\ blocks[n].to <= _end_pos
    BY <2>1 DEF TypeOK, InRange
  <2>5. ASSUME NEW m \in DOMAIN blocks
        PROVE  blocks[m].from \in Nat /\ blocks[m].to \in Nat /\ m \in Nat
               /\ blocks[m].from < blocks[m].to
    BY <2>1, BlockPlaces
  <2>6. PICK f \in DOMAIN blocks :
          /\ _begin_pos = blocks[f].from /\ blocks[f].end >= _begin_hour
          /\ \A m \in DOMAIN blocks : f <= m <=> _begin_pos <= blocks[m].from
    BY <2>3, RangeBegins
  <2>7. f <= n /\ f \in 1 .. n
    BY <2>2, <2>4, <2>5, <2>6
  <2>8. blocks[f].to <= _end_pos
    <3>1. CASE f = n
      BY <2>4, <3>1
    <3>2. CASE f < n
      <4>1. blocks[f].to <= blocks[n].from
        BY <2>1, <2>2, <3>2 DEF Ordered
      <4>2. QED
        BY <2>2, <2>4, <2>5, <4>1
    <3>3. QED
      BY <2>5, <2>7, <3>1, <3>2
  <2>9. InRange(blocks[f])
    BY <2>5, <2>6, <2>8 DEF InRange
  <2>10. PICK l \in DOMAIN blocks :
           n <= l /\ blocks[l].begin < _end_hour /\ blocks[l].to <= _end_pos
    BY <2>2, <2>3, <2>4, RangeEnds
  <2>11. f <= l /\ l \in n .. Len(blocks)
    BY <2>2, <2>5, <2>7, <2>10
  <2>12. InRange(blocks[l])
    BY <2>6, <2>10, <2>11 DEF InRange
  <2>13. QED
    BY <2>6, <2>7, <2>9, <2>10, <2>11, <2>12
<1>2. QED
  BY <1>1, InvHolds, PTL

\* What GetPeriodLogs returns begins with a header, and cuts no block in two.
THEOREM StartsOnBlocks == Spec => []OnBlocks
<1>1. Inv => OnBlocks
  <2> SUFFICES ASSUME Inv, pc = "done", Found, NoFalseTailer
               PROVE  /\ \E n \in 1 .. Len(blocks) : blocks[n].from = _begin_pos
                      /\ \A n \in 1 .. Len(blocks) :
                           ~(blocks[n].from < _end_pos /\ _end_pos < blocks[n].to)
    BY DEF OnBlocks
  <2>1. TypeOK /\ Laid /\ Right /\ crypt /\ find_begin_pos
    BY NothingFound DEF Inv
  <2>2. DOMAIN blocks = 1 .. Len(blocks)
    BY <2>1 DEF TypeOK
  <2>3. \E n \in 1 .. Len(blocks) : blocks[n].from = _begin_pos
    BY <2>1, <2>2 DEF Right, FirstFound
  <2>4. ASSUME NEW n \in 1 .. Len(blocks)
        PROVE  ~(blocks[n].from < _end_pos /\ _end_pos < blocks[n].to)
    BY <2>1, <2>2, RangeEnds
  <2>5. QED
    BY <2>3, <2>4
<1>2. QED
  BY <1>1, InvHolds, PTL
=============================================================================
