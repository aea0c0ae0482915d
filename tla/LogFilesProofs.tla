--------------------------- MODULE LogFilesProofs ---------------------------
(***************************************************************************)
(* What is proved of the files for days and files of any size and any      *)
(* number of blocks, crashes, failures, moves and deletions.  However the  *)
(* clock goes, the state has its type and no block is in two files.  As    *)
(* long as it is not set back, a block that was written is kept, the       *)
(* reader of a day gets its blocks in order unless an operation fails, and *)
(* in Async mode no file grows past the limit.                             *)
(***************************************************************************)
EXTENDS LogFiles, SequenceTheorems, WellFoundedInduction, Integers, TLAPS

\* The clock only goes forward.
NeverBack == MaxBack = 0

\* What the property supposes: no cache, or no Sync mode.
Keeps == ~(UseCache /\ "Sync" \in Modes)

\* Where a call of __log2file can be, and where it has the file open.
InCall == {"openCache", "writeCache", "append", "remove", "openLog", "writeLog",
           "closeLog", "openFallback", "writeFallback"}
Writing == {"writeCache", "writeLog", "writeFallback"}

IsPath(p) == p.day \in Nat /\ p.dir \in Dirs /\ DOMAIN p = DOMAIN NoPath

\* The files of a disk d at time t: none was written before its day, or later
\* than now.
Good(d, t) ==
  \A p \in DOMAIN d :
    /\ IsPath(p)
    /\ d[p].data \in Seq(Nat) /\ d[p].at \in Nat
    /\ d[p].at <= t /\ p.day <= Day(d[p].at)

\* The state as far as the blocks depend on it.
Shape ==
  /\ clock \in Nat \ {0} /\ blocks \in Nat /\ backs \in Nat
  /\ UseCache \in BOOLEAN /\ sg_mode \in Modes
  /\ Good(disk, clock)
  /\ buf \in Seq(Nat)
  /\ last.time \in Nat /\ last.time <= clock
  /\ job.block \in Nat /\ job.time \in Nat /\ job.time <= clock
  /\ DOMAIN job = DOMAIN NoJob
  /\ pc \in InCall \union {"idle", "mover", "moverRemove"}

\* The open file is the day's; its name is gone only when the day is over.
FileOpen ==
  /\ DOMAIN sg_logfile = DOMAIN NoFile
  /\ Open => /\ sg_logfile.time \in Nat /\ sg_logfile.time <= clock
             /\ IsPath(sg_logfile.path)
             /\ sg_logfile.path.day = Day(sg_logfile.time)
             /\ sg_logfile.linked \in BOOLEAN
             /\ sg_logfile.linked => sg_logfile.path \in DOMAIN disk
             /\ ~sg_logfile.linked => Day(sg_logfile.time) < Day(clock - 1)
  /\ ~Open => buf = << >>

\* A call is over before the clock has gone on twice, and writes to the file
\* of its day.
Timely ==
  /\ pc \in InCall => clock <= job.time + 1
  /\ pc \in Writing => Open /\ Day(job.time) <= Day(sg_logfile.time)

\* With a cache every call closes the file; without one nothing is moved.
Places ==
  /\ UseCache => (pc \in Writing \/ ~Open) /\ buf = << >>
  /\ ~UseCache => ~mover.due /\ pc \in {"idle", "openLog", "writeLog"}
  /\ DOMAIN mover = {"due", "now", "todo"}
  /\ \A p \in mover.todo : p.dir = "cache" /\ IsPath(p)
  /\ pc \in InCall \union {"moverRemove"} => job.path.dir = "cache"

\* A file that is to be deleted is of a day that is over, and old.
Sweeping ==
  /\ DOMAIN sweep = {"due", "now", "todo", "victim"}
  /\ sweep.now \in Nat /\ sweep.now <= clock
  /\ sweep.victim # NoPath =>
       /\ sweep.victim.day \in Nat /\ sweep.victim.day < Day(clock - 1)
       /\ sweep.now > AliveTime
       /\ sweep.victim.day <= Day(sweep.now - AliveTime - 1)

\* The blocks in the files of d.
BlocksOf(d) == UNION {Elems(d[p].data) : p \in DOMAIN d}

\* A cached file is removed when its blocks are elsewhere.
Moved ==
  pc \in {"remove", "moverRemove"} =>
    BlocksOf(disk) \subseteq BlocksOf(Removed(disk, job.path)) \union lost

\* The inductive invariant.
KeepInv ==
  /\ Shape /\ FileOpen /\ Timely /\ Places /\ Sweeping /\ Moved
  /\ written \subseteq BlocksOf(disk) \union InBuffer \union lost
-----------------------------------------------------------------------------
(* Days.                                                                    *)

\* A time and its day.
LEMMA DayOf ==
  ASSUME NEW t \in Nat
  PROVE  /\ Day(t) \in Nat
         /\ DayLen * Day(t) \in Nat
         /\ DayLen * Day(t) <= t /\ t < (DayLen * Day(t)) + DayLen
<1>1. DayLen \in Nat \ {0}
  BY FilesAssumption
<1>2. \A b \in Nat \ {0} : /\ t \div b \in Nat /\ b * (t \div b) \in Nat
                           /\ b * (t \div b) <= t
                           /\ t < (b * (t \div b)) + b
  OBVIOUS
<1>3. QED
  BY <1>1, <1>2 DEF Day

\* The product grows with the factor.
LEMMA Grows ==
  ASSUME NEW b \in Nat, NEW p \in Nat, NEW q \in Nat, p < q
  PROVE  b * p \in Nat /\ b * q \in Nat /\ (b * p) + b <= b * q
<1>1. PICK k \in Nat : q = p + 1 + k
  <2>1. q - p - 1 \in Nat /\ q = p + 1 + (q - p - 1)
    OBVIOUS
  <2>2. QED
    BY <2>1
<1>2. /\ b * (p + 1 + k) = (b * p) + b + (b * k)
      /\ b * p \in Nat /\ b * k \in Nat
  OBVIOUS
<1>3. QED
  BY <1>1, <1>2

\* Days do not go back.
LEMMA DayMonotone ==
  ASSUME NEW a \in Nat, NEW b \in Nat, a <= b
  PROVE  Day(a) <= Day(b)
<1> DEFINE u == DayLen * Day(a)
           v == DayLen * Day(b)
<1>1. /\ u \in Nat /\ v \in Nat /\ u <= a /\ b < v + DayLen
      /\ Day(a) \in Nat /\ Day(b) \in Nat /\ DayLen \in Nat
  BY DayOf, FilesAssumption
<1>2. ASSUME Day(b) < Day(a) PROVE FALSE
  <2>1. v + DayLen <= u
    BY <1>1, <1>2, Grows
  <2> HIDE DEF u, v
  <2>2. QED
    BY <1>1, <2>1
<1>3. QED
  BY <1>1, <1>2

\* What is older than the time to live is of a day that had begun before.
LEMMA DayOld ==
  ASSUME NEW a \in Nat, NEW n \in Nat, NEW d \in Nat,
         n > a, n - a > AliveTime, d <= Day(a)
  PROVE  n > AliveTime /\ d <= Day(n - AliveTime - 1)
<1> DEFINE m == n - AliveTime - 1
<1>1. AliveTime \in Nat
  BY FilesAssumption
<1>2. m \in Nat /\ a <= m /\ n > AliveTime
  BY <1>1
<1>3. Day(a) <= Day(m) /\ Day(a) \in Nat /\ Day(m) \in Nat
  BY <1>2, DayMonotone, DayOf
<1> HIDE DEF m
<1>4. d <= Day(m)
  BY <1>3
<1>5. QED
  BY <1>2, <1>4 DEF m

\* What is more than a day old is of a day that was over a tick ago.
LEMMA DayOver ==
  ASSUME NEW a \in Nat, NEW n \in Nat, NEW d \in Nat,
         n > a, n - a > DayLen, d <= Day(a)
  PROVE  d < Day(n - 1)
<1> DEFINE m == n - 1
           u == DayLen * Day(a)
           v == DayLen * Day(m)
<1>1. DayLen \in Nat \ {0} /\ m \in Nat /\ m >= a + DayLen
  BY FilesAssumption
<1>2. /\ u \in Nat /\ v \in Nat /\ u <= a /\ m < v + DayLen
      /\ Day(a) \in Nat /\ Day(m) \in Nat
  BY <1>1, DayOf
<1>3. u < v
  <2> HIDE DEF u, v, m
  <2>1. QED
    BY <1>1, <1>2
<1>4. ASSUME Day(m) <= Day(a) PROVE FALSE
  <2>1. CASE Day(m) = Day(a)
    BY <1>2, <1>3, <2>1
  <2>2. CASE Day(m) < Day(a)
    <3>1. v + DayLen <= u
      BY <1>1, <1>2, <2>2, Grows
    <3> HIDE DEF u, v, m
    <3>2. QED
      BY <1>1, <1>2, <1>3, <3>1
  <2>3. QED
    BY <1>2, <1>4, <2>1, <2>2
<1>5. Day(a) < Day(m)
  BY <1>2, <1>4
<1> HIDE DEF m
<1>6. d < Day(m)
  BY <1>2, <1>5
<1>7. QED
  BY <1>6 DEF m
-----------------------------------------------------------------------------
(* Files.                                                                   *)

\* The elements of a concatenation are those of its parts.
LEMMA ElemsConcat ==
  ASSUME NEW s \in Seq(Nat), NEW t \in Seq(Nat)
  PROVE  s \o t \in Seq(Nat) /\ Elems(s \o t) = Elems(s) \union Elems(t)
<1> DEFINE u == s \o t
<1>1. /\ u \in Seq(Nat) /\ Len(u) = Len(s) + Len(t)
      /\ Len(s) \in Nat /\ Len(t) \in Nat
      /\ DOMAIN s = 1..Len(s) /\ DOMAIN t = 1..Len(t)
      /\ \A i \in 1..Len(s) + Len(t) :
           u[i] = IF i <= Len(s) THEN s[i] ELSE t[i - Len(s)]
  BY ConcatProperties, LenProperties
<1>2. DOMAIN u = 1..Len(s) + Len(t)
  BY <1>1, LenProperties
<1> HIDE DEF u
<1>3. ASSUME NEW i \in DOMAIN u PROVE u[i] \in Elems(s) \union Elems(t)
  <2>1. CASE i <= Len(s)
    BY <1>1, <1>2, <2>1 DEF Elems
  <2>2. CASE ~(i <= Len(s))
    <3>1. i - Len(s) \in DOMAIN t /\ u[i] = t[i - Len(s)]
      BY <1>1, <1>2, <2>2
    <3>2. QED
      BY <3>1 DEF Elems
  <2>3. QED
    BY <2>1, <2>2
<1>4. ASSUME NEW i \in DOMAIN s PROVE s[i] \in Elems(u)
  <2>1. i \in DOMAIN u /\ u[i] = s[i]
    BY <1>1, <1>2
  <2>2. QED
    BY <2>1 DEF Elems
<1>5. ASSUME NEW i \in DOMAIN t PROVE t[i] \in Elems(u)
  <2>1. i + Len(s) \in DOMAIN u /\ u[i + Len(s)] = t[i]
    <3>1. /\ i + Len(s) \in 1..Len(s) + Len(t)
          /\ ~(i + Len(s) <= Len(s)) /\ (i + Len(s)) - Len(s) = i
      BY <1>1
    <3>2. QED
      BY <1>1, <1>2, <3>1
  <2>2. QED
    BY <2>1 DEF Elems
<1>6. Elems(u) = Elems(s) \union Elems(t)
  BY <1>3, <1>4, <1>5 DEF Elems
<1>7. QED
  BY <1>1, <1>6 DEF u

\* A block more, and none.
LEMMA ElemsOfFew ==
  /\ << >> \in Seq(Nat) /\ Elems(<< >>) = {}
  /\ \A s \in Seq(Nat), b \in Nat :
       Append(s, b) \in Seq(Nat) /\ Elems(Append(s, b)) = Elems(s) \union {b}
<1>1. << >> \in Seq(Nat) /\ Elems(<< >>) = {}
  BY EmptySeq DEF Elems
<1>2. ASSUME NEW s \in Seq(Nat), NEW b \in Nat
      PROVE  Append(s, b) \in Seq(Nat) /\ Elems(Append(s, b)) = Elems(s) \union {b}
  <2> DEFINE t == <<b>>
  <2>1. t \in Seq(Nat) /\ Elems(t) = {b} /\ Append(s, b) = s \o t
    BY AppendIsConcat DEF Elems
  <2> HIDE DEF t
  <2>2. QED
    BY <2>1, ElemsConcat
<1>3. QED
  BY <1>1, <1>2

\* What an append of bs to the file p of d makes of the files: e.
Grown(d, p, bs, e) ==
  /\ DOMAIN e = DOMAIN d \union {p}
  /\ \A q \in DOMAIN d \ {p} : e[q] = d[q]
  /\ e[p].at \in Nat /\ e[p].at <= clock
  /\ e[p].at = clock \/ (p \in DOMAIN d /\ e[p].at = d[p].at)
  /\ e[p].data \in Seq(Nat)
  /\ Elems(bs) \subseteq Elems(e[p].data)
  /\ p \in DOMAIN d => Elems(e[p].data) = Elems(d[p].data) \union Elems(bs)
  /\ p \notin DOMAIN d => Elems(e[p].data) = Elems(bs)

\* An append changes one file only.
LEMMA AppendedFile ==
  ASSUME NEW d, NEW p, NEW bs \in Seq(Nat),
         clock \in Nat, Good(d, clock)
  PROVE  Grown(d, p, bs, Appended(d, p, bs))
<1> DEFINE e == Appended(d, p, bs)
<1>1. CASE bs = << >> /\ p \in DOMAIN d
  BY <1>1, ElemsOfFew DEF Appended, Good, Grown
<1>2. CASE ~(bs = << >> /\ p \in DOMAIN d)
  <2>1. /\ DOMAIN e = DOMAIN d \union {p}
        /\ \A q \in DOMAIN d \ {p} : e[q] = d[q]
        /\ e[p] = [data |-> IF p \in DOMAIN d THEN d[p].data \o bs ELSE bs,
                   at |-> clock]
    BY <1>2 DEF Appended
  <2> HIDE DEF e
  <2>2. /\ e[p].at = clock /\ e[p].data \in Seq(Nat)
        /\ Elems(e[p].data)
             = (IF p \in DOMAIN d THEN Elems(d[p].data) ELSE {}) \union Elems(bs)
    BY <2>1, ElemsConcat DEF Good
  <2>3. QED
    BY <2>1, <2>2 DEF e, Grown
<1>3. QED
  BY <1>1, <1>2

\* After an append the files are good.
LEMMA AppendedGood ==
  ASSUME NEW d, NEW p, NEW bs \in Seq(Nat),
         clock \in Nat, Good(d, clock), IsPath(p), p.day <= Day(clock)
  PROVE  /\ Good(Appended(d, p, bs), clock)
         /\ DOMAIN Appended(d, p, bs) = DOMAIN d \union {p}
<1> DEFINE e == Appended(d, p, bs)
<1>1. Grown(d, p, bs, e)
  BY AppendedFile
<1> HIDE DEF e
<1>2. Good(e, clock)
  BY <1>1 DEF Good, Grown
<1>3. QED
  BY <1>1, <1>2 DEF e, Grown

\* They have the blocks they had and the new ones.
LEMMA AppendedBlocks ==
  ASSUME NEW d, NEW p, NEW bs \in Seq(Nat),
         clock \in Nat, Good(d, clock)
  PROVE  BlocksOf(Appended(d, p, bs)) = BlocksOf(d) \union Elems(bs)
<1> DEFINE e == Appended(d, p, bs)
<1>0. Grown(d, p, bs, e)
  BY AppendedFile
<1> HIDE DEF e
<1>1. /\ DOMAIN e = DOMAIN d \union {p}
      /\ \A q \in DOMAIN d \ {p} : e[q] = d[q]
      /\ p \in DOMAIN d => Elems(e[p].data) = Elems(d[p].data) \union Elems(bs)
      /\ p \notin DOMAIN d => Elems(e[p].data) = Elems(bs)
  BY <1>0 DEF Grown
<1>2. BlocksOf(e) = BlocksOf(d) \union Elems(bs)
  <2>1. CASE p \in DOMAIN d
    <3>1. BlocksOf(e) = (UNION {Elems(d[q].data) : q \in DOMAIN d \ {p}})
                          \union Elems(e[p].data)
      BY <1>1, <2>1 DEF BlocksOf
    <3>2. BlocksOf(d) = (UNION {Elems(d[q].data) : q \in DOMAIN d \ {p}})
                          \union Elems(d[p].data)
      BY <2>1 DEF BlocksOf
    <3>3. QED
      BY <1>1, <2>1, <3>1, <3>2
  <2>2. CASE p \notin DOMAIN d
    <3>1. BlocksOf(e) = (UNION {Elems(d[q].data) : q \in DOMAIN d})
                          \union Elems(e[p].data)
      BY <1>1, <2>2 DEF BlocksOf
    <3>2. QED
      BY <1>1, <2>2, <3>1 DEF BlocksOf
  <2>3. QED
    BY <2>1, <2>2
<1>3. QED
  BY <1>2 DEF e

\* A file less.
LEMMA RemovedGood ==
  ASSUME NEW d, NEW t, Good(d, t), NEW p
  PROVE  /\ Good(Removed(d, p), t)
         /\ DOMAIN Removed(d, p) = DOMAIN d \ {p}
         /\ BlocksOf(d) = BlocksOf(Removed(d, p))
              \union (IF p \in DOMAIN d THEN Elems(d[p].data) ELSE {})
         /\ \A q \in DOMAIN d \ {p} : Removed(d, p)[q] = d[q]
<1>1. DOMAIN Removed(d, p) = DOMAIN d \ {p}
      /\ \A q \in DOMAIN d \ {p} : Removed(d, p)[q] = d[q]
  BY DEF Removed
<1>2. QED
  BY <1>1 DEF Good, BlocksOf

\* The files and what closing the open one makes of them.
LEMMA FlushedGood ==
  ASSUME Shape, FileOpen
  PROVE  /\ Good(Flushed(disk), clock)
         /\ DOMAIN Flushed(disk) = DOMAIN disk
         /\ BlocksOf(Flushed(disk)) = BlocksOf(disk) \union InBuffer
<1>1. CASE Open /\ sg_logfile.linked
  <2>1. /\ IsPath(sg_logfile.path) /\ sg_logfile.path \in DOMAIN disk
        /\ sg_logfile.path.day <= Day(clock)
    BY <1>1, DayMonotone DEF FileOpen, Shape
  <2>2. Flushed(disk) = Appended(disk, sg_logfile.path, buf)
    BY <1>1 DEF Flushed
  <2>3. Good(disk, clock) /\ clock \in Nat /\ buf \in Seq(Nat)
    BY DEF Shape
  <2>4. /\ Good(Appended(disk, sg_logfile.path, buf), clock)
        /\ DOMAIN Appended(disk, sg_logfile.path, buf)
             = DOMAIN disk \union {sg_logfile.path}
        /\ BlocksOf(Appended(disk, sg_logfile.path, buf))
             = BlocksOf(disk) \union Elems(buf)
    BY <2>1, <2>3, AppendedGood, AppendedBlocks
  <2>5. QED
    BY <1>1, <2>1, <2>2, <2>4 DEF InBuffer
<1>2. CASE ~(Open /\ sg_logfile.linked)
  BY <1>2 DEF Flushed, Shape, InBuffer
<1>3. QED
  BY <1>1, <1>2

\* A file of today in one of the directories.
LEMMA NameIsPath ==
  ASSUME NEW d, NEW dir \in Dirs, NEW t \in Nat
  PROVE  /\ IsPath(LogFileName(d, dir, t))
         /\ LogFileName(d, dir, t).dir = dir /\ LogFileName(d, dir, t).day = Day(t)
BY DayOf DEF LogFileName, IsPath, NoPath

\* With a cache the mode is Async.
LEMMA CacheIsAsync ==
  ASSUME Keeps, Shape, UseCache
  PROVE  sg_mode = "Async" /\ Dirs = {"log", "cache"}
BY FilesAssumption DEF Keeps, Shape, Dirs

-----------------------------------------------------------------------------
(* Steps keep what is written.                                              *)

\* The program starts with no block.
LEMMA KeepInit == Init => KeepInv
<1> SUFFICES ASSUME Init PROVE KeepInv
  OBVIOUS
<1>1. /\ DOMAIN disk = {} /\ ~Open /\ buf = << >> /\ clock = 1
      /\ pc = "idle" /\ job = NoJob /\ mover = MoverDue /\ sweep = SweepDue
      /\ written = {}
  BY DEF Init, Open
<1>2. Shape
  BY <1>1, ElemsOfFew, FilesAssumption
     DEF Init, Shape, Good, NoJob
<1>3. FileOpen /\ Timely /\ Moved
  BY <1>1 DEF Init, FileOpen, Timely, InCall, Writing, Moved, NoFile
<1>4. Places
  BY <1>1 DEF Places, MoverDue, InCall
<1>5. Sweeping
  BY <1>1 DEF Sweeping, SweepDue
<1>6. QED
  BY <1>1, <1>2, <1>3, <1>4, <1>5 DEF KeepInv

\* A call begins.
LEMMA BeginKeeps ==
  ASSUME Keeps, KeepInv, UNCHANGED UseCache,
         NEW move \in BOOLEAN, NEW roomy \in BOOLEAN, Log2File(move, roomy)
  PROVE  KeepInv'
<1> USE DEF KeepInv, openFile, threads, Open, Dirs
<1> DEFINE path == LogFileName(disk, "cache", clock)
<1>1. /\ clock \in Nat /\ blocks \in Nat /\ pc = "idle"
      /\ blocks' = blocks + 1
      /\ job'.block = blocks' /\ job'.time = clock /\ job'.path = path
      /\ DOMAIN job' = DOMAIN NoJob
      /\ pc' \in {"openCache", "openLog"}
      /\ ~UseCache => pc' = "openLog"
      /\ UNCHANGED <<clock, disk, sg_mode, openFile, threads, backs, written, lost>>
  <2>1. path.dir = "cache"
    BY DEF LogFileName
  <2>2. path \in DOMAIN disk => UseCache
    BY <2>1 DEF Shape, Good, IsPath
  <2> HIDE DEF path
  <2>3. QED
    BY <2>2 DEF Log2File, Shape, NoJob, path
<1>2. path.dir = "cache"
  BY DEF LogFileName
<1> HIDE DEF path
<1>3. Shape'
  BY <1>1 DEF Shape, InCall, Good, IsPath
<1>4. FileOpen'
  BY <1>1 DEF FileOpen, IsPath
<1>5. Timely'
  BY <1>1 DEF Timely, Writing
<1>6. Places'
  BY <1>1, <1>2 DEF Places, Writing, IsPath
<1>7. Sweeping'
  BY <1>1 DEF Sweeping
<1>10. Moved'
  BY <1>1 DEF Moved
<1>8. InBuffer' = InBuffer /\ BlocksOf(disk)' = BlocksOf(disk)
  BY <1>1 DEF InBuffer
<1>11. QED
  BY <1>1, <1>3, <1>4, <1>5, <1>6, <1>7, <1>8, <1>10

\* __openlogfile, at any of its three places.
LEMMA OpenKeeps ==
  ASSUME Keeps, KeepInv, UNCHANGED UseCache,
         NEW from \in {"openCache", "openLog", "openFallback"},
         NEW dir \in Dirs, NEW ok \in Writing,
         NEW fail \in {"openLog", "openFallback", "idle"},
         ~UseCache => from = "openLog" /\ ok = "writeLog" /\ fail = "idle",
         OpenFile(from, dir, ok, fail)
  PROVE  KeepInv'
<1> USE DEF KeepInv, threads
<1>0. /\ pc = from /\ clock \in Nat \ {0} /\ clock <= job.time + 1
      /\ job.time \in Nat /\ job.time <= clock
      /\ UNCHANGED <<clock, sg_mode, job, threads, blocks, backs, written, lost>>
  BY DEF OpenFile, Timely, InCall, Shape
<1>1. CASE Reusable(dir) /\ pc' = ok /\ UNCHANGED <<disk, openFile, faults>>
  <2>1. Day(job.time) <= Day(sg_logfile.time)
    BY <1>0, <1>1, DayMonotone DEF Reusable
  <2>2. Open /\ ~UseCache
    BY <1>0, <1>1 DEF Reusable, Places, Writing
  <2>3. Shape' /\ FileOpen'
    BY <1>0, <1>1 DEF Shape, FileOpen, openFile, Open, Writing, InCall, Good, IsPath,
                      Dirs
  <2>4. Timely'
    BY <1>0, <1>1, <2>1, <2>2 DEF Timely, openFile, Open
  <2>5. Places'
    BY <1>0, <1>1, <2>2 DEF Places, openFile, Open, Writing, InCall, IsPath, Dirs
  <2>8. Sweeping' /\ Moved'
    BY <1>0, <1>1 DEF Sweeping, Moved, Writing
  <2>6. InBuffer' = InBuffer
    BY <1>1 DEF InBuffer, openFile, Open
  <2>9. QED
    BY <1>0, <1>1, <2>3, <2>4, <2>5, <2>6, <2>8
<1>2. CASE ~Reusable(dir)
  <2> DEFINE d == Flushed(disk)
             name == LogFileName(d, dir, clock)
  <2>1. IsPath(name) /\ name.day = Day(clock) /\ name.dir = dir
    BY <1>0, NameIsPath
  <2>2. Good(d, clock) /\ BlocksOf(d) = BlocksOf(disk) \union InBuffer
    BY FlushedGood
  <2>3. /\ buf' = << >> /\ ~(clock < last.time)
        /\ last' = [time |-> clock, path |-> name]
        /\ \/ /\ disk' = Appended(d, name, << >>)
              /\ sg_logfile' = [path |-> name, dir |-> dir, time |-> clock,
                                linked |-> TRUE]
              /\ pc' = ok
           \/ disk' = d /\ sg_logfile' = NoFile /\ pc' = fail
    <3>1. ~(clock < last.time)
      BY <1>0 DEF Shape
    <3>2. QED
      BY <1>2, <3>1 DEF OpenFile
  <2> HIDE DEF d, name
  <2>4. /\ Good(Appended(d, name, << >>), clock)
        /\ name \in DOMAIN Appended(d, name, << >>)
        /\ BlocksOf(Appended(d, name, << >>)) = BlocksOf(d)
    <3>1. Day(clock) \in Nat /\ name.day <= Day(clock) /\ << >> \in Seq(Nat)
      BY <1>0, <2>1, DayOf, ElemsOfFew
    <3>2. /\ Good(Appended(d, name, << >>), clock)
          /\ DOMAIN Appended(d, name, << >>) = DOMAIN d \union {name}
          /\ BlocksOf(Appended(d, name, << >>)) = BlocksOf(d) \union Elems(<< >>)
      BY <1>0, <2>1, <2>2, <3>1, AppendedGood, AppendedBlocks
    <3>3. QED
      BY <3>2, ElemsOfFew
  <2>5. Good(disk', clock) /\ BlocksOf(disk') = BlocksOf(disk) \union InBuffer
    BY <2>2, <2>3, <2>4
  <2>6. Shape'
    BY <1>0, <2>3, <2>5, ElemsOfFew
       DEF Shape, Good, IsPath, Dirs, InCall, Writing
  <2>7. FileOpen' /\ Timely' /\ (Open' <=> pc' = ok)
    <3>1. CASE pc' = ok /\ sg_logfile' = [path |-> name, dir |-> dir, time |-> clock,
                                          linked |-> TRUE]
               /\ disk' = Appended(d, name, << >>)
      <4>1. DOMAIN sg_logfile' = DOMAIN NoFile /\ Open'
        BY <3>1 DEF NoFile, Open
      <4>2. FileOpen'
        BY <1>0, <2>1, <2>4, <3>1, <4>1 DEF FileOpen, IsPath, Dirs
      <4>3. Timely'
        BY <1>0, <3>1, <4>1, DayMonotone DEF Timely
      <4>4. QED
        BY <3>1, <4>1, <4>2, <4>3
    <3>2. CASE pc' = fail /\ sg_logfile' = NoFile
      BY <1>0, <2>3, <3>2 DEF FileOpen, Timely, Open, Writing
    <3>3. QED
      BY <2>3, <3>1, <3>2
  <2>8. Places'
    BY <1>0, <2>3, <2>7 DEF Places, Writing, InCall, IsPath, Dirs
  <2>11. Sweeping' /\ Moved'
    BY <1>0, <2>3 DEF Sweeping, Moved, Writing
  <2>9. BlocksOf(disk)' = BlocksOf(disk')
    OBVIOUS
  <2>10. QED
    BY <1>0, <2>5, <2>6, <2>7, <2>8, <2>9, <2>11
<1>3. QED
  BY <1>1, <1>2 DEF OpenFile

\* The file a call writes to has its name.
LEMMA StillLinked ==
  ASSUME KeepInv, pc \in Writing
  PROVE  Open /\ sg_logfile.linked /\ InBuffer = Elems(buf)
<1> USE DEF KeepInv
<1>1. /\ Open /\ clock \in Nat \ {0} /\ job.time \in Nat /\ sg_logfile.time \in Nat
      /\ clock <= job.time + 1 /\ Day(job.time) <= Day(sg_logfile.time)
  BY DEF Timely, Shape, FileOpen, Writing, InCall
<1>2. ASSUME ~sg_logfile.linked PROVE FALSE
  <2>1. Day(sg_logfile.time) < Day(clock - 1)
    BY <1>1, <1>2 DEF FileOpen
  <2>2. Day(clock - 1) <= Day(job.time)
    BY <1>1, DayMonotone
  <2>3. /\ Day(sg_logfile.time) \in Nat /\ Day(job.time) \in Nat
        /\ Day(clock - 1) \in Nat
    <3>1. clock - 1 \in Nat
      BY <1>1
    <3>2. QED
      BY <1>1, <3>1, DayOf
  <2>4. QED
    BY <1>1, <2>1, <2>2, <2>3
<1>3. sg_logfile.linked
  BY <1>2
<1>4. QED
  BY <1>1, <1>3 DEF InBuffer

\* Whatever a step makes of the open file and the disk, the invariant needs
\* the same of it: the call is over or goes on with the file closed.
LEMMA AfterWrite ==
  ASSUME Keeps, KeepInv, UNCHANGED UseCache, pc \in Writing,
         pc' \in {"idle", "append", "closeLog", "openLog"},
         ~UseCache => pc' = "idle",
         UNCHANGED <<clock, sg_mode, last, job, threads, blocks, backs>>,
         Good(disk', clock), buf' \in Seq(Nat),
         DOMAIN disk \subseteq DOMAIN disk',
         \/ sg_logfile' = NoFile /\ buf' = << >>
         \/ sg_logfile' = sg_logfile /\ ~UseCache
  PROVE  Shape' /\ FileOpen' /\ Timely' /\ Places' /\ Sweeping' /\ Moved'
<1> USE DEF KeepInv, threads
<1>1. Shape'
  BY DEF Shape, InCall, Good, IsPath, Dirs
<1>2. FileOpen'
  <2>1. CASE sg_logfile' = NoFile /\ buf' = << >>
    BY <2>1 DEF FileOpen, Open
  <2>2. CASE sg_logfile' = sg_logfile /\ ~UseCache
    BY <2>2, StillLinked DEF FileOpen, Open, IsPath, Dirs
  <2>3. QED
    BY <2>1, <2>2
<1>3. Timely'
  BY DEF Timely, InCall, Writing
<1>4. Places'
  BY DEF Places, InCall, Writing, Open, IsPath, Dirs
<1>5. Sweeping'
  BY DEF Sweeping
<1>6. Moved'
  BY DEF Moved
<1>7. QED
  BY <1>1, <1>2, <1>3, <1>4, <1>5, <1>6

\* __writefile, at any of its three places.
LEMMA WriteKeeps ==
  ASSUME Keeps, KeepInv, UNCHANGED UseCache,
         NEW from \in Writing,
         NEW ok \in {"idle", "append"}, NEW fail \in {"idle", "append", "closeLog"},
         ~UseCache => ok = "idle" /\ fail = "idle",
         WriteFile(from, ok, fail)
  PROVE  KeepInv'
<1> USE DEF KeepInv
<1> DEFINE bs == Append(buf, job.block)
<1>1. /\ pc \in Writing /\ pc' \in {ok, fail}
      /\ UNCHANGED <<clock, sg_mode, last, job, threads, blocks, backs>>
  BY DEF WriteFile
<1>2. Open /\ sg_logfile.linked /\ InBuffer = Elems(buf)
  BY <1>1, StillLinked
<1>3. /\ clock \in Nat /\ Good(disk, clock) /\ buf \in Seq(Nat) /\ << >> \in Seq(Nat)
      /\ bs \in Seq(Nat) /\ Elems(bs) = Elems(buf) \union {job.block}
      /\ Elems(<< >>) = {}
  BY ElemsOfFew DEF Shape
<1>4. /\ sg_logfile.path \in DOMAIN disk /\ IsPath(sg_logfile.path)
      /\ sg_logfile.path.day <= Day(clock)
  BY <1>2, DayMonotone DEF FileOpen, Shape
<1> HIDE DEF bs
<1>5. /\ Good(Appended(disk, sg_logfile.path, bs), clock)
      /\ DOMAIN Appended(disk, sg_logfile.path, bs)
           = DOMAIN disk \union {sg_logfile.path}
      /\ BlocksOf(Appended(disk, sg_logfile.path, bs)) = BlocksOf(disk) \union Elems(bs)
  BY <1>3, <1>4, AppendedGood, AppendedBlocks
<1>6. UseCache => sg_mode # "Sync"
  BY CacheIsAsync
\* What the step makes of the blocks.
<1>7. /\ Good(disk', clock) /\ buf' \in Seq(Nat)
      /\ DOMAIN disk \subseteq DOMAIN disk'
      /\ \/ sg_logfile' = NoFile /\ buf' = << >>
         \/ sg_logfile' = sg_logfile /\ ~UseCache
      /\ written' \subseteq written \union {job.block}
      /\ LET after == BlocksOf(disk') \union lost'
                        \union (IF sg_logfile' = NoFile THEN {} ELSE Elems(buf'))
         IN /\ BlocksOf(disk) \union lost \union Elems(buf) \subseteq after
            /\ written' = written \/ job.block \in after
  <2>1. CASE WriteOk /\ sg_mode = "Async"
    <3>1. /\ sg_logfile' = NoFile /\ buf' = << >>
          /\ written' = written \union {job.block}
          /\ \/ disk' = Appended(disk, sg_logfile.path, bs) /\ lost' = lost
             \/ lost' = lost \union Elems(bs) /\ disk' = disk
      BY <1>2, <2>1 DEF WriteOk, bs
    <3>2. QED
      BY <1>3, <1>5, <3>1
  <2>2. CASE WriteOk /\ sg_mode # "Async"
    <3>1. /\ sg_logfile' = sg_logfile /\ lost' = lost
          /\ written' = written \union {job.block}
          /\ \/ buf' = bs /\ disk' = disk
             \/ buf' = << >> /\ disk' = Appended(disk, sg_logfile.path, bs)
      BY <1>2, <2>2 DEF WriteOk, bs
    <3>2. sg_logfile # NoFile /\ ~UseCache
      BY <1>2, <2>2, CacheIsAsync DEF Open
    <3>3. QED
      BY <1>3, <1>5, <3>1, <3>2
  <2>3. CASE WriteFails /\ sg_mode = "Async"
    <3>1. /\ sg_logfile' = NoFile /\ buf' = << >> /\ disk' = Flushed(disk)
          /\ UNCHANGED <<written, lost>>
      BY <2>3 DEF WriteFails, CloseFile
    <3>2. /\ Good(Flushed(disk), clock) /\ DOMAIN Flushed(disk) = DOMAIN disk
          /\ BlocksOf(Flushed(disk)) = BlocksOf(disk) \union InBuffer
      BY FlushedGood
    <3>3. QED
      BY <1>2, <1>3, <3>1, <3>2
  <2>4. CASE WriteFails /\ sg_mode # "Async"
    <3>1. /\ sg_logfile' = sg_logfile /\ disk' = disk /\ written' = written
          /\ \/ UNCHANGED <<buf, lost>>
             \/ buf' = << >> /\ lost' = lost \union Elems(buf)
      BY <2>4 DEF WriteFails
    <3>2. sg_logfile # NoFile /\ ~UseCache
      BY <1>2, <2>4, CacheIsAsync DEF Open
    <3>3. QED
      BY <1>3, <3>1, <3>2
  <2>5. QED
    BY <2>1, <2>2, <2>3, <2>4 DEF WriteFile
<1>8. Shape' /\ FileOpen' /\ Timely' /\ Places' /\ Sweeping' /\ Moved'
  BY <1>1, <1>7, AfterWrite
<1>9. InBuffer' = IF sg_logfile' = NoFile THEN {} ELSE Elems(buf')
  BY <1>2, <1>7 DEF InBuffer, Open
<1>10. written' \subseteq BlocksOf(disk') \union InBuffer' \union lost'
  BY <1>2, <1>7, <1>9
<1>11. QED
  BY <1>8, <1>10

\* Before the second try nothing is open.
LEMMA CloseLogKeeps ==
  ASSUME Keeps, KeepInv, UNCHANGED UseCache, CloseLog
  PROVE  KeepInv'
<1> USE DEF KeepInv, threads, bounds
<1>1. UseCache /\ sg_mode = "Async"
  <2>1. UseCache
    BY DEF CloseLog, Places
  <2>2. QED
    BY <2>1, CacheIsAsync
<1>2. /\ pc = "closeLog" /\ pc' = "openFallback"
      /\ UNCHANGED <<clock, sg_mode, last, job, threads, bounds, written, lost,
                     disk, sg_logfile, buf>>
  BY <1>1 DEF CloseLog
<1>3. Shape' /\ FileOpen'
  BY <1>2 DEF Shape, FileOpen, InCall, Good, IsPath, Dirs, Open
<1>4. Timely' /\ Places' /\ Sweeping' /\ Moved'
  BY <1>1, <1>2 DEF Timely, Places, Sweeping, Moved, InCall, Writing, IsPath, Dirs, Open
<1>5. InBuffer' = InBuffer /\ BlocksOf(disk') = BlocksOf(disk)
  BY <1>2 DEF InBuffer, Open
<1>6. QED
  BY <1>2, <1>3, <1>4, <1>5

\* With a cache and nothing open, a copy loses nothing, and when it has been
\* made its source can go.
LEMMA CopyKeeps ==
  ASSUME Good(disk, clock), clock \in Nat, clock' = clock,
         NEW src, NEW dst, src # dst, IsPath(dst), dst.day <= Day(clock),
         NEW ok \in BOOLEAN, AppendFile(src, dst, ok)
  PROVE  /\ Good(disk', clock)
         /\ BlocksOf(disk) \subseteq BlocksOf(disk') \union lost' /\ lost \subseteq lost'
         /\ ok => BlocksOf(disk') \subseteq BlocksOf(Removed(disk', src)) \union lost'
<1> DEFINE bs == IF src \in DOMAIN disk THEN disk[src].data ELSE << >>
           e == Appended(disk, dst, bs)
           f == Appended(disk, dst, << >>)
<1>1. bs \in Seq(Nat) /\ << >> \in Seq(Nat) /\ Elems(<< >>) = {}
  BY ElemsOfFew DEF Good
<1>2. \/ /\ ok /\ src \in DOMAIN disk
         /\ \/ disk' = (IF bs = << >> THEN disk ELSE e) /\ lost' = lost
            \/ lost' = lost \union Elems(bs) /\ disk' = disk
      \/ ~ok /\ lost' = lost /\ disk' \in {disk, f}
  BY DEF AppendFile
<1>3. src \in DOMAIN disk => bs = disk[src].data
  OBVIOUS
<1> HIDE DEF bs
<1>4. /\ Good(e, clock) /\ BlocksOf(e) = BlocksOf(disk) \union Elems(bs)
      /\ Grown(disk, dst, bs, e)
  BY <1>1, AppendedGood, AppendedBlocks, AppendedFile
<1>5. Good(f, clock) /\ BlocksOf(f) = BlocksOf(disk)
  BY <1>1, AppendedGood, AppendedBlocks
<1> HIDE DEF e, f
<1>6. /\ Good(disk', clock)
      /\ BlocksOf(disk) \subseteq BlocksOf(disk') \union lost' /\ lost \subseteq lost'
  BY <1>2, <1>4, <1>5
<1>7. ASSUME ok
      PROVE  BlocksOf(disk') \subseteq BlocksOf(Removed(disk', src)) \union lost'
  <2>1. BlocksOf(disk') = BlocksOf(Removed(disk', src))
          \union (IF src \in DOMAIN disk' THEN Elems(disk'[src].data) ELSE {})
    BY <1>6, RemovedGood
  <2>2. CASE disk' = disk /\ bs = << >>
    BY <1>1, <1>2, <1>3, <1>7, <2>1, <2>2
  <2>3. CASE disk' = disk /\ lost' = lost \union Elems(bs)
    BY <1>2, <1>3, <1>7, <2>1, <2>3
  <2>4. CASE disk' = e
    <3>1. /\ src \in DOMAIN disk /\ e[src] = disk[src]
          /\ dst \in DOMAIN e /\ Elems(bs) \subseteq Elems(e[dst].data)
      BY <1>2, <1>4, <1>7 DEF Grown
    <3>2. dst \in DOMAIN Removed(e, src) /\ Removed(e, src)[dst] = e[dst]
      BY <3>1 DEF Removed
    <3>3. Elems(bs) \subseteq BlocksOf(Removed(e, src))
      BY <3>1, <3>2 DEF BlocksOf
    <3>4. QED
      BY <1>3, <2>1, <2>4, <3>1, <3>3
  <2>5. QED
    BY <1>2, <1>7, <2>2, <2>3, <2>4
<1>8. QED
  BY <1>6, <1>7

\* What the steps that move a cached file have in common.
LEMMA AfterMove ==
  ASSUME KeepInv, UNCHANGED <<UseCache, clock, sg_mode, openFile, blocks, backs, sweep>>,
         UseCache, ~Open,
         Good(disk', clock),
         BlocksOf(disk) \subseteq BlocksOf(disk') \union lost', lost \subseteq lost',
         written' = written,
         pc' \in {"idle", "remove", "mover", "moverRemove"},
         pc' = "remove" => clock <= job'.time + 1,
         job'.block = job.block, job'.time = job.time, DOMAIN job' = DOMAIN job,
         pc' \in {"remove", "moverRemove"} => job'.path.dir = "cache",
         DOMAIN mover' = DOMAIN mover,
         \A p \in mover'.todo : p.dir = "cache" /\ IsPath(p),
         pc' \in {"remove", "moverRemove"} =>
           BlocksOf(disk') \subseteq BlocksOf(Removed(disk', job'.path)) \union lost'
  PROVE  KeepInv'
<1> USE DEF KeepInv, openFile
<1>1. buf = << >> /\ InBuffer = {} /\ ~Open' /\ InBuffer' = {}
  BY DEF Open, InBuffer, FileOpen
<1>2. Shape'
  BY DEF Shape, InCall, Good, IsPath, Dirs
<1>3. FileOpen'
  BY <1>1 DEF FileOpen
<1>4. Timely'
  BY DEF Timely, InCall, Writing
<1>5. Places'
  BY <1>1 DEF Places, InCall, Writing, IsPath, Dirs
<1>6. Sweeping' /\ Moved'
  BY DEF Sweeping, Moved
<1>7. written' \subseteq BlocksOf(disk') \union InBuffer' \union lost'
  BY <1>1
<1>8. QED
  BY <1>2, <1>3, <1>4, <1>5, <1>6, <1>7

\* The cached file is copied over.
LEMMA AppendCachedKeeps ==
  ASSUME Keeps, KeepInv, UNCHANGED UseCache, AppendCached
  PROVE  KeepInv'
<1> USE DEF KeepInv
<1> DEFINE dst == LogFileName(disk, "log", job.time)
<1>1. UseCache /\ ~Open /\ sg_mode = "Async" /\ pc = "append"
  <2>1. UseCache /\ ~Open
    BY DEF AppendCached, Places, Writing
  <2>2. QED
    BY <2>1, CacheIsAsync DEF AppendCached
<1>2. PICK ok \in BOOLEAN : /\ AppendFile(job.path, dst, ok)
                            /\ pc' = IF ok THEN "remove" ELSE "idle"
  BY DEF AppendCached
<1>3. /\ UNCHANGED <<clock, sg_mode, openFile, job, threads, blocks, backs, written>>
      /\ clock \in Nat /\ job.time \in Nat /\ job.time <= clock
      /\ clock <= job.time + 1 /\ job.path.dir = "cache"
      /\ Good(disk, clock)
  BY <1>1 DEF AppendCached, Shape, Timely, Places, InCall
<1>4. IsPath(dst) /\ dst.dir = "log" /\ dst.day <= Day(clock)
  BY <1>3, NameIsPath, DayMonotone DEF Dirs
<1> HIDE DEF dst
<1>5. /\ Good(disk', clock)
      /\ BlocksOf(disk) \subseteq BlocksOf(disk') \union lost' /\ lost \subseteq lost'
      /\ ok => BlocksOf(disk') \subseteq BlocksOf(Removed(disk', job.path)) \union lost'
  BY <1>2, <1>3, <1>4, CopyKeeps
<1>6. \A p \in mover'.todo : p.dir = "cache" /\ IsPath(p)
  BY <1>3 DEF Places, threads
<1>7. /\ pc' \in {"idle", "remove"} /\ written' = written
      /\ pc' = "remove" =>
           BlocksOf(disk') \subseteq BlocksOf(Removed(disk', job'.path)) \union lost'
      /\ UNCHANGED <<clock, sg_mode, openFile, blocks, backs, mover, sweep, job>>
  BY <1>2, <1>3, <1>5 DEF threads
<1>8. QED
  BY <1>1, <1>3, <1>5, <1>6, <1>7, AfterMove

\* It is removed when it has been.
LEMMA RemoveCachedKeeps ==
  ASSUME Keeps, KeepInv, UNCHANGED UseCache, RemoveCached
  PROVE  KeepInv'
<1> USE DEF KeepInv
<1>1. UseCache /\ ~Open /\ sg_mode = "Async" /\ pc = "remove"
  <2>1. UseCache /\ ~Open
    BY DEF RemoveCached, Places, Writing
  <2>2. QED
    BY <2>1, CacheIsAsync DEF RemoveCached
<1>2. /\ disk' = Removed(disk, job.path) /\ pc' = "idle"
      /\ UNCHANGED <<clock, sg_mode, openFile, job, threads, bounds, written, lost>>
  BY <1>1 DEF RemoveCached, Unlink, openFile
<1>3. /\ Good(disk', clock)
      /\ BlocksOf(disk) \subseteq BlocksOf(disk') \union lost
  BY <1>1, <1>2, RemovedGood DEF Shape, Moved
<1>4. \A p \in mover'.todo : p.dir = "cache" /\ IsPath(p)
  BY <1>2 DEF Places, threads
<1>5. QED
  BY <1>1, <1>2, <1>3, <1>4, AfterMove DEF threads, bounds

\* The thread that moves the cached files.
LEMMA MoverKeeps ==
  ASSUME Keeps, KeepInv, UNCHANGED UseCache, Mover
  PROVE  KeepInv'
<1> USE DEF KeepInv
<1>1. CASE MoverStart
  <2>1. UseCache /\ ~Open
    BY <1>1 DEF MoverStart, Places, Writing
  <2>2. \A p \in mover'.todo : p.dir = "cache" /\ IsPath(p)
    BY <1>1 DEF MoverStart, Shape, Good
  <2>3. DOMAIN mover' = DOMAIN mover
    BY <1>1 DEF MoverStart, Places
  <2>4. QED
    BY <1>1, <2>1, <2>2, <2>3, AfterMove DEF MoverStart, Shape, bounds, openFile
<1>2. CASE MoverRemove
  <2>1. UseCache /\ ~Open
    BY <1>2 DEF MoverRemove, Places, Writing
  <2>2. /\ disk' = Removed(disk, job.path) /\ pc' = "mover" /\ pc = "moverRemove"
        /\ UNCHANGED <<clock, sg_mode, openFile, job, threads, bounds, written, lost>>
    BY <1>2, <2>1 DEF MoverRemove, Unlink, openFile
  <2>3. /\ Good(disk', clock)
        /\ BlocksOf(disk) \subseteq BlocksOf(disk') \union lost
    BY <2>2, RemovedGood DEF Shape, Moved
  <2>4. \A p \in mover'.todo : p.dir = "cache" /\ IsPath(p)
    BY <2>2 DEF Places, threads
  <2>5. QED
    BY <2>1, <2>2, <2>3, <2>4, AfterMove DEF threads, bounds
<1>3. CASE MoverEnd
  <2>1. UseCache /\ ~Open
    BY <1>3 DEF MoverEnd, Places, Writing
  <2>2. (\A p \in mover'.todo : p.dir = "cache" /\ IsPath(p))
        /\ DOMAIN mover' = DOMAIN mover
    BY <1>3 DEF MoverEnd
  <2>3. QED
    BY <1>3, <2>1, <2>2, AfterMove DEF MoverEnd, Shape, bounds, openFile
<1>4. ASSUME NEW p \in mover.todo, MoverNext(p) PROVE KeepInv'
  <2> DEFINE dst == [p EXCEPT !.dir = "log"]
  <2>1. UseCache /\ ~Open /\ p \in DOMAIN disk
    BY <1>4 DEF MoverNext, Places, Writing
  <2>2. /\ UNCHANGED <<clock, sg_mode, openFile, sweep, dirAlive, blocks, backs, written>>
        /\ mover' = [mover EXCEPT !.todo = @ \ {p}]
        /\ clock \in Nat /\ Good(disk, clock) /\ DOMAIN job = DOMAIN NoJob
        /\ p.dir = "cache" /\ IsPath(p)
    BY <1>4 DEF MoverNext, Shape, Places
  <2>3. (\A q \in mover'.todo : q.dir = "cache" /\ IsPath(q))
        /\ DOMAIN mover' = DOMAIN mover
    BY <2>2 DEF Places
  <2>4. CASE UNCHANGED <<disk, pc, job, faults, lost>>
    BY <1>4, <2>1, <2>2, <2>3, <2>4, AfterMove DEF MoverNext
  <2>5. CASE /\ \E ok \in BOOLEAN :
                  /\ AppendFile(p, dst, ok)
                  /\ pc' = IF ok THEN "moverRemove" ELSE "idle"
             /\ job' = [job EXCEPT !.path = p]
    <3>1. PICK ok \in BOOLEAN : /\ AppendFile(p, dst, ok)
                                /\ pc' = IF ok THEN "moverRemove" ELSE "idle"
      BY <2>5
    <3>2. /\ job'.path = p /\ job'.block = job.block /\ job'.time = job.time
          /\ DOMAIN job' = DOMAIN job
      BY <2>2, <2>5 DEF NoJob
    <3>3. IsPath(dst) /\ dst # p /\ dst.day = p.day
      BY <2>1, <2>2 DEF IsPath, NoPath, Dirs
    <3>4. dst.day <= Day(clock)
      <4>1. disk[p].at \in Nat /\ disk[p].at <= clock /\ p.day <= Day(disk[p].at)
            /\ p.day \in Nat
        BY <2>1, <2>2 DEF Good, IsPath
      <4>2. Day(disk[p].at) <= Day(clock) /\ Day(disk[p].at) \in Nat /\ Day(clock) \in Nat
        BY <2>2, <4>1, DayMonotone, DayOf
      <4>3. QED
        BY <3>3, <4>1, <4>2
    <3> HIDE DEF dst
    <3>5. /\ Good(disk', clock)
          /\ BlocksOf(disk) \subseteq BlocksOf(disk') \union lost' /\ lost \subseteq lost'
          /\ ok => BlocksOf(disk') \subseteq BlocksOf(Removed(disk', p)) \union lost'
      BY <2>2, <3>1, <3>3, <3>4, CopyKeeps
    <3>6. /\ pc' \in {"idle", "moverRemove"}
          /\ pc' = "moverRemove" =>
               BlocksOf(disk') \subseteq BlocksOf(Removed(disk', job'.path)) \union lost'
      BY <3>1, <3>2, <3>5
    <3>7. QED
      BY <2>1, <2>2, <2>3, <3>2, <3>5, <3>6, AfterMove
  <2>6. QED
    BY <1>4, <2>4, <2>5 DEF MoverNext
<1>5. QED
  BY <1>1, <1>2, <1>3, <1>4 DEF Mover

\* The threads that delete old files.
LEMMA SweepKeeps ==
  ASSUME Keeps, KeepInv, UNCHANGED UseCache, Sweep
  PROVE  KeepInv'
<1> USE DEF KeepInv
<1>0. /\ UNCHANGED <<clock, sg_mode, buf, last, call, mover, dirAlive, bounds, written>>
      /\ clock \in Nat \ {0} /\ Good(disk, clock)
  BY DEF Sweep, SweepStart, SweepCheck, SweepRemove, openFile, Shape
<1>1. CASE UNCHANGED <<disk, openFile, lost>> /\ Sweeping'
  <2>1. Shape' /\ FileOpen'
    BY <1>0, <1>1 DEF Shape, FileOpen, InCall, Good, IsPath, Dirs, Open, openFile, call,
                      bounds
  <2>2. Timely' /\ Places' /\ Moved'
    BY <1>0, <1>1 DEF Timely, Places, Moved, InCall, Writing, IsPath, Dirs, Open,
                      openFile, call
  <2>3. InBuffer' = InBuffer /\ BlocksOf(disk') = BlocksOf(disk)
    BY <1>1 DEF InBuffer, Open, openFile
  <2>4. QED
    BY <1>0, <1>1, <2>1, <2>2, <2>3
<1>2. ASSUME NEW dir \in Dirs, SweepStart(dir) PROVE KeepInv'
  <2>1. PICK todo :
          sweep' = [due |-> sweep.due \ {dir}, now |-> clock, victim |-> NoPath,
                    todo |-> todo]
    BY <1>2 DEF SweepStart
  <2>2. Sweeping'
    BY <1>0, <2>1 DEF Sweeping
  <2>3. QED
    BY <1>1, <1>2, <2>2 DEF SweepStart
<1>3. ASSUME NEW p \in sweep.todo, SweepCheck(p) PROVE KeepInv'
  <2>1. /\ DOMAIN sweep' = DOMAIN sweep /\ sweep'.now = sweep.now
        /\ sweep'.victim # NoPath =>
             /\ sweep'.victim = p /\ p \in DOMAIN disk
             /\ sweep.now > disk[p].at /\ sweep.now - disk[p].at > AliveTime
    BY <1>3 DEF SweepCheck, Sweeping
  <2>2. sweep.now \in Nat /\ sweep.now <= clock
    BY DEF Sweeping
  <2>3. ASSUME sweep'.victim # NoPath
        PROVE  /\ sweep'.victim.day \in Nat /\ sweep'.victim.day < Day(clock - 1)
               /\ sweep.now > AliveTime
               /\ sweep'.victim.day <= Day(sweep.now - AliveTime - 1)
    <3>1. /\ sweep'.victim = p /\ p.day \in Nat /\ disk[p].at \in Nat
          /\ p.day <= Day(disk[p].at)
          /\ sweep.now > disk[p].at /\ sweep.now - disk[p].at > AliveTime
      BY <1>0, <2>1, <2>3 DEF Good, IsPath
    <3>2. sweep.now - disk[p].at > DayLen
      BY <2>2, <3>1, FilesAssumption
    <3>3. p.day < Day(sweep.now - 1)
      BY <2>2, <3>1, <3>2, DayOver
    <3>4. sweep.now - 1 \in Nat /\ clock - 1 \in Nat /\ sweep.now - 1 <= clock - 1
      BY <1>0, <2>2, <3>1
    <3>5. /\ Day(sweep.now - 1) <= Day(clock - 1)
          /\ Day(sweep.now - 1) \in Nat /\ Day(clock - 1) \in Nat
      BY <3>4, DayMonotone, DayOf
    <3>6. sweep.now > AliveTime /\ p.day <= Day(sweep.now - AliveTime - 1)
      BY <2>2, <3>1, DayOld
    <3>7. QED
      BY <3>1, <3>3, <3>5, <3>6
  <2>4. Sweeping'
    BY <1>0, <2>1, <2>2, <2>3 DEF Sweeping
  <2>5. QED
    BY <1>1, <1>3, <2>4 DEF SweepCheck
<1>4. CASE SweepRemove
  <2> DEFINE v == sweep.victim
  <2>1. /\ disk' = Removed(disk, v)
        /\ lost \subseteq lost'
        /\ v \in DOMAIN disk => Elems(disk[v].data) \subseteq lost'
        /\ Open /\ sg_logfile.path = v => Elems(buf) \subseteq lost'
        /\ sg_logfile' = IF Open /\ sg_logfile.path = v
                         THEN [sg_logfile EXCEPT !.linked = FALSE] ELSE sg_logfile
        /\ DOMAIN sweep' = DOMAIN sweep /\ sweep'.now = sweep.now
        /\ sweep'.victim = NoPath
        /\ v.day \in Nat /\ v.day < Day(clock - 1)
    <3>1. Aged(v)
      BY <1>4 DEF SweepRemove, Sweeping, Aged
    <3>2. QED
      BY <1>4, <3>1 DEF SweepRemove, Sweeping, Unlink
  <2>2. /\ Good(disk', clock) /\ DOMAIN disk' = DOMAIN disk \ {v}
        /\ BlocksOf(disk) \subseteq BlocksOf(disk') \union lost'
        /\ BlocksOf(disk') \subseteq BlocksOf(disk)
        /\ \A q \in DOMAIN disk \ {v} : disk'[q] = disk[q]
    <3>1. /\ Good(disk', clock) /\ DOMAIN disk' = DOMAIN disk \ {v}
          /\ \A q \in DOMAIN disk \ {v} : disk'[q] = disk[q]
      BY <1>0, <2>1, RemovedGood
    <3>2. BlocksOf(disk) = BlocksOf(Removed(disk, v))
            \union (IF v \in DOMAIN disk THEN Elems(disk[v].data) ELSE {})
      BY <1>0, RemovedGood
    <3>3. QED
      BY <2>1, <3>1, <3>2
  <2> HIDE DEF v
  <2>3. Shape'
    BY <1>0, <2>2 DEF Shape, InCall, Good, IsPath, Dirs, call, bounds
  <2>4. /\ FileOpen' /\ (Open' <=> Open) /\ (Open => sg_logfile'.time = sg_logfile.time)
        /\ InBuffer \subseteq InBuffer' \union lost'
    <3>1. CASE Open /\ sg_logfile.path = v
      <4>1. /\ sg_logfile' = [sg_logfile EXCEPT !.linked = FALSE]
            /\ DOMAIN sg_logfile = {"path", "dir", "time", "linked"}
        BY <2>1, <3>1 DEF FileOpen, NoFile
      <4>2. /\ DOMAIN sg_logfile' = DOMAIN NoFile
            /\ sg_logfile'.path = sg_logfile.path
            /\ sg_logfile'.time = sg_logfile.time
            /\ sg_logfile'.linked = FALSE
        BY <4>1 DEF NoFile
      <4>3. Open'
        <5>1. IsPath(sg_logfile.path)
          BY <3>1 DEF FileOpen
        <5>2. sg_logfile'.path # NoPath
          BY <4>2, <5>1 DEF IsPath, NoPath, Dirs
        <5>3. QED
          BY <5>2 DEF Open, NoFile
      <4>4. FileOpen'
        BY <1>0, <2>1, <3>1, <4>2, <4>3 DEF FileOpen, IsPath, Dirs
      <4>5. InBuffer \subseteq lost'
        BY <2>1, <3>1 DEF InBuffer
      <4>6. QED
        BY <3>1, <4>2, <4>3, <4>4, <4>5
    <3>2. CASE ~(Open /\ sg_logfile.path = v)
      <4>1. sg_logfile' = sg_logfile
        BY <2>1, <3>2
      <4>2. FileOpen'
        BY <1>0, <2>2, <3>2, <4>1 DEF FileOpen, Open, IsPath, Dirs
      <4>3. QED
        BY <1>0, <4>1, <4>2 DEF Open, InBuffer
    <3>3. QED
      BY <3>1, <3>2
  <2>5. Timely'
    BY <1>0, <2>4 DEF Timely, call
  <2>6. Places'
    BY <1>0, <2>4 DEF Places, InCall, Writing, IsPath, Dirs, call
  <2>7. Sweeping'
    BY <1>0, <2>1 DEF Sweeping
  <2>8. Moved'
    <3>1. SUFFICES ASSUME pc \in {"remove", "moverRemove"}
                   PROVE  BlocksOf(disk') \subseteq
                            BlocksOf(Removed(disk', job.path)) \union lost'
      BY <1>0 DEF Moved, call
    <3>2. BlocksOf(Removed(disk, job.path)) \subseteq
            BlocksOf(Removed(disk', job.path)) \union lost'
      <4>1. ASSUME NEW b \in BlocksOf(Removed(disk, job.path)), b \notin lost'
            PROVE  b \in BlocksOf(Removed(disk', job.path))
        <5>1. PICK q \in DOMAIN disk \ {job.path} : b \in Elems(disk[q].data)
          BY DEF BlocksOf, Removed
        <5>2. q # v
          BY <2>1, <4>1, <5>1
        <5>3. q \in DOMAIN disk' \ {job.path} /\ disk'[q] = disk[q]
          BY <2>2, <5>1, <5>2
        <5>4. QED
          BY <5>1, <5>3 DEF BlocksOf, Removed
      <4>2. QED
        BY <4>1
    <3>3. QED
      BY <2>1, <2>2, <3>1, <3>2 DEF Moved
  <2>9. written' \subseteq BlocksOf(disk') \union InBuffer' \union lost'
    BY <1>0, <2>1, <2>2, <2>4
  <2>10. QED
    BY <2>3, <2>4, <2>5, <2>6, <2>7, <2>8, <2>9
<1>5. QED
  BY <1>2, <1>3, <1>4 DEF Sweep

\* Time passes.
LEMMA TickKeeps ==
  ASSUME Keeps, KeepInv, UNCHANGED UseCache, Tick
  PROVE  KeepInv'
<1> USE DEF KeepInv, threads, bounds, openFile, call
<1>1. /\ clock \in Nat \ {0} /\ clock' = clock + 1
      /\ pc \in InCall => clock <= job.time
      /\ UNCHANGED <<disk, sg_mode, openFile, call, threads, bounds, written, lost>>
  BY DEF Tick, Shape, InCall
<1>2. clock - 1 \in Nat /\ clock' - 1 = clock /\ clock - 1 <= clock
  BY <1>1
<1>3. /\ Day(clock - 1) \in Nat /\ Day(clock) \in Nat
      /\ Day(clock - 1) <= Day(clock)
  BY <1>1, <1>2, DayOf, DayMonotone
<1>4. Shape'
  BY <1>1 DEF Shape, Good, IsPath, Dirs, InCall
<1>5. FileOpen'
  <2>1. ASSUME Open PROVE Day(sg_logfile.time) \in Nat
    BY <2>1, DayOf DEF FileOpen
  <2>2. QED
    BY <1>1, <1>2, <1>3, <2>1 DEF FileOpen, Open, IsPath, Dirs
<1>6. Timely'
  BY <1>1 DEF Timely, Open, InCall, Shape
<1>7. Places' /\ Moved'
  BY <1>1 DEF Places, Moved, Open, IsPath, Dirs
<1>8. Sweeping'
  BY <1>1, <1>2, <1>3 DEF Sweeping
<1>9. InBuffer' = InBuffer
  BY <1>1 DEF InBuffer, Open
<1>10. QED
  BY <1>1, <1>4, <1>5, <1>6, <1>7, <1>8, <1>9

\* The steps that leave the files and the call alone, and a stutter.
LEMMA StillKeeps ==
  ASSUME KeepInv, UNCHANGED UseCache, sg_mode' \in Modes,
         UNCHANGED <<clock, disk, openFile, call, mover, sweep, blocks, backs,
                     written, lost>>
  PROVE  KeepInv'
<1> USE DEF KeepInv, openFile, call
<1>1. Shape' /\ FileOpen'
  BY DEF Shape, FileOpen, InCall, Good, IsPath, Dirs, Open
<1>2. Timely' /\ Places' /\ Sweeping' /\ Moved'
  BY DEF Timely, Places, Sweeping, Moved, InCall, Writing, IsPath, Dirs, Open
<1>3. InBuffer' = InBuffer
  BY DEF InBuffer, Open
<1>4. QED
  BY <1>1, <1>2, <1>3

\* The appender is closed.
LEMMA CloseKeeps ==
  ASSUME Keeps, KeepInv, UNCHANGED UseCache, Close
  PROVE  KeepInv'
<1> USE DEF KeepInv, threads, bounds, call
<1>1. /\ disk' = Flushed(disk) /\ sg_logfile' = NoFile /\ buf' = << >>
      /\ pc = "idle"
      /\ UNCHANGED <<clock, sg_mode, last, call, threads, bounds, written, lost>>
  BY DEF Close, CloseFile
<1>2. /\ Good(disk', clock)
      /\ BlocksOf(disk') = BlocksOf(disk) \union InBuffer
  BY <1>1, FlushedGood
<1>3. Shape' /\ FileOpen'
  BY <1>1, <1>2, ElemsOfFew DEF Shape, FileOpen, InCall, Good, IsPath, Dirs, Open
<1>4. Timely' /\ Places' /\ Sweeping' /\ Moved'
  BY <1>1 DEF Timely, Places, Sweeping, Moved, InCall, Writing, IsPath, Dirs, Open
<1>5. QED
  BY <1>1, <1>2, <1>3, <1>4

\* The process dies.
LEMMA CrashKeeps ==
  ASSUME Keeps, KeepInv, UNCHANGED UseCache, Crash
  PROVE  KeepInv'
<1> USE DEF KeepInv
<1>1. /\ sg_logfile' = NoFile /\ buf' = << >> /\ lost' = lost \union Elems(buf)
      /\ last' = [time |-> 0, path |-> NoPath] /\ pc' = "idle" /\ job' = NoJob
      /\ mover' = MoverDue /\ sweep' = SweepDue
      /\ UNCHANGED <<clock, disk, sg_mode, blocks, backs, written>>
  BY DEF Crash
<1>2. Shape'
  BY <1>1, ElemsOfFew DEF Shape, Good, IsPath, Dirs, NoJob
<1>3. FileOpen' /\ Timely' /\ Moved'
  BY <1>1 DEF FileOpen, Timely, Moved, InCall, Writing, Open
<1>4. Places'
  BY <1>1 DEF Places, MoverDue, InCall, Open
<1>5. Sweeping'
  BY <1>1 DEF Sweeping, SweepDue, Shape
<1>6. InBuffer \subseteq lost'
  BY <1>1 DEF InBuffer
<1>7. QED
  BY <1>1, <1>2, <1>3, <1>4, <1>5, <1>6

\* Nothing but setting the clock back counts as that, and it is not undone.
LEMMA BacksStep ==
  ASSUME backs \in Nat, [Next]_vars
  PROVE  backs' \in Nat /\ (backs' = 0 => backs = 0)
<1>1. CASE UNCHANGED vars
  BY <1>1 DEF vars, bounds
<1>2. CASE \E move, roomy \in BOOLEAN : Log2File(move, roomy)
  BY <1>2 DEF Log2File
<1>3. CASE Log2FileStep
  BY <1>3 DEF Log2FileStep, OpenFile, WriteFile, AppendCached, RemoveCached,
              CloseLog, bounds
<1>4. CASE Mover
  BY <1>4 DEF Mover, MoverStart, MoverNext, MoverRemove, MoverEnd, bounds
<1>5. CASE Sweep \/ Tick \/ Close \/ ReleaseDir \/ Crash
  BY <1>5 DEF Sweep, SweepStart, SweepCheck, SweepRemove, Tick, Close, ReleaseDir,
              Crash, bounds
<1>6. CASE SetBack
  BY <1>6 DEF SetBack
<1>7. CASE \E mode \in Modes : SetMode(mode)
  BY <1>7 DEF SetMode, bounds
<1>8. QED
  BY <1>1, <1>2, <1>3, <1>4, <1>5, <1>6, <1>7 DEF Next, Step

\* Until the clock is set back, every step keeps the invariant.
LEMMA KeepStep ==
  ASSUME Keeps, KeepInv, [Next]_vars, backs' = 0
  PROVE  KeepInv'
<1>1. UNCHANGED UseCache
  BY DEF Next, vars
<1>2. CASE UNCHANGED vars
  BY <1>2, StillKeeps DEF vars, call, threads, bounds, KeepInv, Shape
<1>3. CASE \E move, roomy \in BOOLEAN : Log2File(move, roomy)
  BY <1>1, <1>3, BeginKeeps
<1>4. CASE Log2FileStep
  <2>1. ~UseCache => pc \in {"idle", "openLog", "writeLog"}
    BY DEF KeepInv, Places
  <2>2. "log" \in Dirs /\ (UseCache => "cache" \in Dirs)
    BY DEF Dirs
  <2>3. CASE OpenFile("openCache", "cache", "writeCache", "openLog")
    <3>1. UseCache
      BY <2>1, <2>3 DEF OpenFile
    <3>2. QED
      BY <1>1, <2>2, <2>3, <3>1, OpenKeeps DEF Writing
  <2>4. CASE WriteFile("writeCache", AfterCache, AfterCache)
    <3>1. UseCache
      BY <2>1, <2>4 DEF WriteFile
    <3>2. AfterCache \in {"idle", "append"}
      BY DEF AfterCache
    <3>3. QED
      BY <1>1, <2>4, <3>1, <3>2, WriteKeeps DEF Writing
  <2>5. CASE AppendCached \/ RemoveCached \/ CloseLog
    BY <1>1, <2>5, AppendCachedKeeps, RemoveCachedKeeps, CloseLogKeeps
  <2>6. CASE OpenFile("openLog", "log", "writeLog",
                      IF UseCache THEN "openFallback" ELSE "idle")
    <3>1. CASE UseCache
      <4>1. OpenFile("openLog", "log", "writeLog", "openFallback")
        BY <2>6, <3>1
      <4>2. QED
        BY <1>1, <2>2, <3>1, <4>1, OpenKeeps DEF Writing
    <3>2. CASE ~UseCache
      <4>1. OpenFile("openLog", "log", "writeLog", "idle")
        BY <2>6, <3>2
      <4>2. QED
        BY <1>1, <2>2, <3>2, <4>1, OpenKeeps DEF Writing
    <3>3. QED
      BY <3>1, <3>2
  <2>7. CASE WriteFile("writeLog", "idle", AfterLog)
    <3>1. /\ AfterLog \in {"idle", "closeLog"}
          /\ ~UseCache => AfterLog = "idle"
      BY DEF AfterLog
    <3>2. QED
      BY <1>1, <2>7, <3>1, WriteKeeps DEF Writing
  <2>8. CASE OpenFile("openFallback", "cache", "writeFallback", "idle")
    <3>1. UseCache
      BY <2>1, <2>8 DEF OpenFile
    <3>2. QED
      BY <1>1, <2>2, <2>8, <3>1, OpenKeeps DEF Writing
  <2>9. CASE WriteFile("writeFallback", "idle", "idle")
    BY <1>1, <2>9, WriteKeeps DEF Writing
  <2>10. QED
    BY <1>4, <2>3, <2>4, <2>5, <2>6, <2>7, <2>8, <2>9 DEF Log2FileStep
<1>5. CASE Mover \/ Sweep \/ Tick \/ Close \/ Crash
  BY <1>1, <1>5, MoverKeeps, SweepKeeps, TickKeeps, CloseKeeps, CrashKeeps
<1>6. CASE SetBack
  BY <1>6 DEF SetBack, KeepInv, Shape
<1>7. CASE ReleaseDir
  BY <1>1, <1>7, StillKeeps DEF ReleaseDir, bounds, KeepInv, Shape
<1>8. CASE \E mode \in Modes : SetMode(mode)
  BY <1>1, <1>8, StillKeeps DEF SetMode, threads, bounds
<1>9. QED
  BY <1>2, <1>3, <1>4, <1>5, <1>6, <1>7, <1>8 DEF Next, Step

\* Until the clock is set back for the first time, a block that fwrite took is
\* in a file, in the buffer of one, or among those the property gives up,
\* whatever the number of blocks, days, crashes, failures and deletions.
THEOREM FilesKeep == Spec => []Kept
<1> DEFINE Inv == backs \in Nat /\ (backs = 0 => KeepInv)
<1>1. Init /\ Keeps => Inv /\ Keeps
  BY KeepInit DEF Init
<1>2. Inv /\ Keeps /\ [Next]_vars => (Inv /\ Keeps)'
  <2> SUFFICES ASSUME Inv, Keeps, [Next]_vars
               PROVE  (Inv /\ Keeps)'
    OBVIOUS
  <2>1. Keeps'
    BY DEF Keeps, Next, vars
  <2>2. backs' \in Nat /\ (backs' = 0 => backs = 0)
    BY BacksStep
  <2>3. backs' = 0 => KeepInv'
    BY <2>2, KeepStep
  <2>4. QED
    BY <2>1, <2>2, <2>3
<1>3. Inv /\ Keeps => Kept
  BY DEF KeepInv, Kept, BlocksOf, OnDisk, Blocks
<1>4. ~Keeps /\ [Next]_vars => (~Keeps)'
  BY DEF Keeps, Next, vars
<1>5. ~Keeps => Kept
  BY DEF Keeps, Kept
<1>6. QED
  BY <1>1, <1>2, <1>3, <1>4, <1>5, PTL DEF Spec
-----------------------------------------------------------------------------
(* Sequences and files without a repetition.                                *)

\* The files that stay: all, but the one that is about to be removed.
Removing == {"remove", "moverRemove"}
Rest == IF pc \in Removing THEN Removed(disk, job.path) ELSE disk

\* Where a call of __log2file has its block still to write.
Fresh == {"openCache", "writeCache", "openLog", "writeLog", "closeLog",
          "openFallback", "writeFallback"}

\* No block is in the files of d twice.
Single(d) ==
  /\ \A p \in DOMAIN d : d[p].data \in Seq(Nat) /\ IsInjective(d[p].data)
  /\ \A p, q \in DOMAIN d :
       p # q => Elems(d[p].data) \intersect Elems(d[q].data) = {}

\* The paths there are have a directory.
Named ==
  /\ "path" \in DOMAIN sg_logfile
  /\ \A p \in DOMAIN disk \union {last.path, sg_logfile.path} : "dir" \in DOMAIN p

\* The invariant: neither in the files that stay nor in the buffer, and the
\* block that comes is new.
SingleInv ==
  /\ blocks \in Nat
  /\ buf \in Seq(Nat) /\ IsInjective(buf)
  /\ Single(Rest) /\ Named
  /\ \A b \in Elems(buf) : b \in 0..blocks /\ b \notin BlocksOf(Rest)
  /\ BlocksOf(Rest) \subseteq 0..blocks
  /\ DOMAIN job = DOMAIN NoJob /\ job.block \in 0..blocks
  /\ pc \in Fresh => job.block \notin Elems(buf) /\ job.block \notin BlocksOf(Rest)
  /\ DOMAIN mover = {"due", "now", "todo"}
  /\ \A p \in mover.todo : p.dir = "cache"
  /\ pc \in InCall \union {"moverRemove"} => job.path.dir = "cache"
OnceInv == crashes \in Nat /\ (crashes = 0 => SingleInv)

\* A concatenation of what has nothing in common.
LEMMA InjectiveConcat ==
  ASSUME NEW s \in Seq(Nat), NEW t \in Seq(Nat), IsInjective(s), IsInjective(t),
         \A b \in Elems(t) : b \notin Elems(s)
  PROVE  IsInjective(s \o t)
<1> DEFINE u == s \o t
<1>1. /\ Len(s) \in Nat /\ Len(t) \in Nat
      /\ DOMAIN s = 1..Len(s) /\ DOMAIN t = 1..Len(t)
      /\ DOMAIN u = 1..Len(s) + Len(t)
      /\ \A i \in 1..Len(s) + Len(t) :
           u[i] = IF i <= Len(s) THEN s[i] ELSE t[i - Len(s)]
  <2>1. /\ u \in Seq(Nat) /\ Len(u) = Len(s) + Len(t)
        /\ \A i \in 1..Len(s) + Len(t) :
             u[i] = IF i <= Len(s) THEN s[i] ELSE t[i - Len(s)]
    BY ConcatProperties
  <2> HIDE DEF u
  <2>2. QED
    BY <2>1, LenProperties
<1> HIDE DEF u
<1>2. \A i \in DOMAIN s : s[i] \in Elems(s)
  BY DEF Elems
<1>3. \A i \in DOMAIN t : t[i] \in Elems(t)
  BY DEF Elems
<1>4. ASSUME NEW i \in DOMAIN u, NEW j \in DOMAIN u, u[i] = u[j], i <= j
      PROVE  i = j
  <2>1. CASE j <= Len(s)
    <3>1. i \in DOMAIN s /\ j \in DOMAIN s /\ u[i] = s[i] /\ u[j] = s[j]
      BY <1>1, <1>4, <2>1
    <3>2. QED
      BY <1>4, <3>1 DEF IsInjective
  <2>2. CASE i <= Len(s) /\ ~(j <= Len(s))
    <3>1. /\ i \in DOMAIN s /\ u[i] = s[i]
          /\ j - Len(s) \in DOMAIN t /\ u[j] = t[j - Len(s)]
      BY <1>1, <2>2
    <3>2. QED
      BY <1>2, <1>3, <1>4, <3>1
  <2>3. CASE ~(i <= Len(s))
    <3>1. /\ i - Len(s) \in DOMAIN t /\ u[i] = t[i - Len(s)]
          /\ j - Len(s) \in DOMAIN t /\ u[j] = t[j - Len(s)]
      BY <1>1, <1>4, <2>3
    <3>2. i - Len(s) = j - Len(s)
      BY <1>4, <3>1 DEF IsInjective
    <3>3. QED
      BY <1>1, <3>2
  <2>4. QED
    BY <1>1, <1>4, <2>1, <2>2, <2>3
<1>5. \A i, j \in DOMAIN u : u[i] = u[j] => i = j
  BY <1>1, <1>4
<1>6. IsInjective(u)
  BY <1>5 DEF IsInjective
<1>7. QED
  BY <1>6 DEF u

\* A new block more, and none.
LEMMA InjectiveFew ==
  /\ IsInjective(<< >>)
  /\ \A s \in Seq(Nat), b \in Nat :
       IsInjective(s) /\ b \notin Elems(s) => IsInjective(Append(s, b))
<1>1. IsInjective(<< >>)
  BY DEF IsInjective
<1>2. ASSUME NEW s \in Seq(Nat), NEW b \in Nat, IsInjective(s), b \notin Elems(s)
      PROVE  IsInjective(Append(s, b))
  <2> DEFINE t == <<b>>
  <2>1. /\ t \in Seq(Nat) /\ IsInjective(t) /\ Elems(t) = {b}
        /\ Append(s, b) = s \o t
    BY AppendIsConcat DEF IsInjective, Elems
  <2> HIDE DEF t
  <2>2. IsInjective(s \o t)
    BY <1>2, <2>1, InjectiveConcat
  <2>3. QED
    BY <2>1, <2>2
<1>3. QED
  BY <1>1, <1>2

\* The files after an append of blocks they do not have.
LEMMA SingleAppended ==
  ASSUME NEW d, Single(d), NEW p, NEW bs \in Seq(Nat), IsInjective(bs),
         \A b \in Elems(bs) : b \notin BlocksOf(d)
  PROVE  /\ Single(Appended(d, p, bs))
         /\ \A b : b \in BlocksOf(Appended(d, p, bs))
                     <=> b \in BlocksOf(d) \/ b \in Elems(bs)
<1> DEFINE e == Appended(d, p, bs)
<1>1. CASE bs = << >> /\ p \in DOMAIN d
  BY <1>1, ElemsOfFew DEF Appended
<1>2. CASE ~(bs = << >> /\ p \in DOMAIN d)
  <2>1. /\ DOMAIN e = DOMAIN d \union {p}
        /\ \A q \in DOMAIN d \ {p} : e[q] = d[q]
        /\ p \in DOMAIN d => e[p].data = d[p].data \o bs
        /\ p \notin DOMAIN d => e[p].data = bs
    BY <1>2 DEF Appended
  <2> HIDE DEF e
  <2>2. ASSUME p \in DOMAIN d
        PROVE  /\ e[p].data \in Seq(Nat) /\ IsInjective(e[p].data)
               /\ \A b : b \in Elems(e[p].data) <=> b \in Elems(d[p].data) \/ b \in Elems(bs)
    <3>1. d[p].data \in Seq(Nat) /\ IsInjective(d[p].data)
      BY <2>2 DEF Single
    <3>2. \A b \in Elems(bs) : b \notin Elems(d[p].data)
      BY <2>2 DEF BlocksOf
    <3>3. e[p].data = d[p].data \o bs
      BY <2>1, <2>2
    <3>4. d[p].data \o bs \in Seq(Nat) /\ IsInjective(d[p].data \o bs)
      BY <3>1, <3>2, ElemsConcat, InjectiveConcat
    <3>5. Elems(d[p].data \o bs) = Elems(d[p].data) \union Elems(bs)
      BY <3>1, ElemsConcat
    <3>6. QED
      BY <3>3, <3>4, <3>5
  <2>3. \A q \in DOMAIN e : e[q].data \in Seq(Nat) /\ IsInjective(e[q].data)
    BY <2>1, <2>2 DEF Single
  <2>4. \A q \in DOMAIN e : \A b : b \in Elems(e[q].data)
          <=> (q \in DOMAIN d /\ b \in Elems(d[q].data)) \/ (q = p /\ b \in Elems(bs))
    BY <2>1, <2>2
  <2>5. \A q \in DOMAIN d : \A b \in Elems(bs) : b \notin Elems(d[q].data)
    BY DEF BlocksOf
  <2>6. ASSUME NEW q \in DOMAIN e, NEW r \in DOMAIN e, q # r, NEW b,
               b \in Elems(e[q].data), b \in Elems(e[r].data)
        PROVE  FALSE
    BY <2>4, <2>5, <2>6 DEF Single
  <2>7. Single(e)
    BY <2>3, <2>6 DEF Single
  <2>8. \A b : b \in BlocksOf(e) <=> b \in BlocksOf(d) \/ b \in Elems(bs)
    BY <2>1, <2>4 DEF BlocksOf
  <2>9. QED
    BY <2>7, <2>8 DEF e
<1>3. QED
  BY <1>1, <1>2

\* The files without one of them.
LEMMA SingleRemoved ==
  ASSUME NEW d, Single(d), NEW p
  PROVE  Single(Removed(d, p)) /\ BlocksOf(Removed(d, p)) \subseteq BlocksOf(d)
<1>1. DOMAIN Removed(d, p) = DOMAIN d \ {p}
      /\ \A q \in DOMAIN d \ {p} : Removed(d, p)[q] = d[q]
  BY DEF Removed
<1>2. QED
  BY <1>1 DEF Single, BlocksOf

\* What is left when the source of a copy goes, or when the copy was not made.
LEMMA SingleCopied ==
  ASSUME Single(disk), NEW src, NEW dst, src # dst,
         NEW ok \in BOOLEAN, AppendFile(src, dst, ok)
  PROVE  LET rest == IF ok THEN Removed(disk', src) ELSE disk'
         IN Single(rest) /\ BlocksOf(rest) \subseteq BlocksOf(disk)
<1> DEFINE bs == IF src \in DOMAIN disk THEN disk[src].data ELSE << >>
           e == Appended(disk, dst, bs)
           f == Appended(disk, dst, << >>)
           r == Removed(disk, src)
<1>1. \/ ok /\ src \in DOMAIN disk /\ disk' \in {disk, e}
      \/ ~ok /\ disk' \in {disk, f}
  BY DEF AppendFile
<1>2. Single(r) /\ BlocksOf(r) \subseteq BlocksOf(disk)
  BY SingleRemoved
<1>3. Single(f) /\ BlocksOf(f) \subseteq BlocksOf(disk)
  BY SingleAppended, ElemsOfFew, InjectiveFew
<1>4. ASSUME src \in DOMAIN disk
      PROVE  Single(Removed(e, src)) /\ BlocksOf(Removed(e, src)) \subseteq BlocksOf(disk)
  <2>1. bs \in Seq(Nat) /\ IsInjective(bs) /\ bs = disk[src].data
    BY <1>4 DEF Single
  <2>2. \A b \in Elems(bs) : b \notin BlocksOf(r) /\ b \in BlocksOf(disk)
    <3>1. DOMAIN r = DOMAIN disk \ {src} /\ \A q \in DOMAIN r : r[q] = disk[q]
      BY DEF Removed
    <3> HIDE DEF r, bs
    <3>2. ASSUME NEW b \in Elems(bs), b \in BlocksOf(r) PROVE FALSE
      <4>1. PICK q \in DOMAIN r : b \in Elems(r[q].data)
        BY <3>2 DEF BlocksOf
      <4>2. q \in DOMAIN disk /\ q # src /\ b \in Elems(disk[q].data)
        BY <3>1, <4>1
      <4>3. QED
        BY <1>4, <2>1, <3>2, <4>2 DEF Single
    <3>3. \A b \in Elems(bs) : b \in BlocksOf(disk)
      BY <1>4, <2>1 DEF BlocksOf
    <3>4. QED
      BY <3>2, <3>3
  <2>3. CASE bs = << >> /\ dst \in DOMAIN disk
    BY <1>2, <2>3 DEF Appended
  <2>4. CASE ~(bs = << >> /\ dst \in DOMAIN disk)
    <3>1. Removed(e, src) = Appended(r, dst, bs)
      <4> DEFINE g == Removed(e, src)
                 h == Appended(r, dst, bs)
      <4>1. /\ DOMAIN r = DOMAIN disk \ {src}
            /\ \A q \in DOMAIN r : r[q] = disk[q]
        BY DEF Removed
      <4> HIDE DEF r, bs
      <4>2. e = [q \in DOMAIN disk \union {dst} |->
                   IF q # dst THEN disk[q]
                   ELSE [data |-> IF dst \in DOMAIN disk THEN disk[dst].data \o bs ELSE bs,
                         at |-> clock]]
        BY <2>4 DEF Appended
      <4>3. h = [q \in DOMAIN r \union {dst} |->
                   IF q # dst THEN r[q]
                   ELSE [data |-> IF dst \in DOMAIN r THEN r[dst].data \o bs ELSE bs,
                         at |-> clock]]
        BY <2>4, <4>1 DEF Appended
      <4>4. g = [q \in DOMAIN e \ {src} |-> e[q]]
        BY DEF Removed
      <4> HIDE DEF e, g, h
      <4>5. DOMAIN g = DOMAIN h
        BY <4>1, <4>2, <4>3, <4>4
      <4>6. \A q \in DOMAIN h : g[q] = h[q]
        BY <4>1, <4>2, <4>3, <4>4, <4>5
      <4>7. g = [q \in DOMAIN g |-> g[q]] /\ h = [q \in DOMAIN h |-> h[q]]
        BY <4>3, <4>4
      <4>8. g = h
        BY <4>5, <4>6, <4>7
      <4>9. QED
        BY <4>8 DEF g, h
    <3> HIDE DEF r, bs, e
    <3>2. /\ Single(Appended(r, dst, bs))
          /\ \A b : b \in BlocksOf(Appended(r, dst, bs)) <=> b \in BlocksOf(r) \/ b \in Elems(bs)
      BY <1>2, <2>1, <2>2, SingleAppended
    <3>3. QED
      BY <1>2, <2>2, <3>1, <3>2
  <2>5. QED
    BY <2>3, <2>4
<1> HIDE DEF bs, e, f, r
<1>5. CASE ok
  BY <1>1, <1>2, <1>4, <1>5 DEF r
<1>6. CASE ~ok
  BY <1>1, <1>3, <1>6
<1>7. QED
  BY <1>5, <1>6

-----------------------------------------------------------------------------
(* Steps keep the blocks apart.                                             *)

\* The program starts with no block.
LEMMA SingleInit == Init => OnceInv
<1> SUFFICES ASSUME Init PROVE OnceInv
  OBVIOUS
<1>1. /\ DOMAIN disk = {} /\ buf = << >> /\ sg_logfile = NoFile /\ pc = "idle"
      /\ job = NoJob /\ mover = MoverDue /\ blocks = 0 /\ crashes = 0
      /\ last = [time |-> 0, path |-> NoPath]
  BY DEF Init
<1>2. Single(Rest) /\ BlocksOf(Rest) = {}
  BY <1>1 DEF Rest, Removing, Single, BlocksOf
<1>3. Named
  BY <1>1 DEF Named, NoFile, NoPath
<1>4. QED
  BY <1>1, <1>2, <1>3, ElemsOfFew, InjectiveFew
     DEF OnceInv, SingleInv, NoJob, MoverDue, Fresh, InCall

\* Steps that write, outside of the moves: what is in the files and the
\* buffer was there before, or is the block of the call, whose writing is over.
LEMMA SingleWrites ==
  ASSUME SingleInv, pc \notin Removing, pc' \notin Removing,
         blocks' = blocks, job' = job, mover' = mover,
         Single(disk'), Named',
         buf' \in Seq(Nat), IsInjective(buf'),
         \A b : b \in BlocksOf(disk') \/ b \in Elems(buf') =>
                  \/ b \in BlocksOf(disk) \/ b \in Elems(buf)
                  \/ b = job.block /\ pc' \notin Fresh,
         \A b \in Elems(buf') : b \notin BlocksOf(disk'),
         pc' \in Fresh => pc \in Fresh,
         pc' \in InCall => pc \in InCall, pc' # "moverRemove"
  PROVE  SingleInv'
<1>1. Rest = disk /\ Rest' = disk'
  BY DEF Rest
<1>2. BlocksOf(Rest)' = BlocksOf(disk')
  BY <1>1
<1>3. QED
  BY <1>1, <1>2 DEF SingleInv

\* Closing the file takes the buffer to it.
LEMMA SingleFlushed ==
  ASSUME SingleInv, pc \notin Removing
  PROVE  /\ Single(Flushed(disk))
         /\ \A b \in BlocksOf(Flushed(disk)) : b \in BlocksOf(disk) \/ b \in Elems(buf)
         /\ \A p \in DOMAIN Flushed(disk) : "dir" \in DOMAIN p
<1> USE DEF SingleInv
<1>1. Rest = disk
  BY DEF Rest
<1>2. CASE Open /\ sg_logfile.linked
  <2>1. Flushed(disk) = Appended(disk, sg_logfile.path, buf)
    BY <1>2 DEF Flushed
  <2>2. /\ Single(Appended(disk, sg_logfile.path, buf))
        /\ \A b : b \in BlocksOf(Appended(disk, sg_logfile.path, buf))
                    <=> b \in BlocksOf(disk) \/ b \in Elems(buf)
    BY <1>1, SingleAppended
  <2>3. DOMAIN Appended(disk, sg_logfile.path, buf) \subseteq DOMAIN disk \union {sg_logfile.path}
    BY DEF Appended
  <2>4. QED
    BY <2>1, <2>2, <2>3 DEF Named
<1>3. CASE ~(Open /\ sg_logfile.linked)
  BY <1>1, <1>3 DEF Flushed, Named
<1>4. QED
  BY <1>2, <1>3

\* The steps that leave files and calls alone.
LEMMA SingleStill ==
  ASSUME SingleInv, UNCHANGED <<disk, openFile, call, mover, blocks>>
  PROVE  SingleInv'
<1>1. Rest' = Rest /\ Named'
  BY DEF Rest, Named, SingleInv, openFile, call
<1>2. BlocksOf(Rest)' = BlocksOf(Rest)
  BY <1>1
<1>3. QED
  BY <1>1, <1>2 DEF SingleInv, openFile, call

\* A call begins, with a new block.
LEMMA SingleBegin ==
  ASSUME SingleInv, NEW move \in BOOLEAN, NEW roomy \in BOOLEAN, Log2File(move, roomy)
  PROVE  SingleInv'
<1> USE DEF SingleInv
<1>1. /\ pc = "idle" /\ pc' \in {"openCache", "openLog"}
      /\ blocks \in Nat /\ blocks' = blocks + 1 /\ job'.block = blocks'
      /\ DOMAIN job' = DOMAIN NoJob /\ job'.path.dir = "cache"
      /\ UNCHANGED <<disk, openFile, mover>>
  BY DEF Log2File, NoJob, LogFileName, threads
<1>2. Rest = disk /\ Rest' = disk /\ Named'
  BY <1>1 DEF Rest, Removing, Named, openFile
<1>3. BlocksOf(Rest)' = BlocksOf(Rest)
  BY <1>2
<1>4. Single(Rest)' /\ buf' = buf
  BY <1>1, <1>2 DEF openFile
<1>5. \A b \in 0..blocks : b \in 0..blocks' /\ b # job'.block
  BY <1>1
<1>6. job'.block \in 0..blocks' /\ blocks' \in Nat
  BY <1>1
<1>7. QED
  BY <1>1, <1>2, <1>3, <1>4, <1>5, <1>6

\* __openlogfile.
LEMMA SingleOpens ==
  ASSUME SingleInv,
         NEW from \in {"openCache", "openLog", "openFallback"},
         NEW dir, NEW ok \in Writing,
         NEW fail \in {"openLog", "openFallback", "idle"},
         OpenFile(from, dir, ok, fail)
  PROVE  SingleInv'
<1> USE DEF SingleInv
<1>1. /\ pc = from /\ pc' \in {ok, fail}
      /\ UNCHANGED <<job, mover, blocks>>
  BY DEF OpenFile, threads
<1>2. pc \notin Removing /\ pc' \notin Removing /\ Rest = disk
      /\ pc \in Fresh /\ pc \in InCall /\ pc' # "moverRemove"
  BY <1>1 DEF Removing, Rest, Fresh, InCall, Writing
<1>3. CASE UNCHANGED <<disk, openFile>>
  <2>1. Named' /\ buf' = buf
    BY <1>3 DEF openFile, Named
  <2>2. QED
    BY <1>1, <1>2, <1>3, <2>1, SingleWrites
<1>4. CASE ~UNCHANGED <<disk, openFile>>
  <2> DEFINE d == Flushed(disk)
             name == LogFileName(d, dir, clock)
  <2>1. /\ Single(d) /\ \A p \in DOMAIN d : "dir" \in DOMAIN p
        /\ \A b \in BlocksOf(d) : b \in BlocksOf(disk) \/ b \in Elems(buf)
    BY <1>2, SingleFlushed
  <2>2. "dir" \in DOMAIN name
    BY DEF LogFileName
  <2> HIDE DEF name
  <2>3. PICK path \in {last.path, name} :
          /\ buf' = << >>
          /\ last' = last \/ last' = [time |-> clock, path |-> name]
          /\ \/ /\ disk' = Appended(d, path, << >>)
                /\ sg_logfile' = [path |-> path, dir |-> dir, time |-> clock,
                                  linked |-> TRUE]
             \/ disk' = d /\ sg_logfile' = NoFile
    BY <1>4 DEF OpenFile, name
  <2> HIDE DEF d
  <2>4. /\ Single(Appended(d, path, << >>))
        /\ \A b : b \in BlocksOf(Appended(d, path, << >>)) => b \in BlocksOf(d)
    BY <2>1, SingleAppended, ElemsOfFew, InjectiveFew
  <2>5. "dir" \in DOMAIN path /\ "dir" \in DOMAIN last'.path
    BY <2>2, <2>3 DEF Named
  <2>6. DOMAIN Appended(d, path, << >>) \subseteq DOMAIN d \union {path}
    BY DEF Appended
  <2>7. Named'
    <3>1. \A p \in DOMAIN disk' : "dir" \in DOMAIN p
      BY <2>1, <2>3, <2>5, <2>6
    <3>2. "path" \in DOMAIN sg_logfile' /\ "dir" \in DOMAIN sg_logfile'.path
      BY <2>3, <2>5 DEF NoFile, NoPath
    <3>3. QED
      BY <2>5, <3>1, <3>2 DEF Named
  <2>8. Single(disk') /\ \A b \in BlocksOf(disk') : b \in BlocksOf(disk) \/ b \in Elems(buf)
    BY <2>1, <2>3, <2>4
  <2>9. buf' \in Seq(Nat) /\ IsInjective(buf') /\ Elems(buf') = {}
    BY <2>3, ElemsOfFew, InjectiveFew
  <2>10. QED
    BY <1>1, <1>2, <2>7, <2>8, <2>9, SingleWrites
<1>5. QED
  BY <1>3, <1>4

\* __closelogfile, where a call is not about to remove a file.
LEMMA SingleCloses ==
  ASSUME SingleInv, pc \notin Removing, pc' \notin Removing,
         UNCHANGED <<job, mover, blocks, last>>,
         CloseFile, pc' \in Fresh => pc \in Fresh, pc' \in InCall => pc \in InCall,
         pc' # "moverRemove"
  PROVE  SingleInv'
<1> USE DEF SingleInv
<1>1. disk' = Flushed(disk) /\ sg_logfile' = NoFile /\ buf' = << >>
  BY DEF CloseFile
<1>2. /\ Single(disk')
      /\ \A b \in BlocksOf(disk') : b \in BlocksOf(disk) \/ b \in Elems(buf)
      /\ \A p \in DOMAIN disk' : "dir" \in DOMAIN p
  BY <1>1, SingleFlushed
<1>3. Named'
  BY <1>1, <1>2 DEF Named, NoFile, NoPath
<1>4. buf' \in Seq(Nat) /\ IsInjective(buf') /\ Elems(buf') = {}
  BY <1>1, ElemsOfFew, InjectiveFew
<1>5. QED
  BY <1>2, <1>3, <1>4, SingleWrites

\* __writefile.
LEMMA SingleWriteFile ==
  ASSUME SingleInv, NEW from \in Writing,
         NEW ok \in {"idle", "append"}, NEW fail \in {"idle", "append", "closeLog"},
         WriteFile(from, ok, fail)
  PROVE  SingleInv'
<1> USE DEF SingleInv
<1> DEFINE bs == Append(buf, job.block)
           e == Appended(disk, sg_logfile.path, bs)
<1>1. /\ pc = from /\ UNCHANGED <<last, job, mover, blocks>>
      /\ (WriteOk /\ pc' = ok) \/ (WriteFails /\ pc' = fail)
  BY DEF WriteFile, threads
<1>2. /\ pc \notin Removing /\ pc' \notin Removing /\ pc \in Fresh /\ pc \in InCall
      /\ pc' # "moverRemove" /\ Rest = disk
  BY <1>1 DEF Removing, Fresh, InCall, Writing, Rest
<1>3. /\ bs \in Seq(Nat) /\ IsInjective(bs)
      /\ \A b \in Elems(bs) : b \notin BlocksOf(disk)
      /\ \A b : b \in Elems(bs) <=> b \in Elems(buf) \/ b = job.block
  <2>1. job.block \in Nat /\ job.block \notin Elems(buf)
    BY <1>2
  <2>2. bs \in Seq(Nat) /\ Elems(bs) = Elems(buf) \union {job.block}
    BY <2>1, ElemsOfFew
  <2>3. IsInjective(bs)
    BY <2>1, InjectiveFew
  <2> HIDE DEF bs
  <2>4. QED
    BY <1>2, <2>2, <2>3
<1> HIDE DEF bs
<1>4. /\ Single(e)
      /\ \A b : b \in BlocksOf(e) <=> b \in BlocksOf(disk) \/ b \in Elems(bs)
  BY <1>2, <1>3, SingleAppended
<1>5. DOMAIN e \subseteq DOMAIN disk \union {sg_logfile.path}
  BY DEF Appended
<1> HIDE DEF e
<1>6. << >> \in Seq(Nat) /\ IsInjective(<< >>) /\ Elems(<< >>) = {}
  BY ElemsOfFew, InjectiveFew
<1>7. CASE WriteOk /\ pc' = ok
  <2>1. /\ sg_logfile' = NoFile \/ sg_logfile' = sg_logfile
        /\ \/ buf' = << >> /\ disk' \in {disk, e}
           \/ buf' = bs /\ disk' = disk
    BY <1>7 DEF WriteOk, bs, e
  <2>2. Named'
    BY <1>1, <1>5, <2>1 DEF Named, NoFile, NoPath
  <2>3. Single(disk') /\ buf' \in Seq(Nat) /\ IsInjective(buf')
    BY <1>2, <1>3, <1>4, <1>6, <2>1
  <2>4. /\ \A b : b \in BlocksOf(disk') \/ b \in Elems(buf') =>
                    b \in BlocksOf(disk) \/ b \in Elems(buf) \/ b = job.block
        /\ \A b \in Elems(buf') : b \notin BlocksOf(disk')
    BY <1>3, <1>4, <1>6, <2>1
  <2>5. pc' \notin Fresh /\ (pc' \in InCall => pc \in InCall)
    BY <1>2, <1>7 DEF Fresh
  <2>6. QED
    BY <1>1, <1>2, <2>2, <2>3, <2>4, <2>5, SingleWrites
<1>8. CASE WriteFails /\ pc' = fail /\ CloseFile
  BY <1>1, <1>2, <1>8, SingleCloses
<1>9. CASE WriteFails /\ pc' = fail /\ ~CloseFile
  <2>1. disk' = disk /\ sg_logfile' = sg_logfile /\ (buf' = buf \/ buf' = << >>)
    BY <1>9 DEF WriteFails
  <2>2. Named'
    BY <1>1, <2>1 DEF Named
  <2>3. /\ Single(disk') /\ buf' \in Seq(Nat) /\ IsInjective(buf')
        /\ \A b \in Elems(buf') : b \in Elems(buf)
    BY <1>2, <1>6, <2>1
  <2>4. QED
    BY <1>1, <1>2, <2>1, <2>2, <2>3, SingleWrites
<1>10. QED
  BY <1>1, <1>7, <1>8, <1>9

\* What the steps have in common that copy a cached file, or remove it.
LEMMA SingleMoves ==
  ASSUME SingleInv,
         UNCHANGED <<openFile, blocks>>,
         DOMAIN job' = DOMAIN NoJob, job'.block = job.block,
         DOMAIN mover' = DOMAIN mover, \A p \in mover'.todo : p.dir = "cache",
         Single(Rest'), BlocksOf(Rest') \subseteq BlocksOf(Rest),
         \A p \in DOMAIN disk' : "dir" \in DOMAIN p,
         pc' \in {"idle", "remove", "mover", "moverRemove"},
         pc' \in Removing => job'.path.dir = "cache"
  PROVE  SingleInv'
<1>1. Named'
  BY DEF SingleInv, Named, openFile
<1>2. BlocksOf(Rest)' = BlocksOf(Rest')
  OBVIOUS
<1>3. pc' \notin Fresh /\ (pc' \in InCall \union {"moverRemove"} => pc' \in Removing)
  BY DEF Fresh, InCall, Removing
<1>4. QED
  BY <1>1, <1>2, <1>3 DEF SingleInv, openFile

\* The cached file is copied over.
LEMMA SingleAppendCached ==
  ASSUME SingleInv, AppendCached
  PROVE  SingleInv'
<1> USE DEF SingleInv
<1> DEFINE dst == LogFileName(disk, "log", job.time)
<1>1. PICK ok \in BOOLEAN : /\ AppendFile(job.path, dst, ok)
                            /\ pc' = IF ok THEN "remove" ELSE "idle"
  BY DEF AppendCached
<1>2. /\ pc = "append" /\ UNCHANGED <<openFile, job, mover, blocks>>
  BY DEF AppendCached, threads
<1>3. Rest = disk /\ job.path.dir = "cache"
  BY <1>2 DEF Rest, Removing, InCall
<1>4. dst.dir = "log" /\ "dir" \in DOMAIN dst
  BY DEF LogFileName
<1> HIDE DEF dst
<1>5. /\ Single(IF ok THEN Removed(disk', job.path) ELSE disk')
      /\ BlocksOf(IF ok THEN Removed(disk', job.path) ELSE disk') \subseteq BlocksOf(disk)
  BY <1>1, <1>3, <1>4, SingleCopied
<1>6. Rest' = IF ok THEN Removed(disk', job.path) ELSE disk'
  BY <1>1, <1>2 DEF Rest, Removing
<1>7. DOMAIN disk' \subseteq DOMAIN disk \union {dst}
  BY <1>1 DEF AppendFile, Appended
<1>8. \A p \in DOMAIN disk' : "dir" \in DOMAIN p
  BY <1>4, <1>7 DEF Named
<1>9. pc' \in {"idle", "remove"}
  BY <1>1
<1>10. QED
  BY <1>2, <1>3, <1>5, <1>6, <1>8, <1>9, SingleMoves

\* It is removed; in Sync mode the open file is closed first.
LEMMA SingleRemoveCached ==
  ASSUME SingleInv, RemoveCached
  PROVE  SingleInv'
<1> USE DEF SingleInv
<1> DEFINE q == sg_logfile.path
           j == job.path
           r == Removed(disk, j)
<1>1. /\ pc = "remove" /\ pc' = "idle"
      /\ UNCHANGED <<last, job, mover, blocks>>
  BY DEF RemoveCached, threads, bounds
<1>2. Rest = r /\ Rest' = disk'
  BY <1>1 DEF Rest, Removing
<1>3. \A p \in DOMAIN r : "dir" \in DOMAIN p
  BY DEF Removed, Named
<1>4. pc' \notin Fresh /\ pc' \notin InCall \union {"moverRemove"}
  BY <1>1 DEF Fresh, InCall
\* In the end the files that stay have got the buffer or not.
<1>5. /\ Single(disk') /\ Named'
      /\ \A b \in BlocksOf(disk') : b \in BlocksOf(r) \/ b \in Elems(buf)
      /\ \/ buf' = buf /\ disk' = r
         \/ buf' = << >>
  <2>1. CASE sg_mode # "Sync"
    <3>1. /\ disk' = r /\ buf' = buf
          /\ sg_logfile' = sg_logfile \/ sg_logfile' = [sg_logfile EXCEPT !.linked = FALSE]
      BY <2>1 DEF RemoveCached, Unlink
    <3>2. "path" \in DOMAIN sg_logfile' /\ sg_logfile'.path = sg_logfile.path
      BY <3>1 DEF Named
    <3>3. Named'
      BY <1>1, <1>3, <3>1, <3>2 DEF Named
    <3>4. QED
      BY <1>2, <3>1, <3>3
  <2>2. CASE sg_mode = "Sync"
    <3>1. disk' = Removed(Flushed(disk), j) /\ sg_logfile' = NoFile /\ buf' = << >>
      BY <2>2 DEF RemoveCached
    <3>2. CASE Flushed(disk) = disk \/ q = j
      <4>1. Flushed(disk) \in {disk, Appended(disk, q, buf)}
        BY DEF Flushed
      <4>2. ASSUME q = j PROVE Removed(Appended(disk, q, buf), j) = r
        BY <4>2 DEF Removed, Appended
      <4>3. disk' = r
        BY <3>1, <3>2, <4>1, <4>2
      <4>4. Named'
        BY <1>1, <1>3, <3>1, <4>3 DEF Named, NoFile, NoPath
      <4>5. QED
        BY <1>2, <3>1, <4>3, <4>4
    <3>3. CASE Flushed(disk) # disk /\ q # j
      <4>1. Flushed(disk) = Appended(disk, q, buf) /\ ~(buf = << >> /\ q \in DOMAIN disk)
        BY <3>3 DEF Flushed, Appended
      <4>2. Removed(Appended(disk, q, buf), j) = Appended(r, q, buf)
        BY <3>3, <4>1 DEF Removed, Appended
      <4>3. /\ Single(Appended(r, q, buf))
            /\ \A b : b \in BlocksOf(Appended(r, q, buf))
                        <=> b \in BlocksOf(r) \/ b \in Elems(buf)
        BY <1>2, SingleAppended
      <4>4. DOMAIN Appended(r, q, buf) \subseteq DOMAIN r \union {q}
        BY DEF Appended
      <4>5. Named'
        BY <1>1, <1>3, <3>1, <4>1, <4>2, <4>4 DEF Named, NoFile, NoPath
      <4>6. QED
        BY <3>1, <4>1, <4>2, <4>3, <4>5
    <3>4. QED
      BY <3>2, <3>3
  <2>3. QED
    BY <2>1, <2>2
<1> HIDE DEF r
<1>6. /\ BlocksOf(Rest)' = BlocksOf(disk') /\ Single(Rest)'
  BY <1>2, <1>5
<1>7. /\ buf' \in Seq(Nat) /\ IsInjective(buf')
      /\ \A b \in Elems(buf') : b \in 0..blocks /\ b \notin BlocksOf(disk')
  BY <1>2, <1>5, ElemsOfFew, InjectiveFew
<1>8. BlocksOf(disk') \subseteq 0..blocks
  BY <1>2, <1>5
<1>9. QED
  BY <1>1, <1>4, <1>5, <1>6, <1>7, <1>8

\* The thread that moves the cached files.
LEMMA SingleMover ==
  ASSUME SingleInv, Mover
  PROVE  SingleInv'
<1> USE DEF SingleInv
<1>1. CASE MoverStart
  <2>1. Rest = disk /\ Rest' = disk /\ pc' = "mover" /\ pc' \notin Removing
    BY <1>1 DEF MoverStart, Rest, Removing
  <2>2. DOMAIN mover' = DOMAIN mover /\ \A p \in mover'.todo : p.dir = "cache"
    BY <1>1 DEF MoverStart
  <2>3. QED
    BY <1>1, <2>1, <2>2, SingleMoves DEF MoverStart, bounds, Named
<1>2. CASE MoverRemove
  <2>1. /\ Rest = disk' /\ Rest' = disk' /\ pc' = "mover"
        /\ UNCHANGED <<buf, last, job, mover, blocks>>
        /\ disk' = Removed(disk, job.path)
        /\ sg_logfile' = sg_logfile \/ sg_logfile' = [sg_logfile EXCEPT !.linked = FALSE]
    BY <1>2 DEF MoverRemove, Rest, Removing, threads, bounds, Unlink
  <2>2. "path" \in DOMAIN sg_logfile' /\ sg_logfile'.path = sg_logfile.path
    BY <2>1 DEF Named
  <2>3. Named'
    BY <2>1, <2>2 DEF Named, Removed
  <2>4. BlocksOf(Rest)' = BlocksOf(Rest) /\ Single(Rest)'
    BY <2>1
  <2>5. pc' \notin Fresh /\ pc' \notin InCall \union {"moverRemove"}
    BY <2>1 DEF Fresh, InCall
  <2>6. QED
    BY <2>1, <2>3, <2>4, <2>5
<1>3. CASE MoverEnd
  <2>1. Rest = disk /\ Rest' = disk /\ pc' = "idle" /\ pc' \notin Removing
    BY <1>3 DEF MoverEnd, Rest, Removing
  <2>2. DOMAIN mover' = DOMAIN mover /\ \A p \in mover'.todo : p.dir = "cache"
    BY <1>3 DEF MoverEnd
  <2>3. QED
    BY <1>3, <2>1, <2>2, SingleMoves DEF MoverEnd, bounds, Named
<1>4. ASSUME NEW p \in mover.todo, MoverNext(p) PROVE SingleInv'
  <2> DEFINE dst == [p EXCEPT !.dir = "log"]
  <2>1. /\ pc = "mover" /\ Rest = disk /\ p \in DOMAIN disk
        /\ UNCHANGED <<openFile, blocks>>
        /\ mover' = [mover EXCEPT !.todo = @ \ {p}]
    BY <1>4 DEF MoverNext, Rest, Removing
  <2>2. (\A q \in mover'.todo : q.dir = "cache") /\ DOMAIN mover' = DOMAIN mover
    BY <2>1
  <2>3. CASE UNCHANGED <<disk, pc, job, faults, lost>>
    <3>1. Rest' = disk
      BY <2>1, <2>3 DEF Rest, Removing
    <3>2. QED
      BY <2>1, <2>2, <2>3, <3>1, SingleMoves DEF Named, Removing
  <2>4. CASE /\ \E ok \in BOOLEAN :
                  /\ AppendFile(p, dst, ok)
                  /\ pc' = IF ok THEN "moverRemove" ELSE "idle"
             /\ job' = [job EXCEPT !.path = p]
    <3>1. PICK ok \in BOOLEAN : /\ AppendFile(p, dst, ok)
                                /\ pc' = IF ok THEN "moverRemove" ELSE "idle"
      BY <2>4
    <3>2. job'.path = p /\ job'.block = job.block /\ DOMAIN job' = DOMAIN NoJob
      BY <2>4 DEF NoJob
    <3>3. p.dir = "cache" /\ "dir" \in DOMAIN p
      BY <2>1 DEF Named
    <3>4. dst # p /\ "dir" \in DOMAIN dst
      BY <3>3
    <3> HIDE DEF dst
    <3>5. /\ Single(IF ok THEN Removed(disk', p) ELSE disk')
          /\ BlocksOf(IF ok THEN Removed(disk', p) ELSE disk') \subseteq BlocksOf(disk)
      BY <2>1, <3>1, <3>4, SingleCopied
    <3>6. Rest' = IF ok THEN Removed(disk', p) ELSE disk'
      BY <3>1, <3>2 DEF Rest, Removing
    <3>7. DOMAIN disk' \subseteq DOMAIN disk \union {dst}
      BY <3>1 DEF AppendFile, Appended
    <3>8. \A q \in DOMAIN disk' : "dir" \in DOMAIN q
      BY <3>4, <3>7 DEF Named
    <3>9. pc' \in {"idle", "moverRemove"}
      BY <3>1
    <3>10. QED
      BY <2>1, <2>2, <3>2, <3>3, <3>5, <3>6, <3>8, <3>9, SingleMoves
  <2>5. QED
    BY <1>4, <2>3, <2>4 DEF MoverNext
<1>5. QED
  BY <1>1, <1>2, <1>3, <1>4 DEF Mover

\* The threads that delete old files.
LEMMA SingleSweep ==
  ASSUME SingleInv, Sweep
  PROVE  SingleInv'
<1> USE DEF SingleInv
<1>1. CASE \/ \E dir \in Dirs : SweepStart(dir)
           \/ \E p \in sweep.todo : SweepCheck(p)
  BY <1>1, SingleStill DEF SweepStart, SweepCheck, bounds
<1>2. CASE SweepRemove
  <2> DEFINE v == sweep.victim
             j == job.path
  <2>1. /\ disk' = Removed(disk, v)
        /\ UNCHANGED <<buf, last, call, mover, blocks>>
        /\ sg_logfile' = sg_logfile \/ sg_logfile' = [sg_logfile EXCEPT !.linked = FALSE]
    BY <1>2 DEF SweepRemove, Unlink, bounds
  <2>2. "path" \in DOMAIN sg_logfile' /\ sg_logfile'.path = sg_logfile.path
    BY <2>1 DEF Named
  <2>3. Named'
    BY <2>1, <2>2 DEF Named, Removed
  <2>4. Rest' = Removed(Rest, v)
    <3>1. CASE pc \in Removing
      <4>1. Removed(Removed(disk, v), j) = Removed(Removed(disk, j), v)
        BY DEF Removed
      <4>2. QED
        BY <2>1, <3>1, <4>1 DEF Rest, call
    <3>2. CASE pc \notin Removing
      BY <2>1, <3>2 DEF Rest, call
    <3>3. QED
      BY <3>1, <3>2
  <2>5. Single(Rest') /\ BlocksOf(Rest') \subseteq BlocksOf(Rest)
    BY <2>4, SingleRemoved
  <2>6. BlocksOf(Rest)' = BlocksOf(Rest') /\ Single(Rest)'
    BY <2>5
  <2>7. QED
    BY <2>1, <2>3, <2>5, <2>6 DEF call
<1>3. QED
  BY <1>1, <1>2 DEF Sweep

\* Every step keeps the blocks apart; after a crash there may be copies.
LEMMA SingleStep == OnceInv /\ [Next]_vars => OnceInv'
<1> SUFFICES ASSUME OnceInv, [Next]_vars PROVE OnceInv'
  OBVIOUS
<1>1. CASE Crash
  BY <1>1 DEF OnceInv, Crash
<1>2. ASSUME SingleInv, ~Crash PROVE SingleInv'
  <2>1. CASE Log2FileStep
    <3>1. /\ AfterCache \in {"idle", "append"} /\ AfterLog \in {"idle", "closeLog"}
          /\ (IF UseCache THEN "openFallback" ELSE "idle") \in {"openFallback", "idle"}
      BY DEF AfterCache, AfterLog
    <3>2. CASE CloseLog
      <4>1. /\ pc = "closeLog" /\ pc' = "openFallback"
            /\ UNCHANGED <<last, job, mover, blocks>>
            /\ CloseFile \/ UNCHANGED <<disk, sg_logfile, buf>>
        BY <3>2 DEF CloseLog, threads, bounds
      <4>2. /\ pc \notin Removing /\ pc' \notin Removing /\ pc \in Fresh
            /\ pc \in InCall /\ pc' # "moverRemove"
        BY <4>1 DEF Removing, Fresh, InCall
      <4>3. CASE UNCHANGED <<disk, sg_logfile, buf>>
        <5>1. Rest = disk /\ Named'
          BY <1>2, <4>1, <4>2, <4>3 DEF Rest, Named, SingleInv
        <5>2. QED
          BY <1>2, <4>1, <4>2, <4>3, <5>1, SingleWrites DEF SingleInv
      <4>4. QED
        BY <1>2, <4>1, <4>2, <4>3, SingleCloses
    <3>3. CASE AppendCached \/ RemoveCached
      BY <1>2, <3>3, SingleAppendCached, SingleRemoveCached
    <3>4. CASE \/ WriteFile("writeCache", AfterCache, AfterCache)
               \/ WriteFile("writeLog", "idle", AfterLog)
               \/ WriteFile("writeFallback", "idle", "idle")
      BY <1>2, <3>1, <3>4, SingleWriteFile DEF Writing
    <3>5. CASE \/ OpenFile("openCache", "cache", "writeCache", "openLog")
               \/ OpenFile("openLog", "log", "writeLog",
                           IF UseCache THEN "openFallback" ELSE "idle")
               \/ OpenFile("openFallback", "cache", "writeFallback", "idle")
      BY <1>2, <3>1, <3>5, SingleOpens DEF Writing
    <3>6. QED
      BY <2>1, <3>2, <3>3, <3>4, <3>5 DEF Log2FileStep
  <2>2. CASE Close
    <3>1. /\ pc = "idle" /\ pc' = pc /\ CloseFile
          /\ UNCHANGED <<last, job, mover, blocks>>
      BY <2>2 DEF Close, call, threads, bounds
    <3>2. pc \notin Removing /\ pc # "moverRemove"
      BY <3>1 DEF Removing
    <3>3. QED
      BY <1>2, <3>1, <3>2, SingleCloses
  <2>3. CASE \E move, roomy \in BOOLEAN : Log2File(move, roomy)
    BY <1>2, <2>3, SingleBegin
  <2>4. CASE Mover \/ Sweep
    BY <1>2, <2>4, SingleMover, SingleSweep
  <2>5. CASE \/ Tick \/ SetBack \/ ReleaseDir \/ UNCHANGED vars
             \/ \E mode \in Modes : SetMode(mode)
    BY <1>2, <2>5, SingleStill
       DEF Tick, SetBack, ReleaseDir, SetMode, threads, bounds, vars
  <2>6. QED
    BY <1>2, <2>1, <2>2, <2>3, <2>4, <2>5 DEF Next, Step
<1>3. crashes' = crashes \/ Crash
  BY DEF Next, Step, vars, bounds, Log2File, Log2FileStep, OpenFile, WriteFile,
         AppendCached, RemoveCached, CloseLog, Mover, MoverStart, MoverNext, MoverRemove,
         MoverEnd, Sweep, SweepStart, SweepCheck, SweepRemove, Tick, SetBack,
         ReleaseDir, SetMode, Close
<1>4. QED
  BY <1>1, <1>2, <1>3 DEF OnceInv, Crash

\* Until a crash, and but for the moment between a copy and the removal of its
\* source, no block is in two files or in one twice: in every mode, with and
\* without a cache, whatever fails and however the clock goes.
THEOREM FilesOnce == Spec => []Once
<1>1. OnceInv => Once
  BY DEF OnceInv, SingleInv, Single, Rest, Removing, Once, Blocks
<1>2. QED
  BY <1>1, SingleInit, SingleStep, PTL DEF Spec
-----------------------------------------------------------------------------
(* How large the files get, in Async mode.                                  *)

\* A set of numbers that is not empty has a least one.
LEMMA Least ==
  ASSUME NEW T, T \subseteq Nat, T # {}
  PROVE  \E m \in T : \A k \in T : m <= k
<1> DEFINE R == OpToRel(<, Nat)
<1>1. IsWellFoundedOn(R, Nat)
  BY NatLessThanWellFounded
<1>2. \A j, k \in Nat : j < k => <<j, k>> \in R
  BY DEF OpToRel
<1> HIDE DEF R
<1>3. PICK m \in T : \A k \in T : ~(<<k, m>> \in R)
  BY <1>1, WFMin
<1>4. ASSUME NEW k \in T PROVE m <= k
  <2>1. m \in Nat /\ k \in Nat
    OBVIOUS
  <2>2. ~(k < m)
    BY <1>2, <1>3, <2>1
  <2>3. QED
    BY <2>1, <2>2
<1>5. QED
  BY <1>4

\* One that is bounded, a greatest.
LEMMA MaxIs ==
  ASSUME NEW S, S \subseteq Nat, S # {}, NEW b \in Nat, \A x \in S : x <= b
  PROVE  Max(S) \in S /\ \A x \in S : x <= Max(S)
<1> DEFINE T == {n \in Nat : \A x \in S : x <= n}
<1>1. PICK m \in T : \A k \in T : m <= k
  <2>1. T \subseteq Nat /\ T # {}
    OBVIOUS
  <2>2. QED
    BY <2>1, Least
<1>2. m \in S
  <2> SUFFICES ASSUME m \notin S PROVE FALSE
    OBVIOUS
  <2>1. \A x \in S : x < m
    OBVIOUS
  <2>2. m > 0
    <3>1. PICK x \in S : x < m
      BY <2>1
    <3>2. x \in Nat /\ m \in Nat
      OBVIOUS
    <3>3. QED
      BY <3>1, <3>2
  <2>3. m - 1 \in Nat /\ \A x \in S : x <= m - 1
    BY <2>1, <2>2
  <2>4. m - 1 \in T
    BY <2>3
  <2>5. QED
    BY <1>1, <2>4
<1>3. \E x \in S : \A y \in S : x >= y
  BY <1>2
<1>4. Max(S) \in S /\ \A y \in S : Max(S) >= y
  BY <1>3 DEF Max
<1>5. QED
  BY <1>4

\* A name of a file.
Names == [dir : {"log", "cache"}, day : Nat, idx : Nat]
At(dir, day, i) == [dir |-> dir, day |-> day, idx |-> i]

\* The blocks of one index of a day, in both directories.
Together(d, day, i) == Size(d, At("log", day, i)) + Size(d, At("cache", day, i))

\* The files of d have names, and there is a last index.
Indexed(d) ==
  /\ DOMAIN d \subseteq Names
  /\ \A p \in DOMAIN d : d[p].data \in Seq(Nat)
  /\ \E b \in Nat : \A p \in DOMAIN d : p.idx <= b

\* No file has more than a block too many; nor have those of one index
\* together.
Small(d) == \A p \in DOMAIN d : Size(d, p) <= sg_max_file_size + 1
Fits(d) == \A day, i \in Nat : Together(d, day, i) <= sg_max_file_size + 1

\* The indices of the day that d has are up to that of p.
UpTo(d, p) == \A q \in DOMAIN d : q.day = p.day => q.idx <= p.idx

\* Every call closes the file in Async mode; the file it opens has room.
OpenRoom ==
  /\ sg_mode = "Async" /\ buf = << >>
  /\ DOMAIN sg_logfile = DOMAIN NoFile
  /\ Open => /\ pc \in Writing /\ sg_logfile.path \in Names
             /\ sg_logfile.linked => sg_logfile.path \in DOMAIN disk
  /\ pc \in Writing => /\ Open
                       /\ Together(disk, sg_logfile.path.day, sg_logfile.path.idx)
                            <= sg_max_file_size

\* The cached file that a call may move over is of the last index.
JobLast ==
  /\ clock \in Nat /\ last.time \in Nat /\ last.time <= clock
  /\ backs \in Nat /\ blocks \in Nat /\ job.block \in Nat /\ job.time \in Nat
  /\ DOMAIN job = DOMAIN NoJob
  /\ DOMAIN mover = {"due", "now", "todo"}
  /\ \A p \in mover.todo : p.dir = "cache"
  /\ pc \in InCall \union Removing => job.path \in Names /\ job.path.dir = "cache"
  /\ pc \in {"openCache", "writeCache", "append"} =>
       job.path.day = Day(job.time) /\ UpTo(disk, job.path)
  /\ pc = "openCache" =>
       Together(disk, job.path.day, job.path.idx) <= sg_max_file_size

SmallInv == Indexed(disk) /\ Small(disk) /\ Fits(Rest) /\ OpenRoom /\ JobLast
-----------------------------------------------------------------------------
(* Sizes.                                                                   *)

LEMMA NameIs ==
  ASSUME NEW p \in Names
  PROVE  /\ p = At(p.dir, p.day, p.idx)
         /\ p.dir \in {"log", "cache"} /\ p.day \in Nat /\ p.idx \in Nat
BY DEF Names, At

LEMMA SizesNat ==
  ASSUME NEW d, Indexed(d)
  PROVE  /\ \A p : Size(d, p) \in Nat
         /\ \A day, i \in Nat : Together(d, day, i) \in Nat
         /\ \A p \in DOMAIN d : Size(d, p) = Len(d[p].data)
         /\ \A p : p \notin DOMAIN d => Size(d, p) = 0
         /\ \A p \in DOMAIN d :
              Size(d, p) <= Together(d, p.day, p.idx) /\ p \in Names
<1>1. \A p \in DOMAIN d : Len(d[p].data) \in Nat
  BY LenProperties DEF Indexed
<1>2. \A p : Size(d, p) \in Nat
  BY <1>1 DEF Size
<1>3. \A day, i \in Nat : Together(d, day, i) \in Nat
  BY <1>2 DEF Together
<1>4. ASSUME NEW p \in DOMAIN d
      PROVE  Size(d, p) <= Together(d, p.day, p.idx) /\ p \in Names
  <2>1. p \in Names
    BY DEF Indexed
  <2>2. p \in {At("log", p.day, p.idx), At("cache", p.day, p.idx)}
    BY <2>1, NameIs
  <2>3. QED
    BY <1>2, <2>1, <2>2 DEF Together
<1>5. QED
  BY <1>2, <1>3, <1>4 DEF Size

\* No file of e is larger than it is in d.
NoLarger(d, e) == \A p : Size(e, p) <= Size(d, p)

LEMMA NoLargerFits ==
  ASSUME NEW d, NEW e, Indexed(d), Indexed(e), NoLarger(d, e)
  PROVE  /\ \A day, i \in Nat : Together(e, day, i) <= Together(d, day, i)
         /\ Fits(d) => Fits(e)
         /\ Small(d) => Small(e)
<1>0. sg_max_file_size \in Nat
  BY FilesAssumption
<1>1. \A p : Size(d, p) \in Nat /\ Size(e, p) \in Nat /\ Size(e, p) <= Size(d, p)
  BY SizesNat DEF NoLarger
<1>2. \A day, i \in Nat :
        /\ Together(e, day, i) <= Together(d, day, i)
        /\ Together(e, day, i) \in Nat /\ Together(d, day, i) \in Nat
  BY <1>1 DEF Together
<1>3. Fits(d) => Fits(e)
  BY <1>0, <1>2 DEF Fits
<1>4. Small(d) => Small(e)
  <2> SUFFICES ASSUME Small(d), NEW p \in DOMAIN e
               PROVE  Size(e, p) <= sg_max_file_size + 1
    BY DEF Small
  <2>1. CASE p \in DOMAIN d
    BY <1>0, <1>1, <2>1 DEF Small
  <2>2. CASE p \notin DOMAIN d
    <3>1. Size(d, p) = 0
      BY <2>2 DEF Size
    <3>2. QED
      BY <1>0, <1>1, <3>1
  <2>3. QED
    BY <2>1, <2>2
<1>5. QED
  BY <1>2, <1>3, <1>4

\* What an append does to the sizes.
Larger(d, p, n, e) ==
  /\ DOMAIN e = DOMAIN d \union {p}
  /\ Indexed(e)
  /\ \A q : q # p => Size(e, q) = Size(d, q)
  /\ Size(e, p) = Size(d, p) + n

LEMMA AppendedSizes ==
  ASSUME NEW d, Indexed(d), NEW p \in Names, NEW bs \in Seq(Nat)
  PROVE  Larger(d, p, Len(bs), Appended(d, p, bs))
<1> DEFINE e == Appended(d, p, bs)
<1>1. CASE bs = << >> /\ p \in DOMAIN d
  <2>1. e = d /\ Len(bs) = 0
    BY <1>1, EmptySeq DEF Appended
  <2> HIDE DEF e
  <2>2. \A q : Size(d, q) \in Nat
    BY SizesNat
  <2>3. DOMAIN d = DOMAIN d \union {p}
    BY <1>1
  <2>4. Size(d, p) = Size(d, p) + 0
    BY <2>2
  <2>5. Larger(d, p, 0, d)
    BY <2>3, <2>4 DEF Larger
  <2>6. QED
    BY <2>1, <2>5 DEF e
<1> HIDE DEF e
<1>2. CASE ~(bs = << >> /\ p \in DOMAIN d)
  <2>1. /\ DOMAIN e = DOMAIN d \union {p}
        /\ \A q \in DOMAIN d \ {p} : e[q] = d[q]
        /\ p \in DOMAIN d => e[p].data = d[p].data \o bs
        /\ p \notin DOMAIN d => e[p].data = bs
    BY <1>2 DEF Appended, e
  <2>2. /\ p \in DOMAIN d => d[p].data \in Seq(Nat)
        /\ DOMAIN d \subseteq Names
    BY DEF Indexed
  <2>3. /\ e[p].data \in Seq(Nat)
        /\ Size(e, p) = Size(d, p) + Len(bs)
    <3>1. CASE p \in DOMAIN d
      <4>1. /\ d[p].data \o bs \in Seq(Nat)
            /\ Len(d[p].data \o bs) = Len(d[p].data) + Len(bs)
        BY <2>2, <3>1, ConcatProperties
      <4>2. QED
        BY <2>1, <3>1, <4>1 DEF Size
    <3>2. CASE p \notin DOMAIN d
      <4>1. Len(bs) \in Nat
        BY LenProperties
      <4>2. QED
        BY <2>1, <3>2, <4>1 DEF Size
    <3>3. QED
      BY <3>1, <3>2
  <2>4. \A q : q # p => Size(e, q) = Size(d, q)
    BY <2>1 DEF Size
  <2>5. Indexed(e)
    <3>1. PICK b \in Nat : \A q \in DOMAIN d : q.idx <= b
      BY DEF Indexed
    <3>2. p.idx \in Nat
      BY NameIs
    <3>3. PICK c \in Nat : c >= b /\ c >= p.idx
      BY <3>2
    <3>4. \A q \in DOMAIN d : q.idx \in Nat
      BY <2>2, NameIs
    <3>5. \A q \in DOMAIN e : q.idx <= c
      BY <2>1, <3>1, <3>2, <3>3, <3>4
    <3>6. \A q \in DOMAIN e : e[q].data \in Seq(Nat)
      BY <2>1, <2>3 DEF Indexed
    <3>7. DOMAIN e \subseteq Names
      BY <2>1, <2>2
    <3>8. QED
      BY <3>5, <3>6, <3>7 DEF Indexed
  <2>6. QED
    BY <2>1, <2>3, <2>4, <2>5 DEF Larger, e
<1>3. QED
  BY <1>1, <1>2

\* And a removal.
LEMMA RemovedSizes ==
  ASSUME NEW d, Indexed(d), NEW p
  PROVE  /\ DOMAIN Removed(d, p) = DOMAIN d \ {p}
         /\ \A q \in DOMAIN d \ {p} : Removed(d, p)[q] = d[q]
         /\ Indexed(Removed(d, p))
         /\ NoLarger(d, Removed(d, p))
         /\ \A q : Size(Removed(d, p), q) = IF q = p THEN 0 ELSE Size(d, q)
<1> DEFINE e == Removed(d, p)
<1>1. DOMAIN e = DOMAIN d \ {p} /\ \A q \in DOMAIN d \ {p} : e[q] = d[q]
  BY DEF Removed
<1> HIDE DEF e
<1>2. Indexed(e)
  BY <1>1 DEF Indexed
<1>3. \A q : Size(e, q) = IF q = p THEN 0 ELSE Size(d, q)
  BY <1>1 DEF Size
<1>4. \A q : Size(d, q) \in Nat
  BY SizesNat
<1>5. NoLarger(d, e)
  BY <1>3, <1>4 DEF NoLarger
<1>6. QED
  BY <1>1, <1>2, <1>3, <1>5 DEF e

\* __get_next_fileindex: the index has room, and there is none behind it; it
\* is not behind k when no file is and k has room.
LEMMA NextHasRoom ==
  ASSUME NEW d, Indexed(d), NEW day \in Nat, sg_max_file_size > 0
  PROVE  /\ NextIndex(d, day) \in Nat
         /\ Together(d, day, NextIndex(d, day)) <= sg_max_file_size
         /\ \A p \in DOMAIN d : p.day = day => p.idx <= NextIndex(d, day)
         /\ \A k \in Nat :
              /\ \A p \in DOMAIN d : p.day = day => p.idx <= k
              /\ Together(d, day, k) <= sg_max_file_size
              => NextIndex(d, day) <= k
         /\ \A k \in Nat :
              /\ \A p \in DOMAIN d : p.day = day => p.idx <= k
              /\ \E p \in DOMAIN d : p.day = day /\ p.idx = k
              => \/ NextIndex(d, day) = k
                 \/ Together(d, day, NextIndex(d, day)) = 0
<1> DEFINE used == {p.idx : p \in {q \in DOMAIN d : q.day = day}}
           n == NextIndex(d, day)
           i == Max(used)
<1>0. sg_max_file_size \in Nat /\ sg_max_file_size # 0
  BY FilesAssumption
<1>1. used \subseteq Nat /\ \A p \in DOMAIN d : p.idx \in Nat
  BY NameIs DEF Indexed
<1>2. \A k \in Nat : (\A p \in DOMAIN d : p.day = day => p.idx < k)
        => Together(d, day, k) = 0
  <2> SUFFICES ASSUME NEW k \in Nat, \A p \in DOMAIN d : p.day = day => p.idx < k
               PROVE  Together(d, day, k) = 0
    OBVIOUS
  <2>1. ASSUME NEW dir PROVE At(dir, day, k) \notin DOMAIN d
    <3>1. At(dir, day, k).day = day /\ At(dir, day, k).idx = k
      BY DEF At
    <3>2. QED
      BY <3>1
  <2>2. Size(d, At("log", day, k)) = 0 /\ Size(d, At("cache", day, k)) = 0
    BY <2>1 DEF Size
  <2>3. QED
    BY <2>2 DEF Together
<1>3. CASE used = {}
  <2>1. n = 0 /\ \A p \in DOMAIN d : p.day # day
    BY <1>3 DEF NextIndex
  <2>2. Together(d, day, 0) = 0
    BY <1>2, <2>1
  <2>3. QED
    BY <1>0, <2>1, <2>2
<1>4. CASE used # {}
  <2>1. PICK b \in Nat : \A p \in DOMAIN d : p.idx <= b
    BY DEF Indexed
  <2>2. i \in used /\ \A x \in used : x <= i
    <3>1. \A x \in used : x <= b
      BY <2>1
    <3> HIDE DEF used
    <3>2. QED
      BY <1>1, <1>4, <3>1, MaxIs
  <2>3. /\ i \in Nat /\ \E p \in DOMAIN d : p.day = day /\ p.idx = i
        /\ \A p \in DOMAIN d : p.day = day => p.idx <= i
    <3>1. \A p \in DOMAIN d : p.day = day => p.idx \in used
      OBVIOUS
    <3>2. \E p \in DOMAIN d : p.day = day /\ p.idx = i
      <4> HIDE DEF i
      <4>1. QED
        BY <2>2
    <3> HIDE DEF used
    <3>3. QED
      BY <1>1, <2>2, <3>1, <3>2
  <2>4. n = IF Together(d, day, i) > sg_max_file_size THEN i + 1 ELSE i
    BY <1>0, <1>4 DEF NextIndex, Together, At
  <2> HIDE DEF used, n, i
  <2>5. Together(d, day, i) \in Nat
    BY <2>3, SizesNat
  <2>6. CASE Together(d, day, i) > sg_max_file_size
    <3>1. n = i + 1 /\ n \in Nat
      BY <2>3, <2>4, <2>6
    <3>2. \A p \in DOMAIN d : p.day = day => p.idx < n
      BY <1>1, <2>3, <3>1
    <3>3. Together(d, day, n) = 0
      BY <1>2, <3>1, <3>2
    <3>4. ASSUME NEW k \in Nat,
                 \A p \in DOMAIN d : p.day = day => p.idx <= k,
                 Together(d, day, k) <= sg_max_file_size
          PROVE  n <= k
      <4>1. i <= k
        BY <2>3, <3>4
      <4>2. k # i
        BY <1>0, <2>5, <2>6, <3>4
      <4>3. QED
        BY <2>3, <3>1, <4>1, <4>2
    <3>5. QED
      BY <1>0, <1>1, <3>1, <3>2, <3>3, <3>4 DEF n
  <2>7. CASE ~(Together(d, day, i) > sg_max_file_size)
    <3>1. n = i /\ Together(d, day, n) <= sg_max_file_size
      BY <1>0, <2>4, <2>5, <2>7
    <3>2. ASSUME NEW k \in Nat, \A p \in DOMAIN d : p.day = day => p.idx <= k
          PROVE  n <= k
      BY <2>3, <3>1, <3>2
    <3>3. ASSUME NEW k \in Nat, \A p \in DOMAIN d : p.day = day => p.idx <= k,
                 \E p \in DOMAIN d : p.day = day /\ p.idx = k
          PROVE  n = k
      <4>1. i <= k /\ k <= i
        BY <2>3, <3>3
      <4>2. QED
        BY <2>3, <3>1, <4>1
    <3>4. QED
      BY <2>3, <3>1, <3>2, <3>3 DEF n
  <2>8. QED
    BY <2>6, <2>7
<1>5. QED
  BY <1>3, <1>4

\* __append_file and the removal of its source: the blocks of the index stay
\* as many, or are the first of the next index.
LEMMA CopiedFits ==
  ASSUME NEW d, Indexed(d), Small(d), Fits(d),
         NEW src \in DOMAIN d, src.dir = "cache",
         NEW dst \in Names, dst.dir = "log", dst.day = src.day,
         dst.idx = src.idx \/ Together(d, dst.day, dst.idx) = 0
  PROVE  LET e == Appended(d, dst, d[src].data)
         IN  Indexed(e) /\ DOMAIN e = DOMAIN d \union {dst}
             /\ Small(e) /\ Fits(Removed(e, src))
<1> DEFINE e == Appended(d, dst, d[src].data)
           r == Removed(e, src)
           n == Size(d, src)
<1>0. /\ sg_max_file_size \in Nat /\ d[src].data \in Seq(Nat)
      /\ n = Len(d[src].data) /\ n \in Nat /\ n <= sg_max_file_size + 1
      /\ src \in Names
  BY FilesAssumption, SizesNat DEF Indexed, Small
<1>1. Larger(d, dst, n, e)
  BY <1>0, AppendedSizes
<1> HIDE DEF e
<1>2. Indexed(e) /\ Indexed(r) /\ dst # src
  BY <1>1, RemovedSizes DEF Larger
<1>3. \A q : Size(r, q) = IF q = src THEN 0
                          ELSE IF q = dst THEN Size(d, dst) + n ELSE Size(d, q)
  <2>1. \A q : Size(r, q) = IF q = src THEN 0 ELSE Size(e, q)
    BY <1>2, RemovedSizes
  <2>2. /\ \A q : q # dst => Size(e, q) = Size(d, q)
        /\ Size(e, dst) = Size(d, dst) + n
    BY <1>1 DEF Larger
  <2> HIDE DEF r, n
  <2>3. QED
    BY <2>1, <2>2
<1> HIDE DEF r, n
<1>4. \A q : Size(d, q) \in Nat
  BY SizesNat
<1>5. ASSUME NEW day \in Nat, NEW i \in Nat
      PROVE  Together(r, day, i) <= sg_max_file_size + 1
  <2> DEFINE l == At("log", day, i)
             c == At("cache", day, i)
  <2>1. /\ l # src /\ c # dst
        /\ l.day = day /\ l.idx = i
        /\ c.day = day /\ c.idx = i
    BY DEF At
  <2>2. /\ Together(d, day, i) = Size(d, l) + Size(d, c)
        /\ Together(r, day, i) = Size(r, l) + Size(r, c)
        /\ Together(d, day, i) <= sg_max_file_size + 1
    BY DEF Together, Fits
  <2>c. src.day = day /\ src.idx = i => c = src
    BY <1>0, NameIs
  <2> HIDE DEF l, c
  <2>3. CASE l # dst
    <3>1. Size(r, l) = Size(d, l) /\ (Size(r, c) = Size(d, c) \/ Size(r, c) = 0)
      BY <1>3, <2>1, <2>3
    <3>2. QED
      BY <1>0, <1>4, <2>2, <3>1
  <2>4. CASE l = dst /\ dst.idx = src.idx
    <3>1. c = src
      BY <2>1, <2>4, <2>c
    <3>2. Size(r, l) = Size(d, l) + n /\ Size(r, c) = 0 /\ n = Size(d, c)
      BY <1>2, <1>3, <2>4, <3>1 DEF n
    <3>3. QED
      BY <1>0, <1>4, <2>2, <3>2
  <2>5. CASE l = dst /\ Together(d, dst.day, dst.idx) = 0
    <3>1. Size(d, l) = 0
      BY <1>4, <2>1, <2>2, <2>5
    <3>2. Size(d, c) = 0
      BY <1>4, <2>1, <2>2, <2>5
    <3>3. Size(r, l) = n /\ Size(r, c) = 0
      BY <1>0, <1>2, <1>3, <2>1, <2>5, <3>1, <3>2
    <3>4. QED
      BY <1>0, <2>2, <3>3
  <2>6. QED
    BY <2>3, <2>4, <2>5
<1>6. Fits(r)
  BY <1>5 DEF Fits
<1>7. Small(e)
  <2> SUFFICES ASSUME NEW p \in DOMAIN e
               PROVE  Size(e, p) <= sg_max_file_size + 1
    BY DEF Small
  <2>1. CASE p = dst
    <3>1. Size(e, dst) = Size(r, dst)
      BY <1>1, <1>2, <1>3 DEF Larger
    <3>2. dst \in DOMAIN r
      BY <1>1, <1>2 DEF r, Larger, Removed
    <3>3. /\ Size(r, dst) \in Nat
          /\ Size(r, dst) <= Together(r, dst.day, dst.idx)
          /\ dst.day \in Nat /\ dst.idx \in Nat
          /\ Together(r, dst.day, dst.idx) \in Nat
      BY <1>2, <3>2, SizesNat, NameIs
    <3>4. Together(r, dst.day, dst.idx) <= sg_max_file_size + 1
      BY <1>5, <3>3
    <3>5. QED
      BY <1>0, <2>1, <3>1, <3>3, <3>4
  <2>2. CASE p # dst
    <3>1. p \in DOMAIN d /\ Size(e, p) = Size(d, p)
      BY <1>1, <2>2 DEF Larger
    <3>2. QED
      BY <3>1 DEF Small
  <2>3. QED
    BY <2>1, <2>2
<1>8. QED
  BY <1>1, <1>2, <1>6, <1>7 DEF e, r, Larger
-----------------------------------------------------------------------------
(* Steps keep the files small.                                              *)

Split == sg_max_file_size > 0

\* A name for a line of now has room.
LEMMA NameHasRoom ==
  ASSUME Split, SmallInv, NEW dir \in {"log", "cache"}, NEW t \in Nat
  PROVE  LET name == LogFileName(disk, dir, t)
         IN  /\ name \in Names /\ name.dir = dir /\ name.day = Day(t)
             /\ name.idx = NextIndex(disk, Day(t))
             /\ Together(disk, name.day, name.idx) <= sg_max_file_size
             /\ UpTo(disk, name)
<1>1. Day(t) \in Nat /\ Indexed(disk)
  BY DayOf DEF SmallInv
<1>2. /\ NextIndex(disk, Day(t)) \in Nat
      /\ Together(disk, Day(t), NextIndex(disk, Day(t))) <= sg_max_file_size
      /\ \A p \in DOMAIN disk : p.day = Day(t) => p.idx <= NextIndex(disk, Day(t))
  BY <1>1, NextHasRoom DEF Split
<1>3. QED
  BY <1>1, <1>2 DEF LogFileName, Names, UpTo

LEMMA BeginSmall ==
  ASSUME Split, SmallInv,
         NEW move \in BOOLEAN, NEW roomy \in BOOLEAN, Log2File(move, roomy)
  PROVE  SmallInv'
<1> USE DEF SmallInv
<1> DEFINE path == LogFileName(disk, "cache", clock)
<1>1. /\ path \in Names /\ path.dir = "cache" /\ path.day = Day(clock)
      /\ Together(disk, path.day, path.idx) <= sg_max_file_size
      /\ UpTo(disk, path)
  BY NameHasRoom DEF JobLast
<1> HIDE DEF path
<1>2. /\ pc = "idle" /\ pc' \in {"openCache", "openLog"}
      /\ blocks' = blocks + 1 /\ blocks' \in Nat
      /\ job'.block = blocks' /\ job'.time = clock /\ job'.path = path
      /\ DOMAIN job' = DOMAIN NoJob
      /\ UNCHANGED <<clock, disk, sg_mode, openFile, threads, backs>>
  BY DEF Log2File, NoJob, path, JobLast
<1>3. Indexed(disk') /\ Small(disk') /\ Fits(Rest')
  BY <1>2 DEF Rest, Removing
<1>4. OpenRoom'
  BY <1>2 DEF OpenRoom, openFile, Open, Writing
<1>5. JobLast'
  BY <1>1, <1>2 DEF JobLast, openFile, threads, UpTo
<1>6. QED
  BY <1>3, <1>4, <1>5

\* The file that a call opens: an index that has room.
LEMMA OpenSmall ==
  ASSUME Split, SmallInv, NEW dir \in {"log", "cache"},
         NEW from \in {"openCache", "openLog", "openFallback"},
         NEW ok \in Writing, NEW fail \in {"openLog", "openFallback", "idle"},
         from = "openCache" <=> ok = "writeCache",
         OpenFile(from, dir, ok, fail)
  PROVE  SmallInv'
<1> USE DEF SmallInv
<1> DEFINE name == LogFileName(disk, dir, clock)
<1>1. /\ pc = from /\ ~Open /\ buf = << >> /\ sg_mode = "Async"
      /\ clock \in Nat /\ last.time \in Nat /\ last.time <= clock
  BY DEF OpenFile, OpenRoom, Writing, JobLast
<1>2. Flushed(disk) = disk /\ ~Reusable(dir) /\ ~(clock < last.time)
  BY <1>1 DEF Flushed, Reusable
<1>3. /\ name \in Names /\ name.day = Day(clock)
      /\ name.idx = NextIndex(disk, Day(clock))
      /\ Together(disk, name.day, name.idx) <= sg_max_file_size
  BY <1>1, NameHasRoom
<1>4. /\ buf' = << >>
      /\ last'.time = clock
      /\ UNCHANGED <<clock, sg_mode, job, threads, blocks, backs>>
      /\ \/ /\ disk' = Appended(disk, name, << >>) /\ pc' = ok
            /\ sg_logfile' = [path |-> name, dir |-> dir, time |-> clock, linked |-> TRUE]
         \/ disk' = disk /\ sg_logfile' = NoFile /\ pc' = fail
  BY <1>2 DEF OpenFile
<1>5. /\ from \notin Removing /\ ok \notin Removing /\ fail \notin Removing
      /\ from \in InCall /\ fail \notin Writing /\ fail \notin {"openCache", "writeCache", "append"}
      /\ job.path \in Names /\ job.path.dir = "cache"
  BY <1>1 DEF Removing, InCall, Writing, JobLast
<1>6. Rest = disk /\ Rest' = disk'
  BY <1>1, <1>4, <1>5 DEF Rest
<1> HIDE DEF name
<1>7. CASE /\ disk' = Appended(disk, name, << >>) /\ pc' = ok
           /\ sg_logfile' = [path |-> name, dir |-> dir, time |-> clock, linked |-> TRUE]
  <2>1. Larger(disk, name, 0, disk')
    <3>1. << >> \in Seq(Nat) /\ Len(<< >>) = 0
      BY EmptySeq
    <3>2. QED
      BY <1>3, <1>7, <3>1, AppendedSizes
  <2>2. \A p : Size(disk, p) \in Nat
    BY SizesNat
  <2>3. Indexed(disk') /\ DOMAIN disk' = DOMAIN disk \union {name}
        /\ NoLarger(disk, disk')
    <3>1. \A p : Size(disk', p) = Size(disk, p)
      BY <2>1, <2>2 DEF Larger
    <3>2. QED
      BY <2>1, <2>2, <3>1 DEF Larger, NoLarger
  <2>4. /\ Small(disk') /\ Fits(Rest')
        /\ \A day, i \in Nat : Together(disk', day, i) <= Together(disk, day, i)
        /\ \A day, i \in Nat : Together(disk', day, i) \in Nat /\ Together(disk, day, i) \in Nat
    BY <1>6, <2>3, NoLargerFits, SizesNat
  <2>5. name.day \in Nat /\ name.idx \in Nat /\ sg_max_file_size \in Nat
    BY <1>3, NameIs, FilesAssumption
  <2>6. Together(disk', name.day, name.idx) <= sg_max_file_size
    BY <1>3, <2>4, <2>5
  <2>7. OpenRoom'
    BY <1>1, <1>3, <1>4, <1>7, <2>3, <2>6 DEF OpenRoom, Open, NoFile
  <2>8. ASSUME from = "openCache" PROVE UpTo(disk', job.path)
    <3>1. /\ UpTo(disk, job.path) /\ job.path.day = Day(job.time)
          /\ Together(disk, job.path.day, job.path.idx) <= sg_max_file_size
          /\ job.path.idx \in Nat /\ job.path.day \in Nat
      BY <1>1, <1>5, <2>8, NameIs DEF JobLast
    <3>2. name.day = job.path.day => name.idx <= job.path.idx
      BY <1>3, <3>1, NextHasRoom DEF UpTo, Split
    <3>3. QED
      BY <2>3, <3>1, <3>2 DEF UpTo
  <2>9. pc' \in {"openCache", "writeCache", "append"} => from = "openCache"
    BY <1>7 DEF Writing
  <2>10. pc' # "openCache"
    BY <1>7 DEF Writing
  <2>11. JobLast'
    BY <1>1, <1>4, <1>5, <2>8, <2>9, <2>10 DEF JobLast, threads
  <2>12. QED
    BY <2>3, <2>4, <2>7, <2>11
<1>8. CASE disk' = disk /\ sg_logfile' = NoFile /\ pc' = fail
  <2>1. OpenRoom'
    BY <1>1, <1>4, <1>5, <1>8 DEF OpenRoom, Open
  <2>2. JobLast'
    BY <1>1, <1>4, <1>5, <1>8 DEF JobLast, threads
  <2>3. QED
    BY <1>6, <1>8, <2>1, <2>2
<1>9. QED
  BY <1>4, <1>7, <1>8

\* A block goes to a file that has room, and the file is closed.
LEMMA WriteSmall ==
  ASSUME Split, SmallInv, NEW from \in Writing,
         NEW ok \in {"idle", "append", "closeLog"},
         NEW fail \in {"idle", "append", "closeLog"},
         from # "writeCache" => ok # "append" /\ fail # "append",
         WriteFile(from, ok, fail)
  PROVE  SmallInv'
<1> USE DEF SmallInv
<1> DEFINE path == sg_logfile.path
           one == Append(buf, job.block)
<1>1. /\ pc = from /\ Open /\ buf = << >> /\ sg_mode = "Async"
      /\ path \in Names /\ (sg_logfile.linked => path \in DOMAIN disk)
      /\ Together(disk, path.day, path.idx) <= sg_max_file_size
  BY DEF WriteFile, OpenRoom
<1>2. pc' \in {ok, fail}
      /\ UNCHANGED <<clock, sg_mode, last, job, threads, blocks, backs>>
  BY DEF WriteFile
<1>3. /\ sg_logfile' = NoFile /\ buf' = << >>
      /\ \/ disk' = disk
         \/ disk' = Appended(disk, path, one) /\ path \in DOMAIN disk
  <2>1. CASE WriteOk
    BY <1>1, <2>1 DEF WriteOk
  <2>2. CASE WriteFails
    <3>1. Flushed(disk) = disk
      BY <1>1 DEF Flushed, Appended
    <3>2. QED
      BY <1>1, <2>2, <3>1 DEF WriteFails, CloseFile
  <2>3. QED
    BY <2>1, <2>2 DEF WriteFile
<1>4. one \in Seq(Nat) /\ Len(one) = 1
  BY <1>1 DEF JobLast
<1> HIDE DEF one
<1>5. /\ from \notin Removing /\ pc' \notin Removing /\ pc' \notin Writing
      /\ pc' # "openCache" /\ (pc' = "append" => from = "writeCache")
      /\ pc' # "writeCache" /\ from \in InCall
  BY <1>2 DEF Removing, Writing, InCall
<1>6. Rest = disk /\ Rest' = disk'
  BY <1>1, <1>5 DEF Rest
<1>7. OpenRoom'
  BY <1>1, <1>2, <1>3, <1>5 DEF OpenRoom, Open
<1>8. DOMAIN disk' = DOMAIN disk
  BY <1>3 DEF Appended
<1>9. JobLast'
  <2>1. UpTo(disk', job.path) <=> UpTo(disk, job.path)
    BY <1>8 DEF UpTo
  <2>2. job.path \in Names /\ job.path.dir = "cache"
    BY <1>1, <1>5 DEF JobLast
  <2>3. QED
    BY <1>1, <1>2, <1>5, <2>1, <2>2 DEF JobLast, threads
<1>10. CASE disk' = disk
  BY <1>6, <1>7, <1>9, <1>10
<1>11. CASE disk' = Appended(disk, path, one)
  <2>1. Larger(disk, path, 1, disk')
    BY <1>1, <1>4, <1>11, AppendedSizes
  <2> HIDE DEF path
  <2>2. /\ \A p : Size(disk, p) \in Nat /\ Size(disk', p) \in Nat
        /\ Indexed(disk') /\ sg_max_file_size \in Nat
        /\ path \in DOMAIN disk' /\ path.day \in Nat /\ path.idx \in Nat
    <3>1. Indexed(disk') /\ path \in DOMAIN disk'
      BY <2>1 DEF Larger
    <3>2. path.day \in Nat /\ path.idx \in Nat
      BY <1>1, NameIs DEF path
    <3>3. QED
      BY <3>1, <3>2, SizesNat, FilesAssumption
  <2>3. ASSUME NEW day \in Nat, NEW i \in Nat
        PROVE  Together(disk', day, i) <= sg_max_file_size + 1
    <3> DEFINE l == At("log", day, i)
               c == At("cache", day, i)
    <3>1. l # c /\ l.day = day /\ l.idx = i /\ c.day = day /\ c.idx = i
      BY DEF At
    <3>2. /\ Together(disk, day, i) = Size(disk, l) + Size(disk, c)
          /\ Together(disk', day, i) = Size(disk', l) + Size(disk', c)
      BY DEF Together
    <3> HIDE DEF l, c
    <3>3. CASE path # l /\ path # c
      <4>1. Size(disk', l) = Size(disk, l) /\ Size(disk', c) = Size(disk, c)
        BY <2>1, <3>3 DEF Larger
      <4>2. QED
        BY <1>6, <3>2, <4>1 DEF Fits
    <3>4. CASE path = l \/ path = c
      <4>1. Together(disk, day, i) <= sg_max_file_size
        BY <1>1, <3>1, <3>4 DEF path
      <4>2. \/ Size(disk', l) = Size(disk, l) + 1 /\ Size(disk', c) = Size(disk, c)
            \/ Size(disk', l) = Size(disk, l) /\ Size(disk', c) = Size(disk, c) + 1
        BY <2>1, <3>1, <3>4 DEF Larger
      <4>3. QED
        BY <2>2, <3>2, <4>1, <4>2
    <3>5. QED
      BY <3>3, <3>4
  <2>4. Small(disk')
    <3> SUFFICES ASSUME NEW p \in DOMAIN disk'
                 PROVE  Size(disk', p) <= sg_max_file_size + 1
      BY DEF Small
    <3>1. /\ p \in Names /\ Size(disk', p) \in Nat
          /\ Size(disk', p) <= Together(disk', p.day, p.idx)
      BY <2>2, SizesNat
    <3>2. p.day \in Nat /\ p.idx \in Nat
      BY <3>1, NameIs
    <3>3. /\ Together(disk', p.day, p.idx) \in Nat
          /\ Together(disk', p.day, p.idx) <= sg_max_file_size + 1
      BY <2>2, <2>3, <3>2, SizesNat
    <3>4. QED
      BY <2>2, <3>1, <3>3
  <2>5. Fits(Rest')
    BY <1>6, <2>3 DEF Fits
  <2>6. QED
    BY <1>7, <1>9, <2>2, <2>4, <2>5
<1>12. QED
  BY <1>3, <1>10, <1>11

\* __append_file, its result, and what is left when the source goes.
LEMMA CopySmall ==
  ASSUME SmallInv, pc \notin Removing,
         NEW src \in Names, src.dir = "cache",
         NEW dst \in Names, dst.dir = "log", dst.day = src.day,
         src \in DOMAIN disk =>
           dst.idx = src.idx \/ Together(disk, dst.day, dst.idx) = 0,
         NEW ok \in BOOLEAN, AppendFile(src, dst, ok)
  PROVE  /\ Indexed(disk') /\ Small(disk') /\ DOMAIN disk' \subseteq DOMAIN disk \union {dst}
         /\ Fits(IF ok THEN Removed(disk', src) ELSE disk')
<1> USE DEF SmallInv
<1>1. Fits(disk)
  BY DEF Rest
<1>2. \/ disk' = disk
      \/ ~ok /\ disk' = Appended(disk, dst, << >>)
      \/ ok /\ src \in DOMAIN disk /\ disk' = Appended(disk, dst, disk[src].data)
  BY DEF AppendFile
<1>3. CASE disk' = disk
  <2>1. Fits(Removed(disk, src))
    BY <1>1, RemovedSizes, NoLargerFits
  <2>2. QED
    BY <1>1, <1>3, <2>1
<1>4. CASE ~ok /\ disk' = Appended(disk, dst, << >>)
  <2>1. Larger(disk, dst, 0, disk')
    <3>1. << >> \in Seq(Nat) /\ Len(<< >>) = 0
      BY EmptySeq
    <3>2. QED
      BY <1>4, <3>1, AppendedSizes
  <2>2. \A p : Size(disk, p) \in Nat
    BY SizesNat
  <2>3. \A p : Size(disk', p) = Size(disk, p)
    BY <2>1, <2>2 DEF Larger
  <2>4. NoLarger(disk, disk')
    BY <2>2, <2>3 DEF NoLarger
  <2>5. Indexed(disk') /\ DOMAIN disk' = DOMAIN disk \union {dst}
    BY <2>1 DEF Larger
  <2>6. QED
    BY <1>1, <1>4, <2>4, <2>5, NoLargerFits
<1>5. CASE ok /\ src \in DOMAIN disk /\ disk' = Appended(disk, dst, disk[src].data)
  <2>1. /\ Indexed(disk') /\ DOMAIN disk' = DOMAIN disk \union {dst}
        /\ Small(disk') /\ Fits(Removed(disk', src))
    BY <1>1, <1>5, CopiedFits
  <2>2. QED
    BY <1>5, <2>1
<1>6. QED
  BY <1>2, <1>3, <1>4, <1>5

\* A call moves its cached file over: that is the last one of its day.
LEMMA AppendCachedSmall ==
  ASSUME Split, SmallInv, AppendCached
  PROVE  SmallInv'
<1> USE DEF SmallInv
<1> DEFINE dst == LogFileName(disk, "log", job.time)
           src == job.path
<1>1. /\ pc = "append" /\ ~Open /\ buf = << >> /\ sg_mode = "Async"
      /\ job.time \in Nat /\ src \in Names /\ src.dir = "cache"
      /\ src.day = Day(job.time) /\ UpTo(disk, src)
  BY DEF AppendCached, OpenRoom, JobLast, Writing, InCall
<1>2. /\ dst \in Names /\ dst.dir = "log" /\ dst.day = Day(job.time)
      /\ dst.idx = NextIndex(disk, Day(job.time))
  BY <1>1, NameHasRoom
<1>3. src.day \in Nat /\ src.idx \in Nat
  BY <1>1, NameIs
<1> HIDE DEF dst, src
<1>4. src \in DOMAIN disk =>
        dst.idx = src.idx \/ Together(disk, dst.day, dst.idx) = 0
  <2> SUFFICES ASSUME src \in DOMAIN disk
               PROVE  dst.idx = src.idx \/ Together(disk, dst.day, dst.idx) = 0
    OBVIOUS
  <2>1. /\ \A p \in DOMAIN disk : p.day = src.day => p.idx <= src.idx
        /\ \E p \in DOMAIN disk : p.day = src.day /\ p.idx = src.idx
    BY <1>1 DEF UpTo
  <2>2. \/ NextIndex(disk, src.day) = src.idx
        \/ Together(disk, src.day, NextIndex(disk, src.day)) = 0
    <3> HIDE DEF SmallInv
    <3>1. Indexed(disk)
      BY DEF SmallInv
    <3>2. QED
      BY <1>3, <2>1, <3>1, NextHasRoom DEF Split
  <2>3. QED
    BY <1>1, <1>2, <2>2
<1>5. PICK ok \in BOOLEAN : /\ AppendFile(src, dst, ok)
                            /\ pc' = IF ok THEN "remove" ELSE "idle"
  BY DEF AppendCached, src, dst
<1>6. UNCHANGED <<clock, sg_mode, openFile, job, threads, blocks, backs>>
  BY DEF AppendCached
<1>7. /\ Indexed(disk') /\ Small(disk')
      /\ Fits(IF ok THEN Removed(disk', src) ELSE disk')
  BY <1>1, <1>2, <1>4, <1>5, CopySmall DEF Removing
<1>8. Rest' = IF ok THEN Removed(disk', src) ELSE disk'
  BY <1>5, <1>6 DEF Rest, Removing, src
<1>9. OpenRoom'
  BY <1>1, <1>5, <1>6 DEF OpenRoom, Open, openFile, Writing
<1>10. JobLast'
  BY <1>1, <1>5, <1>6 DEF JobLast, openFile, threads, src
<1>11. QED
  BY <1>7, <1>8, <1>9, <1>10

\* The moved file goes.
LEMMA RemoveSmall ==
  ASSUME SmallInv, RemoveCached \/ MoverRemove
  PROVE  SmallInv'
<1> USE DEF SmallInv
<1>1. pc \in Removing /\ ~Open /\ buf = << >> /\ sg_mode = "Async"
  BY DEF RemoveCached, MoverRemove, OpenRoom, Removing, Writing
<1>2. /\ disk' = Removed(disk, job.path) /\ sg_logfile' = sg_logfile
      /\ pc' \in {"idle", "mover"}
      /\ UNCHANGED <<clock, sg_mode, buf, last, job, threads, blocks, backs>>
  BY <1>1 DEF RemoveCached, MoverRemove, Unlink, bounds
<1>3. Rest = disk' /\ Rest' = disk'
  BY <1>1, <1>2 DEF Rest, Removing
<1>4. Indexed(disk') /\ Small(disk')
  BY <1>2, RemovedSizes, NoLargerFits
<1>5. OpenRoom'
  BY <1>1, <1>2 DEF OpenRoom, Open, Writing
<1>6. JobLast'
  BY <1>2 DEF JobLast, threads, Removing, InCall
<1>7. QED
  BY <1>3, <1>4, <1>5, <1>6

\* __move_old_files moves a file to the same index.
LEMMA MoverSmall ==
  ASSUME Split, SmallInv, Mover
  PROVE  SmallInv'
<1> USE DEF SmallInv
<1>1. CASE MoverStart \/ MoverEnd
  <2>1. /\ pc \notin Removing /\ pc' \in {"mover", "idle"} /\ ~Open
        /\ DOMAIN mover' = {"due", "now", "todo"}
        /\ \A p \in mover'.todo : p.dir = "cache"
        /\ UNCHANGED <<clock, disk, sg_mode, openFile, job, bounds>>
    BY <1>1 DEF MoverStart, MoverEnd, Removing, OpenRoom, Writing, JobLast
  <2>2. Rest' = disk' /\ Rest = disk
    BY <2>1 DEF Rest, Removing
  <2>3. OpenRoom'
    BY <2>1 DEF OpenRoom, Open, openFile, Writing
  <2>4. JobLast'
    BY <2>1 DEF JobLast, openFile, bounds, InCall, Removing
  <2>5. QED
    BY <2>1, <2>2, <2>3, <2>4
<1>2. CASE MoverRemove
  BY <1>2, RemoveSmall
<1>3. ASSUME NEW p \in mover.todo, MoverNext(p) PROVE SmallInv'
  <2> DEFINE dst == [p EXCEPT !.dir = "log"]
  <2>1. /\ pc = "mover" /\ ~Open /\ buf = << >> /\ sg_mode = "Async"
        /\ p \in DOMAIN disk /\ p \in Names /\ p.dir = "cache"
    BY <1>3 DEF MoverNext, OpenRoom, Writing, JobLast, Indexed
  <2>2. dst \in Names /\ dst.dir = "log" /\ dst.day = p.day /\ dst.idx = p.idx
    BY <2>1 DEF Names
  <2> HIDE DEF dst
  <2>3. /\ mover' = [mover EXCEPT !.todo = @ \ {p}]
        /\ UNCHANGED <<clock, sg_mode, openFile, blocks, backs>>
    BY <1>3 DEF MoverNext
  <2>4. /\ DOMAIN mover' = {"due", "now", "todo"}
        /\ \A q \in mover'.todo : q.dir = "cache"
    BY <2>3 DEF JobLast
  <2>5. CASE UNCHANGED <<disk, pc, job>>
    <3>1. Rest' = Rest
      BY <2>5 DEF Rest
    <3>2. OpenRoom'
      BY <2>3, <2>5 DEF OpenRoom, Open, openFile
    <3>3. JobLast'
      BY <2>3, <2>4, <2>5 DEF JobLast, openFile
    <3>4. QED
      BY <2>5, <3>1, <3>2, <3>3
  <2>6. CASE /\ \E ok \in BOOLEAN : /\ AppendFile(p, dst, ok)
                                    /\ pc' = IF ok THEN "moverRemove" ELSE "idle"
             /\ job' = [job EXCEPT !.path = p]
    <3>1. PICK ok \in BOOLEAN : /\ AppendFile(p, dst, ok)
                                /\ pc' = IF ok THEN "moverRemove" ELSE "idle"
      BY <2>6
    <3>2. /\ job'.path = p /\ job'.block = job.block /\ job'.time = job.time
          /\ DOMAIN job' = DOMAIN NoJob
      BY <2>6 DEF JobLast, NoJob
    <3>3. /\ Indexed(disk') /\ Small(disk')
          /\ Fits(IF ok THEN Removed(disk', p) ELSE disk')
      BY <2>1, <2>2, <3>1, CopySmall DEF Removing
    <3>4. Rest' = IF ok THEN Removed(disk', p) ELSE disk'
      BY <3>1, <3>2 DEF Rest, Removing
    <3>5. OpenRoom'
      BY <2>1, <2>3, <3>1 DEF OpenRoom, Open, openFile, Writing
    <3>6. JobLast'
      BY <2>1, <2>3, <2>4, <3>1, <3>2 DEF JobLast, openFile
    <3>7. QED
      BY <3>3, <3>4, <3>5, <3>6
  <2>7. QED
    BY <1>3, <2>5, <2>6 DEF MoverNext, dst
<1>4. QED
  BY <1>1, <1>2, <1>3 DEF Mover

\* A file is deleted.
LEMMA SweepSmall ==
  ASSUME SmallInv, SweepRemove
  PROVE  SmallInv'
<1> USE DEF SmallInv
<1> DEFINE v == sweep.victim
<1>1. /\ disk' = Removed(disk, v)
      /\ sg_logfile' = IF Open /\ sg_logfile.path = v
                       THEN [sg_logfile EXCEPT !.linked = FALSE] ELSE sg_logfile
      /\ UNCHANGED <<clock, sg_mode, buf, last, call, mover, blocks, backs>>
  BY DEF SweepRemove, Unlink, bounds
<1> HIDE DEF v
<1>2. /\ Indexed(disk') /\ NoLarger(disk, disk') /\ DOMAIN disk' = DOMAIN disk \ {v}
      /\ \A q : Size(disk', q) = IF q = v THEN 0 ELSE Size(disk, q)
  BY <1>1, RemovedSizes
<1>3. /\ Small(disk')
      /\ \A day, i \in Nat : Together(disk', day, i) <= Together(disk, day, i)
      /\ \A day, i \in Nat : Together(disk', day, i) \in Nat /\ Together(disk, day, i) \in Nat
      /\ sg_max_file_size \in Nat
  BY <1>2, NoLargerFits, SizesNat, FilesAssumption
<1>4. Fits(Rest')
  <2>1. CASE pc \notin Removing
    <3>1. Rest = disk /\ Rest' = disk'
      BY <1>1, <2>1 DEF Rest, call
    <3>2. QED
      BY <1>2, <3>1, NoLargerFits
  <2>2. CASE pc \in Removing
    <3> DEFINE r == Removed(disk, job.path)
               e == Removed(disk', job.path)
    <3>1. Rest = r /\ Rest' = e
      BY <1>1, <2>2 DEF Rest, call
    <3>2. /\ Indexed(r) /\ \A q : Size(r, q) = IF q = job.path THEN 0 ELSE Size(disk, q)
      BY RemovedSizes
    <3>3. /\ Indexed(e) /\ \A q : Size(e, q) = IF q = job.path THEN 0 ELSE Size(disk', q)
      BY <1>2, RemovedSizes
    <3>4. \A q : Size(disk, q) \in Nat
      BY SizesNat
    <3> HIDE DEF r, e
    <3>5. NoLarger(r, e)
      BY <1>2, <3>2, <3>3, <3>4 DEF NoLarger
    <3>6. QED
      BY <3>1, <3>2, <3>3, <3>5, NoLargerFits
  <2>3. QED
    BY <2>1, <2>2
<1>5. OpenRoom'
  <2>1. /\ Open' <=> Open
        /\ DOMAIN sg_logfile' = DOMAIN sg_logfile
        /\ sg_logfile'.path = sg_logfile.path
        /\ sg_logfile'.linked => sg_logfile.linked
        /\ Open /\ sg_logfile'.linked => sg_logfile.path # v
    <3>1. DOMAIN sg_logfile = DOMAIN NoFile
      BY DEF OpenRoom
    <3>2. Open /\ sg_logfile.path = v => [sg_logfile EXCEPT !.linked = FALSE] # NoFile
      <4>1. ASSUME Open, pc \in Writing, sg_logfile.path \in Names
            PROVE  sg_logfile.path # NoPath
        BY <4>1, NameIs DEF NoPath
      <4>2. ASSUME Open PROVE [sg_logfile EXCEPT !.linked = FALSE] # NoFile
        BY <3>1, <4>1, <4>2 DEF OpenRoom, NoFile
      <4>3. QED
        BY <4>2
    <3>3. QED
      BY <1>1, <3>1, <3>2 DEF Open, NoFile
  <2>2. ASSUME pc \in Writing
        PROVE  Together(disk', sg_logfile.path.day, sg_logfile.path.idx)
                 <= sg_max_file_size
    <3>1. sg_logfile.path.day \in Nat /\ sg_logfile.path.idx \in Nat
      BY <2>2, NameIs DEF OpenRoom
    <3>2. Together(disk, sg_logfile.path.day, sg_logfile.path.idx) <= sg_max_file_size
      BY <2>2 DEF OpenRoom
    <3>3. /\ Together(disk', sg_logfile.path.day, sg_logfile.path.idx)
               <= Together(disk, sg_logfile.path.day, sg_logfile.path.idx)
          /\ Together(disk', sg_logfile.path.day, sg_logfile.path.idx) \in Nat
          /\ Together(disk, sg_logfile.path.day, sg_logfile.path.idx) \in Nat
      BY <1>3, <3>1
    <3> HIDE DEF SmallInv
    <3>4. QED
      BY <1>3, <3>2, <3>3
  <2>3. QED
    BY <1>1, <1>2, <2>1, <2>2 DEF OpenRoom, call
<1>6. JobLast'
  <2>1. UpTo(disk, job.path) => UpTo(disk', job.path)
    BY <1>2 DEF UpTo
  <2>2. ASSUME pc = "openCache"
        PROVE  Together(disk', job.path.day, job.path.idx) <= sg_max_file_size
    <3>1. job.path.day \in Nat /\ job.path.idx \in Nat
      BY <2>2, NameIs DEF JobLast, InCall
    <3>2. Together(disk, job.path.day, job.path.idx) <= sg_max_file_size
      BY <2>2 DEF JobLast
    <3>3. /\ Together(disk', job.path.day, job.path.idx)
               <= Together(disk, job.path.day, job.path.idx)
          /\ Together(disk', job.path.day, job.path.idx) \in Nat
          /\ Together(disk, job.path.day, job.path.idx) \in Nat
      BY <1>3, <3>1
    <3> HIDE DEF SmallInv
    <3>4. QED
      BY <1>3, <3>2, <3>3
  <2>3. QED
    BY <1>1, <2>1, <2>2 DEF JobLast, call
<1>7. QED
  BY <1>2, <1>3, <1>4, <1>5, <1>6

\* The steps that leave the files and the call alone.
LEMMA StillSmall ==
  ASSUME SmallInv, sg_mode' = sg_mode, clock' \in Nat, clock <= clock',
         UNCHANGED <<disk, openFile, call, mover, blocks, backs>>
  PROVE  SmallInv'
<1> USE DEF SmallInv, openFile, call
<1>1. Rest' = Rest
  BY DEF Rest
<1>2. OpenRoom'
  BY DEF OpenRoom, Open
<1>3. JobLast'
  BY DEF JobLast
<1>4. QED
  BY <1>1, <1>2, <1>3

\* The invariant, until the process dies.
SizeInv == crashes \in Nat /\ (crashes = 0 => SmallInv)

LEMMA SmallAtStart ==
  ASSUME Modes = {"Async"}, Init
  PROVE  SizeInv
<1>1. /\ DOMAIN disk = {} /\ ~Open /\ buf = << >> /\ clock = 1
      /\ pc = "idle" /\ job = NoJob /\ mover = MoverDue
      /\ blocks = 0 /\ backs = 0 /\ crashes = 0 /\ sg_mode = "Async"
      /\ sg_logfile = NoFile /\ last.time = 0
  BY DEF Init, Open
<1>2. Indexed(disk) /\ Small(disk)
  BY <1>1 DEF Indexed, Small
<1>3. Fits(Rest)
  <2>1. Rest = disk /\ sg_max_file_size \in Nat
    BY <1>1, FilesAssumption DEF Rest, Removing
  <2>2. \A p : Size(disk, p) = 0
    BY <1>1 DEF Size
  <2>3. QED
    BY <2>1, <2>2 DEF Fits, Together
<1>4. OpenRoom
  BY <1>1 DEF OpenRoom, Open, Writing
<1>5. JobLast
  BY <1>1 DEF JobLast, NoJob, MoverDue, InCall, Removing
<1>6. QED
  BY <1>1, <1>2, <1>3, <1>4, <1>5 DEF SizeInv, SmallInv

\* Every step but a crash keeps the files small.
LEMMA SmallStep ==
  ASSUME Split, NeverBack, Modes = {"Async"}, SmallInv, [Next]_vars, ~Crash
  PROVE  SmallInv'
<1>0. /\ sg_mode = "Async" /\ clock \in Nat /\ clock <= clock /\ backs \in Nat
      /\ "log" \in {"log", "cache"} /\ "cache" \in {"log", "cache"}
  BY DEF SmallInv, OpenRoom, JobLast
<1>1. CASE UNCHANGED vars
  BY <1>0, <1>1, StillSmall DEF vars, call, threads, bounds
<1>2. CASE \E move, roomy \in BOOLEAN : Log2File(move, roomy)
  BY <1>2, BeginSmall
<1>3. CASE Log2FileStep
  <2>1. CASE OpenFile("openCache", "cache", "writeCache", "openLog")
    BY <2>1, OpenSmall DEF Writing
  <2>2. CASE WriteFile("writeCache", AfterCache, AfterCache)
    <3>1. AfterCache \in {"idle", "append", "closeLog"} /\ "writeCache" \in Writing
      BY DEF AfterCache, Writing
    <3>2. QED
      BY <2>2, <3>1, WriteSmall
  <2>3. CASE AppendCached \/ RemoveCached
    BY <2>3, AppendCachedSmall, RemoveSmall
  <2>4. CASE OpenFile("openLog", "log", "writeLog",
                      IF UseCache THEN "openFallback" ELSE "idle")
    <3>1. CASE UseCache
      <4>1. OpenFile("openLog", "log", "writeLog", "openFallback")
        BY <2>4, <3>1
      <4>2. QED
        BY <4>1, OpenSmall DEF Writing
    <3>2. CASE ~UseCache
      <4>1. OpenFile("openLog", "log", "writeLog", "idle")
        BY <2>4, <3>2
      <4>2. QED
        BY <4>1, OpenSmall DEF Writing
    <3>3. QED
      BY <3>1, <3>2
  <2>5. CASE WriteFile("writeLog", "idle", AfterLog)
    <3>1. AfterLog \in {"idle", "append", "closeLog"} /\ AfterLog # "append"
      BY DEF AfterLog
    <3>2. QED
      BY <2>5, <3>1, WriteSmall DEF Writing
  <2>6. CASE CloseLog
    <3>1. /\ pc = "closeLog" /\ pc' = "openFallback"
          /\ UNCHANGED <<disk, sg_logfile, buf>>
          /\ UNCHANGED <<clock, sg_mode, last, job, threads, bounds>>
      BY <1>0, <2>6 DEF CloseLog
    <3>2. Rest' = Rest
      BY <3>1 DEF Rest, Removing
    <3>3. OpenRoom'
      BY <3>1 DEF SmallInv, OpenRoom, Open, Writing
    <3>4. JobLast'
      BY <3>1 DEF SmallInv, JobLast, InCall, Removing, threads, bounds
    <3>5. QED
      BY <3>1, <3>2, <3>3, <3>4 DEF SmallInv
  <2>7. CASE OpenFile("openFallback", "cache", "writeFallback", "idle")
    BY <2>7, OpenSmall DEF Writing
  <2>8. CASE WriteFile("writeFallback", "idle", "idle")
    BY <2>8, WriteSmall DEF Writing
  <2>9. QED
    BY <1>3, <2>1, <2>2, <2>3, <2>4, <2>5, <2>6, <2>7, <2>8 DEF Log2FileStep
<1>4. CASE Mover
  BY <1>4, MoverSmall
<1>5. CASE Sweep
  <2>1. CASE SweepRemove
    BY <2>1, SweepSmall
  <2>2. CASE (\E dir \in Dirs : SweepStart(dir)) \/ (\E p \in sweep.todo : SweepCheck(p))
    BY <1>0, <2>2, StillSmall DEF SweepStart, SweepCheck, bounds
  <2>3. QED
    BY <1>5, <2>1, <2>2 DEF Sweep
<1>6. CASE Tick
  <2>1. clock' \in Nat /\ clock <= clock'
    BY <1>0, <1>6 DEF Tick
  <2>2. QED
    BY <1>6, <2>1, StillSmall DEF Tick, threads, bounds
<1>7. CASE SetBack
  BY <1>0, <1>7 DEF SetBack, NeverBack
<1>8. CASE ReleaseDir \/ \E mode \in Modes : SetMode(mode)
  BY <1>0, <1>8, StillSmall DEF ReleaseDir, SetMode, threads, bounds
<1>9. CASE Close
  BY <1>9 DEF Close, SmallInv, OpenRoom, Writing
<1>10. QED
  BY <1>1, <1>2, <1>3, <1>4, <1>5, <1>6, <1>7, <1>8, <1>9 DEF Next, Step

\* The number of crashes changes in a crash only.
LEMMA CrashesCount ==
  ASSUME crashes \in Nat, [Next]_vars
  PROVE  /\ crashes' \in Nat
         /\ crashes' = crashes \/ crashes' = crashes + 1
         /\ Crash => crashes' = crashes + 1
<1>1. Crash => crashes' = crashes + 1
  BY DEF Crash
<1>2. ~Crash => crashes' = crashes
  BY DEF Next, Step, vars, Log2File, Log2FileStep, OpenFile, WriteFile, AppendCached,
         RemoveCached, CloseLog, Mover, MoverStart, MoverNext, MoverRemove, MoverEnd,
         Sweep, SweepStart, SweepCheck, SweepRemove, Tick, SetBack, ReleaseDir,
         SetMode, Close, bounds
<1>3. QED
  BY <1>1, <1>2

\* In Async mode, as long as the clock is not set back and the process does
\* not die, no file grows more than one block over the limit, whatever the
\* calls, the splits, the failures, the moves and the deletions
\* (__get_next_fileindex, __append_file, __move_old_files).
THEOREM FilesSmall ==
  ASSUME NeverBack, Modes = {"Async"} PROVE Spec => []SizeBound
<1>1. CASE Split
  <2>1. Init => SizeInv
    BY SmallAtStart
  <2>2. SizeInv /\ [Next]_vars => SizeInv'
    <3> SUFFICES ASSUME SizeInv, [Next]_vars PROVE SizeInv'
      OBVIOUS
    <3>1. /\ crashes \in Nat /\ crashes' \in Nat
          /\ crashes' = 0 => crashes = 0 /\ ~Crash
      BY CrashesCount DEF SizeInv
    <3>2. QED
      BY <1>1, <3>1, SmallStep, NeverBack DEF SizeInv
  <2>3. SizeInv => SizeBound
    <3> SUFFICES ASSUME SmallInv, NEW p \in DOMAIN disk
                 PROVE  Len(disk[p].data) <= sg_max_file_size + 1
      BY DEF SizeInv, SizeBound
    <3>1. Size(disk, p) <= sg_max_file_size + 1
      BY DEF SmallInv, Small
    <3>2. QED
      BY <3>1 DEF Size
  <2>4. QED
    BY <2>1, <2>2, <2>3, PTL DEF Spec
<1>2. CASE ~Split
  <2>1. SizeBound
    BY <1>2 DEF SizeBound, Split
  <2>2. QED
    BY <2>1, PTL
<1>3. QED
  BY <1>1, <1>2
-----------------------------------------------------------------------------
(* Times and days, in every mode.                                           *)

\* The open file is the day's, whatever the mode.
FileDated ==
  /\ DOMAIN sg_logfile = DOMAIN NoFile
  /\ Open => /\ sg_logfile.time \in Nat /\ sg_logfile.time <= clock
             /\ IsPath(sg_logfile.path)
             /\ sg_logfile.path.day = Day(sg_logfile.time)
             /\ sg_logfile.path.dir = sg_logfile.dir
             /\ sg_logfile.linked \in BOOLEAN
             /\ sg_logfile.linked => sg_logfile.path \in DOMAIN disk
  /\ ~Open => buf = << >>

\* A call is over before the clock has gone on twice; without a cache nothing
\* is moved.
CallDated ==
  /\ pc \in InCall => clock <= job.time + 1
  /\ pc \in Writing => Open
  /\ pc \in InCall \union {"moverRemove"} => job.path.dir = "cache"
  /\ ~UseCache => ~mover.due /\ pc \in {"idle", "openLog", "writeLog"}
  /\ DOMAIN mover = {"due", "now", "todo"}
  /\ \A p \in mover.todo : p.dir = "cache" /\ IsPath(p)

\* Times and days, with no word of the blocks.
Timed == Shape /\ FileDated /\ CallDated /\ Sweeping

\* What a step may make of the file that is open: it goes on with it, loses
\* its name, or closes it.
FileLeft ==
  \/ /\ sg_logfile' = sg_logfile
     /\ Open /\ sg_logfile.linked => sg_logfile.path \in DOMAIN disk'
     /\ ~Open => buf' = << >>
  \/ Open /\ sg_logfile' = [sg_logfile EXCEPT !.linked = FALSE]
  \/ sg_logfile' = NoFile /\ buf' = << >>

LEMMA LeftDated ==
  ASSUME FileDated, FileLeft, UNCHANGED UseCache, clock \in Nat, clock' \in Nat,
         clock <= clock'
  PROVE  /\ FileDated'
         /\ Open' => /\ Open
                     /\ sg_logfile'.path = sg_logfile.path
                     /\ sg_logfile'.dir = sg_logfile.dir
                     /\ sg_logfile'.linked => sg_logfile.linked
         /\ sg_logfile' # NoFile => (Open' <=> Open)
<1>1. CASE sg_logfile' = NoFile /\ buf' = << >>
  BY <1>1 DEF FileDated, Open
<1>2. CASE Open /\ sg_logfile' = [sg_logfile EXCEPT !.linked = FALSE]
  <2>1. /\ DOMAIN sg_logfile' = DOMAIN NoFile
        /\ sg_logfile'.path = sg_logfile.path
        /\ sg_logfile'.time = sg_logfile.time
        /\ sg_logfile'.dir = sg_logfile.dir
        /\ sg_logfile'.linked = FALSE
    BY <1>2 DEF FileDated, NoFile
  <2>2. Open'
    <3>1. IsPath(sg_logfile.path)
      BY <1>2 DEF FileDated
    <3>2. sg_logfile'.path # NoPath
      BY <2>1, <3>1 DEF IsPath, NoPath, Dirs
    <3>3. QED
      BY <3>2 DEF Open, NoFile
  <2>3. FileDated'
    BY <1>2, <2>1, <2>2 DEF FileDated, IsPath, Dirs
  <2>4. QED
    BY <1>2, <2>1, <2>2, <2>3
<1>3. CASE /\ sg_logfile' = sg_logfile
           /\ Open /\ sg_logfile.linked => sg_logfile.path \in DOMAIN disk'
           /\ ~Open => buf' = << >>
  BY <1>3 DEF FileDated, Open, IsPath, Dirs
<1>4. QED
  BY <1>1, <1>2, <1>3 DEF FileLeft

\* Closing changes one file at most.
LEMMA FlushedDated ==
  ASSUME Shape, FileDated
  PROVE  Good(Flushed(disk), clock) /\ DOMAIN Flushed(disk) = DOMAIN disk
<1>1. CASE Open /\ sg_logfile.linked
  <2>1. /\ IsPath(sg_logfile.path) /\ sg_logfile.path \in DOMAIN disk
        /\ sg_logfile.path.day <= Day(clock)
    BY <1>1, DayMonotone DEF FileDated, Shape
  <2>2. Flushed(disk) = Appended(disk, sg_logfile.path, buf)
    BY <1>1 DEF Flushed
  <2>3. /\ Good(Appended(disk, sg_logfile.path, buf), clock)
        /\ DOMAIN Appended(disk, sg_logfile.path, buf)
             = DOMAIN disk \union {sg_logfile.path}
    BY <2>1, AppendedGood DEF Shape
  <2>4. QED
    BY <2>1, <2>2, <2>3
<1>2. CASE ~(Open /\ sg_logfile.linked)
  BY <1>2 DEF Flushed, Shape
<1>3. QED
  BY <1>1, <1>2

\* What the steps have in common that leave the clock, the threads that delete
\* and the name of the open file.
LEMMA AfterTimed ==
  ASSUME Timed, FileLeft, UNCHANGED <<UseCache, clock, sweep>>,
         Good(disk', clock), sg_mode' \in Modes, buf' \in Seq(Nat),
         blocks' \in Nat, backs' \in Nat,
         last' = last,
         job'.block \in Nat, job'.time = job.time, DOMAIN job' = DOMAIN NoJob,
         pc' \in InCall \union {"idle", "mover", "moverRemove"},
         pc' \in InCall => pc \in InCall,
         pc' \in Writing => pc \in Writing /\ sg_logfile' # NoFile,
         pc' \in InCall \union {"moverRemove"} => job'.path.dir = "cache",
         ~UseCache => ~mover'.due /\ pc' \in {"idle", "openLog", "writeLog"},
         DOMAIN mover' = DOMAIN mover,
         \A p \in mover'.todo : p.dir = "cache" /\ IsPath(p)
  PROVE  Timed'
<1> USE DEF Timed
<1>1. clock \in Nat /\ clock' \in Nat /\ clock <= clock'
  BY DEF Shape
<1>2. FileDated' /\ (sg_logfile' # NoFile => (Open' <=> Open))
  BY <1>1, LeftDated
<1>3. Shape'
  BY DEF Shape, Good, IsPath, Dirs
<1>4. CallDated'
  BY <1>2 DEF CallDated, IsPath, Dirs
<1>5. Sweeping'
  BY DEF Sweeping
<1>6. QED
  BY <1>2, <1>3, <1>4, <1>5

\* What is old enough to be deleted is of a day that was over a tick ago.
LEMMA OldIsOver ==
  ASSUME Good(disk, clock), clock \in Nat \ {0}, NEW now \in Nat, now <= clock,
         NEW p \in DOMAIN disk, now > disk[p].at, now - disk[p].at > AliveTime
  PROVE  /\ p.day \in Nat /\ p.day < Day(clock - 1)
         /\ now > AliveTime /\ p.day <= Day(now - AliveTime - 1)
<1>1. p.day \in Nat /\ disk[p].at \in Nat /\ p.day <= Day(disk[p].at)
  BY DEF Good, IsPath
<1>2. now - disk[p].at > DayLen
  BY <1>1, FilesAssumption
<1>3. p.day < Day(now - 1)
  BY <1>1, <1>2, DayOver
<1>4. now - 1 \in Nat /\ clock - 1 \in Nat /\ now - 1 <= clock - 1
  BY <1>1
<1>5. /\ Day(now - 1) <= Day(clock - 1)
      /\ Day(now - 1) \in Nat /\ Day(clock - 1) \in Nat
  BY <1>4, DayMonotone, DayOf
<1>6. now > AliveTime /\ p.day <= Day(now - AliveTime - 1)
  BY <1>1, DayOld
<1>7. QED
  BY <1>1, <1>3, <1>5, <1>6

LEMMA TimedInit == Init => Timed
<1> SUFFICES ASSUME Init PROVE Timed
  OBVIOUS
<1>1. /\ DOMAIN disk = {} /\ ~Open /\ buf = << >> /\ clock = 1
      /\ pc = "idle" /\ job = NoJob /\ mover = MoverDue /\ sweep = SweepDue
  BY DEF Init, Open
<1>2. Shape
  BY <1>1, ElemsOfFew, FilesAssumption DEF Init, Shape, Good, NoJob
<1>3. FileDated
  BY <1>1 DEF Init, FileDated
<1>4. CallDated
  BY <1>1 DEF CallDated, MoverDue, InCall, Writing
<1>5. Sweeping
  BY <1>1 DEF Sweeping, SweepDue
<1>6. QED
  BY <1>2, <1>3, <1>4, <1>5 DEF Timed

LEMMA BeginTimed ==
  ASSUME Timed, UNCHANGED UseCache,
         NEW move \in BOOLEAN, NEW roomy \in BOOLEAN, Log2File(move, roomy)
  PROVE  Timed'
<1> USE DEF Timed, openFile, threads
<1> DEFINE path == LogFileName(disk, "cache", clock)
<1>1. path.dir = "cache"
  BY DEF LogFileName
<1>2. path \in DOMAIN disk => UseCache
  BY <1>1 DEF Shape, Good, IsPath, Dirs
<1> HIDE DEF path
<1>3. /\ clock \in Nat /\ pc = "idle" /\ blocks' \in Nat
      /\ job'.block = blocks' /\ job'.time = clock /\ job'.path = path
      /\ DOMAIN job' = DOMAIN NoJob
      /\ pc' \in {"openCache", "openLog"} /\ (~UseCache => pc' = "openLog")
      /\ UNCHANGED <<clock, disk, sg_mode, openFile, threads, backs>>
  BY <1>2 DEF Log2File, Shape, NoJob, path
<1>4. Shape'
  BY <1>3 DEF Shape, InCall, Good, IsPath, Dirs
<1>5. FileDated'
  BY <1>3 DEF FileDated, Open, IsPath, Dirs
<1>6. CallDated'
  BY <1>1, <1>3 DEF CallDated, Writing, IsPath, Dirs
<1>7. Sweeping'
  BY <1>3 DEF Sweeping
<1>8. QED
  BY <1>4, <1>5, <1>6, <1>7

LEMMA OpenTimed ==
  ASSUME NeverBack, Timed, UNCHANGED UseCache,
         NEW from \in {"openCache", "openLog", "openFallback"},
         NEW dir \in Dirs, NEW ok \in Writing,
         NEW fail \in {"openLog", "openFallback", "idle"},
         ~UseCache => ok = "writeLog" /\ fail = "idle",
         OpenFile(from, dir, ok, fail)
  PROVE  Timed'
<1> USE DEF Timed, threads
<1>0. /\ pc = from /\ pc \in InCall /\ clock \in Nat \ {0}
      /\ UNCHANGED <<clock, sg_mode, job, threads, blocks, backs>>
  BY DEF OpenFile, InCall, Shape
<1>1. CASE Reusable(dir) /\ pc' = ok /\ UNCHANGED <<disk, openFile, faults>>
  <2>1. Open
    BY <1>1 DEF Reusable
  <2>2. Shape' /\ FileDated'
    BY <1>0, <1>1 DEF Shape, FileDated, openFile, Open, Writing, InCall, Good, IsPath,
                      Dirs
  <2>3. CallDated' /\ Sweeping'
    BY <1>0, <1>1, <2>1 DEF CallDated, Sweeping, openFile, Open, Writing, InCall, IsPath,
                            Dirs
  <2>4. QED
    BY <2>2, <2>3
<1>2. CASE ~Reusable(dir)
  <2> DEFINE d == Flushed(disk)
             name == LogFileName(d, dir, clock)
  <2>1. IsPath(name) /\ name.day = Day(clock) /\ name.dir = dir
    BY <1>0, NameIsPath
  <2>2. Good(d, clock)
    BY FlushedDated
  <2>3. /\ buf' = << >>
        /\ last' = [time |-> clock, path |-> name]
        /\ \/ /\ disk' = Appended(d, name, << >>)
              /\ sg_logfile' = [path |-> name, dir |-> dir, time |-> clock,
                                linked |-> TRUE]
              /\ pc' = ok
           \/ disk' = d /\ sg_logfile' = NoFile /\ pc' = fail
    <3>1. ~(clock < last.time)
      BY <1>0 DEF Shape
    <3>2. QED
      BY <1>2, <3>1 DEF OpenFile
  <2> HIDE DEF d, name
  <2>4. /\ Good(Appended(d, name, << >>), clock)
        /\ name \in DOMAIN Appended(d, name, << >>)
    <3>1. Day(clock) \in Nat /\ name.day <= Day(clock) /\ << >> \in Seq(Nat)
      BY <1>0, <2>1, DayOf, ElemsOfFew
    <3>2. /\ Good(Appended(d, name, << >>), clock)
          /\ DOMAIN Appended(d, name, << >>) = DOMAIN d \union {name}
      BY <1>0, <2>1, <2>2, <3>1, AppendedGood
    <3>3. QED
      BY <3>2
  <2>5. Good(disk', clock)
    BY <2>2, <2>3, <2>4
  <2>6. Shape'
    BY <1>0, <2>3, <2>5, ElemsOfFew
       DEF Shape, Good, IsPath, Dirs, InCall, Writing
  <2>7. FileDated' /\ (pc' \in Writing => Open')
    <3>1. CASE /\ pc' = ok /\ disk' = Appended(d, name, << >>)
               /\ sg_logfile' = [path |-> name, dir |-> dir, time |-> clock,
                                 linked |-> TRUE]
      <4>1. DOMAIN sg_logfile' = DOMAIN NoFile /\ Open'
        BY <3>1 DEF NoFile, Open
      <4>2. FileDated'
        BY <1>0, <2>1, <2>4, <3>1, <4>1 DEF FileDated, IsPath, Dirs
      <4>3. QED
        BY <4>1, <4>2
    <3>2. CASE pc' = fail /\ sg_logfile' = NoFile
      BY <1>0, <2>3, <3>2 DEF FileDated, Open, Writing
    <3>3. QED
      BY <2>3, <3>1, <3>2
  <2>8. CallDated'
    BY <1>0, <2>3, <2>7 DEF CallDated, Writing, InCall, IsPath, Dirs
  <2>9. Sweeping'
    BY <1>0 DEF Sweeping
  <2>10. QED
    BY <2>6, <2>7, <2>8, <2>9
<1>3. QED
  BY <1>1, <1>2 DEF OpenFile

LEMMA WriteTimed ==
  ASSUME Timed, UNCHANGED UseCache, NEW from \in Writing,
         NEW ok \in {"idle", "append"}, NEW fail \in {"idle", "append", "closeLog"},
         ~UseCache => ok = "idle" /\ fail = "idle",
         WriteFile(from, ok, fail)
  PROVE  Timed'
<1> USE DEF Timed
<1> DEFINE bs == Append(buf, job.block)
<1>1. /\ pc \in Writing /\ pc \in InCall /\ pc' \in {ok, fail} /\ Open
      /\ UNCHANGED <<clock, sg_mode, last, job, threads, blocks, backs>>
  BY DEF WriteFile, Writing, InCall, CallDated
<1>2. /\ clock \in Nat /\ Good(disk, clock) /\ buf \in Seq(Nat) /\ << >> \in Seq(Nat)
      /\ bs \in Seq(Nat)
  BY ElemsOfFew DEF Shape
<1> HIDE DEF bs
<1>3. /\ Good(disk', clock) /\ DOMAIN disk' = DOMAIN disk /\ buf' \in Seq(Nat)
      /\ sg_logfile' = sg_logfile \/ (sg_logfile' = NoFile /\ buf' = << >>)
  <2>1. sg_logfile.linked =>
          /\ Good(Appended(disk, sg_logfile.path, bs), clock)
          /\ DOMAIN Appended(disk, sg_logfile.path, bs) = DOMAIN disk
    <3>1. CASE sg_logfile.linked
      <4>1. /\ sg_logfile.path \in DOMAIN disk /\ IsPath(sg_logfile.path)
            /\ sg_logfile.path.day <= Day(clock)
        BY <1>1, <3>1, DayMonotone DEF FileDated, Shape
      <4>2. /\ Good(Appended(disk, sg_logfile.path, bs), clock)
            /\ DOMAIN Appended(disk, sg_logfile.path, bs)
                 = DOMAIN disk \union {sg_logfile.path}
        BY <1>2, <4>1, AppendedGood
      <4>3. QED
        BY <4>1, <4>2
    <3>2. QED
      BY <3>1
  <2>2. CASE WriteOk
    <3>1. /\ \/ disk' = disk
             \/ sg_logfile.linked /\ disk' = Appended(disk, sg_logfile.path, bs)
          /\ \/ sg_logfile' = NoFile /\ buf' = << >>
             \/ sg_logfile' = sg_logfile /\ buf' \in {bs, << >>}
      BY <2>2 DEF WriteOk, bs
    <3>2. QED
      BY <1>2, <2>1, <3>1
  <2>3. CASE WriteFails
    <3>1. \/ disk' = Flushed(disk) /\ sg_logfile' = NoFile /\ buf' = << >>
          \/ disk' = disk /\ sg_logfile' = sg_logfile /\ buf' \in {buf, << >>}
      BY <2>3 DEF WriteFails, CloseFile
    <3>2. QED
      BY <1>2, <3>1, FlushedDated
  <2>4. QED
    BY <2>2, <2>3 DEF WriteFile
<1>4. FileLeft
  BY <1>1, <1>3 DEF FileLeft, FileDated
<1>5. /\ pc' \in InCall \union {"idle", "mover", "moverRemove"} /\ pc' \notin Writing
      /\ pc' \in InCall \union {"moverRemove"} => job.path.dir = "cache"
      /\ ~UseCache => ~mover'.due /\ pc' = "idle"
      /\ mover' = mover /\ sweep' = sweep
  BY <1>1 DEF InCall, Writing, CallDated, threads
<1>6. /\ job'.block \in Nat /\ DOMAIN job' = DOMAIN NoJob
      /\ blocks' \in Nat /\ backs' \in Nat /\ sg_mode' \in Modes
      /\ \A p \in mover'.todo : p.dir = "cache" /\ IsPath(p)
  BY <1>1, <1>5 DEF Shape, CallDated
<1>7. QED
  BY <1>1, <1>3, <1>4, <1>5, <1>6, AfterTimed

LEMMA CloseLogTimed ==
  ASSUME Timed, UNCHANGED UseCache, CloseLog
  PROVE  Timed'
<1> USE DEF Timed
<1>1. /\ pc = "closeLog" /\ pc' = "openFallback" /\ UseCache
      /\ UNCHANGED <<clock, sg_mode, last, job, threads, bounds>>
  BY DEF CloseLog, CallDated
<1>2. \/ disk' = Flushed(disk) /\ sg_logfile' = NoFile /\ buf' = << >>
      \/ UNCHANGED <<disk, sg_logfile, buf>>
  BY DEF CloseLog, CloseFile
<1>3. Good(disk', clock) /\ DOMAIN disk' = DOMAIN disk /\ buf' \in Seq(Nat)
  BY <1>2, FlushedDated, ElemsOfFew DEF Shape
<1>4. FileLeft
  BY <1>2, <1>3 DEF FileLeft, FileDated
<1>5. /\ mover' = mover /\ sweep' = sweep /\ blocks' = blocks /\ backs' = backs
      /\ pc' \in InCall /\ pc \in InCall /\ pc' \notin Writing
  BY <1>1 DEF threads, bounds, InCall, Writing
<1>6. /\ job'.block \in Nat /\ DOMAIN job' = DOMAIN NoJob
      /\ blocks' \in Nat /\ backs' \in Nat /\ sg_mode' \in Modes
      /\ job'.path.dir = "cache"
      /\ \A p \in mover'.todo : p.dir = "cache" /\ IsPath(p)
  BY <1>1, <1>5 DEF Shape, CallDated
<1>7. QED
  BY <1>1, <1>3, <1>4, <1>5, <1>6, AfterTimed

\* A copy leaves the files good.
LEMMA CopyTimed ==
  ASSUME Good(disk, clock), clock \in Nat, NEW src, NEW dst, IsPath(dst),
         dst.day <= Day(clock), NEW ok \in BOOLEAN, AppendFile(src, dst, ok)
  PROVE  Good(disk', clock) /\ DOMAIN disk \subseteq DOMAIN disk'
<1> DEFINE bs == IF src \in DOMAIN disk THEN disk[src].data ELSE << >>
           e == Appended(disk, dst, bs)
           f == Appended(disk, dst, << >>)
<1>1. bs \in Seq(Nat) /\ << >> \in Seq(Nat)
  BY ElemsOfFew DEF Good
<1>2. disk' \in {disk, e, f}
  BY DEF AppendFile
<1> HIDE DEF bs
<1>3. /\ Good(e, clock) /\ DOMAIN e = DOMAIN disk \union {dst}
      /\ Good(f, clock) /\ DOMAIN f = DOMAIN disk \union {dst}
  BY <1>1, AppendedGood
<1> HIDE DEF e, f
<1>4. QED
  BY <1>2, <1>3

LEMMA AppendCachedTimed ==
  ASSUME Timed, UNCHANGED UseCache, AppendCached
  PROVE  Timed'
<1> USE DEF Timed
<1> DEFINE dst == LogFileName(disk, "log", job.time)
<1>1. PICK ok \in BOOLEAN : /\ AppendFile(job.path, dst, ok)
                            /\ pc' = IF ok THEN "remove" ELSE "idle"
  BY DEF AppendCached
<1>2. /\ UNCHANGED <<clock, sg_mode, openFile, job, threads, blocks, backs>>
      /\ clock \in Nat /\ job.time \in Nat /\ job.time <= clock
      /\ job.path.dir = "cache" /\ Good(disk, clock)
      /\ pc = "append" /\ pc \in InCall /\ UseCache
  BY DEF AppendCached, Shape, CallDated, InCall
<1>3. IsPath(dst) /\ dst.dir = "log" /\ dst.day <= Day(clock)
  BY <1>2, NameIsPath, DayMonotone DEF Dirs
<1> HIDE DEF dst
<1>4. Good(disk', clock) /\ DOMAIN disk \subseteq DOMAIN disk'
  BY <1>1, <1>2, <1>3, CopyTimed
<1>5. FileLeft /\ buf' = buf /\ last' = last
  BY <1>2, <1>4 DEF FileLeft, FileDated, openFile
<1>6. /\ mover' = mover /\ sweep' = sweep
      /\ pc' \in {"remove", "idle"} /\ pc' \notin Writing /\ "remove" \in InCall
  BY <1>1, <1>2 DEF threads, InCall, Writing
<1>7. /\ job'.block \in Nat /\ DOMAIN job' = DOMAIN NoJob
      /\ blocks' \in Nat /\ backs' \in Nat /\ sg_mode' \in Modes /\ buf' \in Seq(Nat)
      /\ \A p \in mover'.todo : p.dir = "cache" /\ IsPath(p)
  BY <1>2, <1>5, <1>6 DEF Shape, CallDated
<1>8. QED
  BY <1>2, <1>4, <1>5, <1>6, <1>7, AfterTimed

LEMMA RemoveCachedTimed ==
  ASSUME Timed, UNCHANGED UseCache, RemoveCached
  PROVE  Timed'
<1> USE DEF Timed
<1>1. /\ pc = "remove" /\ pc' = "idle"
      /\ UNCHANGED <<clock, sg_mode, last, job, threads, bounds>>
      /\ mover' = mover /\ sweep' = sweep /\ blocks' = blocks /\ backs' = backs
  BY DEF RemoveCached, threads, bounds
<1>2. \/ /\ disk' = Removed(Flushed(disk), job.path)
         /\ sg_logfile' = NoFile /\ buf' = << >>
      \/ /\ disk' = Removed(disk, job.path) /\ buf' = buf
         /\ sg_logfile' = IF Open /\ sg_logfile.path = job.path
                          THEN [sg_logfile EXCEPT !.linked = FALSE] ELSE sg_logfile
  BY DEF RemoveCached, Unlink
<1>3. Good(disk', clock) /\ buf' \in Seq(Nat)
  <2>1. Good(disk, clock) /\ Good(Flushed(disk), clock) /\ << >> \in Seq(Nat)
    BY FlushedDated, ElemsOfFew DEF Shape
  <2>2. /\ Good(Removed(disk, job.path), clock)
        /\ Good(Removed(Flushed(disk), job.path), clock)
    BY <2>1, RemovedGood
  <2>3. buf \in Seq(Nat)
    BY DEF Shape
  <2>4. QED
    BY <1>2, <2>1, <2>2, <2>3
<1>4. FileLeft
  BY <1>2 DEF FileLeft, FileDated, Removed
<1>5. /\ job'.block \in Nat /\ DOMAIN job' = DOMAIN NoJob
      /\ blocks' \in Nat /\ backs' \in Nat /\ sg_mode' \in Modes
      /\ \A p \in mover'.todo : p.dir = "cache" /\ IsPath(p)
      /\ ~UseCache => ~mover'.due
  BY <1>1 DEF Shape, CallDated
<1>6. QED
  BY <1>1, <1>3, <1>4, <1>5, AfterTimed DEF InCall, Writing

LEMMA MoverTimed ==
  ASSUME Timed, UNCHANGED UseCache, Mover
  PROVE  Timed'
<1> USE DEF Timed
<1>0. /\ job.block \in Nat /\ DOMAIN job = DOMAIN NoJob /\ buf \in Seq(Nat)
      /\ blocks \in Nat /\ backs \in Nat /\ sg_mode \in Modes
      /\ clock \in Nat /\ Good(disk, clock)
      /\ DOMAIN mover = {"due", "now", "todo"}
      /\ \A p \in mover.todo : p.dir = "cache" /\ IsPath(p)
      /\ ~UseCache => ~mover.due /\ pc \in {"idle", "openLog", "writeLog"}
      /\ "idle" \notin InCall /\ "mover" \notin InCall /\ "moverRemove" \notin InCall
      /\ "idle" \notin Writing /\ "mover" \notin Writing /\ "moverRemove" \notin Writing
  BY DEF Shape, CallDated, InCall, Writing
<1>1. CASE MoverStart \/ MoverEnd
  <2>1. /\ UNCHANGED <<clock, disk, sg_mode, openFile, job, sweep, bounds>>
        /\ pc' \in {"mover", "idle"} /\ UseCache
        /\ DOMAIN mover' = DOMAIN mover
        /\ \A p \in mover'.todo : p.dir = "cache" /\ IsPath(p)
    BY <1>0, <1>1 DEF MoverStart, MoverEnd, Good
  <2>2. FileLeft /\ buf' = buf /\ last' = last /\ blocks' = blocks /\ backs' = backs
    BY <2>1 DEF FileLeft, FileDated, openFile, bounds
  <2>3. QED
    BY <1>0, <2>1, <2>2, AfterTimed DEF Shape
<1>2. CASE MoverRemove
  <2>1. /\ disk' = Removed(disk, job.path) /\ pc' = "mover" /\ UseCache
        /\ sg_logfile' = IF Open /\ sg_logfile.path = job.path
                         THEN [sg_logfile EXCEPT !.linked = FALSE] ELSE sg_logfile
        /\ UNCHANGED <<clock, sg_mode, buf, last, job, mover, sweep, blocks, backs>>
    BY <1>0, <1>2 DEF MoverRemove, Unlink, threads, bounds
  <2>2. Good(disk', clock)
    BY <1>0, <2>1, RemovedGood
  <2>3. FileLeft
    BY <2>1 DEF FileLeft, FileDated, Removed
  <2>4. QED
    BY <1>0, <2>1, <2>2, <2>3, AfterTimed DEF Shape
<1>3. ASSUME NEW p \in mover.todo, MoverNext(p) PROVE Timed'
  <2> DEFINE dst == [p EXCEPT !.dir = "log"]
  <2>1. /\ UNCHANGED <<clock, sg_mode, openFile, sweep, dirAlive, blocks, backs>>
        /\ mover' = [mover EXCEPT !.todo = @ \ {p}]
        /\ p \in DOMAIN disk /\ p.dir = "cache" /\ IsPath(p) /\ pc = "mover" /\ UseCache
    BY <1>0, <1>3 DEF MoverNext
  <2>2. (\A q \in mover'.todo : q.dir = "cache" /\ IsPath(q))
        /\ DOMAIN mover' = DOMAIN mover
    BY <1>0, <2>1
  <2>3. IsPath(dst) /\ dst.day <= Day(clock)
    <3>1. IsPath(dst) /\ dst.day = p.day
      BY <2>1 DEF IsPath, NoPath, Dirs
    <3>2. disk[p].at \in Nat /\ disk[p].at <= clock /\ p.day <= Day(disk[p].at)
          /\ p.day \in Nat
      BY <1>0, <2>1 DEF Good, IsPath
    <3>3. Day(disk[p].at) <= Day(clock) /\ Day(disk[p].at) \in Nat /\ Day(clock) \in Nat
      BY <1>0, <3>2, DayMonotone, DayOf
    <3> HIDE DEF dst
    <3>4. QED
      BY <3>1, <3>2, <3>3
  <2>4. \/ UNCHANGED <<disk, pc, job>>
        \/ /\ \E ok \in BOOLEAN : /\ AppendFile(p, dst, ok)
                                  /\ pc' = IF ok THEN "moverRemove" ELSE "idle"
           /\ job' = [job EXCEPT !.path = p]
    BY <1>3 DEF MoverNext
  <2> HIDE DEF dst
  <2>5. /\ Good(disk', clock) /\ DOMAIN disk \subseteq DOMAIN disk'
        /\ pc' \in {"mover", "moverRemove", "idle"}
    <3>1. CASE UNCHANGED <<disk, pc, job>>
      BY <1>0, <2>1, <3>1
    <3>2. ASSUME NEW ok \in BOOLEAN, AppendFile(p, dst, ok),
                 pc' = IF ok THEN "moverRemove" ELSE "idle"
          PROVE  /\ Good(disk', clock) /\ DOMAIN disk \subseteq DOMAIN disk'
                 /\ pc' \in {"moverRemove", "idle"}
      BY <1>0, <2>3, <3>2, CopyTimed
    <3>3. QED
      BY <2>4, <3>1, <3>2
  <2>6. /\ job'.block = job.block /\ job'.time = job.time /\ DOMAIN job' = DOMAIN job
        /\ pc' = "moverRemove" => job'.path.dir = "cache"
    BY <1>0, <2>1, <2>4 DEF NoJob
  <2>7. FileLeft /\ buf' = buf /\ last' = last
    BY <2>1, <2>5 DEF FileLeft, FileDated, openFile
  <2>8. QED
    BY <1>0, <2>1, <2>2, <2>5, <2>6, <2>7, AfterTimed
<1>4. QED
  BY <1>1, <1>2, <1>3 DEF Mover

LEMMA SweepTimed ==
  ASSUME Timed, UNCHANGED UseCache, Sweep
  PROVE  Timed'
<1> USE DEF Timed
<1>0. /\ UNCHANGED <<clock, sg_mode, buf, last, call, mover, dirAlive, bounds>>
      /\ clock \in Nat \ {0} /\ Good(disk, clock)
      /\ clock' \in Nat /\ clock <= clock'
  <2>1. UNCHANGED <<clock, sg_mode, buf, last, call, mover, dirAlive, bounds>>
    BY DEF Sweep, SweepStart, SweepCheck, SweepRemove, openFile
  <2>2. clock \in Nat \ {0} /\ Good(disk, clock)
    BY DEF Shape
  <2>3. QED
    BY <2>1, <2>2
<1>1. ASSUME Good(disk', clock), FileLeft, sg_logfile' # NoFile \/ ~Open, Sweeping'
      PROVE  Timed'
  <2>1. FileDated' /\ (Open' <=> Open)
    <3>1. FileDated' /\ (sg_logfile' # NoFile => (Open' <=> Open))
      BY <1>0, <1>1, LeftDated
    <3>2. QED
      BY <1>1, <3>1 DEF Open
  <2>2. Shape'
    BY <1>0, <1>1 DEF Shape, InCall, Good, IsPath, Dirs, call, bounds
  <2>3. CallDated'
    BY <1>0, <2>1 DEF CallDated, IsPath, Dirs, call
  <2>4. QED
    BY <1>1, <2>1, <2>2, <2>3
<1>2. ASSUME UNCHANGED <<disk, openFile>>
      PROVE  Good(disk', clock) /\ FileLeft /\ (sg_logfile' # NoFile \/ ~Open)
  BY <1>0, <1>2 DEF FileLeft, FileDated, openFile, Open
<1>3. ASSUME NEW dir \in Dirs, SweepStart(dir) PROVE Timed'
  <2>1. PICK todo :
          sweep' = [due |-> sweep.due \ {dir}, now |-> clock, victim |-> NoPath,
                    todo |-> todo]
    BY <1>3 DEF SweepStart
  <2>2. Sweeping'
    BY <1>0, <2>1 DEF Sweeping
  <2>3. QED
    BY <1>1, <1>2, <1>3, <2>2 DEF SweepStart
<1>4. ASSUME NEW p \in sweep.todo, SweepCheck(p) PROVE Timed'
  <2>1. /\ DOMAIN sweep' = DOMAIN sweep /\ sweep'.now = sweep.now
        /\ sweep'.victim # NoPath =>
             /\ sweep'.victim = p /\ p \in DOMAIN disk
             /\ sweep.now > disk[p].at /\ sweep.now - disk[p].at > AliveTime
    BY <1>4 DEF SweepCheck, Sweeping
  <2>2. ASSUME sweep'.victim # NoPath
        PROVE  /\ sweep'.victim.day \in Nat /\ sweep'.victim.day < Day(clock - 1)
               /\ sweep.now > AliveTime
               /\ sweep'.victim.day <= Day(sweep.now - AliveTime - 1)
    <3>1. sweep'.victim = p
      BY <2>1, <2>2
    <3>2. /\ p.day \in Nat /\ p.day < Day(clock - 1)
          /\ sweep.now > AliveTime /\ p.day <= Day(sweep.now - AliveTime - 1)
      BY <1>0, <2>1, <2>2, OldIsOver DEF Sweeping
    <3>3. QED
      BY <3>1, <3>2
  <2>3. Sweeping'
    BY <1>0, <2>1, <2>2 DEF Sweeping
  <2>4. QED
    BY <1>1, <1>2, <1>4, <2>3 DEF SweepCheck
<1>5. CASE SweepRemove
  <2> DEFINE v == sweep.victim
  <2>1. /\ disk' = Removed(disk, v)
        /\ sg_logfile' = IF Open /\ sg_logfile.path = v
                         THEN [sg_logfile EXCEPT !.linked = FALSE] ELSE sg_logfile
        /\ DOMAIN sweep' = DOMAIN sweep /\ sweep'.now = sweep.now
        /\ sweep'.victim = NoPath
    BY <1>5 DEF SweepRemove, Sweeping, Unlink
  <2>2. Sweeping'
    BY <1>0, <2>1 DEF Sweeping
  <2> HIDE DEF v
  <2>3. Good(disk', clock)
    BY <1>0, <2>1, RemovedGood
  <2>4. FileLeft
    BY <1>0, <2>1 DEF FileLeft, FileDated, Removed
  <2>5. sg_logfile' # NoFile \/ ~Open
    <3>1. CASE Open /\ sg_logfile.path = v
      <4>1. sg_logfile'.path = sg_logfile.path /\ IsPath(sg_logfile.path)
        BY <2>1, <3>1 DEF FileDated, NoFile
      <4>2. QED
        BY <4>1 DEF NoFile, NoPath, IsPath, Dirs
    <3>2. CASE ~(Open /\ sg_logfile.path = v)
      BY <2>1, <3>2 DEF Open
    <3>3. QED
      BY <3>1, <3>2
  <2>6. QED
    BY <1>1, <2>2, <2>3, <2>4, <2>5
<1>6. QED
  BY <1>3, <1>4, <1>5 DEF Sweep

LEMMA StillTimed ==
  ASSUME Timed, UNCHANGED UseCache, sg_mode' \in Modes,
         UNCHANGED <<clock, disk, openFile, call, mover, sweep, blocks, backs>>
  PROVE  Timed'
<1> USE DEF Timed, openFile, call
<1>1. Shape' /\ FileDated'
  BY DEF Shape, FileDated, InCall, Good, IsPath, Dirs, Open
<1>2. CallDated' /\ Sweeping'
  BY DEF CallDated, Sweeping, InCall, Writing, IsPath, Dirs, Open
<1>3. QED
  BY <1>1, <1>2

LEMMA TickTimed ==
  ASSUME Timed, UNCHANGED UseCache, Tick
  PROVE  Timed'
<1> USE DEF Timed, threads, bounds, openFile, call
<1>1. /\ clock \in Nat \ {0} /\ clock' = clock + 1
      /\ pc \in InCall => clock <= job.time
      /\ UNCHANGED <<disk, sg_mode, openFile, call, threads, bounds>>
  BY DEF Tick, Shape, InCall
<1>2. clock - 1 \in Nat /\ clock' - 1 = clock /\ clock - 1 <= clock
  BY <1>1
<1>3. /\ Day(clock - 1) \in Nat /\ Day(clock) \in Nat
      /\ Day(clock - 1) <= Day(clock)
  BY <1>1, <1>2, DayOf, DayMonotone
<1>4. Shape'
  BY <1>1 DEF Shape, Good, IsPath, Dirs, InCall
<1>5. FileDated'
  BY <1>1 DEF FileDated, Open, IsPath, Dirs
<1>6. CallDated'
  BY <1>1 DEF CallDated, Open, InCall, Shape, IsPath, Dirs
<1>7. Sweeping'
  BY <1>1, <1>2, <1>3 DEF Sweeping
<1>8. QED
  BY <1>4, <1>5, <1>6, <1>7

LEMMA EndTimed ==
  ASSUME Timed, UNCHANGED UseCache, Close \/ Crash
  PROVE  Timed'
<1> USE DEF Timed
<1>1. /\ sg_logfile' = NoFile /\ buf' = << >> /\ pc' = "idle"
      /\ disk' \in {disk, Flushed(disk)}
      /\ UNCHANGED <<clock, sg_mode, blocks, backs>>
      /\ last' = last \/ last' = [time |-> 0, path |-> NoPath]
      /\ job' = job \/ job' = NoJob
      /\ mover' = mover \/ mover' = MoverDue
      /\ sweep' = sweep \/ sweep' = SweepDue
  BY DEF Close, CloseFile, Crash, call, threads, bounds
<1>2. Good(disk', clock)
  BY <1>1, FlushedDated DEF Shape
<1>3. Shape'
  BY <1>1, <1>2, ElemsOfFew DEF Shape, Good, IsPath, Dirs, NoJob
<1>4. FileDated'
  BY <1>1 DEF FileDated, Open
<1>5. CallDated'
  BY <1>1 DEF CallDated, MoverDue, InCall, Writing, IsPath, Dirs
<1>6. Sweeping'
  BY <1>1 DEF Sweeping, SweepDue, Shape
<1>7. QED
  BY <1>3, <1>4, <1>5, <1>6

\* Times and days are kept, in every mode.
LEMMA TimedStep ==
  ASSUME NeverBack, Timed, [Next]_vars
  PROVE  Timed'
<1>1. UNCHANGED UseCache
  BY DEF Next, vars
<1>2. CASE UNCHANGED vars
  BY <1>2, StillTimed DEF vars, call, threads, bounds, Timed, Shape
<1>3. CASE \E move, roomy \in BOOLEAN : Log2File(move, roomy)
  BY <1>1, <1>3, BeginTimed
<1>4. CASE Log2FileStep
  <2>1. ~UseCache => pc \in {"idle", "openLog", "writeLog"}
    BY DEF Timed, CallDated
  <2>2. "log" \in Dirs /\ (UseCache => "cache" \in Dirs)
    BY DEF Dirs
  <2>3. CASE OpenFile("openCache", "cache", "writeCache", "openLog")
    <3>1. UseCache
      BY <2>1, <2>3 DEF OpenFile
    <3>2. QED
      BY <1>1, <2>2, <2>3, <3>1, OpenTimed DEF Writing
  <2>4. CASE WriteFile("writeCache", AfterCache, AfterCache)
    <3>1. UseCache
      BY <2>1, <2>4 DEF WriteFile
    <3>2. AfterCache \in {"idle", "append"}
      BY DEF AfterCache
    <3>3. QED
      BY <1>1, <2>4, <3>1, <3>2, WriteTimed DEF Writing
  <2>5. CASE AppendCached \/ RemoveCached \/ CloseLog
    BY <1>1, <2>5, AppendCachedTimed, RemoveCachedTimed, CloseLogTimed
  <2>6. CASE OpenFile("openLog", "log", "writeLog",
                      IF UseCache THEN "openFallback" ELSE "idle")
    <3>1. CASE UseCache
      <4>1. OpenFile("openLog", "log", "writeLog", "openFallback")
        BY <2>6, <3>1
      <4>2. QED
        BY <1>1, <2>2, <3>1, <4>1, OpenTimed DEF Writing
    <3>2. CASE ~UseCache
      <4>1. OpenFile("openLog", "log", "writeLog", "idle")
        BY <2>6, <3>2
      <4>2. QED
        BY <1>1, <2>2, <3>2, <4>1, OpenTimed DEF Writing
    <3>3. QED
      BY <3>1, <3>2
  <2>7. CASE WriteFile("writeLog", "idle", AfterLog)
    <3>1. /\ AfterLog \in {"idle", "closeLog"}
          /\ ~UseCache => AfterLog = "idle"
      BY DEF AfterLog
    <3>2. QED
      BY <1>1, <2>7, <3>1, WriteTimed DEF Writing
  <2>8. CASE OpenFile("openFallback", "cache", "writeFallback", "idle")
    <3>1. UseCache
      BY <2>1, <2>8 DEF OpenFile
    <3>2. QED
      BY <1>1, <2>2, <2>8, <3>1, OpenTimed DEF Writing
  <2>9. CASE WriteFile("writeFallback", "idle", "idle")
    BY <1>1, <2>9, WriteTimed DEF Writing
  <2>10. QED
    BY <1>4, <2>3, <2>4, <2>5, <2>6, <2>7, <2>8, <2>9 DEF Log2FileStep
<1>5. CASE Mover \/ Sweep \/ Tick \/ Close \/ Crash
  BY <1>1, <1>5, MoverTimed, SweepTimed, TickTimed, EndTimed
<1>6. CASE SetBack
  BY <1>6 DEF SetBack, NeverBack, Timed, Shape
<1>7. CASE ReleaseDir
  BY <1>1, <1>7, StillTimed DEF ReleaseDir, bounds, Timed, Shape
<1>8. CASE \E mode \in Modes : SetMode(mode)
  BY <1>1, <1>8, StillTimed DEF SetMode, threads, bounds
<1>9. QED
  BY <1>2, <1>3, <1>4, <1>5, <1>6, <1>7, <1>8 DEF Next, Step
-----------------------------------------------------------------------------
(* The order of the blocks.                                                 *)

\* Who has read s finds a in its place: what is behind a has been read after
\* an a.
After(s, a) == \A i \in DOMAIN s : s[i] > a => \E k \in 1 .. (i - 1) : s[k] = a

\* The blocks of s, each where it is first, are in order.
Tidy(s) == \A a \in Elems(s) : After(s, a)

\* The reader of a day comes to p before he comes to q.
Before(p, q) ==
  /\ p.day = q.day
  /\ p.idx < q.idx \/ (p.idx = q.idx /\ p.dir = "log" /\ q.dir = "cache")

Ordered(d) ==
  \A p, q \in DOMAIN d :
    p = q \/ Before(p, q) => \A a \in Elems(d[q].data) : After(d[p].data, a)

\* Where a call has its block still to write, and where it has a cached file
\* that it may move over.
Coming == {"openCache", "writeCache", "openLog", "writeLog"}
OfCache == {"openCache", "writeCache", "append"}

\* The blocks that wait in the buffer s are newer than those in the files d.
InPlace(d, s, n) ==
  /\ Indexed(d) /\ Ordered(d)
  /\ sg_max_file_size = 0 => \A p \in DOMAIN d : p.idx = 0
  /\ s \in Seq(Nat) /\ Tidy(s)
  /\ \A b \in BlocksOf(d), c \in Elems(s) : b < c
  /\ \A b \in BlocksOf(d) \union Elems(s) : b <= n

\* The reader comes to the open file last, or to nothing new behind it: that is
\* when its blocks have been copied to the next index, and it is about to go.
LastOpen ==
  Open /\ sg_logfile.linked =>
    \A q \in DOMAIN disk : q.day = sg_logfile.path.day =>
      \/ q = sg_logfile.path \/ Before(q, sg_logfile.path)
      \/ /\ pc = "remove" /\ sg_logfile.path = job.path
         /\ Elems(disk[q].data) \subseteq Elems(disk[sg_logfile.path].data)

\* The name that a call has found is still the day's; if the file that is open
\* is to be closed first, the name is that of the next index.
NameFound ==
  pc \in {"openCache", "openLog"} =>
    /\ \A p \in DOMAIN disk : p.day <= Day(job.time)
    /\ job.path.idx = NextIndex(disk, Day(job.time))
    /\ /\ Open /\ sg_logfile.linked /\ sg_logfile.path.day = Day(job.time)
       /\ sg_logfile.dir # (IF pc = "openCache" THEN "cache" ELSE "log")
       => sg_logfile.path.idx < job.path.idx

OrderInv ==
  /\ InPlace(disk, buf, blocks)
  /\ pc \in Coming =>
       job.block <= blocks /\ \A b \in BlocksOf(disk) \union Elems(buf) : b < job.block
  /\ pc \notin {"closeLog", "openFallback", "writeFallback"}
  /\ NameFound
  /\ pc = "openLog" => job.path \notin DOMAIN disk
  /\ pc \in OfCache \union {"openLog"} =>
       job.path \in Names /\ job.path.day = Day(job.time)
  /\ pc \in OfCache => UpTo(disk, job.path)
  /\ pc \in {"writeCache", "append"} /\ Open => sg_logfile.dir = "cache"
  /\ LastOpen
-----------------------------------------------------------------------------
(* Sequences in order.                                                      *)

\* The places of a concatenation.
LEMMA ConcatAt ==
  ASSUME NEW s \in Seq(Nat), NEW t \in Seq(Nat)
  PROVE  /\ s \o t \in Seq(Nat) /\ Len(s) \in Nat
         /\ DOMAIN s = 1 .. Len(s) /\ DOMAIN t = 1 .. Len(t)
         /\ \A i \in DOMAIN s : s[i] \in Nat
         /\ \A i \in DOMAIN t : t[i] \in Nat
         /\ \A i \in DOMAIN s : i \in DOMAIN (s \o t) /\ (s \o t)[i] = s[i]
         /\ \A j \in DOMAIN t :
              Len(s) + j \in DOMAIN (s \o t) /\ (s \o t)[Len(s) + j] = t[j]
         /\ \A i \in DOMAIN (s \o t) :
              i \notin DOMAIN s => i \in Nat /\ i > Len(s) /\ i - Len(s) \in DOMAIN t
<1> DEFINE u == s \o t
<1>1. /\ u \in Seq(Nat) /\ Len(u) = Len(s) + Len(t)
      /\ \A i \in 1 .. Len(s) + Len(t) :
           u[i] = IF i <= Len(s) THEN s[i] ELSE t[i - Len(s)]
  BY ConcatProperties
<1> HIDE DEF u
<1>2. /\ Len(s) \in Nat /\ DOMAIN s = 1 .. Len(s)
      /\ Len(t) \in Nat /\ DOMAIN t = 1 .. Len(t)
      /\ DOMAIN u = 1 .. Len(s) + Len(t)
      /\ \A i \in DOMAIN s : s[i] \in Nat
      /\ \A i \in DOMAIN t : t[i] \in Nat
  BY <1>1, LenProperties, ElementOfSeq
<1>3. \A i \in DOMAIN s : i \in DOMAIN u /\ u[i] = s[i]
  BY <1>1, <1>2
<1>4. ASSUME NEW j \in DOMAIN t
      PROVE  Len(s) + j \in DOMAIN u /\ u[Len(s) + j] = t[j]
  <2>1. /\ Len(s) + j \in 1 .. Len(s) + Len(t)
        /\ ~(Len(s) + j <= Len(s)) /\ (Len(s) + j) - Len(s) = j
    BY <1>2
  <2>2. QED
    BY <1>1, <1>2, <2>1
<1>5. \A i \in DOMAIN u : i \notin DOMAIN s =>
        i \in Nat /\ i > Len(s) /\ i - Len(s) \in DOMAIN t
  BY <1>2
<1>6. QED
  BY <1>1, <1>2, <1>3, <1>4, <1>5 DEF u

\* What has its place in both parts has it in the whole.
LEMMA AfterConcat ==
  ASSUME NEW s \in Seq(Nat), NEW t \in Seq(Nat), NEW a \in Nat,
         After(s, a), After(t, a) \/ a \in Elems(s)
  PROVE  After(s \o t, a)
<1> DEFINE u == s \o t
           n == Len(s)
<1>1. /\ n \in Nat /\ DOMAIN s = 1 .. n /\ DOMAIN t = 1 .. Len(t)
      /\ \A i \in DOMAIN s : i \in DOMAIN u /\ u[i] = s[i]
      /\ \A j \in DOMAIN t : n + j \in DOMAIN u /\ u[n + j] = t[j]
      /\ \A i \in DOMAIN u : i \notin DOMAIN s => i \in Nat /\ i > n /\ i - n \in DOMAIN t
      /\ Len(t) \in Nat
  BY ConcatAt, LenProperties
<1> HIDE DEF u, n
<1> SUFFICES ASSUME NEW i \in DOMAIN u, u[i] > a
             PROVE  \E k \in 1 .. (i - 1) : u[k] = a
  BY DEF After, u
<1>2. CASE i \in DOMAIN s
  <2>1. PICK k \in 1 .. (i - 1) : s[k] = a
    BY <1>1, <1>2 DEF After
  <2>2. k \in DOMAIN s
    BY <1>1, <1>2, <2>1
  <2>3. QED
    BY <1>1, <2>1, <2>2
<1>3. CASE i \notin DOMAIN s /\ a \in Elems(s)
  <2>1. PICK k \in DOMAIN s : s[k] = a
    BY <1>3 DEF Elems
  <2>2. k \in 1 .. (i - 1)
    BY <1>1, <1>3, <2>1
  <2>3. QED
    BY <1>1, <2>1, <2>2
<1>4. CASE i \notin DOMAIN s /\ After(t, a)
  <2>1. /\ i \in Nat /\ i > n /\ i - n \in DOMAIN t /\ n + (i - n) = i
        /\ t[i - n] > a
    BY <1>1, <1>4
  <2>2. PICK k \in 1 .. ((i - n) - 1) : t[k] = a
    BY <1>4, <2>1 DEF After
  <2>3. k \in DOMAIN t /\ n + k \in 1 .. (i - 1)
    BY <1>1, <2>1, <2>2
  <2>4. QED
    BY <1>1, <2>2, <2>3
<1>5. QED
  BY <1>2, <1>3, <1>4

\* The blocks of t follow those of s.
LEMMA TidyConcat ==
  ASSUME NEW s \in Seq(Nat), NEW t \in Seq(Nat), Tidy(s), Tidy(t),
         \A a \in Elems(t) : After(s, a)
  PROVE  s \o t \in Seq(Nat) /\ Tidy(s \o t)
<1>1. /\ s \o t \in Seq(Nat) /\ Elems(s \o t) = Elems(s) \union Elems(t)
      /\ Elems(s) \subseteq Nat /\ Elems(t) \subseteq Nat
  <2>1. s \o t \in Seq(Nat) /\ Elems(s \o t) = Elems(s) \union Elems(t)
    BY ElemsConcat
  <2>2. (\A i \in DOMAIN s : s[i] \in Nat) /\ (\A i \in DOMAIN t : t[i] \in Nat)
    BY ConcatAt
  <2>3. Elems(s) \subseteq Nat /\ Elems(t) \subseteq Nat
    BY <2>2 DEF Elems
  <2>4. QED
    BY <2>1, <2>3
<1>2. \A a \in Elems(s) \union Elems(t) : After(s \o t, a)
  BY <1>1, AfterConcat DEF Tidy
<1>3. QED
  BY <1>1, <1>2 DEF Tidy

\* What is new comes last.
LEMMA AfterAll ==
  ASSUME NEW s \in Seq(Nat), NEW a \in Nat, \A b \in Elems(s) : b <= a
  PROVE  After(s, a)
<1>1. \A i \in DOMAIN s : s[i] \in Elems(s) /\ s[i] \in Nat
  BY ConcatAt DEF Elems
<1>2. QED
  BY <1>1 DEF After

LEMMA AfterFew ==
  /\ \A a : After(<< >>, a)
  /\ Tidy(<< >>)
  /\ \A b \in Nat : <<b>> \in Seq(Nat) /\ Elems(<<b>>) = {b} /\ Tidy(<<b>>)
<1>1. \A a : After(<< >>, a)
  BY DEF After
<1>2. Tidy(<< >>)
  BY <1>1 DEF Tidy
<1>3. ASSUME NEW b \in Nat
      PROVE  <<b>> \in Seq(Nat) /\ Elems(<<b>>) = {b} /\ Tidy(<<b>>)
  <2>1. <<b>> \in Seq(Nat) /\ Elems(<<b>>) = {b}
    BY DEF Elems
  <2>2. After(<<b>>, b)
    <3>1. \A c \in Elems(<<b>>) : c <= b
      BY <2>1
    <3>2. QED
      BY <2>1, <3>1, AfterAll
  <2>3. QED
    BY <2>1, <2>2 DEF Tidy
<1>4. QED
  BY <1>1, <1>2, <1>3
-----------------------------------------------------------------------------
(* Files in order.                                                          *)

\* Blocks that have their place are appended to p.
LEMMA AppendedOrder ==
  ASSUME NEW d, Indexed(d), Ordered(d), NEW p \in Names, NEW bs \in Seq(Nat),
         Tidy(bs),
         \A x \in DOMAIN d : (x = p \/ Before(x, p)) =>
           \A a \in Elems(bs) : After(d[x].data, a),
         \A y \in DOMAIN d : Before(p, y) =>
           \A a \in Elems(d[y].data) : After(bs, a)
  PROVE  Ordered(Appended(d, p, bs))
<1> DEFINE e == Appended(d, p, bs)
<1>1. CASE bs = << >> /\ p \in DOMAIN d
  BY <1>1 DEF Appended
<1>2. CASE ~(bs = << >> /\ p \in DOMAIN d)
  <2>1. /\ DOMAIN e = DOMAIN d \union {p}
        /\ \A q \in DOMAIN d : q # p => e[q] = d[q]
        /\ p \in DOMAIN d => e[p].data = d[p].data \o bs
        /\ p \notin DOMAIN d => e[p].data = bs
    BY <1>2 DEF Appended
  <2> HIDE DEF e
  <2>2. \A q \in DOMAIN d : d[q].data \in Seq(Nat)
    BY DEF Indexed
  <2>3. \A q \in DOMAIN d : Elems(d[q].data) \subseteq Nat
    BY <2>2, ConcatAt DEF Elems
  <2>4. Elems(bs) \subseteq Nat
    BY ConcatAt DEF Elems
  <2>5. ~Before(p, p)
    BY NameIs DEF Before
  <2>6. ASSUME NEW x \in DOMAIN e, NEW y \in DOMAIN e, x = y \/ Before(x, y),
               NEW a \in Elems(e[y].data)
        PROVE  After(e[x].data, a)
    <3>1. CASE x # p /\ y # p
      <4>1. x \in DOMAIN d /\ y \in DOMAIN d /\ e[x] = d[x] /\ e[y] = d[y]
        BY <2>1, <3>1
      <4>2. QED
        BY <2>6, <4>1 DEF Ordered
    <3>2. CASE x # p /\ y = p
      <4>1. x \in DOMAIN d /\ e[x] = d[x] /\ Before(x, p)
        BY <2>1, <2>6, <3>2
      <4>2. CASE a \in Elems(bs)
        BY <4>1, <4>2
      <4>3. CASE p \in DOMAIN d /\ a \in Elems(d[p].data)
        BY <4>1, <4>3 DEF Ordered
      <4>4. p \in DOMAIN d => Elems(e[p].data) = Elems(d[p].data) \union Elems(bs)
        BY <2>1, <2>2, ElemsConcat
      <4>5. QED
        BY <2>1, <3>2, <4>2, <4>3, <4>4
    <3>3. CASE x = p /\ y # p
      <4>1. y \in DOMAIN d /\ e[y] = d[y] /\ Before(p, y) /\ a \in Elems(d[y].data)
        BY <2>1, <2>6, <3>3
      <4>2. After(bs, a) /\ a \in Nat
        BY <2>3, <4>1
      <4>3. CASE p \in DOMAIN d
        <5>1. After(d[p].data, a)
          BY <4>1, <4>3 DEF Ordered
        <5>2. QED
          BY <2>1, <2>2, <3>3, <4>2, <4>3, <5>1, AfterConcat
      <4>4. CASE p \notin DOMAIN d
        BY <2>1, <3>3, <4>2, <4>4
      <4>5. QED
        BY <4>3, <4>4
    <3>4. CASE x = p /\ y = p
      <4>1. CASE p \notin DOMAIN d
        BY <2>1, <3>4, <4>1 DEF Tidy
      <4>2. CASE p \in DOMAIN d /\ a \in Elems(d[p].data)
        <5>1. After(d[p].data, a)
          BY <4>2 DEF Ordered
        <5>2. QED
          BY <2>1, <2>2, <2>3, <3>4, <4>2, <5>1, AfterConcat
      <4>3. CASE p \in DOMAIN d /\ a \in Elems(bs)
        <5>1. After(d[p].data, a) /\ After(bs, a)
          BY <4>3 DEF Tidy
        <5>2. QED
          BY <2>1, <2>2, <2>4, <3>4, <4>3, <5>1, AfterConcat
      <4>4. p \in DOMAIN d => Elems(e[p].data) = Elems(d[p].data) \union Elems(bs)
        BY <2>1, <2>2, ElemsConcat
      <4>5. QED
        BY <3>4, <4>1, <4>2, <4>3, <4>4
    <3>5. QED
      BY <3>1, <3>2, <3>3, <3>4
  <2>7. QED
    BY <2>6 DEF Ordered, e
<1>3. QED
  BY <1>1, <1>2

\* A file more, with nothing in it, and a file less.
LEMMA OpenedOrder ==
  ASSUME NEW d, Indexed(d), Ordered(d), NEW p \in Names
  PROVE  Ordered(Appended(d, p, << >>))
<1>1. << >> \in Seq(Nat) /\ Elems(<< >>) = {}
  BY ElemsOfFew
<1>2. QED
  BY <1>1, AfterFew, AppendedOrder

LEMMA RemovedOrder ==
  ASSUME NEW d, Ordered(d), NEW p
  PROVE  Ordered(Removed(d, p))
<1>1. DOMAIN Removed(d, p) = DOMAIN d \ {p}
      /\ \A q \in DOMAIN d \ {p} : Removed(d, p)[q] = d[q]
  BY DEF Removed
<1>2. QED
  BY <1>1 DEF Ordered

\* dst is where the reader comes to just before or just after src.
Beside(d, src, dst) ==
  \A x \in DOMAIN d :
    /\ x = dst \/ Before(x, dst) => x = src \/ Before(x, src)
    /\ Before(dst, x) => x = src \/ Before(src, x)

\* A copy beside the file that is copied.
LEMMA CopiedOrder ==
  ASSUME NEW d, Indexed(d), Ordered(d), NEW src \in DOMAIN d, NEW dst \in Names,
         Beside(d, src, dst)
  PROVE  Ordered(Appended(d, dst, d[src].data))
<1> DEFINE bs == d[src].data
<1>1. bs \in Seq(Nat)
  BY DEF Indexed
<1>2. Tidy(bs)
  BY DEF Ordered, Tidy
<1>3. \A x \in DOMAIN d : (x = dst \/ Before(x, dst)) =>
        \A a \in Elems(bs) : After(d[x].data, a)
  BY DEF Beside, Ordered
<1>4. \A y \in DOMAIN d : Before(dst, y) =>
        \A a \in Elems(d[y].data) : After(bs, a)
  BY DEF Beside, Ordered
<1> HIDE DEF bs
<1>5. Ordered(Appended(d, dst, bs))
  BY <1>1, <1>2, <1>3, <1>4, AppendedOrder
<1>6. QED
  BY <1>5 DEF bs

LEMMA SameIndexBeside ==
  ASSUME NEW d, DOMAIN d \subseteq Names, NEW src \in Names, NEW dst \in Names,
         src.dir = "cache", dst.dir = "log", dst.day = src.day, dst.idx = src.idx
  PROVE  Beside(d, src, dst)
<1> SUFFICES ASSUME NEW x \in Names
             PROVE  /\ x = dst \/ Before(x, dst) => x = src \/ Before(x, src)
                    /\ Before(dst, x) => x = src \/ Before(src, x)
  BY DEF Beside
<1>1. /\ x.dir \in {"log", "cache"} /\ x.idx \in Nat /\ src.idx \in Nat
      /\ x = At(x.dir, x.day, x.idx) /\ src = At(src.dir, src.day, src.idx)
  BY NameIs
<1>2. x = dst \/ Before(x, dst) => x = src \/ Before(x, src)
  BY <1>1 DEF Before
<1>3. x.dir = "cache" /\ x.day = src.day /\ x.idx = src.idx => x = src
  BY <1>1
<1>4. Before(dst, x) => x = src \/ Before(src, x)
  BY <1>1, <1>3 DEF Before
<1>5. QED
  BY <1>2, <1>4

\* src is of the last index, and dst of a new one.
LEMMA NewIndexBeside ==
  ASSUME NEW d, DOMAIN d \subseteq Names, NEW src \in Names, NEW dst \in Names,
         src.dir = "cache", dst.dir = "log", dst.day = src.day,
         dst.idx > src.idx, UpTo(d, src)
  PROVE  Beside(d, src, dst)
<1> SUFFICES ASSUME NEW x \in DOMAIN d
             PROVE  /\ x = dst \/ Before(x, dst) => x = src \/ Before(x, src)
                    /\ Before(dst, x) => x = src \/ Before(src, x)
  BY DEF Beside
<1>1. /\ x.dir \in {"log", "cache"} /\ x.idx \in Nat /\ src.idx \in Nat /\ dst.idx \in Nat
      /\ x = At(x.dir, x.day, x.idx) /\ src = At(src.dir, src.day, src.idx)
  BY NameIs
<1>2. x.day = src.day => x.idx <= src.idx
  BY DEF UpTo
<1>3. x.dir = "cache" /\ x.day = src.day /\ x.idx = src.idx => x = src
  BY <1>1
<1>4. x.day = src.day => x = src \/ Before(x, src)
  BY <1>1, <1>2, <1>3 DEF Before
<1>5. QED
  BY <1>1, <1>2, <1>4 DEF Before
-----------------------------------------------------------------------------
(* The next index.                                                          *)

\* __get_next_fileindex, whether or not files are split: the last index of
\* the day, or one more.
LEMMA NextIs ==
  ASSUME NEW d, Indexed(d), NEW day \in Nat,
         sg_max_file_size = 0 => \A p \in DOMAIN d : p.idx = 0
  PROVE  /\ NextIndex(d, day) \in Nat
         /\ sg_max_file_size = 0 => NextIndex(d, day) = 0
         /\ \A p \in DOMAIN d : p.day = day => p.idx <= NextIndex(d, day)
<1> DEFINE n == NextIndex(d, day)
<1>1. CASE Split
  BY <1>1, NextHasRoom DEF Split
<1>2. CASE ~Split
  <2>1. sg_max_file_size = 0
    BY <1>2, FilesAssumption DEF Split
  <2>2. n = 0
    BY <2>1 DEF NextIndex
  <2>3. QED
    BY <1>2, <2>1, <2>2 DEF Split
<1>3. QED
  BY <1>1, <1>2

\* It depends on the files of the day only.
LEMMA SameNext ==
  ASSUME NEW d, NEW e, NEW day,
         \A p : p.day = day => (p \in DOMAIN d <=> p \in DOMAIN e),
         \A p : p.day = day => Size(d, p) = Size(e, p)
  PROVE  NextIndex(d, day) = NextIndex(e, day)
<1>1. {q \in DOMAIN d : q.day = day} = {q \in DOMAIN e : q.day = day}
  OBVIOUS
<1>2. ASSUME NEW dir, NEW i
      PROVE  Size(d, [dir |-> dir, day |-> day, idx |-> i])
               = Size(e, [dir |-> dir, day |-> day, idx |-> i])
  OBVIOUS
<1>3. QED
  BY <1>1, <1>2 DEF NextIndex

\* Blocks are numbers.
LEMMA NatBlocks ==
  ASSUME NEW d, Indexed(d)
  PROVE  /\ BlocksOf(d) \subseteq Nat
         /\ \A p \in DOMAIN d : /\ d[p].data \in Seq(Nat)
                                /\ Elems(d[p].data) \subseteq Nat
                                /\ Elems(d[p].data) \subseteq BlocksOf(d)
<1>1. \A p \in DOMAIN d : d[p].data \in Seq(Nat)
  BY DEF Indexed
<1>2. \A p \in DOMAIN d : Elems(d[p].data) \subseteq Nat
  BY <1>1, ConcatAt DEF Elems
<1>3. QED
  BY <1>1, <1>2 DEF BlocksOf

\* Files that are only measured at their last index grow without a change of
\* the next one, when that has been passed.
LEMMA NextGrows ==
  ASSUME NEW d, Indexed(d), NEW p \in DOMAIN d, NEW bs \in Seq(Nat),
         UpTo(d, p), p.idx < NextIndex(d, p.day)
  PROVE  NextIndex(Appended(d, p, bs), p.day) = NextIndex(d, p.day)
<1> DEFINE e == Appended(d, p, bs)
           used == {q.idx : q \in {r \in DOMAIN d : r.day = p.day}}
           i == Max(used)
           day == p.day
<1>1. p \in Names /\ p.idx \in Nat /\ day \in Nat /\ sg_max_file_size \in Nat
  BY NameIs, FilesAssumption DEF Indexed
<1>2. Larger(d, p, Len(bs), e)
  BY <1>1, AppendedSizes
<1>3. Len(bs) \in Nat
  BY LenProperties
<1> HIDE DEF e
<1>4. /\ DOMAIN e = DOMAIN d
      /\ \A q : /\ Size(e, q) \in Nat /\ Size(d, q) \in Nat
                /\ Size(d, q) <= Size(e, q)
  <2>1. DOMAIN e = DOMAIN d \union {p} /\ Indexed(e)
    BY <1>2 DEF Larger
  <2>2. \A q : Size(e, q) \in Nat /\ Size(d, q) \in Nat
    BY <2>1, SizesNat
  <2>3. \A q : Size(d, q) <= Size(e, q)
    BY <1>2, <1>3, <2>2 DEF Larger
  <2>4. QED
    BY <2>1, <2>2, <2>3
<1>5. i = p.idx
  <2>1. used \subseteq Nat /\ p.idx \in used /\ \A x \in used : x <= p.idx
    BY <1>1, NameIs DEF Indexed, UpTo
  <2> HIDE DEF used
  <2>2. i \in used /\ \A x \in used : x <= i
    BY <1>1, <2>1, MaxIs
  <2> HIDE DEF i
  <2>3. i \in Nat /\ i <= p.idx /\ p.idx <= i
    BY <2>1, <2>2
  <2>4. QED
    BY <1>1, <2>3
<1>6. used # {} /\ used = {q.idx : q \in {r \in DOMAIN e : r.day = day}}
  BY <1>4
<1>7. NextIndex(d, day) = IF sg_max_file_size = 0 THEN 0
                          ELSE IF Together(d, day, i) > sg_max_file_size THEN i + 1 ELSE i
  BY <1>6 DEF NextIndex, Together, At
<1>8. NextIndex(e, day) = IF sg_max_file_size = 0 THEN 0
                          ELSE IF Together(e, day, i) > sg_max_file_size THEN i + 1 ELSE i
  <2> HIDE DEF i
  <2>1. i = Max({q.idx : q \in {r \in DOMAIN e : r.day = day}})
    BY <1>6 DEF i
  <2> HIDE DEF used
  <2>2. {q.idx : q \in {r \in DOMAIN e : r.day = day}} # {}
    BY <1>6
  <2>3. QED
    BY <2>1, <2>2 DEF NextIndex, Together, At
<1> HIDE DEF i, used
<1>9. /\ Together(d, day, i) \in Nat /\ Together(e, day, i) \in Nat
      /\ Together(d, day, i) <= Together(e, day, i)
  BY <1>4 DEF Together
<1>10. QED
  BY <1>1, <1>5, <1>7, <1>8, <1>9 DEF e
-----------------------------------------------------------------------------
(* What the steps make of the files and the buffer.                         *)

\* The buffer goes to a file that the reader comes to last.
LEMMA FlushPlace ==
  ASSUME NEW d, NEW s, NEW n, InPlace(d, s, n), clock \in Nat, Good(d, clock),
         NEW p \in DOMAIN d, \A y \in DOMAIN d : ~Before(p, y)
  PROVE  LET e == Appended(d, p, s)
         IN  /\ InPlace(e, << >>, n) /\ DOMAIN e = DOMAIN d
             /\ BlocksOf(e) = BlocksOf(d) \union Elems(s)
<1> DEFINE e == Appended(d, p, s)
<1> USE DEF InPlace
<1>1. p \in Names /\ s \in Seq(Nat) /\ Indexed(d)
  BY DEF Indexed
<1>2. BlocksOf(e) = BlocksOf(d) \union Elems(s)
  BY <1>1, AppendedBlocks
<1>3. Larger(d, p, Len(s), e)
  BY <1>1, AppendedSizes
<1>4. ASSUME NEW x \in DOMAIN d, NEW a \in Elems(s) PROVE After(d[x].data, a)
  <2>1. /\ d[x].data \in Seq(Nat) /\ Elems(d[x].data) \subseteq BlocksOf(d)
        /\ Elems(d[x].data) \subseteq Nat
    BY <1>1, NatBlocks
  <2>2. a \in Nat
    BY <1>1, ConcatAt DEF Elems
  <2>3. \A b \in Elems(d[x].data) : b < a
    BY <2>1
  <2>4. \A b \in Elems(d[x].data) : b <= a
    BY <2>1, <2>2, <2>3
  <2>5. QED
    BY <2>1, <2>2, <2>4, AfterAll
<1>5. Ordered(e)
  BY <1>1, <1>4, AppendedOrder
<1> HIDE DEF e
<1>6. Indexed(e) /\ DOMAIN e = DOMAIN d
  BY <1>3 DEF Larger
<1>7. << >> \in Seq(Nat) /\ Elems(<< >>) = {} /\ Tidy(<< >>)
  BY ElemsOfFew, AfterFew
<1>8. QED
  BY <1>2, <1>5, <1>6, <1>7 DEF e

\* A new block waits.
LEMMA QueuePlace ==
  ASSUME NEW d, NEW s, NEW n \in Nat, InPlace(d, s, n), NEW a \in Nat, a <= n,
         \A b \in BlocksOf(d) \union Elems(s) : b < a
  PROVE  InPlace(d, Append(s, a), n)
<1> USE DEF InPlace
<1>1. /\ Append(s, a) \in Seq(Nat) /\ Elems(Append(s, a)) = Elems(s) \union {a}
      /\ <<a>> \in Seq(Nat) /\ Elems(<<a>>) = {a} /\ Tidy(<<a>>)
      /\ Append(s, a) = s \o <<a>>
  BY ElemsOfFew, AfterFew, AppendIsConcat
<1>2. Elems(s) \subseteq Nat
  BY ConcatAt DEF Elems
<1>3. After(s, a)
  <2>1. \A b \in Elems(s) : b <= a
    BY <1>2
  <2>2. QED
    BY <2>1, AfterAll
<1>4. Tidy(s \o <<a>>)
  BY <1>1, <1>3, TidyConcat
<1>5. QED
  BY <1>1, <1>4

\* Less in the buffer, and a larger bound.
LEMMA EmptyPlace ==
  ASSUME NEW d, NEW s, NEW n \in Nat, InPlace(d, s, n)
  PROVE  InPlace(d, << >>, n) /\ InPlace(d, s, n + 1)
<1> USE DEF InPlace
<1>1. << >> \in Seq(Nat) /\ Elems(<< >>) = {} /\ Tidy(<< >>)
  BY ElemsOfFew, AfterFew
<1>2. Elems(s) \subseteq Nat /\ BlocksOf(d) \subseteq Nat
  BY ConcatAt, NatBlocks DEF Elems
<1>3. \A b \in BlocksOf(d) \union Elems(s) : b <= n + 1
  BY <1>2
<1>4. QED
  BY <1>1, <1>3

\* A file more, with nothing in it.
LEMMA OpenPlace ==
  ASSUME NEW d, NEW s, NEW n, InPlace(d, s, n), clock \in Nat, Good(d, clock),
         NEW p \in Names, sg_max_file_size = 0 => p.idx = 0
  PROVE  LET e == Appended(d, p, << >>)
         IN  InPlace(e, s, n) /\ DOMAIN e = DOMAIN d \union {p} /\ BlocksOf(e) = BlocksOf(d)
<1> DEFINE e == Appended(d, p, << >>)
<1> USE DEF InPlace
<1>1. << >> \in Seq(Nat) /\ Elems(<< >>) = {}
  BY ElemsOfFew
<1>2. BlocksOf(e) = BlocksOf(d)
  BY <1>1, AppendedBlocks
<1>3. Larger(d, p, Len(<< >>), e)
  BY <1>1, AppendedSizes
<1>4. Ordered(e)
  BY OpenedOrder
<1> HIDE DEF e
<1>5. Indexed(e) /\ DOMAIN e = DOMAIN d \union {p}
  BY <1>3 DEF Larger
<1>6. QED
  BY <1>2, <1>4, <1>5 DEF e

\* A file less.
LEMMA RemovePlace ==
  ASSUME NEW d, NEW s, NEW n, InPlace(d, s, n), NEW p
  PROVE  LET e == Removed(d, p)
         IN  InPlace(e, s, n) /\ BlocksOf(e) \subseteq BlocksOf(d)
<1> DEFINE e == Removed(d, p)
<1> USE DEF InPlace
<1>1. /\ DOMAIN e = DOMAIN d \ {p} /\ Indexed(e)
      /\ \A q \in DOMAIN d \ {p} : e[q] = d[q]
  BY RemovedSizes
<1>2. Ordered(e)
  BY RemovedOrder
<1> HIDE DEF e
<1>3. BlocksOf(e) \subseteq BlocksOf(d)
  BY <1>1 DEF BlocksOf
<1>4. QED
  BY <1>1, <1>2, <1>3 DEF e

\* A copy beside the file.
LEMMA CopyPlace ==
  ASSUME NEW d, NEW s, NEW n, InPlace(d, s, n), clock \in Nat, Good(d, clock),
         NEW src \in DOMAIN d, NEW dst \in Names, Beside(d, src, dst),
         sg_max_file_size = 0 => dst.idx = 0
  PROVE  LET e == Appended(d, dst, d[src].data)
         IN  InPlace(e, s, n) /\ DOMAIN e = DOMAIN d \union {dst} /\ BlocksOf(e) = BlocksOf(d)
<1> DEFINE bs == d[src].data
           e == Appended(d, dst, bs)
<1> USE DEF InPlace
<1>1. bs \in Seq(Nat) /\ Elems(bs) \subseteq BlocksOf(d)
  BY NatBlocks
<1>2. Ordered(e)
  BY CopiedOrder
<1> HIDE DEF bs
<1>3. BlocksOf(e) = BlocksOf(d)
  BY <1>1, AppendedBlocks
<1>4. Larger(d, dst, Len(bs), e)
  BY <1>1, AppendedSizes
<1> HIDE DEF e
<1>5. Indexed(e) /\ DOMAIN e = DOMAIN d \union {dst}
  BY <1>4 DEF Larger
<1>6. QED
  BY <1>2, <1>3, <1>5 DEF e, bs

-----------------------------------------------------------------------------
(* Steps keep the order.                                                    *)

\* What is known of times and days.
LEMMA TimesAre ==
  ASSUME Timed
  PROVE  /\ clock \in Nat /\ clock - 1 \in Nat /\ last.time \in Nat
         /\ last.time <= clock
         /\ blocks \in Nat /\ job.block \in Nat /\ job.time \in Nat
         /\ job.time <= clock /\ DOMAIN job = DOMAIN NoJob
         /\ pc \in InCall => clock <= job.time + 1 /\ job.path.dir = "cache"
         /\ \A p \in DOMAIN disk : p.day \in Nat /\ p.day <= Day(clock)
         /\ \A p \in mover.todo : p.dir = "cache"
         /\ sweep.victim # NoPath =>
              sweep.victim.day \in Nat /\ sweep.victim.day < Day(clock - 1)
         /\ Good(disk, clock)
<1>1. ASSUME NEW p \in DOMAIN disk PROVE p.day \in Nat /\ p.day <= Day(clock)
  <2>1. /\ p.day \in Nat /\ disk[p].at \in Nat /\ disk[p].at <= clock
        /\ p.day <= Day(disk[p].at) /\ clock \in Nat
    BY DEF Timed, Shape, Good, IsPath
  <2>2. /\ Day(disk[p].at) <= Day(clock)
        /\ Day(disk[p].at) \in Nat /\ Day(clock) \in Nat
    BY <2>1, DayMonotone, DayOf
  <2>3. QED
    BY <2>1, <2>2
<1>2. clock - 1 \in Nat
  BY DEF Timed, Shape
<1>3. QED
  BY <1>1, <1>2 DEF Timed, Shape, CallDated, Sweeping

\* A name for a line of the time t is of the last index.
LEMMA NameIsLast ==
  ASSUME NEW d, NEW s, NEW n, InPlace(d, s, n),
         NEW dir \in {"log", "cache"}, NEW t \in Nat
  PROVE  LET name == LogFileName(d, dir, t)
         IN  /\ name \in Names /\ name.dir = dir /\ name.day = Day(t)
             /\ name.idx = NextIndex(d, Day(t)) /\ name.idx \in Nat
             /\ sg_max_file_size = 0 => name.idx = 0
             /\ UpTo(d, name)
<1>1. /\ Day(t) \in Nat /\ Indexed(d)
      /\ sg_max_file_size = 0 => \A p \in DOMAIN d : p.idx = 0
  BY DayOf DEF InPlace
<1>2. /\ NextIndex(d, Day(t)) \in Nat
      /\ sg_max_file_size = 0 => NextIndex(d, Day(t)) = 0
      /\ \A p \in DOMAIN d : p.day = Day(t) => p.idx <= NextIndex(d, Day(t))
  BY <1>1, NextIs
<1>3. QED
  BY <1>1, <1>2 DEF LogFileName, Names, UpTo

\* The open file is one of those on disk.
LEMMA FileIs ==
  ASSUME Timed, OrderInv, Open, sg_logfile.linked
  PROVE  /\ sg_logfile.path \in DOMAIN disk /\ sg_logfile.path \in Names
         /\ sg_logfile.path.dir = sg_logfile.dir
         /\ sg_logfile.time \in Nat /\ sg_logfile.path.day = Day(sg_logfile.time)
BY DEF Timed, FileDated, OrderInv, InPlace, Indexed

\* A call begins: its block is new.
LEMMA BeginOrder ==
  ASSUME Timed, OrderInv,
         NEW move \in BOOLEAN, NEW roomy \in BOOLEAN, Log2File(move, roomy)
  PROVE  OrderInv'
<1> DEFINE path == LogFileName(disk, "cache", clock)
           logged == LogFileName(disk, "log", clock)
<1>1. /\ clock \in Nat /\ blocks \in Nat
      /\ \A p \in DOMAIN disk : p.day <= Day(clock)
  BY TimesAre
<1>2. InPlace(disk, buf, blocks)
  BY DEF OrderInv
<1>3. /\ path \in Names /\ path.day = Day(clock) /\ path.dir = "cache"
      /\ path.idx = NextIndex(disk, Day(clock)) /\ path.idx \in Nat
      /\ UpTo(disk, path)
      /\ logged \in Names /\ logged.day = Day(clock) /\ logged.dir = "log"
      /\ logged.idx = NextIndex(disk, Day(clock))
  BY <1>1, <1>2, NameIsLast
<1>4. /\ pc = "idle" /\ pc' \in {"openCache", "openLog"}
      /\ pc' = "openLog" => path \notin DOMAIN disk
      /\ pc' = "openCache" => path \in DOMAIN disk \/ logged \notin DOMAIN disk
      /\ blocks' = blocks + 1
      /\ job'.block = blocks' /\ job'.time = clock /\ job'.path = path
      /\ UNCHANGED <<disk, sg_mode, openFile>>
  BY DEF Log2File, NoJob
<1> HIDE DEF path, logged
<1>5. InPlace(disk', buf', blocks')
  <2>1. InPlace(disk, buf, blocks + 1)
    BY <1>1, <1>2, EmptyPlace
  <2>2. QED
    BY <1>4, <2>1 DEF openFile
<1>6. job'.block <= blocks' /\ \A b \in BlocksOf(disk) \union Elems(buf) : b < job'.block
  <2>1. BlocksOf(disk) \subseteq Nat /\ Elems(buf) \subseteq Nat
    BY <1>2, NatBlocks, ConcatAt DEF InPlace, Elems
  <2>2. \A b \in BlocksOf(disk) \union Elems(buf) : b <= blocks /\ b \in Nat
    BY <1>2, <2>1 DEF InPlace
  <2>3. QED
    BY <1>1, <1>4, <2>2
<1>7. LastOpen'
  BY <1>4 DEF OrderInv, LastOpen, Open, openFile
<1>8. NameFound'
  <2> SUFFICES ASSUME Open, sg_logfile.linked, sg_logfile.path.day = Day(clock),
                      sg_logfile.dir # (IF pc' = "openCache" THEN "cache" ELSE "log")
               PROVE  sg_logfile.path.idx < path.idx
    BY <1>1, <1>3, <1>4 DEF NameFound, Open, openFile
  <2> DEFINE file == sg_logfile.path
  <2>1. /\ file \in DOMAIN disk /\ file \in Names /\ file.dir = sg_logfile.dir
        /\ file.day = Day(clock)
    BY FileIs
  <2>2. \A q \in DOMAIN disk : q.day = file.day => q = file \/ Before(q, file)
    BY <1>4 DEF OrderInv, LastOpen
  <2> HIDE DEF file
  <2>3. file.idx \in Nat /\ file.idx <= path.idx /\ file = At(file.dir, file.day, file.idx)
        /\ file.dir \in {"log", "cache"}
        /\ path = At("cache", Day(clock), path.idx)
        /\ logged = At("log", Day(clock), path.idx)
    BY <1>3, <2>1, NameIs DEF UpTo
  <2>4. ASSUME file.idx = path.idx PROVE FALSE
    <3>1. CASE pc' = "openCache"
      <4>1. file = logged
        BY <2>1, <2>3, <2>4, <3>1
      <4>2. path \in DOMAIN disk
        BY <1>4, <2>1, <3>1, <4>1
      <4>3. path = file \/ Before(path, file)
        BY <1>3, <2>1, <2>2, <4>2
      <4>4. QED
        BY <1>3, <2>3, <2>4, <4>1, <4>3 DEF Before
    <3>2. CASE pc' = "openLog"
      <4>1. file = path
        BY <2>1, <2>3, <2>4, <3>2
      <4>2. QED
        BY <1>4, <2>1, <3>2, <4>1
    <3>3. QED
      BY <1>4, <3>1, <3>2
  <2>5. QED
    BY <1>3, <2>3, <2>4 DEF file
<1>9. UpTo(disk', job'.path)
  BY <1>3, <1>4 DEF UpTo
<1>10. QED
  BY <1>3, <1>4, <1>5, <1>6, <1>7, <1>8, <1>9 DEF OrderInv, openFile

\* What fclose makes of the files: the reader comes to the blocks of the buffer
\* last.
LEMMA FlushedPlace ==
  ASSUME Timed, OrderInv, ~(pc = "remove" /\ sg_logfile.path = job.path)
  PROVE  LET d == Flushed(disk)
         IN  /\ InPlace(d, << >>, blocks) /\ DOMAIN d = DOMAIN disk
             /\ BlocksOf(d) \subseteq BlocksOf(disk) \union Elems(buf)
<1>1. InPlace(disk, buf, blocks) /\ blocks \in Nat /\ clock \in Nat /\ Good(disk, clock)
  BY TimesAre DEF OrderInv
<1>2. CASE Open /\ sg_logfile.linked
  <2> DEFINE file == sg_logfile.path
  <2>1. file \in DOMAIN disk /\ file \in Names
    BY <1>2, FileIs
  <2>2. \A q \in DOMAIN disk : q.day = file.day => q = file \/ Before(q, file)
    BY <1>2 DEF OrderInv, LastOpen
  <2>3. Flushed(disk) = Appended(disk, file, buf)
    BY <1>2 DEF Flushed
  <2> HIDE DEF file
  <2>4. ASSUME NEW y \in DOMAIN disk, Before(file, y) PROVE FALSE
    <3>1. y = file \/ Before(y, file)
      BY <2>2, <2>4 DEF Before
    <3>2. y.idx \in Nat /\ file.idx \in Nat
      BY <1>1, <2>1, NameIs DEF InPlace, Indexed
    <3>3. QED
      BY <2>4, <3>1, <3>2 DEF Before
  <2>5. QED
    BY <1>1, <2>1, <2>3, <2>4, FlushPlace
<1>3. CASE ~(Open /\ sg_logfile.linked)
  <2>1. Flushed(disk) = disk
    BY <1>3 DEF Flushed
  <2>2. InPlace(disk, << >>, blocks)
    BY <1>1, EmptyPlace
  <2>3. QED
    BY <2>1, <2>2
<1>4. QED
  BY <1>2, <1>3

\* Closing the file that is open does not change the name that the call has
\* found, as long as it is still that day.
LEMMA NextStays ==
  ASSUME Timed, OrderInv, pc \in {"openCache", "openLog"},
         Day(clock) = Day(job.time),
         ~Reusable(IF pc = "openCache" THEN "cache" ELSE "log")
  PROVE  NextIndex(Flushed(disk), Day(job.time)) = NextIndex(disk, Day(job.time))
<1> DEFINE file == sg_logfile.path
           day == Day(job.time)
<1>1. CASE ~(Open /\ sg_logfile.linked)
  BY <1>1 DEF Flushed
<1>2. CASE Open /\ sg_logfile.linked
  <2>1. /\ file \in DOMAIN disk /\ file \in Names /\ file.dir = sg_logfile.dir
        /\ file.day = Day(sg_logfile.time)
    BY <1>2, FileIs
  <2>2. Flushed(disk) = Appended(disk, file, buf)
    BY <1>2 DEF Flushed
  <2>3. Indexed(disk) /\ buf \in Seq(Nat)
    BY DEF OrderInv, InPlace
  <2>4. job.path.idx = NextIndex(disk, day)
    BY DEF OrderInv, NameFound
  <2>5. CASE file.day # day
    <3>1. Larger(disk, file, Len(buf), Appended(disk, file, buf))
      BY <2>1, <2>3, AppendedSizes
    <3> DEFINE d == Appended(disk, file, buf)
    <3> HIDE DEF d, file, day
    <3>2. DOMAIN d = DOMAIN disk /\ \A q : q # file => Size(d, q) = Size(disk, q)
      BY <2>1, <3>1 DEF Larger, d
    <3>3. NextIndex(d, day) = NextIndex(disk, day)
      BY <2>5, <3>2, SameNext
    <3>4. QED
      BY <2>2, <3>3 DEF d, day
  <2>6. CASE file.day = day
    <3>1. sg_logfile.dir # (IF pc = "openCache" THEN "cache" ELSE "log")
      BY <1>2, <2>1, <2>6 DEF Reusable
    <3>2. file.idx < NextIndex(disk, day)
      BY <1>2, <2>4, <2>6, <3>1 DEF OrderInv, NameFound
    <3>3. \A q \in DOMAIN disk : q.day = file.day => q = file \/ Before(q, file)
      BY <1>2 DEF OrderInv, LastOpen
    <3> HIDE DEF file, day
    <3>4. UpTo(disk, file)
      <4> SUFFICES ASSUME NEW q \in DOMAIN disk, q.day = file.day
                   PROVE  q.idx <= file.idx
        BY DEF UpTo
      <4>1. q.idx \in Nat /\ file.idx \in Nat
        BY <2>1, <2>3, NameIs DEF Indexed
      <4>2. q = file \/ Before(q, file)
        BY <3>3
      <4>3. QED
        BY <4>1, <4>2 DEF Before
    <3>5. NextIndex(Appended(disk, file, buf), file.day) = NextIndex(disk, file.day)
      BY <2>1, <2>3, <2>6, <3>2, <3>4, NextGrows
    <3>6. QED
      BY <2>2, <2>6, <3>5 DEF day
  <2>7. QED
    BY <2>5, <2>6
<1>3. QED
  BY <1>1, <1>2

\* The file that a call opens is the last of its day.
LEMMA OpenOrder ==
  ASSUME Timed, OrderInv, faults \in Nat, faults' = faults,
         NEW dir \in {"log", "cache"},
         NEW from \in {"openCache", "openLog"}, NEW ok \in {"writeCache", "writeLog"},
         from = "openCache" => ok = "writeCache" /\ dir = "cache",
         from = "openLog" => ok = "writeLog" /\ dir = "log",
         NEW fail, OpenFile(from, dir, ok, fail)
  PROVE  OrderInv'
<1> DEFINE d == Flushed(disk)
           name == LogFileName(d, dir, clock)
<1>1. /\ pc = from /\ InPlace(disk, buf, blocks)
      /\ job.block <= blocks
      /\ \A b \in BlocksOf(disk) \union Elems(buf) : b < job.block
      /\ \A p \in DOMAIN disk : p.day <= Day(job.time)
      /\ job.path.idx = NextIndex(disk, Day(job.time))
      /\ pc = "openLog" => job.path \notin DOMAIN disk
      /\ job.path \in Names /\ job.path.day = Day(job.time)
      /\ pc = "openCache" => UpTo(disk, job.path)
      /\ UNCHANGED <<clock, sg_mode, job, blocks>>
  BY DEF OpenFile, OrderInv, NameFound, Coming, OfCache
<1>2. /\ clock \in Nat /\ last.time \in Nat /\ last.time <= clock
      /\ job.time \in Nat /\ job.time <= clock /\ job.path.dir = "cache"
      /\ blocks \in Nat
  BY <1>1, TimesAre DEF InCall
<1>3. CASE Reusable(dir) /\ pc' = ok /\ UNCHANGED <<disk, openFile, faults>>
  <2>1. Open /\ sg_logfile.dir = dir
    BY <1>3 DEF Reusable
  <2>2. /\ disk' = disk /\ sg_logfile' = sg_logfile /\ buf' = buf /\ (Open' <=> Open)
        /\ pc' \in Coming /\ pc' \in {"writeCache", "writeLog"}
        /\ pc' = "writeCache" => pc = "openCache"
    BY <1>1, <1>3 DEF openFile, Open, Coming
  <2>3. LastOpen'
    BY <1>1, <2>2 DEF OrderInv, LastOpen
  <2>4. pc' = "writeCache" => sg_logfile'.dir = "cache"
    BY <1>3, <2>1, <2>2
  <2>5. QED
    BY <1>1, <2>2, <2>3, <2>4 DEF OrderInv, NameFound, OfCache, UpTo
<1>4. CASE ~Reusable(dir)
  <2>1. /\ disk' = Appended(d, name, << >>) /\ pc' = ok
        /\ sg_logfile' = [path |-> name, dir |-> dir, time |-> clock, linked |-> TRUE]
        /\ buf' = << >>
    <3>1. ~(clock < last.time)
      BY <1>2
    <3>2. QED
      BY <1>4, <3>1 DEF OpenFile, Fault
  <2>2. /\ InPlace(d, << >>, blocks) /\ DOMAIN d = DOMAIN disk
        /\ BlocksOf(d) \subseteq BlocksOf(disk) \union Elems(buf)
        /\ Good(d, clock)
    BY <1>1, FlushedPlace, FlushedDated DEF Timed
  <2>3. /\ name \in Names /\ name.dir = dir /\ name.day = Day(clock)
        /\ name.idx = NextIndex(d, Day(clock)) /\ name.idx \in Nat
        /\ sg_max_file_size = 0 => name.idx = 0
        /\ UpTo(d, name)
    BY <1>2, <2>2, NameIsLast
  <2>4. Day(clock) = Day(job.time) => name.idx = job.path.idx
    <3>1. dir = (IF pc = "openCache" THEN "cache" ELSE "log")
      BY <1>1
    <3>2. Day(clock) = Day(job.time) =>
            NextIndex(d, Day(job.time)) = NextIndex(disk, Day(job.time))
      BY <1>1, <1>4, <3>1, NextStays
    <3>3. QED
      BY <1>1, <2>3, <3>2
  <2> HIDE DEF d, name
  <2>5. /\ InPlace(disk', << >>, blocks) /\ DOMAIN disk' = DOMAIN disk \union {name}
        /\ BlocksOf(disk') = BlocksOf(d)
    <3> DEFINE e == Appended(d, name, << >>)
    <3>1. InPlace(e, << >>, blocks) /\ DOMAIN e = DOMAIN d \union {name}
          /\ BlocksOf(e) = BlocksOf(d)
      BY <1>2, <2>2, <2>3, OpenPlace
    <3>2. disk' = e
      BY <2>1
    <3> HIDE DEF e
    <3>3. QED
      BY <2>2, <3>1, <3>2
  <2>6. Day(job.time) \in Nat /\ Day(clock) \in Nat /\ Day(job.time) <= Day(clock)
    BY <1>2, DayOf, DayMonotone
  <2>7. ASSUME NEW q \in DOMAIN disk, q.day = name.day, q # name
        PROVE  Before(q, name)
    <3>1. /\ q = At(q.dir, q.day, q.idx) /\ q.dir \in {"log", "cache"}
          /\ q.day \in Nat /\ q.idx \in Nat /\ q.idx <= name.idx
          /\ name = At(name.dir, name.day, name.idx)
      <4>1. q \in Names
        BY <1>1 DEF InPlace, Indexed
      <4>2. QED
        BY <2>2, <2>3, <2>7, <4>1, NameIs DEF UpTo
    <3>2. CASE from = "openCache"
      BY <2>3, <2>7, <3>1, <3>2 DEF Before
    <3>3. CASE from = "openLog"
      <4>1. name.day = Day(job.time)
        <5>1. q.day <= Day(job.time)
          BY <1>1
        <5>2. QED
          BY <2>3, <2>6, <2>7, <3>1, <5>1
      <4>2. job.path = At("cache", name.day, name.idx)
        BY <1>1, <1>2, <2>3, <2>4, <4>1, NameIs
      <4>3. q # job.path
        BY <1>1, <3>3
      <4>4. q.idx # name.idx
        BY <2>3, <2>7, <3>1, <3>3, <4>2, <4>3
      <4>5. QED
        BY <2>3, <2>7, <3>1, <4>4 DEF Before
    <3>4. QED
      BY <3>2, <3>3
  <2>8. ok = "writeCache" => UpTo(disk', job.path)
    <3> SUFFICES ASSUME ok = "writeCache", NEW q \in DOMAIN disk', q.day = Day(job.time)
                 PROVE  q.idx <= job.path.idx
      BY <1>1 DEF UpTo
    <3>1. CASE q \in DOMAIN disk
      BY <1>1, <3>1 DEF UpTo
    <3>2. CASE q = name
      BY <2>3, <2>4, <3>2
    <3>3. QED
      BY <2>5, <3>1, <3>2
  <2>9. LastOpen'
    BY <2>1, <2>5, <2>7 DEF LastOpen
  <2>10. Elems(<< >>) = {}
    BY ElemsOfFew
  <2>11. \A b \in BlocksOf(disk') \union Elems(buf') : b < job'.block
    BY <1>1, <2>1, <2>2, <2>5, <2>10
  <2>12. /\ pc' \in Coming /\ pc' \in {"writeCache", "writeLog"}
         /\ pc' = "writeCache" => sg_logfile'.dir = "cache" /\ UpTo(disk', job'.path)
    BY <1>1, <2>1, <2>8 DEF Coming
  <2>13. InPlace(disk', buf', blocks')
    BY <1>1, <2>1, <2>5
  <2>14. UpTo(disk', job'.path) <=> UpTo(disk, job.path)'
    OBVIOUS
  <2>15. QED
    BY <1>1, <2>9, <2>11, <2>12, <2>13 DEF OrderInv, NameFound, OfCache
<1>5. QED
  BY <1>3, <1>4 DEF OpenFile

\* The block goes behind all that there are.
LEMMA WriteOrder ==
  ASSUME Timed, OrderInv, faults \in Nat, faults' = faults,
         NEW from \in {"writeCache", "writeLog"}, NEW ok \in {"idle", "append"},
         ok = "append" => from = "writeCache",
         NEW fail, WriteFile(from, ok, fail)
  PROVE  OrderInv'
<1> DEFINE file == sg_logfile.path
           bs == Append(buf, job.block)
           e == Appended(disk, file, bs)
<1>1. /\ pc = from /\ InPlace(disk, buf, blocks)
      /\ job.block <= blocks
      /\ \A b \in BlocksOf(disk) \union Elems(buf) : b < job.block
      /\ pc = "writeCache" => /\ job.path \in Names /\ job.path.day = Day(job.time)
                              /\ UpTo(disk, job.path)
                              /\ Open => sg_logfile.dir = "cache"
  BY DEF WriteFile, OrderInv, Coming, OfCache
<1>2. /\ clock \in Nat /\ blocks \in Nat /\ job.block \in Nat /\ Good(disk, clock)
      /\ Open
  BY <1>1, TimesAre DEF Timed, CallDated, Writing
<1>3. /\ pc' = ok /\ UNCHANGED <<job, blocks>>
      /\ \/ /\ sg_logfile' = NoFile /\ buf' = << >>
            /\ disk' = IF sg_logfile.linked THEN e ELSE disk
         \/ /\ sg_logfile' = sg_logfile
            /\ \/ buf' = bs /\ disk' = disk
               \/ sg_logfile.linked /\ disk' = e /\ buf' = << >>
  BY <1>1 DEF WriteFile, WriteOk, WriteFails, Fault
<1>4. InPlace(disk, bs, blocks)
  BY <1>1, <1>2, QueuePlace
<1>5. sg_logfile.linked =>
        /\ file \in DOMAIN disk /\ file \in Names
        /\ \A q \in DOMAIN disk : q.day = file.day => q = file \/ Before(q, file)
  BY <1>1, <1>2, FileIs DEF OrderInv, LastOpen
<1> HIDE DEF bs
<1>6. sg_logfile.linked => InPlace(e, << >>, blocks) /\ DOMAIN e = DOMAIN disk
  <2> SUFFICES ASSUME sg_logfile.linked
               PROVE  InPlace(e, << >>, blocks) /\ DOMAIN e = DOMAIN disk
    OBVIOUS
  <2> HIDE DEF file
  <2>1. ASSUME NEW y \in DOMAIN disk, Before(file, y) PROVE FALSE
    <3>1. y = file \/ Before(y, file)
      BY <1>5, <2>1 DEF Before
    <3>2. y.idx \in Nat /\ file.idx \in Nat
      BY <1>1, <1>5, NameIs DEF InPlace, Indexed
    <3>3. QED
      BY <2>1, <3>1, <3>2 DEF Before
  <2>2. QED
    BY <1>2, <1>4, <1>5, <2>1, FlushPlace
<1> HIDE DEF e
<1>7. InPlace(disk, << >>, blocks)
  BY <1>1, <1>2, EmptyPlace
<1>8. /\ InPlace(disk', buf', blocks') /\ DOMAIN disk' = DOMAIN disk
      /\ sg_logfile' \in {sg_logfile, NoFile}
  BY <1>3, <1>4, <1>6, <1>7
<1>9. Open' => Open /\ sg_logfile' = sg_logfile
  BY <1>8 DEF Open
<1>10. LastOpen'
  BY <1>1, <1>8, <1>9 DEF OrderInv, LastOpen
<1>11. QED
  BY <1>1, <1>3, <1>8, <1>9, <1>10 DEF OrderInv, NameFound, Coming, OfCache, UpTo
\* A copy beside the file is made, or none.
LEMMA CopyOrder ==
  ASSUME Timed, OrderInv, faults \in Nat, faults' = faults,
         NEW src, NEW dst \in Names, src \in DOMAIN disk => Beside(disk, src, dst),
         sg_max_file_size = 0 => dst.idx = 0,
         NEW ok \in BOOLEAN, AppendFile(src, dst, ok)
  PROVE  /\ InPlace(disk', buf, blocks) /\ DOMAIN disk \subseteq DOMAIN disk'
         /\ \/ disk' = disk
            \/ /\ ok /\ src \in DOMAIN disk
               /\ disk' = Appended(disk, dst, disk[src].data)
               /\ DOMAIN disk' = DOMAIN disk \union {dst}
         /\ ok => src \in DOMAIN disk
<1>1. /\ InPlace(disk, buf, blocks)
      /\ clock \in Nat /\ Good(disk, clock)
  BY TimesAre DEF OrderInv
<1>2. \/ disk' = disk
      \/ ok /\ src \in DOMAIN disk /\ disk' = Appended(disk, dst, disk[src].data)
  BY DEF AppendFile, Fault
<1>3. CASE disk' = disk
  BY <1>1, <1>3 DEF AppendFile
<1>4. CASE ok /\ src \in DOMAIN disk /\ disk' = Appended(disk, dst, disk[src].data)
  <2> DEFINE e == Appended(disk, dst, disk[src].data)
  <2>1. InPlace(e, buf, blocks) /\ DOMAIN e = DOMAIN disk \union {dst}
    BY <1>1, <1>4, CopyPlace
  <2>2. QED
    BY <1>4, <2>1
<1>5. QED
  BY <1>2, <1>3, <1>4

\* A call moves its cached file over.
LEMMA AppendCachedOrder ==
  ASSUME Timed, OrderInv, faults \in Nat, faults' = faults, AppendCached
  PROVE  OrderInv'
<1> DEFINE dst == LogFileName(disk, "log", job.time)
           src == job.path
           file == sg_logfile.path
<1>1. /\ pc = "append" /\ InPlace(disk, buf, blocks)
      /\ src \in Names /\ src.day = Day(job.time) /\ UpTo(disk, src)
      /\ Open => sg_logfile.dir = "cache"
      /\ DOMAIN disk \subseteq Names
  BY DEF AppendCached, OrderInv, OfCache, InPlace, Indexed
<1>2. job.time \in Nat /\ src.dir = "cache"
  BY <1>1, TimesAre DEF InCall
<1>3. /\ dst \in Names /\ dst.dir = "log" /\ dst.day = Day(job.time)
      /\ dst.idx \in Nat /\ (sg_max_file_size = 0 => dst.idx = 0)
      /\ UpTo(disk, dst)
  BY <1>1, <1>2, NameIsLast
<1>4. PICK ok \in BOOLEAN : /\ AppendFile(src, dst, ok)
                            /\ pc' = IF ok THEN "remove" ELSE "idle"
  BY DEF AppendCached, src, dst
<1>5. UNCHANGED <<sg_logfile, buf, job, blocks>> /\ (Open' <=> Open)
  BY DEF AppendCached, openFile, Open
<1>6. Open /\ sg_logfile.linked =>
        /\ file \in DOMAIN disk /\ file.dir = "cache"
        /\ \A q \in DOMAIN disk : q.day = file.day => q = file \/ Before(q, file)
  BY <1>1, FileIs DEF OrderInv, LastOpen
<1> HIDE DEF dst
<1>7. src \in DOMAIN disk => Beside(disk, src, dst) /\ src.idx <= dst.idx
  <2> SUFFICES ASSUME src \in DOMAIN disk
               PROVE  Beside(disk, src, dst) /\ src.idx <= dst.idx
    OBVIOUS
  <2> HIDE DEF src
  <2>1. src.idx \in Nat /\ src.idx <= dst.idx
    BY <1>1, <1>3, NameIs DEF UpTo
  <2>2. CASE dst.idx = src.idx
    BY <1>1, <1>2, <1>3, <2>1, <2>2, SameIndexBeside
  <2>3. CASE dst.idx > src.idx
    BY <1>1, <1>2, <1>3, <2>1, <2>3, NewIndexBeside
  <2>4. QED
    BY <1>3, <2>1, <2>2, <2>3
<1>8. /\ InPlace(disk', buf, blocks)
      /\ \/ disk' = disk
         \/ /\ ok /\ src \in DOMAIN disk
            /\ disk' = Appended(disk, dst, disk[src].data)
            /\ DOMAIN disk' = DOMAIN disk \union {dst}
  BY <1>3, <1>4, <1>7, CopyOrder
<1>9. LastOpen'
  <2> SUFFICES ASSUME Open, sg_logfile.linked,
                      NEW q \in DOMAIN disk', q.day = file.day
               PROVE  \/ q = file \/ Before(q, file)
                      \/ /\ pc' = "remove" /\ file = src
                         /\ Elems(disk'[q].data) \subseteq Elems(disk'[file].data)
    BY <1>5 DEF LastOpen
  <2>1. CASE q \in DOMAIN disk
    BY <1>6, <2>1
  <2>2. CASE q \notin DOMAIN disk
    <3>1. /\ ok /\ src \in DOMAIN disk /\ q = dst
          /\ disk' = Appended(disk, dst, disk[src].data)
          /\ src.idx <= dst.idx
      BY <1>7, <1>8, <2>2
    <3>2. file = src
      <4>1. src = file \/ Before(src, file)
        BY <1>1, <1>3, <1>6, <3>1
      <4>2. file.idx <= src.idx
        BY <1>1, <1>3, <1>6, <3>1 DEF UpTo
      <4>3. file.idx \in Nat /\ src.idx \in Nat
        BY <1>1, <1>6, NameIs
      <4>4. QED
        BY <1>2, <4>1, <4>2, <4>3 DEF Before
    <3> HIDE DEF src, file
    <3>3. disk'[dst].data = disk[src].data /\ disk'[file] = disk[file]
      BY <1>6, <2>2, <3>1 DEF Appended
    <3>4. QED
      BY <1>4, <3>1, <3>2, <3>3
  <2>3. QED
    BY <2>1, <2>2
<1>10. pc' \in {"remove", "idle"}
  BY <1>4
<1>11. QED
  BY <1>5, <1>8, <1>9, <1>10 DEF OrderInv, NameFound, Coming, OfCache

\* What Unlink leaves of the file that is open.
LEMMA UnlinkIs ==
  ASSUME Timed, NEW p, Unlink(p), Open', sg_logfile'.linked
  PROVE  Open /\ sg_logfile' = sg_logfile /\ sg_logfile.path # p
<1>1. DOMAIN sg_logfile = DOMAIN NoFile
  BY DEF Timed, FileDated
<1>2. ~(Open /\ sg_logfile.path = p)
  BY <1>1 DEF Unlink, NoFile
<1>3. QED
  BY <1>2 DEF Unlink, Open

\* A file loses its name: those that are behind it stay there.
LEMMA LastLeft ==
  ASSUME Timed, OrderInv, NEW p, Unlink(p), disk' = Removed(disk, p),
         \/ pc' = pc /\ job' = job
         \/ p = job.path
  PROVE  LastOpen'
<1> SUFFICES ASSUME Open', sg_logfile'.linked,
                    NEW q \in DOMAIN disk', q.day = sg_logfile'.path.day
             PROVE  \/ q = sg_logfile'.path \/ Before(q, sg_logfile'.path)
                    \/ /\ pc' = "remove" /\ sg_logfile'.path = job'.path
                       /\ Elems(disk'[q].data) \subseteq Elems(disk'[sg_logfile'.path].data)
  BY DEF LastOpen
<1>1. Open /\ sg_logfile' = sg_logfile /\ sg_logfile.path # p
  BY UnlinkIs
<1>2. sg_logfile.path \in DOMAIN disk
  BY <1>1, FileIs
<1>3. /\ q \in DOMAIN disk /\ disk'[q] = disk[q]
      /\ disk'[sg_logfile.path] = disk[sg_logfile.path]
  BY <1>1, <1>2 DEF Removed
<1>4. \/ q = sg_logfile.path \/ Before(q, sg_logfile.path)
      \/ /\ pc = "remove" /\ sg_logfile.path = job.path
         /\ Elems(disk[q].data) \subseteq Elems(disk[sg_logfile.path].data)
  BY <1>1, <1>3 DEF OrderInv, LastOpen
<1>5. QED
  BY <1>1, <1>3, <1>4

\* The moved file goes.
LEMMA RemoveOrder ==
  ASSUME Timed, OrderInv, RemoveCached \/ MoverRemove
  PROVE  OrderInv'
<1> DEFINE e == Removed(disk, job.path)
<1>1. /\ pc \in Removing /\ pc' \in {"idle", "mover"} /\ UNCHANGED blocks
      /\ \/ disk' = e /\ Unlink(job.path) /\ buf' = buf
         \/ /\ pc = "remove" /\ disk' = Removed(Flushed(disk), job.path)
            /\ sg_logfile' = NoFile /\ buf' = << >>
  BY DEF RemoveCached, MoverRemove, Removing, bounds
<1>2. InPlace(disk, buf, blocks) /\ blocks \in Nat
  BY TimesAre DEF OrderInv
<1>3. CASE disk' = e /\ Unlink(job.path) /\ buf' = buf
  <2>1. InPlace(e, buf, blocks)
    BY <1>2, RemovePlace
  <2>2. LastOpen'
    BY <1>3, LastLeft
  <2> HIDE DEF e
  <2>3. QED
    BY <1>1, <1>3, <2>1, <2>2 DEF OrderInv, NameFound, Coming, OfCache
<1>4. CASE /\ disk' = Removed(Flushed(disk), job.path)
           /\ sg_logfile' = NoFile /\ buf' = << >>
  <2>1. InPlace(disk', << >>, blocks)
    <3>1. CASE sg_logfile.path = job.path
      <4>1. disk' = e
        <5>1. CASE Open /\ sg_logfile.linked
          <6>1. disk' = Removed(Appended(disk, job.path, buf), job.path)
            BY <1>4, <3>1, <5>1 DEF Flushed
          <6>2. job.path \in DOMAIN disk
            BY <3>1, <5>1, FileIs
          <6>3. QED
            BY <6>1, <6>2 DEF Removed, Appended
        <5>2. CASE ~(Open /\ sg_logfile.linked)
          BY <1>4, <5>2 DEF Flushed
        <5>3. QED
          BY <5>1, <5>2
      <4>2. InPlace(disk, << >>, blocks)
        BY <1>2, EmptyPlace
      <4>3. InPlace(e, << >>, blocks)
        BY <4>2, RemovePlace
      <4>4. QED
        BY <4>1, <4>3
    <3>2. CASE sg_logfile.path # job.path
      <4>1. InPlace(Flushed(disk), << >>, blocks)
        BY <3>2, FlushedPlace
      <4> DEFINE d == Flushed(disk)
      <4> HIDE DEF d
      <4>2. InPlace(Removed(d, job.path), << >>, blocks)
        BY <4>1, RemovePlace DEF d
      <4>3. QED
        BY <1>4, <4>2 DEF d
    <3>3. QED
      BY <3>1, <3>2
  <2>2. ~Open'
    BY <1>4 DEF Open
  <2>3. QED
    BY <1>1, <1>4, <2>1, <2>2 DEF OrderInv, LastOpen, NameFound, Coming, OfCache
<1>5. QED
  BY <1>1, <1>3, <1>4

\* __move_old_files.
LEMMA MoverOrder ==
  ASSUME Timed, OrderInv, faults \in Nat, faults' = faults, Mover
  PROVE  OrderInv'
<1>1. CASE MoverStart \/ MoverEnd
  <2>1. /\ pc' \in {"mover", "idle"} /\ pc \in {"mover", "idle"}
        /\ UNCHANGED <<disk, sg_logfile, buf, blocks>> /\ (Open' <=> Open)
    BY <1>1 DEF MoverStart, MoverEnd, openFile, Open, bounds
  <2>2. LastOpen'
    BY <2>1 DEF OrderInv, LastOpen
  <2>3. QED
    BY <2>1, <2>2 DEF OrderInv, NameFound, Coming, OfCache
<1>2. CASE MoverRemove
  BY <1>2, RemoveOrder
<1>3. ASSUME NEW p \in mover.todo, MoverNext(p) PROVE OrderInv'
  <2> DEFINE dst == [p EXCEPT !.dir = "log"]
             file == sg_logfile.path
  <2>1. /\ pc = "mover" /\ InPlace(disk, buf, blocks)
        /\ p \in DOMAIN disk /\ p \in Names /\ p.dir = "cache"
        /\ DOMAIN disk \subseteq Names
        /\ sg_max_file_size = 0 => p.idx = 0
    BY <1>3, TimesAre DEF MoverNext, OrderInv, InPlace, Indexed
  <2>2. dst \in Names /\ dst.dir = "log" /\ dst.day = p.day /\ dst.idx = p.idx
    BY <2>1 DEF Names
  <2>3. /\ pc' \in {"mover", "moverRemove", "idle"}
        /\ UNCHANGED <<sg_logfile, buf, blocks>> /\ (Open' <=> Open)
        /\ \/ disk' = disk
           \/ \E ok \in BOOLEAN : AppendFile(p, dst, ok)
    BY <1>3, <2>1 DEF MoverNext, openFile, Open
  <2> HIDE DEF dst
  <2>4. Beside(disk, p, dst)
    BY <2>1, <2>2, SameIndexBeside
  <2>5. /\ InPlace(disk', buf, blocks)
        /\ disk' = disk \/ DOMAIN disk' = DOMAIN disk \union {dst}
    <3>1. CASE disk' = disk
      BY <2>1, <3>1
    <3>2. ASSUME NEW ok \in BOOLEAN, AppendFile(p, dst, ok)
          PROVE  /\ InPlace(disk', buf, blocks)
                 /\ disk' = disk \/ DOMAIN disk' = DOMAIN disk \union {dst}
      BY <2>1, <2>2, <2>4, <3>2, CopyOrder
    <3>3. QED
      BY <2>3, <3>1, <3>2
  <2>6. LastOpen'
    <3> SUFFICES ASSUME Open, sg_logfile.linked,
                        NEW q \in DOMAIN disk', q.day = file.day
                 PROVE  q = file \/ Before(q, file)
      BY <2>3 DEF LastOpen
    <3>1. /\ file \in DOMAIN disk /\ file \in Names
          /\ \A x \in DOMAIN disk : x.day = file.day => x = file \/ Before(x, file)
      BY <2>1, FileIs DEF OrderInv, LastOpen
    <3> HIDE DEF file
    <3>2. CASE q \in DOMAIN disk
      BY <3>1, <3>2
    <3>3. CASE q = dst
      <4>1. p = file \/ Before(p, file)
        BY <2>1, <2>2, <3>1, <3>3
      <4>2. QED
        BY <2>1, <2>2, <3>3, <4>1 DEF Before
    <3>4. QED
      BY <2>5, <3>2, <3>3
  <2>7. QED
    BY <2>3, <2>5, <2>6 DEF OrderInv, NameFound, Coming, OfCache
<1>4. QED
  BY <1>1, <1>2, <1>3 DEF Mover

\* A file of a day that is over is deleted.
LEMMA SweepOrder ==
  ASSUME Timed, OrderInv, SweepRemove
  PROVE  OrderInv'
<1> DEFINE v == sweep.victim
<1>1. /\ disk' = Removed(disk, v) /\ Unlink(v)
      /\ UNCHANGED <<buf, pc, job, blocks>>
  BY DEF SweepRemove, bounds, call
<1>2. /\ v.day \in Nat /\ v.day < Day(clock - 1)
      /\ clock \in Nat /\ clock - 1 \in Nat /\ job.time \in Nat
      /\ pc \in InCall => clock <= job.time + 1
  BY TimesAre DEF SweepRemove
<1>3. pc \in InCall => v.day # Day(job.time)
  <2> SUFFICES ASSUME pc \in InCall PROVE v.day # Day(job.time)
    OBVIOUS
  <2>1. clock - 1 <= job.time
    BY <1>2
  <2>2. /\ Day(clock - 1) <= Day(job.time)
        /\ Day(clock - 1) \in Nat /\ Day(job.time) \in Nat
    BY <1>2, <2>1, DayMonotone, DayOf
  <2>3. QED
    BY <1>2, <2>2
<1> HIDE DEF v
<1>4. InPlace(disk, buf, blocks) /\ Indexed(disk)
  BY DEF OrderInv, InPlace
<1>5. /\ DOMAIN disk' = DOMAIN disk \ {v}
      /\ \A q : Size(disk', q) = IF q = v THEN 0 ELSE Size(disk, q)
  BY <1>1, <1>4, RemovedSizes
<1>6. InPlace(disk', buf', blocks') /\ BlocksOf(disk') \subseteq BlocksOf(disk)
  <2> DEFINE e == Removed(disk, v)
  <2>1. InPlace(e, buf, blocks) /\ BlocksOf(e) \subseteq BlocksOf(disk)
    BY <1>4, RemovePlace
  <2>2. disk' = e
    BY <1>1
  <2> HIDE DEF e
  <2>3. QED
    BY <1>1, <2>1, <2>2
<1>7. pc \in InCall =>
        NextIndex(disk', Day(job.time)) = NextIndex(disk, Day(job.time))
  <2> SUFFICES ASSUME pc \in InCall
               PROVE  NextIndex(disk', Day(job.time)) = NextIndex(disk, Day(job.time))
    OBVIOUS
  <2>1. /\ \A p : p.day = Day(job.time) => (p \in DOMAIN disk' <=> p \in DOMAIN disk)
        /\ \A p : p.day = Day(job.time) => Size(disk', p) = Size(disk, p)
    BY <1>3, <1>5
  <2>2. QED
    BY <2>1, SameNext
<1>8. LastOpen'
  BY <1>1, LastLeft
<1>9. Open' /\ sg_logfile'.linked => Open /\ sg_logfile' = sg_logfile
  BY <1>1, UnlinkIs
<1>10. Open' => Open /\ sg_logfile'.dir = sg_logfile.dir
  <2>1. DOMAIN sg_logfile = DOMAIN NoFile
    BY DEF Timed, FileDated
  <2>2. QED
    BY <1>1, <2>1 DEF Unlink, Open, NoFile
<1>11. NameFound'
  <2> SUFFICES ASSUME pc \in {"openCache", "openLog"} PROVE NameFound'
    BY <1>1 DEF NameFound
  <2>1. /\ \A p \in DOMAIN disk : p.day <= Day(job.time)
        /\ job.path.idx = NextIndex(disk, Day(job.time))
        /\ /\ Open /\ sg_logfile.linked /\ sg_logfile.path.day = Day(job.time)
           /\ sg_logfile.dir # (IF pc = "openCache" THEN "cache" ELSE "log")
           => sg_logfile.path.idx < job.path.idx
    BY DEF OrderInv, NameFound
  <2>2. NextIndex(disk', Day(job.time)) = NextIndex(disk, Day(job.time))
    BY <1>7 DEF InCall
  <2>3. QED
    BY <1>1, <1>5, <1>9, <2>1, <2>2 DEF NameFound
<1>12. pc' \in Coming =>
         job'.block <= blocks' /\ \A b \in BlocksOf(disk') \union Elems(buf') : b < job'.block
  BY <1>1, <1>6 DEF OrderInv
<1>13. \A p : UpTo(disk, p) => UpTo(disk', p)
  BY <1>5 DEF UpTo
<1>14. QED
  BY <1>1, <1>5, <1>6, <1>8, <1>10, <1>11, <1>12, <1>13 DEF OrderInv

\* The steps that leave the files and the call alone.
LEMMA StillOrder ==
  ASSUME OrderInv, UNCHANGED <<disk, openFile, call, blocks>>
  PROVE  OrderInv'
<1>1. NameFound' /\ LastOpen'
  BY DEF OrderInv, NameFound, LastOpen, Open, openFile, call
<1>2. QED
  BY <1>1 DEF OrderInv, Open, UpTo, openFile, call

\* The file is closed, or what is in its buffer is lost.
LEMMA EndOrder ==
  ASSUME Timed, OrderInv, Close \/ Crash
  PROVE  OrderInv'
<1>1. /\ sg_logfile' = NoFile /\ buf' = << >> /\ pc' = "idle" /\ blocks' = blocks
      /\ disk' = disk \/ (pc = "idle" /\ disk' = Flushed(disk))
  BY DEF Close, CloseFile, Crash, call, bounds
<1>2. blocks \in Nat /\ InPlace(disk, buf, blocks)
  BY TimesAre DEF OrderInv
<1>3. InPlace(disk', << >>, blocks)
  <2>1. CASE disk' = disk
    BY <1>2, <2>1, EmptyPlace
  <2>2. CASE pc = "idle" /\ disk' = Flushed(disk)
    <3>1. InPlace(Flushed(disk), << >>, blocks)
      BY <2>2, FlushedPlace
    <3>2. QED
      BY <2>2, <3>1
  <2>3. QED
    BY <1>1, <2>1, <2>2
<1>4. ~Open'
  BY <1>1 DEF Open
<1>5. QED
  BY <1>1, <1>3, <1>4 DEF OrderInv, LastOpen, NameFound, Coming, OfCache

\* The invariant, until an operation fails.
FaultlessInv == Timed /\ faults \in Nat /\ (faults = 0 => OrderInv)

LEMMA OrderAtStart == Init => FaultlessInv
<1> SUFFICES ASSUME Init PROVE FaultlessInv
  OBVIOUS
<1>1. /\ DOMAIN disk = {} /\ ~Open /\ buf = << >> /\ pc = "idle"
      /\ faults = 0 /\ blocks = 0
  BY DEF Init, Open
<1>2. << >> \in Seq(Nat) /\ Elems(<< >>) = {} /\ Tidy(<< >>)
  BY ElemsOfFew, AfterFew
<1>3. InPlace(disk, buf, blocks)
  BY <1>1, <1>2 DEF InPlace, Indexed, Ordered, BlocksOf
<1>4. OrderInv
  BY <1>1, <1>3 DEF OrderInv, LastOpen, NameFound, Coming, OfCache
<1>5. QED
  BY <1>1, <1>4, TimedInit DEF FaultlessInv

\* Every step in which nothing fails keeps the order.
LEMMA OrderStep ==
  ASSUME NeverBack, Timed, OrderInv, [Next]_vars, faults \in Nat, faults' = faults
  PROVE  OrderInv'
<1>0. /\ "log" \in {"log", "cache"} /\ "cache" \in {"log", "cache"}
      /\ pc \notin {"closeLog", "openFallback", "writeFallback"}
  BY DEF OrderInv
<1>1. CASE UNCHANGED vars
  BY <1>1, StillOrder DEF vars, bounds
<1>2. CASE \E move, roomy \in BOOLEAN : Log2File(move, roomy)
  BY <1>2, BeginOrder
<1>3. CASE Log2FileStep
  <2>1. CASE OpenFile("openCache", "cache", "writeCache", "openLog")
    BY <2>1, OpenOrder
  <2>2. CASE WriteFile("writeCache", AfterCache, AfterCache)
    <3>1. AfterCache \in {"idle", "append"}
      BY DEF AfterCache
    <3>2. QED
      BY <2>2, <3>1, WriteOrder
  <2>3. CASE AppendCached
    BY <2>3, AppendCachedOrder
  <2>4. CASE RemoveCached
    BY <2>4, RemoveOrder
  <2>5. CASE OpenFile("openLog", "log", "writeLog",
                      IF UseCache THEN "openFallback" ELSE "idle")
    <3> DEFINE fail == IF UseCache THEN "openFallback" ELSE "idle"
    <3>1. OpenFile("openLog", "log", "writeLog", fail)
      BY <2>5
    <3> HIDE DEF fail
    <3>2. QED
      BY <3>1, OpenOrder
  <2>6. CASE WriteFile("writeLog", "idle", AfterLog)
    BY <2>6, WriteOrder
  <2>7. CASE \/ CloseLog
             \/ OpenFile("openFallback", "cache", "writeFallback", "idle")
             \/ WriteFile("writeFallback", "idle", "idle")
    BY <1>0, <2>7 DEF CloseLog, OpenFile, WriteFile
  <2>8. QED
    BY <1>3, <2>1, <2>2, <2>3, <2>4, <2>5, <2>6, <2>7 DEF Log2FileStep
<1>4. CASE Mover
  BY <1>4, MoverOrder
<1>5. CASE Sweep
  <2>1. CASE SweepRemove
    BY <2>1, SweepOrder
  <2>2. CASE (\E dir \in Dirs : SweepStart(dir)) \/ (\E p \in sweep.todo : SweepCheck(p))
    BY <2>2, StillOrder DEF SweepStart, SweepCheck, bounds
  <2>3. QED
    BY <1>5, <2>1, <2>2 DEF Sweep
<1>6. CASE Tick \/ SetBack \/ ReleaseDir \/ \E mode \in Modes : SetMode(mode)
  BY <1>6, StillOrder DEF Tick, SetBack, ReleaseDir, SetMode, bounds
<1>7. CASE Close \/ Crash
  BY <1>7, EndOrder
<1>8. QED
  BY <1>1, <1>2, <1>3, <1>4, <1>5, <1>6, <1>7 DEF Next, Step

\* The number of failures does not go down.
LEMMA FaultsCount ==
  ASSUME faults \in Nat, [Next]_vars
  PROVE  faults' \in {faults, faults + 1}
<1>1. CASE UNCHANGED vars
  BY <1>1 DEF vars, bounds
<1>2. CASE Log2FileStep
  BY <1>2 DEF Log2FileStep, OpenFile, WriteFile, WriteOk, WriteFails, AppendCached,
       AppendFile, RemoveCached, CloseLog, Fault, bounds
<1>3. CASE Mover
  BY <1>3 DEF Mover, MoverStart, MoverNext, MoverRemove, MoverEnd, AppendFile, Fault,
       bounds
<1>4. CASE Sweep
  BY <1>4 DEF Sweep, SweepStart, SweepCheck, SweepRemove, bounds
<1>5. CASE \/ \E move, roomy \in BOOLEAN : Log2File(move, roomy)
           \/ Tick \/ SetBack \/ ReleaseDir \/ Close \/ Crash
           \/ \E mode \in Modes : SetMode(mode)
  BY <1>5 DEF Log2File, Tick, SetBack, ReleaseDir, SetMode, Close, Crash, bounds
<1>6. QED
  BY <1>1, <1>2, <1>3, <1>4, <1>5 DEF Next, Step

LEMMA FaultlessStep ==
  ASSUME NeverBack, FaultlessInv, [Next]_vars
  PROVE  FaultlessInv'
<1>1. Timed'
  BY TimedStep DEF FaultlessInv
<1>2. faults' \in Nat /\ (faults' = 0 => faults = 0)
  BY FaultsCount DEF FaultlessInv
<1>3. ASSUME faults' = 0 PROVE OrderInv'
  BY <1>2, <1>3, OrderStep DEF FaultlessInv
<1>4. QED
  BY <1>1, <1>2, <1>3 DEF FaultlessInv
-----------------------------------------------------------------------------
(* What the reader of a day sees.                                           *)

\* f reads the parts at[0], ..., at[n] one after the other.
Reads(f, at, n) ==
  /\ f = [i \in 0 .. n |-> f[i]]
  /\ f[0] = at[0]
  /\ \A i \in 1 .. n : f[i] = f[i - 1] \o at[i]

\* There is such a function: the recursive definition has a value.
LEMMA ReadsExists ==
  ASSUME NEW at, NEW n \in Nat
  PROVE  \E f : Reads(f, at, n)
<1> DEFINE T == {m \in Nat : ~ \E f : Reads(f, at, m)}
<1> SUFFICES ASSUME T # {} PROVE FALSE
  OBVIOUS
<1>1. PICK m \in T : \A k \in T : m <= k
  BY Least
<1>2. m # 0
  <2> DEFINE g == [i \in 0 .. 0 |-> at[0]]
  <2>1. Reads(g, at, 0)
    BY DEF Reads
  <2>2. QED
    BY <2>1
<1>3. m - 1 \in Nat /\ m \in Nat
  BY <1>2
<1>4. m - 1 \notin T
  BY <1>1, <1>3
<1>5. PICK f : Reads(f, at, m - 1)
  BY <1>3, <1>4
<1> DEFINE g == [i \in 0 .. m |-> IF i = m THEN f[m - 1] \o at[m] ELSE f[i]]
<1>6. Reads(g, at, m)
  <2>1. g = [i \in 0 .. m |-> g[i]] /\ g[0] = at[0]
    BY <1>2, <1>3, <1>5 DEF Reads
  <2>2. ASSUME NEW i \in 1 .. m PROVE g[i] = g[i - 1] \o at[i]
    <3>1. CASE i = m
      <4>1. g[m] = f[m - 1] \o at[m]
        <5>1. m \in 0 .. m
          BY <1>3
        <5> HIDE <1>1
        <5>2. QED
          BY <5>1, Zenon
      <4>2. g[m - 1] = f[m - 1]
        BY <1>2, <1>3
      <4>3. QED
        BY <3>1, <4>1, <4>2
    <3>2. CASE i # m
      <4>1. i \in 1 .. (m - 1) /\ i \in 0 .. m /\ i - 1 \in 0 .. m /\ i - 1 # m
        BY <1>3, <3>2
      <4>2. f[i] = f[i - 1] \o at[i]
        BY <1>5, <4>1 DEF Reads
      <4>3. QED
        BY <3>2, <4>1, <4>2
    <3>3. QED
      BY <3>1, <3>2
  <2>3. QED
    BY <2>1, <2>2 DEF Reads
<1>7. QED
  BY <1>1, <1>6

\* The parts follow one another.
Parts(at, n) ==
  /\ \A i \in 0 .. n : at[i] \in Seq(Nat) /\ Tidy(at[i])
  /\ \A i, j \in 0 .. n : i < j => \A a \in Elems(at[j]) : After(at[i], a)

\* What has been read up to i: it is in order, and what has its place in every
\* part has it there.
ReadUpTo(f, at, i) ==
  /\ f[i] \in Seq(Nat) /\ Tidy(f[i])
  /\ \A a \in Nat : (\A k \in 0 .. i : After(at[k], a)) => After(f[i], a)

LEMMA ReadsTidy ==
  ASSUME NEW at, NEW n \in Nat, NEW f, Parts(at, n), Reads(f, at, n)
  PROVE  f[n] \in Seq(Nat) /\ Tidy(f[n])
<1> DEFINE T == {m \in 0 .. n : ~ReadUpTo(f, at, m)}
<1>1. T = {}
  <2> SUFFICES ASSUME T # {} PROVE FALSE
    OBVIOUS
  <2>1. PICK m \in T : \A k \in T : m <= k
    <3>1. T \subseteq Nat
      OBVIOUS
    <3>2. QED
      BY <3>1, Least
  <2>2. m \in 0 .. n /\ ~ReadUpTo(f, at, m)
    OBVIOUS
  <2>3. ReadUpTo(f, at, 0)
    BY DEF Reads, ReadUpTo, Parts
  <2>4. m \in 1 .. n /\ m - 1 \in 0 .. n /\ ~(m <= m - 1)
    BY <2>2, <2>3
  <2>5. ReadUpTo(f, at, m - 1)
    <3>1. m - 1 \notin T
      BY <2>1, <2>4
    <3>2. QED
      BY <2>4, <3>1
  <2> DEFINE s == f[m - 1]
             t == at[m]
  <2>6. f[m] = s \o t
    BY <2>4 DEF Reads
  <2>7. /\ s \in Seq(Nat) /\ Tidy(s) /\ t \in Seq(Nat) /\ Tidy(t)
        /\ \A a \in Nat : (\A k \in 0 .. (m - 1) : After(at[k], a)) => After(s, a)
    BY <2>2, <2>5 DEF ReadUpTo, Parts
  <2>8. \A k \in 0 .. (m - 1) : k \in 0 .. n /\ k < m
    BY <2>4
  <2> HIDE DEF s
  <2>9. ASSUME NEW a \in Elems(t) PROVE After(s, a)
    <3>1. a \in Nat
      BY <2>7, ConcatAt DEF Elems
    <3>2. \A k \in 0 .. (m - 1) : After(at[k], a)
      BY <2>2, <2>8 DEF Parts
    <3>3. QED
      BY <2>7, <3>1, <3>2
  <2>10. ASSUME NEW a \in Nat, \A k \in 0 .. m : After(at[k], a)
         PROVE  After(s \o t, a)
    <3>1. After(t, a)
      BY <2>4, <2>10
    <3>2. \A k \in 0 .. (m - 1) : After(at[k], a)
      BY <2>4, <2>10
    <3>3. After(s, a)
      BY <2>7, <3>2
    <3> HIDE DEF t
    <3>4. QED
      BY <2>7, <3>1, <3>3, AfterConcat
  <2> HIDE DEF t
  <2>11. s \o t \in Seq(Nat) /\ Tidy(s \o t)
    BY <2>7, <2>9, TidyConcat
  <2>12. ReadUpTo(f, at, m)
    BY <2>6, <2>10, <2>11 DEF ReadUpTo
  <2>13. QED
    BY <2>2, <2>12
<1>2. n \in 0 .. n
  OBVIOUS
<1>3. ReadUpTo(f, at, n)
  BY <1>1, <1>2
<1>4. QED
  BY <1>3 DEF ReadUpTo

\* What of the buffer a reader finds behind the file p, and of the disk.
Behind(p) == IF Open /\ sg_logfile.linked /\ sg_logfile.path = p THEN buf ELSE << >>
OnFile(p) == IF p \in DOMAIN disk THEN disk[p].data ELSE << >>

LEMMA ContentIs ==
  ASSUME OrderInv, NEW p
  PROVE  /\ Content(p) = OnFile(p) \o Behind(p)
         /\ OnFile(p) \in Seq(Nat) /\ Behind(p) \in Seq(Nat)
         /\ Content(p) \in Seq(Nat)
         /\ Elems(Content(p)) = Elems(OnFile(p)) \union Elems(Behind(p))
         /\ Elems(OnFile(p)) \subseteq BlocksOf(disk)
         /\ Elems(Behind(p)) # {} =>
              Behind(p) = buf /\ Open /\ sg_logfile.linked /\ sg_logfile.path = p
<1>1. Indexed(disk) /\ buf \in Seq(Nat) /\ << >> \in Seq(Nat) /\ Elems(<< >>) = {}
  BY ElemsOfFew DEF OrderInv, InPlace
<1>2. OnFile(p) \in Seq(Nat) /\ Elems(OnFile(p)) \subseteq BlocksOf(disk)
  BY <1>1, NatBlocks DEF OnFile
<1>3. /\ Behind(p) \in Seq(Nat)
      /\ Elems(Behind(p)) # {} =>
           Behind(p) = buf /\ Open /\ sg_logfile.linked /\ sg_logfile.path = p
  BY <1>1 DEF Behind
<1>4. Content(p) = OnFile(p) \o Behind(p)
  BY DEF Content, OnFile, Behind
<1> DEFINE s == OnFile(p)
           t == Behind(p)
<1> HIDE DEF s, t
<1>5. s \o t \in Seq(Nat) /\ Elems(s \o t) = Elems(s) \union Elems(t)
  BY <1>2, <1>3, ElemsConcat DEF s, t
<1>6. QED
  BY <1>2, <1>3, <1>4, <1>5 DEF s, t

\* What is read first has the place of what is read later.
LEMMA ContentAfter ==
  ASSUME Timed, OrderInv, NEW p, NEW q, p = q \/ Before(p, q),
         NEW a \in Elems(Content(q))
  PROVE  After(Content(p), a) /\ a \in Nat
<1> DEFINE s == OnFile(p)
           t == Behind(p)
<1>1. InPlace(disk, buf, blocks)
  BY DEF OrderInv
<1>2. /\ Content(p) = s \o t /\ s \in Seq(Nat) /\ t \in Seq(Nat)
      /\ Elems(s) \subseteq BlocksOf(disk)
      /\ Elems(t) # {} => t = buf /\ Open /\ sg_logfile.linked /\ sg_logfile.path = p
  BY ContentIs
<1>3. /\ a \in Elems(OnFile(q)) \/ a \in Elems(Behind(q))
      /\ Content(q) \in Seq(Nat)
      /\ Elems(Behind(q)) # {} =>
           Behind(q) = buf /\ Open /\ sg_logfile.linked /\ sg_logfile.path = q
  BY ContentIs
<1>4. a \in Nat
  BY <1>3, ConcatAt DEF Elems
<1>5. Elems(s) \subseteq Nat /\ Elems(t) \subseteq Nat /\ Elems(buf) \subseteq Nat
  BY <1>1, <1>2, ConcatAt DEF Elems, InPlace
<1>6. t = buf \/ t = << >>
  BY DEF Behind
<1> HIDE DEF s, t
\* A block in the buffer is newer than those on disk.
<1>7. CASE a \in Elems(Behind(q))
  <2>1. a \in Elems(buf) /\ Tidy(buf)
    BY <1>1, <1>3, <1>7 DEF InPlace
  <2>2. After(t, a)
    BY <1>6, <2>1, AfterFew DEF Tidy
  <2>3. \A b \in Elems(s) : b < a /\ b \in Nat
    BY <1>1, <1>2, <1>5, <2>1 DEF InPlace
  <2>4. \A b \in Elems(s) : b <= a
    BY <1>4, <2>3
  <2>5. After(s, a)
    BY <1>2, <1>4, <2>4, AfterAll
  <2>6. QED
    BY <1>2, <1>4, <2>2, <2>5, AfterConcat
<1>8. CASE a \in Elems(OnFile(q))
  <2>1. q \in DOMAIN disk /\ a \in Elems(disk[q].data)
    BY <1>8, ElemsOfFew DEF OnFile
  <2>2. After(s, a)
    <3>1. CASE p \in DOMAIN disk
      BY <1>1, <2>1, <3>1 DEF InPlace, Ordered, OnFile, s
    <3>2. CASE p \notin DOMAIN disk
      BY <3>2, AfterFew DEF OnFile, s
    <3>3. QED
      BY <3>1, <3>2
  <2>3. After(t, a) \/ a \in Elems(s)
    <3>1. CASE Elems(t) = {}
      BY <3>1 DEF After, Elems
    <3>2. CASE Elems(t) # {}
      <4>1. Open /\ sg_logfile.linked /\ sg_logfile.path = p
        BY <1>2, <3>2
      <4>2. p \in DOMAIN disk /\ p \in Names
        BY <4>1, FileIs
      <4>3. q \in Names
        BY <1>1, <2>1 DEF InPlace, Indexed
      <4>4. s = disk[p].data
        BY <4>2 DEF OnFile, s
      <4>5. CASE p = q
        BY <2>1, <4>4, <4>5
      <4>6. CASE p # q
        <5>1. q.day = p.day /\ p.idx \in Nat /\ q.idx \in Nat
          BY <4>2, <4>3, <4>6, NameIs DEF Before
        <5>2. ~Before(q, p)
          BY <4>6, <5>1 DEF Before
        <5>3. Elems(disk[q].data) \subseteq Elems(disk[p].data)
          BY <2>1, <4>1, <4>6, <5>1, <5>2 DEF OrderInv, LastOpen
        <5>4. QED
          BY <2>1, <4>4, <5>3
      <4>7. QED
        BY <4>5, <4>6
    <3>3. QED
      BY <3>1, <3>2
  <2>4. QED
    BY <1>2, <1>4, <2>2, <2>3, AfterConcat
<1>9. QED
  BY <1>3, <1>4, <1>7, <1>8

\* The files of one index, the log directory's first.
Pair(day, i) == Content([dir |-> "log", day |-> day, idx |-> i])
                \o Content([dir |-> "cache", day |-> day, idx |-> i])

LEMMA PairsAre ==
  ASSUME Timed, OrderInv, NEW day \in Nat, NEW i \in Nat
  PROVE  /\ Pair(day, i) \in Seq(Nat) /\ Tidy(Pair(day, i))
         /\ \A j \in Nat : i < j =>
              \A a \in Elems(Pair(day, j)) : After(Pair(day, i), a)
<1> DEFINE l(k) == [dir |-> "log", day |-> day, idx |-> k]
           c(k) == [dir |-> "cache", day |-> day, idx |-> k]
<1>1. /\ \A k \in Nat : Before(l(k), c(k))
      /\ \A k, j \in Nat : k < j => /\ Before(l(k), l(j)) /\ Before(l(k), c(j))
                                    /\ Before(c(k), l(j)) /\ Before(c(k), c(j))
  BY DEF Before
<1>2. \A k : Pair(day, k) = Content(l(k)) \o Content(c(k))
  BY DEF Pair
<1> HIDE DEF l, c
<1>3. \A p : Content(p) \in Seq(Nat)
  BY ContentIs
<1>4. \A p : Tidy(Content(p))
  BY ContentAfter DEF Tidy
<1>5. Pair(day, i) \in Seq(Nat) /\ Tidy(Pair(day, i))
  <2>1. \A a \in Elems(Content(c(i))) : After(Content(l(i)), a)
    BY <1>1, ContentAfter
  <2>2. QED
    BY <1>2, <1>3, <1>4, <2>1, TidyConcat
<1>6. ASSUME NEW j \in Nat, i < j, NEW a \in Elems(Pair(day, j))
      PROVE  After(Pair(day, i), a)
  <2>1. a \in Elems(Content(l(j))) \/ a \in Elems(Content(c(j)))
    <3>1. PICK s \in Seq(Nat) : s = Content(l(j))
      BY <1>3
    <3>2. PICK t \in Seq(Nat) : t = Content(c(j))
      BY <1>3
    <3>3. Pair(day, j) = s \o t /\ Elems(s \o t) = Elems(s) \union Elems(t)
      BY <1>2, <3>1, <3>2, ElemsConcat
    <3>4. QED
      BY <1>6, <3>1, <3>2, <3>3
  <2>2. After(Content(l(i)), a) /\ After(Content(c(i)), a) /\ a \in Nat
    BY <1>1, <1>6, <2>1, ContentAfter
  <2>3. QED
    BY <1>2, <1>3, <2>2, AfterConcat
<1>7. QED
  BY <1>5, <1>6

\* The reader's day.
LEMMA DayTidy ==
  ASSUME Timed, OrderInv, NEW day \in Nat
  PROVE  DayContent(day) \in Seq(Nat) /\ Tidy(DayContent(day))
<1> DEFINE at == [i \in 0 .. MaxBlocks |-> Pair(day, i)]
           Rec(f) == f = [i \in 0 .. MaxBlocks |->
                            IF i = 0 THEN Pair(day, 0) ELSE f[i - 1] \o Pair(day, i)]
           upTo == CHOOSE f : Rec(f)
<1>1. DayContent(day) = upTo[MaxBlocks]
  BY DEF DayContent, Pair
<1>2. MaxBlocks \in Nat
  BY FilesAssumption
<1>3. \A f : Rec(f) <=> f = [i \in 0 .. MaxBlocks |-> f[i]] /\ Reads(f, at, MaxBlocks)
  <2> SUFFICES ASSUME NEW f
               PROVE  Rec(f) <=> /\ f = [i \in 0 .. MaxBlocks |-> f[i]]
                                 /\ Reads(f, at, MaxBlocks)
    OBVIOUS
  <2>0. \A i \in 0 .. MaxBlocks : at[i] = Pair(day, i)
    OBVIOUS
  <2>1. ASSUME Rec(f)
        PROVE  f = [i \in 0 .. MaxBlocks |-> f[i]] /\ Reads(f, at, MaxBlocks)
    <3>1. /\ DOMAIN f = 0 .. MaxBlocks /\ f = [i \in 0 .. MaxBlocks |-> f[i]]
          /\ \A i \in 0 .. MaxBlocks :
               f[i] = IF i = 0 THEN Pair(day, 0) ELSE f[i - 1] \o Pair(day, i)
      BY <2>1
    <3>2. f[0] = at[0]
      BY <1>2, <2>0, <3>1
    <3>3. ASSUME NEW i \in 1 .. MaxBlocks PROVE f[i] = f[i - 1] \o at[i]
      <4>1. i \in 0 .. MaxBlocks /\ i # 0
        BY <1>2
      <4> HIDE DEF at
      <4>2. QED
        BY <2>0, <3>1, <4>1
    <3>4. QED
      BY <3>1, <3>2, <3>3 DEF Reads
  <2>2. ASSUME f = [i \in 0 .. MaxBlocks |-> f[i]], Reads(f, at, MaxBlocks)
        PROVE  Rec(f)
    <3> DEFINE g == [i \in 0 .. MaxBlocks |->
                       IF i = 0 THEN Pair(day, 0) ELSE f[i - 1] \o Pair(day, i)]
    <3>1. ASSUME NEW i \in 0 .. MaxBlocks PROVE f[i] = g[i]
      <4>1. CASE i = 0
        BY <2>0, <2>2, <4>1 DEF Reads
      <4>2. CASE i # 0
        <5>1. i \in 1 .. MaxBlocks
          BY <1>2, <4>2
        <5>2. f[i] = f[i - 1] \o Pair(day, i)
          BY <2>0, <2>2, <5>1 DEF Reads
        <5>3. QED
          BY <4>2, <5>2
      <4>3. QED
        BY <4>1, <4>2
    <3>2. [i \in 0 .. MaxBlocks |-> f[i]] = g
      BY <3>1
    <3>3. QED
      BY <2>2, <3>2
  <2>3. QED
    BY <2>1, <2>2
<1> HIDE DEF Rec
<1>4. \E f : Rec(f)
  <2>1. PICK f : Reads(f, at, MaxBlocks)
    BY <1>2, ReadsExists
  <2>2. f = [i \in 0 .. MaxBlocks |-> f[i]]
    BY <2>1 DEF Reads
  <2>3. QED
    BY <1>3, <2>1, <2>2
<1>5. Rec(upTo)
  BY <1>4
<1>6. Parts(at, MaxBlocks)
  <2>1. \A i \in 0 .. MaxBlocks : i \in Nat /\ at[i] = Pair(day, i)
    BY <1>2
  <2> HIDE DEF at
  <2>2. \A i \in 0 .. MaxBlocks : at[i] \in Seq(Nat) /\ Tidy(at[i])
    BY <2>1, PairsAre
  <2>3. ASSUME NEW i \in 0 .. MaxBlocks, NEW j \in 0 .. MaxBlocks, i < j,
               NEW a \in Elems(at[j])
        PROVE  After(at[i], a)
    BY <2>1, <2>3, PairsAre
  <2>4. QED
    BY <2>2, <2>3 DEF Parts
<1>7. upTo[MaxBlocks] \in Seq(Nat) /\ Tidy(upTo[MaxBlocks])
  <2>1. Reads(upTo, at, MaxBlocks)
    BY <1>3, <1>5
  <2> HIDE DEF upTo, at
  <2>2. QED
    BY <1>2, <1>6, <2>1, ReadsTidy
<1>8. QED
  BY <1>1, <1>7

\* As long as the clock is not set back and no operation fails, whoever reads
\* the files of a day by index, and leaves out what he has seen, gets its blocks
\* in the order of the calls, whatever the mode, the splits, the moves between
\* the directories, the deletions, the crashes and the restarts
\* (__get_next_fileindex, __log2file, __append_file).
THEOREM FilesInOrder ==
  ASSUME NeverBack PROVE Spec => []InOrder
<1>1. Init => FaultlessInv
  BY OrderAtStart
<1>2. FaultlessInv /\ [Next]_vars => FaultlessInv'
  BY FaultlessStep, NeverBack
<1>3. FaultlessInv => InOrder
  <2> SUFFICES ASSUME Timed, OrderInv, NEW day \in 0 .. Day(MaxClock)
               PROVE  \A i, j \in DOMAIN DayContent(day) :
                        i < j /\ DayContent(day)[i] > DayContent(day)[j] =>
                          \E k \in 1 .. (i - 1) : DayContent(day)[k] = DayContent(day)[j]
    BY DEF FaultlessInv, InOrder
  <2>1. day \in Nat
    OBVIOUS
  <2>2. Tidy(DayContent(day))
    BY <2>1, DayTidy
  <2>3. QED
    BY <2>2 DEF Tidy, After, Elems
<1>4. QED
  BY <1>1, <1>2, <1>3, PTL DEF Spec
-----------------------------------------------------------------------------
(* Types.                                                                   *)

\* The files of d have names in the directories there are, times and blocks.
Held(d, n) ==
  /\ Indexed(d)
  /\ \A p \in DOMAIN d : /\ p \in Paths
                         /\ d[p].at \in 0 .. MaxClock
                         /\ Elems(d[p].data) \subseteq 1 .. n

\* The open file has a name, which may be gone from the disk.
FileTyped ==
  /\ DOMAIN sg_logfile = DOMAIN NoFile
  /\ IF Open THEN /\ sg_logfile.path \in Paths /\ sg_logfile.dir \in Dirs
                  /\ sg_logfile.linked => sg_logfile.path \in DOMAIN disk
     ELSE buf = << >>

\* When the clock has gone back there is a name that was opened last.
LastTyped ==
  /\ last.time \in 0 .. MaxClock
  /\ last.path \in Paths \/ (last.path = NoPath /\ last.time = 0)

\* A call has a block, and a file to write it to; without a cache it only
\* writes to the log directory.
CallTyped ==
  /\ job.block \in 0 .. blocks /\ job.time \in 0 .. MaxClock
  /\ DOMAIN job = DOMAIN NoJob
  /\ pc \in InCall \union {"idle", "mover", "moverRemove"}
  /\ pc \in InCall => job.block > 0
  /\ pc \in Writing => Open
  /\ ~UseCache => ~mover.due /\ pc \in {"idle", "openLog", "writeLog"}

ThreadsTyped ==
  /\ DOMAIN mover = {"due", "now", "todo"} /\ mover.todo \subseteq Paths
  /\ DOMAIN sweep = {"due", "now", "todo", "victim"} /\ sweep.todo \subseteq Paths

TypeInv ==
  /\ UseCache \in CacheDirs /\ sg_mode \in Modes
  /\ clock \in 1 .. MaxClock
  /\ blocks \in Nat
  /\ Held(disk, blocks)
  /\ buf \in Seq(Nat) /\ Elems(buf) \subseteq 1 .. blocks
  /\ FileTyped /\ LastTyped /\ CallTyped /\ ThreadsTyped
  /\ written \subseteq 1 .. blocks /\ lost \subseteq 1 .. blocks
-----------------------------------------------------------------------------
\* A path is a name, in one of the directories.
LEMMA PathIs ==
  ASSUME NEW p \in Paths
  PROVE  p \in Names /\ p.dir \in Dirs /\ p # NoPath
BY DEF Paths, Names, Dirs, NoPath

\* The index of a file's name is a number, whatever there is on the disk.
LEMMA NameTyped ==
  ASSUME NEW d, Indexed(d), NEW dir \in Dirs, NEW t \in Nat
  PROVE  LogFileName(d, dir, t) \in Paths
<1>1. Day(t) \in Nat
  BY DayOf
<1>2. NextIndex(d, Day(t)) \in Nat
  <2>1. CASE sg_max_file_size = 0
    BY <2>1 DEF NextIndex
  <2>2. CASE sg_max_file_size # 0
    <3>1. sg_max_file_size > 0
      BY <2>2, FilesAssumption
    <3>2. QED
      BY <1>1, <3>1, NextHasRoom
  <2>3. QED
    BY <2>1, <2>2
<1>3. QED
  BY <1>1, <1>2 DEF LogFileName, Paths

LEMMA HeldAppended ==
  ASSUME NEW d, NEW n \in Nat, Held(d, n), clock \in 0 .. MaxClock, NEW p \in Paths,
         NEW bs \in Seq(Nat), Elems(bs) \subseteq 1 .. n
  PROVE  Held(Appended(d, p, bs), n) /\ DOMAIN Appended(d, p, bs) = DOMAIN d \union {p}
<1> DEFINE e == Appended(d, p, bs)
<1>1. p \in Names /\ Indexed(d) /\ \A q \in DOMAIN d : d[q].data \in Seq(Nat)
  BY PathIs DEF Held, Indexed
<1>2. Indexed(e) /\ DOMAIN e = DOMAIN d \union {p}
  <2>1. Larger(d, p, Len(bs), e)
    BY <1>1, AppendedSizes
  <2>2. QED
    BY <2>1 DEF Larger
<1>3. ASSUME NEW q \in DOMAIN d \union {p}
      PROVE  q \in Paths /\ e[q].at \in 0 .. MaxClock /\ Elems(e[q].data) \subseteq 1 .. n
  <2>1. CASE bs = << >> /\ p \in DOMAIN d
    BY <2>1 DEF Appended, Held
  <2>2. CASE ~(bs = << >> /\ p \in DOMAIN d)
    <3>1. e[q] = IF q # p THEN d[q]
                 ELSE [data |-> IF p \in DOMAIN d THEN d[p].data \o bs ELSE bs,
                       at |-> clock]
      BY <2>2 DEF Appended
    <3> HIDE DEF e
    <3>2. CASE q # p
      BY <3>1, <3>2 DEF Held
    <3>3. CASE q = p /\ p \in DOMAIN d
      <4>1. Elems(d[p].data \o bs) = Elems(d[p].data) \union Elems(bs)
        BY <1>1, <3>3, ElemsConcat
      <4>2. e[q].data = d[p].data \o bs /\ e[q].at = clock
        BY <3>1, <3>3
      <4>3. QED
        BY <3>3, <4>1, <4>2 DEF Held
    <3>4. CASE q = p /\ p \notin DOMAIN d
      BY <3>1, <3>4
    <3>5. QED
      BY <3>2, <3>3, <3>4
  <2>3. QED
    BY <2>1, <2>2
<1> HIDE DEF e
<1>4. QED
  BY <1>2, <1>3 DEF Held, e

LEMMA HeldRemoved ==
  ASSUME NEW d, NEW n, Held(d, n), NEW p
  PROVE  Held(Removed(d, p), n) /\ DOMAIN Removed(d, p) = DOMAIN d \ {p}
<1>1. /\ DOMAIN Removed(d, p) = DOMAIN d \ {p} /\ Indexed(Removed(d, p))
      /\ \A q \in DOMAIN d \ {p} : Removed(d, p)[q] = d[q]
  BY RemovedSizes DEF Held
<1>2. QED
  BY <1>1 DEF Held

LEMMA HeldFlushed ==
  ASSUME TypeInv
  PROVE  Held(Flushed(disk), blocks) /\ DOMAIN Flushed(disk) = DOMAIN disk
<1>1. /\ Held(disk, blocks) /\ blocks \in Nat /\ clock \in 0 .. MaxClock
      /\ buf \in Seq(Nat) /\ Elems(buf) \subseteq 1 .. blocks
  BY FilesAssumption DEF TypeInv
<1>2. CASE Open /\ sg_logfile.linked
  <2>1. sg_logfile.path \in Paths /\ sg_logfile.path \in DOMAIN disk
    BY <1>2 DEF TypeInv, FileTyped
  <2>2. Flushed(disk) = Appended(disk, sg_logfile.path, buf)
    BY <1>2 DEF Flushed
  <2>3. /\ Held(Appended(disk, sg_logfile.path, buf), blocks)
        /\ DOMAIN Appended(disk, sg_logfile.path, buf) = DOMAIN disk \union {sg_logfile.path}
    BY <1>1, <2>1, HeldAppended
  <2>4. QED
    BY <2>1, <2>2, <2>3
<1>3. CASE ~(Open /\ sg_logfile.linked)
  BY <1>1, <1>3 DEF Flushed
<1>4. QED
  BY <1>2, <1>3

\* The file that is open is gone on with, loses its name, or is closed.
LEMMA LeftTyped ==
  ASSUME FileTyped, FileLeft, UNCHANGED UseCache
  PROVE  FileTyped' /\ (sg_logfile' # NoFile => (Open' <=> Open))
<1>1. CASE sg_logfile' = NoFile /\ buf' = << >>
  BY <1>1 DEF FileTyped, Open
<1>2. CASE Open /\ sg_logfile' = [sg_logfile EXCEPT !.linked = FALSE]
  <2>1. /\ DOMAIN sg_logfile' = DOMAIN NoFile
        /\ sg_logfile'.path = sg_logfile.path
        /\ sg_logfile'.dir = sg_logfile.dir
        /\ sg_logfile'.linked = FALSE
    BY <1>2 DEF FileTyped, NoFile
  <2>2. Open'
    <3>1. sg_logfile'.path # NoPath
      BY <1>2, <2>1, PathIs DEF FileTyped
    <3>2. QED
      BY <3>1 DEF Open, NoFile
  <2>3. QED
    BY <1>2, <2>1, <2>2 DEF FileTyped, Paths, Dirs
<1>3. CASE /\ sg_logfile' = sg_logfile
           /\ Open /\ sg_logfile.linked => sg_logfile.path \in DOMAIN disk'
           /\ ~Open => buf' = << >>
  BY <1>3 DEF FileTyped, Open, Paths, Dirs
<1>4. QED
  BY <1>1, <1>2, <1>3 DEF FileLeft

LEMMA InitTyped == Init => TypeInv
<1> SUFFICES ASSUME Init PROVE TypeInv
  OBVIOUS
<1>1. /\ DOMAIN disk = {} /\ ~Open /\ buf = << >> /\ clock = 1 /\ blocks = 0
      /\ pc = "idle" /\ job = NoJob /\ mover = MoverDue /\ sweep = SweepDue
  BY DEF Init, Open
<1>2. << >> \in Seq(Nat) /\ Elems(<< >>) = {} /\ 1 \in 1 .. MaxClock
  BY ElemsOfFew, FilesAssumption
<1>3. Held(disk, blocks)
  BY <1>1 DEF Held, Indexed
<1>4. FileTyped /\ LastTyped
  BY <1>1, FilesAssumption DEF Init, FileTyped, LastTyped
<1>5. CallTyped /\ ThreadsTyped
  BY <1>1, FilesAssumption
     DEF CallTyped, ThreadsTyped, NoJob, MoverDue, SweepDue, InCall, Writing
<1>6. QED
  BY <1>1, <1>2, <1>3, <1>4, <1>5 DEF Init, TypeInv

LEMMA BeginTyped ==
  ASSUME TypeInv, UNCHANGED UseCache,
         NEW move \in BOOLEAN, NEW roomy \in BOOLEAN, Log2File(move, roomy)
  PROVE  TypeInv'
<1> USE DEF TypeInv, openFile, threads
<1> DEFINE path == LogFileName(disk, "cache", clock)
<1>1. path \in DOMAIN disk => UseCache
  BY PathIs DEF LogFileName, Held, Dirs
<1> HIDE DEF path
<1>2. /\ blocks' = blocks + 1
      /\ job'.block = blocks' /\ job'.time = clock /\ DOMAIN job' = DOMAIN NoJob
      /\ pc' \in {"openCache", "openLog"} /\ (~UseCache => pc' = "openLog")
      /\ UNCHANGED <<clock, disk, sg_mode, openFile, threads, written, lost>>
  BY <1>1 DEF Log2File, NoJob, path
<1>3. blocks' \in Nat /\ blocks' > 0 /\ 1 .. blocks \subseteq 1 .. blocks'
  BY <1>2
<1>4. Held(disk, blocks)'
  BY <1>2, <1>3 DEF Held, Paths, Dirs
<1>5. FileTyped' /\ LastTyped' /\ ThreadsTyped'
  BY <1>2 DEF FileTyped, LastTyped, ThreadsTyped, Open, Paths, Dirs
<1>6. CallTyped'
  BY <1>2, <1>3, FilesAssumption DEF CallTyped, InCall, Writing
<1>7. /\ UseCache' \in CacheDirs /\ sg_mode' \in Modes /\ clock' \in 1 .. MaxClock
      /\ buf' \in Seq(Nat) /\ Elems(buf') \subseteq 1 .. blocks'
      /\ written' \subseteq 1 .. blocks' /\ lost' \subseteq 1 .. blocks'
  BY <1>2, <1>3
<1>8. QED
  BY <1>3, <1>4, <1>5, <1>6, <1>7

\* What the steps have in common that leave the clock and the counters.
LEMMA AfterTyped ==
  ASSUME TypeInv, UNCHANGED <<UseCache, clock, blocks>>, sg_mode' \in Modes,
         Held(disk', blocks), buf' \in Seq(Nat), Elems(buf') \subseteq 1 .. blocks,
         FileTyped', LastTyped', CallTyped', ThreadsTyped',
         written' \subseteq 1 .. blocks, lost' \subseteq 1 .. blocks
  PROVE  TypeInv'
<1>1. Held(disk, blocks)'
  BY DEF Held, Paths, Dirs
<1>2. QED
  BY <1>1 DEF TypeInv

LEMMA OpenTyped ==
  ASSUME TypeInv, UNCHANGED UseCache,
         NEW from \in {"openCache", "openLog", "openFallback"},
         NEW dir \in Dirs, NEW ok \in Writing,
         NEW fail \in {"openLog", "openFallback", "idle"},
         ~UseCache => ok = "writeLog" /\ fail = "idle",
         OpenFile(from, dir, ok, fail)
  PROVE  TypeInv'
<1> USE DEF TypeInv, threads
<1>0. /\ pc = from /\ pc \in InCall /\ clock \in 0 .. MaxClock
      /\ UNCHANGED <<clock, sg_mode, job, threads, blocks, written, lost>>
  BY FilesAssumption DEF OpenFile, InCall
<1>1. CASE Reusable(dir) /\ pc' = ok /\ UNCHANGED <<disk, openFile, faults>>
  <2>1. /\ Open /\ UNCHANGED <<disk, sg_logfile, buf, last>> /\ (Open' <=> Open)
    BY <1>1 DEF Reusable, openFile, Open
  <2>2. FileTyped' /\ LastTyped' /\ ThreadsTyped'
    BY <1>0, <2>1 DEF FileTyped, LastTyped, ThreadsTyped, Paths, Dirs
  <2>3. CallTyped'
    BY <1>0, <1>1, <2>1 DEF CallTyped, InCall, Writing
  <2>4. QED
    BY <1>0, <2>1, <2>2, <2>3, AfterTyped
<1>2. CASE ~Reusable(dir)
  <2> DEFINE d == Flushed(disk)
             name == LogFileName(d, dir, clock)
             path == IF clock < last.time THEN last.path ELSE name
  <2>1. Held(d, blocks)
    BY HeldFlushed
  <2>2. name \in Paths
    BY <1>0, <2>1, NameTyped DEF Held
  <2>3. /\ buf' = << >>
        /\ last' = last \/ last' = [time |-> clock, path |-> name]
        /\ \/ /\ disk' = Appended(d, path, << >>)
              /\ sg_logfile' = [path |-> path, dir |-> dir, time |-> clock,
                                linked |-> TRUE]
              /\ pc' = ok
           \/ disk' = d /\ sg_logfile' = NoFile /\ pc' = fail
    BY <1>2 DEF OpenFile
  <2>4. path \in Paths
    BY <1>0, <2>2 DEF LastTyped
  <2> HIDE DEF d, name, path
  <2>5. << >> \in Seq(Nat) /\ Elems(<< >>) = {}
    BY ElemsOfFew
  <2>6. /\ Held(Appended(d, path, << >>), blocks)
        /\ path \in DOMAIN Appended(d, path, << >>)
    <3>1. /\ Held(Appended(d, path, << >>), blocks)
          /\ DOMAIN Appended(d, path, << >>) = DOMAIN d \union {path}
      BY <1>0, <2>1, <2>4, <2>5, HeldAppended
    <3>2. QED
      BY <3>1
  <2>7. FileTyped' /\ (pc' \in Writing => Open')
    <3>1. CASE /\ disk' = Appended(d, path, << >>) /\ pc' = ok
               /\ sg_logfile' = [path |-> path, dir |-> dir, time |-> clock,
                                 linked |-> TRUE]
      <4>1. Open' /\ DOMAIN sg_logfile' = DOMAIN NoFile
        BY <3>1 DEF Open, NoFile
      <4>2. QED
        BY <2>4, <2>6, <3>1, <4>1 DEF FileTyped, Paths, Dirs
    <3>2. CASE sg_logfile' = NoFile /\ pc' = fail
      BY <2>3, <3>2 DEF FileTyped, Open, Writing
    <3>3. QED
      BY <2>3, <3>1, <3>2
  <2>8. LastTyped' /\ ThreadsTyped'
    BY <1>0, <2>2, <2>3 DEF LastTyped, ThreadsTyped, Paths, Dirs
  <2>9. CallTyped'
    BY <1>0, <2>3, <2>7 DEF CallTyped, InCall, Writing
  <2>10. Held(disk', blocks)
    BY <2>1, <2>3, <2>6
  <2>11. QED
    BY <1>0, <2>3, <2>5, <2>7, <2>8, <2>9, <2>10, AfterTyped
<1>3. QED
  BY <1>1, <1>2 DEF OpenFile

LEMMA WriteTyped ==
  ASSUME TypeInv, UNCHANGED UseCache, NEW from \in Writing,
         NEW ok \in {"idle", "append"}, NEW fail \in {"idle", "append", "closeLog"},
         ~UseCache => ok = "idle" /\ fail = "idle",
         WriteFile(from, ok, fail)
  PROVE  TypeInv'
<1> USE DEF TypeInv
<1> DEFINE bs == Append(buf, job.block)
           path == sg_logfile.path
<1>1. /\ pc \in Writing /\ pc \in InCall /\ pc' \in {ok, fail} /\ Open
      /\ UNCHANGED <<clock, sg_mode, last, job, threads, blocks>>
      /\ clock \in 0 .. MaxClock
  BY FilesAssumption DEF WriteFile, Writing, InCall, CallTyped
<1>2. job.block \in 1 .. blocks /\ job.block \in Nat
  BY <1>1 DEF CallTyped
<1>3. /\ bs \in Seq(Nat) /\ Elems(bs) \subseteq 1 .. blocks
      /\ << >> \in Seq(Nat) /\ Elems(<< >>) = {}
  BY <1>2, ElemsOfFew
<1> HIDE DEF bs
<1>4. sg_logfile.linked =>
        /\ Held(Appended(disk, path, bs), blocks)
        /\ DOMAIN Appended(disk, path, bs) = DOMAIN disk
  <2> SUFFICES ASSUME sg_logfile.linked
               PROVE  /\ Held(Appended(disk, path, bs), blocks)
                      /\ DOMAIN Appended(disk, path, bs) = DOMAIN disk
    OBVIOUS
  <2>1. path \in Paths /\ path \in DOMAIN disk
    BY <1>1 DEF FileTyped
  <2> HIDE DEF path
  <2>2. /\ Held(Appended(disk, path, bs), blocks)
        /\ DOMAIN Appended(disk, path, bs) = DOMAIN disk \union {path}
    BY <1>1, <1>3, <2>1, HeldAppended
  <2>3. QED
    BY <2>1, <2>2
<1>5. /\ Held(disk', blocks) /\ DOMAIN disk' = DOMAIN disk
      /\ sg_logfile' = sg_logfile \/ (sg_logfile' = NoFile /\ buf' = << >>)
      /\ buf' \in {buf, bs, << >>}
      /\ written' \subseteq 1 .. blocks /\ lost' \subseteq 1 .. blocks
  <2>1. CASE WriteOk
    <3>1. /\ disk' = disk \/ (sg_logfile.linked /\ disk' = Appended(disk, path, bs))
          /\ \/ sg_logfile' = NoFile /\ buf' = << >>
             \/ sg_logfile' = sg_logfile /\ buf' \in {bs, << >>}
          /\ written' = written \union {job.block}
          /\ lost' = lost \/ lost' = lost \union Elems(bs)
      BY <2>1 DEF WriteOk, bs
    <3>2. QED
      BY <1>2, <1>3, <1>4, <3>1
  <2>2. CASE WriteFails
    <3>1. /\ \/ disk' = Flushed(disk) /\ sg_logfile' = NoFile /\ buf' = << >>
             \/ disk' = disk /\ sg_logfile' = sg_logfile /\ buf' \in {buf, << >>}
          /\ written' = written
          /\ lost' = lost \/ lost' = lost \union Elems(buf)
      BY <2>2 DEF WriteFails, CloseFile
    <3>2. QED
      BY <3>1, HeldFlushed
  <2>3. QED
    BY <2>1, <2>2 DEF WriteFile
<1>6. FileLeft
  BY <1>1, <1>5 DEF FileLeft, FileTyped
<1>7. FileTyped'
  BY <1>6, LeftTyped
<1>8. LastTyped' /\ ThreadsTyped'
  BY <1>1 DEF LastTyped, ThreadsTyped, threads, Paths, Dirs
<1>9. CallTyped'
  BY <1>1 DEF CallTyped, threads, InCall, Writing
<1>10. QED
  BY <1>1, <1>3, <1>5, <1>7, <1>8, <1>9, AfterTyped

LEMMA CloseLogTyped ==
  ASSUME TypeInv, UNCHANGED UseCache, CloseLog
  PROVE  TypeInv'
<1> USE DEF TypeInv
<1>1. /\ pc = "closeLog" /\ pc' = "openFallback" /\ UseCache /\ pc \in InCall
      /\ UNCHANGED <<clock, sg_mode, last, job, mover, sweep, blocks, written, lost>>
  BY DEF CloseLog, CallTyped, InCall, threads, bounds
<1>2. \/ disk' = Flushed(disk) /\ sg_logfile' = NoFile /\ buf' = << >>
      \/ UNCHANGED <<disk, sg_logfile, buf>>
  BY DEF CloseLog, CloseFile
<1>3. /\ Held(disk', blocks) /\ DOMAIN disk' = DOMAIN disk
      /\ buf' \in Seq(Nat) /\ Elems(buf') \subseteq 1 .. blocks
  BY <1>2, HeldFlushed, ElemsOfFew
<1>4. FileLeft
  BY <1>2, <1>3 DEF FileLeft, FileTyped
<1>5. FileTyped'
  BY <1>4, LeftTyped
<1>6. LastTyped' /\ ThreadsTyped'
  BY <1>1 DEF LastTyped, ThreadsTyped, Paths, Dirs
<1>7. CallTyped'
  BY <1>1 DEF CallTyped, InCall, Writing
<1>8. QED
  BY <1>1, <1>3, <1>5, <1>6, <1>7, AfterTyped

\* A copy leaves names where they are.
LEMMA CopyTyped ==
  ASSUME TypeInv, NEW src, NEW dst \in Paths, NEW ok \in BOOLEAN,
         AppendFile(src, dst, ok)
  PROVE  /\ Held(disk', blocks) /\ DOMAIN disk \subseteq DOMAIN disk'
         /\ lost' \subseteq 1 .. blocks
<1> USE DEF TypeInv
<1> DEFINE bs == IF src \in DOMAIN disk THEN disk[src].data ELSE << >>
           e == Appended(disk, dst, bs)
           f == Appended(disk, dst, << >>)
<1>1. /\ bs \in Seq(Nat) /\ Elems(bs) \subseteq 1 .. blocks
      /\ << >> \in Seq(Nat) /\ Elems(<< >>) = {}
      /\ clock \in 0 .. MaxClock
  BY ElemsOfFew, FilesAssumption DEF Held, Indexed
<1>2. /\ disk' \in {disk, e, f}
      /\ lost' = lost \/ lost' = lost \union Elems(bs)
  BY DEF AppendFile
<1> HIDE DEF bs
<1>3. /\ Held(e, blocks) /\ DOMAIN e = DOMAIN disk \union {dst}
      /\ Held(f, blocks) /\ DOMAIN f = DOMAIN disk \union {dst}
  BY <1>1, HeldAppended
<1> HIDE DEF e, f
<1>4. QED
  BY <1>1, <1>2, <1>3

LEMMA AppendCachedTyped ==
  ASSUME TypeInv, UNCHANGED UseCache, AppendCached
  PROVE  TypeInv'
<1> USE DEF TypeInv
<1> DEFINE dst == LogFileName(disk, "log", job.time)
<1>1. PICK ok \in BOOLEAN : /\ AppendFile(job.path, dst, ok)
                            /\ pc' = IF ok THEN "remove" ELSE "idle"
  BY DEF AppendCached
<1>2. /\ UNCHANGED <<clock, sg_mode, sg_logfile, buf, last, job, mover, sweep, blocks,
                     written>>
      /\ pc = "append" /\ pc \in InCall /\ UseCache
  BY DEF AppendCached, CallTyped, InCall, openFile, threads
<1>3. dst \in Paths
  <2>1. job.time \in Nat /\ "log" \in Dirs
    BY FilesAssumption DEF CallTyped, Dirs
  <2>2. QED
    BY <2>1, NameTyped DEF Held
<1> HIDE DEF dst
<1>4. /\ Held(disk', blocks) /\ DOMAIN disk \subseteq DOMAIN disk'
      /\ lost' \subseteq 1 .. blocks
  BY <1>1, <1>3, CopyTyped
<1>5. FileLeft
  BY <1>2, <1>4 DEF FileLeft, FileTyped
<1>6. FileTyped'
  BY <1>5, LeftTyped
<1>7. LastTyped' /\ ThreadsTyped'
  BY <1>2 DEF LastTyped, ThreadsTyped, Paths, Dirs
<1>8. CallTyped'
  BY <1>1, <1>2 DEF CallTyped, InCall, Writing
<1>9. QED
  BY <1>2, <1>4, <1>6, <1>7, <1>8, AfterTyped

LEMMA RemoveCachedTyped ==
  ASSUME TypeInv, UNCHANGED UseCache, RemoveCached
  PROVE  TypeInv'
<1> USE DEF TypeInv
<1>1. /\ pc = "remove" /\ pc' = "idle"
      /\ UNCHANGED <<clock, sg_mode, last, job, mover, sweep, blocks, written, lost>>
  BY DEF RemoveCached, threads, bounds
<1>2. \/ /\ disk' = Removed(Flushed(disk), job.path)
         /\ sg_logfile' = NoFile /\ buf' = << >>
      \/ /\ disk' = Removed(disk, job.path) /\ buf' = buf
         /\ sg_logfile' = IF Open /\ sg_logfile.path = job.path
                          THEN [sg_logfile EXCEPT !.linked = FALSE] ELSE sg_logfile
  BY DEF RemoveCached, Unlink
<1>3. /\ Held(disk', blocks) /\ buf' \in Seq(Nat) /\ Elems(buf') \subseteq 1 .. blocks
  <2>1. /\ Held(Removed(disk, job.path), blocks)
        /\ Held(Removed(Flushed(disk), job.path), blocks)
        /\ << >> \in Seq(Nat) /\ Elems(<< >>) = {}
    BY HeldFlushed, HeldRemoved, ElemsOfFew
  <2>2. QED
    BY <1>2, <2>1
<1>4. FileLeft
  BY <1>2 DEF FileLeft, FileTyped, Removed
<1>5. FileTyped'
  BY <1>4, LeftTyped
<1>6. LastTyped' /\ ThreadsTyped'
  BY <1>1 DEF LastTyped, ThreadsTyped, Paths, Dirs
<1>7. CallTyped'
  BY <1>1 DEF CallTyped, InCall, Writing
<1>8. QED
  BY <1>1, <1>3, <1>5, <1>6, <1>7, AfterTyped

LEMMA MoverTyped ==
  ASSUME TypeInv, UNCHANGED UseCache, Mover
  PROVE  TypeInv'
<1> USE DEF TypeInv
<1>0. /\ UNCHANGED <<clock, sg_mode, buf, last, sweep, blocks, written>>
      /\ "idle" \notin InCall /\ "mover" \notin InCall /\ "moverRemove" \notin InCall
      /\ "idle" \notin Writing /\ "mover" \notin Writing /\ "moverRemove" \notin Writing
  BY DEF Mover, MoverStart, MoverRemove, MoverEnd, MoverNext, openFile, threads, bounds,
         InCall, Writing
<1>1. LastTyped'
  BY <1>0 DEF LastTyped, Paths, Dirs
<1>2. CASE MoverStart \/ MoverEnd
  <2>1. /\ UNCHANGED <<disk, sg_logfile, job, lost>>
        /\ pc' \in {"mover", "idle"} /\ UseCache
        /\ DOMAIN mover' = DOMAIN mover /\ mover'.todo \subseteq Paths
    BY <1>2 DEF MoverStart, MoverEnd, openFile, CallTyped, ThreadsTyped, Held
  <2>2. FileLeft
    BY <1>0, <2>1 DEF FileLeft, FileTyped
  <2>3. FileTyped'
    BY <2>2, LeftTyped
  <2>4. ThreadsTyped'
    BY <1>0, <2>1 DEF ThreadsTyped, Paths, Dirs
  <2>5. CallTyped'
    BY <1>0, <2>1 DEF CallTyped
  <2>6. QED
    BY <1>0, <1>1, <2>1, <2>3, <2>4, <2>5, AfterTyped
<1>3. CASE MoverRemove
  <2>1. /\ disk' = Removed(disk, job.path) /\ pc' = "mover" /\ UseCache
        /\ sg_logfile' = IF Open /\ sg_logfile.path = job.path
                         THEN [sg_logfile EXCEPT !.linked = FALSE] ELSE sg_logfile
        /\ UNCHANGED <<job, mover, lost>>
    BY <1>3 DEF MoverRemove, Unlink, threads, CallTyped
  <2>2. Held(disk', blocks)
    BY <2>1, HeldRemoved
  <2>3. FileLeft
    BY <1>0, <2>1 DEF FileLeft, FileTyped, Removed
  <2>4. FileTyped'
    BY <2>3, LeftTyped
  <2>5. ThreadsTyped'
    BY <1>0, <2>1 DEF ThreadsTyped, Paths, Dirs
  <2>6. CallTyped'
    BY <1>0, <2>1 DEF CallTyped
  <2>7. QED
    BY <1>0, <1>1, <2>1, <2>2, <2>4, <2>5, <2>6, AfterTyped
<1>4. ASSUME NEW p \in mover.todo, MoverNext(p) PROVE TypeInv'
  <2> DEFINE dst == [p EXCEPT !.dir = "log"]
  <2>1. /\ UNCHANGED sg_logfile /\ pc = "mover" /\ UseCache /\ p \in Paths
        /\ mover' = [mover EXCEPT !.todo = @ \ {p}]
    BY <1>4 DEF MoverNext, openFile, CallTyped, ThreadsTyped
  <2>2. DOMAIN mover' = DOMAIN mover /\ mover'.todo \subseteq Paths
    BY <2>1 DEF ThreadsTyped
  <2>3. dst \in Paths
    BY <2>1 DEF Paths, Dirs
  <2>4. \/ UNCHANGED <<disk, pc, job, lost>>
        \/ /\ \E ok \in BOOLEAN : /\ AppendFile(p, dst, ok)
                                  /\ pc' = IF ok THEN "moverRemove" ELSE "idle"
           /\ job' = [job EXCEPT !.path = p]
    BY <1>4 DEF MoverNext
  <2> HIDE DEF dst
  <2>5. /\ Held(disk', blocks) /\ DOMAIN disk \subseteq DOMAIN disk'
        /\ lost' \subseteq 1 .. blocks
        /\ pc' \in {"mover", "moverRemove", "idle"}
    <3>1. CASE UNCHANGED <<disk, pc, job, lost>>
      BY <2>1, <3>1
    <3>2. ASSUME NEW ok \in BOOLEAN, AppendFile(p, dst, ok),
                 pc' = IF ok THEN "moverRemove" ELSE "idle"
          PROVE  /\ Held(disk', blocks) /\ DOMAIN disk \subseteq DOMAIN disk'
                 /\ lost' \subseteq 1 .. blocks
                 /\ pc' \in {"moverRemove", "idle"}
      BY <2>3, <3>2, CopyTyped
    <3>3. QED
      BY <2>4, <3>1, <3>2
  <2>6. job'.block = job.block /\ job'.time = job.time /\ DOMAIN job' = DOMAIN job
    BY <2>4 DEF CallTyped, NoJob
  <2>7. FileLeft
    BY <1>0, <2>1, <2>5 DEF FileLeft, FileTyped
  <2>8. FileTyped'
    BY <2>7, LeftTyped
  <2>9. ThreadsTyped'
    BY <1>0, <2>2 DEF ThreadsTyped, Paths, Dirs
  <2>10. CallTyped'
    BY <1>0, <2>1, <2>5, <2>6 DEF CallTyped
  <2>11. QED
    BY <1>0, <1>1, <2>5, <2>8, <2>9, <2>10, AfterTyped
<1>5. QED
  BY <1>2, <1>3, <1>4 DEF Mover

LEMMA SweepTyped ==
  ASSUME TypeInv, UNCHANGED UseCache, Sweep
  PROVE  TypeInv'
<1> USE DEF TypeInv
<1>0. /\ UNCHANGED <<clock, sg_mode, buf, last, call, mover, blocks, written>>
      /\ UNCHANGED <<pc, job>>
  BY DEF Sweep, SweepStart, SweepCheck, SweepRemove, openFile, bounds, call
<1>1. LastTyped'
  BY <1>0 DEF LastTyped, Paths, Dirs
<1>2. ASSUME Held(disk', blocks), FileLeft, sg_logfile' # NoFile \/ ~Open,
             DOMAIN sweep' = DOMAIN sweep, sweep'.todo \subseteq Paths,
             lost' \subseteq 1 .. blocks
      PROVE  TypeInv'
  <2>1. FileTyped' /\ (Open' <=> Open)
    <3>1. FileTyped' /\ (sg_logfile' # NoFile => (Open' <=> Open))
      BY <1>2, LeftTyped
    <3>2. sg_logfile' = NoFile => ~Open /\ ~Open'
      BY <1>2 DEF Open
    <3>3. QED
      BY <3>1, <3>2
  <2>2. ThreadsTyped'
    BY <1>0, <1>2 DEF ThreadsTyped, Paths, Dirs
  <2>3. CallTyped'
    BY <1>0, <2>1 DEF CallTyped, InCall, Writing
  <2>4. QED
    BY <1>0, <1>1, <1>2, <2>1, <2>2, <2>3, AfterTyped
<1>3. ASSUME UNCHANGED <<disk, sg_logfile, lost>>,
             DOMAIN sweep' = DOMAIN sweep, sweep'.todo \subseteq Paths
      PROVE  TypeInv'
  <2>1. FileLeft /\ (sg_logfile' # NoFile \/ ~Open)
    BY <1>0, <1>3 DEF FileLeft, FileTyped, Open
  <2>2. QED
    BY <1>2, <1>3, <2>1
<1>4. ASSUME NEW dir \in Dirs, SweepStart(dir) PROVE TypeInv'
  <2>1. PICK seen \in BOOLEAN :
          sweep' = [due |-> sweep.due \ {dir}, now |-> clock, victim |-> NoPath,
                    todo |-> IF seen THEN {p \in DOMAIN disk : p.dir = dir} ELSE {}]
    BY <1>4 DEF SweepStart
  <2>2. DOMAIN sweep' = DOMAIN sweep /\ sweep'.todo \subseteq Paths
    BY <2>1 DEF ThreadsTyped, Held
  <2>3. QED
    BY <1>3, <1>4, <2>2 DEF SweepStart, openFile
<1>5. ASSUME NEW p \in sweep.todo, SweepCheck(p) PROVE TypeInv'
  <2>1. DOMAIN sweep' = DOMAIN sweep /\ sweep'.todo \subseteq Paths
    BY <1>5 DEF SweepCheck, ThreadsTyped
  <2>2. QED
    BY <1>3, <1>5, <2>1 DEF SweepCheck, openFile
<1>6. CASE SweepRemove
  <2> DEFINE v == sweep.victim
  <2>1. /\ disk' = Removed(disk, v)
        /\ sg_logfile' = IF Open /\ sg_logfile.path = v
                         THEN [sg_logfile EXCEPT !.linked = FALSE] ELSE sg_logfile
        /\ DOMAIN sweep' = DOMAIN sweep /\ sweep'.todo = sweep.todo
        /\ \/ lost' = lost
           \/ lost' = lost
                \union (IF v \in DOMAIN disk THEN Elems(disk[v].data) ELSE {})
                \union (IF Open /\ sg_logfile.path = v THEN Elems(buf) ELSE {})
    <3>1. /\ DOMAIN sweep' = DOMAIN sweep /\ sweep'.todo = sweep.todo
      BY <1>6 DEF SweepRemove, ThreadsTyped
    <3>2. /\ disk' = Removed(disk, v)
          /\ sg_logfile' = IF Open /\ sg_logfile.path = v
                           THEN [sg_logfile EXCEPT !.linked = FALSE]
                           ELSE sg_logfile
      BY <1>6 DEF SweepRemove, Unlink
    <3>3. \/ lost' = lost
          \/ lost' = lost
               \union (IF v \in DOMAIN disk THEN Elems(disk[v].data) ELSE {})
               \union (IF Open /\ sg_logfile.path = v THEN Elems(buf) ELSE {})
      <4>1. CASE Aged(v)
        BY <1>6, <4>1 DEF SweepRemove
      <4>2. CASE ~Aged(v)
        <5>1. lost \union {} = lost
          OBVIOUS
        <5>2. QED
          BY <1>6, <4>2, <5>1 DEF SweepRemove
      <4>3. QED
        BY <4>1, <4>2
    <3>4. QED
      BY <3>1, <3>2, <3>3
  <2> HIDE DEF v
  <2>2. Held(disk', blocks)
    BY <2>1, HeldRemoved
  <2>3. FileLeft
    BY <1>0, <2>1 DEF FileLeft, FileTyped, Removed
  <2>4. sg_logfile' # NoFile \/ ~Open
    <3>1. CASE Open /\ sg_logfile.path = v
      <4>1. sg_logfile'.path = sg_logfile.path /\ sg_logfile.path \in Paths
        BY <2>1, <3>1 DEF FileTyped, NoFile
      <4>2. QED
        BY <4>1, PathIs DEF NoFile
    <3>2. CASE ~(Open /\ sg_logfile.path = v)
      BY <2>1, <3>2 DEF Open
    <3>3. QED
      BY <3>1, <3>2
  <2>5. lost' \subseteq 1 .. blocks
    BY <2>1 DEF Held
  <2>6. sweep'.todo \subseteq Paths
    BY <2>1 DEF ThreadsTyped
  <2>7. QED
    BY <1>2, <2>1, <2>2, <2>3, <2>4, <2>5, <2>6
<1>7. QED
  BY <1>4, <1>5, <1>6 DEF Sweep

\* The clock goes on, or is set back.
LEMMA StillTyped ==
  ASSUME TypeInv, UNCHANGED UseCache, sg_mode' \in Modes, clock' \in 1 .. MaxClock,
         UNCHANGED <<disk, openFile, call, mover, sweep, blocks, written, lost>>
  PROVE  TypeInv'
<1> USE DEF TypeInv, openFile, call
<1>1. Held(disk, blocks)'
  BY DEF Held, Paths, Dirs
<1>2. FileTyped' /\ LastTyped' /\ ThreadsTyped'
  BY DEF FileTyped, LastTyped, ThreadsTyped, Open, Paths, Dirs
<1>3. CallTyped'
  BY DEF CallTyped, InCall, Writing, Open
<1>4. QED
  BY <1>1, <1>2, <1>3

LEMMA EndTyped ==
  ASSUME TypeInv, UNCHANGED UseCache, Close \/ Crash
  PROVE  TypeInv'
<1> USE DEF TypeInv
<1>1. /\ sg_logfile' = NoFile /\ buf' = << >> /\ pc' = "idle"
      /\ disk' \in {disk, Flushed(disk)}
      /\ UNCHANGED <<clock, sg_mode, blocks, written>>
      /\ last' = last \/ last' = [time |-> 0, path |-> NoPath]
      /\ job' = job \/ job' = NoJob
      /\ mover' = mover \/ mover' = MoverDue
      /\ sweep' = sweep \/ sweep' = SweepDue
      /\ lost' = lost \/ lost' = lost \union Elems(buf)
  BY DEF Close, CloseFile, Crash, call, threads, bounds
<1>2. /\ Held(disk', blocks) /\ << >> \in Seq(Nat) /\ Elems(<< >>) = {}
      /\ 0 \in 0 .. MaxClock /\ 0 \in 0 .. blocks
  BY <1>1, HeldFlushed, ElemsOfFew, FilesAssumption
<1>3. FileTyped'
  BY <1>1 DEF FileTyped, Open
<1>4. LastTyped'
  BY <1>1, <1>2 DEF LastTyped, Paths, Dirs
<1>5. ThreadsTyped'
  BY <1>1 DEF ThreadsTyped, MoverDue, SweepDue, Paths, Dirs
<1>6. CallTyped'
  <2>1. job'.block \in 0 .. blocks /\ job'.time \in 0 .. MaxClock /\ DOMAIN job' = DOMAIN NoJob
    BY <1>1, <1>2 DEF CallTyped, NoJob
  <2>2. ~UseCache => ~mover'.due
    BY <1>1 DEF CallTyped, MoverDue
  <2>3. QED
    BY <1>1, <2>1, <2>2 DEF CallTyped, InCall, Writing
<1>7. QED
  BY <1>1, <1>2, <1>3, <1>4, <1>5, <1>6, AfterTyped

LEMMA TypeStep ==
  ASSUME TypeInv, [Next]_vars
  PROVE  TypeInv'
<1>1. UNCHANGED UseCache
  BY DEF Next, vars
<1>2. CASE UNCHANGED vars
  BY <1>2, StillTyped DEF vars, call, threads, bounds, TypeInv
<1>3. CASE \E move, roomy \in BOOLEAN : Log2File(move, roomy)
  BY <1>1, <1>3, BeginTyped
<1>4. CASE Log2FileStep
  <2>1. ~UseCache => pc \in {"idle", "openLog", "writeLog"}
    BY DEF TypeInv, CallTyped
  <2>2. "log" \in Dirs /\ (UseCache => "cache" \in Dirs)
    BY DEF Dirs
  <2>3. CASE OpenFile("openCache", "cache", "writeCache", "openLog")
    <3>1. UseCache
      BY <2>1, <2>3 DEF OpenFile
    <3>2. QED
      BY <1>1, <2>2, <2>3, <3>1, OpenTyped DEF Writing
  <2>4. CASE WriteFile("writeCache", AfterCache, AfterCache)
    <3>1. UseCache
      BY <2>1, <2>4 DEF WriteFile
    <3>2. AfterCache \in {"idle", "append"}
      BY DEF AfterCache
    <3>3. QED
      BY <1>1, <2>4, <3>1, <3>2, WriteTyped DEF Writing
  <2>5. CASE AppendCached \/ RemoveCached \/ CloseLog
    BY <1>1, <2>5, AppendCachedTyped, RemoveCachedTyped, CloseLogTyped
  <2>6. CASE OpenFile("openLog", "log", "writeLog",
                      IF UseCache THEN "openFallback" ELSE "idle")
    <3>1. CASE UseCache
      <4>1. OpenFile("openLog", "log", "writeLog", "openFallback")
        BY <2>6, <3>1
      <4>2. QED
        BY <1>1, <2>2, <3>1, <4>1, OpenTyped DEF Writing
    <3>2. CASE ~UseCache
      <4>1. OpenFile("openLog", "log", "writeLog", "idle")
        BY <2>6, <3>2
      <4>2. QED
        BY <1>1, <2>2, <3>2, <4>1, OpenTyped DEF Writing
    <3>3. QED
      BY <3>1, <3>2
  <2>7. CASE WriteFile("writeLog", "idle", AfterLog)
    <3>1. /\ AfterLog \in {"idle", "closeLog"}
          /\ ~UseCache => AfterLog = "idle"
      BY DEF AfterLog
    <3>2. QED
      BY <1>1, <2>7, <3>1, WriteTyped DEF Writing
  <2>8. CASE OpenFile("openFallback", "cache", "writeFallback", "idle")
    <3>1. UseCache
      BY <2>1, <2>8 DEF OpenFile
    <3>2. QED
      BY <1>1, <2>2, <2>8, <3>1, OpenTyped DEF Writing
  <2>9. CASE WriteFile("writeFallback", "idle", "idle")
    BY <1>1, <2>9, WriteTyped DEF Writing
  <2>10. QED
    BY <1>4, <2>3, <2>4, <2>5, <2>6, <2>7, <2>8, <2>9 DEF Log2FileStep
<1>5. CASE Mover \/ Sweep \/ Close \/ Crash
  BY <1>1, <1>5, MoverTyped, SweepTyped, EndTyped
<1>6. CASE Tick \/ SetBack
  <2>1. clock' \in 1 .. MaxClock
    BY <1>6, FilesAssumption DEF Tick, SetBack, TypeInv
  <2>2. /\ sg_mode' \in Modes
        /\ UNCHANGED <<disk, openFile, call, mover, sweep, blocks, written, lost>>
    BY <1>6 DEF Tick, SetBack, TypeInv, threads, bounds
  <2>3. QED
    BY <1>1, <2>1, <2>2, StillTyped
<1>7. CASE ReleaseDir
  BY <1>1, <1>7, StillTyped DEF ReleaseDir, bounds, TypeInv
<1>8. CASE \E mode \in Modes : SetMode(mode)
  BY <1>1, <1>8, StillTyped DEF SetMode, threads, bounds, TypeInv
<1>9. QED
  BY <1>2, <1>3, <1>4, <1>5, <1>6, <1>7, <1>8 DEF Next, Step

\* The state has its type, a FILE whose name is linked has its file, and what is
\* not open has nothing in its buffer, with the clock set back or not, in every
\* mode and across crashes (appender.cc:130-595).
THEOREM TypeCorrect == Spec => []TypeOK
<1>1. TypeInv => TypeOK
  <2> SUFFICES ASSUME TypeInv PROVE TypeOK
    OBVIOUS
  <2>1. clock \in 0 .. MaxClock /\ blocks \in Nat
    BY FilesAssumption DEF TypeInv
  <2>2. /\ DOMAIN disk \subseteq Paths
        /\ \A p \in DOMAIN disk :
             disk[p].at \in 0 .. MaxClock /\ Elems(disk[p].data) \subseteq 1 .. blocks
    BY DEF TypeInv, Held
  <2>3. /\ IF Open THEN /\ sg_logfile.dir \in Dirs
                        /\ sg_logfile.linked => sg_logfile.path \in DOMAIN disk
           ELSE buf = << >>
        /\ last.time \in 0 .. MaxClock /\ last.path \in Paths \union {NoPath}
    BY DEF TypeInv, FileTyped, LastTyped
  <2>4. /\ job.block \in 0 .. blocks
        /\ pc \in {"idle", "openCache", "writeCache", "append", "remove", "openLog",
                   "writeLog", "closeLog", "openFallback", "writeFallback", "mover",
                   "moverRemove"}
        /\ mover.todo \subseteq Paths /\ sweep.todo \subseteq Paths
    BY DEF TypeInv, CallTyped, ThreadsTyped, InCall
  <2>5. QED
    BY <2>1, <2>2, <2>3, <2>4 DEF TypeInv, TypeOK
<1>2. QED
  BY <1>1, InitTyped, TypeStep, PTL DEF Spec
=============================================================================
