------------------------------ MODULE LogFiles ------------------------------
(***************************************************************************)
(* The files behind the appender (Sources/Core/log/src/appender.cc:130-595 *)
(* and :904-927): how __log2file chooses, opens and splits the day's file, *)
(* how a cache directory takes what the log directory cannot, how cached   *)
(* files are moved over, and how old files are deleted.                    *)
(*                                                                         *)
(* Everything but the deletion runs under sg_mutex_log_file, one call at a *)
(* time; the process can die, the clock can pass midnight and the deleting *)
(* thread can run between any two operations on the file system.  A block  *)
(* is a number, given in the order __log2file takes them; every block has  *)
(* size one.  A path is a directory, a day and an index.                   *)
(***************************************************************************)
EXTENDS Naturals, Sequences, FiniteSets, FiniteSetsExt, Functions

CONSTANTS Modes,             \* the modes the application asks for
          sg_max_file_size,  \* blocks; 0 does not split
          CacheDirs,         \* whether sg_cache_logdir is set: what there may be
          CacheTime,         \* sg_cache_log_days, in ticks of the clock
          AliveTime,         \* sg_max_alive_time
          CallerKeepsDir,    \* open's _dir stays
          DayLen,            \* ticks of the clock in a day
          MaxClock,          \* bound: the last time
          MaxBack,           \* bound: times the clock is set back
          MaxBlocks,         \* bound: calls of __log2file
          MaxFaults,         \* bound: file operations that fail
          MaxCrashes,        \* bound: crashes of the process
          Sweeps,            \* bound: the directories whose thread gets to delete
          MaxMishaps         \* bound: the three together

ASSUME FilesAssumption ==
  /\ Modes \subseteq {"Async", "Sync"} /\ Modes # {}
  /\ CacheDirs \subseteq BOOLEAN /\ CacheDirs # {} /\ CallerKeepsDir \in BOOLEAN
  /\ sg_max_file_size \in Nat
  /\ DayLen \in Nat \ {0} /\ MaxClock \in Nat \ {0} /\ MaxBack \in Nat
  \* days are set in days; kMinLogAliveTime is one
  /\ CacheTime \in Nat /\ CacheTime % DayLen = 0
  /\ AliveTime \in Nat /\ AliveTime >= DayLen
  /\ MaxBlocks \in Nat /\ MaxFaults \in Nat /\ MaxCrashes \in Nat
  /\ MaxMishaps \in Nat /\ Sweeps \subseteq {"log", "cache"}

VARIABLES
  clock,       \* what gettimeofday and time say
  disk,        \* the files there are: their blocks and the time of the last write
  UseCache,    \* sg_cache_logdir is set
  sg_mode,
  sg_logfile,  \* NoFile, or the open FILE with sg_openfiletime, sg_current_dir
  buf,         \* the blocks in its buffer
  last,        \* s_last_time and s_last_file_path
  pc, job,     \* the call that holds sg_mutex_log_file
  mover,       \* the thread that runs __move_old_files
  sweep,       \* the threads that run __del_timeout_file
  dirAlive,    \* the string that open's _dir points to is still there
  blocks, faults, crashes, backs,   \* counters of the bounds
  written,     \* history: the blocks whose fwrite succeeded
  lost         \* history: those that a crash, an error of the device which no
               \* call reports, or their age have taken

openFile == <<sg_logfile, buf, last>>
call == <<pc, job>>
threads == <<mover, sweep, dirAlive>>
bounds == <<blocks, faults, crashes, backs>>
vars == <<UseCache, clock, disk, sg_mode, openFile, call, threads, bounds, written, lost>>

-----------------------------------------------------------------------------
Dirs == {"log"} \union (IF UseCache THEN {"cache"} ELSE {})
NoPath == [dir |-> "NULL", day |-> 0, idx |-> 0]
NoFile == [path |-> NoPath, dir |-> "NULL", time |-> 0, linked |-> FALSE]
Day(t) == t \div DayLen
Elems(s) == {s[i] : i \in DOMAIN s}

\* The file system after blocks are appended to a file that fopen "ab" may
\* have to create, and after one is removed.
Appended(d, p, bs) ==
  IF bs = << >> /\ p \in DOMAIN d THEN d
  ELSE [q \in DOMAIN d \union {p} |->
          IF q # p THEN d[q]
          ELSE [data |-> IF p \in DOMAIN d THEN d[p].data \o bs ELSE bs,
                at |-> clock]]
Removed(d, p) == [q \in DOMAIN d \ {p} |-> d[q]]

Size(d, p) == IF p \in DOMAIN d THEN Len(d[p].data) ELSE 0

\* Mutant of NextIndex: only one directory is measured.
NextIndexOfLog(d, day) ==
  LET used == {p.idx : p \in {q \in DOMAIN d : q.day = day}}
  IN IF sg_max_file_size = 0 \/ used = {} THEN 0
     ELSE LET i == Max(used)
          IN IF Size(d, [dir |-> "log", day |-> day, idx |-> i]) > sg_max_file_size
             THEN i + 1 ELSE i

\* __get_next_fileindex: the last index of the day in either directory, or
\* the next one when the files with that index are too large together.
NextIndex(d, day) ==
  LET used == {p.idx : p \in {q \in DOMAIN d : q.day = day}}
  IN IF sg_max_file_size = 0 \/ used = {} THEN 0
     ELSE LET i == Max(used)
              size == Size(d, [dir |-> "log", day |-> day, idx |-> i])
                      + Size(d, [dir |-> "cache", day |-> day, idx |-> i])
          IN IF size > sg_max_file_size THEN i + 1 ELSE i

LogFileName(d, dir, t) == [dir |-> dir, day |-> Day(t), idx |-> NextIndex(d, Day(t))]

Open == sg_logfile # NoFile

\* fclose: the buffer goes to the file, if the file still has a name.
Flushed(d) ==
  IF Open /\ sg_logfile.linked THEN Appended(d, sg_logfile.path, buf) ELSE d

\* A FILE stays open when its name is removed.
Unlink(p) ==
  sg_logfile' = IF Open /\ sg_logfile.path = p
                THEN [sg_logfile EXCEPT !.linked = FALSE] ELSE sg_logfile

Mishap == faults + crashes + backs < MaxMishaps
Fault == Mishap /\ faults < MaxFaults /\ faults' = faults + 1

NoJob == [block |-> 0, move |-> FALSE, cached |-> FALSE, path |-> NoPath, time |-> 0]

\* Open starts the threads once: the mover after three minutes, the sweeps
\* after two, later if the device sleeps.
MoverDue == [due |-> UseCache, now |-> 0, todo |-> {}]
SweepDue == [due |-> Dirs \intersect Sweeps, now |-> 0, todo |-> {}, victim |-> NoPath]

Init ==
  /\ UseCache \in CacheDirs
  /\ clock = 1
  /\ disk = << >>
  /\ sg_mode \in Modes
  /\ sg_logfile = NoFile /\ buf = << >>
  /\ last = [time |-> 0, path |-> NoPath]
  /\ pc = "idle" /\ job = NoJob
  /\ mover = MoverDue /\ sweep = SweepDue
  /\ dirAlive = TRUE
  /\ blocks = 0 /\ faults = 0 /\ crashes = 0 /\ backs = 0
  /\ written = {} /\ lost = {}
-----------------------------------------------------------------------------
(* __log2file.                                                              *)

\* Mutant of Log2File: a cached file that exists is not gone on with.
Log2FileAfresh(move, roomy) ==
  /\ pc = "idle"
  /\ blocks < MaxBlocks
  /\ blocks' = blocks + 1
  /\ LET path == LogFileName(disk, "cache", clock)
         cached == /\ UseCache /\ CacheTime > 0 /\ roomy
                   /\ LogFileName(disk, "log", clock) \notin DOMAIN disk
     IN /\ job' = [block |-> blocks', move |-> move, cached |-> cached,
                   path |-> path, time |-> clock]
        /\ pc' = IF cached THEN "openCache" ELSE "openLog"
  /\ UNCHANGED <<clock, disk, sg_mode, openFile, threads, faults, crashes, backs,
                 written, lost>>

\* With a cache, the day's cached file is used when it exists, or when
\* __cache_logs finds no log file yet and room enough.
Log2File(move, roomy) ==
  /\ pc = "idle"
  /\ blocks < MaxBlocks
  /\ blocks' = blocks + 1
  /\ LET path == LogFileName(disk, "cache", clock)
         cached == /\ UseCache /\ CacheTime > 0 /\ roomy
                   /\ LogFileName(disk, "log", clock) \notin DOMAIN disk
     IN /\ job' = [block |-> blocks', move |-> move, cached |-> cached,
                   path |-> path, time |-> clock]
        /\ pc' = IF cached \/ path \in DOMAIN disk THEN "openCache" ELSE "openLog"
  /\ UNCHANGED <<clock, disk, sg_mode, openFile, threads, faults, crashes, backs,
                 written, lost>>

\* __openlogfile goes on with the open file on the same day and directory.
Reusable(dir) ==
  /\ Open
  /\ Day(sg_logfile.time) = Day(clock)
  /\ sg_logfile.dir = dir

\* Otherwise it closes it and opens the day's file; when the clock has gone
\* back, the file it opened last.
OpenFile(from, dir, ok, fail) ==
  /\ pc = from
  /\ \/ Reusable(dir) /\ pc' = ok
        /\ UNCHANGED <<disk, openFile, faults>>
     \/ /\ ~Reusable(dir)
        /\ buf' = << >>
        /\ LET d == Flushed(disk)
               back == clock < last.time
               name == LogFileName(d, dir, clock)
               path == IF back THEN last.path ELSE name
           IN /\ last' = IF back THEN last ELSE [time |-> clock, path |-> name]
              /\ \/ /\ disk' = Appended(d, path, << >>)
                    /\ sg_logfile' = [path |-> path, dir |-> dir, time |-> clock,
                                      linked |-> TRUE]
                    /\ pc' = ok
                    /\ UNCHANGED faults
                 \/ /\ Fault
                    /\ disk' = d
                    /\ sg_logfile' = NoFile
                    /\ pc' = fail
  /\ UNCHANGED <<clock, sg_mode, job, threads, blocks, crashes, backs, written, lost>>

\* __closelogfile.
CloseFile ==
  /\ disk' = Flushed(disk)
  /\ sg_logfile' = NoFile
  /\ buf' = << >>

\* __writefile, and the close that follows in Async mode.
WriteOk ==
  /\ written' = written \union {job.block}
  /\ IF sg_mode = "Async"
     THEN /\ sg_logfile' = NoFile /\ buf' = << >>
          /\ LET bs == Append(buf, job.block)
             IN \/ /\ disk' = IF sg_logfile.linked
                              THEN Appended(disk, sg_logfile.path, bs) ELSE disk
                   /\ UNCHANGED <<faults, lost>>
                \* fclose fails to write the buffer, and nobody looks.
                \/ Fault /\ lost' = lost \union Elems(bs) /\ UNCHANGED disk
     ELSE /\ UNCHANGED <<sg_logfile, faults, lost>>
          /\ \/ buf' = Append(buf, job.block) /\ UNCHANGED disk
             \/ /\ sg_logfile.linked
                /\ disk' = Appended(disk, sg_logfile.path, Append(buf, job.block))
                /\ buf' = << >>

\* fwrite fails: the file is cut back to what it was, which in Sync mode may
\* be less than what the buffer made of it.
WriteFails ==
  /\ Fault
  /\ UNCHANGED written
  /\ IF sg_mode = "Async"
     THEN CloseFile /\ UNCHANGED lost
     ELSE /\ UNCHANGED <<disk, sg_logfile>>
          /\ \/ UNCHANGED <<buf, lost>>
             \/ buf' = << >> /\ lost' = lost \union Elems(buf)

WriteFile(from, ok, fail) ==
  /\ pc = from
  /\ \/ WriteOk /\ pc' = ok
     \/ WriteFails /\ pc' = fail
  /\ UNCHANGED <<clock, sg_mode, last, job, threads, blocks, crashes, backs>>

\* Whether the cached file took the block or not, it is moved over, unless
\* the cache is wanted or the caller has asked for no move.
AfterCache == IF job.cached \/ ~job.move THEN "idle" ELSE "append"

\* A failed write to the log directory is repeated in the cache.
AfterLog == IF UseCache THEN "closeLog" ELSE "idle"

CloseLog ==
  /\ pc = "closeLog"
  /\ IF sg_mode = "Sync" THEN CloseFile ELSE UNCHANGED <<disk, sg_logfile, buf>>
  /\ pc' = "openFallback"
  /\ UNCHANGED <<clock, sg_mode, last, job, threads, bounds, written, lost>>

\* Mutant of AppendFile: a copy that is cut short is taken for a success.
AppendFileUnchecked(src, dst, ok) ==
  LET bs == IF src \in DOMAIN disk THEN disk[src].data ELSE << >>
  IN /\ ok <=> src \in DOMAIN disk
     /\ \/ /\ disk' = IF bs = << >> THEN disk ELSE Appended(disk, dst, bs)
           /\ UNCHANGED <<faults, lost>>
        \/ ok /\ Fault /\ UNCHANGED <<disk, lost>>

\* __append_file, its result in ok.  dst is cut back when it is short; that
\* its fclose may fail is not looked at.
AppendFile(src, dst, ok) ==
  LET bs == IF src \in DOMAIN disk THEN disk[src].data ELSE << >>
  IN \/ /\ ok
        /\ src \in DOMAIN disk
        /\ \/ /\ disk' = IF bs = << >> THEN disk ELSE Appended(disk, dst, bs)
              /\ UNCHANGED <<faults, lost>>
           \/ Fault /\ lost' = lost \union Elems(bs) /\ UNCHANGED disk
     \/ /\ ~ok
        /\ \/ src \notin DOMAIN disk /\ UNCHANGED <<disk, faults>>
           \/ src \in DOMAIN disk /\ Fault /\ disk' \in {disk, Appended(disk, dst, << >>)}
        /\ UNCHANGED lost

AppendCached ==
  /\ pc = "append"
  /\ \E ok \in BOOLEAN :
       /\ AppendFile(job.path, LogFileName(disk, "log", job.time), ok)
       /\ pc' = IF ok THEN "remove" ELSE "idle"
  /\ UNCHANGED <<clock, sg_mode, openFile, job, threads, blocks, crashes, backs,
                 written>>

\* Mutant of RemoveCached: without the braces the file is only removed in
\* Sync mode.
RemoveCachedInSync ==
  /\ pc = "remove"
  /\ IF sg_mode = "Sync"
     THEN /\ disk' = Removed(Flushed(disk), job.path)
          /\ sg_logfile' = NoFile /\ buf' = << >>
     ELSE UNCHANGED <<disk, sg_logfile, buf>>
  /\ pc' = "idle"
  /\ UNCHANGED <<clock, sg_mode, last, job, threads, bounds, written, lost>>

RemoveCached ==
  /\ pc = "remove"
  /\ IF sg_mode = "Sync"
     THEN /\ disk' = Removed(Flushed(disk), job.path)
          /\ sg_logfile' = NoFile /\ buf' = << >>
     ELSE /\ disk' = Removed(disk, job.path)
          /\ Unlink(job.path) /\ UNCHANGED buf
  /\ pc' = "idle"
  /\ UNCHANGED <<clock, sg_mode, last, job, threads, bounds, written, lost>>

Log2FileStep ==
  \/ OpenFile("openCache", "cache", "writeCache", "openLog")
  \/ WriteFile("writeCache", AfterCache, AfterCache)
  \/ AppendCached \/ RemoveCached
  \/ OpenFile("openLog", "log", "writeLog", IF UseCache THEN "openFallback" ELSE "idle")
  \/ WriteFile("writeLog", "idle", AfterLog)
  \/ CloseLog
  \/ OpenFile("openFallback", "cache", "writeFallback", "idle")
  \/ WriteFile("writeFallback", "idle", "idle")
-----------------------------------------------------------------------------
(* __move_old_files, in a thread of its own, under sg_mutex_log_file.       *)

MoverStart ==
  /\ pc = "idle"
  /\ mover.due
  /\ mover' = [due |-> FALSE, now |-> clock,
               todo |-> {p \in DOMAIN disk : p.dir = "cache"}]
  /\ pc' = "mover"
  /\ UNCHANGED <<clock, disk, sg_mode, openFile, job, sweep, dirAlive,
                 bounds, written, lost>>

\* A file that was written less than sg_cache_log_days ago stays.
Cached(p) ==
  /\ CacheTime > 0
  /\ mover.now > disk[p].at
  /\ mover.now - disk[p].at < CacheTime

MoverNext(p) ==
  /\ pc = "mover"
  /\ p \in mover.todo \intersect DOMAIN disk
  /\ mover' = [mover EXCEPT !.todo = @ \ {p}]
  /\ \/ Cached(p)
        /\ UNCHANGED <<disk, pc, job, faults, lost>>
     \/ /\ ~Cached(p)
        /\ \E ok \in BOOLEAN :
             /\ AppendFile(p, [p EXCEPT !.dir = "log"], ok)
             /\ pc' = IF ok THEN "moverRemove" ELSE "idle"
        /\ job' = [job EXCEPT !.path = p]
  /\ UNCHANGED <<clock, sg_mode, openFile, sweep, dirAlive, blocks,
                 crashes, backs, written>>

MoverRemove ==
  /\ pc = "moverRemove"
  /\ disk' = Removed(disk, job.path)
  /\ Unlink(job.path)
  /\ pc' = "mover"
  /\ UNCHANGED <<clock, sg_mode, buf, last, job, threads, bounds, written, lost>>

MoverEnd ==
  /\ pc = "mover"
  /\ mover.todo \intersect DOMAIN disk = {}
  /\ mover' = [mover EXCEPT !.todo = {}]
  /\ pc' = "idle"
  /\ UNCHANGED <<clock, disk, sg_mode, openFile, job, sweep, dirAlive,
                 bounds, written, lost>>

Mover ==
  \/ MoverStart \/ MoverRemove \/ MoverEnd
  \/ \E p \in mover.todo : MoverNext(p)
-----------------------------------------------------------------------------
(* __del_timeout_file, with no lock.  The two directories' threads touch    *)
(* different files and are taken one after the other.                       *)

\* boost::bind has kept open's _dir as the pointer it is: what it points to
\* when the thread starts may be another path, or none.
SweepStart(dir) ==
  /\ dir \in sweep.due
  /\ sweep.todo = {} /\ sweep.victim = NoPath
  /\ \E seen \in {TRUE} \union {dirAlive \/ dir = "cache"} :
       sweep' = [due |-> sweep.due \ {dir}, now |-> clock, victim |-> NoPath,
                 todo |-> IF seen THEN {p \in DOMAIN disk : p.dir = dir} ELSE {}]
  /\ UNCHANGED <<clock, disk, sg_mode, openFile, call, mover, dirAlive, bounds,
                 written, lost>>

\* Mutant of SweepCheck: any file that is not of this moment is too old.
SweepCheckYoung(p) ==
  /\ sweep.victim = NoPath
  /\ p \in sweep.todo
  /\ sweep' = [sweep EXCEPT
       !.todo = @ \ {p},
       !.victim = IF p \in DOMAIN disk /\ sweep.now > disk[p].at THEN p ELSE NoPath]
  /\ UNCHANGED <<clock, disk, sg_mode, openFile, call, mover, dirAlive,
                 bounds, written, lost>>

SweepCheck(p) ==
  /\ sweep.victim = NoPath
  /\ p \in sweep.todo
  /\ sweep' = [sweep EXCEPT
       !.todo = @ \ {p},
       !.victim = IF /\ p \in DOMAIN disk
                     /\ sweep.now > disk[p].at
                     /\ sweep.now - disk[p].at > AliveTime THEN p ELSE NoPath]
  /\ UNCHANGED <<clock, disk, sg_mode, openFile, call, mover, dirAlive,
                 bounds, written, lost>>

\* The day of the file had begun when sg_max_alive_time was still to come
\* before the sweep.
Aged(p) ==
  /\ sweep.now > AliveTime
  /\ p.day <= Day(sweep.now - AliveTime - 1)

\* What is removed is lost to its age only when the file's day is that old:
\* a file that is written after the check takes young blocks with it.
SweepRemove ==
  /\ sweep.victim # NoPath
  /\ disk' = Removed(disk, sweep.victim)
  /\ lost' = lost \union
       (IF ~Aged(sweep.victim) THEN {}
        ELSE (IF sweep.victim \in DOMAIN disk
              THEN Elems(disk[sweep.victim].data) ELSE {})
             \union (IF Open /\ sg_logfile.path = sweep.victim
                     THEN Elems(buf) ELSE {}))
  /\ Unlink(sweep.victim)
  /\ sweep' = [sweep EXCEPT !.victim = NoPath]
  /\ UNCHANGED <<clock, sg_mode, buf, last, call, mover, dirAlive, bounds,
                 written>>

Sweep ==
  \/ \E dir \in Dirs : SweepStart(dir)
  \/ \E p \in sweep.todo : SweepCheck(p)
  \/ SweepRemove
-----------------------------------------------------------------------------
(* The world around.                                                        *)

\* A call of __log2file is over before the clock has gone on twice.
Tick ==
  /\ clock < MaxClock
  /\ pc \notin {"idle", "mover", "moverRemove"} => clock <= job.time
  /\ clock' = clock + 1
  /\ UNCHANGED <<disk, sg_mode, openFile, call, threads, bounds, written, lost>>

SetBack ==
  /\ Mishap /\ backs < MaxBack
  /\ clock > 1
  /\ clock' = clock - 1
  /\ backs' = backs + 1
  /\ UNCHANGED <<disk, sg_mode, openFile, call, threads, blocks, faults, crashes,
                 written, lost>>

\* The facade's string goes some time after the call of open has returned.
ReleaseDir ==
  /\ ~CallerKeepsDir
  /\ dirAlive
  /\ "log" \in sweep.due
  /\ dirAlive' = FALSE
  /\ UNCHANGED <<clock, disk, sg_mode, openFile, call, mover, sweep, bounds,
                 written, lost>>

SetMode(mode) ==
  /\ sg_mode' = mode
  /\ UNCHANGED <<clock, disk, openFile, call, threads, bounds, written, lost>>

\* kflog_appender_close, its last statements.
Close ==
  /\ pc = "idle"
  /\ Open
  /\ CloseFile
  /\ UNCHANGED <<clock, sg_mode, last, call, threads, bounds, written, lost>>

\* The process dies and the next one opens the appender.
Crash ==
  /\ Mishap /\ crashes < MaxCrashes
  /\ crashes' = crashes + 1
  /\ lost' = lost \union Elems(buf)
  /\ sg_logfile' = NoFile /\ buf' = << >>
  /\ last' = [time |-> 0, path |-> NoPath]
  /\ pc' = "idle" /\ job' = NoJob
  /\ mover' = MoverDue /\ sweep' = SweepDue /\ dirAlive' = TRUE
  /\ UNCHANGED <<clock, disk, sg_mode, blocks, faults, backs, written>>

Step ==
  \/ \E move, roomy \in BOOLEAN : Log2File(move, roomy)
  \/ Log2FileStep \/ Mover \/ Sweep
  \/ Tick \/ SetBack \/ ReleaseDir \/ Close \/ Crash
  \/ \E mode \in Modes : SetMode(mode)

Next == Step /\ UNCHANGED UseCache

Spec == Init /\ [][Next]_vars
-----------------------------------------------------------------------------
(* Properties.                                                              *)

Paths == [dir : Dirs, day : Nat, idx : Nat]

\* The state has its type, a FILE that is linked has its file (another
\* thread may have removed it only by clearing the link), and what is not
\* open has nothing in its buffer.
TypeOK ==
  /\ UseCache \in CacheDirs
  /\ clock \in 0..MaxClock
  /\ DOMAIN disk \subseteq Paths
  /\ \A p \in DOMAIN disk : disk[p].at \in 0..MaxClock /\ Elems(disk[p].data) \subseteq 1..blocks
  /\ sg_mode \in Modes
  /\ IF Open THEN /\ sg_logfile.dir \in Dirs
                  /\ sg_logfile.linked => sg_logfile.path \in DOMAIN disk
     ELSE buf = << >>
  /\ last.time \in 0..MaxClock /\ last.path \in Paths \union {NoPath}
  /\ job.block \in 0..blocks
  /\ pc \in {"idle", "openCache", "writeCache", "append", "remove", "openLog",
             "writeLog", "closeLog", "openFallback", "writeFallback", "mover",
             "moverRemove"}
  /\ mover.todo \subseteq Paths /\ sweep.todo \subseteq Paths
  /\ written \subseteq 1..blocks /\ lost \subseteq 1..blocks

Blocks(p) == Elems(disk[p].data)
OnDisk == UNION {Blocks(p) : p \in DOMAIN disk}
InBuffer == IF Open /\ sg_logfile.linked THEN Elems(buf) ELSE {}

\* A block that fwrite took is in a file or in the buffer of one, whatever
\* the moves, the splits, the fallback to the cache, the day changes, the
\* failures and the deleting thread have done since; only a crash, a device
\* that fails where no call reports it, and its age take it (__log2file,
\* __append_file, __move_old_files, __del_timeout_file).  Sync mode with a
\* cache directory does not keep this: __append_file copies what is on disk
\* of a file that is open, and that file is then removed.  Neither does a clock
\* that was set ahead and back: the file of the day was too old for a while,
\* and Sync mode goes on writing to what the deleting thread has removed.
Kept ==
  backs = 0 /\ ~(UseCache /\ "Sync" \in Modes) =>
    written \subseteq OnDisk \union InBuffer \union lost

\* A block is in one file, once, but for the moment between __append_file
\* and remove; only a crash in that moment makes a second copy stay.
Once ==
  crashes = 0 /\ pc \notin {"remove", "moverRemove"} =>
    /\ \A p, q \in DOMAIN disk : p # q => Blocks(p) \intersect Blocks(q) = {}
    /\ \A p \in DOMAIN disk : IsInjective(disk[p].data)

\* What a reader of the day's files sees who takes them by index, the log
\* directory's before the cached one, and leaves out what he has seen.
Content(p) == (IF p \in DOMAIN disk THEN disk[p].data ELSE << >>)
              \o (IF Open /\ sg_logfile.linked /\ sg_logfile.path = p THEN buf ELSE << >>)
DayContent(day) ==
  LET at(i) == Content([dir |-> "log", day |-> day, idx |-> i])
               \o Content([dir |-> "cache", day |-> day, idx |-> i])
      upTo[i \in 0..MaxBlocks] == IF i = 0 THEN at(0) ELSE upTo[i - 1] \o at(i)
  IN upTo[MaxBlocks]

\* The files of a day, read so, have its blocks in the order __log2file got
\* them, across splits, moves between the directories, crashes and restarts, as
\* long as no operation fails: a cached file that cannot be opened is passed
\* over for the log directory
\* (__get_next_fileindex, __log2file, __append_file).
InOrder ==
  faults = 0 =>
    \A day \in 0..Day(MaxClock) :
      LET c == DayContent(day)
      IN \A i, j \in DOMAIN c :
           i < j /\ c[i] > c[j] => \E k \in 1..(i - 1) : c[k] = c[j]

\* Splitting works: no file is more than one block above the limit,
\* although a file may grow by its own blocks and by those of the cached
\* file of the same or the last index (__get_next_fileindex).
SizeBound ==
  sg_max_file_size > 0 /\ crashes = 0 =>
    \A p \in DOMAIN disk : Len(disk[p].data) <= sg_max_file_size + 1
=============================================================================
