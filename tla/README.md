# KFLog in TLA+

KFLog is a logging library for Apple platforms: Swift and Objective-C facades
over a C++ engine descended from Tencent's mars xlog. Log lines are compressed
and encrypted into a memory-mapped buffer that survives the process, and a
background thread moves the buffer's content to dated log files. This directory
holds a TLA+ model of the engine, the TLC configurations that check it and
TLAPS proofs about it. Paths below are relative to the repository; `appender.cc`
is `Sources/Core/log/src/appender.cc`.

## The system

| Component | State | Operations | Talks to |
|---|---|---|---|
| Appender (`appender.cc`) | `sg_mode`, `sg_log_close`, `sg_log_buff`, the open `FILE`, directories, limits | `kflog_appender_open[_with_cache]`, `_close`, `_flush`, `_flush_sync`, `_setmode`, `kflogger_appender` | every other part |
| Background thread (`__async_log_thread`) | its place in the loop, the block it holds | empty the buffer, write, check the flag, wait 15 minutes | buffer under `sg_mutex_buffer_async`, file under `sg_mutex_log_file`, condition `sg_cond_buffer_async` |
| Log buffer (`log_buffer.cc`, `crypt/log_crypt.cc`) | the block's bytes in mapped memory, length, the compression stream, bytes not yet encrypted | `Write`, `Flush`, recovery in the constructor | `PtrBuffer`, `LogCrypt` |
| Log files (`appender.cc` 130-595) | files in the log and the cache directory, current file, last time and tick | choose a name, open, write, cut off a failed write, split by size, move, delete | appender, two delayed threads |
| Threads and locks (`comm/unix/thread`, `comm/thread`) | reference count, tid, joined/ended flags; sticky notify | `start`, `start_after`, `start_periodic`, `join`, `wait`, `notifyAll`; `ScopedMutexVector` | pthreads |
| Mapped file (`mmap_util.cc`) | the file and its mapping | create, preallocate, map, close | file system |
| Buffers (`ptrbuffer.cc`, `autobuffer.cc`) | pointer, position, length, capacity | read, write, seek, move, grow | |
| Recursion guard (`scope_recursion_limit.h`, `appender.cc` 675-705) | depth and a saved text per thread | enter, leave | console, appender |
| Logger base (`kfloggerbase.c`) | global level, appender pointer | set, test, write | appender |
| Facades (`KFLog`, `KFLogAPI`, `KFLogSwift`) | levels, directory, prefix; a list of loggers | initialize, log, flush, unInit | engine |

What is hard in it. Callers, the background thread and the controlling thread
share three globals that only some paths read under a lock. A block leaves the
buffer under one lock and reaches the file under another, and lives on a stack
in between. Notifies are given without the condition's mutex. The buffer
outlives the process, which may die between any two stores to it, and the next
process believes what it finds. The buffer is finite and nobody is told when a
line does not fit. `PROJECT.json` lists these hazards at their lines with the
properties that cover them.

What makes it correct. A line is written at most once; it is lost only when the
process dies or the buffer is thrown away by `close`; the lines of a thread stay
in order, and what `close` throws away of those the buffer has taken is a tail; nothing uses the buffer when it is not
there; while the appender stays open in Async mode every buffered line is
written in the end, and `close` returns. A block that leaves the buffer can be
decoded as far as its header says.

## Modules

`AbstractLog` is the promise: an entry is pending from its acceptance until it
is written, never written twice, never removed, and dropped only when the
process or the buffer ends its life.

`Appender` is `appender.cc` at the grain of its critical sections and unlocked
accesses. One step is a stretch of code during which no other thread can
interfere: the body of a lock, or one read or write of an unprotected global.
The `LogBuffer::Flush` of `kflog_appender_open` (853) has no lock: the end of the stream, the
look at the length, the copy and the clearing are steps of their own, and a call left over
from the last session, or a thread that `setmode` has started on the closed appender, comes
between any two. Within one of these the other side is taken to come before or after:
that a copy or a clearing could meet a half-written entry is not in the model.

| In the model | In the code |
|---|---|
| `CallAppender`, `ReadMode`, `Append2Buffer`, `AppendDropped` | `kflogger_appender` up to line 671, line 707, `__kflog_appender_async` |
| `SyncFormat`, `SyncWrite` | `__kflog_appender_sync`: line 642 with no lock, then `__log2file` |
| `OpenBuffer`, `OpenRecover`, `OpenUnclose`, `OpenSetMode`, `OpenRecovered`, `OpenBanner`; `OpenAgain` | `kflog_appender_open`: attach (837-844), `Flush` without a lock (853: `OpenEndStream`, `OpenMeasure`, `OpenCopy`, `OpenClear`), the flag (858), the mode (859), the recovered block between two tips (865-869), the lines that describe the session (871-898); the call on an open appender (815-818) |
| `Flush`, `FlushSyncTake`, `WriteTaken("flushSync", _)`, `SetMode` | lines 929-949 and 985-993 |
| `CloseMark`, `CloseFlag`, `CloseJoin`, `CloseFree`, `CloseFile` | `kflog_appender_close`, statement by statement |
| `AsyncTake` ... `AsyncEnd` | `__async_log_thread` and the end of its thread routine |
| `Log2File` | `__log2file` with `__openlogfile`, `__writefile`, `__closelogfile` when they succeed |
| `Crash`, `ProcessDies` | the process ends: the mapped memory and the file remain |

`mem["mmap"]` is the mapped file, `mem["heap"]` the fallback allocation, whose
bytes are not initialized: it starts empty or with what an earlier session left.
`stdio` is what `fwrite` has put into a `FILE` that Sync mode keeps open.
`fault` is set by the step that goes through a NULL `sg_log_buff` (`NullBuffer`), which ends the
process. Two constants say what the application may do: `QuietClose`, that it logs nothing
while it closes, and `ClosedSetMode`, that it may call `setmode` on a closed appender.

`AppenderProps` holds the properties, `MCAppender` the instances for TLC,
`AppenderProofs` the theorems.

`LogBuffer` is one LogBuffer on mapped memory, byte by byte behind the header. A
byte is its place in the compressed stream and the cipher units it went through;
so a byte encrypted twice, or in the wrong unit, or out of place, is told apart
from a good one. `Write` is five steps (`ResetMagic`, `ResetLength`, `Deflate`,
`Crypt`, `UpdateLogLen`), `Flush` is `FlushNothing` or `FlushBlock`, then `Clear` and
`ClearDone`; a crash can come between any two, and within the copy of the
encrypted bytes. `Fix` is the constructor of the next process. `MCLogBuffer`
instantiates it.

`LogFiles` is the file system under the appender, and everything that works on
it: `__log2file` and what it calls, `__move_old_files`, `__del_timeout_file`. A step is
one file operation, because the process can die and the deleting thread can run
between any two. `disk` holds the files by directory, day and index, `buf` what is in
the `FILE` that is open; `linked` is cleared when its name is removed. Appender's single
step `Log2File` is the way of `LogFiles` where nothing fails.

| In the model | In the code |
|---|---|
| `NextIndex`, `LogFileName` | `__get_next_fileindex`, `__make_logfilename` (186-248) |
| `Log2File` | the choice of the directory, 528-552, with `__cache_logs`; `roomy` is its look at the free space |
| `OpenFile`, `WriteFile`, `CloseFile` | `__openlogfile`, `__writefile`, `__closelogfile` |
| `AppendCached`, `RemoveCached` | 562-570: the cached file is appended to the log directory's and removed |
| `CloseLog`, then `openFallback`, `writeFallback` | 582-593: what the log directory does not take goes to the cache |
| `MoverStart` ... `MoverEnd` | `__move_old_files`, all under `sg_mutex_log_file` |
| `SweepStart`, `SweepCheck`, `SweepRemove` | `__del_timeout_file`, under no lock |
| `written`, `lost` | history: what `fwrite` took, and what a crash, an error no call reports, or its age has taken |

`MCLogFiles` instantiates it, `LogFilesProofs` holds the theorems.

`ThreadLife` is `comm/unix/thread/thread.h` with `condition.h`: one Thread object, the
reference-counted `RunnableReference` it shares with the pthreads it starts, and the
callers that start, join, cancel, kill and destroy it. The reference's spin lock makes
one step of what is done under it, except that `cancel_after` is two, because the
pthread looks at `iscanceldelaystart` and `anyway_notify_` without that lock.

| In the model | In the code |
|---|---|
| `StartOk`, `StartFails`, `StartOkNoRef` (its mutant), `ClearDelay` | `start`, `start_after`, `start_periodic`, with `pthread_create` that works or fails |
| `JoinClaim`, `JoinRead`, `OutsideJoin`, `JoinReturn` | `join`: `isjoined` under the lock, `tid` and `pthread_join` outside of it |
| `CancelMark`, `CancelNotify` | `cancel_after`, `cancel_periodic`: the flag, then `notifyAll(true)` |
| `KillEarly`, `KillLate`, `KillSend` | `kill`, before and after the pthread has come up |
| `ThreadInit` ... `Exit` | `init`, `start_routine` and its two delayed forms, `cleanup` |
| `Look`, `LookAgain`, `TakeMark`, `Sleep`, `Timeout`, `EndWait` | `Condition::wait(lock, ms)` with its sticky notify, as the delayed routines call it |
| `Destroy` | `~Thread` |

`released`, `misuse`, `stopped`, `meant` and `signalled` are history: who gave a pthread
back, whether a pthread call got an id that was no longer one, who was cancelled, who
should have got a signal and who did. `Appender`'s `asyncPc` is a Thread
object of this kind reduced to its life cycle.

`MutexVector` is `comm/thread/mutexvector.h`, the lock that many members of one group hold
together; `AbstractGroupLock` is its promise: a holder is let in only when the
holders, if any, are of its group. `m_vec` and `m_count` have their names; a caller is
idle, asleep in the wait, woken, or in.

`Recursion` is `kflogger_appender` called from inside itself: a failing `ASSERT` in the
code that the appender runs logs through it again, in the same thread and under the
locks that the thread holds. The mutexes are of the ERRORCHECK kind, so taking one's
own fails, which is asserted as well, and the code goes on without it. Every
thread has a stack of frames; `Step` is the code of the topmost one: the guard
(`scope_recursion_limit.h`, lines 675-705 of `appender.cc`: `Nested`, `TooDeep`, `SaveText`,
`TakeText`, `NoText`, `WriteTip`) and the two ways of a line (`AppendAsync`, `AppendSync`).

`PeriodLogs` is `LogCrypt::GetPeriodLogs`: a day's file as cells, one per byte, written
block by block with torn ones between (`Write`, `WriteTorn`), then one
call for a period. A block may have any two hours: a recovered block is behind a tip of
the current hour (`appender.cc:866-867`) and began earlier, a block may have been begun the day before,
and the clock may be set. `Skip` is the step to the next byte, `ReadBlock` the arithmetic on
hours and positions, `Stop`, `NoHour` and `Return` the ways out.

`MmapFile` is the file under the buffer: `OpenMmapFile` and `CloseMmapFile` (`mmap_util.cc`)
call by call, with what the `mapped_file` of boost does to its state (built
without exceptions, an error stays in it until a close), and what `open` and `close` of
the appender do around them. A page has a place on the device once it is
written; the device fills up and empties at any time.

| In the model | In the code |
|---|---|
| `OpenFile`, `Truncate`, `Map`, `MapFails`, `MapEmpty` | `mapped_file_impl::open_file`, `map_file`, `cleanup_and_throw` |
| `FillPage`, `FillFails`, `Remove`, `Fclose` | lines 49-72 of `mmap_util.cc`: zeros through `fwrite`, and what is done when there is no room |
| `Recover`, `WriteLine`, `TakeBlock`, `CloseMapped`, `CloseOther` | the appender on that memory, and the two ways its `close` lets go of it |
| `Crash`, `BusError`, `DeviceChanges` | the process dies, by itself or because a page has no place; other programs |

Each of these has an MC module that instantiates it, and a module of theorems.

### What the models leave out

* One thread makes the controlling calls (`open`, `close`, `flush_sync`,
  `setmode`): the code protects none of them against each other, and the facades
  give them no lock. `flush` may come at any time.
* In `Appender` file operations succeed and the date does not change; `LogFiles` is
  where they fail. It takes whole blocks: what a cut-off write leaves, the line
  about the error and the line about a jump of the clock are not in it. Errors of the file system
  library, such as `last_write_time` of a file that is gone (line 357), end in
  `comm/boost_exception.cc`, which logs them and goes on; that too is left out.
* In `LogFiles` a call of `__log2file` is over before the clock has gone on twice; the
  threads of the two directories delete one after the other, since they touch
  different files; all blocks have one size.
* All entries have one size; the limits of the buffer are three numbers
  (`BlockCap`, `HighWater`, `NotifyAt`) in the order of the code's capacity, 4/5
  and 1/3. The lines that describe a session are
  one entry: they differ from each other in nothing but their text.
* The order of `memset`'s stores in `__Clear` is open: header and body are cleared
  in either order, and a block that a crash in between went through is left out of
  `EmittedDecodes` (`tornClear`).
* Sequence numbers, the client key and the cipher's arithmetic. The sequence numbers
  come from a static that nothing locks (`log_crypt.cc:53`); no reader of them is in the
  repository. The hours of a block are in `PeriodLogs` only.
* `ThreadLife`: `unsafe_exit` (`pthread_cancel`), `start` with a new target, and a thread
  that joins itself. Users follow the rule of `thread.h:18`: nobody starts, joins, kills or
  destroys while a join or a kill is under way (`Calm`).
* `MutexVector`: nothing in the repository uses the class. The `notifyAll` of a caller that takes the
  lock for a new group wakes nobody who is not awake already.
* `Recursion`: saving a text (`log_formater`) does not assert by itself; a nested call inside
  `__Flush` writes to a stream that is closed, which fails. Whether the appender is open does
  not change, and asserting does not abort.
* `PeriodLogs`: `GetPeriodLogs` is reached only through `LogBuffer::GetPeriodLogs`, which
  nothing in the repository calls. At lines 224-226 it returns early without setting `_err_msg`. A
  plain block ends the search, because `GetLogHour` knows the encrypted magics only (line 140). A
  block that goes on over midnight counts for its end hour (line 316). Bodies
  have no byte that looks like a magic.
* `MmapFile`: lines 31-33 of `OpenMmapFile` (still open with an error) cannot be reached,
  since the close before them has closed the mapping. The memory of a session on
  the heap is never freed (`appender.cc:969-975`). Pages stand for what is written
  together; the last part of the zeros stays in the `FILE` until `fclose`, which nobody looks at
  (line 69): 153600 bytes are 37.5 pages of 4096.

### Not modelled

The Objective-C facade and the Swift loggers test a level and pass each call
on, in one sequential call; the default logger keeps its directory and prefix in
plain properties (`KFLogDefault.swift:37`) and hands the engine its options after
`open` (46-47).
`kfloggerbase.c` has two plain globals that are set at start-up. Formatting, strings, time and
Objective-C helpers keep no state. Sockets and alarms are called by nothing in the
engine, and the Windows port is not part of the build that `Package.swift` describes.
The boost sources are vendored; the piece of them that keeps state for the
engine, `mapped_file.cpp`, is in `MmapFile`. `PtrBuffer` is in `LogBuffer` as
far as the length and the capacity go; the cursor, `Move` and the growth of `AutoBuffer`
are sequential and are not modelled.

## Runs

| Run | Question | Bounds |
|---|---|---|
| `appender_order` | Async, quiet while it closes: the file keeps each thread's order across blocks, a crash and two sessions (`ThreadOrder`); what close throws away of the accepted lines is a tail (`NoHole`); under fairness `EventuallyWritten` and `CloseReturns` | 1 caller x 3 lines, buffer of 2, notify at 1, 2 sessions, 1 crash |
| `appender_mixed` | both modes, mode changes, `flush`, `flush_sync`, failing mmap, a crash, quiet while it closes: `AtMostOnce`, `NoNullBuffer`, `AbstractLog` is implemented | 1 caller x 1 line, buffer of 3, notify at 2, 2 sessions, 1 of each other call, 1 crash |
| `appender_closed` | the same with a caller that logs while the appender closes and `setmode` on a closed one: `OnlyOpenWipes` | the same, no `flush` |
| `logbuffer_blocks` | a block decodes while it is written, when it is handed out and after crashes | with and without a key, 7 bytes behind the header, units of 2, up to 3 bytes a call, 2 crashes |
| `logbuffer_full` | `ptrbuffer.cc:107` (violated) | 5 bytes behind the header |
| `logfiles_cache` | Async with a cache: `Kept`, `SizeBound`, `InOrder` | 3 blocks, limit 1, 3 days, 1 crash or failing operation |
| `logfiles_modes` | both modes, with and without a cache, while old files go: `Kept`, `Once` | 2 blocks, limit 1, 3 days, age of 1, clock back once, 1 crash or 1 failing operation |
| `thread_life` | the reference is deleted once and last, one pthread runs the target, every pthread is given back once, delays, signals and cancels reach whom they are for; a cancelled pthread ends | 2 users, both values of `outside_join`, 2 pthreads, 1 failing create, 1 spurious wakeup, 1 cancel, 1 kill |
| `mutex_vector` | groups exclude each other, the count is exact, no wakeup is lost, `AbstractGroupLock` is implemented, who waits gets in | 3 threads, 3 groups, 3 calls, 1 spurious wakeup |
| `recursion` | nesting is bounded, no nested call takes a mutex from the code below it, a saved text is neither lost nor freed twice, every call returns | 2 threads, both modes, 3 nested calls allowed, 3 calls, 3 failing assertions |
| `period_logs` | the range misses no block of the period (`Complete`), reaches no further than it must (`Exact`), and cuts none (`OnBlocks`) | header of 2, bodies of 1 or 2, 3 hours, 3 blocks of any hours, encrypted or plain, 1 of them torn |
| `mmap_file` | a dead process's block stays until it is mapped, an error costs one session, bus errors are explained | 3 pages, room for 4, 4 opens, 2 deaths, 2 failing calls |

Why the bounds are enough. A caller can sit between the check of
`sg_log_close` and the buffer while the controlling thread goes through a whole session; two
sessions and a crash give a block that is left behind, recovered and written
beside new ones. Three lines and a buffer of two give a line that is dropped between
two that are taken, and with the notify at one, notifies before, in and after the wait. A buffer of three has room below the notify, a line that
notifies, a line that is replaced by the warning, and a line that is refused.
Cipher units of two bytes and calls of up to three reach every remainder, and
two crashes reach a block that dies again while it is recovered. Three blocks
and a limit of one fill a file, split it and begin the next, on either side of
a move; three days are enough for a cached file to be due for the move and a
log file for deletion. The failing operation can be any of the opens, writes, closes
and copies. Two pthreads are a start and a restart over it; two users are one that
joins and one that does anything else. Three threads of three groups are a
holder, one that waits and a third that comes in between. Three nested calls
reach the refusal and the levels on both sides of it. Three blocks are one
before the period, one in it and one behind it, or a tip, the block recovered behind it
and the tip that follows, with a torn one anywhere. In both runs of
the files the clock runs past the age, so that the sweep does delete. Four opens are a
failure, the session it costs, the next one, and a recovery. Where theorems cover a property (below), the bounds
matter for its liveness companions only.

Most runs switch deadlock checking off because the application makes a bounded number of calls and
then stops; those of the LogBuffer and of the mapped file do not: a buffer can always be
written or flushed, and other programs use the device.

`TailerFits` is violated because deflate may use the last byte of the
buffer and the tailer comes after it; `ptrbuffer.cc:107` asserts that the length stays within the buffer.

### Conditions of the properties

`ThreadOrder` and `NoHole` are checked, and proved, for an application that is quiet while it
closes (`QuietClose = TRUE`). Without that a caller left over from the
last session can append between the attaching of the buffer and its recovery,
and the recovered block is written after newer ones. `NoNullBuffer` in Sync mode
needs the same condition: with `QuietClose = FALSE` and Sync among the modes the
model does reach `fault`. So does `Implements`: the line that such a caller appends between the copy and the
clearing of open's `Flush` is wiped, though it was accepted and nothing has died. `OnlyOpenWipes` holds
without any condition: it says that this is the only such loss, and that it takes no block of a dead
process. `AtMostOnce` needs no quiet application but `ClosedSetMode = FALSE`: on a closed appender `setmode(Async)`
starts the thread, which can copy the block that `open` is copying, and both write it. TLC checks it in `appender_mixed`, where the application is quiet as well; with calls left
over it is the theorem that says it. `NoHole` speaks of lines that the
buffer has accepted: a line that finds it full (660), or is replaced by a warning (655), is not among them. It is about Async mode: a Sync `open` clears
`sg_log_close` before it sets the mode (858, 859), and a line logged in between goes to a buffer that
nobody empties.

`Kept` is checked in Async mode with a cache, and in both modes without, until the clock is set back:
a clock set ahead lets the sweep remove the file of the day, which Sync mode goes on writing (430) once the
clock is back. What a removal takes counts as lost to its age only where the file's day is that old (`Aged`). In Sync
mode with a cache it does not hold: line 564 copies the cached file while its last
blocks are still in the `FILE`'s buffer, and line 568 removes it. `InOrder` excludes
failing operations: when the cached file cannot be opened (552), the block goes
to the log directory and overtakes the cached ones. `Once` excepts crashes, since a
crash between the copy and `remove` leaves both; `InOrder` then reads each block
where it comes first. `SizeBound` is about Async mode.

`NoMisuse` is about runs in which no `pthread_create` has failed: after a failure `tid` is still
the last pthread while `isjoined` is cleared (`thread.h:163`), and that pthread is detached again.
`GetsIn` is about waiting once new calls have stopped; while members of the
holding group keep coming, another group starves. `Returns` of `Recursion` is checked
without `"write"` and `"tipswrite"` in `AssertIn`: an assertion under `sg_mutex_log_file`
takes the two mutexes in the other order, and two threads can then wait for each other.
The properties of `PeriodLogs` are about encrypted blocks and files in which the
front of a torn block does not happen to point at the tailer of a later one
(`NoFalseTailer`). `Exact` allows what the code returns on the files every recovery makes: a block
of other hours is in the range where it lies between two that have to be, as a newer tip before a
recovered block does. `BusExplained` excepts a death within `OpenMmapFile`, the `fclose` nobody
looks at, and failing calls: only without them is the comment at lines 50-51 of `mmap_util.cc` true.

### What the models show beside the properties

* `flush` only notifies. In Async mode the thread may be past its `Flush` and before
  line 629 when `close` raises the flag, and it ends without another round, so a flushed
  line is thrown away with the buffer; in Sync mode `flush` does nothing (929). `README.md:96`
  says that it forces a write to disk.
* Sync mode keeps its file open all day and compares the size only when it opens
  one (430, 222); `appender.h:40` gives a maximum size for a single file.
* `boost::bind` at line 825 keeps open's `_dir` as the pointer it is, and the thread runs two
  minutes later; the comment at line 918 explains why `_nameprefix` is made a string there.
* After a jump of the clock, `__openlogfile` formats a line through `sg_log_buff` (484), which may be gone.
* `setmode(Async)` on a closed appender starts a thread that may still be ending
  when `open` looks, and `open` then starts none (990).

### Fairness

`Appender`'s `FairSpec` asks for weak fairness of: each call of `kflogger_appender` once begun,
each stage of an `open`, `flush_sync` or `close` once begun, and the background
thread including its wait. The code's locks are held for bounded stretches by
threads that the system schedules, and the wait has a timeout of 15 minutes, so
it ends even if every notify was lost. No call by the application is assumed,
and a crash may always come. `EventuallyWritten` excludes `setmode` by
`MaxSetMode = 0`.

`ThreadLife` asks that every pthread is scheduled, that a timed wait times out, and that a
cancel which has set the flag goes on to its notify. `MutexVector` asks that who is awake looks at the
lock, and that a holder unlocks in the end, as the guard object's destructor does. `Recursion` asks for the steps of a call
that is under way. None of them assumes that a call begins.

## Proofs

Each theorem holds for every value of the constants that satisfies the named
assumptions of its module: any threads, limits, sizes and bounds. Each follows from an inductive
invariant; TLC was run on the invariant before it was proved. There is one lemma per action, and lemmas for what
several actions share.

| Module | Invariant | Why it is needed | Proved |
|---|---|---|---|
| `AppenderProofs` | `TypeOK` | inductive by itself | `TypeCorrect` |
| | `QuietInv`: callers are idle whenever the flag is up or a close is under way; the pointer is NULL only while the flag is up | otherwise a caller could be on the synchronous path with the buffer gone | `QuietNoNullBuffer`, for applications that are quiet while they close |
| | `LogInv`: no entry is in two of six places (two memories, two stack variables, `FILE`, file), entries have numbers that were given out, and the stack variables are empty outside the stages that use them; what open is about to clear is no longer counted to the buffer | a step moves entries from one place to the end of another, adds one with a fresh number, or forgets some | `WrittenAtMostOnce`, if `setmode` is called only while the appender is open |
| | `Twin`, with `LogInv` and `QuietInv`: between open's copy and its clearing the buffer holds just what was copied | then the clearing forgets nothing | `ImplementsLog`, for an application that is also quiet while it closes |
| | `Copied`: in those stages what is in the buffer and was not copied is of this process | a caller left over, or the thread, may have used the buffer since | `WipedOnlyByOpen`, for any application |
| | `OrderInv`: file, the background thread's block and buffer are sorted, one behind the other (`Lined`), and a recovered block is of earlier processes while the rest is of this one (`Runs`) | the recovered block and newer ones reach the file in either order; that is harmless only because they are of different processes | `PlainThreadOrder`, for an application that is `Plain`: Async mode only, always mapped, quiet while it closes, no `flush_sync`, no `setmode` on a closed appender; `AsyncInv` keeps it off the synchronous path |
| | `Unbroken`, together with `OrderInv`: in the first session an accepted line is on its way or in the file, until close throws the buffer away | what is thrown away is behind all of the file | `PlainNoHole`, for a `Plain` application |
| `LogBufferProofs` | `Inv`: what the header says in each stage (`Header`, `Stages`), which bytes wait for a unit (`Remains`), and what each byte in front of the header's length went through (`Written`, `Fresh`, `Covered`) | a crash leaves only what the header covers; that must decode although the bytes behind it have been encrypted in place | `TypeCorrect`, `WritableDecodes`, `HandedOutDecodes` |
| `LogFilesProofs` | `KeepInv`: no file is of a day after its last write (`Good`), a file that is to be deleted is of a day that is over (`Sweeping`), an open file lost its name only when its day was over (`FileOpen`), a call writes to the file of its day (`Timely`), a cached file that goes has been copied (`Moved`) | the deleting thread takes no lock: what saves the writer is that a file is a day old when it goes, and that a call is over by then | `FilesKeep`, until the clock is set back: then a file whose name is gone could be gone on with |
| | `OnceInv`: no block is twice in the files that stay (`Rest`: all but the one about to be removed), none of them is in the buffer, and the block of a call that has still to write is in neither | a copy is a second place for a while; the fallback to the cache writes the same block again | `FilesOnce`, whatever the clock does |
| | `TypeInv`: files have names in the directories there are (`Held`), a call has a block and, where it writes, an open file (`CallTyped`), and a clock behind the last opening means that there was one (`LastTyped`) | with the clock set back `__openlogfile` opens the name it opened last, which must be one; without a cache directory a call must never get to the cache | `TypeCorrect` |
| | `SizeInv`, until a crash: the files of an index, of both directories together, are at most one block above the limit (`Fits`); the file a call is about to write, and the cached one of its index, have room (`OpenRoom`, `JobLast`); a cached file that may be moved over is of the last index | a cached file is appended to the one of the same or the last index: each may be small and both together too large | `FilesSmall`, in Async mode and if the clock is not set back |
| | `Timed`: files, the open file and the call are of days that agree with the clock, as in `KeepInv`, but in every mode and whatever is lost | a name found by one call is the day's until the call opens it | used by the next |
| | `OrderInv`: whoever reads any file after the ones before it meets no block too late (`Ordered`), what is in the buffer is newer than all files (`InPlace`), the reader comes to the open file last (`LastOpen`), the name a call has found is still the next to be written (`NameFound`) | a copy puts old blocks behind newer ones for a moment, which a reader who leaves out what he has seen does not notice; a mode change leaves a file open while its day or index ends | `FilesInOrder`, in every mode, if the clock is not set back |
| `MmapFileProofs` | `FileInv`: where each path of `OpenMmapFile` can be (`Paths`), that a mapped page has a place unless the making of the file was cut short (`Made`, `Explained`), and that an error that sticks ends (`MissesEnd`) | a bus error happens sessions after its cause | `TypeCorrect`, `MissesAtMostOnce`, `BusErrorsExplained`, `BlockIsKept` |
| `MutexVectorProofs` | `TypeOK` and the three safety properties together | the count is exact only because groups exclude each other | `CountsItsHolders`, `GroupsExclude`, `SleepersHaveAReason`, `ImplementsGroupLock` |
| `PeriodLogsProofs` | `Inv`: the blocks lie in the file as they were noted (`Laid`), one after the other in place (`Ordered`); the search stands between two of them and has found what the ones behind it give (`Between`, `LastRead`, `FirstFound`, `EndFound`) | the result is decided while the search runs, by comparing hours of neighbouring blocks; the end moves on with each block that ends after the period and began before it | `TypeCorrect`, `MissesNone`, `TakesNoMore`, `StartsOnBlocks` |
| `RecursionProofs` | `Inv`: the shape of the stack (`Shape`), where a text is saved (`Saved`), which level owns which mutex (`Owned`) | a mutex that a thread holds belongs to exactly one level, so a nested unlock cannot give it away | `TypeCorrect`, `DepthBounded`, `MutexesKept` |
| | `TextInv`: a level holds a text only where it reports one (`Reports`), no two places hold the same text and none holds a freed one (`Apart`), and every text that was saved is in a place (`Somewhere`) | the text passes from a level that returns to its thread, and from the thread to a level of a later call | `TextsKeptOnce` |
| `ThreadLifeProofs` | `Inv`: the life of each pthread (`Life`), who is to give it back (`Claims`, `GivenBack`, `OnceEach`), `Signals`, `Delays` | `tid` and `isjoined` speak of the last pthread only; the older ones must be known to be given back | `RefCounted`, `OneRuns`, `NeverMisused`, `NothingLeaks`, `DelaysKept`, `SignalsArrive`, `CancelledStays` |

The two refinements map each step of the code to one step of the abstract specification or to
none: every step of the appender passes entries on, accepts one, or ends a life;
every step of the group lock lets one in, lets one out, or changes nothing the
holders can tell. The division lemmas at the begin of `LogBufferProofs` say that a multiple of the
unit in front changes no remainder: that is why encryption can be resumed
where it stopped.

`FilesSmall` and `FilesInOrder` suppose no more than they need: TLC finds `SizeBound` violated with
`MaxBack = 1`, where the last file of an earlier time is opened again whatever its size, and with
Sync mode, where a file that is open is written to without a look at its size; and it finds `InOrder`
violated with `MaxBack = 1`, where new blocks go to an old file. The failures that `InOrder` leaves out are
in the property itself.

Only model-checked: the liveness properties (`EventuallyWritten`, `CloseReturns`, `CancelEnds`, `GetsIn`
and `Returns`), since fairness and `ENABLED` are outside what the prover handles. Every invariant,
action property and refinement that a passing run checks is also proved.

## What is left

* `PtrBuffer` and `AutoBuffer` against a sequence of bytes.
* The error line and the line about a jump of the clock in `LogFiles`.

## Running

    tlc -workers 2 -config AppenderOrder.cfg MCAppender
    tlc -workers 2 -config LogBufferBlocks.cfg MCLogBuffer
    tlc -workers 2 -config LogFilesCache.cfg MCLogFiles
    tlc -workers 2 -config ThreadLife.cfg MCThreadLife
    tlc -workers 2 -config MutexVector.cfg MCMutexVector
    tlc -workers 2 -config Recursion.cfg MCRecursion
    tlc -workers 2 -config PeriodLogs.cfg MCPeriodLogs
    tlc -workers 2 -config MmapFile.cfg MCMmapFile
    tlapm AppenderProofs.tla

and so on for the other configurations and the other `*Proofs.tla`.
