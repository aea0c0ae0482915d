----------------------------- MODULE Recursion ------------------------------
(***************************************************************************)
(* kflogger_appender called from inside itself.  A failing ASSERT in the   *)
(* code that the appender runs (__assert.c) logs through kflogger_Write,   *)
(* which calls kflogger_appender again, in the same thread and under the   *)
(* locks the thread already holds.  The mutexes are of the ERRORCHECK      *)
(* kind: locking one's own fails, and that is itself asserted twice, in    *)
(* Mutex::lock and in BaseScopedLock::lock, after which the code goes on   *)
(* without owning the lock.  appender.cc counts the nested calls and saves *)
(* the text of one of them for later.                                      *)
(*                                                                         *)
(* Every thread has a stack: level 0 is the code outside of the appender,  *)
(* level d the d-th nested call.  The appender is open all the time and    *)
(* asserting does not abort (a release build).                             *)
(***************************************************************************)
EXTENDS Naturals

CONSTANTS Threads,    \* the threads that log
          Modes,      \* "Async", "Sync": sg_mode, fixed when the run starts
          MaxDepth,   \* 10 in the code
          AssertIn,   \* the steps in which an assertion may fail
          MaxCalls,   \* bound: calls of each thread from outside
          MaxAsserts  \* bound: assertions that fail by themselves

None == "none"
Locks == {"buffer", "file"}   \* sg_mutex_buffer_async, sg_mutex_log_file
Null == 0                     \* no saved text

\* The steps of a call in which the code has assertions of its own.
Places == {"tips", "tipswrite", "format", "append", "write", "flush"}

ASSUME DepthAssumption == MaxDepth \in Nat \ {0}
ASSUME PlacesAssumption == AssertIn \subseteq Places
ASSUME BoundsAssumption == MaxCalls \in Nat /\ MaxAsserts \in Nat
ASSUME NamesAssumption == None \notin Threads

VARIABLES
  sg_mode,
  depth,    \* the recursion count of each thread: its topmost level
  frame,    \* the levels: where each is, assertions it has yet to log,
            \* the saved text it reports, the locks its ScopedLocks own
  str,      \* s_recursion_str of each thread
  owner,    \* who holds each mutex
  texts,    \* texts saved so far
  freed,    \* texts given to free
  calls, asserts   \* counters of the bounds

vars == <<sg_mode, depth, frame, str, owner, texts, freed, calls, asserts>>
-----------------------------------------------------------------------------
Idle == [pc |-> "rest", due |-> 0, tip |-> Null, own |-> {}]
Called == [Idle EXCEPT !.pc = "guard"]
Levels == 0 .. MaxDepth + 2   \* one more than a call may reach

Init ==
  /\ sg_mode \in Modes
  /\ depth = [t \in Threads |-> 0]
  /\ frame = [t \in Threads |-> [d \in Levels |-> Idle]]
  /\ str = [t \in Threads |-> Null]
  /\ owner = [l \in Locks |-> None]
  /\ texts = 0
  /\ freed = {}
  /\ calls = [t \in Threads |-> 0]
  /\ asserts = 0

Top(t) == frame[t][depth[t]]

\* The topmost level of t is at pc and has nothing to log first.
At(t, pc) == Top(t).pc = pc /\ Top(t).due = 0

Becomes(t, f) == frame' = [frame EXCEPT ![t][depth[t]] = f]
Goto(t, pc) == Becomes(t, [Top(t) EXCEPT !.pc = pc])

\* kflogger_appender is entered, from the level below.
Push(t, below) ==
  /\ frame' = [frame EXCEPT ![t][depth[t]] = below, ![t][depth[t] + 1] = Called]
  /\ depth' = [depth EXCEPT ![t] = @ + 1]

\* It returns.
Pop(t) ==
  /\ frame' = [frame EXCEPT ![t][depth[t]] = Idle]
  /\ depth' = [depth EXCEPT ![t] = @ - 1]
-----------------------------------------------------------------------------
\* A line is logged from outside of the appender.
Log(t) ==
  /\ depth[t] = 0 /\ At(t, "rest")
  /\ calls[t] < MaxCalls
  /\ calls' = [calls EXCEPT ![t] = @ + 1]
  /\ Push(t, Top(t))
  /\ UNCHANGED <<sg_mode, str, owner, texts, freed, asserts>>

\* The background thread or flush_sync empties the buffer (Async mode).
Flush(t) ==
  /\ depth[t] = 0 /\ At(t, "rest")
  /\ sg_mode = "Async"
  /\ calls[t] < MaxCalls
  /\ calls' = [calls EXCEPT ![t] = @ + 1]
  /\ Goto(t, "flushlock")
  /\ UNCHANGED <<sg_mode, depth, str, owner, texts, freed, asserts>>

\* An assertion fails: __ASSERT will log it.
AssertFails(t) ==
  /\ Top(t).pc \in AssertIn /\ Top(t).due = 0
  /\ asserts < MaxAsserts
  /\ asserts' = asserts + 1
  /\ Becomes(t, [Top(t) EXCEPT !.due = 1])
  /\ UNCHANGED <<sg_mode, depth, str, owner, texts, freed, calls>>

\* __ASSERT, kflogger_Write: the nested call.
LogAssert(t) ==
  /\ Top(t).due > 0
  /\ Push(t, [Top(t) EXCEPT !.due = @ - 1])
  /\ UNCHANGED <<sg_mode, str, owner, texts, freed, calls, asserts>>

\* Mutant of Nested: it does not look whether a text is already saved.
NestedAlways(t) == depth[t] >= 2

\* A nested call, and no text is saved.
Nested(t) == depth[t] >= 2 /\ str[t] = Null

\* Mutant of MayGoDeeper: the limit is left out.
MayGoAnyDeeper(t) == TRUE
MayGoDeeper(t) == depth[t] <= MaxDepth

TooDeep(t) ==
  /\ At(t, "guard")
  /\ Nested(t) /\ ~MayGoDeeper(t)
  /\ Pop(t)
  /\ UNCHANGED <<sg_mode, str, owner, texts, freed, calls, asserts>>

SaveText(t) ==
  /\ At(t, "guard")
  /\ Nested(t) /\ MayGoDeeper(t)
  /\ texts' = texts + 1
  /\ str' = [str EXCEPT ![t] = texts + 1]
  /\ Pop(t)
  /\ UNCHANGED <<sg_mode, owner, freed, calls, asserts>>

LogStep == IF sg_mode = "Sync" THEN "format" ELSE "appendlock"

\* kflogger_appender sets s_recursion_str to NULL.
ForgetText(t) == str' = [str EXCEPT ![t] = Null]

\* The saved text, if there is one, is reported before the line.
TakeText(t) ==
  /\ At(t, "guard")
  /\ ~Nested(t) /\ str[t] # Null
  /\ Becomes(t, [Top(t) EXCEPT !.pc = "tips", !.tip = str[t]])
  /\ ForgetText(t)
  /\ UNCHANGED <<sg_mode, depth, owner, texts, freed, calls, asserts>>

NoText(t) ==
  /\ At(t, "guard")
  /\ ~Nested(t) /\ str[t] = Null
  /\ Goto(t, LogStep)
  /\ UNCHANGED <<sg_mode, depth, str, owner, texts, freed, calls, asserts>>
-----------------------------------------------------------------------------
\* Mutants of ScopedLock: the lock counts as taken although it was not; and
\* a mutex that waits for its own thread.
LockAnyway(t, l, pc) ==
  /\ owner[l] \in {None, t}
  /\ owner' = [owner EXCEPT ![l] = t]
  /\ Becomes(t, [Top(t) EXCEPT !.pc = pc, !.own = @ \union {l},
                               !.due = IF owner[l] = t THEN 2 ELSE 0])

LockWaits(t, l, pc) ==
  /\ owner[l] = None
  /\ owner' = [owner EXCEPT ![l] = t]
  /\ Becomes(t, [Top(t) EXCEPT !.pc = pc, !.own = @ \union {l}])

\* The constructor of ScopedLock: the mutex is free, or the thread's own.
ScopedLock(t, l, pc) ==
  \/ /\ owner[l] = None
     /\ owner' = [owner EXCEPT ![l] = t]
     /\ Becomes(t, [Top(t) EXCEPT !.pc = pc, !.own = @ \union {l}])
  \/ /\ owner[l] = t
     /\ Becomes(t, [Top(t) EXCEPT !.pc = pc, !.due = 2])
     /\ UNCHANGED owner

\* unlock, or the destructor: only what this ScopedLock has locked.
Unlock(t, l) ==
  owner' = [owner EXCEPT ![l] = IF l \in Top(t).own THEN None ELSE @]

\* From one step to the next, with nothing the properties see in between.
Passes(t, from, to) ==
  /\ At(t, from)
  /\ Goto(t, to)
  /\ UNCHANGED <<sg_mode, depth, str, owner, texts, freed, calls, asserts>>

LocksFor(t, from, l, to) ==
  /\ At(t, from)
  /\ ScopedLock(t, l, to)
  /\ UNCHANGED <<sg_mode, depth, str, texts, freed, calls, asserts>>

\* __writetips2file: formats with no lock, writes under sg_mutex_log_file.
\* Then the saved text is freed.
WriteTip(t) ==
  \/ Passes(t, "tips", "tipslock")
  \/ LocksFor(t, "tipslock", "file", "tipswrite")
  \/ /\ At(t, "tipswrite")
     /\ Unlock(t, "file")
     /\ freed' = freed \union {Top(t).tip}
     /\ Becomes(t, [Top(t) EXCEPT !.pc = LogStep, !.tip = Null,
                                  !.own = @ \ {"file"}])
     /\ UNCHANGED <<sg_mode, depth, str, texts, calls, asserts>>

\* __kflog_appender_sync: formats with no lock, then __log2file.
AppendSync(t) ==
  \/ Passes(t, "format", "writelock")
  \/ LocksFor(t, "writelock", "file", "write")
  \/ /\ At(t, "write") /\ depth[t] > 0
     /\ Unlock(t, "file")
     /\ Pop(t)
     /\ UNCHANGED <<sg_mode, str, texts, freed, calls, asserts>>

\* __kflog_appender_async: formats and appends under sg_mutex_buffer_async.
AppendAsync(t) ==
  \/ LocksFor(t, "appendlock", "buffer", "append")
  \/ /\ At(t, "append")
     /\ Unlock(t, "buffer")
     /\ Pop(t)
     /\ UNCHANGED <<sg_mode, str, texts, freed, calls, asserts>>

\* kflog_appender_flush_sync, and a turn of __async_log_thread.
FlushStep(t) ==
  \/ LocksFor(t, "flushlock", "buffer", "flush")
  \/ /\ At(t, "flush")
     /\ Unlock(t, "buffer")
     /\ Becomes(t, [Top(t) EXCEPT !.pc = "writelock", !.own = @ \ {"buffer"}])
     /\ UNCHANGED <<sg_mode, depth, str, texts, freed, calls, asserts>>
  \/ /\ At(t, "write") /\ depth[t] = 0
     /\ Unlock(t, "file")
     /\ Becomes(t, Idle)
     /\ UNCHANGED <<sg_mode, depth, str, texts, freed, calls, asserts>>

Step(t) ==
  \/ LogAssert(t) \/ TooDeep(t) \/ SaveText(t) \/ TakeText(t) \/ NoText(t)
  \/ WriteTip(t) \/ AppendSync(t) \/ AppendAsync(t) \/ FlushStep(t)

Next == \E t \in Threads : Log(t) \/ Flush(t) \/ AssertFails(t) \/ Step(t)

Spec == Init /\ [][Next]_vars

\* A thread that runs goes on: every step of a call, the waits for a mutex
\* included, is taken at some time.
FairSpec == Spec /\ \A t \in Threads : WF_vars(Step(t))
-----------------------------------------------------------------------------
Frame == [pc : Places \union {"rest", "guard", "tipslock", "writelock",
                              "appendlock", "flushlock"},
          due : 0 .. 2, tip : Nat, own : SUBSET Locks]

\* Every variable has its type.
TypeOK ==
  /\ sg_mode \in Modes
  /\ depth \in [Threads -> Levels]
  /\ frame \in [Threads -> [Levels -> Frame]]
  /\ str \in [Threads -> Nat]
  /\ owner \in [Locks -> Threads \union {None}]
  /\ texts \in Nat
  /\ freed \in SUBSET Nat
  /\ calls \in [Threads -> Nat]
  /\ asserts \in Nat

\* However assertions fail while assertions are logged, the stack stays
\* within one level of the limit: the call at that level never finds a text
\* saved below it, so it returns at once (appender.cc:680, :681).
DepthBound == \A t \in Threads : depth[t] <= MaxDepth + 1

\* Who is in the part of the code a mutex guards is in it under that mutex:
\* by its own ScopedLock or, when that failed because the thread held the
\* mutex already, by that of a level below, which no nested call releases
\* (lock.h:31, :41).
Guarded ==
  \A t \in Threads : \A d \in 0 .. depth[t] :
    /\ frame[t][d].pc \in {"append", "flush"} => owner["buffer"] = t
    /\ frame[t][d].pc \in {"tipswrite", "write"} => owner["file"] = t

\* A saved text is in exactly one place: kept for the thread's next call,
\* reported by one call, or freed.  None is lost, none is freed twice
\* (appender.cc:682, :702 to :705).
Tips(t) == {d \in 0 .. depth[t] : frame[t][d].tip # Null}
TextsOnce ==
  /\ \A t \in Threads :
       /\ str[t] \notin freed
       /\ \A d \in Tips(t) : /\ frame[t][d].tip \notin freed \union {str[t]}
                             /\ \A e \in Tips(t) :
                                  frame[t][d].tip = frame[t][e].tip => d = e
  /\ \A x \in 1 .. texts :
       \/ x \in freed
       \/ \E t \in Threads : str[t] = x \/ \E d \in Tips(t) : frame[t][d].tip = x

\* Every call of the appender and every flush ends, whatever nested calls
\* it makes and with two threads that do so at once: no thread waits for
\* itself, and none waits for a mutex of another that waits for it.
Returns ==
  \A t \in Threads : (depth[t] > 0 \/ Top(t).pc # "rest")
                        ~> (depth[t] = 0 /\ Top(t).pc = "rest")
=============================================================================
