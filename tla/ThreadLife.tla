----------------------------- MODULE ThreadLife -----------------------------
(***************************************************************************)
(* Sources/Core/comm/unix/thread/thread.h: a Thread object, the reference- *)
(* counted RunnableReference it shares with the pthreads it starts, and    *)
(* the condition a delayed or periodic start waits on (condition.h).       *)
(*                                                                         *)
(* What is done under the reference's spin lock is one step, except that a *)
(* cancel is two: the pthread reads iscanceldelaystart and anyway_notify_  *)
(* without the lock.  pthreads are numbered as they are created.           *)
(***************************************************************************)
EXTENDS Naturals, FiniteSets

CONSTANTS Users,         \* the threads that call the Thread object
          OutsideJoins,  \* the values outside_join_ can have
          MaxStarts,     \* bound: pthreads created
          MaxFails,      \* bound: calls of pthread_create that fail
          MaxSpurious,   \* bound: waits that end for no reason
          MaxCancels,    \* bound: calls of cancel_after and cancel_periodic
          MaxKills       \* bound: calls of kill

ASSUME JoinsAssumption == OutsideJoins \subseteq BOOLEAN
ASSUME BoundsAssumption ==
  /\ MaxStarts \in Nat /\ MaxFails \in Nat /\ MaxSpurious \in Nat
  /\ MaxCancels \in Nat /\ MaxKills \in Nat

VARIABLES
  outside_join,         \* Thread::outside_join_
  alive,                \* the Thread object has not been destroyed
  count,                \* RunnableReference::count
  freed,                \* the reference is deleted
  tid, isjoined, isended, isinthread, iscanceldelaystart, killsig,
  anyway_notify,        \* condtime.anyway_notify_
  made,                 \* pthreads created so far
  place,                \* where each pthread is
  kind,                 \* how it was started
  released,             \* who gives its resources back
  rested,               \* its last wait ended by the timeout
  pc,                   \* where each user is
  joins,                \* the pthread each user is joining
  misuse,               \* a pthread call was given an id that is no longer one
  fails, spurious, cancels, kills,   \* counters of the bounds
  stopped,              \* history: pthreads that were cancelled
  meant, signalled      \* history: pthreads kill was for, and those it reached

refVars == <<count, freed>>
flagVars == <<tid, isjoined, isended, isinthread, iscanceldelaystart, killsig>>
threadVars == <<made, place, kind, rested>>
userVars == <<pc, joins>>
boundVars == <<fails, spurious, cancels, kills>>
historyVars == <<stopped, meant, signalled>>
vars == <<outside_join, alive, refVars, flagVars, anyway_notify, threadVars,
          released, userVars, misuse, boundVars, historyVars>>
-----------------------------------------------------------------------------
Pthreads == 1..MaxStarts
Kinds == {"plain", "after", "periodic"}

\* A cancel holds the spin lock between its two steps.
LockFree == \A u \in Users : pc[u] # "cancel"

\* What the class leaves to its users: start, join, kill and the destructor
\* are not called while a join or a kill is under way.
Calm == \A u \in Users : pc[u] \notin {"join", "joining", "kill"}

MayCall(u) == alive /\ pc[u] = "idle" /\ LockFree

Move(t, p) == place' = [place EXCEPT ![t] = p]

\* pthread_detach and the claim of a pthread_join; the id must still be one
\* that nobody else gives back.
Release(t, how) ==
  /\ released' = [released EXCEPT ![t] = how]
  /\ misuse' = (misuse \/ released[t] # "no")

\* RemoveRef, with the number of references the step has added before it.
RemoveRef(n) ==
  /\ count' = (count + n) - 1
  /\ freed' = (count + n = 1)

Init ==
  /\ outside_join \in OutsideJoins
  /\ alive = TRUE /\ count = 1 /\ freed = FALSE
  /\ tid = 0 /\ isjoined = FALSE /\ isended = TRUE /\ isinthread = FALSE
  /\ iscanceldelaystart = FALSE /\ killsig = FALSE /\ anyway_notify = FALSE
  /\ made = 0
  /\ place = [t \in Pthreads |-> "none"]
  /\ kind = [t \in Pthreads |-> "plain"]
  /\ released = [t \in Pthreads |-> "no"]
  /\ rested = [t \in Pthreads |-> FALSE]
  /\ pc = [u \in Users |-> "idle"]
  /\ joins = [u \in Users |-> 0]
  /\ misuse = FALSE
  /\ fails = 0 /\ spurious = 0 /\ cancels = 0 /\ kills = 0
  /\ stopped = {} /\ meant = {} /\ signalled = {}
-----------------------------------------------------------------------------
\* Mutant of DetachLast: a pthread that has ended is taken for joined.
DetachLastRunning ==
  IF tid # 0 /\ ~isjoined /\ ~isended
  THEN Release(tid, "detached")
  ELSE UNCHANGED <<released, misuse>>

\* The pthread of the last start is let go when nobody has joined it.
DetachLast ==
  IF tid # 0 /\ ~isjoined
  THEN Release(tid, "detached")
  ELSE UNCHANGED <<released, misuse>>

\* Mutant of ClearDelay: cancelAnyWayNotify is not called.
ClearDelayNoNotify(k) ==
  /\ UNCHANGED anyway_notify
  /\ iscanceldelaystart' = (iscanceldelaystart /\ k = "plain")

\* A delayed start clears what the last life has left in the condition and
\* in the cancel flag; a plain start leaves both alone.
ClearDelay(k) ==
  IF k = "plain"
  THEN UNCHANGED <<anyway_notify, iscanceldelaystart>>
  ELSE anyway_notify' = FALSE /\ iscanceldelaystart' = FALSE

\* Mutant of MayStart: the restart of a running thread is not refused.
MayStartAgain(u) == MayCall(u) /\ Calm

MayStart(u) == MayCall(u) /\ Calm /\ isended

\* Mutant of StartOk: the pthread gets no reference of its own.
StartOkNoRef(u, k) ==
  /\ MayStart(u)
  /\ made < MaxStarts
  /\ DetachLast
  /\ ClearDelay(k)
  /\ isended' = FALSE
  /\ isjoined' = outside_join
  /\ made' = made + 1
  /\ tid' = made + 1
  /\ place' = [place EXCEPT ![made + 1] = "init"]
  /\ kind' = [kind EXCEPT ![made + 1] = k]
  /\ UNCHANGED <<outside_join, alive, count, freed, isinthread, killsig,
                 rested, userVars, boundVars, historyVars>>

\* start, start_after and start_periodic when pthread_create succeeds.  A
\* start that finds the thread running returns and changes nothing.
StartOk(u, k) ==
  /\ MayStart(u)
  /\ made < MaxStarts
  /\ DetachLast
  /\ ClearDelay(k)
  /\ isended' = FALSE
  /\ isjoined' = outside_join
  /\ count' = count + 1
  /\ made' = made + 1
  /\ tid' = made + 1
  /\ place' = [place EXCEPT ![made + 1] = "init"]
  /\ kind' = [kind EXCEPT ![made + 1] = k]
  /\ UNCHANGED <<outside_join, alive, freed, isinthread, killsig, rested,
                 userVars, boundVars, historyVars>>

\* When it fails the new reference is given back; tid keeps the old thread.
StartFails(u, k) ==
  /\ MayStart(u)
  /\ fails < MaxFails
  /\ fails' = fails + 1
  /\ DetachLast
  /\ ClearDelay(k)
  /\ isended' = TRUE
  /\ isjoined' = outside_join
  /\ RemoveRef(1)
  /\ UNCHANGED <<outside_join, alive, tid, isinthread, killsig, threadVars,
                 userVars, spurious, cancels, kills, historyVars>>

\* The destructor: of a temporary Thread right after start_after, or of any
\* Thread nobody is calling.
Destroy ==
  /\ alive /\ LockFree /\ Calm
  /\ alive' = FALSE
  /\ DetachLast
  /\ RemoveRef(0)
  /\ UNCHANGED <<outside_join, flagVars, anyway_notify, threadVars, userVars,
                 boundVars, historyVars>>
-----------------------------------------------------------------------------
\* Mutant of JoinClaim: the reference is not told that somebody joins.
JoinClaimSilent(u) ==
  /\ MayCall(u) /\ Calm /\ ~outside_join
  /\ ~isended
  /\ pc' = [pc EXCEPT ![u] = "join"]
  /\ UNCHANGED <<outside_join, alive, refVars, flagVars, anyway_notify,
                 threadVars, released, joins, misuse, boundVars, historyVars>>

\* join: the flag is set under the lock, tid is read after it is released.
JoinClaim(u) ==
  /\ MayCall(u) /\ Calm /\ ~outside_join
  /\ ~isended
  /\ isjoined' = TRUE
  /\ pc' = [pc EXCEPT ![u] = "join"]
  /\ UNCHANGED <<outside_join, alive, refVars, tid, isended, isinthread,
                 iscanceldelaystart, killsig, anyway_notify, threadVars,
                 released, joins, misuse, boundVars, historyVars>>

PthreadJoin(u, t) ==
  /\ joins' = [joins EXCEPT ![u] = t]
  /\ pc' = [pc EXCEPT ![u] = "joining"]
  /\ Release(t, "joining")
  /\ UNCHANGED <<outside_join, alive, refVars, flagVars, anyway_notify,
                 threadVars, boundVars, historyVars>>

JoinRead(u) == pc[u] = "join" /\ PthreadJoin(u, tid)

\* ThreadUtil::join by the owner of a Thread made with outside_join_, once
\* for each pthread.
OutsideJoin(u) ==
  /\ MayCall(u) /\ Calm /\ outside_join
  /\ \E t \in 1..made : released[t] = "no" /\ PthreadJoin(u, t)

JoinReturn(u) ==
  /\ pc[u] = "joining"
  /\ place[joins[u]] = "gone"
  /\ released' = [released EXCEPT ![joins[u]] = "joined"]
  /\ pc' = [pc EXCEPT ![u] = "idle"]
  /\ UNCHANGED <<outside_join, alive, refVars, flagVars, anyway_notify,
                 threadVars, joins, misuse, boundVars, historyVars>>

Join(u) == JoinClaim(u) \/ JoinRead(u) \/ OutsideJoin(u) \/ JoinReturn(u)

\* Mutant of CancelMark: the waiting thread is woken but not told why.
CancelMarkNothing(u) ==
  /\ MayCall(u)
  /\ cancels < MaxCancels
  /\ ~isended
  /\ cancels' = cancels + 1
  /\ stopped' = stopped \union {tid}
  /\ pc' = [pc EXCEPT ![u] = "cancel"]
  /\ UNCHANGED <<outside_join, alive, refVars, flagVars, anyway_notify,
                 threadVars, released, joins, misuse, fails, spurious, kills,
                 meant, signalled>>

\* cancel_after and cancel_periodic: the flag, then notifyAll(true), which
\* leaves a mark in the condition and wakes who sleeps there.
CancelMark(u) ==
  /\ MayCall(u)
  /\ cancels < MaxCancels
  /\ ~isended
  /\ cancels' = cancels + 1
  /\ iscanceldelaystart' = TRUE
  /\ stopped' = stopped \union {tid}
  /\ pc' = [pc EXCEPT ![u] = "cancel"]
  /\ UNCHANGED <<outside_join, alive, refVars, tid, isjoined, isended,
                 isinthread, killsig, anyway_notify, threadVars, released,
                 joins, misuse, fails, spurious, kills, meant, signalled>>

CancelNotify(u) ==
  /\ pc[u] = "cancel"
  /\ anyway_notify' = TRUE
  /\ place' = [t \in Pthreads |->
                 IF place[t] = "asleep" THEN "woken" ELSE place[t]]
  /\ pc' = [pc EXCEPT ![u] = "idle"]
  /\ UNCHANGED <<outside_join, alive, refVars, flagVars, made, kind, rested,
                 released, joins, misuse, boundVars, historyVars>>

Cancel(u) == CancelMark(u) \/ CancelNotify(u)

\* kill of a thread that has not come up yet leaves the signal for init; of
\* one that has, it is sent after the lock is released.
KillEarly(u) ==
  /\ MayCall(u) /\ Calm
  /\ kills < MaxKills
  /\ ~isended /\ ~isinthread
  /\ kills' = kills + 1
  /\ killsig' = TRUE
  /\ meant' = meant \union {tid}
  /\ UNCHANGED <<outside_join, alive, refVars, tid, isjoined, isended,
                 isinthread, iscanceldelaystart, anyway_notify, threadVars,
                 released, userVars, misuse, fails, spurious, cancels,
                 stopped, signalled>>

KillLate(u) ==
  /\ MayCall(u) /\ Calm
  /\ kills < MaxKills
  /\ ~isended /\ isinthread
  /\ kills' = kills + 1
  /\ meant' = meant \union {tid}
  /\ pc' = [pc EXCEPT ![u] = "kill"]
  /\ UNCHANGED <<outside_join, alive, refVars, flagVars, anyway_notify,
                 threadVars, released, joins, misuse, fails, spurious,
                 cancels, stopped, signalled>>

KillSend(u) ==
  /\ pc[u] = "kill"
  /\ pc' = [pc EXCEPT ![u] = "idle"]
  /\ signalled' = signalled \union {t \in {tid} : place[t] # "gone"}
  /\ misuse' = (misuse \/ released[tid] = "joined"
                       \/ (released[tid] = "detached" /\ place[tid] = "gone"))
  /\ UNCHANGED <<outside_join, alive, refVars, flagVars, anyway_notify,
                 threadVars, released, joins, boundVars, stopped, meant>>

Kill(u) == KillEarly(u) \/ KillLate(u) \/ KillSend(u)
-----------------------------------------------------------------------------
\* init, at the beginning of every start routine.
ThreadInit(t) ==
  /\ place[t] = "init" /\ LockFree
  /\ isinthread' = TRUE
  /\ signalled' = IF killsig THEN signalled \union {t} ELSE signalled
  /\ Move(t, IF kind[t] = "plain" THEN "run" ELSE "look")
  /\ UNCHANGED <<outside_join, alive, refVars, tid, isjoined, isended,
                 iscanceldelaystart, killsig, anyway_notify, made, kind,
                 rested, released, userVars, misuse, boundVars, stopped, meant>>

\* Steps of a start routine that leave everything but the condition alone.
Routine(t) ==
  UNCHANGED <<outside_join, alive, refVars, flagVars, made, kind, released,
              userVars, misuse, fails, cancels, kills, historyVars>>

\* Is the delayed start cancelled before the wait; and after it.
Look(t) ==
  /\ place[t] = "look"
  /\ Move(t, IF iscanceldelaystart THEN "cleanup" ELSE "cas")
  /\ UNCHANGED <<anyway_notify, rested, spurious>>
  /\ Routine(t)

\* Mutant of LookAgain: the cancel that ended the wait is not looked at.
LookAgainNot(t) ==
  /\ place[t] = "awake"
  /\ Move(t, "run")
  /\ UNCHANGED <<anyway_notify, rested, spurious>>
  /\ Routine(t)

LookAgain(t) ==
  /\ place[t] = "awake"
  /\ Move(t, IF iscanceldelaystart THEN "cleanup" ELSE "run")
  /\ UNCHANGED <<anyway_notify, rested, spurious>>
  /\ Routine(t)

\* Condition::wait takes the mark a notify has left, or goes to sleep.  The
\* notify does not take the condition's mutex: it can come in between.
TakeMark(t) ==
  /\ place[t] = "cas"
  /\ anyway_notify' = FALSE
  /\ rested' = [rested EXCEPT ![t] = FALSE]
  /\ Move(t, IF anyway_notify THEN "woken" ELSE "presleep")
  /\ UNCHANGED spurious
  /\ Routine(t)

Sleep(t) ==
  /\ place[t] = "presleep"
  /\ Move(t, "asleep")
  /\ UNCHANGED <<anyway_notify, rested, spurious>>
  /\ Routine(t)

Timeout(t) ==
  /\ place[t] = "asleep"
  /\ Move(t, "woken")
  /\ rested' = [rested EXCEPT ![t] = TRUE]
  /\ UNCHANGED <<anyway_notify, spurious>>
  /\ Routine(t)

SpuriousWakeup(t) ==
  /\ place[t] = "asleep"
  /\ spurious < MaxSpurious
  /\ spurious' = spurious + 1
  /\ Move(t, "woken")
  /\ UNCHANGED <<anyway_notify, rested>>
  /\ Routine(t)

EndWait(t) ==
  /\ place[t] = "woken"
  /\ Move(t, "awake")
  /\ anyway_notify' = FALSE
  /\ UNCHANGED <<rested, spurious>>
  /\ Routine(t)

\* The target returns.
RunEnds(t) ==
  /\ place[t] = "run"
  /\ Move(t, IF kind[t] = "periodic" THEN "look" ELSE "cleanup")
  /\ UNCHANGED <<anyway_notify, rested, spurious>>
  /\ Routine(t)

\* Mutant of Cleanup: a signal nobody has fetched is kept.
CleanupKeepsSignal(t) ==
  /\ place[t] = "cleanup" /\ LockFree
  /\ isinthread' = FALSE
  /\ isended' = TRUE
  /\ RemoveRef(0)
  /\ Move(t, "exit")
  /\ UNCHANGED <<outside_join, alive, tid, isjoined, iscanceldelaystart,
                 killsig, anyway_notify, made, kind, rested, released,
                 userVars, misuse, boundVars, historyVars>>

Cleanup(t) ==
  /\ place[t] = "cleanup" /\ LockFree
  /\ isinthread' = FALSE
  /\ killsig' = FALSE
  /\ isended' = TRUE
  /\ RemoveRef(0)
  /\ Move(t, "exit")
  /\ UNCHANGED <<outside_join, alive, tid, isjoined, iscanceldelaystart,
                 anyway_notify, made, kind, rested, released, userVars,
                 misuse, boundVars, historyVars>>

Exit(t) ==
  /\ place[t] = "exit"
  /\ Move(t, "gone")
  /\ UNCHANGED <<anyway_notify, rested, spurious>>
  /\ Routine(t)

Pthread(t) ==
  \/ ThreadInit(t) \/ Look(t) \/ LookAgain(t)
  \/ TakeMark(t) \/ Sleep(t) \/ Timeout(t) \/ EndWait(t)
  \/ RunEnds(t) \/ Cleanup(t) \/ Exit(t)

User(u) ==
  \/ \E k \in Kinds : StartOk(u, k) \/ StartFails(u, k)
  \/ Join(u) \/ Cancel(u) \/ Kill(u)

Next ==
  \/ \E u \in Users : User(u)
  \/ Destroy
  \/ \E t \in Pthreads : Pthread(t) \/ SpuriousWakeup(t)

\* The system schedules every pthread, a wait ends by its timeout at the
\* latest, a target returns, and a cancel that has begun is carried out.
Fairness ==
  /\ \A t \in Pthreads : WF_vars(Pthread(t))
  /\ \A u \in Users : WF_vars(CancelNotify(u))

Spec == Init /\ [][Next]_vars
FairSpec == Spec /\ Fairness
-----------------------------------------------------------------------------
Places == {"none", "init", "look", "cas", "presleep", "asleep", "woken",
           "awake", "run", "cleanup", "exit", "gone"}

\* Every variable has its type.
TypeOK ==
  /\ outside_join \in BOOLEAN /\ alive \in BOOLEAN
  /\ count \in Nat /\ freed \in BOOLEAN
  /\ tid \in 0..MaxStarts
  /\ isjoined \in BOOLEAN /\ isended \in BOOLEAN /\ isinthread \in BOOLEAN
  /\ iscanceldelaystart \in BOOLEAN /\ killsig \in BOOLEAN
  /\ anyway_notify \in BOOLEAN
  /\ made \in 0..MaxStarts
  /\ place \in [Pthreads -> Places]
  /\ kind \in [Pthreads -> Kinds]
  /\ released \in [Pthreads -> {"no", "joining", "joined", "detached"}]
  /\ rested \in [Pthreads -> BOOLEAN]
  /\ pc \in [Users -> {"idle", "join", "joining", "cancel", "kill"}]
  /\ joins \in [Users -> 0..MaxStarts]
  /\ misuse \in BOOLEAN
  /\ fails \in Nat /\ spurious \in Nat /\ cancels \in Nat /\ kills \in Nat
  /\ stopped \subseteq Pthreads
  /\ meant \subseteq Pthreads /\ signalled \subseteq Pthreads

\* The pthreads that use the reference.
Inside == {t \in Pthreads : place[t] \notin {"none", "exit", "gone"}}

\* The reference counts the Thread object and the pthreads that still use it,
\* and is deleted with the last of them, after the last one has ended, in
\* whatever order they go and even when a start fails (thread.h:72-91).
RefCount ==
  /\ count = Cardinality(Inside) + (IF alive THEN 1 ELSE 0)
  /\ freed <=> (count = 0)
  /\ freed => isended

\* The target runs in one pthread at a time, and isruning() is true exactly
\* while there is one.
OneRunner ==
  /\ Cardinality(Inside) <= 1
  /\ isended <=> Inside = {}

\* Each pthread is joined or detached once, whatever the order of its end, a
\* join, a restart and the destructor: pthread_join, pthread_detach and
\* pthread_kill never see an id that has been given back (the warning at
\* thread.h:17).  A failing pthread_create is outside of it: tid stays, and
\* is detached a second time.
NoMisuse == fails = 0 => ~misuse

\* When the object and all its threads are gone, every pthread has been
\* joined or detached: none leaks its stack.
NoLeak ==
  ~alive /\ ~outside_join /\ freed /\ Calm =>
    \A t \in 1..made : released[t] # "no"

\* The target of a delayed start is never run before its delay is over, nor
\* again before its period is: no notify of an earlier life ends the wait.
\* A spurious wakeup, which the code takes for the end of the wait, is
\* outside of it.
DelayKept ==
  spurious = 0 =>
    \A t \in Pthreads : place[t] = "run" /\ kind[t] # "plain" => rested[t]

\* A signal given to kill reaches the thread it was meant for or none, never
\* the next one the object starts (killsig waits for init).
SignalAddressed == signalled \subseteq meant

\* A delayed or periodic thread that was cancelled does not begin to run its
\* target any more.
StaysCancelled ==
  [][\A t \in stopped :
       kind[t] # "plain" /\ place'[t] = "run" => place[t] = "run"]_vars

\* ... and ends, although the notify is lost when it comes between the look
\* at the mark and the sleep: at the latest when the delay is over.
CancelEnds == \A t \in Pthreads : (t \in stopped) ~> (place[t] = "gone")
=============================================================================
