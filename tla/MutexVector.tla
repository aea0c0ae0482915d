---------------------------- MODULE MutexVector -----------------------------
(***************************************************************************)
(* Sources/Core/comm/thread/mutexvector.h: a lock that threads of one      *)
(* group (a "vector") hold together and threads of different groups        *)
(* exclude each other from.  Every thread has a ScopedMutexVector of its   *)
(* own.  What is done under m_mutex is one step; a thread in m_cond's wait *)
(* is asleep until a notify, and then has to get m_mutex again.            *)
(***************************************************************************)
EXTENDS Integers, FiniteSets

CONSTANTS Threads,    \* the threads that use the lock
          Vectors,    \* the groups they ask for
          MaxCalls,   \* bound: calls of Lock and TryLock of each thread
          MaxSpurious \* bound: waits that end for no reason

\* The lock starts as the group 0's, held by nobody.
ASSUME VectorAssumption == 0 \in Vectors
ASSUME FiniteAssumption == IsFiniteSet(Threads)
ASSUME CallsAssumption == MaxCalls \in Nat /\ MaxSpurious \in Nat

VARIABLES
  m_vec,     \* MutexVector::m_vec
  m_count,   \* MutexVector::m_count
  pc,        \* "out", "asleep" in the wait, "woken" from it, or "in"
  vec,       \* ScopedMutexVector::vec_ of each thread
  calls, spurious   \* counters of the bounds

vars == <<m_vec, m_count, pc, vec, calls, spurious>>
-----------------------------------------------------------------------------
Init ==
  /\ m_vec = 0
  /\ m_count = 0
  /\ pc = [t \in Threads |-> "out"]
  /\ vec \in [Threads -> Vectors]
  /\ calls = [t \in Threads |-> 0]
  /\ spurious = 0

\* Mutant of WakeAll: notifyOne.
WakeOne(pcs) ==
  IF \E t \in Threads : pcs[t] = "asleep"
  THEN [pcs EXCEPT ![CHOOSE t \in Threads : pcs[t] = "asleep"] = "woken"]
  ELSE pcs

\* notifyAll: who sleeps has to look again.
WakeAll(pcs) ==
  [t \in Threads |-> IF pcs[t] = "asleep" THEN "woken" ELSE pcs[t]]

Call(t) ==
  /\ pc[t] = "out"
  /\ calls[t] < MaxCalls
  /\ calls' = [calls EXCEPT ![t] = @ + 1]

\* Mutant of Share: the fast path does not count its holder.
ShareUncounted(t) ==
  /\ m_vec = vec[t]
  /\ pc' = [pc EXCEPT ![t] = "in"]
  /\ UNCHANGED <<m_vec, m_count>>

\* The lock is of t's group already.
Share(t) ==
  /\ m_vec = vec[t]
  /\ m_count' = m_count + 1
  /\ pc' = [pc EXCEPT ![t] = "in"]
  /\ UNCHANGED m_vec

\* Mutant of Take: the group is not looked at again after the wait.
TakeAnyway(t) ==
  /\ m_vec # vec[t]
  /\ m_vec' = vec[t]
  /\ m_count' = m_count + 1
  /\ pc' = WakeAll([pc EXCEPT ![t] = "in"])

\* Nobody holds the lock, and it becomes t's group's.
Take(t) ==
  /\ m_vec # vec[t]
  /\ m_count <= 0
  /\ m_vec' = vec[t]
  /\ m_count' = m_count + 1
  /\ pc' = WakeAll([pc EXCEPT ![t] = "in"])

Wait(t) ==
  /\ m_vec # vec[t]
  /\ m_count > 0
  /\ pc' = [pc EXCEPT ![t] = "asleep"]
  /\ UNCHANGED <<m_vec, m_count>>

Lock(t) ==
  /\ Call(t)
  /\ Share(t) \/ Take(t) \/ Wait(t)
  /\ UNCHANGED <<vec, spurious>>

\* Mutant of Awake: the wait is in an if and not in a loop.
AwakeOnce(t) ==
  /\ pc[t] = "woken"
  /\ m_vec' = vec[t]
  /\ m_count' = m_count + 1
  /\ pc' = [pc EXCEPT ![t] = "in"]
  /\ UNCHANGED <<vec, calls, spurious>>

\* The loop around the wait, with m_mutex taken again.
Awake(t) ==
  /\ pc[t] = "woken"
  /\ Share(t) \/ Take(t) \/ Wait(t)
  /\ UNCHANGED <<vec, calls, spurious>>

\* A TryLock that fails changes nothing.
TryLock(t) ==
  /\ Call(t)
  /\ Share(t) \/ Take(t)
  /\ UNCHANGED <<vec, spurious>>

\* Mutant of UnLock: whoever waits is only told when the count was negative.
UnLockQuietly(t) ==
  /\ pc[t] = "in"
  /\ m_count' = m_count - 1
  /\ pc' = [pc EXCEPT ![t] = "out"]
  /\ UNCHANGED <<m_vec, vec, calls, spurious>>

UnLock(t) ==
  /\ pc[t] = "in"
  /\ m_count' = m_count - 1
  /\ pc' = LET left == [pc EXCEPT ![t] = "out"]
           IN  IF m_count' <= 0 THEN WakeAll(left) ELSE left
  /\ UNCHANGED <<m_vec, vec, calls, spurious>>

\* The next ScopedMutexVector of the thread is for another group.
Construct(t) ==
  /\ pc[t] = "out"
  /\ calls[t] < MaxCalls
  /\ \E v \in Vectors \ {vec[t]} : vec' = [vec EXCEPT ![t] = v]
  /\ UNCHANGED <<m_vec, m_count, pc, calls, spurious>>

SpuriousWakeup(t) ==
  /\ pc[t] = "asleep"
  /\ spurious < MaxSpurious
  /\ spurious' = spurious + 1
  /\ pc' = [pc EXCEPT ![t] = "woken"]
  /\ UNCHANGED <<m_vec, m_count, vec, calls>>

Next ==
  \E t \in Threads :
    \/ Lock(t) \/ Awake(t) \/ TryLock(t) \/ UnLock(t)
    \/ Construct(t) \/ SpuriousWakeup(t)

\* m_mutex is held for a few statements, so who is woken gets it; and a
\* thread that holds the lock gives it back.
Fairness == \A t \in Threads : WF_vars(Awake(t)) /\ WF_vars(UnLock(t))

Spec == Init /\ [][Next]_vars
FairSpec == Spec /\ Fairness
-----------------------------------------------------------------------------
Holders == {t \in Threads : pc[t] = "in"}

\* Every variable has its type.
TypeOK ==
  /\ m_vec \in Vectors
  /\ m_count \in Nat
  /\ pc \in [Threads -> {"out", "asleep", "woken", "in"}]
  /\ vec \in [Threads -> Vectors]
  /\ calls \in [Threads -> Nat]
  /\ spurious \in Nat

\* All who hold the lock are of the group it says (the assertion of UnLock),
\* so threads of two groups never hold it together.
Exclusion == \A t \in Holders : vec[t] = m_vec

\* The count is the number of holders: it is 1 when the group changes and
\* never negative (the assertions of Lock, UnLock and TryLock).
CountExact == m_count = Cardinality(Holders)

\* A thread sleeps only while a group that is not its own holds the lock: no
\* wakeup is lost when the last holder leaves or the lock changes its group.
NoLostWakeup ==
  \A t \in Threads : pc[t] = "asleep" => m_count > 0 /\ vec[t] # m_vec

Abstract == INSTANCE AbstractGroupLock WITH
  Thread <- Threads, Group <- Vectors, holders <- Holders, group <- m_vec

\* The lock is the abstract one: a step lets one thread in, when nobody or
\* its own group is there, or lets one out.
ImplementsLock == Abstract!AbstractSpec

\* A thread that waits gets in once no new calls are made.  While they are, a
\* group that keeps the lock among its members starves the others.
GetsIn == \A t \in Threads : (pc[t] \in {"asleep", "woken"}) ~> (pc[t] = "in")
=============================================================================
