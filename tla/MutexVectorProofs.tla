------------------------- MODULE MutexVectorProofs --------------------------
(***************************************************************************)
(* What is proved of the group lock for any threads, groups and bounds.    *)
(***************************************************************************)
EXTENDS MutexVector, FiniteSetTheorems, TLAPS

\* The four invariants need each other: only the count tells the code that
\* nobody is inside, and only a nonzero count justifies a sleeper.
Inv == TypeOK /\ Exclusion /\ CountExact /\ NoLostWakeup

States == {"out", "asleep", "woken", "in"}

\* The holders are a finite set.
LEMMA HoldersFinite ==
  /\ IsFiniteSet(Holders)
  /\ Cardinality(Holders) \in Nat
BY FiniteAssumption, FS_Subset, FS_CardinalityType DEF Holders

\* Nobody sleeps after a notifyAll, and it lets nobody in or out.
LEMMA WakeAllProperties ==
  ASSUME NEW pcs \in [Threads -> States]
  PROVE  /\ WakeAll(pcs) \in [Threads -> States]
         /\ \A t \in Threads : WakeAll(pcs)[t] # "asleep"
         /\ \A t \in Threads : WakeAll(pcs)[t] = "in" <=> pcs[t] = "in"
         /\ \A t \in Threads : WakeAll(pcs)[t] = "out" <=> pcs[t] = "out"
BY DEF WakeAll, States

\* A thread that takes its place beside those of its group.
LEMMA ShareStep ==
  ASSUME Inv, NEW t \in Threads, pc[t] # "in", Share(t), UNCHANGED vec
  PROVE  /\ Exclusion' /\ CountExact' /\ NoLostWakeup'
         /\ Holders' = Holders \union {t}
         /\ m_count' \in Nat /\ pc' \in [Threads -> States]
<1>1. Holders' = Holders \union {t} /\ t \notin Holders
  BY DEF Inv, TypeOK, Share, Holders
<1>2. CountExact'
  BY <1>1, HoldersFinite, FS_AddElement DEF Inv, CountExact, Share
<1>3. Exclusion'
  BY <1>1 DEF Inv, Exclusion, Share
<1>4. NoLostWakeup'
  BY DEF Inv, TypeOK, NoLostWakeup, Share
<1>5. QED
  BY <1>1, <1>2, <1>3, <1>4 DEF Inv, TypeOK, Share, States

\* A thread that finds nobody inside and makes the lock its group's.
LEMMA TakeStep ==
  ASSUME Inv, NEW t \in Threads, pc[t] # "in", Take(t), UNCHANGED vec
  PROVE  /\ Exclusion' /\ CountExact' /\ NoLostWakeup'
         /\ Holders = {} /\ Holders' = Holders \union {t}
         /\ m_count' \in Nat /\ pc' \in [Threads -> States] /\ m_vec' \in Vectors
<1>1. m_count = 0 /\ Cardinality(Holders) = 0
  BY DEF Inv, TypeOK, CountExact, Take
<1>2. Holders = {}
  BY <1>1, HoldersFinite, FS_EmptySet
<1> DEFINE inside == [pc EXCEPT ![t] = "in"]
<1>3. inside \in [Threads -> States] /\ pc' = WakeAll(inside)
  BY DEF Inv, TypeOK, Take, States
<1>4. /\ pc' \in [Threads -> States]
      /\ \A s \in Threads : pc'[s] # "asleep"
      /\ \A s \in Threads : pc'[s] = "in" <=> inside[s] = "in"
  BY <1>3, WakeAllProperties
<1>5. Holders' = Holders \union {t} /\ t \notin Holders
  <2>1. \A s \in Threads : inside[s] = "in" <=> pc[s] = "in" \/ s = t
    BY DEF Inv, TypeOK
  <2>2. Holders' = {s \in Threads : pc[s] = "in" \/ s = t}
    BY <1>4, <2>1 DEF Holders
  <2>3. QED
    BY <1>2, <2>2 DEF Holders
<1>6. CountExact'
  BY <1>2, <1>5, HoldersFinite, FS_AddElement DEF Inv, CountExact, Take
<1>7. Exclusion'
  BY <1>2, <1>5 DEF Inv, Exclusion, Take
<1>8. NoLostWakeup'
  BY <1>4 DEF NoLostWakeup
<1>9. m_vec' \in Vectors /\ m_count' \in Nat
  BY DEF Inv, TypeOK, Take
<1>10. QED
  BY <1>2, <1>4, <1>5, <1>6, <1>7, <1>8, <1>9

\* A thread that goes to sleep.
LEMMA WaitStep ==
  ASSUME Inv, NEW t \in Threads, pc[t] # "in", Wait(t), UNCHANGED vec
  PROVE  /\ Exclusion' /\ CountExact' /\ NoLostWakeup'
         /\ Holders' = Holders
         /\ pc' \in [Threads -> States]
<1>1. Holders' = Holders
  BY DEF Inv, TypeOK, Wait, Holders
<1>2. Exclusion' /\ CountExact'
  BY <1>1 DEF Inv, Exclusion, CountExact, Wait
<1>3. NoLostWakeup'
  BY DEF Inv, TypeOK, NoLostWakeup, Wait
<1>4. QED
  BY <1>1, <1>2, <1>3 DEF Inv, TypeOK, Wait, States

\* The three outcomes of a look at the lock keep the invariant.
LEMMA LookStep ==
  ASSUME Inv, NEW t \in Threads, pc[t] # "in", UNCHANGED vec,
         calls' \in [Threads -> Nat], spurious' \in Nat,
         Share(t) \/ Take(t) \/ Wait(t)
  PROVE  Inv'
<1>1. Exclusion' /\ CountExact' /\ NoLostWakeup' /\ pc' \in [Threads -> States]
  BY ShareStep, TakeStep, WaitStep
<1>2. m_count' \in Nat /\ m_vec' \in Vectors
  <2>1. CASE Share(t)
    BY <2>1, ShareStep DEF Share, Inv, TypeOK
  <2>2. CASE Take(t)
    BY <2>2, TakeStep
  <2>3. CASE Wait(t)
    BY <2>3 DEF Wait, Inv, TypeOK
  <2>4. QED
    BY <2>1, <2>2, <2>3
<1>3. QED
  BY <1>1, <1>2 DEF Inv, TypeOK, States

\* A call adds one to the calls of its thread.
LEMMA CallStep ==
  ASSUME Inv, NEW t \in Threads, Call(t)
  PROVE  pc[t] # "in" /\ calls' \in [Threads -> Nat]
BY DEF Inv, TypeOK, Call

\* A holder that leaves wakes whoever waits when it was the last.
LEMMA UnLockStep ==
  ASSUME Inv, NEW t \in Threads, UnLock(t)
  PROVE  Inv' /\ Holders' = Holders \ {t} /\ t \in Holders
<1> DEFINE left == [pc EXCEPT ![t] = "out"]
<1>1. t \in Holders /\ left \in [Threads -> States]
  BY DEF Inv, TypeOK, UnLock, Holders, States
<1>2. /\ WakeAll(left) \in [Threads -> States]
      /\ \A s \in Threads : WakeAll(left)[s] # "asleep"
      /\ \A s \in Threads : WakeAll(left)[s] = "in" <=> left[s] = "in"
  BY <1>1, WakeAllProperties
<1>3. pc' = IF m_count' <= 0 THEN WakeAll(left) ELSE left
  BY DEF UnLock
<1>4. pc' \in [Threads -> States]
  BY <1>1, <1>2, <1>3
<1>5. \A s \in Threads : pc'[s] = "in" <=> (pc[s] = "in" /\ s # t)
  BY <1>2, <1>3 DEF Inv, TypeOK
<1>6. Holders' = Holders \ {t}
  BY <1>5 DEF Holders
<1>7. /\ Cardinality(Holders \ {t}) = Cardinality(Holders) - 1
      /\ Cardinality(Holders \ {t}) \in Nat
  BY <1>1, HoldersFinite, FS_RemoveElement, FS_CardinalityType
<1>8. CountExact' /\ m_count' \in Nat
  BY <1>6, <1>7 DEF Inv, CountExact, UnLock
<1>9. Exclusion'
  BY <1>6 DEF Inv, Exclusion, UnLock
<1>10. NoLostWakeup'
  <2>1. UNCHANGED <<m_vec, vec>>
    BY DEF UnLock
  <2>2. CASE m_count' <= 0
    BY <1>2, <1>3, <2>2 DEF NoLostWakeup
  <2>3. CASE ~(m_count' <= 0)
    <3>1. m_count' > 0
      BY <1>8, <2>3
    <3>2. \A s \in Threads : pc'[s] = "asleep" => pc[s] = "asleep"
      BY <1>3, <2>3 DEF Inv, TypeOK
    <3>3. QED
      BY <2>1, <3>1, <3>2 DEF Inv, NoLostWakeup
  <2>4. QED
    BY <2>2, <2>3
<1>11. QED
  BY <1>1, <1>4, <1>6, <1>8, <1>9, <1>10 DEF Inv, TypeOK, UnLock, States

LEMMA InitInv ==
  ASSUME Init
  PROVE  Inv
<1>1. Holders = {}
  BY DEF Init, Holders
<1>2. CountExact
  BY <1>1, FS_EmptySet DEF Init, CountExact
<1>3. QED
  BY <1>1, <1>2, VectorAssumption DEF Init, Inv, TypeOK, Exclusion, NoLostWakeup

LEMMA NextInv ==
  ASSUME Inv, [Next]_vars
  PROVE  Inv'
<1>1. ASSUME NEW t \in Threads, Lock(t) \/ TryLock(t)
      PROVE  Inv'
  <2>1. pc[t] # "in" /\ calls' \in [Threads -> Nat]
    BY <1>1, CallStep DEF Lock, TryLock
  <2>2. UNCHANGED <<vec, spurious>> /\ (Share(t) \/ Take(t) \/ Wait(t))
    BY <1>1 DEF Lock, TryLock
  <2>3. QED
    BY <2>1, <2>2, LookStep DEF Inv, TypeOK
<1>2. ASSUME NEW t \in Threads, Awake(t)
      PROVE  Inv'
  BY <1>2, LookStep DEF Awake, Inv, TypeOK
<1>3. ASSUME NEW t \in Threads, UnLock(t)
      PROVE  Inv'
  BY <1>3, UnLockStep
<1>4. ASSUME NEW t \in Threads, Construct(t)
      PROVE  Inv'
  <2>1. Holders' = Holders /\ t \notin Holders /\ TypeOK'
    BY <1>4 DEF Construct, Inv, TypeOK, Holders
  <2>2. QED
    BY <1>4, <2>1 DEF Construct, Inv, TypeOK, Exclusion, CountExact,
                      NoLostWakeup, Holders
<1>5. ASSUME NEW t \in Threads, SpuriousWakeup(t)
      PROVE  Inv'
  <2>1. Holders' = Holders
    BY <1>5 DEF SpuriousWakeup, Inv, TypeOK, Holders
  <2>2. QED
    BY <1>5, <2>1 DEF SpuriousWakeup, Inv, TypeOK, Exclusion, CountExact,
                      NoLostWakeup
<1>6. CASE UNCHANGED vars
  BY <1>6 DEF vars, Inv, TypeOK, Exclusion, CountExact, NoLostWakeup, Holders
<1>7. QED
  BY <1>1, <1>2, <1>3, <1>4, <1>5, <1>6 DEF Next

\* Every reachable state satisfies the four invariants.
THEOREM InvHolds == Spec => []Inv
<1>1. Init => Inv
  BY InitInv
<1>2. Inv /\ [Next]_vars => Inv'
  BY NextInv
<1>3. QED
  BY <1>1, <1>2, PTL DEF Spec

\* The count is the number of those who hold the lock (mutexvector.h:55, :61,
\* :75, :95), whoever comes, leaves and wakes.
THEOREM CountsItsHolders == Spec => []CountExact
<1>1. Inv => CountExact
  BY DEF Inv
<1>2. QED
  BY <1>1, InvHolds, PTL

\* Threads of two groups never hold the lock together (mutexvector.h:73),
\* whatever they call and however their waits end.
THEOREM GroupsExclude == Spec => []Exclusion
<1>1. Inv => Exclusion
  BY DEF Inv
<1>2. QED
  BY <1>1, InvHolds, PTL

\* No wakeup is lost: who sleeps is kept out by another group that holds the
\* lock.
THEOREM SleepersHaveAReason == Spec => []NoLostWakeup
<1>1. Inv => NoLostWakeup
  BY DEF Inv
<1>2. QED
  BY <1>1, InvHolds, PTL

\* A look at the lock lets the thread in as the abstract lock does, or
\* leaves the holders as they are.
LEMMA LookImplements ==
  ASSUME Inv, NEW t \in Threads, pc[t] # "in", UNCHANGED vec,
         Share(t) \/ Take(t) \/ Wait(t)
  PROVE  Abstract!Enter(t, vec[t]) \/ UNCHANGED <<Holders, m_vec>>
<1>1. t \notin Holders
  BY DEF Holders
<1>2. CASE Share(t)
  <2>1. Holders' = Holders \union {t}
    BY <1>2, ShareStep
  <2>2. m_vec = vec[t] /\ m_vec' = vec[t]
    BY <1>2 DEF Share
  <2>3. QED
    BY <1>1, <2>1, <2>2 DEF Abstract!Enter
<1>3. CASE Take(t)
  <2>1. Holders = {} /\ Holders' = Holders \union {t}
    BY <1>3, TakeStep
  <2>2. m_vec' = vec[t]
    BY <1>3 DEF Take
  <2>3. QED
    BY <1>1, <2>1, <2>2 DEF Abstract!Enter
<1>4. CASE Wait(t)
  <2>1. Holders' = Holders
    BY <1>4, WaitStep
  <2>2. m_vec' = m_vec
    BY <1>4 DEF Wait
  <2>3. QED
    BY <2>1, <2>2
<1>5. QED
  BY <1>2, <1>3, <1>4

\* A step of the code is a step of the abstract lock or changes nothing of it.
LEMMA NextImplements ==
  ASSUME Inv, [Next]_vars
  PROVE  [Abstract!AbstractNext]_<<Holders, m_vec>>
<1>1. ASSUME NEW t \in Threads, Lock(t) \/ TryLock(t) \/ Awake(t)
      PROVE  Abstract!AbstractNext \/ UNCHANGED <<Holders, m_vec>>
  <2>1. pc[t] # "in" /\ UNCHANGED vec /\ (Share(t) \/ Take(t) \/ Wait(t))
    BY <1>1 DEF Lock, TryLock, Awake, Call
  <2>2. vec[t] \in Vectors
    BY DEF Inv, TypeOK
  <2>3. Abstract!Enter(t, vec[t]) \/ UNCHANGED <<Holders, m_vec>>
    BY <2>1, LookImplements
  <2>4. QED
    BY <2>2, <2>3 DEF Abstract!AbstractNext
<1>2. ASSUME NEW t \in Threads, UnLock(t)
      PROVE  Abstract!AbstractNext
  <2>1. Holders' = Holders \ {t} /\ t \in Holders /\ m_vec' = m_vec
    BY <1>2, UnLockStep DEF UnLock
  <2>2. QED
    BY <2>1 DEF Abstract!AbstractNext, Abstract!Leave
<1>3. ASSUME NEW t \in Threads, Construct(t) \/ SpuriousWakeup(t)
      PROVE  UNCHANGED <<Holders, m_vec>>
  BY <1>3 DEF Construct, SpuriousWakeup, Inv, TypeOK, Holders
<1>4. CASE UNCHANGED vars
  BY <1>4 DEF vars, Holders
<1>5. QED
  BY <1>1, <1>2, <1>3, <1>4 DEF Next

\* The lock of mutexvector.h implements the abstract group lock.
THEOREM ImplementsGroupLock == Spec => ImplementsLock
<1>1. Init => Abstract!AbstractInit
  BY VectorAssumption DEF Init, Holders, Abstract!AbstractInit
<1>2. Inv /\ [Next]_vars => [Abstract!AbstractNext]_<<Holders, m_vec>>
  BY NextImplements
<1>3. QED
  BY <1>1, <1>2, InvHolds, PTL DEF Spec, ImplementsLock, Abstract!AbstractSpec
=============================================================================
