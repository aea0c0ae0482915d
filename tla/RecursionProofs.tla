-------------------------- MODULE RecursionProofs --------------------------
(***************************************************************************)
(* For any threads, any limit, any places where assertions may fail and    *)
(* any number of them: the nested calls stay within one level of the       *)
(* limit, no nested call takes a mutex away from the code below it, and    *)
(* the text of a nested call that was saved is reported and freed once.    *)
(***************************************************************************)
EXTENDS Recursion, TLAPS

Section(l) == IF l = "buffer" THEN {"append", "flush"} ELSE {"tipswrite", "write"}

\* Where level 0 and the levels above it can be; a call that has made
\* another is past its guard.
Shape ==
  \A t \in Threads :
    /\ depth[t] \in 0 .. MaxDepth + 1
    /\ frame[t][0].pc \in {"rest", "flushlock", "flush", "writelock", "write"}
    /\ \A d \in 1 .. depth[t] : frame[t][d].pc \notin {"rest", "flushlock", "flush"}
    /\ \A d \in 0 .. depth[t] - 1 : frame[t][d].pc # "guard"
    /\ Top(t).pc = "guard" => Top(t).due = 0

\* At the limit no text is saved any more, once that call has taken what
\* was: the call above it finds none and returns.
Saved ==
  \A t \in Threads :
    /\ depth[t] = MaxDepth /\ Top(t).pc # "guard" => str[t] = Null
    /\ depth[t] = MaxDepth + 1 => str[t] = Null /\ Top(t).pc = "guard"

\* A mutex that a thread holds is owned by exactly one of its levels, which
\* is in the section the mutex guards; whoever is in the section is that
\* level or above it.
Owned ==
  /\ \A t \in Threads : \A d \in 0 .. depth[t] : \A l \in frame[t][d].own :
       owner[l] = t /\ frame[t][d].pc \in Section(l)
  /\ \A t \in Threads : \A d, e \in 0 .. depth[t] :
       frame[t][d].own \cap frame[t][e].own # {} => d = e
  /\ \A t \in Threads : \A d \in 0 .. depth[t] : \A l \in Locks :
       frame[t][d].pc \in Section(l) => \E e \in 0 .. d : l \in frame[t][e].own
  /\ \A t \in Threads : \A l \in Locks :
       owner[l] = t => \E d \in 0 .. depth[t] : l \in frame[t][d].own

Inv == TypeOK /\ Shape /\ Saved /\ Owned
-----------------------------------------------------------------------------
USE DepthAssumption, PlacesAssumption, NamesAssumption DEF Null, Locks

LEMMA FrameFacts ==
  ASSUME Inv, NEW t \in Threads
  PROVE  /\ Top(t) \in Frame
         /\ Idle \in Frame /\ Called \in Frame
         /\ depth[t] \in Levels /\ depth[t] \in Nat
         /\ depth[t] <= MaxDepth + 1
<1>1. depth[t] \in 0 .. MaxDepth + 1 /\ depth[t] \in Levels
  BY DEF Inv, TypeOK, Shape
<1>2. depth[t] \in Nat /\ depth[t] <= MaxDepth + 1
  BY <1>1 DEF Levels
<1>3. Top(t) \in Frame
  BY <1>1 DEF Inv, TypeOK, Top
<1>4. Idle \in Frame /\ Called \in Frame
  BY DEF Frame, Idle, Called
<1>5. QED
  BY <1>1, <1>2, <1>3, <1>4

\* The topmost level changes.
LEMMA BecomesIs ==
  ASSUME Inv, NEW t \in Threads, NEW f \in Frame, Becomes(t, f), UNCHANGED depth
  PROVE  /\ frame' \in [Threads -> [Levels -> Frame]]
         /\ \A s \in Threads \ {t} : frame'[s] = frame[s]
         /\ frame'[t][depth[t]] = f
         /\ \A d \in Levels \ {depth[t]} : frame'[t][d] = frame[t][d]
BY FrameFacts DEF Inv, TypeOK, Becomes

LEMMA PushIs ==
  ASSUME Inv, NEW t \in Threads, NEW f \in Frame, Push(t, f)
  PROVE  /\ frame' \in [Threads -> [Levels -> Frame]]
         /\ depth' \in [Threads -> Levels]
         /\ \A s \in Threads \ {t} : frame'[s] = frame[s] /\ depth'[s] = depth[s]
         /\ depth'[t] = depth[t] + 1
         /\ frame'[t][depth[t]] = f
         /\ frame'[t][depth[t] + 1] = Called
         /\ \A d \in Levels \ {depth[t], depth[t] + 1} : frame'[t][d] = frame[t][d]
<1>1. depth[t] + 1 \in Levels /\ depth[t] # depth[t] + 1
  BY FrameFacts DEF Levels
<1>2. QED
  BY <1>1, FrameFacts DEF Inv, TypeOK, Push

LEMMA PopIs ==
  ASSUME Inv, NEW t \in Threads, depth[t] > 0, Pop(t)
  PROVE  /\ frame' \in [Threads -> [Levels -> Frame]]
         /\ depth' \in [Threads -> Levels]
         /\ \A s \in Threads \ {t} : frame'[s] = frame[s] /\ depth'[s] = depth[s]
         /\ depth'[t] = depth[t] - 1
         /\ \A d \in Levels \ {depth[t]} : frame'[t][d] = frame[t][d]
<1>1. depth[t] - 1 \in Levels
  BY FrameFacts DEF Levels
<1>2. QED
  BY <1>1, FrameFacts DEF Inv, TypeOK, Pop
-----------------------------------------------------------------------------
(* Owned, by what a step does to the levels and the mutexes.               *)

\* Nothing is locked, unlocked, entered or left.
LEMMA StayOwned ==
  ASSUME Inv, NEW t \in Threads, NEW f \in Frame, Becomes(t, f),
         f.own = Top(t).own,
         \A l \in Locks : f.pc \in Section(l) <=> Top(t).pc \in Section(l),
         UNCHANGED <<depth, owner>>
  PROVE  Owned'
<1>1. \A s \in Threads, d \in Levels :
        /\ frame'[s][d].own = frame[s][d].own
        /\ \A l \in Locks : frame'[s][d].pc \in Section(l) <=> frame[s][d].pc \in Section(l)
  BY BecomesIs DEF Top
<1>2. \A s \in Threads : depth'[s] = depth[s] /\ 0 .. depth[s] \subseteq Levels
  BY FrameFacts DEF Levels
<1>3. \A s \in Threads, d \in Levels : frame[s][d].own \subseteq Locks
  BY DEF Inv, TypeOK, Frame
<1>4. \A s \in Threads : \A d \in 0 .. depth[s] : \A l \in frame'[s][d].own :
        owner'[l] = s /\ frame'[s][d].pc \in Section(l)
  BY <1>1, <1>2, <1>3 DEF Inv, Owned
<1>5. \A s \in Threads : \A d, e \in 0 .. depth[s] :
        frame'[s][d].own \cap frame'[s][e].own # {} => d = e
  BY <1>1, <1>2 DEF Inv, Owned
<1>6. \A s \in Threads : \A d \in 0 .. depth[s] : \A l \in Locks :
        frame'[s][d].pc \in Section(l) => \E e \in 0 .. d : l \in frame'[s][e].own
  <2> SUFFICES ASSUME NEW s \in Threads, NEW d \in 0 .. depth[s], NEW l \in Locks,
                      frame'[s][d].pc \in Section(l)
               PROVE  \E e \in 0 .. d : l \in frame'[s][e].own
    OBVIOUS
  <2>1. PICK e \in 0 .. d : l \in frame[s][e].own
    BY <1>1, <1>2 DEF Inv, Owned
  <2>2. e \in Levels
    BY <1>2, FrameFacts DEF Levels
  <2>3. QED
    BY <1>1, <2>1, <2>2
<1>7. \A s \in Threads : \A l \in Locks :
        owner'[l] = s => \E d \in 0 .. depth[s] : l \in frame'[s][d].own
  BY <1>1, <1>2 DEF Inv, Owned
<1>8. QED
  BY <1>2, <1>4, <1>5, <1>6, <1>7 DEF Owned

LEMMA LevelFacts ==
  ASSUME Inv
  PROVE  /\ \A s \in Threads : 0 .. depth[s] \subseteq Levels
         /\ \A s \in Threads, d \in Levels : frame[s][d].own \subseteq Locks
<1>1. \A s \in Threads : 0 .. depth[s] \subseteq Levels
  BY FrameFacts DEF Levels
<1>2. QED
  BY <1>1 DEF Inv, TypeOK, Frame

\* A level that is in no section owns nothing.
LEMMA OutsideOwnsNothing ==
  ASSUME Inv, NEW t \in Threads, \A l \in Locks : Top(t).pc \notin Section(l)
  PROVE  Top(t).own = {}
<1>1. depth[t] \in 0 .. depth[t] /\ depth[t] \in Levels
  BY FrameFacts
<1>2. \A l \in Top(t).own : l \in Locks /\ Top(t).pc \in Section(l)
  BY <1>1, LevelFacts DEF Inv, Owned, Top
<1>3. QED
  BY <1>2

\* A ScopedLock is made.
LEMMA LockOwned ==
  ASSUME Inv, NEW t \in Threads, NEW l \in Locks,
         NEW pc \in {"tipswrite", "write", "append", "flush"},
         ScopedLock(t, l, pc), UNCHANGED depth,
         \A k \in Locks : pc \in Section(k) <=> k = l,
         \A k \in Locks : Top(t).pc \notin Section(k)
  PROVE  Owned'
<1> DEFINE top == depth[t]
<1>0. /\ top \in 0 .. top /\ top \in Levels /\ Top(t).own = {}
      /\ Top(t) \in Frame
  BY FrameFacts, OutsideOwnsNothing
<1>1. CASE /\ owner[l] = None
           /\ owner' = [owner EXCEPT ![l] = t]
           /\ Becomes(t, [Top(t) EXCEPT !.pc = pc, !.own = @ \union {l}])
  <2> DEFINE f == [Top(t) EXCEPT !.pc = pc, !.own = @ \union {l}]
  <2>1. f \in Frame /\ f.own = {l} /\ f.pc = pc
    BY <1>0 DEF Frame, Places
  <2>2. /\ frame'[t][top] = f
        /\ \A d \in Levels \ {top} : frame'[t][d] = frame[t][d]
        /\ \A s \in Threads \ {t} : frame'[s] = frame[s]
    BY <1>1, <2>1, BecomesIs
  <2>3. /\ owner'[l] = t
        /\ \A k \in Locks \ {l} : owner'[k] = owner[k]
    BY <1>1 DEF Inv, TypeOK
  <2>4. \A s \in Threads : \A d \in 0 .. depth[s] : l \notin frame[s][d].own
    BY <1>1 DEF Inv, Owned
  <2>a. frame'[t][top].own = {l} /\ frame'[t][top].pc = pc
    BY <2>1, <2>2
  <2>b. \A s \in Threads : \A d \in 0 .. depth[s] :
          ~(s = t /\ d = top) => frame'[s][d] = frame[s][d]
    BY <2>2, LevelFacts
  <2>5. ASSUME NEW s \in Threads, NEW d \in 0 .. depth[s], NEW k \in frame'[s][d].own
        PROVE  owner'[k] = s /\ frame'[s][d].pc \in Section(k)
    <3>1. CASE s = t /\ d = top
      BY <2>a, <2>3, <3>1
    <3>2. CASE ~(s = t /\ d = top)
      BY <2>b, <2>3, <2>4, <3>2, LevelFacts DEF Inv, Owned
    <3>3. QED
      BY <3>1, <3>2
  <2>6. ASSUME NEW s \in Threads, NEW d \in 0 .. depth[s], NEW e \in 0 .. depth[s],
               frame'[s][d].own \cap frame'[s][e].own # {}
        PROVE  d = e
    <3>1. CASE s # t \/ (d # top /\ e # top)
      BY <2>b, <2>6, <3>1 DEF Inv, Owned
    <3>2. CASE s = t /\ d = top
      BY <2>a, <2>b, <2>4, <2>6, <3>2
    <3>3. CASE s = t /\ e = top
      BY <2>a, <2>b, <2>4, <2>6, <3>3
    <3>4. QED
      BY <3>1, <3>2, <3>3
  <2>7. \A s \in Threads : \A d \in 0 .. depth[s] : \A k \in Locks :
          frame'[s][d].pc \in Section(k) => \E e \in 0 .. d : k \in frame'[s][e].own
    <3> SUFFICES ASSUME NEW s \in Threads, NEW d \in 0 .. depth[s], NEW k \in Locks,
                        frame'[s][d].pc \in Section(k)
                 PROVE  \E e \in 0 .. d : k \in frame'[s][e].own
      OBVIOUS
    <3>1. CASE s = t /\ d = top
      <4>1. k = l /\ l \in frame'[t][top].own
        BY <2>a, <3>1
      <4>2. QED
        BY <1>0, <3>1, <4>1
    <3>2. CASE ~(s = t /\ d = top)
      <4>1. frame'[s][d] = frame[s][d]
        BY <2>2, <3>2, LevelFacts
      <4>2. PICK e \in 0 .. d : k \in frame[s][e].own
        BY <4>1 DEF Inv, Owned
      <4>3. e \in Levels /\ e \in 0 .. depth[s]
        BY LevelFacts, FrameFacts
      <4>4. ~(s = t /\ e = top)
        BY <1>0, <4>2 DEF Top
      <4>5. QED
        BY <2>2, <4>2, <4>3, <4>4
    <3>3. QED
      BY <3>1, <3>2
  <2>8. \A s \in Threads : \A k \in Locks :
          owner'[k] = s => \E d \in 0 .. depth[s] : k \in frame'[s][d].own
    <3> SUFFICES ASSUME NEW s \in Threads, NEW k \in Locks, owner'[k] = s
                 PROVE  \E d \in 0 .. depth[s] : k \in frame'[s][d].own
      OBVIOUS
    <3>1. CASE k = l
      BY <1>0, <2>1, <2>2, <2>3, <3>1
    <3>2. CASE k # l
      <4>1. PICK d \in 0 .. depth[s] : k \in frame[s][d].own
        BY <2>3, <3>2 DEF Inv, Owned
      <4>2. ~(s = t /\ d = top)
        BY <1>0, <4>1 DEF Top
      <4>3. QED
        BY <2>2, <4>1, <4>2, LevelFacts
    <3>3. QED
      BY <3>1, <3>2
  <2>9. QED
    BY <2>5, <2>6, <2>7, <2>8 DEF Owned
<1>2. CASE /\ owner[l] = t
           /\ Becomes(t, [Top(t) EXCEPT !.pc = pc, !.due = 2])
           /\ UNCHANGED owner
  <2> DEFINE f == [Top(t) EXCEPT !.pc = pc, !.due = 2]
  <2>0. f.own = {} /\ f.pc = pc /\ f.due = 2 /\ f.tip = Top(t).tip
    BY <1>0 DEF Frame
  <2>1. f \in Frame /\ f.own = {} /\ f.pc = pc
    <3>1. DOMAIN f = DOMAIN Top(t)
      OBVIOUS
    <3>2. QED
      BY <1>0, <2>0, <3>1, 2 \in 0 .. 2 DEF Frame, Places
  <2>2. /\ frame'[t][top] = f
        /\ \A d \in Levels \ {top} : frame'[t][d] = frame[t][d]
        /\ \A s \in Threads \ {t} : frame'[s] = frame[s]
    BY <1>2, <2>1, BecomesIs
  <2>3. \A s \in Threads, d \in Levels : frame'[s][d].own = frame[s][d].own
    BY <1>0, <2>1, <2>2 DEF Top
  <2>a. frame'[t][top].own = {} /\ frame'[t][top].pc = pc
    BY <2>1, <2>2
  <2>b. \A s \in Threads : \A d \in 0 .. depth[s] :
          ~(s = t /\ d = top) => frame'[s][d] = frame[s][d]
    BY <2>2, LevelFacts
  <2>4. ASSUME NEW s \in Threads, NEW d \in 0 .. depth[s], NEW k \in frame'[s][d].own
        PROVE  owner'[k] = s /\ frame'[s][d].pc \in Section(k)
    <3>1. ~(s = t /\ d = top)
      BY <2>a
    <3>2. QED
      BY <1>2, <2>b, <3>1, LevelFacts DEF Inv, Owned
  <2>5. \A s \in Threads : \A d, e \in 0 .. depth[s] :
          frame'[s][d].own \cap frame'[s][e].own # {} => d = e
    BY <2>3, LevelFacts DEF Inv, Owned
  <2>6. \A s \in Threads : \A k \in Locks :
          owner'[k] = s => \E d \in 0 .. depth[s] : k \in frame'[s][d].own
    BY <1>2, <2>3, LevelFacts DEF Inv, Owned
  <2>7. \A s \in Threads : \A d \in 0 .. depth[s] : \A k \in Locks :
          frame'[s][d].pc \in Section(k) => \E e \in 0 .. d : k \in frame'[s][e].own
    <3> SUFFICES ASSUME NEW s \in Threads, NEW d \in 0 .. depth[s], NEW k \in Locks,
                        frame'[s][d].pc \in Section(k)
                 PROVE  \E e \in 0 .. d : k \in frame'[s][e].own
      OBVIOUS
    <3>1. CASE s = t /\ d = top
      <4>1. k = l /\ owner'[l] = t
        BY <1>2, <2>a, <3>1
      <4>2. QED
        BY <2>6, <3>1, <4>1
    <3>2. CASE ~(s = t /\ d = top)
      <4>1. PICK e \in 0 .. d : k \in frame[s][e].own
        BY <2>2, <3>2, LevelFacts DEF Inv, Owned
      <4>2. e \in Levels
        BY LevelFacts, FrameFacts
      <4>3. QED
        BY <2>3, <4>1, <4>2
    <3>3. QED
      BY <3>1, <3>2
  <2>8. QED
    BY <2>4, <2>5, <2>6, <2>7 DEF Owned
<1>3. QED
  BY <1>1, <1>2 DEF ScopedLock

\* The topmost level leaves its section, or returns: what it owned is free.
LEMMA ReleaseOwned ==
  ASSUME Inv, NEW t \in Threads,
         depth' \in [Threads -> Levels],
         \A s \in Threads \ {t} : frame'[s] = frame[s] /\ depth'[s] = depth[s],
         \A d \in 0 .. depth[t] - 1 : frame'[t][d] = frame[t][d],
         \/ depth'[t] = depth[t] - 1
         \/ /\ depth'[t] = depth[t]
            /\ frame'[t][depth[t]].own = {}
            /\ \A k \in Locks : frame'[t][depth[t]].pc \notin Section(k),
         \A k \in Locks : owner'[k] = IF k \in Top(t).own THEN None ELSE owner[k]
  PROVE  Owned'
<1> DEFINE top == depth[t]
<1>0. top \in 0 .. top /\ top \in Levels /\ top \in Nat
  BY FrameFacts
<1>1. ASSUME NEW s \in Threads, NEW d \in 0 .. depth'[s], ~(s = t /\ d = top)
      PROVE  /\ d \in 0 .. depth[s] /\ d \in Levels
             /\ (s = t => d \in 0 .. top - 1)
             /\ frame'[s][d] = frame[s][d]
  <2>1. CASE s = t
    BY <1>0, <1>1, <2>1, LevelFacts
  <2>2. CASE s # t
    BY <1>1, <2>2, LevelFacts
  <2>3. QED
    BY <2>1, <2>2
<1>2. ASSUME NEW s \in Threads, NEW d \in 0 .. depth[s], ~(s = t /\ d = top)
      PROVE  d \in 0 .. depth'[s] /\ frame'[s][d] = frame[s][d]
  BY <1>0, <1>2
<1>3. ASSUME top \in 0 .. depth'[t]
      PROVE  /\ frame'[t][top].own = {}
             /\ \A k \in Locks : frame'[t][top].pc \notin Section(k)
  BY <1>0, <1>3
<1>4. ASSUME NEW s \in Threads, NEW d \in 0 .. depth'[s], NEW k \in frame'[s][d].own
      PROVE  owner'[k] = s /\ frame'[s][d].pc \in Section(k)
  <2>1. ~(s = t /\ d = top)
    BY <1>3, <1>4
  <2>2. /\ frame'[s][d] = frame[s][d] /\ d \in 0 .. depth[s] /\ d \in Levels
        /\ k \in frame[s][d].own /\ k \in Locks
    BY <1>1, <1>4, <2>1, LevelFacts
  <2>3. owner[k] = s /\ frame[s][d].pc \in Section(k)
    BY <2>2 DEF Inv, Owned
  <2>4. k \notin Top(t).own
    <3> SUFFICES ASSUME k \in Top(t).own PROVE FALSE
      OBVIOUS
    <3>1. owner[k] = t
      BY <1>0 DEF Inv, Owned, Top
    <3>2. s = t /\ k \in frame[t][top].own \cap frame[t][d].own
      BY <2>2, <2>3, <3>1 DEF Top
    <3>3. d = top
      BY <1>0, <2>2, <3>2 DEF Inv, Owned
    <3>4. QED
      BY <2>1, <3>2, <3>3
  <2>5. QED
    BY <2>2, <2>3, <2>4
<1>5. ASSUME NEW s \in Threads, NEW d \in 0 .. depth'[s], NEW e \in 0 .. depth'[s],
             frame'[s][d].own \cap frame'[s][e].own # {}
      PROVE  d = e
  <2>1. ~(s = t /\ d = top) /\ ~(s = t /\ e = top)
    BY <1>3, <1>5
  <2>2. QED
    BY <1>1, <1>5, <2>1 DEF Inv, Owned
<1>6. ASSUME NEW s \in Threads, NEW d \in 0 .. depth'[s], NEW k \in Locks,
             frame'[s][d].pc \in Section(k)
      PROVE  \E e \in 0 .. d : k \in frame'[s][e].own
  <2>1. ~(s = t /\ d = top)
    BY <1>3, <1>6
  <2>2. frame'[s][d] = frame[s][d] /\ d \in 0 .. depth[s]
        /\ (s = t => d \in 0 .. top - 1)
    BY <1>1, <2>1
  <2>3. PICK e \in 0 .. d : k \in frame[s][e].own
    BY <1>6, <2>2 DEF Inv, Owned
  <2>4. e \in 0 .. depth[s] /\ ~(s = t /\ e = top)
    BY <1>0, <2>2, FrameFacts
  <2>5. QED
    BY <1>2, <2>3, <2>4
<1>7. ASSUME NEW s \in Threads, NEW k \in Locks, owner'[k] = s
      PROVE  \E d \in 0 .. depth'[s] : k \in frame'[s][d].own
  <2>1. k \notin Top(t).own /\ owner[k] = s
    BY <1>7
  <2>2. PICK d \in 0 .. depth[s] : k \in frame[s][d].own
    BY <2>1 DEF Inv, Owned
  <2>3. ~(s = t /\ d = top)
    BY <2>1, <2>2 DEF Top
  <2>4. QED
    BY <1>2, <2>2, <2>3
<1>8. QED
  BY <1>4, <1>5, <1>6, <1>7 DEF Owned

\* A nested call is made: its level owns nothing yet.
LEMMA PushOwned ==
  ASSUME Inv, NEW t \in Threads, NEW f \in Frame, Push(t, f),
         f.own = Top(t).own, f.pc = Top(t).pc, UNCHANGED owner
  PROVE  Owned'
<1> DEFINE new == depth[t] + 1
<1>0. /\ depth[t] \in 0 .. depth[t] /\ depth[t] \in Levels /\ depth[t] \in Nat
      /\ new \in Nat /\ depth'[t] = new
  BY FrameFacts, PushIs
<1>1. /\ frame'[t][new].own = {} /\ frame'[t][new].pc = "guard"
      /\ \A k \in Locks : "guard" \notin Section(k)
  BY PushIs DEF Called, Idle, Section
<1>2. ASSUME NEW s \in Threads, NEW d \in 0 .. depth[s]
      PROVE  /\ d \in 0 .. depth'[s]
             /\ frame'[s][d].own = frame[s][d].own
             /\ frame'[s][d].pc = frame[s][d].pc
  <2>1. CASE s = t
    <3>1. d \in Levels /\ d # new /\ d \in 0 .. new
      BY <1>0, <2>1, LevelFacts
    <3>2. QED
      BY <1>0, <2>1, <3>1, PushIs DEF Top
  <2>2. CASE s # t
    BY <2>2, PushIs
  <2>3. QED
    BY <2>1, <2>2
<1>3. ASSUME NEW s \in Threads, NEW d \in 0 .. depth'[s], ~(s = t /\ d = new)
      PROVE  d \in 0 .. depth[s]
  <2>1. CASE s = t
    <3>1. d \in 0 .. new /\ d # new
      BY <1>0, <1>3, <2>1
    <3>2. QED
      BY <1>0, <2>1, <3>1
  <2>2. CASE s # t
    BY <2>2, PushIs
  <2>3. QED
    BY <2>1, <2>2
<1>4. ASSUME NEW s \in Threads, NEW d \in 0 .. depth'[s], NEW k \in frame'[s][d].own
      PROVE  owner'[k] = s /\ frame'[s][d].pc \in Section(k)
  <2>1. ~(s = t /\ d = new)
    BY <1>1
  <2>2. d \in 0 .. depth[s]
    BY <1>3, <2>1
  <2>3. k \in frame[s][d].own
    BY <1>2, <2>2
  <2>4. QED
    BY <1>2, <2>2, <2>3 DEF Inv, Owned
<1>5. ASSUME NEW s \in Threads, NEW d \in 0 .. depth'[s], NEW e \in 0 .. depth'[s],
             frame'[s][d].own \cap frame'[s][e].own # {}
      PROVE  d = e
  <2>1. ~(s = t /\ d = new) /\ ~(s = t /\ e = new)
    BY <1>1, <1>5
  <2>2. d \in 0 .. depth[s] /\ e \in 0 .. depth[s]
    BY <1>3, <2>1
  <2>3. QED
    BY <1>2, <1>5, <2>2 DEF Inv, Owned
<1>6. ASSUME NEW s \in Threads, NEW d \in 0 .. depth'[s], NEW k \in Locks,
             frame'[s][d].pc \in Section(k)
      PROVE  \E e \in 0 .. d : k \in frame'[s][e].own
  <2>1. ~(s = t /\ d = new)
    BY <1>1, <1>6
  <2>2. d \in 0 .. depth[s]
    BY <1>3, <2>1
  <2>3. PICK e \in 0 .. d : k \in frame[s][e].own
    BY <1>2, <1>6, <2>2 DEF Inv, Owned
  <2>4. e \in 0 .. depth[s]
    BY <2>2, FrameFacts
  <2>5. QED
    BY <1>2, <2>3, <2>4
<1>7. ASSUME NEW s \in Threads, NEW k \in Locks, owner'[k] = s
      PROVE  \E d \in 0 .. depth'[s] : k \in frame'[s][d].own
  <2>1. PICK d \in 0 .. depth[s] : k \in frame[s][d].own
    BY <1>7 DEF Inv, Owned
  <2>2. QED
    BY <1>2, <2>1
<1>8. QED
  BY <1>4, <1>5, <1>6, <1>7 DEF Owned
-----------------------------------------------------------------------------
(* Shape and Saved.                                                        *)

BasePcs == {"rest", "flushlock", "flush", "writelock", "write"}

\* The topmost level goes on, past its guard.
LEMMA StayShape ==
  ASSUME Inv, NEW t \in Threads, NEW f \in Frame, Becomes(t, f), UNCHANGED depth,
         f.pc # "guard",
         depth[t] = 0 => f.pc \in BasePcs,
         depth[t] > 0 => f.pc \notin {"rest", "flushlock", "flush"},
         \A s \in Threads \ {t} : str'[s] = str[s],
         \/ Top(t).pc # "guard" /\ str'[t] = str[t]
         \/ depth[t] # MaxDepth + 1 /\ str'[t] = Null
  PROVE  Shape' /\ Saved'
<1>1. /\ frame'[t][depth[t]] = f
      /\ \A d \in Levels \ {depth[t]} : frame'[t][d] = frame[t][d]
      /\ \A s \in Threads \ {t} : frame'[s] = frame[s]
  BY BecomesIs
<1>2. /\ depth[t] \in Nat /\ depth[t] <= MaxDepth + 1 /\ 0 \in Levels
      /\ 0 .. depth[t] \subseteq Levels
  BY FrameFacts, LevelFacts DEF Levels
<1>3. Shape'
  <2> SUFFICES ASSUME NEW s \in Threads
               PROVE  /\ depth[s] \in 0 .. MaxDepth + 1
                      /\ frame'[s][0].pc \in BasePcs
                      /\ \A d \in 1 .. depth[s] :
                           frame'[s][d].pc \notin {"rest", "flushlock", "flush"}
                      /\ \A d \in 0 .. depth[s] - 1 : frame'[s][d].pc # "guard"
                      /\ frame'[s][depth[s]].pc = "guard" => frame'[s][depth[s]].due = 0
    BY DEF Shape, Top, BasePcs
  <2>1. CASE s # t
    BY <1>1, <2>1 DEF Inv, Shape, Top, BasePcs
  <2>2. CASE s = t
    <3>1. depth[t] \in 0 .. MaxDepth + 1 /\ frame'[t][0].pc \in BasePcs
      BY <1>1, <1>2 DEF Inv, Shape, BasePcs
    <3>2. ASSUME NEW d \in 1 .. depth[t]
          PROVE  frame'[t][d].pc \notin {"rest", "flushlock", "flush"}
      BY <1>1, <1>2 DEF Inv, Shape
    <3>3. ASSUME NEW d \in 0 .. depth[t] - 1
          PROVE  frame'[t][d].pc # "guard"
      BY <1>1, <1>2 DEF Inv, Shape
    <3>4. QED
      BY <1>1, <2>2, <3>1, <3>2, <3>3
  <2>3. QED
    BY <2>1, <2>2
<1>4. depth[t] # MaxDepth + 1
  BY DEF Inv, Saved
<1>5. depth[t] = MaxDepth => str'[t] = Null
  BY DEF Inv, Saved
<1>6. Saved'
  BY <1>1, <1>4, <1>5 DEF Inv, Saved, Top
<1>7. QED
  BY <1>3, <1>6

\* A level that is past its guard makes a nested call.
LEMMA PushShape ==
  ASSUME Inv, NEW t \in Threads, NEW f \in Frame, Push(t, f),
         f.pc = Top(t).pc, Top(t).pc # "guard", UNCHANGED str
  PROVE  Shape' /\ Saved'
<1> DEFINE new == depth[t] + 1
<1>1. /\ depth'[t] = new /\ frame'[t][new] = Called
      /\ frame'[t][depth[t]].pc = frame[t][depth[t]].pc
      /\ \A d \in Levels \ {depth[t], new} : frame'[t][d] = frame[t][d]
      /\ \A s \in Threads \ {t} : frame'[s] = frame[s] /\ depth'[s] = depth[s]
  BY PushIs DEF Top
<1>2. /\ depth[t] \in Nat /\ depth[t] <= MaxDepth /\ 0 .. depth[t] \subseteq Levels
      /\ (depth[t] = MaxDepth => str[t] = Null)
  <2>1. depth[t] # MaxDepth + 1
    BY DEF Inv, Saved
  <2>2. QED
    BY <2>1, FrameFacts, LevelFacts DEF Inv, Saved
<1>3. Called.pc = "guard" /\ Called.due = 0
  BY DEF Called, Idle
<1>4. \A d \in 0 .. depth[t] : frame'[t][d].pc = frame[t][d].pc
  BY <1>1, <1>2
<1>5. Shape'
  <2> SUFFICES ASSUME NEW s \in Threads
               PROVE  /\ depth'[s] \in 0 .. MaxDepth + 1
                      /\ frame'[s][0].pc \in BasePcs
                      /\ \A d \in 1 .. depth'[s] :
                           frame'[s][d].pc \notin {"rest", "flushlock", "flush"}
                      /\ \A d \in 0 .. depth'[s] - 1 : frame'[s][d].pc # "guard"
                      /\ frame'[s][depth'[s]].pc = "guard" => frame'[s][depth'[s]].due = 0
    BY DEF Shape, Top, BasePcs
  <2>1. CASE s # t
    BY <1>1, <2>1 DEF Inv, Shape, Top, BasePcs
  <2>2. CASE s = t
    <3>1. new \in 0 .. MaxDepth + 1 /\ frame'[t][0].pc \in BasePcs
      BY <1>2, <1>4 DEF Inv, Shape, BasePcs
    <3>2. ASSUME NEW d \in 1 .. new
          PROVE  frame'[t][d].pc \notin {"rest", "flushlock", "flush"}
      <4>1. CASE d = new
        BY <1>1, <1>3, <4>1
      <4>2. CASE d # new
        <5>1. d \in 1 .. depth[t] /\ d \in 0 .. depth[t]
          BY <1>2, <4>2
        <5>2. QED
          BY <1>4, <5>1 DEF Inv, Shape
      <4>3. QED
        BY <4>1, <4>2
    <3>3. ASSUME NEW d \in 0 .. new - 1
          PROVE  frame'[t][d].pc # "guard"
      <4>1. d \in 0 .. depth[t]
        BY <1>2
      <4>2. CASE d = depth[t]
        BY <1>1, <4>2 DEF Top
      <4>3. CASE d # depth[t]
        <5>1. d \in 0 .. depth[t] - 1
          BY <1>2, <4>1, <4>3
        <5>2. QED
          BY <1>4, <4>1, <5>1 DEF Inv, Shape
      <4>4. QED
        BY <4>2, <4>3
    <3>4. QED
      BY <1>1, <1>3, <2>2, <3>1, <3>2, <3>3
  <2>3. QED
    BY <2>1, <2>2
<1>6. Saved'
  <2> SUFFICES ASSUME NEW s \in Threads
               PROVE  /\ depth'[s] = MaxDepth /\ frame'[s][depth'[s]].pc # "guard"
                           => str[s] = Null
                      /\ depth'[s] = MaxDepth + 1
                           => str[s] = Null /\ frame'[s][depth'[s]].pc = "guard"
    BY DEF Saved, Top
  <2>1. CASE s # t
    BY <1>1, <2>1 DEF Inv, Saved, Top
  <2>2. CASE s = t
    BY <1>1, <1>2, <1>3, <2>2
  <2>3. QED
    BY <2>1, <2>2
<1>7. QED
  BY <1>5, <1>6

\* A nested call returns.
LEMMA PopShape ==
  ASSUME Inv, NEW t \in Threads, depth[t] > 0, Pop(t),
         \A s \in Threads \ {t} : str'[s] = str[s],
         depth[t] = MaxDepth + 1 => str'[t] = str[t]
  PROVE  Shape' /\ Saved'
<1>1. /\ depth'[t] = depth[t] - 1
      /\ \A d \in Levels \ {depth[t]} : frame'[t][d] = frame[t][d]
      /\ \A s \in Threads \ {t} : frame'[s] = frame[s] /\ depth'[s] = depth[s]
  BY PopIs
<1>2. /\ depth[t] \in Nat /\ depth[t] <= MaxDepth + 1 /\ 0 .. depth[t] \subseteq Levels
  BY FrameFacts, LevelFacts
<1>3. \A d \in 0 .. depth[t] - 1 : frame'[t][d] = frame[t][d]
  BY <1>1, <1>2
<1>4. frame'[t][depth'[t]].pc # "guard"
  BY <1>1, <1>2, <1>3 DEF Inv, Shape
<1>5. Shape'
  <2> SUFFICES ASSUME NEW s \in Threads
               PROVE  /\ depth'[s] \in 0 .. MaxDepth + 1
                      /\ frame'[s][0].pc \in BasePcs
                      /\ \A d \in 1 .. depth'[s] :
                           frame'[s][d].pc \notin {"rest", "flushlock", "flush"}
                      /\ \A d \in 0 .. depth'[s] - 1 : frame'[s][d].pc # "guard"
                      /\ frame'[s][depth'[s]].pc = "guard" => frame'[s][depth'[s]].due = 0
    BY DEF Shape, Top, BasePcs
  <2>1. CASE s # t
    BY <1>1, <2>1 DEF Inv, Shape, Top, BasePcs
  <2>2. CASE s = t
    <3>1. depth'[t] \in 0 .. MaxDepth + 1 /\ frame'[t][0].pc \in BasePcs
      BY <1>1, <1>2, <1>3 DEF Inv, Shape, BasePcs
    <3>2. ASSUME NEW d \in 1 .. depth'[t]
          PROVE  frame'[t][d].pc \notin {"rest", "flushlock", "flush"}
      <4>1. d \in 0 .. depth[t] - 1 /\ d \in 1 .. depth[t]
        BY <1>1, <1>2
      <4>2. QED
        BY <1>3, <4>1 DEF Inv, Shape
    <3>3. ASSUME NEW d \in 0 .. depth'[t] - 1
          PROVE  frame'[t][d].pc # "guard"
      <4>1. d \in 0 .. depth[t] - 1
        BY <1>1, <1>2
      <4>2. QED
        BY <1>3, <4>1 DEF Inv, Shape
    <3>4. QED
      BY <1>4, <2>2, <3>1, <3>2, <3>3
  <2>3. QED
    BY <2>1, <2>2
<1>6. depth'[t] # MaxDepth + 1 /\ (depth'[t] = MaxDepth => str'[t] = Null)
  <2>1. depth'[t] # MaxDepth + 1
    BY <1>1, <1>2
  <2>2. CASE depth'[t] = MaxDepth
    <3>1. depth[t] = MaxDepth + 1
      BY <1>1, <1>2, <2>2
    <3>2. QED
      BY <2>1, <3>1 DEF Inv, Saved
  <2>3. QED
    BY <2>1, <2>2
<1>7. Saved'
  BY <1>1, <1>6 DEF Inv, Saved, Top
<1>8. QED
  BY <1>5, <1>7
-----------------------------------------------------------------------------
(* Every step keeps the invariant.                                         *)

OtherTypes ==
  /\ sg_mode' \in Modes /\ str' \in [Threads -> Nat]
  /\ owner' \in [Locks -> Threads \union {None}]
  /\ texts' \in Nat /\ freed' \in SUBSET Nat
  /\ calls' \in [Threads -> Nat] /\ asserts' \in Nat

LEMMA TypeByParts ==
  ASSUME frame' \in [Threads -> [Levels -> Frame]],
         depth' \in [Threads -> Levels], OtherTypes
  PROVE  TypeOK'
BY DEF TypeOK, OtherTypes

\* The topmost level goes on and neither locks nor unlocks.
LEMMA StayStep ==
  ASSUME Inv, NEW t \in Threads, NEW f \in Frame, Becomes(t, f),
         UNCHANGED <<depth, owner>>, OtherTypes,
         f.own = Top(t).own, f.pc # "guard",
         \A l \in Locks : f.pc \in Section(l) <=> Top(t).pc \in Section(l),
         depth[t] = 0 => f.pc \in BasePcs,
         depth[t] > 0 => f.pc \notin {"rest", "flushlock", "flush"},
         \A s \in Threads \ {t} : str'[s] = str[s],
         \/ Top(t).pc # "guard" /\ str'[t] = str[t]
         \/ depth[t] # MaxDepth + 1 /\ str'[t] = Null
  PROVE  Inv'
<1>1. Owned'
  BY StayOwned
<1>2. Shape' /\ Saved'
  BY StayShape
<1>3. frame' \in [Threads -> [Levels -> Frame]] /\ depth' \in [Threads -> Levels]
  BY BecomesIs DEF Inv, TypeOK
<1>4. QED
  BY <1>1, <1>2, <1>3, TypeByParts DEF Inv

LEMMA PushStep ==
  ASSUME Inv, NEW t \in Threads, NEW f \in Frame, Push(t, f),
         f.own = Top(t).own, f.pc = Top(t).pc, Top(t).pc # "guard",
         UNCHANGED <<str, owner>>, OtherTypes
  PROVE  Inv'
<1>1. Owned'
  BY PushOwned
<1>2. Shape' /\ Saved'
  BY PushShape
<1>3. frame' \in [Threads -> [Levels -> Frame]] /\ depth' \in [Threads -> Levels]
  BY PushIs
<1>4. QED
  BY <1>1, <1>2, <1>3, TypeByParts DEF Inv

\* A call returns from a section, or from its guard.
LEMMA PopStep ==
  ASSUME Inv, NEW t \in Threads, depth[t] > 0, Pop(t), OtherTypes,
         \A k \in Locks : owner'[k] = IF k \in Top(t).own THEN None ELSE owner[k],
         \A s \in Threads \ {t} : str'[s] = str[s],
         depth[t] = MaxDepth + 1 => str'[t] = str[t]
  PROVE  Inv'
<1>1. /\ frame' \in [Threads -> [Levels -> Frame]] /\ depth' \in [Threads -> Levels]
      /\ depth'[t] = depth[t] - 1
      /\ \A s \in Threads \ {t} : frame'[s] = frame[s] /\ depth'[s] = depth[s]
      /\ \A d \in Levels \ {depth[t]} : frame'[t][d] = frame[t][d]
  BY PopIs
<1>2. \A d \in 0 .. depth[t] - 1 : frame'[t][d] = frame[t][d]
  <2>1. \A d \in 0 .. depth[t] - 1 : d \in Levels /\ d # depth[t]
    BY FrameFacts, LevelFacts
  <2>2. QED
    BY <1>1, <2>1
<1>3. Owned'
  BY <1>1, <1>2, ReleaseOwned
<1>4. Shape' /\ Saved'
  BY PopShape
<1>5. QED
  BY <1>1, <1>3, <1>4, TypeByParts DEF Inv

\* A level leaves its section and goes on.
LEMMA LeaveStep ==
  ASSUME Inv, NEW t \in Threads, NEW f \in Frame, Becomes(t, f), OtherTypes,
         UNCHANGED <<depth, str>>,
         f.own = {}, \A k \in Locks : f.pc \notin Section(k),
         f.pc # "guard", Top(t).pc # "guard",
         depth[t] = 0 => f.pc \in BasePcs,
         depth[t] > 0 => f.pc \notin {"rest", "flushlock", "flush"},
         \A k \in Locks : owner'[k] = IF k \in Top(t).own THEN None ELSE owner[k]
  PROVE  Inv'
<1>1. /\ frame' \in [Threads -> [Levels -> Frame]] /\ depth' \in [Threads -> Levels]
      /\ frame'[t][depth[t]] = f
      /\ \A s \in Threads \ {t} : frame'[s] = frame[s] /\ depth'[s] = depth[s]
      /\ \A d \in Levels \ {depth[t]} : frame'[t][d] = frame[t][d]
  BY BecomesIs DEF Inv, TypeOK
<1>2. \A d \in 0 .. depth[t] - 1 : frame'[t][d] = frame[t][d]
  <2>1. \A d \in 0 .. depth[t] - 1 : d \in Levels /\ d # depth[t]
    BY FrameFacts, LevelFacts
  <2>2. QED
    BY <1>1, <2>1
<1>3. Owned'
  BY <1>1, <1>2, ReleaseOwned
<1>4. Shape' /\ Saved'
  BY StayShape
<1>5. QED
  BY <1>1, <1>3, <1>4, TypeByParts DEF Inv

\* What a level owns is the mutex of the section it is in.
LEMMA OwnsItsSection ==
  ASSUME Inv, NEW t \in Threads
  PROVE  \A l \in Top(t).own : l \in Locks /\ Top(t).pc \in Section(l)
<1>1. depth[t] \in 0 .. depth[t] /\ depth[t] \in Levels
  BY FrameFacts
<1>2. QED
  BY <1>1, LevelFacts DEF Inv, Owned, Top

\* Unlock, as the lemmas above take it.
LEMMA UnlockIs ==
  ASSUME Inv, NEW t \in Threads, NEW l \in Locks, Unlock(t, l),
         \A k \in Locks : Top(t).pc \in Section(k) <=> k = l
  PROVE  /\ \A k \in Locks : owner'[k] = IF k \in Top(t).own THEN None ELSE owner[k]
         /\ owner' \in [Locks -> Threads \union {None}]
         /\ Top(t).own \ {l} = {}
<1>1. Top(t).own \subseteq {l}
  BY OwnsItsSection
<1>2. QED
  BY <1>1 DEF Unlock, Inv, TypeOK

\* Where the topmost level is tells whether it is outside of the appender.
LEMMA LevelOfPc ==
  ASSUME Inv, NEW t \in Threads
  PROVE  /\ depth[t] = 0 => Top(t).pc \in BasePcs
         /\ depth[t] # 0 => /\ depth[t] > 0
                            /\ Top(t).pc \notin {"rest", "flushlock", "flush"}
<1>1. depth[t] \in Nat
  BY FrameFacts
<1>2. CASE depth[t] = 0
  BY <1>2 DEF Inv, Shape, Top, BasePcs
<1>3. CASE depth[t] # 0
  <2>1. depth[t] > 0 /\ depth[t] \in 1 .. depth[t]
    BY <1>1, <1>3
  <2>2. QED
    BY <1>3, <2>1 DEF Inv, Shape, Top
<1>4. QED
  BY <1>2, <1>3
-----------------------------------------------------------------------------
(* The actions.                                                            *)

\* A frame with another pc, and one with a pc and a tip.
LEMMA FrameWith ==
  ASSUME NEW f \in Frame,
         NEW pc \in Places \union {"rest", "guard", "tipslock", "writelock",
                                   "appendlock", "flushlock"}
  PROVE  /\ [f EXCEPT !.pc = pc] \in Frame
         /\ [f EXCEPT !.pc = pc].pc = pc
         /\ [f EXCEPT !.pc = pc].own = f.own
BY DEF Frame

LEMMA PassesStep ==
  ASSUME Inv, NEW t \in Threads,
         Passes(t, "tips", "tipslock") \/ Passes(t, "format", "writelock")
  PROVE  Inv'
<1>1. PICK from \in {"tips", "format"}, to \in {"tipslock", "writelock"} : Passes(t, from, to)
  OBVIOUS
<1> DEFINE f == [Top(t) EXCEPT !.pc = to]
<1>2. f \in Frame /\ f.pc = to /\ f.own = Top(t).own
  BY FrameFacts, FrameWith
<1>3. /\ Becomes(t, f) /\ Top(t).pc = from
      /\ UNCHANGED <<sg_mode, depth, str, owner, texts, freed, calls, asserts>>
  BY <1>1 DEF Passes, At, Goto
<1>4. OtherTypes
  BY <1>3 DEF OtherTypes, Inv, TypeOK
<1>5. depth[t] # 0
  BY <1>3, LevelOfPc DEF BasePcs
<1>6. \A l \in Locks : f.pc \notin Section(l) /\ Top(t).pc \notin Section(l)
  BY <1>2, <1>3 DEF Section
<1>7. QED
  BY <1>2, <1>3, <1>4, <1>5, <1>6, StayStep

LEMMA LocksForStep ==
  ASSUME Inv, NEW t \in Threads,
         \/ LocksFor(t, "tipslock", "file", "tipswrite")
         \/ LocksFor(t, "writelock", "file", "write")
         \/ LocksFor(t, "appendlock", "buffer", "append")
         \/ LocksFor(t, "flushlock", "buffer", "flush")
  PROVE  Inv'
<1>1. PICK from \in {"tipslock", "writelock", "appendlock", "flushlock"},
           l \in Locks, to \in {"tipswrite", "write", "append", "flush"} :
        /\ LocksFor(t, from, l, to)
        /\ \A k \in Locks : to \in Section(k) <=> k = l
        /\ from = "tipslock" => to = "tipswrite"
        /\ from = "writelock" => to = "write"
        /\ from = "appendlock" => to = "append"
        /\ from = "flushlock" => to = "flush"
  BY DEF Section
<1>2. /\ Top(t).pc = from /\ ScopedLock(t, l, to)
      /\ UNCHANGED <<sg_mode, depth, str, texts, freed, calls, asserts>>
  BY <1>1 DEF LocksFor, At
<1>3. \A k \in Locks : Top(t).pc \notin Section(k)
  BY <1>2 DEF Section
<1>4. Owned'
  BY <1>1, <1>2, <1>3, LockOwned
<1>5. PICK own \in SUBSET Locks, due \in 0 .. 2 :
        Becomes(t, [Top(t) EXCEPT !.pc = to, !.own = own, !.due = due])
  <2>1. Top(t) \in Frame
    BY FrameFacts
  <2>2. Top(t).own \in SUBSET Locks /\ Top(t).due \in 0 .. 2
    BY <2>1 DEF Frame
  <2>3. CASE Becomes(t, [Top(t) EXCEPT !.pc = to, !.own = @ \union {l}])
    <3>1. [Top(t) EXCEPT !.pc = to, !.own = @ \union {l}]
            = [Top(t) EXCEPT !.pc = to, !.own = Top(t).own \union {l}, !.due = Top(t).due]
      BY <2>1 DEF Frame
    <3>2. Top(t).own \union {l} \in SUBSET Locks
      BY <2>2
    <3>3. QED
      BY <2>2, <2>3, <3>1, <3>2
  <2>4. CASE Becomes(t, [Top(t) EXCEPT !.pc = to, !.due = 2])
    <3>1. [Top(t) EXCEPT !.pc = to, !.due = 2]
            = [Top(t) EXCEPT !.pc = to, !.own = Top(t).own, !.due = 2]
      BY <2>1 DEF Frame
    <3>2. 2 \in 0 .. 2
      OBVIOUS
    <3>3. QED
      BY <2>2, <2>4, <3>1, <3>2
  <2>5. QED
    BY <1>2, <2>3, <2>4 DEF ScopedLock
<1> DEFINE f == [Top(t) EXCEPT !.pc = to, !.own = own, !.due = due]
<1>6. f \in Frame /\ f.pc = to
  BY FrameFacts DEF Frame, Places
<1>7. owner' \in [Locks -> Threads \union {None}]
  BY <1>2 DEF ScopedLock, Inv, TypeOK
<1>8. OtherTypes
  BY <1>2, <1>7 DEF OtherTypes, Inv, TypeOK
<1>9. /\ depth[t] = 0 => f.pc \in BasePcs
      /\ depth[t] > 0 => f.pc \notin {"rest", "flushlock", "flush"}
  <2>1. depth[t] \in Nat
    BY FrameFacts
  <2>2. CASE depth[t] = 0
    <3>1. from \in BasePcs
      BY <1>2, <2>2, LevelOfPc
    <3>2. from \in {"writelock", "flushlock"}
      BY <3>1 DEF BasePcs
    <3>3. QED
      BY <1>1, <1>6, <2>2, <3>2 DEF BasePcs
  <2>3. CASE depth[t] # 0
    <3>1. from # "flushlock"
      BY <1>2, <2>3, LevelOfPc
    <3>2. QED
      BY <1>1, <1>6, <2>3, <3>1
  <2>4. QED
    BY <2>2, <2>3
<1>10. Shape' /\ Saved'
  BY <1>2, <1>5, <1>6, <1>9, StayShape
<1>11. frame' \in [Threads -> [Levels -> Frame]] /\ depth' \in [Threads -> Levels]
  BY <1>2, <1>5, <1>6, BecomesIs DEF Inv, TypeOK
<1>12. QED
  BY <1>4, <1>8, <1>10, <1>11, TypeByParts DEF Inv

\* A call of the appender returns from its last section.
LEMMA ReturnStep ==
  ASSUME Inv, NEW t \in Threads, NEW l \in Locks, depth[t] > 0,
         \A k \in Locks : Top(t).pc \in Section(k) <=> k = l,
         Unlock(t, l), Pop(t),
         UNCHANGED <<sg_mode, str, texts, freed, calls, asserts>>
  PROVE  Inv'
<1>1. /\ \A k \in Locks : owner'[k] = IF k \in Top(t).own THEN None ELSE owner[k]
      /\ owner' \in [Locks -> Threads \union {None}]
  BY UnlockIs
<1>2. OtherTypes
  BY <1>1 DEF OtherTypes, Inv, TypeOK
<1>3. QED
  BY <1>1, <1>2, PopStep

LEMMA WriteTipStep ==
  ASSUME Inv, NEW t \in Threads, WriteTip(t)
  PROVE  Inv'
<1>1. CASE Passes(t, "tips", "tipslock") \/ LocksFor(t, "tipslock", "file", "tipswrite")
  BY <1>1, PassesStep, LocksForStep
<1>2. CASE /\ At(t, "tipswrite")
           /\ Unlock(t, "file")
           /\ freed' = freed \union {Top(t).tip}
           /\ Becomes(t, [Top(t) EXCEPT !.pc = LogStep, !.tip = Null,
                                        !.own = @ \ {"file"}])
           /\ UNCHANGED <<sg_mode, depth, str, texts, calls, asserts>>
  <2> DEFINE f == [Top(t) EXCEPT !.pc = LogStep, !.tip = Null, !.own = @ \ {"file"}]
  <2>1. Top(t).pc = "tipswrite" /\ Top(t) \in Frame
    BY <1>2, FrameFacts DEF At
  <2>2. \A k \in Locks : Top(t).pc \in Section(k) <=> k = "file"
    BY <2>1 DEF Section
  <2>3. /\ \A k \in Locks : owner'[k] = IF k \in Top(t).own THEN None ELSE owner[k]
        /\ owner' \in [Locks -> Threads \union {None}]
        /\ Top(t).own \ {"file"} = {}
    BY <1>2, <2>2, UnlockIs
  <2>4. LogStep \in {"format", "appendlock"}
    BY DEF LogStep
  <2>5. f.own = {} /\ f.pc = LogStep
    BY <2>1, <2>3 DEF Frame
  <2>6. f \in Frame
    BY <2>1, <2>4 DEF Frame, Places
  <2>7. depth[t] # 0
    BY <2>1, LevelOfPc DEF BasePcs
  <2>8. OtherTypes
    BY <1>2, <2>1, <2>3 DEF OtherTypes, Inv, TypeOK, Frame
  <2>9. /\ \A k \in Locks : f.pc \notin Section(k)
        /\ f.pc \notin {"guard", "rest", "flushlock", "flush"}
    BY <2>4, <2>5 DEF Section
  <2>10. QED
    BY <1>2, <2>1, <2>3, <2>5, <2>6, <2>7, <2>8, <2>9, LeaveStep
<1>3. QED
  BY <1>1, <1>2 DEF WriteTip

LEMMA AppendStep ==
  ASSUME Inv, NEW t \in Threads, AppendSync(t) \/ AppendAsync(t)
  PROVE  Inv'
<1>1. CASE \/ Passes(t, "format", "writelock")
           \/ LocksFor(t, "writelock", "file", "write")
           \/ LocksFor(t, "appendlock", "buffer", "append")
  BY <1>1, PassesStep, LocksForStep
<1>2. CASE /\ At(t, "write") /\ depth[t] > 0
           /\ Unlock(t, "file")
           /\ Pop(t)
           /\ UNCHANGED <<sg_mode, str, texts, freed, calls, asserts>>
  <2>1. \A k \in Locks : Top(t).pc \in Section(k) <=> k = "file"
    BY <1>2 DEF Section, At
  <2>2. QED
    BY <1>2, <2>1, ReturnStep
<1>3. CASE /\ At(t, "append")
           /\ Unlock(t, "buffer")
           /\ Pop(t)
           /\ UNCHANGED <<sg_mode, str, texts, freed, calls, asserts>>
  <2>1. \A k \in Locks : Top(t).pc \in Section(k) <=> k = "buffer"
    BY <1>3 DEF Section, At
  <2>2. depth[t] > 0
    BY <1>3, LevelOfPc DEF At, BasePcs
  <2>3. QED
    BY <1>3, <2>1, <2>2, ReturnStep
<1>4. QED
  BY <1>1, <1>2, <1>3 DEF AppendSync, AppendAsync

LEMMA FlushStepStep ==
  ASSUME Inv, NEW t \in Threads, FlushStep(t)
  PROVE  Inv'
<1>0. Top(t) \in Frame
  BY FrameFacts
<1>1. CASE LocksFor(t, "flushlock", "buffer", "flush")
  BY <1>1, LocksForStep
<1>2. CASE /\ At(t, "flush")
           /\ Unlock(t, "buffer")
           /\ Becomes(t, [Top(t) EXCEPT !.pc = "writelock", !.own = @ \ {"buffer"}])
           /\ UNCHANGED <<sg_mode, depth, str, texts, freed, calls, asserts>>
  <2> DEFINE f == [Top(t) EXCEPT !.pc = "writelock", !.own = @ \ {"buffer"}]
  <2>1. /\ Top(t).pc = "flush"
        /\ \A k \in Locks : Top(t).pc \in Section(k) <=> k = "buffer"
    BY <1>2 DEF At, Section
  <2>2. /\ \A k \in Locks : owner'[k] = IF k \in Top(t).own THEN None ELSE owner[k]
        /\ owner' \in [Locks -> Threads \union {None}]
        /\ Top(t).own \ {"buffer"} = {}
    BY <1>2, <2>1, UnlockIs
  <2>3. f.own = {} /\ f.pc = "writelock"
    BY <1>0, <2>2 DEF Frame
  <2>4. f \in Frame
    BY <1>0 DEF Frame, Places
  <2>5. OtherTypes
    BY <1>2, <2>2 DEF OtherTypes, Inv, TypeOK
  <2>6. \A k \in Locks : f.pc \notin Section(k)
    BY <2>3 DEF Section
  <2>7. f.pc \in BasePcs
    BY <2>3 DEF BasePcs
  <2>8. QED
    BY <1>2, <2>1, <2>2, <2>3, <2>4, <2>5, <2>6, <2>7, LeaveStep
<1>3. CASE /\ At(t, "write") /\ depth[t] = 0
           /\ Unlock(t, "file")
           /\ Becomes(t, Idle)
           /\ UNCHANGED <<sg_mode, depth, str, texts, freed, calls, asserts>>
  <2>1. /\ Top(t).pc = "write"
        /\ \A k \in Locks : Top(t).pc \in Section(k) <=> k = "file"
    BY <1>3 DEF At, Section
  <2>2. /\ \A k \in Locks : owner'[k] = IF k \in Top(t).own THEN None ELSE owner[k]
        /\ owner' \in [Locks -> Threads \union {None}]
    BY <1>3, <2>1, UnlockIs
  <2>3. /\ Idle.own = {} /\ Idle.pc = "rest" /\ Idle.pc \in BasePcs
        /\ \A k \in Locks : Idle.pc \notin Section(k)
    BY DEF Idle, BasePcs, Section
  <2>4. OtherTypes
    BY <1>3, <2>2 DEF OtherTypes, Inv, TypeOK
  <2>5. Idle \in Frame
    BY FrameFacts
  <2>6. QED
    BY <1>3, <2>1, <2>2, <2>3, <2>4, <2>5, LeaveStep
<1>4. QED
  BY <1>1, <1>2, <1>3 DEF FlushStep
LEMMA LogEnters ==
  ASSUME Inv, NEW t \in Threads, Log(t)
  PROVE  Inv'
<1>1. Top(t) \in Frame /\ Top(t).pc = "rest"
  BY FrameFacts DEF Log, At
<1>2. OtherTypes
  BY DEF Log, OtherTypes, Inv, TypeOK
<1>3. Push(t, Top(t)) /\ UNCHANGED <<str, owner>>
  BY DEF Log
<1>4. QED
  BY <1>1, <1>2, <1>3, PushStep

LEMMA FlushBegins ==
  ASSUME Inv, NEW t \in Threads, Flush(t)
  PROVE  Inv'
<1> DEFINE f == [Top(t) EXCEPT !.pc = "flushlock"]
<1>1. Top(t) \in Frame /\ Top(t).pc = "rest" /\ depth[t] = 0
  BY FrameFacts DEF Flush, At
<1>2. OtherTypes
  BY DEF Flush, OtherTypes, Inv, TypeOK
<1>3. f \in Frame /\ f.pc = "flushlock" /\ f.own = Top(t).own
  BY <1>1, FrameWith
<1>4. Becomes(t, f) /\ UNCHANGED <<depth, str, owner>>
  BY DEF Flush, Goto
<1>5. \A l \in Locks : f.pc \in Section(l) <=> Top(t).pc \in Section(l)
  BY <1>1, <1>3 DEF Section
<1>6. /\ f.pc \in BasePcs /\ f.pc # "guard" /\ Top(t).pc # "guard"
      /\ ~(depth[t] > 0)
      /\ \A s \in Threads : str'[s] = str[s]
  BY <1>1, <1>3, <1>4 DEF BasePcs
<1> HIDE DEF f
<1>7. QED
  BY <1>2, <1>3, <1>4, <1>5, <1>6, StayStep

LEMMA AssertFailsStep ==
  ASSUME Inv, NEW t \in Threads, AssertFails(t)
  PROVE  Inv'
<1> DEFINE f == [Top(t) EXCEPT !.due = 1]
<1>1. Top(t) \in Frame /\ Top(t).pc # "guard"
  BY FrameFacts DEF AssertFails, Places
<1>2. OtherTypes
  BY DEF AssertFails, OtherTypes, Inv, TypeOK
<1>3. f \in Frame /\ f.pc = Top(t).pc /\ f.own = Top(t).own
  BY <1>1 DEF Frame
<1>4. Becomes(t, f) /\ UNCHANGED <<depth, str, owner>>
  BY DEF AssertFails
<1>5. /\ depth[t] = 0 => f.pc \in BasePcs
      /\ depth[t] > 0 => f.pc \notin {"rest", "flushlock", "flush"}
  BY <1>3, LevelOfPc, FrameFacts
<1>6. QED
  BY <1>1, <1>2, <1>3, <1>4, <1>5, StayStep

LEMMA LogAssertStep ==
  ASSUME Inv, NEW t \in Threads, LogAssert(t)
  PROVE  Inv'
<1> DEFINE f == [Top(t) EXCEPT !.due = @ - 1]
<1>1. Top(t) \in Frame /\ Top(t).due > 0
  BY FrameFacts DEF LogAssert
<1>2. Top(t).pc # "guard"
  BY <1>1 DEF Inv, Shape
<1>3. OtherTypes
  BY DEF LogAssert, OtherTypes, Inv, TypeOK
<1>4. f \in Frame /\ f.pc = Top(t).pc /\ f.own = Top(t).own
  BY <1>1 DEF Frame
<1>5. Push(t, f) /\ UNCHANGED <<str, owner>>
  BY DEF LogAssert
<1>6. QED
  BY <1>2, <1>3, <1>4, <1>5, PushStep

\* A nested call returns from its guard.
LEMMA NestedReturns ==
  ASSUME Inv, NEW t \in Threads, TooDeep(t) \/ SaveText(t)
  PROVE  Inv'
<1>1. Top(t).pc = "guard" /\ depth[t] >= 2 /\ Pop(t) /\ UNCHANGED owner
  BY DEF TooDeep, SaveText, At, Nested
<1>2. Top(t).own = {}
  <2>1. \A l \in Locks : Top(t).pc \notin Section(l)
    BY <1>1 DEF Section
  <2>2. QED
    BY <2>1, OutsideOwnsNothing
<1>3. \A k \in Locks : owner'[k] = IF k \in Top(t).own THEN None ELSE owner[k]
  BY <1>1, <1>2
<1>4. depth[t] > 0
  BY <1>1, FrameFacts
<1>5. CASE TooDeep(t)
  <2>1. OtherTypes /\ UNCHANGED str
    BY <1>5 DEF TooDeep, OtherTypes, Inv, TypeOK
  <2>2. QED
    BY <1>1, <1>3, <1>4, <2>1, PopStep
<1>6. CASE SaveText(t)
  <2>1. OtherTypes
    BY <1>6 DEF SaveText, OtherTypes, Inv, TypeOK
  <2>2. \A s \in Threads \ {t} : str'[s] = str[s]
    BY <1>6 DEF SaveText, Inv, TypeOK
  <2>3. depth[t] # MaxDepth + 1
    BY <1>6, FrameFacts DEF SaveText, MayGoDeeper
  <2>4. QED
    BY <1>1, <1>3, <1>4, <2>1, <2>2, <2>3, PopStep
<1>7. QED
  BY <1>5, <1>6

\* A call passes its guard; no text is saved any more.
LEMMA GuardPassed ==
  ASSUME Inv, NEW t \in Threads, TakeText(t) \/ NoText(t)
  PROVE  Inv'
<1>1. Top(t).pc = "guard" /\ Top(t) \in Frame /\ UNCHANGED <<depth, owner>>
  BY FrameFacts DEF TakeText, NoText, At
<1>2. depth[t] > 0
  BY <1>1, LevelOfPc DEF BasePcs
<1>3. depth[t] # MaxDepth + 1
  BY <1>2, FrameFacts DEF TakeText, NoText, Nested, Inv, Saved
<1>4. OtherTypes /\ str'[t] = Null /\ \A s \in Threads \ {t} : str'[s] = str[s]
  BY DEF TakeText, NoText, ForgetText, OtherTypes, Inv, TypeOK
<1>5. PICK f \in Frame : /\ Becomes(t, f) /\ f.own = Top(t).own
                         /\ f.pc \in {"tips", "format", "appendlock"}
  <2>1. CASE TakeText(t)
    <3> DEFINE f == [Top(t) EXCEPT !.pc = "tips", !.tip = str[t]]
    <3>1. f \in Frame /\ f.own = Top(t).own /\ f.pc = "tips"
      BY <1>1 DEF Frame, Places, Inv, TypeOK
    <3>2. QED
      BY <2>1, <3>1 DEF TakeText
  <2>2. CASE NoText(t)
    <3>1. LogStep \in {"format", "appendlock"}
      BY DEF LogStep
    <3>2. LogStep \in Places \union {"rest", "guard", "tipslock", "writelock",
                                     "appendlock", "flushlock"}
      BY <3>1 DEF Places
    <3>3. QED
      BY <1>1, <2>2, <3>1, <3>2, FrameWith DEF NoText, Goto
  <2>3. QED
    BY <2>1, <2>2
<1>6. /\ f.pc \notin {"guard", "rest", "flushlock", "flush"}
      /\ \A l \in Locks : f.pc \in Section(l) <=> Top(t).pc \in Section(l)
  BY <1>1, <1>5 DEF Section
<1>7. QED
  BY <1>1, <1>2, <1>3, <1>4, <1>5, <1>6, StayStep
-----------------------------------------------------------------------------
LEMMA InitInv == Init => Inv
<1> SUFFICES ASSUME Init PROVE Inv
  OBVIOUS
<1>1. 0 \in Levels /\ Idle \in Frame /\ Idle.pc = "rest" /\ Idle.own = {}
  BY DEF Levels, Frame, Idle
<1>2. /\ depth = [t \in Threads |-> 0]
      /\ \A t \in Threads, d \in Levels : frame[t][d] = Idle
      /\ \A t \in Threads : str[t] = Null
      /\ \A l \in Locks : owner[l] = None
  BY DEF Init
<1>3. TypeOK
  BY <1>1 DEF Init, TypeOK
<1>4. Shape /\ Saved
  BY <1>1, <1>2 DEF Shape, Saved, Top
<1>5. Owned
  <2>1. \A t \in Threads : \A d \in 0 .. depth[t] : frame[t][d] = Idle
    BY <1>1, <1>2
  <2>2. QED
    BY <1>1, <1>2, <2>1 DEF Owned, Section
<1>6. QED
  BY <1>3, <1>4, <1>5 DEF Inv

\* Every step of every thread keeps the invariant.
LEMMA Inductive == Inv /\ [Next]_vars => Inv'
<1> SUFFICES ASSUME Inv, [Next]_vars PROVE Inv'
  OBVIOUS
<1>1. CASE Next
  <2>1. PICK t \in Threads : Log(t) \/ Flush(t) \/ AssertFails(t) \/ Step(t)
    BY <1>1 DEF Next
  <2>2. CASE Log(t) \/ Flush(t) \/ AssertFails(t)
    BY <2>2, LogEnters, FlushBegins, AssertFailsStep
  <2>3. CASE LogAssert(t) \/ TooDeep(t) \/ SaveText(t) \/ TakeText(t) \/ NoText(t)
    BY <2>3, LogAssertStep, NestedReturns, GuardPassed
  <2>4. CASE WriteTip(t) \/ AppendSync(t) \/ AppendAsync(t) \/ FlushStep(t)
    BY <2>4, WriteTipStep, AppendStep, FlushStepStep
  <2>5. QED
    BY <2>1, <2>2, <2>3, <2>4 DEF Step
<1>2. CASE UNCHANGED vars
  BY <1>2 DEF vars, Inv, TypeOK, Shape, Saved, Owned, Top
<1>3. QED
  BY <1>1, <1>2

\* The invariant that makes the guard of kflogger_appender and the failing
\* locks of the nested calls work.
THEOREM InvHolds == Spec => []Inv
BY InitInv, Inductive, PTL DEF Spec

\* Every variable keeps its type, whatever assertions fail.
THEOREM TypeCorrect == Spec => []TypeOK
<1>1. Inv => TypeOK
  BY DEF Inv
<1>2. QED
  BY <1>1, InvHolds, PTL

\* The nested calls of kflogger_appender stay within one level of the limit
\* (appender.cc:680, :681).
THEOREM DepthBounded == Spec => []DepthBound
<1>1. Inv => DepthBound
  BY FrameFacts DEF DepthBound
<1>2. QED
  BY <1>1, InvHolds, PTL

\* Whoever is in a section that a mutex guards is there under that mutex,
\* although a nested call's lock fails and the call goes on (lock.h:41).
THEOREM MutexesKept == Spec => []Guarded
<1>1. Inv => Guarded
  <2> SUFFICES ASSUME Inv, NEW t \in Threads, NEW d \in 0 .. depth[t]
               PROVE  /\ frame[t][d].pc \in {"append", "flush"} => owner["buffer"] = t
                      /\ frame[t][d].pc \in {"tipswrite", "write"} => owner["file"] = t
    BY DEF Guarded
  <2>1. depth[t] \in Nat
    BY FrameFacts
  <2>2. ASSUME NEW l \in Locks, frame[t][d].pc \in Section(l)
        PROVE  owner[l] = t
    <3>1. PICK e \in 0 .. d : l \in frame[t][e].own
      BY <2>2 DEF Inv, Owned
    <3>2. e \in 0 .. depth[t]
      BY <2>1
    <3>3. QED
      BY <3>1, <3>2 DEF Inv, Owned
  <2>3. QED
    BY <2>2 DEF Section
<1>2. QED
  BY <1>1, InvHolds, PTL
-----------------------------------------------------------------------------
(* The saved texts.                                                        *)

\* The steps of a call in which it has a saved text to report.
Reporting == {"tips", "tipslock", "tipswrite"}

\* The saved text that level d of t reports.
Tip(t, d) == IF d \in 0 .. depth[t] THEN frame[t][d].tip ELSE Null

Reports ==
  \A t \in Threads : \A d \in 0 .. depth[t] :
    frame[t][d].tip # Null <=> frame[t][d].pc \in Reporting

\* Where the texts saved so far are: those freed, those kept, those reported,
\* apart from each other; and each of them somewhere.
Apart ==
  /\ freed \subseteq 1 .. texts
  /\ \A t \in Threads : str[t] \in 0 .. texts /\ str[t] \notin freed
  /\ \A s, t \in Threads : str[s] = str[t] /\ str[t] # Null => s = t
  /\ \A t \in Threads, d \in Levels : Tip(t, d) # Null =>
       /\ Tip(t, d) \in 1 .. texts /\ Tip(t, d) \notin freed
       /\ \A s \in Threads : str[s] # Tip(t, d)
  /\ \A s, t \in Threads, d, e \in Levels :
       Tip(s, d) = Tip(t, e) /\ Tip(t, e) # Null => s = t /\ d = e

Somewhere ==
  \A x \in 1 .. texts :
    \/ x \in freed
    \/ \E t \in Threads : str[t] = x
    \/ \E t \in Threads, d \in Levels : Tip(t, d) = x

TextInv == Reports /\ Apart /\ Somewhere

-----------------------------------------------------------------------------
(* What a step does to the texts that the levels report.                   *)

\* Every level but the topmost of t reports what it reported.
SameBut(t, x) ==
  \A s \in Threads, d \in Levels :
    Tip(s, d)' = IF s = t /\ d = depth[t] THEN x ELSE Tip(s, d)

SameTips == \A s \in Threads, d \in Levels : Tip(s, d)' = Tip(s, d)

LEMMA TipsAfterBecomes ==
  ASSUME Inv, Reports, NEW t \in Threads, NEW f \in Frame, Becomes(t, f),
         UNCHANGED depth, f.tip # Null <=> f.pc \in Reporting
  PROVE  SameBut(t, f.tip) /\ Reports'
<1>1. depth[t] \in 0 .. depth[t] /\ depth[t] \in Levels
  BY FrameFacts
<1>2. \A s \in Threads, d \in Levels :
        frame'[s][d] = IF s = t /\ d = depth[t] THEN f ELSE frame[s][d]
  BY <1>1, BecomesIs
<1>3. SameBut(t, f.tip)
  BY <1>1, <1>2 DEF SameBut, Tip
<1>4. Reports'
  BY <1>1, <1>2, LevelFacts DEF Reports
<1>5. QED
  BY <1>3, <1>4

\* The new level reports nothing, the one below it what it did.
LEMMA TipsAfterPush ==
  ASSUME Inv, Reports, NEW t \in Threads, NEW f \in Frame, Push(t, f),
         f.tip = Top(t).tip, f.pc = Top(t).pc
  PROVE  SameTips /\ Reports'
<1>1. /\ depth[t] \in 0 .. depth[t] /\ depth[t] \in Levels /\ depth[t] \in Nat
      /\ depth[t] + 1 \in Levels
  BY FrameFacts DEF Levels
<1>2. Called.tip = Null /\ Called.pc = "guard"
  BY DEF Called, Idle
<1>3. \A s \in Threads : \A d \in 0 .. depth'[s] :
        \/ /\ d \in 0 .. depth[s]
           /\ frame'[s][d].tip = frame[s][d].tip /\ frame'[s][d].pc = frame[s][d].pc
        \/ /\ d \notin 0 .. depth[s]
           /\ frame'[s][d].tip = Null /\ frame'[s][d].pc = "guard"
  <2> SUFFICES ASSUME NEW s \in Threads, NEW d \in 0 .. depth'[s]
               PROVE  \/ /\ d \in 0 .. depth[s]
                         /\ frame'[s][d].tip = frame[s][d].tip
                         /\ frame'[s][d].pc = frame[s][d].pc
                      \/ /\ d \notin 0 .. depth[s]
                         /\ frame'[s][d].tip = Null /\ frame'[s][d].pc = "guard"
    OBVIOUS
  <2>1. CASE s # t
    BY <2>1, PushIs
  <2>2. CASE s = t /\ d = depth[t] + 1
    BY <1>1, <1>2, <2>2, PushIs
  <2>3. CASE s = t /\ d = depth[t]
    BY <1>1, <2>3, PushIs DEF Top
  <2>4. CASE s = t /\ d # depth[t] /\ d # depth[t] + 1
    <3>0. d \in 0 .. depth[t] + 1
      BY <2>4, PushIs
    <3>1. d \in 0 .. depth[t]
      BY <1>1, <2>4, <3>0
    <3>2. d \in Levels
      BY <3>1, LevelFacts
    <3>3. QED
      BY <2>4, <3>1, <3>2, PushIs
  <2>5. QED
    BY <2>1, <2>2, <2>3, <2>4
<1>4. \A s \in Threads : 0 .. depth[s] \subseteq 0 .. depth'[s]
  BY <1>1, PushIs
<1>5. SameTips
  BY <1>3, <1>4 DEF SameTips, Tip
<1>6. Reports'
  BY <1>3 DEF Reports, Reporting
<1>7. QED
  BY <1>5, <1>6

\* A call that reports nothing returns.
LEMMA TipsAfterPop ==
  ASSUME Inv, Reports, NEW t \in Threads, depth[t] > 0, Pop(t),
         Top(t).pc \notin Reporting
  PROVE  SameTips /\ Reports'
<1>1. depth[t] \in 0 .. depth[t] /\ depth[t] \in Levels /\ depth[t] \in Nat
  BY FrameFacts
<1>2. \A s \in Threads : \A d \in 0 .. depth'[s] :
        d \in 0 .. depth[s] /\ frame'[s][d] = frame[s][d]
  <2> SUFFICES ASSUME NEW s \in Threads, NEW d \in 0 .. depth'[s]
               PROVE  d \in 0 .. depth[s] /\ frame'[s][d] = frame[s][d]
    OBVIOUS
  <2>1. CASE s # t
    BY <2>1, PopIs
  <2>2. CASE s = t
    <3>1. d \in 0 .. depth[t] /\ d # depth[t]
      BY <1>1, <2>2, PopIs
    <3>2. d \in Levels
      BY <3>1, LevelFacts
    <3>3. QED
      BY <2>2, <3>1, <3>2, PopIs
  <2>3. QED
    BY <2>1, <2>2
<1>3. \A s \in Threads : \A d \in 0 .. depth[s] :
        d \notin 0 .. depth'[s] => s = t /\ d = depth[t]
  <2>1. \A s \in Threads \ {t} : depth'[s] = depth[s]
    BY PopIs
  <2>2. depth'[t] = depth[t] - 1
    BY PopIs
  <2>3. \A d \in 0 .. depth[t] : d \notin 0 .. depth'[t] => d = depth[t]
    BY <1>1, <2>2
  <2>4. QED
    BY <2>1, <2>3
<1>4. Top(t).tip = Null
  BY <1>1 DEF Reports, Top
<1>5. SameTips
  BY <1>2, <1>3, <1>4 DEF SameTips, Tip, Top
<1>6. Reports'
  BY <1>2 DEF Reports
<1>7. QED
  BY <1>5, <1>6
-----------------------------------------------------------------------------
\* No text moves.
LEMMA TextsStay ==
  ASSUME Apart, Somewhere, SameTips, UNCHANGED <<str, texts, freed>>
  PROVE  Apart' /\ Somewhere'
<1>1. Apart'
  BY DEF Apart, SameTips
<1>2. Somewhere'
  BY DEF Somewhere, SameTips
<1>3. QED
  BY <1>1, <1>2

LEMMA TipsUnmoved ==
  ASSUME Inv, NEW t \in Threads, SameBut(t, Top(t).tip)
  PROVE  SameTips
BY FrameFacts DEF SameBut, SameTips, Tip, Top

\* A text is saved: a new one.
LEMMA TextSaved ==
  ASSUME Inv, Apart, Somewhere, NEW t \in Threads, SameTips, str[t] = Null,
         texts' = texts + 1, str' = [str EXCEPT ![t] = texts + 1], UNCHANGED freed
  PROVE  Apart' /\ Somewhere'
<1>1. /\ texts \in Nat /\ str'[t] = texts'
      /\ \A s \in Threads \ {t} : str'[s] = str[s]
      /\ \A x \in 1 .. texts' : x \in 1 .. texts \/ x = texts'
      /\ 1 .. texts \subseteq 1 .. texts' /\ 0 .. texts \subseteq 0 .. texts'
      /\ texts' \notin 0 .. texts /\ texts' \in 0 .. texts'
  BY DEF Inv, TypeOK
<1>2. Apart'
  <2>1. freed' \subseteq 1 .. texts' /\ texts' \notin freed
    BY <1>1 DEF Apart
  <2>2. \A s \in Threads : str'[s] \in 0 .. texts' /\ str'[s] \notin freed'
    BY <1>1, <2>1 DEF Apart
  <2>3. \A r, s \in Threads : str'[r] = str'[s] /\ str'[s] # Null => r = s
    BY <1>1 DEF Apart
  <2>4. ASSUME NEW s \in Threads, NEW d \in Levels, Tip(s, d) # Null
        PROVE  /\ Tip(s, d) \in 1 .. texts' /\ Tip(s, d) \notin freed'
               /\ \A r \in Threads : str'[r] # Tip(s, d)
    BY <1>1, <2>4 DEF Apart
  <2>5. QED
    BY <2>1, <2>2, <2>3, <2>4 DEF Apart, SameTips
<1>3. Somewhere'
  <2> SUFFICES ASSUME NEW x \in 1 .. texts'
               PROVE  \/ x \in freed'
                      \/ \E s \in Threads : str'[s] = x
                      \/ \E s \in Threads, d \in Levels : Tip(s, d)' = x
    BY DEF Somewhere
  <2>1. CASE x = texts'
    BY <1>1, <2>1
  <2>2. CASE x \in 1 .. texts
    <3>1. \A s \in Threads : str[s] = x => str'[s] = x
      BY <1>1, <2>2
    <3>2. \A s \in Threads, d \in Levels : Tip(s, d)' = Tip(s, d)
      BY DEF SameTips
    <3>3. \/ x \in freed
          \/ \E s \in Threads : str[s] = x
          \/ \E s \in Threads, d \in Levels : Tip(s, d) = x
      BY <2>2 DEF Somewhere
    <3>4. QED
      BY <3>1, <3>2, <3>3
  <2>3. QED
    BY <1>1, <2>1, <2>2
<1>4. QED
  BY <1>2, <1>3

\* The saved text is taken, to be reported by the topmost level.
LEMMA TextTaken ==
  ASSUME Inv, Apart, Somewhere, NEW t \in Threads, SameBut(t, str[t]),
         str[t] # Null, Top(t).tip = Null, ForgetText(t), UNCHANGED <<texts, freed>>
  PROVE  Apart' /\ Somewhere'
<1> PICK top \in Levels : top = depth[t]
  BY FrameFacts
<1>1. /\ str'[t] = Null /\ \A s \in Threads \ {t} : str'[s] = str[s]
      /\ texts \in Nat
  BY DEF Inv, TypeOK, ForgetText
<1>2. /\ Tip(t, top)' = str[t]
      /\ \A s \in Threads, d \in Levels :
           ~(s = t /\ d = top) => Tip(s, d)' = Tip(s, d)
  BY <1>1 DEF SameBut
<1>3. str[t] \in 1 .. texts /\ str[t] \notin freed
  BY <1>1 DEF Apart
<1>4. Apart'
  <2>1. \A s \in Threads : str'[s] \in 0 .. texts' /\ str'[s] \notin freed'
    <3>1. Null \in 0 .. texts /\ Null \notin freed
      BY <1>1 DEF Apart
    <3>2. QED
      BY <1>1, <3>1 DEF Apart
  <2>2. \A r, s \in Threads : str'[r] = str'[s] /\ str'[s] # Null => r = s
    BY <1>1 DEF Apart
  <2>3. ASSUME NEW s \in Threads, NEW d \in Levels, Tip(s, d)' # Null
        PROVE  /\ Tip(s, d)' \in 1 .. texts /\ Tip(s, d)' \notin freed
               /\ \A r \in Threads : str'[r] # Tip(s, d)'
    <3>1. CASE s = t /\ d = top
      BY <1>1, <1>2, <1>3, <3>1 DEF Apart
    <3>2. CASE ~(s = t /\ d = top)
      BY <1>1, <1>2, <2>3, <3>2 DEF Apart
    <3>3. QED
      BY <3>1, <3>2
  <2>4. ASSUME NEW r \in Threads, NEW s \in Threads, NEW d \in Levels, NEW e \in Levels,
               Tip(r, d)' = Tip(s, e)', Tip(s, e)' # Null
        PROVE  r = s /\ d = e
    <3>1. CASE r = t /\ d = top
      BY <1>2, <2>4, <3>1 DEF Apart
    <3>2. CASE s = t /\ e = top
      BY <1>2, <2>4, <3>2 DEF Apart
    <3>3. CASE ~(r = t /\ d = top) /\ ~(s = t /\ e = top)
      BY <1>2, <2>4, <3>3 DEF Apart
    <3>4. QED
      BY <3>1, <3>2, <3>3
  <2>5. freed' \subseteq 1 .. texts'
    BY DEF Apart
  <2>6. QED
    BY <2>1, <2>2, <2>3, <2>4, <2>5 DEF Apart
<1>5. Somewhere'
  <2> SUFFICES ASSUME NEW x \in 1 .. texts
               PROVE  \/ x \in freed
                      \/ \E s \in Threads : str'[s] = x
                      \/ \E s \in Threads, d \in Levels : Tip(s, d)' = x
    BY DEF Somewhere
  <2>1. CASE x = str[t]
    BY <1>1, <1>2, <2>1
  <2>2. CASE x # str[t]
    <3>1. \A s \in Threads : str[s] = x => str'[s] = x
      BY <1>1, <2>2
    <3>2. x # Null
      OBVIOUS
    <3>3. Tip(t, top) = Null
      BY FrameFacts DEF Tip, Top
    <3>4. \A s \in Threads, d \in Levels : Tip(s, d) = x => Tip(s, d)' = x
      BY <1>2, <3>2, <3>3
    <3>5. QED
      BY <3>1, <3>4 DEF Somewhere
  <2>3. QED
    BY <2>1, <2>2
<1>6. QED
  BY <1>4, <1>5

\* The text that the topmost level has reported is freed.
LEMMA TextFreed ==
  ASSUME Inv, Apart, Somewhere, NEW t \in Threads, SameBut(t, Null),
         Top(t).tip # Null, freed' = freed \union {Top(t).tip},
         UNCHANGED <<str, texts>>
  PROVE  Apart' /\ Somewhere'
<1> PICK top \in Levels : top = depth[t]
  BY FrameFacts
<1>1. Tip(t, top) = Top(t).tip
  BY FrameFacts DEF Tip, Top
<1>2. /\ Tip(t, top)' = Null
      /\ \A s \in Threads, d \in Levels :
           ~(s = t /\ d = top) => Tip(s, d)' = Tip(s, d)
  BY <1>1 DEF SameBut
<1>3. /\ Top(t).tip \in 1 .. texts
      /\ \A s \in Threads : str[s] # Top(t).tip
  BY <1>1 DEF Apart
<1>4. \A s \in Threads, d \in Levels :
        ~(s = t /\ d = top) => Tip(s, d) # Top(t).tip
  BY <1>1 DEF Apart
<1>5. Apart'
  <2>1. freed' \subseteq 1 .. texts'
    BY <1>3 DEF Apart
  <2>2. \A s \in Threads : str'[s] \in 0 .. texts' /\ str'[s] \notin freed'
    BY <1>3 DEF Apart
  <2>3. \A r, s \in Threads : str'[r] = str'[s] /\ str'[s] # Null => r = s
    BY DEF Apart
  <2>4. ASSUME NEW s \in Threads, NEW d \in Levels, Tip(s, d)' # Null
        PROVE  /\ Tip(s, d)' \in 1 .. texts' /\ Tip(s, d)' \notin freed'
               /\ \A r \in Threads : str'[r] # Tip(s, d)'
    BY <1>2, <1>4, <2>4 DEF Apart
  <2>5. ASSUME NEW r \in Threads, NEW s \in Threads, NEW d \in Levels, NEW e \in Levels,
               Tip(r, d)' = Tip(s, e)', Tip(s, e)' # Null
        PROVE  r = s /\ d = e
    BY <1>2, <2>5 DEF Apart
  <2>6. QED
    BY <2>1, <2>2, <2>3, <2>4, <2>5 DEF Apart
<1>6. Somewhere'
  BY <1>1, <1>2 DEF Somewhere
<1>7. QED
  BY <1>5, <1>6
-----------------------------------------------------------------------------
LEMMA TextsInit == Init => TextInv
<1> SUFFICES ASSUME Init PROVE TextInv
  OBVIOUS
<1>1. 0 \in Levels /\ 0 .. 0 \subseteq Levels /\ Idle.tip = Null /\ Idle.pc = "rest"
  BY DEF Levels, Idle
<1>2. /\ \A t \in Threads : depth[t] = 0 /\ str[t] = Null
      /\ \A t \in Threads, d \in Levels : frame[t][d] = Idle
      /\ texts = 0 /\ freed = {}
  BY DEF Init
<1>3. \A t \in Threads, d \in Levels : Tip(t, d) = Null
  BY <1>1, <1>2 DEF Tip
<1>4. Reports
  BY <1>1, <1>2 DEF Reports, Reporting
<1>5. QED
  BY <1>2, <1>3, <1>4 DEF TextInv, Apart, Somewhere

\* The topmost level goes on, and so does the text it reports.
LEMMA TextsWhenBecomes ==
  ASSUME Inv, TextInv, NEW t \in Threads, NEW f \in Frame, Becomes(t, f),
         f.tip = Top(t).tip, f.pc \in Reporting <=> Top(t).pc \in Reporting,
         UNCHANGED <<depth, str, texts, freed>>
  PROVE  TextInv'
<1>1. f.tip # Null <=> f.pc \in Reporting
  BY FrameFacts DEF TextInv, Reports, Top
<1>2. SameBut(t, Top(t).tip) /\ Reports'
  BY <1>1, TipsAfterBecomes DEF TextInv
<1>3. QED
  BY <1>2, TipsUnmoved, TextsStay DEF TextInv

LEMMA TextsWhenPush ==
  ASSUME Inv, TextInv, NEW t \in Threads, Log(t) \/ LogAssert(t)
  PROVE  TextInv'
<1>1. Top(t) \in Frame
  BY FrameFacts
<1>2. PICK f \in Frame : Push(t, f) /\ f.tip = Top(t).tip /\ f.pc = Top(t).pc
  <2>1. CASE Log(t)
    BY <1>1, <2>1 DEF Log
  <2>2. CASE LogAssert(t)
    <3> DEFINE f == [Top(t) EXCEPT !.due = @ - 1]
    <3>1. f \in Frame /\ f.tip = Top(t).tip /\ f.pc = Top(t).pc
      BY <1>1, <2>2 DEF Frame, LogAssert
    <3>2. Push(t, f)
      BY <2>2 DEF LogAssert
    <3> HIDE DEF f
    <3>3. QED
      BY <3>1, <3>2
  <2>3. QED
    BY <2>1, <2>2
<1>3. SameTips /\ Reports'
  BY <1>2, TipsAfterPush DEF TextInv
<1>4. UNCHANGED <<str, texts, freed>>
  BY DEF Log, LogAssert
<1>5. QED
  BY <1>3, <1>4, TextsStay DEF TextInv

LEMMA TextsWhenPop ==
  ASSUME Inv, TextInv, NEW t \in Threads, depth[t] > 0, Pop(t),
         Top(t).pc \notin Reporting, UNCHANGED <<str, texts, freed>>
  PROVE  TextInv'
BY TipsAfterPop, TextsStay DEF TextInv

LEMMA TextsWhenPasses ==
  ASSUME Inv, TextInv, NEW t \in Threads,
         NEW from \in {"rest", "guard", "tips", "format"},
         NEW to \in {"flushlock", "format", "appendlock", "tipslock", "writelock"},
         Top(t).pc = from, to = "tipslock" <=> from = "tips", Goto(t, to),
         UNCHANGED <<depth, str, texts, freed>>
  PROVE  TextInv'
<1> DEFINE f == [Top(t) EXCEPT !.pc = to]
<1>1. f \in Frame /\ f.tip = Top(t).tip /\ f.pc = to
  BY FrameFacts DEF Frame, Places
<1>2. f.pc \in Reporting <=> Top(t).pc \in Reporting
  BY <1>1 DEF Reporting
<1>3. Becomes(t, f)
  BY DEF Goto
<1> HIDE DEF f
<1>4. QED
  BY <1>1, <1>2, <1>3, TextsWhenBecomes

LEMMA TextsWhenLocks ==
  ASSUME Inv, TextInv, NEW t \in Threads, NEW l \in Locks,
         NEW from \in {"tipslock", "writelock", "appendlock", "flushlock"},
         NEW to \in {"tipswrite", "write", "append", "flush"},
         to = "tipswrite" <=> from = "tipslock", LocksFor(t, from, l, to)
  PROVE  TextInv'
<1>1. /\ Top(t).pc = from /\ ScopedLock(t, l, to) /\ Top(t) \in Frame
      /\ UNCHANGED <<depth, str, texts, freed>>
  BY FrameFacts DEF LocksFor, At
<1>2. PICK f \in Frame : Becomes(t, f) /\ f.tip = Top(t).tip /\ f.pc = to
  <2>1. CASE Becomes(t, [Top(t) EXCEPT !.pc = to, !.own = @ \union {l}])
    <3> DEFINE f == [Top(t) EXCEPT !.pc = to, !.own = @ \union {l}]
    <3>1. f \in Frame /\ f.tip = Top(t).tip /\ f.pc = to
      BY <1>1 DEF Frame, Places
    <3>2. Becomes(t, f)
      BY <2>1
    <3> HIDE DEF f
    <3>3. QED
      BY <3>1, <3>2
  <2>2. CASE Becomes(t, [Top(t) EXCEPT !.pc = to, !.due = 2])
    <3> DEFINE f == [Top(t) EXCEPT !.pc = to, !.due = 2]
    <3>0. 2 \in 0 .. 2
      OBVIOUS
    <3>1. f \in Frame /\ f.tip = Top(t).tip /\ f.pc = to
      BY <1>1, <3>0 DEF Frame, Places
    <3>2. Becomes(t, f)
      BY <2>2
    <3> HIDE DEF f
    <3>3. QED
      BY <3>1, <3>2
  <2>3. QED
    BY <1>1, <2>1, <2>2 DEF ScopedLock
<1>3. f.pc \in Reporting <=> Top(t).pc \in Reporting
  BY <1>1, <1>2 DEF Reporting
<1>4. QED
  BY <1>1, <1>2, <1>3, TextsWhenBecomes

\* The steps of a call at its guard.
LEMMA TextsAtGuard ==
  ASSUME Inv, TextInv, NEW t \in Threads,
         TooDeep(t) \/ SaveText(t) \/ TakeText(t) \/ NoText(t)
  PROVE  TextInv'
<1>1. /\ Top(t).pc = "guard" /\ Top(t).pc \notin Reporting /\ Top(t) \in Frame
      /\ Top(t).tip = Null
  <2>1. Top(t).pc = "guard" /\ Top(t) \in Frame
    BY FrameFacts DEF TooDeep, SaveText, TakeText, NoText, At
  <2>2. QED
    BY <2>1, FrameFacts DEF TextInv, Reports, Reporting, Top
<1>2. CASE TooDeep(t)
  <2>1. depth[t] > 0
    BY <1>2, FrameFacts DEF TooDeep, Nested
  <2>2. QED
    BY <1>1, <1>2, <2>1, TextsWhenPop DEF TooDeep
<1>3. CASE SaveText(t)
  <2>1. depth[t] > 0 /\ Pop(t) /\ str[t] = Null
    BY <1>3, FrameFacts DEF SaveText, Nested
  <2>2. SameTips /\ Reports'
    BY <1>1, <2>1, TipsAfterPop DEF TextInv
  <2>3. QED
    BY <1>3, <2>1, <2>2, TextSaved DEF TextInv, SaveText
<1>4. CASE TakeText(t)
  <2> DEFINE f == [Top(t) EXCEPT !.pc = "tips", !.tip = str[t]]
  <2>1. f \in Frame /\ f.tip = str[t] /\ f.pc = "tips" /\ str[t] # Null
    BY <1>1, <1>4 DEF Frame, Places, TakeText, Inv, TypeOK
  <2>2. Becomes(t, f) /\ UNCHANGED <<depth, texts, freed>> /\ ForgetText(t)
    BY <1>4 DEF TakeText
  <2> HIDE DEF f
  <2>3. SameBut(t, str[t]) /\ Reports'
    BY <2>1, <2>2, TipsAfterBecomes DEF TextInv, Reporting
  <2>4. QED
    BY <1>1, <2>1, <2>2, <2>3, TextTaken DEF TextInv
<1>5. CASE NoText(t)
  <2>1. LogStep \in {"format", "appendlock"}
    BY DEF LogStep
  <2>2. Goto(t, LogStep) /\ UNCHANGED <<depth, str, texts, freed>>
    BY <1>5 DEF NoText
  <2>3. QED
    BY <1>1, <2>1, <2>2, TextsWhenPasses
<1>6. QED
  BY <1>2, <1>3, <1>4, <1>5

LEMMA TextsWhenTold ==
  ASSUME Inv, TextInv, NEW t \in Threads, WriteTip(t)
  PROVE  TextInv'
<1>1. CASE Passes(t, "tips", "tipslock")
  BY <1>1, TextsWhenPasses DEF Passes, At
<1>2. CASE LocksFor(t, "tipslock", "file", "tipswrite")
  BY <1>2, TextsWhenLocks
<1>3. CASE /\ At(t, "tipswrite")
           /\ Unlock(t, "file")
           /\ freed' = freed \union {Top(t).tip}
           /\ Becomes(t, [Top(t) EXCEPT !.pc = LogStep, !.tip = Null,
                                        !.own = @ \ {"file"}])
           /\ UNCHANGED <<sg_mode, depth, str, texts, calls, asserts>>
  <2> DEFINE f == [Top(t) EXCEPT !.pc = LogStep, !.tip = Null, !.own = @ \ {"file"}]
  <2>1. Top(t).pc = "tipswrite" /\ Top(t) \in Frame
    BY <1>3, FrameFacts DEF At
  <2>2. LogStep \in {"format", "appendlock"}
    BY DEF LogStep
  <2>3. f \in Frame /\ f.tip = Null /\ f.pc = LogStep
    BY <2>1, <2>2 DEF Frame, Places
  <2>4. Becomes(t, f) /\ f.pc \notin Reporting
    BY <1>3, <2>2, <2>3 DEF Reporting
  <2> HIDE DEF f
  <2>5. SameBut(t, Null) /\ Reports'
    BY <1>3, <2>3, <2>4, TipsAfterBecomes DEF TextInv
  <2>6. Top(t).tip # Null
    BY <2>1, FrameFacts DEF TextInv, Reports, Reporting, Top
  <2>7. QED
    BY <1>3, <2>5, <2>6, TextFreed DEF TextInv
<1>4. QED
  BY <1>1, <1>2, <1>3 DEF WriteTip

\* The steps that write the line, or what the buffer held.
LEMMA TextsWhenWritten ==
  ASSUME Inv, TextInv, NEW t \in Threads,
         AppendSync(t) \/ AppendAsync(t) \/ FlushStep(t)
  PROVE  TextInv'
<1>1. CASE Passes(t, "format", "writelock")
  BY <1>1, TextsWhenPasses DEF Passes, At
<1>2. CASE \/ LocksFor(t, "writelock", "file", "write")
           \/ LocksFor(t, "appendlock", "buffer", "append")
           \/ LocksFor(t, "flushlock", "buffer", "flush")
  BY <1>2, TextsWhenLocks
<1>3. CASE /\ Top(t).pc \in {"write", "append"} /\ depth[t] > 0 /\ Pop(t)
           /\ UNCHANGED <<str, texts, freed>>
  BY <1>3, TextsWhenPop DEF Reporting
<1>4. CASE /\ At(t, "flush")
           /\ Becomes(t, [Top(t) EXCEPT !.pc = "writelock", !.own = @ \ {"buffer"}])
           /\ UNCHANGED <<depth, str, texts, freed>>
  <2> DEFINE f == [Top(t) EXCEPT !.pc = "writelock", !.own = @ \ {"buffer"}]
  <2>1. f \in Frame /\ f.tip = Top(t).tip /\ f.pc = "writelock"
    BY FrameFacts DEF Frame, Places
  <2>2. f.pc \in Reporting <=> Top(t).pc \in Reporting
    BY <1>4, <2>1 DEF At, Reporting
  <2>3. Becomes(t, f)
    BY <1>4
  <2> HIDE DEF f
  <2>4. QED
    BY <1>4, <2>1, <2>2, <2>3, TextsWhenBecomes
<1>5. CASE /\ At(t, "write") /\ depth[t] = 0
           /\ Becomes(t, Idle)
           /\ UNCHANGED <<depth, str, texts, freed>>
  <2>1. Top(t).pc = "write" /\ Idle.tip = Null /\ Idle.pc = "rest" /\ Idle \in Frame
    BY <1>5, FrameFacts DEF At, Idle
  <2>2. Top(t).tip = Null
    BY <2>1, FrameFacts DEF TextInv, Reports, Reporting, Top
  <2>3. Idle.pc \in Reporting <=> Top(t).pc \in Reporting
    BY <2>1 DEF Reporting
  <2>4. QED
    BY <1>5, <2>1, <2>2, <2>3, TextsWhenBecomes
<1>6. Top(t).pc = "append" => depth[t] > 0
  BY LevelOfPc DEF BasePcs
<1>7. QED
  BY <1>1, <1>2, <1>3, <1>4, <1>5, <1>6 DEF AppendSync, AppendAsync, FlushStep, At

LEMMA TextStep == Inv /\ TextInv /\ [Next]_vars => TextInv'
<1> SUFFICES ASSUME Inv, TextInv, [Next]_vars PROVE TextInv'
  OBVIOUS
<1>1. CASE Next
  <2>1. PICK t \in Threads : Log(t) \/ Flush(t) \/ AssertFails(t) \/ Step(t)
    BY <1>1 DEF Next
  <2>2. CASE Flush(t)
    <3>1. Top(t).pc = "rest" /\ Goto(t, "flushlock")
          /\ UNCHANGED <<depth, str, texts, freed>>
      BY <2>2 DEF Flush, At
    <3>2. QED
      BY <3>1, TextsWhenPasses
  <2>3. CASE AssertFails(t)
    <3> DEFINE f == [Top(t) EXCEPT !.due = 1]
    <3>1. f \in Frame /\ f.tip = Top(t).tip /\ f.pc = Top(t).pc
      BY FrameFacts DEF Frame
    <3>2. Becomes(t, f) /\ UNCHANGED <<depth, str, texts, freed>>
      BY <2>3 DEF AssertFails
    <3> HIDE DEF f
    <3>3. QED
      BY <3>1, <3>2, TextsWhenBecomes
  <2>4. CASE Log(t) \/ LogAssert(t)
    BY <2>4, TextsWhenPush
  <2>5. CASE TooDeep(t) \/ SaveText(t) \/ TakeText(t) \/ NoText(t)
    BY <2>5, TextsAtGuard
  <2>6. CASE WriteTip(t) \/ AppendSync(t) \/ AppendAsync(t) \/ FlushStep(t)
    BY <2>6, TextsWhenTold, TextsWhenWritten
  <2>7. QED
    BY <2>1, <2>2, <2>3, <2>4, <2>5, <2>6 DEF Step
<1>2. CASE UNCHANGED vars
  BY <1>2 DEF vars, TextInv, Reports, Apart, Somewhere, Tip
<1>3. QED
  BY <1>1, <1>2

\* A text that a nested call saves is reported and freed once, and is at any
\* time kept, reported or freed (appender.cc:682, :702 to :705).
THEOREM TextsKeptOnce == Spec => []TextsOnce
<1>1. Inv /\ TextInv => TextsOnce
  <2> SUFFICES ASSUME Inv, TextInv PROVE TextsOnce
    OBVIOUS
  <2>1. \A t \in Threads : \A d \in 0 .. depth[t] :
          d \in Levels /\ Tip(t, d) = frame[t][d].tip
    BY LevelFacts DEF Tip
  <2>2. \A t \in Threads : \A d \in Tips(t) :
          /\ d \in 0 .. depth[t] /\ d \in Levels
          /\ Tip(t, d) = frame[t][d].tip /\ Tip(t, d) # Null
    BY <2>1 DEF Tips
  <2>3. \A t \in Threads : str[t] \notin freed
    BY DEF TextInv, Apart
  <2>4. ASSUME NEW t \in Threads, NEW d \in Tips(t)
        PROVE  /\ frame[t][d].tip \notin freed \union {str[t]}
               /\ \A e \in Tips(t) : frame[t][d].tip = frame[t][e].tip => d = e
    BY <2>2 DEF TextInv, Apart
  <2>5. ASSUME NEW x \in 1 .. texts
        PROVE  \/ x \in freed
               \/ \E t \in Threads : \/ str[t] = x
                                     \/ \E d \in Tips(t) : frame[t][d].tip = x
    <3>1. ASSUME NEW t \in Threads, NEW d \in Levels, Tip(t, d) = x
          PROVE  d \in Tips(t) /\ frame[t][d].tip = x
      <4>1. x # Null
        OBVIOUS
      <4>2. QED
        BY <3>1, <4>1 DEF Tip, Tips
    <3>2. QED
      BY <3>1 DEF TextInv, Somewhere
  <2>6. QED
    BY <2>3, <2>4, <2>5 DEF TextsOnce
<1>2. Init => Inv /\ TextInv
  BY InitInv, TextsInit
<1>3. (Inv /\ TextInv) /\ [Next]_vars => (Inv /\ TextInv)'
  BY Inductive, TextStep
<1>4. QED
  BY <1>1, <1>2, <1>3, PTL DEF Spec
=============================================================================
