-------------------------- MODULE ThreadLifeProofs --------------------------
(***************************************************************************)
(* For any users, any number of pthreads, failing starts, cancels and      *)
(* kills: the reference is deleted once and last, one pthread runs at a    *)
(* time, each is joined or detached exactly once, signals reach the        *)
(* pthread they are for, and delays and cancels are kept.                  *)
(***************************************************************************)
EXTENDS ThreadLife, FiniteSetTheorems, TLAPS

Over == {"exit", "gone"}
Busy(u) == pc[u] \in {"join", "joining", "kill"}

\* The pthreads come one after another, and only the last can be inside.
Life ==
  /\ tid = made
  /\ \A t \in Pthreads : place[t] = "none" <=> t > made
  /\ \A t \in Pthreads : t < made => place[t] \in Over
  /\ isended <=> (made = 0 \/ place[made] \in Over)
  /\ count = (IF alive THEN 1 ELSE 0) + (IF isended THEN 0 ELSE 1)
  /\ freed <=> count = 0

\* One user joins or kills at a time.  A pthread that is said to be joined
\* has been claimed, or its joiner is about to.
Claims ==
  /\ \A u, v \in Users : Busy(u) /\ Busy(v) => u = v
  /\ \A t \in Pthreads : t > made => released[t] = "no"
  /\ outside_join /\ made > 0 => isjoined
  /\ \A u \in Users : pc[u] \in {"join", "kill"} => made > 0
  /\ \A u \in Users : pc[u] = "join" => isjoined
  /\ \A u \in Users : pc[u] = "joining" =>
       joins[u] \in 1..made /\ released[joins[u]] = "joining"
  /\ ~outside_join /\ isjoined /\ ~isended =>
       \E u \in Users : pc[u] = "join" \/ (pc[u] = "joining" /\ joins[u] = made)

\* Behind the last pthread nothing is left to give back, nor is the last one
\* once it is joined or the object is destroyed.
GivenBack ==
  ~outside_join =>
    /\ \A t \in Pthreads : t < made => released[t] # "no"
    /\ made > 0 /\ (isjoined \/ ~alive) =>
         released[made] # "no" \/ \E u \in Users : pc[u] = "join"

\* While no start has failed: a pthread nobody has joined is nobody's, and
\* one that runs has not been given back.
OnceEach ==
  fails = 0 =>
    /\ ~misuse
    /\ alive /\ made > 0 /\ ~isjoined => released[made] = "no"
    /\ alive /\ made > 0 /\ ~isended => released[made] \in {"no", "joining"}
    /\ \A u \in Users : pc[u] = "join" => released[made] = "no"
    /\ \A u \in Users : pc[u] = "kill" => released[made] \in {"no", "joining"}

\* A signal that waits is for the pthread that is there.
Signals ==
  /\ signalled \subseteq meant
  /\ killsig => ~isended /\ made \in meant
  /\ \A u \in Users : pc[u] = "kill" => made \in meant

\* A notify that leaves a mark, or ends a wait, comes with the cancel flag.
Delays ==
  /\ \A t \in stopped : t <= made
  /\ made \in stopped /\ ~isended => iscanceldelaystart
  /\ anyway_notify => iscanceldelaystart
  /\ \A u \in Users : pc[u] = "cancel" => iscanceldelaystart
  /\ spurious = 0 =>
       /\ \A t \in Pthreads :
            place[t] \in {"woken", "awake"} => rested[t] \/ iscanceldelaystart
       /\ \A t \in Pthreads : place[t] = "run" /\ kind[t] # "plain" => rested[t]

\* The types of the variables, by what they are.
BooleansOK ==
  /\ outside_join \in BOOLEAN /\ alive \in BOOLEAN /\ freed \in BOOLEAN
  /\ isjoined \in BOOLEAN /\ isended \in BOOLEAN /\ isinthread \in BOOLEAN
  /\ iscanceldelaystart \in BOOLEAN /\ killsig \in BOOLEAN
  /\ anyway_notify \in BOOLEAN /\ misuse \in BOOLEAN

NumbersOK ==
  /\ count \in Nat /\ tid \in 0..MaxStarts /\ made \in 0..MaxStarts
  /\ fails \in Nat /\ spurious \in Nat /\ cancels \in Nat /\ kills \in Nat

FunctionsOK ==
  /\ place \in [Pthreads -> Places]
  /\ kind \in [Pthreads -> Kinds]
  /\ released \in [Pthreads -> {"no", "joining", "joined", "detached"}]
  /\ rested \in [Pthreads -> BOOLEAN]
  /\ pc \in [Users -> {"idle", "join", "joining", "cancel", "kill"}]
  /\ joins \in [Users -> 0..MaxStarts]

SetsOK ==
  /\ stopped \subseteq Pthreads
  /\ meant \subseteq Pthreads /\ signalled \subseteq Pthreads

Inv == TypeOK /\ Life /\ Claims /\ GivenBack /\ OnceEach /\ Signals /\ Delays
-----------------------------------------------------------------------------
USE BoundsAssumption, JoinsAssumption
    DEF refVars, flagVars, threadVars, userVars, boundVars, historyVars

\* The types of the next state, put together again.
LEMMA TypeByParts ==
  ASSUME BooleansOK', NumbersOK', FunctionsOK', SetsOK'
  PROVE  TypeOK'
BY DEF TypeOK, BooleansOK, NumbersOK, FunctionsOK, SetsOK

\* A pthread that is inside is the last one.
LEMMA OnlyTheLast ==
  ASSUME Inv, NEW t \in Pthreads, place[t] # "none", place[t] \notin Over
  PROVE  t = made /\ made > 0 /\ ~isended
<1>1. made \in Nat /\ t \in Nat /\ t > 0
  BY DEF Inv, TypeOK, Pthreads
<1>2. t <= made /\ t >= made
  BY <1>1 DEF Inv, Life
<1>3. QED
  BY <1>1, <1>2 DEF Inv, Life

\* A start finds no pthread inside: the new one is the last, and the one
\* before it is given back here, unless a join has claimed it.
LEMMA StartOkKeeps ==
  ASSUME Inv, NEW u \in Users, NEW k \in Kinds, StartOk(u, k)
  PROVE  Inv'
<1>1. Life'
  BY DEF Inv, Life, TypeOK, Pthreads, Over, StartOk, MayStart, MayCall,
     LockFree, Calm, DetachLast, ClearDelay, Release, Kinds
<1>2. TypeOK'
  <2>1. BooleansOK'
    BY DEF Inv, BooleansOK, TypeOK, StartOk, MayStart, MayCall, LockFree,
       Calm, DetachLast, ClearDelay, Release, Kinds
  <2>2. NumbersOK'
    BY <1>1 DEF Inv, NumbersOK, TypeOK, Life, Pthreads, StartOk, MayStart,
       MayCall, LockFree, Calm, DetachLast, ClearDelay, Release, Kinds
  <2>3. FunctionsOK'
    BY DEF Inv, FunctionsOK, TypeOK, Pthreads, Places, StartOk, MayStart,
       MayCall, LockFree, Calm, DetachLast, ClearDelay, Release, Kinds
  <2>4. SetsOK'
    BY DEF Inv, SetsOK, TypeOK, Life, Claims, Pthreads, StartOk, MayStart,
       MayCall, LockFree, Calm, DetachLast, ClearDelay, Release, Kinds
  <2>5. QED
    BY <2>1, <2>2, <2>3, <2>4, TypeByParts
<1>3. Claims'
  BY DEF Inv, Claims, TypeOK, Life, Busy, Pthreads, Over, StartOk, MayStart,
     MayCall, LockFree, Calm, DetachLast, ClearDelay, Release, Kinds
<1>4. GivenBack'
  BY DEF Inv, GivenBack, TypeOK, Life, Claims, Busy, Pthreads, Over, StartOk,
     MayStart, MayCall, LockFree, Calm, DetachLast, ClearDelay, Release, Kinds
<1>5. OnceEach'
  BY DEF Inv, OnceEach, TypeOK, Life, Claims, Busy, Pthreads, Over, StartOk,
     MayStart, MayCall, LockFree, Calm, DetachLast, ClearDelay, Release, Kinds
<1>6. Signals'
  BY DEF Inv, Signals, TypeOK, Life, Claims, Busy, Pthreads, Over, StartOk,
     MayStart, MayCall, LockFree, Calm, DetachLast, ClearDelay, Release, Kinds
<1>7. Delays'
  BY DEF Inv, Delays, TypeOK, Life, Pthreads, Over, Busy, StartOk, MayStart,
     MayCall, LockFree, Calm, DetachLast, ClearDelay, Release, Kinds
<1>8. QED
  BY <1>1, <1>2, <1>3, <1>4, <1>5, <1>6, <1>7 DEF Inv

\* A start that fails gives back the reference it took.
LEMMA StartFailsKeeps ==
  ASSUME Inv, NEW u \in Users, NEW k \in Kinds, StartFails(u, k)
  PROVE  Inv'
<1>1. Life'
  BY DEF Inv, Life, TypeOK, Pthreads, Over, StartFails, MayStart, MayCall,
     LockFree, Calm, DetachLast, ClearDelay, Release, RemoveRef, Kinds
<1>2. TypeOK'
  <2>1. BooleansOK'
    BY DEF Inv, BooleansOK, TypeOK, StartFails, MayStart, MayCall, LockFree,
       Calm, DetachLast, ClearDelay, Release, RemoveRef, Kinds
  <2>2. NumbersOK'
    BY <1>1 DEF Inv, NumbersOK, TypeOK, Life, Pthreads, StartFails, MayStart,
       MayCall, LockFree, Calm, DetachLast, ClearDelay, Release, RemoveRef,
       Kinds
  <2>3. FunctionsOK'
    BY DEF Inv, FunctionsOK, TypeOK, Pthreads, Places, StartFails, MayStart,
       MayCall, LockFree, Calm, DetachLast, ClearDelay, Release, RemoveRef,
       Kinds
  <2>4. SetsOK'
    BY DEF Inv, SetsOK, TypeOK, Life, Claims, Pthreads, StartFails, MayStart,
       MayCall, LockFree, Calm, DetachLast, ClearDelay, Release, RemoveRef,
       Kinds
  <2>5. QED
    BY <2>1, <2>2, <2>3, <2>4, TypeByParts
<1>3. Claims'
  BY DEF Inv, Claims, TypeOK, Life, Busy, Pthreads, Over, StartFails,
     MayStart, MayCall, LockFree, Calm, DetachLast, ClearDelay, Release,
     RemoveRef, Kinds
<1>4. GivenBack'
  BY DEF Inv, GivenBack, TypeOK, Life, Claims, Busy, Pthreads, Over,
     StartFails, MayStart, MayCall, LockFree, Calm, DetachLast, ClearDelay,
     Release, RemoveRef, Kinds
<1>5. OnceEach'
  BY DEF Inv, OnceEach, TypeOK, Life, Claims, Busy, Pthreads, Over,
     StartFails, MayStart, MayCall, LockFree, Calm, DetachLast, ClearDelay,
     Release, RemoveRef, Kinds
<1>6. Signals'
  BY DEF Inv, Signals, TypeOK, Life, Claims, Busy, Pthreads, Over, StartFails,
     MayStart, MayCall, LockFree, Calm, DetachLast, ClearDelay, Release,
     RemoveRef, Kinds
<1>7. Delays'
  BY DEF Inv, Delays, TypeOK, Life, Pthreads, Over, Busy, StartFails,
     MayStart, MayCall, LockFree, Calm, DetachLast, ClearDelay, Release,
     RemoveRef, Kinds
<1>8. QED
  BY <1>1, <1>2, <1>3, <1>4, <1>5, <1>6, <1>7 DEF Inv

\* The destructor lets go of the last pthread unless a join has claimed it.
LEMMA DestroyKeeps ==
  ASSUME Inv, Destroy
  PROVE  Inv'
<1>1. Life'
  BY DEF Inv, Life, TypeOK, Pthreads, Over, Destroy, LockFree, Calm,
     DetachLast, Release, RemoveRef
<1>2. TypeOK'
  <2>1. BooleansOK'
    BY DEF Inv, BooleansOK, TypeOK, Destroy, LockFree, Calm, DetachLast,
       Release, RemoveRef
  <2>2. NumbersOK'
    BY <1>1 DEF Inv, NumbersOK, TypeOK, Life, Pthreads, Destroy, LockFree,
       Calm, DetachLast, Release, RemoveRef
  <2>3. FunctionsOK'
    BY DEF Inv, FunctionsOK, TypeOK, Pthreads, Places, Destroy, LockFree,
       Calm, DetachLast, Release, RemoveRef
  <2>4. SetsOK'
    BY DEF Inv, SetsOK, TypeOK, Life, Claims, Pthreads, Destroy, LockFree,
       Calm, DetachLast, Release, RemoveRef
  <2>5. QED
    BY <2>1, <2>2, <2>3, <2>4, TypeByParts
<1>3. Claims'
  BY DEF Inv, Claims, TypeOK, Life, Busy, Pthreads, Over, Destroy, LockFree,
     Calm, DetachLast, Release, RemoveRef
<1>4. GivenBack'
  BY DEF Inv, GivenBack, TypeOK, Life, Claims, Busy, Pthreads, Over, Destroy,
     LockFree, Calm, DetachLast, Release, RemoveRef
<1>5. OnceEach'
  BY DEF Inv, OnceEach, TypeOK, Life, Claims, Busy, Pthreads, Over, Destroy,
     LockFree, Calm, DetachLast, Release, RemoveRef
<1>6. Signals'
  BY DEF Inv, Signals, TypeOK, Life, Claims, Busy, Pthreads, Over, Destroy,
     LockFree, Calm, DetachLast, Release, RemoveRef
<1>7. Delays'
  BY DEF Inv, Delays, TypeOK, Life, Pthreads, Over, Busy, Destroy, LockFree,
     Calm, DetachLast, Release, RemoveRef
<1>8. QED
  BY <1>1, <1>2, <1>3, <1>4, <1>5, <1>6, <1>7 DEF Inv

\* The flag set under the lock stands for the join that follows.
LEMMA JoinClaimKeeps ==
  ASSUME Inv, NEW u \in Users, JoinClaim(u)
  PROVE  Inv'
<1>1. Life'
  BY DEF Inv, Life, TypeOK, Pthreads, Over, JoinClaim, MayCall, LockFree, Calm
<1>2. TypeOK'
  <2>1. BooleansOK'
    BY DEF Inv, BooleansOK, TypeOK, JoinClaim, MayCall, LockFree, Calm
  <2>2. NumbersOK'
    BY <1>1 DEF Inv, NumbersOK, TypeOK, Life, Pthreads, JoinClaim, MayCall,
       LockFree, Calm
  <2>3. FunctionsOK'
    BY DEF Inv, FunctionsOK, TypeOK, Pthreads, Places, JoinClaim, MayCall,
       LockFree, Calm
  <2>4. SetsOK'
    BY DEF Inv, SetsOK, TypeOK, Life, Claims, Pthreads, JoinClaim, MayCall,
       LockFree, Calm
  <2>5. QED
    BY <2>1, <2>2, <2>3, <2>4, TypeByParts
<1>3. Claims'
  BY DEF Inv, Claims, TypeOK, Life, Busy, Pthreads, Over, JoinClaim, MayCall,
     LockFree, Calm
<1>4. GivenBack'
  BY DEF Inv, GivenBack, TypeOK, Life, Claims, Busy, Pthreads, Over,
     JoinClaim, MayCall, LockFree, Calm
<1>5. OnceEach'
  BY DEF Inv, OnceEach, TypeOK, Life, Claims, Busy, Pthreads, Over, JoinClaim,
     MayCall, LockFree, Calm
<1>6. Signals'
  BY DEF Inv, Signals, TypeOK, Life, Claims, Busy, Pthreads, Over, JoinClaim,
     MayCall, LockFree, Calm
<1>7. Delays'
  BY DEF Inv, Delays, TypeOK, Life, Pthreads, Over, Busy, JoinClaim, MayCall,
     LockFree, Calm
<1>8. QED
  BY <1>1, <1>2, <1>3, <1>4, <1>5, <1>6, <1>7 DEF Inv

\* Nobody has started another pthread since: tid is the one that was claimed.
LEMMA JoinReadKeeps ==
  ASSUME Inv, NEW u \in Users, JoinRead(u)
  PROVE  Inv'
<1>1. Life'
  BY DEF Inv, Life, TypeOK, Pthreads, Over, JoinRead, PthreadJoin, Release
<1>2. TypeOK'
  <2>1. BooleansOK'
    BY DEF Inv, BooleansOK, TypeOK, JoinRead, PthreadJoin, Release
  <2>2. NumbersOK'
    BY <1>1 DEF Inv, NumbersOK, TypeOK, Life, Pthreads, JoinRead, PthreadJoin,
       Release
  <2>3. FunctionsOK'
    BY DEF Inv, FunctionsOK, TypeOK, Pthreads, Places, JoinRead, PthreadJoin,
       Release
  <2>4. SetsOK'
    BY DEF Inv, SetsOK, TypeOK, Life, Claims, Pthreads, JoinRead, PthreadJoin,
       Release
  <2>5. QED
    BY <2>1, <2>2, <2>3, <2>4, TypeByParts
<1>3. Claims'
  BY DEF Inv, Claims, TypeOK, Life, Busy, Pthreads, Over, JoinRead,
     PthreadJoin, Release
<1>4. GivenBack'
  BY DEF Inv, GivenBack, TypeOK, Life, Claims, Busy, Pthreads, Over, JoinRead,
     PthreadJoin, Release
<1>5. OnceEach'
  BY DEF Inv, OnceEach, TypeOK, Life, Claims, Busy, Pthreads, Over, JoinRead,
     PthreadJoin, Release
<1>6. Signals'
  BY DEF Inv, Signals, TypeOK, Life, Claims, Busy, Pthreads, Over, JoinRead,
     PthreadJoin, Release
<1>7. Delays'
  BY DEF Inv, Delays, TypeOK, Life, Pthreads, Over, Busy, JoinRead,
     PthreadJoin, Release
<1>8. QED
  BY <1>1, <1>2, <1>3, <1>4, <1>5, <1>6, <1>7 DEF Inv

\* With outside_join the owner joins a pthread that nobody has given back.
LEMMA OutsideJoinKeeps ==
  ASSUME Inv, NEW u \in Users, OutsideJoin(u)
  PROVE  Inv'
<1>1. Life'
  BY DEF Inv, Life, TypeOK, Pthreads, Over, OutsideJoin, PthreadJoin, Release,
     MayCall, LockFree, Calm
<1>2. TypeOK'
  <2>1. BooleansOK'
    BY DEF Inv, BooleansOK, TypeOK, OutsideJoin, PthreadJoin, Release,
       MayCall, LockFree, Calm
  <2>2. NumbersOK'
    BY <1>1 DEF Inv, NumbersOK, TypeOK, Life, Pthreads, OutsideJoin,
       PthreadJoin, Release, MayCall, LockFree, Calm
  <2>3. FunctionsOK'
    BY DEF Inv, FunctionsOK, TypeOK, Pthreads, Places, OutsideJoin,
       PthreadJoin, Release, MayCall, LockFree, Calm
  <2>4. SetsOK'
    BY DEF Inv, SetsOK, TypeOK, Life, Claims, Pthreads, OutsideJoin,
       PthreadJoin, Release, MayCall, LockFree, Calm
  <2>5. QED
    BY <2>1, <2>2, <2>3, <2>4, TypeByParts
<1>3. Claims'
  BY DEF Inv, Claims, TypeOK, Life, Busy, Pthreads, Over, OutsideJoin,
     PthreadJoin, Release, MayCall, LockFree, Calm
<1>4. GivenBack'
  BY DEF Inv, GivenBack, TypeOK, Life, Claims, Busy, Pthreads, Over,
     OutsideJoin, PthreadJoin, Release, MayCall, LockFree, Calm
<1>5. OnceEach'
  BY DEF Inv, OnceEach, TypeOK, Life, Claims, Busy, Pthreads, Over,
     OutsideJoin, PthreadJoin, Release, MayCall, LockFree, Calm
<1>6. Signals'
  BY DEF Inv, Signals, TypeOK, Life, Claims, Busy, Pthreads, Over,
     OutsideJoin, PthreadJoin, Release, MayCall, LockFree, Calm
<1>7. Delays'
  BY DEF Inv, Delays, TypeOK, Life, Pthreads, Over, Busy, OutsideJoin,
     PthreadJoin, Release, MayCall, LockFree, Calm
<1>8. QED
  BY <1>1, <1>2, <1>3, <1>4, <1>5, <1>6, <1>7 DEF Inv

\* A join that returns has waited for a pthread behind or at the last.
LEMMA JoinReturnKeeps ==
  ASSUME Inv, NEW u \in Users, JoinReturn(u)
  PROVE  Inv'
<1>1. Life'
  BY DEF Inv, Life, TypeOK, Pthreads, Over, JoinReturn
<1>2. TypeOK'
  <2>1. BooleansOK'
    BY DEF Inv, BooleansOK, TypeOK, JoinReturn
  <2>2. NumbersOK'
    BY <1>1 DEF Inv, NumbersOK, TypeOK, Life, Pthreads, JoinReturn
  <2>3. FunctionsOK'
    BY DEF Inv, FunctionsOK, TypeOK, Pthreads, Places, JoinReturn
  <2>4. SetsOK'
    BY DEF Inv, SetsOK, TypeOK, Life, Claims, Pthreads, JoinReturn
  <2>5. QED
    BY <2>1, <2>2, <2>3, <2>4, TypeByParts
<1>3. Claims'
  BY DEF Inv, Claims, TypeOK, Life, Busy, Pthreads, Over, JoinReturn
<1>4. GivenBack'
  BY DEF Inv, GivenBack, TypeOK, Life, Claims, Busy, Pthreads, Over, JoinReturn
<1>5. OnceEach'
  BY DEF Inv, OnceEach, TypeOK, Life, Claims, Busy, Pthreads, Over, JoinReturn
<1>6. Signals'
  BY DEF Inv, Signals, TypeOK, Life, Claims, Busy, Pthreads, Over, JoinReturn
<1>7. Delays'
  BY DEF Inv, Delays, TypeOK, Life, Pthreads, Over, Busy, JoinReturn
<1>8. QED
  BY <1>1, <1>2, <1>3, <1>4, <1>5, <1>6, <1>7 DEF Inv

\* The cancel flag is up before ...
LEMMA CancelMarkKeeps ==
  ASSUME Inv, NEW u \in Users, CancelMark(u)
  PROVE  Inv'
<1>1. Life'
  BY DEF Inv, Life, TypeOK, Pthreads, Over, CancelMark, MayCall, LockFree
<1>2. TypeOK'
  <2>1. BooleansOK'
    BY DEF Inv, BooleansOK, TypeOK, CancelMark, MayCall, LockFree
  <2>2. NumbersOK'
    BY <1>1 DEF Inv, NumbersOK, TypeOK, Life, Pthreads, CancelMark, MayCall,
       LockFree
  <2>3. FunctionsOK'
    BY DEF Inv, FunctionsOK, TypeOK, Pthreads, Places, CancelMark, MayCall,
       LockFree
  <2>4. SetsOK'
    BY DEF Inv, SetsOK, TypeOK, Life, Claims, Pthreads, CancelMark, MayCall,
       LockFree
  <2>5. QED
    BY <2>1, <2>2, <2>3, <2>4, TypeByParts
<1>3. Claims'
  BY DEF Inv, Claims, TypeOK, Life, Busy, Pthreads, Over, CancelMark, MayCall,
     LockFree
<1>4. GivenBack'
  BY DEF Inv, GivenBack, TypeOK, Life, Claims, Busy, Pthreads, Over,
     CancelMark, MayCall, LockFree
<1>5. OnceEach'
  BY DEF Inv, OnceEach, TypeOK, Life, Claims, Busy, Pthreads, Over,
     CancelMark, MayCall, LockFree
<1>6. Signals'
  BY DEF Inv, Signals, TypeOK, Life, Claims, Busy, Pthreads, Over, CancelMark,
     MayCall, LockFree
<1>7. Delays'
  BY DEF Inv, Delays, TypeOK, Life, Pthreads, Over, Busy, CancelMark, MayCall,
     LockFree
<1>8. QED
  BY <1>1, <1>2, <1>3, <1>4, <1>5, <1>6, <1>7 DEF Inv

\* ... the notify leaves its mark.
LEMMA CancelNotifyKeeps ==
  ASSUME Inv, NEW u \in Users, CancelNotify(u)
  PROVE  Inv'
<1>1. Life'
  BY DEF Inv, Life, TypeOK, Pthreads, Over, CancelNotify
<1>2. TypeOK'
  <2>1. BooleansOK'
    BY DEF Inv, BooleansOK, TypeOK, CancelNotify
  <2>2. NumbersOK'
    BY <1>1 DEF Inv, NumbersOK, TypeOK, Life, Pthreads, CancelNotify
  <2>3. FunctionsOK'
    BY DEF Inv, FunctionsOK, TypeOK, Pthreads, Places, CancelNotify
  <2>4. SetsOK'
    BY DEF Inv, SetsOK, TypeOK, Life, Claims, Pthreads, CancelNotify
  <2>5. QED
    BY <2>1, <2>2, <2>3, <2>4, TypeByParts
<1>3. Claims'
  BY DEF Inv, Claims, TypeOK, Life, Busy, Pthreads, Over, CancelNotify
<1>4. GivenBack'
  BY DEF Inv, GivenBack, TypeOK, Life, Claims, Busy, Pthreads, Over,
     CancelNotify
<1>5. OnceEach'
  BY DEF Inv, OnceEach, TypeOK, Life, Claims, Busy, Pthreads, Over,
     CancelNotify
<1>6. Signals'
  BY DEF Inv, Signals, TypeOK, Life, Claims, Busy, Pthreads, Over, CancelNotify
<1>7. Delays'
  BY DEF Inv, Delays, TypeOK, Life, Pthreads, Over, Busy, CancelNotify
<1>8. QED
  BY <1>1, <1>2, <1>3, <1>4, <1>5, <1>6, <1>7 DEF Inv

\* A signal left for init is for the pthread that has not come up.
LEMMA KillEarlyKeeps ==
  ASSUME Inv, NEW u \in Users, KillEarly(u)
  PROVE  Inv'
<1>1. Life'
  BY DEF Inv, Life, TypeOK, Pthreads, Over, KillEarly, MayCall, LockFree, Calm
<1>2. TypeOK'
  <2>1. BooleansOK'
    BY DEF Inv, BooleansOK, TypeOK, KillEarly, MayCall, LockFree, Calm
  <2>2. NumbersOK'
    BY <1>1 DEF Inv, NumbersOK, TypeOK, Life, Pthreads, KillEarly, MayCall,
       LockFree, Calm
  <2>3. FunctionsOK'
    BY DEF Inv, FunctionsOK, TypeOK, Pthreads, Places, KillEarly, MayCall,
       LockFree, Calm
  <2>4. SetsOK'
    BY DEF Inv, SetsOK, TypeOK, Life, Claims, Pthreads, KillEarly, MayCall,
       LockFree, Calm
  <2>5. QED
    BY <2>1, <2>2, <2>3, <2>4, TypeByParts
<1>3. Claims'
  BY DEF Inv, Claims, TypeOK, Life, Busy, Pthreads, Over, KillEarly, MayCall,
     LockFree, Calm
<1>4. GivenBack'
  BY DEF Inv, GivenBack, TypeOK, Life, Claims, Busy, Pthreads, Over,
     KillEarly, MayCall, LockFree, Calm
<1>5. OnceEach'
  BY DEF Inv, OnceEach, TypeOK, Life, Claims, Busy, Pthreads, Over, KillEarly,
     MayCall, LockFree, Calm
<1>6. Signals'
  BY DEF Inv, Signals, TypeOK, Life, Claims, Busy, Pthreads, Over, KillEarly,
     MayCall, LockFree, Calm
<1>7. Delays'
  BY DEF Inv, Delays, TypeOK, Life, Pthreads, Over, Busy, KillEarly, MayCall,
     LockFree, Calm
<1>8. QED
  BY <1>1, <1>2, <1>3, <1>4, <1>5, <1>6, <1>7 DEF Inv

\* One that is sent later is for a pthread that is inside.
LEMMA KillLateKeeps ==
  ASSUME Inv, NEW u \in Users, KillLate(u)
  PROVE  Inv'
<1>1. Life'
  BY DEF Inv, Life, TypeOK, Pthreads, Over, KillLate, MayCall, LockFree, Calm
<1>2. TypeOK'
  <2>1. BooleansOK'
    BY DEF Inv, BooleansOK, TypeOK, KillLate, MayCall, LockFree, Calm
  <2>2. NumbersOK'
    BY <1>1 DEF Inv, NumbersOK, TypeOK, Life, Pthreads, KillLate, MayCall,
       LockFree, Calm
  <2>3. FunctionsOK'
    BY DEF Inv, FunctionsOK, TypeOK, Pthreads, Places, KillLate, MayCall,
       LockFree, Calm
  <2>4. SetsOK'
    BY DEF Inv, SetsOK, TypeOK, Life, Claims, Pthreads, KillLate, MayCall,
       LockFree, Calm
  <2>5. QED
    BY <2>1, <2>2, <2>3, <2>4, TypeByParts
<1>3. Claims'
  BY DEF Inv, Claims, TypeOK, Life, Busy, Pthreads, Over, KillLate, MayCall,
     LockFree, Calm
<1>4. GivenBack'
  BY DEF Inv, GivenBack, TypeOK, Life, Claims, Busy, Pthreads, Over, KillLate,
     MayCall, LockFree, Calm
<1>5. OnceEach'
  BY DEF Inv, OnceEach, TypeOK, Life, Claims, Busy, Pthreads, Over, KillLate,
     MayCall, LockFree, Calm
<1>6. Signals'
  BY DEF Inv, Signals, TypeOK, Life, Claims, Busy, Pthreads, Over, KillLate,
     MayCall, LockFree, Calm
<1>7. Delays'
  BY DEF Inv, Delays, TypeOK, Life, Pthreads, Over, Busy, KillLate, MayCall,
     LockFree, Calm
<1>8. QED
  BY <1>1, <1>2, <1>3, <1>4, <1>5, <1>6, <1>7 DEF Inv

\* The id read without the lock is still that pthread's, for no start came in
\* between.
LEMMA KillSendKeeps ==
  ASSUME Inv, NEW u \in Users, KillSend(u)
  PROVE  Inv'
<1>1. Life'
  BY DEF Inv, Life, TypeOK, Pthreads, Over, KillSend
<1>2. TypeOK'
  <2>1. BooleansOK'
    BY DEF Inv, BooleansOK, TypeOK, KillSend
  <2>2. NumbersOK'
    BY <1>1 DEF Inv, NumbersOK, TypeOK, Life, Pthreads, KillSend
  <2>3. FunctionsOK'
    BY DEF Inv, FunctionsOK, TypeOK, Pthreads, Places, KillSend
  <2>4. SetsOK'
    <3>1. tid \in Pthreads
      BY DEF Inv, TypeOK, Life, Claims, Pthreads, KillSend
    <3>2. QED
      BY <3>1 DEF Inv, SetsOK, TypeOK, KillSend
  <2>5. QED
    BY <2>1, <2>2, <2>3, <2>4, TypeByParts
<1>3. Claims'
  BY DEF Inv, Claims, TypeOK, Life, Busy, Pthreads, Over, KillSend
<1>4. GivenBack'
  BY DEF Inv, GivenBack, TypeOK, Life, Claims, Busy, Pthreads, Over, KillSend
<1>5. OnceEach'
  BY DEF Inv, OnceEach, TypeOK, Life, Claims, Busy, Pthreads, Over, KillSend
<1>6. Signals'
  BY DEF Inv, Signals, TypeOK, Life, Claims, Busy, Pthreads, Over, KillSend
<1>7. Delays'
  BY DEF Inv, Delays, TypeOK, Life, Pthreads, Over, Busy, KillSend
<1>8. QED
  BY <1>1, <1>2, <1>3, <1>4, <1>5, <1>6, <1>7 DEF Inv

\* init gives the waiting signal to the pthread that is inside, the last.
LEMMA ThreadInitKeeps ==
  ASSUME Inv, NEW t \in Pthreads, ThreadInit(t)
  PROVE  Inv'
<1>1. Life'
  BY DEF Inv, Life, TypeOK, Pthreads, Over, ThreadInit, LockFree, Move
<1>2. TypeOK'
  <2>1. BooleansOK'
    BY DEF Inv, BooleansOK, TypeOK, ThreadInit, LockFree, Move
  <2>2. NumbersOK'
    BY <1>1 DEF Inv, NumbersOK, TypeOK, Life, Pthreads, ThreadInit, LockFree,
       Move
  <2>3. FunctionsOK'
    BY DEF Inv, FunctionsOK, TypeOK, Pthreads, Places, ThreadInit, LockFree,
       Move
  <2>4. SetsOK'
    BY DEF Inv, SetsOK, TypeOK, Life, Claims, Pthreads, ThreadInit, LockFree,
       Move
  <2>5. QED
    BY <2>1, <2>2, <2>3, <2>4, TypeByParts
<1>3. Claims'
  BY DEF Inv, Claims, TypeOK, Life, Busy, Pthreads, Over, ThreadInit,
     LockFree, Move
<1>4. GivenBack'
  BY DEF Inv, GivenBack, TypeOK, Life, Claims, Busy, Pthreads, Over,
     ThreadInit, LockFree, Move
<1>5. OnceEach'
  BY DEF Inv, OnceEach, TypeOK, Life, Claims, Busy, Pthreads, Over,
     ThreadInit, LockFree, Move
<1>6. Signals'
  <2>1. t = made /\ ~isended
    BY OnlyTheLast DEF ThreadInit, Over
  <2>2. QED
    BY <2>1 DEF Inv, Signals, ThreadInit
<1>7. Delays'
  BY DEF Inv, Delays, TypeOK, Life, Pthreads, Over, Busy, ThreadInit,
     LockFree, Move
<1>8. QED
  BY <1>1, <1>2, <1>3, <1>4, <1>5, <1>6, <1>7 DEF Inv

\* A step of a start routine that stays inside, or outside, of the reference
\* has only the delays to care about.
LEMMA RoutineKeeps ==
  ASSUME Inv, NEW t \in Pthreads, Routine(t), NEW p \in Places \ {"none"},
         place' = [place EXCEPT ![t] = p], place[t] # "none",
         p \in Over <=> place[t] \in Over,
         anyway_notify' \in BOOLEAN, rested' \in [Pthreads -> BOOLEAN],
         spurious' \in Nat, Delays'
  PROVE  Inv'
<1>1. TypeOK'
  <2>1. BooleansOK' /\ NumbersOK' /\ SetsOK'
    BY DEF Inv, TypeOK, Routine, BooleansOK, NumbersOK, SetsOK
  <2>2. FunctionsOK'
    BY DEF Inv, TypeOK, Routine, FunctionsOK
  <2>3. QED
    BY <2>1, <2>2, TypeByParts
<1>2. Life'
  <2>1. \A s \in Pthreads : s # t => place'[s] = place[s]
    BY DEF Inv, TypeOK
  <2>2. place'[t] = p
    BY DEF Inv, TypeOK
  <2>3. \A s \in Pthreads : /\ place'[s] = "none" <=> place[s] = "none"
                            /\ place'[s] \in Over <=> place[s] \in Over
    BY <2>1, <2>2
  <2>4. made > 0 => made \in Pthreads
    BY DEF Inv, TypeOK, Pthreads
  <2>5. QED
    BY <2>3, <2>4 DEF Inv, TypeOK, Life, Routine
<1>3. Claims'
  BY DEF Inv, Claims, Routine, Busy
<1>4. GivenBack' /\ OnceEach'
  BY DEF Inv, GivenBack, OnceEach, Routine
<1>5. Signals'
  BY DEF Inv, Signals, Routine
<1>6. QED
  BY <1>1, <1>2, <1>3, <1>4, <1>5 DEF Inv

\* The steps of a start routine, one by one.
LEMMA LookKeeps ==
  ASSUME Inv, NEW t \in Pthreads, Look(t)
  PROVE  Inv'
<1> DEFINE p == IF iscanceldelaystart THEN "cleanup" ELSE "cas"
<1>1. /\ p \in Places \ {"none"} /\ place' = [place EXCEPT ![t] = p]
      /\ place[t] # "none" /\ (p \in Over <=> place[t] \in Over)
      /\ Routine(t)
  BY DEF Look, Move, Places, Over
<1>2. /\ anyway_notify' \in BOOLEAN /\ rested' \in [Pthreads -> BOOLEAN]
      /\ spurious' \in Nat
  BY DEF Inv, TypeOK, Look
<1>3. Delays'
  BY DEF Inv, Delays, TypeOK, Life, Pthreads, Over, Look, Move, Routine
<1> HIDE DEF p
<1>4. QED
  BY <1>1, <1>2, <1>3, RoutineKeeps

LEMMA LookAgainKeeps ==
  ASSUME Inv, NEW t \in Pthreads, LookAgain(t)
  PROVE  Inv'
<1> DEFINE p == IF iscanceldelaystart THEN "cleanup" ELSE "run"
<1>1. /\ p \in Places \ {"none"} /\ place' = [place EXCEPT ![t] = p]
      /\ place[t] # "none" /\ (p \in Over <=> place[t] \in Over)
      /\ Routine(t)
  BY DEF LookAgain, Move, Places, Over
<1>2. /\ anyway_notify' \in BOOLEAN /\ rested' \in [Pthreads -> BOOLEAN]
      /\ spurious' \in Nat
  BY DEF Inv, TypeOK, LookAgain
<1>3. Delays'
  BY DEF Inv, Delays, TypeOK, Life, Pthreads, Over, LookAgain, Move, Routine
<1> HIDE DEF p
<1>4. QED
  BY <1>1, <1>2, <1>3, RoutineKeeps

LEMMA TakeMarkKeeps ==
  ASSUME Inv, NEW t \in Pthreads, TakeMark(t)
  PROVE  Inv'
<1> DEFINE p == IF anyway_notify THEN "woken" ELSE "presleep"
<1>1. /\ p \in Places \ {"none"} /\ place' = [place EXCEPT ![t] = p]
      /\ place[t] # "none" /\ (p \in Over <=> place[t] \in Over)
      /\ Routine(t)
  BY DEF TakeMark, Move, Places, Over
<1>2. /\ anyway_notify' \in BOOLEAN /\ rested' \in [Pthreads -> BOOLEAN]
      /\ spurious' \in Nat
  BY DEF Inv, TypeOK, TakeMark
<1>3. Delays'
  BY DEF Inv, Delays, TypeOK, Life, Pthreads, Over, TakeMark, Move, Routine
<1> HIDE DEF p
<1>4. QED
  BY <1>1, <1>2, <1>3, RoutineKeeps

LEMMA SleepKeeps ==
  ASSUME Inv, NEW t \in Pthreads, Sleep(t)
  PROVE  Inv'
<1> DEFINE p == "asleep"
<1>1. /\ p \in Places \ {"none"} /\ place' = [place EXCEPT ![t] = p]
      /\ place[t] # "none" /\ (p \in Over <=> place[t] \in Over)
      /\ Routine(t)
  BY DEF Sleep, Move, Places, Over
<1>2. /\ anyway_notify' \in BOOLEAN /\ rested' \in [Pthreads -> BOOLEAN]
      /\ spurious' \in Nat
  BY DEF Inv, TypeOK, Sleep
<1>3. Delays'
  BY DEF Inv, Delays, TypeOK, Life, Pthreads, Over, Sleep, Move, Routine
<1> HIDE DEF p
<1>4. QED
  BY <1>1, <1>2, <1>3, RoutineKeeps

LEMMA TimeoutKeeps ==
  ASSUME Inv, NEW t \in Pthreads, Timeout(t)
  PROVE  Inv'
<1> DEFINE p == "woken"
<1>1. /\ p \in Places \ {"none"} /\ place' = [place EXCEPT ![t] = p]
      /\ place[t] # "none" /\ (p \in Over <=> place[t] \in Over)
      /\ Routine(t)
  BY DEF Timeout, Move, Places, Over
<1>2. /\ anyway_notify' \in BOOLEAN /\ rested' \in [Pthreads -> BOOLEAN]
      /\ spurious' \in Nat
  BY DEF Inv, TypeOK, Timeout
<1>3. Delays'
  BY DEF Inv, Delays, TypeOK, Life, Pthreads, Over, Timeout, Move, Routine
<1> HIDE DEF p
<1>4. QED
  BY <1>1, <1>2, <1>3, RoutineKeeps

LEMMA SpuriousWakeupKeeps ==
  ASSUME Inv, NEW t \in Pthreads, SpuriousWakeup(t)
  PROVE  Inv'
<1> DEFINE p == "woken"
<1>1. /\ p \in Places \ {"none"} /\ place' = [place EXCEPT ![t] = p]
      /\ place[t] # "none" /\ (p \in Over <=> place[t] \in Over)
      /\ Routine(t)
  BY DEF SpuriousWakeup, Move, Places, Over
<1>2. /\ anyway_notify' \in BOOLEAN /\ rested' \in [Pthreads -> BOOLEAN]
      /\ spurious' \in Nat
  BY DEF Inv, TypeOK, SpuriousWakeup
<1>3. Delays'
  BY DEF Inv, Delays, TypeOK, Life, Pthreads, Over, SpuriousWakeup, Move,
     Routine
<1> HIDE DEF p
<1>4. QED
  BY <1>1, <1>2, <1>3, RoutineKeeps

LEMMA EndWaitKeeps ==
  ASSUME Inv, NEW t \in Pthreads, EndWait(t)
  PROVE  Inv'
<1> DEFINE p == "awake"
<1>1. /\ p \in Places \ {"none"} /\ place' = [place EXCEPT ![t] = p]
      /\ place[t] # "none" /\ (p \in Over <=> place[t] \in Over)
      /\ Routine(t)
  BY DEF EndWait, Move, Places, Over
<1>2. /\ anyway_notify' \in BOOLEAN /\ rested' \in [Pthreads -> BOOLEAN]
      /\ spurious' \in Nat
  BY DEF Inv, TypeOK, EndWait
<1>3. Delays'
  BY DEF Inv, Delays, TypeOK, Life, Pthreads, Over, EndWait, Move, Routine
<1> HIDE DEF p
<1>4. QED
  BY <1>1, <1>2, <1>3, RoutineKeeps

LEMMA RunEndsKeeps ==
  ASSUME Inv, NEW t \in Pthreads, RunEnds(t)
  PROVE  Inv'
<1> DEFINE p == IF kind[t] = "periodic" THEN "look" ELSE "cleanup"
<1>1. /\ p \in Places \ {"none"} /\ place' = [place EXCEPT ![t] = p]
      /\ place[t] # "none" /\ (p \in Over <=> place[t] \in Over)
      /\ Routine(t)
  BY DEF RunEnds, Move, Places, Over
<1>2. /\ anyway_notify' \in BOOLEAN /\ rested' \in [Pthreads -> BOOLEAN]
      /\ spurious' \in Nat
  BY DEF Inv, TypeOK, RunEnds
<1>3. Delays'
  BY DEF Inv, Delays, TypeOK, Life, Pthreads, Over, RunEnds, Move, Routine
<1> HIDE DEF p
<1>4. QED
  BY <1>1, <1>2, <1>3, RoutineKeeps

LEMMA ExitKeeps ==
  ASSUME Inv, NEW t \in Pthreads, Exit(t)
  PROVE  Inv'
<1> DEFINE p == "gone"
<1>1. /\ p \in Places \ {"none"} /\ place' = [place EXCEPT ![t] = p]
      /\ place[t] # "none" /\ (p \in Over <=> place[t] \in Over)
      /\ Routine(t)
  BY DEF Exit, Move, Places, Over
<1>2. /\ anyway_notify' \in BOOLEAN /\ rested' \in [Pthreads -> BOOLEAN]
      /\ spurious' \in Nat
  BY DEF Inv, TypeOK, Exit
<1>3. Delays'
  BY DEF Inv, Delays, TypeOK, Life, Pthreads, Over, Exit, Move, Routine
<1> HIDE DEF p
<1>4. QED
  BY <1>1, <1>2, <1>3, RoutineKeeps

\* cleanup leaves nothing inside: the count falls, and the reference goes with
\* the object when that is gone already.
LEMMA CleanupKeeps ==
  ASSUME Inv, NEW t \in Pthreads, Cleanup(t)
  PROVE  Inv'
<1>1. Life'
  <2>1. t = made /\ made > 0 /\ ~isended
    BY OnlyTheLast DEF Cleanup, Over
  <2>2. \A s \in Pthreads : place'[s] = IF s = t THEN "exit" ELSE place[s]
    BY DEF Inv, TypeOK, Cleanup, Move
  <2>3. count = (IF alive THEN 1 ELSE 0) + 1
    BY <2>1 DEF Inv, Life
  <2>4. count' = (IF alive THEN 1 ELSE 0) /\ (freed' <=> count' = 0)
    <3>1. count' = (count + 0) - 1 /\ (freed' <=> count + 0 = 1)
      BY DEF Cleanup, RemoveRef
    <3>2. CASE alive
      <4>1. count = 2
        BY <3>2, <2>3
      <4>2. count' = 1 /\ ~freed'
        BY <3>1, <4>1
      <4>3. QED
        BY <3>2, <4>2
    <3>3. CASE ~alive
      <4>1. count = 1
        BY <3>3, <2>3
      <4>2. count' = 0 /\ freed'
        BY <3>1, <4>1
      <4>3. QED
        BY <3>3, <4>2
    <3>4. QED
      BY <3>2, <3>3
  <2>5. /\ \A s \in Pthreads : place'[s] = "none" <=> s > made
        /\ \A s \in Pthreads : s < made => place'[s] \in Over
        /\ place'[made] \in Over
    BY <2>1, <2>2 DEF Inv, Life, Over
  <2>6. QED
    BY <2>4, <2>5 DEF Inv, Life, Cleanup
<1>2. TypeOK'
  <2>1. BooleansOK'
    BY DEF Inv, BooleansOK, TypeOK, Cleanup, LockFree, Move, RemoveRef
  <2>2. NumbersOK'
    BY <1>1 DEF Inv, NumbersOK, TypeOK, Life, Pthreads, Cleanup, LockFree,
       Move, RemoveRef
  <2>3. FunctionsOK'
    BY DEF Inv, FunctionsOK, TypeOK, Pthreads, Places, Cleanup, LockFree,
       Move, RemoveRef
  <2>4. SetsOK'
    BY DEF Inv, SetsOK, TypeOK, Life, Claims, Pthreads, Cleanup, LockFree,
       Move, RemoveRef
  <2>5. QED
    BY <2>1, <2>2, <2>3, <2>4, TypeByParts
<1>3. Claims'
  BY DEF Inv, Claims, TypeOK, Life, Busy, Pthreads, Over, Cleanup, LockFree,
     Move, RemoveRef
<1>4. GivenBack'
  BY DEF Inv, GivenBack, TypeOK, Life, Claims, Busy, Pthreads, Over, Cleanup,
     LockFree, Move, RemoveRef
<1>5. OnceEach'
  BY DEF Inv, OnceEach, TypeOK, Life, Claims, Busy, Pthreads, Over, Cleanup,
     LockFree, Move, RemoveRef
<1>6. Signals'
  BY DEF Inv, Signals, TypeOK, Life, Claims, Busy, Pthreads, Over, Cleanup,
     LockFree, Move, RemoveRef
<1>7. Delays'
  BY DEF Inv, Delays, TypeOK, Life, Pthreads, Over, Busy, Cleanup, LockFree,
     Move, RemoveRef
<1>8. QED
  BY <1>1, <1>2, <1>3, <1>4, <1>5, <1>6, <1>7 DEF Inv

-----------------------------------------------------------------------------
\* Before the first start.
LEMMA InitInv == Init => Inv
<1> SUFFICES ASSUME Init PROVE Inv
  OBVIOUS
<1>1. BooleansOK /\ NumbersOK /\ FunctionsOK /\ SetsOK
  <2>1. outside_join \in BOOLEAN
    BY JoinsAssumption DEF Init
  <2>2. BooleansOK
    BY <2>1 DEF Init, BooleansOK
  <2>3. NumbersOK
    BY BoundsAssumption DEF Init, NumbersOK
  <2>4. FunctionsOK
    BY BoundsAssumption DEF Init, FunctionsOK, Places, Kinds
  <2>5. SetsOK
    BY DEF Init, SetsOK
  <2>6. QED
    BY <2>2, <2>3, <2>4, <2>5
<1>2. TypeOK
  BY <1>1 DEF TypeOK, BooleansOK, NumbersOK, FunctionsOK, SetsOK
<1>3. Life /\ GivenBack
  BY DEF Init, Life, GivenBack, Pthreads
<1>4. Claims /\ OnceEach
  BY DEF Init, Claims, OnceEach, Busy
<1>5. Signals /\ Delays
  BY DEF Init, Signals, Delays
<1>6. QED
  BY <1>2, <1>3, <1>4, <1>5 DEF Inv

\* What no thread does changes nothing.
LEMMA StutterKeeps ==
  ASSUME Inv, UNCHANGED vars
  PROVE  Inv'
<1>1. BooleansOK' /\ NumbersOK' /\ FunctionsOK' /\ SetsOK'
  BY DEF vars, Inv, TypeOK, BooleansOK, NumbersOK, FunctionsOK, SetsOK
<1>2. Life' /\ Claims' /\ GivenBack'
  BY DEF vars, Inv, Life, Claims, GivenBack, Busy
<1>3. OnceEach' /\ Signals' /\ Delays'
  BY DEF vars, Inv, OnceEach, Signals, Delays
<1>4. QED
  BY <1>1, <1>2, <1>3, TypeByParts DEF Inv

\* Every step of the users and of the pthreads keeps the invariant.
LEMMA Inductive == Inv /\ [Next]_vars => Inv'
<1> SUFFICES ASSUME Inv, [Next]_vars PROVE Inv'
  OBVIOUS
<1>1. ASSUME NEW u \in Users, User(u) PROVE Inv'
  <2>1. CASE \E k \in Kinds : StartOk(u, k) \/ StartFails(u, k)
    BY <2>1, StartOkKeeps, StartFailsKeeps
  <2>2. CASE Join(u)
    BY <2>2, JoinClaimKeeps, JoinReadKeeps, OutsideJoinKeeps, JoinReturnKeeps
       DEF Join
  <2>3. CASE Cancel(u)
    BY <2>3, CancelMarkKeeps, CancelNotifyKeeps DEF Cancel
  <2>4. CASE Kill(u)
    BY <2>4, KillEarlyKeeps, KillLateKeeps, KillSendKeeps DEF Kill
  <2>5. QED
    BY <1>1, <2>1, <2>2, <2>3, <2>4 DEF User
<1>2. ASSUME NEW t \in Pthreads, Pthread(t) PROVE Inv'
  BY <1>2, ThreadInitKeeps, LookKeeps, LookAgainKeeps, TakeMarkKeeps,
     SleepKeeps, TimeoutKeeps, EndWaitKeeps, RunEndsKeeps, CleanupKeeps,
     ExitKeeps DEF Pthread
<1>3. QED
  BY <1>1, <1>2, DestroyKeeps, SpuriousWakeupKeeps, StutterKeeps DEF Next

\* The invariant behind the properties of the Thread object.
THEOREM InvHolds == Spec => []Inv
BY InitInv, Inductive, PTL DEF Spec

\* Every variable keeps its type.
THEOREM TypeCorrect == Spec => []TypeOK
<1>1. Inv => TypeOK
  BY DEF Inv
<1>2. QED
  BY <1>1, InvHolds, PTL

\* The pthreads inside are none, or the last one.
LEMMA InsideIs ==
  ASSUME Inv
  PROVE  /\ Inside = IF isended THEN {} ELSE {made}
         /\ Cardinality(Inside) = IF isended THEN 0 ELSE 1
<1>1. ASSUME ~isended PROVE made \in Inside
  <2>1. made \in Pthreads
    BY <1>1 DEF Inv, TypeOK, Life, Pthreads
  <2>2. QED
    BY <1>1, <2>1 DEF Inv, Life, Inside, Over
<1>2. ASSUME NEW t \in Inside PROVE t = made /\ ~isended
  BY <1>2, OnlyTheLast DEF Inside, Over
<1>3. Inside = IF isended THEN {} ELSE {made}
  BY <1>1, <1>2
<1>4. QED
  BY <1>3, FS_EmptySet, FS_Singleton

\* The reference counts its users and is deleted once, with the last of them
\* (thread.h:72-91), even when starts fail.
THEOREM RefCounted == Spec => []RefCount
<1>1. Inv => RefCount
  <2> SUFFICES ASSUME Inv PROVE RefCount
    OBVIOUS
  <2>1. count = Cardinality(Inside) + (IF alive THEN 1 ELSE 0)
    BY InsideIs DEF Inv, Life
  <2>2. (freed <=> count = 0) /\ (freed => isended)
    BY DEF Inv, Life
  <2>3. QED
    BY <2>1, <2>2 DEF RefCount
<1>2. QED
  BY <1>1, InvHolds, PTL

\* The target runs in one pthread at a time, and isruning() says when.
THEOREM OneRuns == Spec => []OneRunner
<1>1. Inv => OneRunner
  BY InsideIs DEF OneRunner
<1>2. QED
  BY <1>1, InvHolds, PTL

\* While no start has failed, no pthread is joined, detached or signalled
\* after it has been given back (thread.h:18, :141, :283).
THEOREM NeverMisused == Spec => []NoMisuse
<1>1. Inv => NoMisuse
  BY DEF Inv, OnceEach, NoMisuse
<1>2. QED
  BY <1>1, InvHolds, PTL

\* Every pthread is given back before the last reference goes.
THEOREM NothingLeaks == Spec => []NoLeak
<1>1. Inv => NoLeak
  <2> SUFFICES ASSUME Inv, ~alive, ~outside_join, Calm, NEW t \in 1..made
               PROVE  released[t] # "no"
    BY DEF NoLeak
  <2>1. t \in Pthreads /\ (t < made \/ t = made) /\ made > 0
    BY DEF Inv, TypeOK, Pthreads
  <2>2. \A u \in Users : pc[u] # "join"
    BY DEF Calm
  <2>3. QED
    BY <2>1, <2>2 DEF Inv, GivenBack
<1>2. QED
  BY <1>1, InvHolds, PTL

\* A delayed start waits for its delay, whatever notifies its earlier lives
\* have left in the condition.
THEOREM DelaysKept == Spec => []DelayKept
<1>1. Inv => DelayKept
  BY DEF Inv, Delays, DelayKept
<1>2. QED
  BY <1>1, InvHolds, PTL

\* A signal reaches the pthread it was sent to, or none.
THEOREM SignalsArrive == Spec => []SignalAddressed
<1>1. Inv => SignalAddressed
  BY DEF Inv, Signals, SignalAddressed
<1>2. QED
  BY <1>1, InvHolds, PTL

\* A step takes no cancelled pthread into its target.
LEMMA NotRunAfterCancel ==
  ASSUME Inv, [Next]_vars, NEW t \in stopped, kind[t] # "plain",
         place'[t] = "run"
  PROVE  place[t] = "run"
<1>1. t \in Pthreads
  BY DEF Inv, TypeOK
<1>2. CASE place' = place
  BY <1>2
<1>3. ASSUME NEW u \in Users, NEW k \in Kinds, StartOk(u, k)
      PROVE  place[t] = "run"
  BY <1>1, <1>3 DEF StartOk, Inv, TypeOK, Delays, Pthreads
<1>4. ASSUME NEW u \in Users, CancelNotify(u) PROVE place[t] = "run"
  BY <1>1, <1>4 DEF CancelNotify
<1>5. ASSUME NEW s \in Pthreads, NEW p \in Places, Move(s, p),
             p = "run" => s # t
      PROVE  place[t] = "run"
  BY <1>1, <1>5 DEF Move, Inv, TypeOK
<1>6. ASSUME NEW s \in Pthreads, Pthread(s) \/ SpuriousWakeup(s)
      PROVE  place[t] = "run"
  <2>1. CASE ThreadInit(s)
    <3>1. s = t => kind[s] # "plain"
      OBVIOUS
    <3>2. QED
      BY <1>5, <2>1, <3>1 DEF ThreadInit, Places
  <2>2. CASE LookAgain(s)
    <3>1. s = t => iscanceldelaystart
      BY <1>1, <2>2, OnlyTheLast DEF LookAgain, Over, Inv, Delays
    <3>2. QED
      BY <1>5, <2>2, <3>1 DEF LookAgain, Places
  <2>3. CASE Look(s) \/ TakeMark(s) \/ Sleep(s)
    BY <1>5, <2>3 DEF Look, TakeMark, Sleep, Places
  <2>4. CASE Timeout(s) \/ EndWait(s) \/ SpuriousWakeup(s)
    BY <1>5, <2>4 DEF Timeout, EndWait, SpuriousWakeup, Places
  <2>5. CASE RunEnds(s) \/ Cleanup(s) \/ Exit(s)
    BY <1>5, <2>5 DEF RunEnds, Cleanup, Exit, Places
  <2>6. QED
    BY <1>6, <2>1, <2>2, <2>3, <2>4, <2>5 DEF Pthread
<1>7. ASSUME NEW u \in Users, Join(u) \/ Kill(u) \/ CancelMark(u)
                              \/ \E k \in Kinds : StartFails(u, k)
      PROVE  place' = place
  <2>1. CASE Join(u)
    BY <2>1 DEF Join, JoinClaim, JoinRead, OutsideJoin, PthreadJoin, JoinReturn
  <2>2. CASE Kill(u)
    BY <2>2 DEF Kill, KillEarly, KillLate, KillSend
  <2>3. CASE CancelMark(u)
    BY <2>3 DEF CancelMark
  <2>4. CASE \E k \in Kinds : StartFails(u, k)
    BY <2>4 DEF StartFails
  <2>5. QED
    BY <1>7, <2>1, <2>2, <2>3, <2>4
<1>8. Destroy \/ UNCHANGED vars => place' = place
  BY DEF Destroy, vars
<1>9. QED
  BY <1>2, <1>3, <1>4, <1>6, <1>7, <1>8 DEF Next, User, Cancel

\* A delayed or periodic pthread that was cancelled does not begin to run its
\* target any more (thread.h:226-233, :414, :430).
THEOREM CancelledStays == Spec => StaysCancelled
<1>1. Inv /\ [Next]_vars =>
        [\A t \in stopped :
           kind[t] # "plain" /\ place'[t] = "run" => place[t] = "run"]_vars
  BY NotRunAfterCancel
<1>2. QED
  BY <1>1, InvHolds, PTL DEF Spec, StaysCancelled
=============================================================================
