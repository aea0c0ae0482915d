------------------------- MODULE AbstractGroupLock --------------------------
(***************************************************************************)
(* What a shared/exclusive group lock promises: any number of threads of   *)
(* one group hold it together, never threads of two groups.                *)
(***************************************************************************)
CONSTANTS Thread, Group
VARIABLES holders,   \* the threads that hold the lock
          group      \* their group

Enter(t, g) ==
  /\ t \notin holders
  /\ holders = {} \/ group = g
  /\ holders' = holders \union {t}
  /\ group' = g

Leave(t) ==
  /\ t \in holders
  /\ holders' = holders \ {t}
  /\ UNCHANGED group

AbstractInit == holders = {} /\ group \in Group
AbstractNext ==
  \E t \in Thread : Leave(t) \/ \E g \in Group : Enter(t, g)
AbstractSpec == AbstractInit /\ [][AbstractNext]_<<holders, group>>
=============================================================================
