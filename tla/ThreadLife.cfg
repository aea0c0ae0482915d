SPECIFICATION FairSpec
CONSTANTS
  Users = {u1, u2}
  OutsideJoins = {TRUE, FALSE}
  MaxStarts = 2
  MaxFails = 1
  MaxSpurious = 1
  MaxCancels = 1
  MaxKills = 1
INVARIANTS RefCount OneRunner NoMisuse NoLeak DelayKept SignalAddressed
PROPERTIES StaysCancelled CancelEnds
CHECK_DEADLOCK FALSE
