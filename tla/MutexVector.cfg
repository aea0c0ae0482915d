SPECIFICATION FairSpec
CONSTANTS
  Threads = {t1, t2, t3}
  Vectors = {0, 1, 2}
  MaxCalls = 3
  MaxSpurious = 1
INVARIANTS Exclusion CountExact NoLostWakeup
PROPERTIES ImplementsLock GetsIn
CHECK_DEADLOCK FALSE
