SPECIFICATION FairSpec
CONSTANTS
  Threads = {t1, t2}
  Modes = {"Async", "Sync"}
  MaxDepth = 3
  AssertIn = {"tips", "format", "append", "flush"}
  MaxCalls = 3
  MaxAsserts = 3
INVARIANTS DepthBound Guarded TextsOnce
PROPERTIES Returns
CHECK_DEADLOCK FALSE
