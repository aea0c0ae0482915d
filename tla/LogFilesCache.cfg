SPECIFICATION Spec
CONSTANTS
  Modes = {"Async"}
  sg_max_file_size = 1
  CacheDirs = {TRUE}
  CacheTime = 2
  AliveTime = 1
  CallerKeepsDir = TRUE
  DayLen = 1
  MaxClock = 3
  MaxBack = 0
  MaxBlocks = 3
  MaxFaults = 1
  MaxCrashes = 1
  Sweeps = {"log", "cache"}
  MaxMishaps = 1
INVARIANTS Kept SizeBound InOrder
CHECK_DEADLOCK FALSE
