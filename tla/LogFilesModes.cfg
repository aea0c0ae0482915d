SPECIFICATION Spec
CONSTANTS
  Modes = {"Async", "Sync"}
  sg_max_file_size = 1
  CacheDirs = {TRUE, FALSE}
  CacheTime = 2
  AliveTime = 1
  CallerKeepsDir = FALSE
  DayLen = 1
  MaxClock = 3
  MaxBack = 1
  MaxBlocks = 2
  MaxFaults = 1
  MaxCrashes = 1
  Sweeps = {"log"}
  MaxMishaps = 1
INVARIANTS Kept Once
CHECK_DEADLOCK FALSE
