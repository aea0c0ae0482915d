SPECIFICATION Spec
CONSTANTS
  Loggers = {l1}
  Ctl = ctl
  Modes = {"Async", "Sync"}
  MmapOutcomes = {TRUE, FALSE}
  QuietClose = TRUE
  ClosedSetMode = FALSE
  BlockCap = 3
  HighWater = 2
  NotifyAt = 2
  MaxLogs = 1
  MaxSessions = 2
  MaxCrashes = 1
  MaxFlush = 1
  MaxFlushSync = 1
  MaxSetMode = 1
INVARIANTS AtMostOnce NoNullBuffer
PROPERTIES Implements
CHECK_DEADLOCK FALSE
