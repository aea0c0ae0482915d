SPECIFICATION FairSpec
CONSTANTS
  Loggers = {l1}
  Ctl = ctl
  Modes = {"Async"}
  MmapOutcomes = {TRUE}
  QuietClose = TRUE
  ClosedSetMode = FALSE
  BlockCap = 2
  HighWater = 2
  NotifyAt = 1
  MaxLogs = 3
  MaxSessions = 2
  MaxCrashes = 1
  MaxFlush = 0
  MaxFlushSync = 0
  MaxSetMode = 0
INVARIANTS ThreadOrder NoHole
PROPERTIES EventuallyWritten CloseReturns
CHECK_DEADLOCK FALSE
