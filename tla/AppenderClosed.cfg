SPECIFICATION Spec
CONSTANTS
  Loggers = {l1}
  Ctl = ctl
  Modes = {"Async", "Sync"}
  MmapOutcomes = {TRUE, FALSE}
  QuietClose = FALSE
  ClosedSetMode = TRUE
  BlockCap = 3
  HighWater = 2
  NotifyAt = 2
  MaxLogs = 1
  MaxSessions = 2
  MaxCrashes = 1
  MaxFlush = 0
  MaxFlushSync = 1
  MaxSetMode = 1
PROPERTIES OnlyOpenWipes
CHECK_DEADLOCK FALSE
