SPECIFICATION Spec
CONSTANTS
  Pages = 3
  Room = 4
  MaxOpens = 4
  MaxCrashes = 2
  MaxFails = 2
INVARIANTS MissedOnce BusExplained
PROPERTIES BlockKept
