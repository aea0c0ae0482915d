SPECIFICATION Spec
CONSTANTS
  HeaderLen = 2
  BodyLens = {1, 2}
  Crypts = {TRUE, FALSE}
  LastHour = 2
  MaxBlocks = 3
  MaxTorn = 1
INVARIANTS Complete Exact OnBlocks
CHECK_DEADLOCK FALSE
