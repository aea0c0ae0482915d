SPECIFICATION Spec
CONSTANTS
  HeaderLen = 1
  MaxLength = 6
  BlockLen = 2
  Crypts = {TRUE}
  MaxOut = 3
  MaxCrashes = 0
INVARIANTS TailerFits
