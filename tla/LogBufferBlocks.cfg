SPECIFICATION Spec
CONSTANTS
  HeaderLen = 1
  MaxLength = 8
  BlockLen = 2
  Crypts = {TRUE, FALSE}
  MaxOut = 3
  MaxCrashes = 2
INVARIANTS TypeOK WritableBlockDecodes EmittedDecodes
