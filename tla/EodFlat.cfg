SPECIFICATION FairSpec
CONSTANTS
  Codes = {c1,c2}
  NoCode = NoCode
  Lot = 2
  OpenBuys = {}
  Cached = TRUE
  MaxPasses = 1
  MaxFailures = 1
  MaxLost = 1
  MaxRefusals = 2
  MaxManual = 0
CHECK_DEADLOCK FALSE
INVARIANT EodInv
PROPERTY EventuallyFlat
