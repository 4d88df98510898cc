SPECIFICATION FairSpec
CONSTANTS
  Lot = 2
  Rest = 1
  CacheSettings = {TRUE, FALSE}
  MaxCrashes = 1
  MaxFailures = 1
  MaxLost = 1
  MaxRefusals = 1
  MaxManual = 1
CHECK_DEADLOCK FALSE
INVARIANTS
  StopInv
  SoldOnce
  PositionCovered
PROPERTIES
  SaleExclusive
  StopSells
