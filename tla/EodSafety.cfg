SPECIFICATION Spec
CONSTANTS
  Codes = {c1,c2}
  NoCode = NoCode
  Lot = 2
  OpenBuys = {c1,c2}
  Cached = FALSE
  MaxPasses = 3
  MaxFailures = 0
  MaxLost = 0
  MaxRefusals = 1
  MaxManual = 1
CHECK_DEADLOCK FALSE
SYMMETRY Symmetry
INVARIANTS
  OnlyOwnedIsSold
PROPERTIES
  SaleExclusive
  CompleteMeansFlat
