SPECIFICATION Spec
CONSTANTS
  Codes = {c1}
  NoCode = NoCode
  Lot = 1
  OpenBuys = {}
  Cached = FALSE
  MaxPasses = 3
  MaxFailures = 1
  MaxLost = 0
  MaxRefusals = 0
  MaxManual = 0
CHECK_DEADLOCK FALSE
PROPERTY CompleteMeansFlat
