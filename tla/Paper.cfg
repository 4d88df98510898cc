SPECIFICATION FairSpec
CONSTANTS
  Entries = {b1, b2}
  Exits = {x1}
  NoSignal = NoSignal
  MaxDays = 2
  MaxAttempts = 2
  Lot = 2
  InitialCash = 5
  MaxCrashes = 1
  MaxFailures = 1
CHECK_DEADLOCK FALSE
INVARIANTS
  LedgerInv
  Restorable
  FillsRecorded
PROPERTIES
  TradesAtomically
  ClosesFlat
