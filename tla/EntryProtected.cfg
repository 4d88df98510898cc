SPECIFICATION FairSpec
CONSTANTS
  k1 = k1  k2 = k2  c1 = c1  c2 = c2
  Signals = {k1, k2}
  Codes = {c1, c2}
  CodeOf <- CodeOfEach
  NoSignal = NoSignal
  Quantity = 2
  MaxEntries = 2
  LedgerSettings = {TRUE, FALSE}
  MaxFailures = 1
  MaxCloses = 0
  MaxRestarts = 1
INVARIANT OwnershipOfOneDay
PROPERTY ProtectedOrHalted
CHECK_DEADLOCK FALSE
