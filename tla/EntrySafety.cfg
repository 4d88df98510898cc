SPECIFICATION Spec
CONSTANTS
  k1 = k1  k2 = k2  c1 = c1  c2 = c2
  Signals = {k1, k2, k3}
  Codes = {c1}
  CodeOf <- OneCode
  NoSignal = NoSignal
  Quantity = 2
  MaxEntries = 2
  LedgerSettings = {TRUE, FALSE}
  MaxFailures = 0
  MaxCloses = 1
  MaxRestarts = 1
SYMMETRY Symmetry
INVARIANTS EntryInv NoUntrackedExposure OneOwnerPerCode
PROPERTIES EntriesGuarded OldTroubleBlocks
CHECK_DEADLOCK FALSE
