SPECIFICATION FairSpec
CONSTANTS
  Processes = {p1, p2}
  Ids = {i1, i2, i3}
  NoLock = NoLock
  MaxAttempts = 2
  Overrun = FALSE
  MaxDeaths = 2
  MaxFailures = 1
INVARIANTS
  LockInv
  ExclusiveWhileFresh
PROPERTY DeadLockRemoved
