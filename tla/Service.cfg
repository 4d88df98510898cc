SPECIFICATION FairSpec
CONSTANTS
  Schedulers = {s1, s2, s3}
  None = None
  MaxDays = 3
  BusinessDays = {1, 3}
  MaxRestarts = 1
  MaxDeaths = 1
  MaxFaults = 2
CHECK_DEADLOCK FALSE
INVARIANTS
  ServiceInv
  OneSession
PROPERTIES
  NoSameDayRestart
  TradesAgain
  ClosedDown
