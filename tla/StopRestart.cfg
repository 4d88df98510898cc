SPECIFICATION FairSpec
CONSTANTS
  Lot = 2
  Rest = 0
  CacheSettings = {FALSE}
  MaxCrashes = 1
  MaxFailures = 0
  MaxLost = 0
  MaxRefusals = 0
  MaxManual = 0
CHECK_DEADLOCK FALSE
PROPERTY StopSurvivesRestart
