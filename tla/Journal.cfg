SPECIFICATION FairSpec
CONSTANTS
  Keys = {k1, k2}
  Workers = {w1, w2}
  NoKey = NoKey
  MaxCrashes = 2
INVARIANTS
  AtMostOneTransmission
  DurableBeforeTransmission
  ClosedRowsTrue
  IInv
PROPERTIES
  AtMostOnce
  TransmissionSettles
