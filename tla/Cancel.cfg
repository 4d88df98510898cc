SPECIFICATION Spec
CONSTANTS
  Orders = {o1, o2}
  Workers = {w1, w2}
  NoOrder = NoOrder
  MaxCrashes = 2
SYMMETRY Symmetry
INVARIANTS
  CancelSentOnce
  CancelledHasEnded
  CancelInv
PROPERTY CancelledAtMostOnce
