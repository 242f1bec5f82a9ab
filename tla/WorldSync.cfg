SPECIFICATION FairWorldSpec
CONSTANTS
  P = P
  Q = Q
  MaxId <- TwoAndOne
  MaxNet = 1
INVARIANTS WorldTypeOK MirroredOnce OwnNumbersFresh NumbersInHand Provenance
PROPERTY EveryAxeAnswered
CHECK_DEADLOCK FALSE
