SPECIFICATION WorldSpec
CONSTANTS
  P = P
  Q = Q
  MaxId <- OneEach
  MaxNet = 1
PROPERTY SkipsOnlyWhatItShowed
CHECK_DEADLOCK FALSE
