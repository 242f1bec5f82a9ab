SPECIFICATION FairNetSpec
CONSTANTS
  MaxOpen = 1
  MaxBuffer = 1
PROPERTY Reconnects
CHECK_DEADLOCK FALSE
