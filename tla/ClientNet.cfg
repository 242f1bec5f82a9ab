SPECIFICATION FairNetSpec
CONSTANTS
  MaxOpen = 3
  MaxBuffer = 3
INVARIANTS NetTypeOK SenderOwnsConnection RunsUntilClose EndsClean SleepsOnEmptyQueue
  NoOtherHang
PROPERTIES QueueDrains ShutdownEnds
CHECK_DEADLOCK FALSE
