SPECIFICATION FairSpacedSession
CONSTANTS
  a = a
  b = b
  c = c
  None = None
  App = {a, b}
  Socket <- Rematch
  Data = {a, b}
  Probe = {}
  MaxTime = 2
  MaxInbox = 1
PROPERTIES UpdatesFlow ImplementsMatchmaking
CHECK_DEADLOCK FALSE
