SPECIFICATION SpacedSessionSpec
CONSTANTS
  a = a
  b = b
  c = c
  None = None
  App = {a, b}
  Socket <- Duel
  Data = {a, b}
  Probe = {}
  MaxTime = 1
  MaxInbox = 1
PROPERTY RoomsSeatTheConnected
CHECK_DEADLOCK FALSE
