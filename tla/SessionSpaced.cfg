SPECIFICATION SpacedSessionSpec
CONSTANTS
  a = a
  b = b
  c = c
  None = None
  App = {a, b, c}
  Socket <- Returning
  Data = {a, b, c}
  Probe = {}
  MaxTime = 3
  MaxInbox = 1
INVARIANTS SessionTypeOK HearsOpponentOnly FacingOpposed
PROPERTY ForwardedOnce
SYMMETRY Symmetry
CHECK_DEADLOCK FALSE
