SPECIFICATION Spec
CONSTANTS
  s1 = s1
  s2 = s2
  s3 = s3
  s4 = s4
  s5 = s5
  d = d
  Socket = {s1, s2, s3, s4, s5}
  Probe = {s5}
  Data = {d}
  MaxTime = 1
  MaxInbox = 1
INVARIANTS TypeOK WaitingIsLast RoomsPairNeighbours ScanSeesThePair StaysUp
CHECK_DEADLOCK FALSE
SYMMETRY Symmetry
