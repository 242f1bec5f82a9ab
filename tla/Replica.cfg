SPECIFICATION FairReplicaSpec
CONSTANTS
  Layers <- Corridor
  MapWidth = 6
  MapHeight = 1
  Tile = 4
  Width = 7
  Height = 8
  Speed = 4
  Damage = 20
  FullHealth = 40
  Centre <- CorridorCentre
  Start <- CorridorLeft
  ImageStart <- CorridorRight
  Keys = {"RIGHT"}
  MaxInputs = 2
  MaxLink = 1
INVARIANTS ReplicaTypeOK ImageAlive
PROPERTIES SettledStays ImageSettles
