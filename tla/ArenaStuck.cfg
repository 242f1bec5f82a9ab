SPECIFICATION ArenaSpec
CONSTANTS
  Layers <- Coast
  MapWidth = 39
  MapHeight = 52
  Tile = 400
  Width = 700
  Height = 800
  Speed = 400
  Damage = 20
  FullHealth = 40
  Centre <- CoastCentre
  Start <- CoastStart
  Keys = {"UP", "DOWN", "LEFT", "RIGHT"}
  MaxHits = 1
INVARIANT CanMove
CHECK_DEADLOCK FALSE
