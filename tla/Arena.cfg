SPECIFICATION FairArenaSpec
CONSTANTS
  Layers <- Basin
  MapWidth = 7
  MapHeight = 6
  Tile = 4
  Width = 7
  Height = 8
  Speed = 4
  Damage = 20
  FullHealth = 40
  Centre <- BasinCentre
  Start <- BasinStart
  Keys = {"UP", "DOWN", "RIGHT"}
  MaxHits = 1
INVARIANTS ArenaTypeOK WalksOnHeldKeys SlidesFromFreePlaces
PROPERTIES RestartsInTheMiddle StepsBack ButtonSettles
CHECK_DEADLOCK FALSE
