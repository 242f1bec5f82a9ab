SPECIFICATION CombatSpec
CONSTANTS
  Layers <- Corridor
  MapWidth = 7
  MapHeight = 1
  Tile = 32
  Width = 56
  Height = 64
  Speed = 32
  Damage = 20
  FullHealth = 40
  Centre <- CorridorMiddle
  Start <- CorridorStart
  EnemyStart <- CorridorEnd
  Reports <- EnemyReports
  Sighted <- Seen
  Origin <- AxeOrigin
  HalfX <- AxeX
  HalfY <- AxeY
  Sheet = 768
  Threshold = 2
  Cooldown = 6
  Reach <- InReach
  Keys = {"RIGHT"}
  MaxHits = 2
  MaxAxes = 2
INVARIANTS CombatTypeOK OwnAxeAhead FramedBeforeThrow
PROPERTIES HitsAreCounted ImplementsArena
CHECK_DEADLOCK FALSE
