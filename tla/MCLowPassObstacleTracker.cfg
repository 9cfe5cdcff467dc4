CONSTANTS
  Model <- Places
  Distance <- SquaredGap
  Blend <- HalfWay
  MATCH_DISTANCE = 4
  FOUND_LIMIT = 3
  LOST_LIMIT = 2
  REFRESH = 2
  MAX_ID = 2
  MaxObstacles = 2
SPECIFICATION FairSpec
INVARIANTS
  ListMatchesIndex
  MapsAgree
PROPERTIES
  IdsNeverReused
  KeepsPromise
  LoneObstacleAppears
