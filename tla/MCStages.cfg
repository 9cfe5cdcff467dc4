SPECIFICATION Spec
CONSTANTS
  \* Two places and the one half way, two radii that are similar one way.
  Center = {0, 1, 2}
  Radius = {2, 4}
  MAX_CENTER_DISTANCE = 1
  MAX_RADIUS_DEVIATION_PERCENTAGE = 60
  FOUND_LIMIT = 2
  LOST_LIMIT = 2
  MAX_ID = 2
  MaxSurfaces = 2
  Hulls <- MCHulls
  NUM_HULL_POINTS = 3
  Position <- MCPosition
  CLUSTER_TOLERANCE = 10
  SafetyMargin = 1
  MIN_CLUSTER_SIZE = 2
  MaxPoints = 4
  Clouds <- MCClouds
  Plane <- MCPlane
  DEVIATION_ANGLE = 5
  SAME_HEIGHT = 2
  DISTANCE_THRESHOLD = 1
  REUSE_THRESHOLD = 2
  MIN_REUSE = 2
  REST = 3
  MaxFrames = 2
  ObstacleCloud <- MCObstacleCloud
  ObstacleId = {1}
  DepthLimit = {0, 1, 2}
\* Each stage stops when its message is worked through.
CHECK_DEADLOCK FALSE
INVARIANTS
  ListShowsTracked
  RingIsSound
  ReductionIsGreedy
  PointsAreInside
  SurfacesAreClusters
  PointsKeepTheirPlane
  PlanesDiffer
  PartsCoverObstacle
PROPERTY
  SurfacesKeepPromise
