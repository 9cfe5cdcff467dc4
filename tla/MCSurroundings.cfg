SPECIFICATION SurroundingsSpec
CONSTANTS
  enableKalmanFilter = FALSE
  WATCHED = FALSE
  Name = {n1, n2, n3}
  NUM_SPLIT_LIFE_TIME = 1
  NUM_SPLIT_FRAMES = 2
  MIN_PERSISTENT_FRAMES = 2
  MaxListed = 2
\* Two cells, one of them out of the box around the other as it is widened
\* for one cell, in it as for two.
  ProbCell = {0, 15}
  Pt1Cell = {0}
  MaxPoints = 2
  WIDTH = 4
  THRESHOLD = 2
  LEEWAY = 10
  MaxRecorded = 4
\* Two obstacles and a surface, so that parts can share an id and handles
\* are given out again.
  Obstacle = {"a", "b"}
  Surface = {"s"}
  Clusters = {1, 2}
  MaxParts = 1
  MaxClouds = 1
\* Messages that fit the receiver's first buffer and messages that do not.
  FrameNumbers = {0, 1, 2}
  ContentLength = {1, 2}
  HEADER = 2
  VISION_HEADER = 1
  BUFLEN = 4
  MaxPending = 2
\* A configuration is read once; a connection may break.
CHECK_DEADLOCK FALSE
INVARIANTS
  RemovalIsExact
  ObstaclesAreReal
  RunningIsConnected
  SurfacesAreDetected
  SightingsCount
  LowPassFollows
  ImagesInStep
  SceneIsAccounted
PROPERTIES
  SplitIsEarned
  ImplementsChannel
