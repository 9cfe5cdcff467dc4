SPECIFICATION Spec
CONSTANTS
  enableKalmanFilter = TRUE
  WATCHED = TRUE
  Name = {n1, n2, n3}
  NUM_SPLIT_LIFE_TIME = 1
  NUM_SPLIT_FRAMES = 2
  MIN_PERSISTENT_FRAMES = 2
PROPERTY FiltersAreOwn
