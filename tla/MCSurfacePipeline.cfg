CONSTANTS
  Plane = {floor, step}
  FOUND_LIMIT = 2
  LOST_LIMIT = 2
  MaxFrame = 3
SPECIFICATION FairSpec
CHECK_DEADLOCK FALSE
INVARIANTS
  StampsErrForward
  ResultsAreCausal
PROPERTIES
  ResultsNeverGoBack
  CloudsAreProcessed
  SurfacesFollowPlanes
