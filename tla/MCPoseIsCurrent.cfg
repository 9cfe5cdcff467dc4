SPECIFICATION Spec
CONSTANTS
  MaxFrame = 3
  MaxPose = 3
  MaxImage = 6
CHECK_DEADLOCK FALSE
INVARIANT PoseIsCurrent
