CONSTANTS
  Plane = {floor}
  FOUND_LIMIT = 2
  LOST_LIMIT = 2
  MaxFrame = 3
SPECIFICATION FairSpec
CHECK_DEADLOCK FALSE
INVARIANT AppearanceIsConfirmed
