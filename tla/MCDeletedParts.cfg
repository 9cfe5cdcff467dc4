CONSTANTS
  Obstacle = {0}
  Surface = {0}
  MaxParts = 2
  Freq = 1
  MaxRobotId = 5
  MaxBacklog = 1
SPECIFICATION FairSpec
INVARIANT PartsAreMirrored
