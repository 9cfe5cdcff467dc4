CONSTANTS
  Obstacle = {0, 1}
  Surface = {0}
  MaxParts = 2
  Freq = 2
  MaxRobotId = 3
  MaxBacklog = 1
SPECIFICATION MCSpec
INVARIANTS
  NumberingIsSound
  RobotIsInformed
PROPERTIES
  RobotNeverConfused
  ModelsArriveInOrder
  GoneIsForgotten
  RobotCatchesUp
