---------------------- MODULE MCLowPassObstacleTracker ----------------------
(* Obstacles on a line: four places, matched up to two apart.              *)
EXTENDS LowPassObstacleTracker

Places == 0 .. 3

SquaredGap == [p \in Places \X Places |-> (p[1] - p[2]) * (p[1] - p[2])]

HalfWay == [p \in Places \X Places |-> (p[1] + p[2]) \div 2]
=============================================================================
