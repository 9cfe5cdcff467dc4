------------------------------ MODULE MCStages ------------------------------
(* A small instance of Stages for TLC.                                     *)
EXTENDS Stages

(* All convex polygons of three to five points of a grid of four by four:  *)
(* each once in each direction, and not from every starting point, begin   *)
(* with the first of their points.                                         *)
MCHulls ==
  LET Precedes(p, q) == p[1] < q[1] \/ (p[1] = q[1] /\ p[2] < q[2])
      Turns(s) == Hull!Cross(s[Len(s) - 2], s[Len(s) - 1], s[Len(s)]) < 0
      chains[n \in 1 .. 5] ==
        IF n = 1 THEN {<<p>> : p \in (0 .. 3) \X (0 .. 3)}
        ELSE {s \in {Append(c, p) : c \in chains[n - 1], p \in (0 .. 3) \X (0 .. 3)} :
                Precedes(s[1], s[n]) /\ (n >= 3 => Turns(s))}
  IN  {s \in UNION {chains[n] : n \in 3 .. 5} : Hull!IsConvex(s)}

(* Some in one cell, some in neighbouring ones, some with a gap between    *)
(* them, all according to where the grid begins.                           *)
MCPosition == {0, 9, 25} \X {0, 10, 20}

(* Points on the z-axis and one unit away, there at the height of a tilted *)
(* plane.                                                                  *)
MCClouds == {{<<0, 0, 1>>, <<0, 1, 2>>, <<1, 4, 3>>, <<0, 4, 4>>, <<1, 4, 5>>}}

(* Planes of which some are similar on the z-axis: one tilted, one upside  *)
(* down and a bit higher; another is not.                                  *)
MCPlane == {[tilt |-> 0, up |-> TRUE, height |-> 0], [tilt |-> 4, up |-> TRUE, height |-> 0],
            [tilt |-> 2, up |-> FALSE, height |-> 1], [tilt |-> 0, up |-> TRUE, height |-> 3]}

(* Up to seven points: enough for two parts and a splinter of one of them. *)
MCObstacleCloud == {1 .. n : n \in 1 .. 7}
=============================================================================
