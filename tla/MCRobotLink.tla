----------------------------- MODULE MCRobotLink -----------------------------
(***************************************************************************)
(* The link to the robot with two obstacles of at most one part and no     *)
(* surface, and with one obstacle and one surface: together they are too   *)
(* many for one state space.                                               *)
(***************************************************************************)
EXTENDS RobotLink

VARIABLE both  (* an obstacle and a surface, rather than two obstacles     *)

Two == INSTANCE RobotLink WITH Surface <- {}, MaxParts <- 1

One == INSTANCE RobotLink WITH Obstacle <- {Min(Obstacle)}, Freq <- 1, MaxRobotId <- 2

MCInit == both \in BOOLEAN /\ IF both THEN One!Init ELSE Two!Init

(* Bounds the frames: each obstacle of one finds ids for a new model left. *)
IdsAreLeft == phase' = "obstacles" => next_id' + 2 * Len(obstacles') <= MaxRobotId + 1

RunTwo == ~ both /\ Two!Next /\ (phase = "idle" => IdsAreLeft) /\ UNCHANGED both

RunOne == both /\ One!Next /\ UNCHANGED both

MCUpdateFrame == IF both THEN One!UpdateFrame ELSE Two!UpdateFrame

MCSnapshot == IF both THEN One!Snapshot ELSE Two!Snapshot

(* FairSpec of either.                                                     *)
MCSpec ==
  /\ MCInit /\ [][RunTwo \/ RunOne]_<<vars, both>>
  /\ WF_<<curr, phase>>(MCUpdateFrame)
  /\ WF_<<phase, obstacles, surfaces, deleted>>(MCSnapshot)
  /\ WF_queue(inner_send)
=============================================================================
