-------------------------- MODULE SplitApproximator --------------------------
(***************************************************************************)
(* SplitObjectApproximator::approximate                                    *)
(* (src/src/lepp3/obstacles/object_approximator/split): an obstacle is     *)
(* approximated by several parts.  A cloud is split again and again, as    *)
(* long as all conditions of a CompositeSplitStrategy allow it, and what   *)
(* is not split becomes a part of the composite model.                     *)
(*                                                                         *)
(* A cloud is a set of points.  Where the splitting plane lies, and what   *)
(* the conditions other than the depth limit say, is left open.            *)
(***************************************************************************)
EXTENDS Integers, Sequences, FiniteSets

CONSTANTS
  ObstacleCloud,     (* the points of obstacles                            *)
  ObstacleId,
  DepthLimit         (* depth limits of configurations                     *)

VARIABLES
  obstacle,   (* object_params: the obstacle's id and its points           *)
  limit,      (* the depth limit among the conditions                      *)
  queue,      (* clouds with their depths                                  *)
  first,
  parts       (* the models of the composite                               *)

vars == <<obstacle, limit, queue, first, parts>>

(* DepthLimitSplitCondition::shouldSplit.  CompositeSplitStrategy splits   *)
(* only if this and all the other conditions agree.                        *)
MaySplit(depth) == depth < limit

(* SplitStrategy::doSplit cuts across the longest axis, through the        *)
(* centroid: there are points on both sides.                               *)
doSplit(cloud) == {<<s, cloud \ s>> : s \in (SUBSET cloud) \ {{}, cloud}}

(* A faulty variant: the pieces keep the depth of their cloud.             *)
Pieces_SameDepth(depth, split) ==
  [k \in 1 .. 2 |-> [depth |-> depth, cloud |-> split[k]]]

Pieces(depth, split) ==
  [k \in 1 .. 2 |-> [depth |-> depth + 1, cloud |-> split[k]]]

(* Whether current_params has the inertial axes and the centre that the    *)
(* segmenter computed for the obstacle; if not, the wrapped approximator   *)
(* estimates both from the cloud.                                          *)
Hinted == first

(* What the wrapped approximator returns (external), with the cloud that   *)
(* its axes and centre were computed from; its id is 100000 plus 1000      *)
(* times the obstacle's and the part's number.                             *)
Part(cloud) ==
  [id |-> 1000 * (100 + obstacle.id) + (Len(parts) + 1),
   cloud |-> cloud,
   described |-> IF Hinted THEN obstacle.cloud ELSE cloud]

-----------------------------------------------------------------------------
Init ==
  /\ obstacle \in [id : ObstacleId, cloud : ObstacleCloud]
  /\ limit \in DepthLimit
  /\ queue = <<[depth |-> 0, cloud |-> obstacle.cloud]>>
  /\ first = TRUE
  /\ parts = <<>>

(* The loop meets a cloud that is too small: its points are in no part.    *)
DropSplinter ==
  /\ queue # <<>>
  /\ Cardinality(Head(queue).cloud) < 3
  /\ queue' = Tail(queue)
  /\ UNCHANGED <<obstacle, limit, first, parts>>

(* A cloud is approximated, and split: its approximation is not kept.      *)
SplitCloud ==
  /\ queue # <<>>
  /\ Cardinality(Head(queue).cloud) >= 3
  /\ MaySplit(Head(queue).depth)
  /\ \E split \in doSplit(Head(queue).cloud) :
       queue' = Tail(queue) \o Pieces(Head(queue).depth, split)
  /\ first' = FALSE
  /\ UNCHANGED <<obstacle, limit, parts>>

(* It is not split, since of its depth or of another condition.            *)
KeepPart ==
  /\ queue # <<>>
  /\ Cardinality(Head(queue).cloud) >= 3
  /\ parts' = Append(parts, Part(Head(queue).cloud))
  /\ queue' = Tail(queue)
  /\ first' = FALSE
  /\ UNCHANGED <<obstacle, limit>>

Next == DropSplinter \/ SplitCloud \/ KeepPart

Spec == Init /\ [][Next]_vars

-----------------------------------------------------------------------------
(* 2 ^ n: the most parts of a cloud that may be split n times in a row.    *)
MostParts(n) ==
  LET most[i \in 0 .. n] == IF i = 0 THEN 1 ELSE 2 * most[i - 1] IN most[n]

(* The parts of an obstacle: no point is in two, no two have the same id,  *)
(* there are no more of them than the comment on DepthLimit in             *)
(* config/artificial_pcd.toml says, 2 ^ DepthLimit, and points are lost    *)
(* only as splinters in the place of further parts.  A part is fitted with *)
(* axes and a centre of its own points, be they the segmenter's, for a     *)
(* whole obstacle, or not.  It does not say that there is a part: four     *)
(* points cut in halves leave none.                                        *)
PartsCoverObstacle ==
  queue = <<>> =>
    LET kept == UNION {parts[k].cloud : k \in DOMAIN parts}
    IN  /\ \A j, k \in DOMAIN parts : j # k =>
             /\ parts[j].cloud \cap parts[k].cloud = {}
             /\ parts[j].id # parts[k].id
        /\ Len(parts) <= MostParts(limit)
        /\ Cardinality(obstacle.cloud \ kept) <= 2 * (MostParts(limit) - Len(parts))
        /\ \A k \in DOMAIN parts : parts[k].described = parts[k].cloud
=============================================================================
