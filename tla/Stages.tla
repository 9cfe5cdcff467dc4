------------------------------- MODULE Stages -------------------------------
(***************************************************************************)
(* Five stages that work through one message at a time, with state of      *)
(* their own, side by side: each behaviour is one of one stage, while the  *)
(* variables of the others keep their first values.                        *)
(***************************************************************************)
EXTENDS Integers, Sequences, FiniteSets

CONSTANTS
  (* SurfaceTracker                                                        *)
  Center, Radius, MAX_CENTER_DISTANCE, MAX_RADIUS_DEVIATION_PERCENTAGE,
  FOUND_LIMIT, LOST_LIMIT, MAX_ID, MaxSurfaces,
  (* HullReduction                                                         *)
  Hulls, NUM_HULL_POINTS,
  (* SurfaceClusterer                                                      *)
  Position, CLUSTER_TOLERANCE, SafetyMargin, MIN_CLUSTER_SIZE, MaxPoints,
  (* SurfaceFinder                                                         *)
  Clouds, Plane, DEVIATION_ANGLE, SAME_HEIGHT, DISTANCE_THRESHOLD,
  REUSE_THRESHOLD, MIN_REUSE, REST, MaxFrames,
  (* SplitApproximator                                                     *)
  ObstacleCloud, ObstacleId, DepthLimit

(* Places are numbers, and half way between two is another.                *)
ASSUME TrackerAssumption ==
  /\ Center \in SUBSET Int
  /\ \A a, b \in Center : (a + b) \div 2 \in Center
  /\ Radius \in SUBSET Nat
  /\ {MAX_CENTER_DISTANCE, MAX_ID, MaxSurfaces} \subseteq Nat
  /\ {FOUND_LIMIT, LOST_LIMIT} \subseteq Nat \ {0}

(* Planes are tilted by at most 15 degrees; an old plane must have some    *)
(* points.                                                                 *)
ASSUME FinderAssumption ==
  /\ \A c \in Clouds : c \subseteq Int \X Int \X Int
  /\ Plane \subseteq [tilt : -15 .. 15, up : BOOLEAN, height : Int]
  /\ {DEVIATION_ANGLE, SAME_HEIGHT, DISTANCE_THRESHOLD, REUSE_THRESHOLD} \subseteq Nat
  /\ MIN_REUSE \in Nat \ {0}

(* A hull is a sequence of points, which have two coordinates.             *)
ASSUME HullAssumption ==
  /\ \A s \in Hulls : s \in Seq(Int \X Int)
  /\ NUM_HULL_POINTS \in Nat

(* Positions are in a plane, the grid has a resolution.                    *)
ASSUME ClustererAssumption ==
  /\ Position \subseteq Nat \X Nat
  /\ IsFiniteSet(Position)
  /\ CLUSTER_TOLERANCE \in Nat \ {0}
  /\ SafetyMargin \in Nat
  /\ MIN_CLUSTER_SIZE \in Int

(* Obstacles have finitely many points, and there is no negative limit.    *)
ASSUME SplitterAssumption ==
  /\ \A c \in ObstacleCloud : IsFiniteSet(c)
  /\ ObstacleId \subseteq Int
  /\ DepthLimit \subseteq Nat

VARIABLES
  stage,     (* the stage that runs                                        *)
  (* SurfaceTracker                                                        *)
  next_model_id, tracked_models, frames_found, frames_lost,
  materialized_models, model_idx_in_list,
  (* HullReduction                                                         *)
  hull, queue, left_triangle, right_triangle, left, right, area, reduced,
  (* SurfaceClusterer                                                      *)
  frame, todo, plane, numCells, grid, stack, curCluster, surfaces,
  (* SurfaceFinder                                                         *)
  surfaceDetectorActive, reuse, frames, original, cloud, planes,
  planeCoefficients, previous_plane_coeffs, searching,
  (* SplitApproximator                                                     *)
  obstacle, limit, pieces, first, parts

tracker == <<next_model_id, tracked_models, frames_found, frames_lost,
             materialized_models, model_idx_in_list>>
hullReduction == <<hull, queue, left_triangle, right_triangle, left, right, area, reduced>>
clusterer == <<frame, todo, plane, numCells, grid, stack, curCluster, surfaces>>
finder == <<surfaceDetectorActive, reuse, frames, original, cloud, planes,
            planeCoefficients, previous_plane_coeffs, searching>>
splitter == <<obstacle, limit, pieces, first, parts>>

Tracker == INSTANCE SurfaceTracker

Hull == INSTANCE HullReduction

Clusterer == INSTANCE SurfaceClusterer

Finder == INSTANCE SurfaceFinder

Splitter == INSTANCE SplitApproximator WITH queue <- pieces

(* What is handed to the reduction is convex, with no point between two    *)
(* others on a side.                                                       *)
ASSUME ConvexAssumption == \A s \in Hulls : Hull!IsConvex(s)

Init ==
  /\ stage \in {"tracker", "hull", "clusterer", "finder", "splitter"}
  /\ Tracker!Init
  /\ IF stage = "hull" THEN Hull!Init
     ELSE /\ hull = {} /\ queue = {} /\ left_triangle = {} /\ right_triangle = {}
          /\ left = {} /\ right = {} /\ area = {} /\ reduced = {}
  /\ IF stage = "clusterer" THEN Clusterer!Init
     ELSE /\ frame = {} /\ todo = {} /\ plane = 0 /\ numCells = {}
          /\ grid = {} /\ stack = {} /\ curCluster = {} /\ surfaces = {}
  /\ Finder!Init
  /\ surfaceDetectorActive \/ reuse => stage = "finder"
  /\ IF stage = "splitter" THEN Splitter!Init
     ELSE /\ obstacle = {} /\ limit = {} /\ pieces = {} /\ first = {} /\ parts = {}

RunTracker ==
  /\ stage = "tracker" /\ Tracker!Next
  /\ UNCHANGED <<stage, hullReduction, clusterer, finder, splitter>>

RunHull ==
  /\ stage = "hull" /\ Hull!Next
  /\ UNCHANGED <<stage, tracker, clusterer, finder, splitter>>

RunClusterer ==
  /\ stage = "clusterer" /\ Clusterer!Next
  /\ UNCHANGED <<stage, tracker, hullReduction, finder, splitter>>

RunFinder ==
  /\ stage = "finder" /\ Finder!Next
  /\ UNCHANGED <<stage, tracker, hullReduction, clusterer, splitter>>

RunSplitter ==
  /\ stage = "splitter" /\ Splitter!Next
  /\ UNCHANGED <<stage, tracker, hullReduction, clusterer, finder>>

Next == RunTracker \/ RunHull \/ RunClusterer \/ RunFinder \/ RunSplitter

vars == <<stage, tracker, hullReduction, clusterer, finder, splitter>>

Spec == Init /\ [][Next]_vars

-----------------------------------------------------------------------------
(* What the surface tracker's observers are given is what it tracks.       *)
ListShowsTracked == Tracker!ListShowsTracked

(* The surface tracker keeps the promise of a low-pass filter.             *)
SurfacesKeepPromise == Tracker!KeepsPromise

(* The triangles that are left of a hull form a ring.                      *)
RingIsSound == stage = "hull" => Hull!RingIsSound

(* The reduced hull is the one the comment's algorithm leaves.             *)
ReductionIsGreedy == stage = "hull" => Hull!ReductionIsGreedy

(* No point is in a cell at the border of the voxel grid.                  *)
PointsAreInside == stage = "clusterer" => Clusterer!PointsAreInside

(* The surfaces of a frame are the clusters of its planes.                 *)
SurfacesAreClusters == stage = "clusterer" => Clusterer!SurfacesAreClusters

(* Points of a cloud are in one plane, not too far from it, or left.       *)
PointsKeepTheirPlane == Finder!PointsKeepTheirPlane

(* Planes that are similar were merged, but for parallel ones.             *)
PlanesDiffer == Finder!PlanesDiffer

(* The parts of an obstacle have its points, but for splinters.            *)
PartsCoverObstacle == stage = "splitter" => Splitter!PartsCoverObstacle
=============================================================================
