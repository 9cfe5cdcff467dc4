--------------------------- MODULE SurfacePipeline ---------------------------
(***************************************************************************)
(* How surfaces reach the frames (src/src/lepp3/SurfaceDetector.hpp).      *)
(*                                                                         *)
(* Three threads exchange data through fields of SurfaceDetector: the      *)
(* capture thread (updateFrame) hands over its cloud and takes what is     *)
(* there; ransacTask finds the planes of the latest cloud; clusterTask     *)
(* turns the latest planes into surfaces, over and over again, and has the *)
(* SurfaceTracker filter them.  Each critical section is a step.           *)
(*                                                                         *)
(* A cloud is the planes that can be seen in it.  Clouds, planes and       *)
(* surfaces carry in `of` the number of the frame they really stem from,   *)
(* which the program does not know.  The tracker is taken at its word: it  *)
(* is the abstract specification Hysteresis.                               *)
(***************************************************************************)
EXTENDS Integers

CONSTANTS
  Plane,        (* the planes there are                                    *)
  FOUND_LIMIT,  (* the tracker's limits, from the configuration file       *)
  LOST_LIMIT,
  MaxFrame      (* bound on the frames captured                            *)

ASSUME PipelineAssumption ==
  /\ FOUND_LIMIT \in Nat \ {0}
  /\ LOST_LIMIT \in Nat \ {0}
  /\ MaxFrame \in Nat \ {0}

VARIABLES
  frame,          (* the FrameData the capture thread works on             *)
  capture_pc,     (* where updateFrame is                                  *)
  frameNum,       (* SurfaceDetector::frameNum                             *)
  exchangeCloud,  (* ... and so on                                         *)
  newInputCloud,
  exchangePlanes, (* exchangePlanes and exchangePlaneCoefficients          *)
  planeCoeffsIteration,
  planeCoeffsReferenceFrameNum,
  exchangeSurfaces,
  surfaceReferenceFrameNum,
  ransac_pc,      (* where ransacTask is                                   *)
  cloud,          (* its local variable: the cloud it works on             *)
  tmpFrameNum,    (* its local variable: the number to stamp the planes    *)
  cluster_pc,     (* where clusterTask is                                  *)
  surfaceData,    (* its local variable: the planes it works on            *)
  real,           (* the tracker's state, as in Hysteresis                 *)
  hits,
  misses

capture_vars == <<frame, capture_pc>>
cloud_vars   == <<exchangeCloud, newInputCloud>>
plane_vars   == <<exchangePlanes, planeCoeffsIteration, planeCoeffsReferenceFrameNum>>
surface_vars == <<exchangeSurfaces, surfaceReferenceFrameNum>>
ransac_vars  == <<ransac_pc, cloud, tmpFrameNum>>
tracker_vars == <<real, hits, misses>>
cluster_vars == <<cluster_pc, surfaceData, tracker_vars>>

vars == <<capture_vars, frameNum, cloud_vars, plane_vars, surface_vars,
          ransac_vars, cluster_vars>>

Tracker == INSTANCE Hysteresis WITH Id <- Plane, retired <- {}

Nothing == [planes |-> {}, of |-> 0]

Init ==
  /\ frame = [num |-> 0, cloud |-> Nothing, coefficients |-> Nothing,
              coefficientsRef |-> 0, surfaces |-> Nothing, surfacesRef |-> 0]
  /\ capture_pc = "idle"
  /\ frameNum = 1
  /\ exchangeCloud = Nothing
  /\ newInputCloud = FALSE
  /\ exchangePlanes = Nothing
  /\ planeCoeffsIteration = 0
  /\ planeCoeffsReferenceFrameNum = 0
  /\ exchangeSurfaces = Nothing
  /\ surfaceReferenceFrameNum = 0
  /\ ransac_pc = "idle" /\ cloud = Nothing /\ tmpFrameNum = 0
  /\ cluster_pc = "idle" /\ surfaceData = [num |-> 0, planes |-> Nothing]
  /\ real = {} /\ hits = [p \in Plane |-> 0] /\ misses = [p \in Plane |-> 0]

-----------------------------------------------------------------------------
(* The capture thread: updateFrame, in three critical sections.            *)

(* Under planeMutex: the next frame is given the latest coefficients.      *)
TakeCoefficients(visible) ==
  /\ capture_pc = "idle"
  /\ frame.num < MaxFrame
  /\ capture_pc' = "cloud"
  /\ frame' = [frame EXCEPT !.num = @ + 1,
                            !.cloud = [planes |-> visible, of |-> frame.num + 1],
                            !.coefficients = exchangePlanes,
                            !.coefficientsRef = planeCoeffsReferenceFrameNum]
  /\ frameNum' = frame.num + 1
  /\ UNCHANGED <<cloud_vars, plane_vars, surface_vars, ransac_vars, cluster_vars>>

(* Under exchangeCloudMutex.                                               *)
OfferCloud ==
  /\ capture_pc = "cloud"
  /\ capture_pc' = "surfaces"
  /\ exchangeCloud' = frame.cloud
  /\ newInputCloud' = TRUE
  /\ UNCHANGED <<frame, frameNum, plane_vars, surface_vars, ransac_vars, cluster_vars>>

(* A faulty variant: takes the planes along that clusterTask works on.     *)
Finished_ClusterPlanes ==
  [frame EXCEPT !.surfaces = exchangeSurfaces,
                !.surfacesRef = surfaceReferenceFrameNum,
                !.coefficients = surfaceData.planes]

(* A faulty variant: takes the latest planes along.                        *)
Finished_LatestPlanes ==
  [frame EXCEPT !.surfaces = exchangeSurfaces,
                !.surfacesRef = surfaceReferenceFrameNum,
                !.coefficients = exchangePlanes]

Finished == [frame EXCEPT !.surfaces = exchangeSurfaces,
                          !.surfacesRef = surfaceReferenceFrameNum]

(* Under surfaceMutex; then the observers are notified.                    *)
TakeSurfaces ==
  /\ capture_pc = "surfaces"
  /\ capture_pc' = "idle"
  /\ frame' = Finished
  /\ UNCHANGED <<frameNum, cloud_vars, plane_vars, surface_vars, ransac_vars,
                 cluster_vars>>

-----------------------------------------------------------------------------
(* ransacTask.  Without a new cloud it spins.                              *)

(* Under exchangeCloudMutex.                                               *)
TakeCloud ==
  /\ ransac_pc = "idle"
  /\ newInputCloud
  /\ ransac_pc' = "stamp"
  /\ cloud' = exchangeCloud
  /\ newInputCloud' = FALSE
  /\ UNCHANGED <<capture_vars, frameNum, exchangeCloud, plane_vars, surface_vars,
                 tmpFrameNum, cluster_vars>>

(* A faulty variant: counts the iterations instead.                        *)
Stamp_Iteration == planeCoeffsIteration

Stamp == frameNum

(* Under planeMutex: by now the capture thread may be frames ahead.        *)
TakeStamp ==
  /\ ransac_pc = "stamp"
  /\ ransac_pc' = "publish"
  /\ tmpFrameNum' = Stamp
  /\ UNCHANGED <<capture_vars, frameNum, cloud_vars, plane_vars, surface_vars, cloud,
                 cluster_vars>>

(* A faulty variant: the flag is reset when the planes are there.          *)
FlagAfterRansac_Reset == FALSE

FlagAfterRansac == newInputCloud

(* findSurfaces, and then under planeMutex.                                *)
PublishPlanes ==
  /\ ransac_pc = "publish"
  /\ ransac_pc' = "idle"
  /\ exchangePlanes' = cloud
  /\ planeCoeffsIteration' = planeCoeffsIteration + 1
  /\ planeCoeffsReferenceFrameNum' = tmpFrameNum
  /\ newInputCloud' = FlagAfterRansac
  /\ UNCHANGED <<capture_vars, frameNum, exchangeCloud, surface_vars, cloud, tmpFrameNum,
                 cluster_vars>>

-----------------------------------------------------------------------------
(* clusterTask.  Without planes it spins.                                  *)

(* Under planeMutex.                                                       *)
TakePlanes ==
  /\ cluster_pc = "idle"
  /\ exchangePlanes.planes # {}
  /\ cluster_pc' = "track"
  /\ surfaceData' = [num |-> frameNum, planes |-> exchangePlanes]
  /\ UNCHANGED <<capture_vars, frameNum, cloud_vars, plane_vars, surface_vars,
                 ransac_vars, tracker_vars>>

(* A faulty variant: only surfaces not presented yet are looked for.       *)
Sighted_OnlyNew == surfaceData.planes.planes \ real

Sighted == surfaceData.planes.planes

(* The clusterer, the tracker and the hull detector run in turn, each the  *)
(* observer of the one before; updateSurfaces publishes under surfaceMutex.*)
PublishSurfaces ==
  LET appearing == Tracker!Appearing(Sighted)
      vanishing == Tracker!Vanishing(Sighted)
  IN  /\ cluster_pc = "track"
      /\ cluster_pc' = "idle"
      /\ real' = (real \cup appearing) \ vanishing
      /\ hits' = [p \in Plane |-> IF p \in Sighted \ (real \cup appearing)
                                  THEN hits[p] + 1 ELSE 0]
      /\ misses' = [p \in Plane |-> IF p \in real \ (Sighted \cup vanishing)
                                    THEN misses[p] + 1 ELSE 0]
      /\ exchangeSurfaces' = [planes |-> real', of |-> surfaceData.planes.of]
      /\ surfaceReferenceFrameNum' = surfaceData.num
      /\ UNCHANGED <<capture_vars, frameNum, cloud_vars, plane_vars, ransac_vars,
                     surfaceData>>

-----------------------------------------------------------------------------
Capture    == (\E visible \in SUBSET Plane : TakeCoefficients(visible))
                \/ OfferCloud \/ TakeSurfaces
ransacTask == TakeCloud \/ TakeStamp \/ PublishPlanes
clusterTask == TakePlanes \/ PublishSurfaces

Next == Capture \/ ransacTask \/ clusterTask

Spec == Init /\ [][Next]_vars

(* The threads run; the camera may stop.                                   *)
FairSpec ==
  /\ Spec
  /\ WF_vars(OfferCloud \/ TakeSurfaces)
  /\ WF_vars(ransacTask)
  /\ WF_vars(clusterTask)

-----------------------------------------------------------------------------
(* Properties.                                                             *)

Result == [planes : SUBSET Plane, of : 0 .. MaxFrame]

(* Types of the fields and of the threads' local variables.                *)
TypeOK ==
  /\ frame \in [num : 0 .. MaxFrame, cloud : Result, coefficients : Result,
                coefficientsRef : 0 .. MaxFrame, surfaces : Result,
                surfacesRef : 0 .. MaxFrame]
  /\ capture_pc \in {"idle", "cloud", "surfaces"}
  /\ frameNum \in 1 .. MaxFrame
  /\ exchangeCloud \in Result
  /\ newInputCloud \in BOOLEAN
  /\ exchangePlanes \in Result
  /\ planeCoeffsIteration \in 0 .. MaxFrame
  /\ planeCoeffsReferenceFrameNum \in 0 .. MaxFrame
  /\ exchangeSurfaces \in Result
  /\ surfaceReferenceFrameNum \in 0 .. MaxFrame
  /\ ransac_pc \in {"idle", "stamp", "publish"}
  /\ cloud \in Result
  /\ tmpFrameNum \in 0 .. MaxFrame
  /\ cluster_pc \in {"idle", "track"}
  /\ surfaceData \in [num : 0 .. MaxFrame, planes : Result]
  /\ real \subseteq Plane
  /\ hits \in [Plane -> 0 .. FOUND_LIMIT - 1]
  /\ misses \in [Plane -> 0 .. LOST_LIMIT - 1]

(* A reference number never names a frame older than the one the planes or *)
(* the surfaces stem from, nor one the detector has not seen.              *)
StampsErrForward ==
  /\ exchangePlanes.of <= planeCoeffsReferenceFrameNum
  /\ planeCoeffsReferenceFrameNum <= frameNum
  /\ exchangeSurfaces.of <= surfaceReferenceFrameNum
  /\ surfaceReferenceFrameNum <= frameNum

(* What a frame is given stems from clouds that were handed over before:   *)
(* coefficients from an earlier frame, surfaces from no later one; and     *)
(* surfaces never stem from a cloud whose planes are not out yet.          *)
ResultsAreCausal ==
  /\ frame.num > 0 => frame.coefficients.of < frame.num
  /\ frame.surfaces.of <= frame.num
  /\ exchangeSurfaces.of <= exchangePlanes.of
  /\ planeCoeffsIteration <= exchangePlanes.of

(* No frame is given older planes or surfaces than the frame before.       *)
ResultsNeverGoBack ==
  [][/\ frame.coefficients.of <= frame'.coefficients.of
     /\ frame.surfaces.of <= frame'.surfaces.of]_vars

(* No cloud is overlooked between the threads: its planes are published,   *)
(* or those of a later one.                                                *)
CloudsAreProcessed ==
  \A k \in 1 .. MaxFrame : exchangeCloud.of = k ~> exchangePlanes.of >= k

(* Surfaces settle on the planes that are found, while any are found: when *)
(* the planes stay the same, just they end up being presented.             *)
SurfacesFollowPlanes ==
  \A S \in (SUBSET Plane) \ {{}} :
    <>[](exchangePlanes.planes = S) => <>[](exchangeSurfaces.planes = S)

(* The class comment of SurfaceTracker: it outputs only those surfaces     *)
(* "that have been found in a sufficient number of consecutive frames".    *)
AppearanceIsConfirmed == exchangeSurfaces.planes # {} => frame.num >= FOUND_LIMIT
=============================================================================
