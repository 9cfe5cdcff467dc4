---------------------------- MODULE Configuration ----------------------------
(***************************************************************************)
(* How the vision pipeline is put together from a configuration file       *)
(* (src/src/config/FileConfigParser.hpp on top of Parser.h): the           *)
(* constructor's phases in their order, what each phase requires of those  *)
(* before it, and which observer it attaches to which subject.  main then  *)
(* opens the source.                                                       *)
(*                                                                         *)
(* What the file says is chosen where it is read.  A component is its      *)
(* name; the file has every type of observer at most once, and one         *)
(* visualizer and one aggregator.                                          *)
(***************************************************************************)
EXTENDS Integers, Sequences, FiniteSets, SequencesExt, FiniteSetsExt

CONSTANT MaxListed  (* bound: point filters in a file                       *)

VARIABLES
  phase,        (* the phase of init that is next                          *)
  outcome,      (* "parsing", "thrown", "crashed" or "running"             *)
  why,          (* what was thrown for, as far as a property tells apart   *)
  pose_service, (* pose_service_: "none", "udp" or "file"                  *)
  sourcePose,   (* whether the raw source gives the frames poses           *)
  enable_rgb,
  robot,        (* whether robot_ is set                                   *)
  wanted,       (* the types of observers still to set up                  *)
  asked,        (* the types of observers in the file                      *)
  active,       (* whether the surface detector was made active            *)
  segmenter,    (* base_obstacle_segmenter_: its method, or "none"         *)
  detector,     (* detector_: the end of the obstacle pipeline, or "none"  *)
  readsPose,    (* whether an observer reads the poses of frames           *)
  edges         (* <<subject, observer>>: who was attached to whom         *)

control == <<phase, outcome, why>>
origin == <<pose_service, sourcePose, enable_rgb, robot>>
pipeline == <<active, segmenter, detector, readsPose>>
request == <<wanted, asked>>
vars == <<control, origin, request, pipeline, edges>>

Phases == <<"pose", "source", "robot", "filtered", "observers", "aggregators",
            "finalize", "open", "first frame">>

NONE == "none"

(* source(): the filtered source, which buildFilteredSource always makes.  *)
SOURCE == "FilteredVideoSource"

RAW == "RawSource"

(* The component is attached somewhere.                                    *)
Exists(c) == \E e \in edges : e[2] = c

-----------------------------------------------------------------------------
Init ==
  /\ phase = 1 /\ outcome = "parsing" /\ why = NONE
  /\ pose_service = NONE /\ sourcePose = FALSE /\ enable_rgb = FALSE /\ robot = FALSE
  /\ wanted = {} /\ asked = {}
  /\ active = FALSE /\ segmenter = NONE /\ detector = NONE /\ readsPose = FALSE
  /\ edges = {}

In(p) == outcome = "parsing" /\ Phases[phase] = p

Advance == phase' = phase + 1 /\ UNCHANGED <<outcome, why>>

(* A requirement that is not met: the constructor throws.                  *)
Throw(reason) ==
  /\ outcome' = "thrown" /\ why' = reason
  /\ UNCHANGED <<phase, origin, request, pipeline, edges>>

(* A null pointer is followed.                                             *)
Crash ==
  /\ outcome' = "crashed"
  /\ UNCHANGED <<phase, why, origin, request, pipeline, edges>>

(* getTomlValue: a required key is missing or has the wrong type, or the   *)
(* type it names is unknown.                                               *)
BadValue ==
  /\ outcome = "parsing" /\ phase <= 6
  /\ Throw("value")

(* initPoseService, if the file has [PoseService].                         *)
InitPoseService ==
  /\ In("pose")
  /\ pose_service' \in {NONE, "udp"}
  /\ Advance
  /\ UNCHANGED <<sourcePose, enable_rgb, robot, request, pipeline, edges>>

(* initRawSource.  stream, pcd and oni take the pose service there is; an  *)
(* am_offline source takes none but the one it brings.                     *)
InitRawSource ==
  /\ In("source")
  /\ enable_rgb' \in BOOLEAN
  /\ \/ sourcePose' = (pose_service # NONE) /\ UNCHANGED pose_service
     \/ sourcePose' = FALSE /\ UNCHANGED pose_service
     \/ pose_service = NONE /\ sourcePose' = TRUE /\ pose_service' = "file"
  /\ Advance
  /\ UNCHANGED <<robot, request, pipeline, edges>>

TwoPoseServices ==
  /\ In("source") /\ pose_service # NONE
  /\ Throw("two pose services")

(* initRobot, if the file has [Robot].                                     *)
InitRobot ==
  /\ In("robot")
  /\ robot' \in {FALSE, pose_service # NONE}
  /\ Advance
  /\ UNCHANGED <<pose_service, sourcePose, enable_rgb, request, pipeline, edges>>

RobotWithoutPose ==
  /\ In("robot") /\ pose_service = NONE
  /\ Throw("no pose service")

-----------------------------------------------------------------------------
(* order() and dependencies() of the point filters.                        *)
Order == [SensorCalibrationFilter |-> -5, BackgroundFilter |-> -4,
          RobotOdoTransformer |-> 0, CropFilter |-> 1, GroundFilter |-> 2]

Filter == DOMAIN Order

Dependencies(f) ==
  IF f \in {"CropFilter", "GroundFilter"} THEN {"RobotOdoTransformer"} ELSE {}

Lists == UNION {{s \in [1 .. n -> Filter] : IsInjective(s)} : n \in 0 .. MaxListed}

(* The order they are applied in.                                          *)
Sorted(list) == SetToSortSeq(ToSet(list), LAMBDA f, g : Order[f] < Order[g])

Missing(list) ==
  \E i \in DOMAIN list : \E d \in Dependencies(list[i]) :
    \A j \in 1 .. i - 1 : list[j] # d

Types == {"SurfaceDetector", "ObstacleDetector", "Recorder", "CameraCalibrator",
          "ARVisualizer"}

(* buildFilteredSource: addFilters makes the filters listed, sorts them,   *)
(* and adds each if what it depends on was added before.  Then addObservers *)
(* reads which observers there are.                                        *)
BuildFilteredSource ==
  /\ In("filtered")
  /\ \E list \in Lists :
       /\ "RobotOdoTransformer" \in ToSet(list) => pose_service # NONE
       /\ ~ Missing(Sorted(list))
  /\ Advance
  /\ wanted' \in SUBSET Types /\ asked' = wanted'
  /\ UNCHANGED <<origin, pipeline, edges>>

FilterWithoutDependency ==
  /\ In("filtered")
  /\ \E list \in Lists : Missing(Sorted(list))
  /\ Throw("dependency")

TransformerWithoutPose ==
  /\ In("filtered") /\ pose_service = NONE
  /\ Throw("no pose service")

-----------------------------------------------------------------------------
(* A faulty variant: obstacles first.                                      *)
TypeOrder_ObstaclesFirst ==
  <<"ObstacleDetector", "SurfaceDetector", "Recorder", "CameraCalibrator", "ARVisualizer">>

(* addObservers sets them up type by type, in the order of type_order.     *)
TypeOrder == <<"SurfaceDetector", "ObstacleDetector", "Recorder", "CameraCalibrator",
               "ARVisualizer">>

Place(type) == CHOOSE i \in DOMAIN TypeOrder : TypeOrder[i] = type

IsNext(type) ==
  /\ In("observers") /\ type \in wanted
  /\ \A other \in wanted : Place(type) <= Place(other)

SetUp(type) ==
  /\ wanted' = wanted \ {type}
  /\ UNCHANGED <<control, origin, asked>>

(* initSurfaceFinder, for the first of the two detectors.                  *)
InitSurfaceFinder(isActive) ==
  active' = IF Exists("SurfaceDetector") THEN active ELSE isActive

(* The surface observers close a loop.                                     *)
InitSurfaceDetector ==
  /\ IsNext("SurfaceDetector")
  /\ InitSurfaceFinder(TRUE)
  /\ edges' = edges \cup
       {<<SOURCE, "SurfaceDetector">>,
        <<"SurfaceDetector", "SurfaceClusterer">>, <<"SurfaceClusterer", "SurfaceTracker">>,
        <<"SurfaceTracker", "ConvexHullDetector">>, <<"ConvexHullDetector", "SurfaceDetector">>}
  /\ SetUp("SurfaceDetector")
  /\ UNCHANGED <<segmenter, detector, readsPose>>

(* initObstacleDetector: one chain, with or without a tracker and a filter *)
(* at its end.                                                             *)
InitObstacleDetector ==
  /\ IsNext("ObstacleDetector")
  /\ InitSurfaceFinder(FALSE)
  /\ \E radius, tracked, filtered \in BOOLEAN :
       LET tracker == IF tracked THEN "LowPassObstacleTracker" ELSE "ObjectApproximator"
       IN  /\ radius => pose_service # NONE
           /\ readsPose' = (readsPose \/ radius)
           /\ detector' = IF filtered THEN "KalmanTrackerFilter" ELSE tracker
           /\ edges' = edges \cup
                {<<SOURCE, "SurfaceDetector">>, <<"SurfaceDetector", "PlaneInlierFinder">>,
                 <<"PlaneInlierFinder", "ObstacleSegmenter">>,
                 <<"ObstacleSegmenter", "ObjectApproximator">>} \cup
                (IF tracked THEN {<<"ObjectApproximator", tracker>>} ELSE {}) \cup
                (IF filtered THEN {<<tracker, "KalmanTrackerFilter">>} ELSE {})
  /\ segmenter' \in {"Euclidean", "GMM"}
  /\ SetUp("ObstacleDetector")

PointFilterWithoutPose ==
  /\ IsNext("ObstacleDetector") /\ pose_service = NONE
  /\ Throw("no pose service")

(* buildSplitStrategy: DistanceThreshold takes the robot, whether there is *)
(* one or not.                                                             *)
DistanceThreshold ==
  /\ IsNext("ObstacleDetector") /\ ~ robot
  /\ Crash

InitRecorder ==
  /\ IsNext("Recorder")
  /\ \E rec_cloud, rec_rgb, rec_pose \in BOOLEAN :
       /\ rec_pose => pose_service # NONE
       /\ readsPose' = (readsPose \/ (rec_pose /\ rec_cloud))
       /\ edges' = edges \cup
            (IF rec_cloud \/ rec_rgb THEN {<<RAW, "VideoRecorder">>} ELSE {})
  /\ SetUp("Recorder")
  /\ UNCHANGED <<active, segmenter, detector>>

RecordPoseWithoutPose ==
  /\ IsNext("Recorder") /\ pose_service = NONE
  /\ Throw("no pose service")

InitCamCalibrator ==
  /\ IsNext("CameraCalibrator")
  /\ edges' = edges \cup {<<SOURCE, "CameraCalibrator">>}
  /\ SetUp("CameraCalibrator")
  /\ UNCHANGED pipeline

-----------------------------------------------------------------------------
(* getVisualizer: what each kind of visualizer requires, and whom it       *)
(* observes.  An ObsSurfVisualizer is one of three by what it shows.       *)
Visualizer == {"CalibratorVisualizer", "ObstacleVisualizer", "SurfaceVisualizer",
               "CloudVisualizer", "GMMTrackingVisualizer", "ImageVisualizer"}

(* A faulty variant: a detector of either kind will do for obstacles.      *)
Required_AnyDetector(v) ==
  CASE v = "CalibratorVisualizer" -> Exists("CameraCalibrator")
    [] v \in {"ObstacleVisualizer", "GMMTrackingVisualizer", "SurfaceVisualizer"} ->
         Exists("SurfaceDetector")
    [] v = "CloudVisualizer" -> TRUE
    [] v = "ImageVisualizer" -> enable_rgb

Required(v) ==
  CASE v = "CalibratorVisualizer" -> Exists("CameraCalibrator")
    [] v \in {"ObstacleVisualizer", "GMMTrackingVisualizer"} -> detector # NONE
    [] v = "SurfaceVisualizer" -> Exists("SurfaceDetector")
    [] v = "CloudVisualizer" -> TRUE
    [] v = "ImageVisualizer" -> enable_rgb

Observed(v) ==
  CASE v \in {"ObstacleVisualizer", "GMMTrackingVisualizer"} -> detector
    [] v = "SurfaceVisualizer" -> "SurfaceDetector"
    [] OTHER -> SOURCE

(* The mixture visualizer also observes the segmenter, cast to a           *)
(* GMMDataSubject, and the image visualizer the images of the raw source.  *)
AlsoObserved(v) ==
  CASE v = "GMMTrackingVisualizer" -> {<<"ObstacleSegmenter", v>>}
    [] v = "ImageVisualizer" -> {<<RAW, v>>}
    [] OTHER -> {}

(* At most one visualizer is listed.                                       *)
GetVisualizer ==
  /\ IsNext("ARVisualizer")
  /\ \/ UNCHANGED edges
     \/ \E v \in Visualizer :
          /\ Required(v)
          /\ v = "GMMTrackingVisualizer" => segmenter = "GMM"
          /\ edges' = edges \cup {<<Observed(v), v>>} \cup AlsoObserved(v)
  /\ SetUp("ARVisualizer")
  /\ UNCHANGED pipeline

VisualizerWithoutSubject ==
  /\ IsNext("ARVisualizer")
  /\ \E v \in Visualizer : ~ Required(v)
  /\ Throw("visualizer")

(* The cast of another segmenter gives null.                               *)
VisualizerOfOtherSegmenter ==
  /\ IsNext("ARVisualizer")
  /\ detector # NONE /\ segmenter = "Euclidean"
  /\ Crash

NoMoreObservers ==
  /\ In("observers") /\ wanted = {}
  /\ Advance
  /\ UNCHANGED <<origin, request, pipeline, edges>>

-----------------------------------------------------------------------------
(* addAggregators and getAggregator; at most one is listed.  An aggregator *)
(* for the robot also counts the images.                                   *)
AddAggregators ==
  /\ In("aggregators")
  /\ \/ UNCHANGED edges
     \/ /\ detector # NONE
        /\ \E a \in {"RobotAggregator", "ObstacleEvaluator", "SurfaceEvaluator"} :
             /\ a = "RobotAggregator" => robot
             /\ edges' = edges \cup {<<detector, a>>} \cup
                           (IF a = "RobotAggregator" THEN {<<RAW, a>>} ELSE {})
  /\ Advance
  /\ UNCHANGED <<origin, request, pipeline>>

AggregatorWithoutDetector ==
  /\ In("aggregators") /\ detector = NONE
  /\ Throw("no detector")

AggregatorWithoutRobot ==
  /\ In("aggregators") /\ detector # NONE /\ ~ robot
  /\ Throw("no robot")

(* ref_volume of an ObstacleEvaluator is read without asking whether it is *)
(* there.                                                                  *)
NoReferenceVolume ==
  /\ In("aggregators") /\ detector # NONE
  /\ Crash

(* The end of the constructor: the pose service, if any, is started.       *)
Finalize ==
  /\ In("finalize")
  /\ Advance
  /\ UNCHANGED <<origin, request, pipeline, edges>>

(* main opens the source, which only now observes the raw source: after    *)
(* all that observe the raw source themselves.                             *)
Open ==
  /\ In("open")
  /\ edges' = edges \cup {<<RAW, SOURCE>>}
  /\ Advance
  /\ UNCHANGED <<origin, request, pipeline>>

(* The observers of the first frame follow its pose without asking.        *)
FirstFrame ==
  /\ In("first frame")
  /\ outcome' = IF readsPose /\ ~ sourcePose THEN "crashed" ELSE "running"
  /\ UNCHANGED <<phase, why, origin, request, pipeline, edges>>

Parse ==
  \/ BadValue \/ InitPoseService \/ InitRawSource \/ TwoPoseServices
  \/ InitRobot \/ RobotWithoutPose
  \/ BuildFilteredSource \/ FilterWithoutDependency \/ TransformerWithoutPose
  \/ InitSurfaceDetector \/ InitObstacleDetector \/ PointFilterWithoutPose
  \/ DistanceThreshold \/ InitRecorder \/ RecordPoseWithoutPose \/ InitCamCalibrator
  \/ GetVisualizer \/ VisualizerWithoutSubject \/ VisualizerOfOtherSegmenter
  \/ NoMoreObservers \/ AddAggregators \/ AggregatorWithoutDetector
  \/ AggregatorWithoutRobot \/ NoReferenceVolume \/ Finalize

Next == Parse \/ Open \/ FirstFrame

Spec == Init /\ [][Next]_vars

-----------------------------------------------------------------------------
Running == outcome = "running"

(* The components that the raw source leads to: as many steps as there are *)
(* pairs are enough.                                                       *)
Reached ==
  LET reached[n \in 0 .. Cardinality(edges)] ==
        IF n = 0 THEN {RAW}
        ELSE LET before == reached[n - 1]
             IN  before \cup {e[2] : e \in {f \in edges : f[1] \in before}}
  IN  reached[Cardinality(edges)]

(* When the program runs, every component that was set up gets the frames  *)
(* of the raw source, over however many subjects: nothing observes what    *)
(* was never set up, and what each phase requires of those before it is    *)
(* enough.                                                                 *)
RunningIsConnected == Running => {e[2] : e \in edges} \subseteq Reached

(* When the program runs, the surface detector detects surfaces exactly if *)
(* the file asks for them, although a file that asks for obstacles alone   *)
(* sets up the same detector, once, to remove the ground.                  *)
SurfacesAreDetected == Running => (active <=> "SurfaceDetector" \in asked)
=============================================================================
