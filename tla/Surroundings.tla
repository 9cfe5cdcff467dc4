----------------------------- MODULE Surroundings -----------------------------
(***************************************************************************)
(* The mixture segmenter, and what surrounds the pipeline, side by side:   *)
(* how it is configured, the source's post filter, a recording played      *)
(* back, the window that shows the results, and the stream of messages to  *)
(* a robot.  Each behaviour is one of one machine, while the variables of  *)
(* the others keep their first values.                                     *)
(***************************************************************************)
EXTENDS MixtureSegmenter

CONSTANTS
  MaxListed,                      (* Configuration                         *)
  ProbCell, Pt1Cell, MaxPoints,   (* PostFilter, for one filter or other   *)
  WIDTH, THRESHOLD, LEEWAY,
  MaxRecorded,                    (* Replay: bounds a recording            *)
  Obstacle, Surface, Clusters,    (* SceneView                             *)
  MaxParts, MaxClouds,
  FrameNumbers, ContentLength,    (* MessageStream                         *)
  HEADER, VISION_HEADER, BUFLEN, MaxPending

(* A header is read before the rest of its message, which has a header of  *)
(* its own; contents may be empty.                                         *)
ASSUME StreamAssumption ==
  /\ HEADER \in Nat \ {0} /\ VISION_HEADER \in Nat \ {0}
  /\ ContentLength \subseteq Nat /\ 0 \in FrameNumbers

(* A cell is included only for points that were seen in it.                *)
ASSUME FilterAssumption == WIDTH \in Nat \ {0} /\ THRESHOLD \in Nat \ {0}

(* A frame has some parts, surfaces and clouds to draw.                    *)
ASSUME SceneAssumption ==
  /\ IsFiniteSet(Obstacle) /\ IsFiniteSet(Surface) /\ IsFiniteSet(Clusters)
  /\ MaxParts \in Nat /\ MaxClouds \in Nat

VARIABLES
  machine,   (* the machine that runs                                      *)
  (* Configuration                                                         *)
  phase, outcome, why, pose_service, sourcePose, enable_rgb, robot,
  wanted, asked, active, segmenter, detector, readsPose, edges,
  (* PostFilter                                                            *)
  kind, all_points, filtered, seenIn, run,
  (* Replay                                                                *)
  clouds, images, poses, playImages, playPoses, cloud, grabbed, pose_idx,
  cloudPose, image,
  (* SceneView                                                             *)
  shape, obsVisData, oldObstacleIDs, mesh, oldHandles, cloudHandles, scene,
  (* MessageStream                                                         *)
  up, frame, out, wire, buf, capacity, total_expected, undelivered, latest

configuration == <<phase, outcome, why, pose_service, sourcePose, enable_rgb, robot,
                   wanted, asked, active, segmenter, detector, readsPose, edges>>
postFilter == <<kind, all_points, filtered, seenIn, run>>
replay == <<clouds, images, poses, playImages, playPoses, cloud, grabbed, pose_idx,
            cloudPose, image>>
sceneView == <<shape, obsVisData, oldObstacleIDs, mesh, oldHandles, cloudHandles, scene>>
stream == <<up, frame, out, wire, buf, capacity, total_expected, undelivered, latest>>

Config == INSTANCE Configuration

Prob == INSTANCE PostFilter WITH Kind <- {"prob"}, Cell <- ProbCell

Pt1 == INSTANCE PostFilter WITH Kind <- {"pt1"}, Cell <- Pt1Cell

Player == INSTANCE Replay WITH
  MaxClouds <- MaxRecorded, enable_rgb <- playImages, enable_pose <- playPoses

Window == INSTANCE SceneView

Stream == INSTANCE MessageStream

Machines == {"mixture", "configuration", "prob", "pt1", "replay", "window", "stream"}

SurroundingsInit ==
  /\ machine \in Machines
  /\ Init
  /\ Config!Init
  /\ IF machine = "pt1" THEN Pt1!Init ELSE Prob!Init
  /\ IF machine = "replay" THEN Player!Init
     ELSE /\ clouds = 0 /\ images = 0 /\ poses = 0 /\ playImages = FALSE
          /\ playPoses = FALSE /\ cloud = 0 /\ grabbed = 0 /\ pose_idx = 0
          /\ cloudPose = 0 /\ image = 0
  /\ Window!Init
  /\ Stream!Init
  /\ machine = "stream" \/ latest.len = 1

RunMixture ==
  /\ machine = "mixture" /\ Next
  /\ UNCHANGED <<machine, configuration, postFilter, replay, sceneView, stream>>

RunConfiguration ==
  /\ machine = "configuration" /\ Config!Next
  /\ UNCHANGED <<machine, vars, postFilter, replay, sceneView, stream>>

RunPostFilter ==
  /\ \/ machine = "prob" /\ Prob!Next
     \/ machine = "pt1" /\ Pt1!Next
  /\ UNCHANGED <<machine, vars, configuration, replay, sceneView, stream>>

RunReplay ==
  /\ machine = "replay" /\ Player!Next
  /\ UNCHANGED <<machine, vars, configuration, postFilter, sceneView, stream>>

RunWindow ==
  /\ machine = "window" /\ Window!Next
  /\ UNCHANGED <<machine, vars, configuration, postFilter, replay, stream>>

RunStream ==
  /\ machine = "stream" /\ Stream!Next
  /\ UNCHANGED <<machine, vars, configuration, postFilter, replay, sceneView>>

SurroundingsNext ==
  RunMixture \/ RunConfiguration \/ RunPostFilter \/ RunReplay \/ RunWindow \/ RunStream

SurroundingsSpec ==
  SurroundingsInit /\
  [][SurroundingsNext]_<<machine, vars, configuration, postFilter, replay, sceneView, stream>>

-----------------------------------------------------------------------------
(* A program that runs gets all its components the frames of the source.   *)
RunningIsConnected == Config!RunningIsConnected

(* Surfaces are detected if and only if the file asks for them.            *)
SurfacesAreDetected == Config!SurfacesAreDetected

(* Points seen often are included, and points never seen are not.          *)
SightingsCount == Prob!SightingsCount

(* The low-pass filter includes what stays and drops what is gone.         *)
LowPassFollows == machine = "pt1" => Pt1!LowPassFollows

(* Images of a recording are played with their clouds.                     *)
ImagesInStep == Player!ImagesInStep

(* The window has the drawings that the visualizer will find again.        *)
SceneIsAccounted == Window!SceneIsAccounted

(* The stream of bytes is a channel of whole messages.                     *)
ImplementsChannel == Stream!ImplementsChannel
=============================================================================
