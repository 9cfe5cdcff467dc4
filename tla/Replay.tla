------------------------------- MODULE Replay -------------------------------
(***************************************************************************)
(* A recording played back over and over                                   *)
(* (src/src/lepp3/util/OfflineVideoSource.hpp and                          *)
(* src/src/lola/pose/PoseFileService.cpp).  Clouds, images and poses are   *)
(* numbered as the recorder wrote them; a recorder that was stopped in     *)
(* between has left one cloud more than poses or images.                   *)
(*                                                                         *)
(* The PCD grabber begins again after the last cloud by itself; the image  *)
(* capture and the pose service do so each in their own way.               *)
(***************************************************************************)
EXTENDS Integers

CONSTANT MaxClouds     (* bounds the length of a recording                 *)

VARIABLES
  clouds, images, poses,  (* how many of each the recording has            *)
  enable_rgb,             (* VideoSource.enable_rgb: images are played     *)
  enable_pose,            (* VideoSource.enable_pose: poses are played     *)
  cloud,                  (* the cloud the grabber delivered last          *)
  grabbed,                (* images the capture has handed out this time   *)
  pose_idx,               (* pose_idx_, as a residue of poses              *)
  cloudPose,              (* the pose the last frame got, 0 for none       *)
  image                   (* the image delivered with it, 0 for none       *)

vars == <<clouds, images, poses, enable_rgb, enable_pose, cloud, grabbed, pose_idx,
          cloudPose, image>>

recording == <<clouds, images, poses, enable_rgb, enable_pose>>

Init ==
  /\ clouds \in 2 .. MaxClouds
  /\ images \in {clouds - 1, clouds}
  /\ poses \in {clouds - 1, clouds}
  /\ enable_rgb \in BOOLEAN /\ enable_pose \in BOOLEAN
  /\ cloud = 0 /\ grabbed = 0 /\ pose_idx = 0 /\ cloudPose = 0 /\ image = 0

(* The PCD grabber's loop.                                                 *)
NextCloud == (cloud % clouds) + 1

(* PoseFileService::triggerNextFrame and getCurrentPose, which takes the   *)
(* index modulo the number of poses.                                       *)
NextPose == IF enable_pose THEN (pose_idx + 1) % poses ELSE pose_idx

CurrentPose == IF enable_pose THEN pose_idx' + 1 ELSE 0

(* A faulty variant: it is set back, but does not grab again; retrieve     *)
(* gives the last image once more.                                         *)
NextGrab_Once == IF grabbed = images THEN 0 ELSE grabbed + 1

(* grab fails at the end; the capture is set back and grabs again.         *)
NextGrab == IF grabbed = images THEN 1 ELSE grabbed + 1

Retrieved == IF grabbed' = 0 THEN images ELSE grabbed'

(* cloud_cb_: the frame gets its pose and goes to the observers, then the  *)
(* image does.                                                             *)
CloudCb ==
  /\ cloud' = NextCloud
  /\ pose_idx' = NextPose
  /\ cloudPose' = CurrentPose
  /\ grabbed' = IF enable_rgb THEN NextGrab ELSE grabbed
  /\ image' = IF enable_rgb THEN Retrieved ELSE 0
  /\ UNCHANGED recording

Next == CloudCb

Spec == Init /\ [][Next]_vars
-----------------------------------------------------------------------------
(* A recording with as many images as clouds is played in step however     *)
(* often it begins again, although clouds and images begin again each by   *)
(* themselves.                                                             *)
ImagesInStep == image # 0 /\ images = clouds => image = cloud
=============================================================================
