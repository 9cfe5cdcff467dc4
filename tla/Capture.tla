------------------------------- MODULE Capture -------------------------------
(***************************************************************************)
(* How a frame comes into being and how it is recorded.  The grabber's     *)
(* depth thread numbers each cloud and gives it the robot's pose           *)
(* (GrabberVideoSource.hpp, VideoSource.hpp), which the pose service's own *)
(* thread receives (PoseUdpService.cpp); the grabber's image thread hands  *)
(* on images meanwhile.  Both grabber threads call VideoRecorder.hpp,      *)
(* whose lock cloud_lk_ is a plain bool.                                   *)
(*                                                                         *)
(* A pose is the number of the datagram it came with, 0 the zero pose      *)
(* getCurrentPose makes up when there is none.  Datagrams of the wrong     *)
(* size change nothing and are left out.                                   *)
(***************************************************************************)
EXTENDS Integers

CONSTANTS
  MaxFrame,     (* bounds the clouds                                       *)
  MaxPose,      (* bounds the datagrams                                    *)
  MaxImage      (* bounds the images recorded                              *)

(* A cloud can be followed by two recorded images: the lock is set again   *)
(* after its pose was saved.  Images never run out while clouds wait.      *)
ASSUME CaptureAssumption ==
  /\ MaxFrame \in Nat
  /\ MaxPose \in Nat
  /\ MaxImage \in Nat /\ MaxImage >= 2 * MaxFrame

VARIABLES
  mode,         (* which of "cloud", "rgb" and "pose" are recorded         *)
  frameCount,   (* the grabber's counter, read by both its threads         *)
  cloud_pc,     (* where the depth thread is                               *)
  frame,        (* FrameData: its number, its pose, and what had arrived   *)
  previous,     (* the frame before                                        *)
  pose,         (* PoseUdpService::pose_                                   *)
  received,     (* PoseUdpService::received_pose_                          *)
  spare,        (* the pointer a swap holds half way through               *)
  arrived,      (* datagrams that arrived so far                           *)
  torn,         (* received_pose_ was assigned during a swap               *)
  image_pc,     (* where the image thread is                               *)
  image_num,    (* frame number of the image at hand                       *)
  cloud_lk,     (* VideoRecorder::cloud_lk_                                *)
  cloud_idx, image_idx, params_idx,
                (* indices of the files written last                       *)
  saved         (* frame number of the cloud recorded last                 *)

source_vars == <<frameCount, cloud_pc, frame, previous>>
pose_vars == <<pose, received, spare, arrived, torn>>
image_vars == <<image_pc, image_num>>
recorder_vars == <<cloud_lk, cloud_idx, image_idx, params_idx, saved>>

vars == <<mode, source_vars, pose_vars, image_vars, recorder_vars>>

Pose == 0 .. MaxPose

NoFrame == [num |-> 0, pose |-> 0, seen |-> 0]

(* The indices are incremented before they are used.                       *)
FirstIndex == -1

Init ==
  (* initRecorder subscribes to clouds and images as they are recorded.    *)
  /\ mode \in SUBSET {"cloud", "rgb", "pose"} /\ mode \cap {"cloud", "rgb"} # {}
  /\ frameCount = 0
  /\ cloud_pc = "idle" /\ image_pc = "idle"
  /\ frame = NoFrame /\ previous = NoFrame
  /\ pose = 0 /\ received = 0 /\ spare = 0 /\ arrived = 0
  /\ torn = FALSE
  /\ image_num = 0
  /\ cloud_lk = FALSE
  /\ cloud_idx = FirstIndex /\ image_idx = FirstIndex /\ params_idx = FirstIndex
  /\ saved = 0

-----------------------------------------------------------------------------
(* The pose service.  A swap of two shared pointers is not atomic, whatever*)
(* the comments say; an assignment in its midst is a data race.            *)

(* read_handler                                                            *)
Datagram ==
  /\ arrived < MaxPose
  /\ arrived' = arrived + 1
  /\ received' = arrived + 1
  /\ torn' = (torn \/ cloud_pc = "swap")
  /\ UNCHANGED <<mode, source_vars, pose, spare, image_vars, recorder_vars>>

(* A faulty variant: triggerNextFrame moves received_pose_.                *)
Returned_Nothing == 0

(* What a swap leaves in received_pose_.                                   *)
Returned == spare

(* triggerNextFrame, first half                                            *)
BeginSwap ==
  /\ cloud_pc = "trigger"
  /\ spare' = pose
  /\ pose' = received
  /\ cloud_pc' = "swap"
  /\ UNCHANGED <<mode, frameCount, frame, previous, received, arrived, torn,
                 image_vars, recorder_vars>>

(* triggerNextFrame, second half                                           *)
EndSwap ==
  /\ cloud_pc = "swap"
  /\ received' = Returned
  /\ cloud_pc' = "params"
  /\ UNCHANGED <<mode, frameCount, frame, previous, pose, spare, arrived, torn,
                 image_vars, recorder_vars>>

(* After a race the pointer and its reference count may belong to different*)
(* poses, and what is read is any of them.                                 *)
PosesRead == IF torn THEN 0 .. arrived ELSE {pose}

-----------------------------------------------------------------------------
(* The depth thread.                                                       *)

(* cloud_cb_                                                               *)
CloudArrives ==
  /\ cloud_pc = "idle" /\ "cloud" \in mode
  /\ frameCount < MaxFrame
  /\ frameCount' = frameCount + 1
  /\ frame' = [num |-> frameCount + 1, pose |-> 0, seen |-> arrived]
  /\ previous' = frame
  /\ cloud_pc' = "trigger"
  /\ UNCHANGED <<mode, pose_vars, image_vars, recorder_vars>>

(* setNextFrame, with getParams                                            *)
GiveParams ==
  /\ cloud_pc = "params"
  /\ \E p \in PosesRead : frame' = [frame EXCEPT !.pose = p]
  /\ cloud_pc' = "notify"
  /\ UNCHANGED <<mode, frameCount, previous, pose_vars, image_vars, recorder_vars>>

(* A faulty variant: a cloud does not wait for the chain to be completed.  *)
MayRecordCloud_Always == TRUE

MayRecordCloud == ~cloud_lk

(* A faulty variant: the pose, too, is recorded only when not locked.      *)
RecordsPose_Unlocked == mode \cap {"pose", "rgb"} = {"pose"}

RecordsPose == "pose" \in mode

(* updateFrame of the recorder: the cloud.  Only the image thread resets   *)
(* the lock, and only when it found it set, so that nothing happens to the *)
(* recorder between the check and the lock.                                *)
RecordCloud ==
  /\ cloud_pc = "notify"
  /\ IF MayRecordCloud
     THEN /\ cloud_idx' = cloud_idx + 1
          /\ saved' = frame.num
          /\ cloud_lk' = ("rgb" \in mode)
          /\ cloud_pc' = IF RecordsPose THEN "pose" ELSE "idle"
     ELSE /\ cloud_pc' = "idle"
          /\ UNCHANGED <<cloud_idx, saved, cloud_lk>>
  /\ UNCHANGED <<mode, frameCount, frame, previous, pose_vars, image_vars,
                 image_idx, params_idx>>

(* updateFrame of the recorder: the pose.  The lock is set once more.      *)
RecordPose ==
  /\ cloud_pc = "pose"
  /\ params_idx' = params_idx + 1
  /\ cloud_lk' = (cloud_lk \/ "rgb" \in mode)
  /\ cloud_pc' = "idle"
  /\ UNCHANGED <<mode, frameCount, frame, previous, pose_vars, image_vars,
                 cloud_idx, image_idx, saved>>

-----------------------------------------------------------------------------
(* The image thread.                                                       *)

(* image_cb_ reads the depth thread's counter.                             *)
ImageArrives ==
  /\ image_pc = "idle" /\ "rgb" \in mode
  /\ image_idx + 1 < MaxImage
  /\ image_num' = frameCount
  /\ image_pc' = "notify"
  /\ UNCHANGED <<mode, source_vars, pose_vars, recorder_vars>>

(* A faulty variant: the image is saved whether a cloud waits or not.      *)
MayRecordImage_Always == TRUE

(* The lock is set when images are all there is to record.                 *)
MayRecordImage == cloud_lk \/ mode = {"rgb"}

(* updateFrame of the recorder, up to the end of saveImage                 *)
RecordImage ==
  /\ image_pc = "notify"
  /\ IF MayRecordImage
     THEN /\ image_idx' = image_idx + 1
          /\ cloud_lk' = TRUE
          /\ image_pc' = "release"
     ELSE /\ image_pc' = "idle"
          /\ UNCHANGED <<image_idx, cloud_lk>>
  /\ UNCHANGED <<mode, source_vars, pose_vars, image_num, cloud_idx, params_idx, saved>>

(* A faulty variant: the end of the chain releases no lock.                *)
LockAfterImage_Kept == cloud_lk

LockAfterImage == FALSE

(* updateFrame of the recorder, the end of the chain                       *)
ReleaseLock ==
  /\ image_pc = "release"
  /\ cloud_lk' = LockAfterImage
  /\ image_pc' = "idle"
  /\ UNCHANGED <<mode, source_vars, pose_vars, image_num, cloud_idx, image_idx,
                 params_idx, saved>>

-----------------------------------------------------------------------------
DepthThread == BeginSwap \/ EndSwap \/ GiveParams \/ RecordCloud \/ RecordPose
ImageThread == ImageArrives \/ RecordImage \/ ReleaseLock

Next == Datagram \/ CloudArrives \/ DepthThread \/ ImageThread

(* A callback that began comes to its end, and the camera goes on sending  *)
(* images; clouds and datagrams may cease to come.                         *)
Fairness == WF_vars(DepthThread) /\ WF_vars(ImageThread)

Spec == Init /\ [][Next]_vars /\ Fairness

-----------------------------------------------------------------------------
Index == -1 .. frameCount - 1

(* Type correctness: the fields of the source, the pose service and the    *)
(* recorder hold numbers of frames, datagrams and files that can exist.    *)
TypeOK ==
  /\ mode \in SUBSET {"cloud", "rgb", "pose"}
  /\ frameCount \in 0 .. MaxFrame
  /\ cloud_pc \in {"idle", "trigger", "swap", "params", "notify", "pose"}
  /\ {frame, previous} \subseteq [num : 0 .. frameCount, pose : Pose, seen : Pose]
  /\ {pose, received, spare, arrived} \subseteq Pose
  /\ torn \in BOOLEAN
  /\ image_pc \in {"idle", "notify", "release"}
  /\ image_num \in 0 .. frameCount
  /\ cloud_lk \in BOOLEAN
  /\ cloud_idx \in Index /\ params_idx \in Index
  /\ image_idx \in -1 .. MaxImage - 1
  /\ saved \in 0 .. frameCount

(* When clouds and images are recorded, the next cloud waits for the image *)
(* of the last one, in whatever order the threads run; when poses are not  *)
(* recorded as well, neither is there an image ahead of its cloud, so that *)
(* files of the same number belong together (VideoRecorder.hpp:175, :214). *)
CloudsAndImagesInStep ==
  /\ {"cloud", "rgb"} \subseteq mode => image_idx >= cloud_idx - 1
  /\ mode = {"cloud", "rgb"} => image_idx <= cloud_idx

(* Whatever the image thread does, each recorded cloud has its line in     *)
(* params.txt under the same number once its updateFrame has returned.     *)
PosesFollowClouds ==
  "pose" \in mode => params_idx = IF cloud_pc = "pose" THEN cloud_idx - 1 ELSE cloud_idx

(* An image is recorded with a cloud of its own frame or an earlier one, or*)
(* of the very next one when that came while the image was being converted:*)
(* however long image_cb_ takes, the lock keeps later clouds out.          *)
PairIsClose ==
  image_pc = "release" /\ "cloud" \in mode => image_num >= saved - 1

(* A pose that arrived in time is given to a frame or was given to the     *)
(* frame before, although swapping the pointers brings old poses back      *)
(* (PoseUdpService.cpp:87-89).                                             *)
TwoFramesCatchUp ==
  cloud_pc = "notify" /\ ~torn => frame.pose >= frame.seen \/ previous.pose >= frame.seen

(* The recorder never stops for good: a cloud that holds the lock is       *)
(* followed by an image that releases it.                                  *)
LockIsReleased == cloud_lk ~> ~cloud_lk

(* What PoseUdpService.hpp:123-127 says of pose_: it is synchronous to the *)
(* captured cloud, that is no older than what had arrived before the cloud.*)
PoseIsCurrent ==
  cloud_pc = "notify" /\ ~torn => frame.pose >= frame.seen
=============================================================================
