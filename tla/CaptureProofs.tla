---------------------------- MODULE CaptureProofs ----------------------------
(***************************************************************************)
(* The depth thread, the image thread and the pose service, for any number *)
(* of frames, poses and images: what is recorded together belongs together,*)
(* and poses are late by at most one frame.                                *)
(***************************************************************************)
EXTENDS Capture, TLAPS

(* The depth thread's cloud is the newest one, and until it is looked at   *)
(* one index less is in use than there were clouds.                        *)
CloudAtHand ==
  /\ frame.num = frameCount
  /\ cloud_pc \notin {"idle", "pose"} => cloud_idx + 1 < frameCount
  /\ cloud_pc = "pose" => "pose" \in mode
  /\ "pose" \notin mode => params_idx = -1
  /\ "cloud" \notin mode => cloud_pc = "idle" /\ cloud_idx = -1
  /\ "rgb" \notin mode => image_pc = "idle" /\ ~cloud_lk
  /\ image_pc = "notify" => image_idx + 1 < MaxImage

(* The images recorded that a cloud has not been waiting for: while the    *)
(* lock is set and no image was saved for it, one is missing.              *)
ImagesDue ==
  IF cloud_lk /\ image_pc # "release" THEN cloud_idx - 1 ELSE cloud_idx

LockTellsImages ==
  /\ image_pc = "release" => cloud_lk
  /\ {"cloud", "rgb"} \subseteq mode => image_idx >= ImagesDue
  /\ mode = {"cloud", "rgb"} => image_idx = ImagesDue

(* While the recorder is not locked, each cloud is recorded: the image     *)
(* that is being converted then is at most one frame behind.               *)
ImageIsClose ==
  "cloud" \in mode =>
    /\ image_pc # "idle" => image_num >= saved - 1
    /\ image_pc = "notify" /\ ~cloud_lk =>
         /\ image_num >= frame.num - 1
         /\ cloud_pc \in {"idle", "pose"} => image_num >= frame.num

(* Of the two pointers (three, half way through a swap) one has the newest *)
(* pose, and the last frame was given the other.                           *)
NewestPoseIsKept ==
  ~torn =>
    /\ arrived = pose \/ arrived = IF cloud_pc = "swap" THEN spare ELSE received
    /\ cloud_pc \in {"idle", "notify", "pose"} => frame.pose = pose
    /\ cloud_pc = "trigger" => previous.pose = pose
    /\ cloud_pc \in {"swap", "params", "notify"} =>
         pose >= frame.seen \/ previous.pose >= frame.seen

IInv ==
  /\ TypeOK
  /\ frame.seen <= arrived
  /\ CloudAtHand
  /\ PosesFollowClouds
  /\ LockTellsImages
  /\ ImageIsClose
  /\ NewestPoseIsKept

(* The invariant holds before the first cloud.                             *)
LEMMA InitInv == Init => IInv
<1> SUFFICES ASSUME Init PROVE IInv
  OBVIOUS
<1> USE CaptureAssumption DEF Init, NoFrame, FirstIndex
<1>1. TypeOK
  <2>1. {frame, previous} \subseteq [num : 0 .. frameCount, pose : Pose, seen : Pose]
    BY DEF Pose
  <2>2. {pose, received, spare, arrived} \subseteq Pose
    BY DEF Pose
  <2>3. /\ cloud_idx \in Index /\ params_idx \in Index
        /\ image_idx \in -1 .. MaxImage - 1
    BY DEF Index
  <2>4. /\ mode \in SUBSET {"cloud", "rgb", "pose"}
        /\ frameCount \in 0 .. MaxFrame /\ image_num \in 0 .. frameCount
        /\ saved \in 0 .. frameCount
        /\ cloud_pc = "idle" /\ image_pc = "idle" /\ torn = FALSE /\ cloud_lk = FALSE
    OBVIOUS
  <2> HIDE DEF Init
  <2>5. QED
    BY <2>1, <2>2, <2>3, <2>4 DEF TypeOK
<1>2. frame.seen <= arrived /\ CloudAtHand /\ PosesFollowClouds
  BY DEF CloudAtHand, PosesFollowClouds
<1>3. LockTellsImages /\ ImageIsClose /\ NewestPoseIsKept
  BY DEF LockTellsImages, ImagesDue, ImageIsClose, NewestPoseIsKept
<1>4. QED
  BY <1>1, <1>2, <1>3 DEF IInv

(* The types are preserved.                                                *)
LEMMA TypeStep == IInv /\ [Next]_vars => TypeOK'
<1> SUFFICES ASSUME IInv, [Next]_vars PROVE TypeOK'
  OBVIOUS
<1> USE CaptureAssumption DEF IInv, TypeOK, Pose, Index, CloudAtHand,
       PosesFollowClouds, source_vars, pose_vars, image_vars, recorder_vars
<1>1. CASE Datagram
  BY <1>1 DEF Datagram
<1>2. CASE CloudArrives
  BY <1>2 DEF CloudArrives
<1>3. CASE BeginSwap
  BY <1>3 DEF BeginSwap
<1>4. CASE EndSwap
  BY <1>4 DEF EndSwap, Returned
<1>5. CASE GiveParams
  BY <1>5 DEF GiveParams, PosesRead
<1>6. CASE RecordCloud
  <2>1. CASE cloud_lk
    BY <1>6, <2>1 DEF RecordCloud, MayRecordCloud
  <2>2. CASE ~cloud_lk
    <3>1. cloud_lk' \in BOOLEAN
      BY <1>6, <2>2 DEF RecordCloud, MayRecordCloud
    <3>2. cloud_idx' \in Index' /\ saved' \in 0 .. frameCount'
      BY <1>6, <2>2 DEF RecordCloud, MayRecordCloud
    <3>3. cloud_pc' \in {"idle", "pose"}
      BY <1>6, <2>2 DEF RecordCloud, MayRecordCloud
    <3>4. UNCHANGED <<mode, frameCount, frame, previous, pose_vars, image_vars,
                      image_idx, params_idx>>
      BY <1>6 DEF RecordCloud
    <3>5. QED
      BY <3>1, <3>2, <3>3, <3>4
  <2>3. QED
    BY <2>1, <2>2
<1>7. CASE RecordPose
  BY <1>7 DEF RecordPose
<1>8. CASE ImageArrives
  BY <1>8 DEF ImageArrives
<1>9. CASE RecordImage
  <2>1. CASE MayRecordImage
    BY <1>9, <2>1 DEF RecordImage
  <2>2. CASE ~MayRecordImage
    BY <1>9, <2>2 DEF RecordImage
  <2>3. QED
    BY <2>1, <2>2
<1>10. CASE ReleaseLock
  BY <1>10 DEF ReleaseLock, LockAfterImage
<1>11. CASE UNCHANGED vars
  BY <1>11 DEF vars
<1>12. QED
  BY <1>1, <1>2, <1>3, <1>4, <1>5, <1>6, <1>7, <1>8, <1>9, <1>10, <1>11
  DEF Next, DepthThread, ImageThread

(* The depth thread's indices stay in step.                                *)
LEMMA CloudStep ==
  IInv /\ [Next]_vars => (frame.seen <= arrived /\ CloudAtHand /\ PosesFollowClouds)'
<1> SUFFICES ASSUME IInv, [Next]_vars
             PROVE  (frame.seen <= arrived /\ CloudAtHand /\ PosesFollowClouds)'
  OBVIOUS
<1> USE CaptureAssumption DEF IInv, TypeOK, Pose, Index, CloudAtHand,
       PosesFollowClouds, source_vars, pose_vars, image_vars, recorder_vars
<1>1. CASE Datagram
  BY <1>1 DEF Datagram
<1>2. CASE CloudArrives
  BY <1>2 DEF CloudArrives
<1>3. CASE BeginSwap
  BY <1>3 DEF BeginSwap
<1>4. CASE EndSwap
  BY <1>4 DEF EndSwap, Returned
<1>5. CASE GiveParams
  BY <1>5 DEF GiveParams, PosesRead
<1>6. CASE RecordCloud
  BY <1>6 DEF RecordCloud, MayRecordCloud, RecordsPose
<1>7. CASE RecordPose
  BY <1>7 DEF RecordPose
<1>8. CASE ImageArrives
  BY <1>8 DEF ImageArrives
<1>9. CASE RecordImage
  BY <1>9 DEF RecordImage, MayRecordImage
<1>10. CASE ReleaseLock
  BY <1>10 DEF ReleaseLock, LockAfterImage
<1>11. CASE UNCHANGED vars
  BY <1>11 DEF vars
<1>12. QED
  BY <1>1, <1>2, <1>3, <1>4, <1>5, <1>6, <1>7, <1>8, <1>9, <1>10, <1>11
  DEF Next, DepthThread, ImageThread

(* The lock goes on telling whether an image is due.                       *)
LEMMA LockStep == IInv /\ [Next]_vars => LockTellsImages'
<1> SUFFICES ASSUME IInv, [Next]_vars PROVE LockTellsImages'
  OBVIOUS
<1> USE CaptureAssumption DEF IInv, TypeOK, Index, CloudAtHand, LockTellsImages, ImagesDue,
       source_vars, pose_vars, image_vars, recorder_vars
<1>1. CASE Datagram
  BY <1>1 DEF Datagram
<1>2. CASE CloudArrives
  BY <1>2 DEF CloudArrives
<1>3. CASE BeginSwap
  BY <1>3 DEF BeginSwap
<1>4. CASE EndSwap
  BY <1>4 DEF EndSwap, Returned
<1>5. CASE GiveParams
  BY <1>5 DEF GiveParams, PosesRead
<1>6. CASE RecordCloud
  <2>1. CASE cloud_lk
    BY <1>6, <2>1 DEF RecordCloud, MayRecordCloud
  <2>2. CASE ~cloud_lk /\ "rgb" \in mode
    <3>1. cloud_lk' = TRUE
      BY <1>6, <2>2 DEF RecordCloud, MayRecordCloud
    <3>2. /\ cloud_idx' = cloud_idx + 1
          /\ UNCHANGED <<mode, image_pc, image_idx>>
      BY <1>6, <2>2 DEF RecordCloud, MayRecordCloud
    <3>3. QED
      BY <2>2, <3>1, <3>2
  <2>3. CASE ~cloud_lk /\ "rgb" \notin mode
    BY <1>6, <2>3 DEF RecordCloud, MayRecordCloud
  <2>4. QED
    BY <2>1, <2>2, <2>3
<1>7. CASE RecordPose
  BY <1>7 DEF RecordPose
<1>8. CASE ImageArrives
  BY <1>8 DEF ImageArrives
<1>9. CASE RecordImage
  BY <1>9 DEF RecordImage, MayRecordImage
<1>10. CASE ReleaseLock
  BY <1>10 DEF ReleaseLock, LockAfterImage
<1>11. CASE UNCHANGED vars
  BY <1>11 DEF vars
<1>12. QED
  BY <1>1, <1>2, <1>3, <1>4, <1>5, <1>6, <1>7, <1>8, <1>9, <1>10, <1>11
  DEF Next, DepthThread, ImageThread

(* The image at hand stays close to the cloud recorded.                    *)
LEMMA ImageStep == IInv /\ [Next]_vars => ImageIsClose'
<1> SUFFICES ASSUME IInv, [Next]_vars PROVE ImageIsClose'
  OBVIOUS
<1> USE CaptureAssumption DEF IInv, TypeOK, Index, CloudAtHand, LockTellsImages, ImageIsClose,
       source_vars, pose_vars, image_vars, recorder_vars
<1>1. CASE Datagram
  BY <1>1 DEF Datagram
<1>2. CASE CloudArrives
  BY <1>2 DEF CloudArrives
<1>3. CASE BeginSwap
  BY <1>3 DEF BeginSwap
<1>4. CASE EndSwap
  BY <1>4 DEF EndSwap, Returned
<1>5. CASE GiveParams
  BY <1>5 DEF GiveParams, PosesRead
<1>6. CASE RecordCloud
  BY <1>6 DEF RecordCloud, MayRecordCloud, RecordsPose
<1>7. CASE RecordPose
  BY <1>7 DEF RecordPose
<1>8. CASE ImageArrives
  BY <1>8 DEF ImageArrives
<1>9. CASE RecordImage
  BY <1>9 DEF RecordImage, MayRecordImage
<1>10. CASE ReleaseLock
  BY <1>10 DEF ReleaseLock, LockAfterImage
<1>11. CASE UNCHANGED vars
  BY <1>11 DEF vars
<1>12. QED
  BY <1>1, <1>2, <1>3, <1>4, <1>5, <1>6, <1>7, <1>8, <1>9, <1>10, <1>11
  DEF Next, DepthThread, ImageThread

(* The newest pose is not lost.                                            *)
LEMMA PoseStep == IInv /\ [Next]_vars => NewestPoseIsKept'
<1> SUFFICES ASSUME IInv, [Next]_vars PROVE NewestPoseIsKept'
  OBVIOUS
<1> USE CaptureAssumption DEF IInv, TypeOK, Pose, CloudAtHand, NewestPoseIsKept,
       source_vars, pose_vars, image_vars, recorder_vars
<1>1. CASE Datagram
  BY <1>1 DEF Datagram
<1>2. CASE CloudArrives
  BY <1>2 DEF CloudArrives
<1>3. CASE BeginSwap
  BY <1>3 DEF BeginSwap
<1>4. CASE EndSwap
  BY <1>4 DEF EndSwap, Returned
<1>5. CASE GiveParams
  BY <1>5 DEF GiveParams, PosesRead
<1>6. CASE RecordCloud
  BY <1>6 DEF RecordCloud, MayRecordCloud, RecordsPose
<1>7. CASE RecordPose
  BY <1>7 DEF RecordPose
<1>8. CASE ImageArrives
  BY <1>8 DEF ImageArrives
<1>9. CASE RecordImage
  BY <1>9 DEF RecordImage, MayRecordImage
<1>10. CASE ReleaseLock
  BY <1>10 DEF ReleaseLock, LockAfterImage
<1>11. CASE UNCHANGED vars
  BY <1>11 DEF vars
<1>12. QED
  BY <1>1, <1>2, <1>3, <1>4, <1>5, <1>6, <1>7, <1>8, <1>9, <1>10, <1>11
  DEF Next, DepthThread, ImageThread

(* The inductive invariant holds in every reachable state of the capture.  *)
THEOREM Invariance == Spec => []IInv
<1>1. IInv /\ [Next]_vars => IInv'
  BY TypeStep, CloudStep, LockStep, ImageStep, PoseStep DEF IInv
<1>2. QED
  BY <1>1, InitInv, PTL DEF Spec

(* The types of the source, the pose service and the recorder.             *)
THEOREM TypeCorrect == Spec => []TypeOK
<1>1. IInv => TypeOK
  BY DEF IInv
<1>2. QED
  BY <1>1, Invariance, PTL

(* Clouds wait for images, and images for clouds, whatever the order in    *)
(* which the camera's threads call the recorder.                           *)
THEOREM StaysInStep == Spec => []CloudsAndImagesInStep
<1>1. IInv => CloudsAndImagesInStep
  BY DEF IInv, CloudsAndImagesInStep, LockTellsImages, ImagesDue, TypeOK, Index
<1>2. QED
  BY <1>1, Invariance, PTL

(* Each recorded cloud has its pose.                                       *)
THEOREM PosesAreRecorded == Spec => []PosesFollowClouds
<1>1. IInv => PosesFollowClouds
  BY DEF IInv
<1>2. QED
  BY <1>1, Invariance, PTL

(* An image is recorded with a cloud at most one frame newer.              *)
THEOREM PairsAreClose == Spec => []PairIsClose
<1>1. IInv => PairIsClose
  BY DEF IInv, PairIsClose, ImageIsClose
<1>2. QED
  BY <1>1, Invariance, PTL

(* Without a race on the pointers, no pose is late by more than one frame. *)
THEOREM PosesCatchUp == Spec => []TwoFramesCatchUp
<1>1. IInv => TwoFramesCatchUp
  BY DEF IInv, TwoFramesCatchUp, NewestPoseIsKept
<1>2. QED
  BY <1>1, Invariance, PTL
=============================================================================
