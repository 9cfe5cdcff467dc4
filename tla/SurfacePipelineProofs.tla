------------------------ MODULE SurfacePipelineProofs ------------------------
(***************************************************************************)
(* The exchange between SurfaceDetector's threads, for any number of       *)
(* frames and planes and any limits: what stems from which frame.          *)
(***************************************************************************)
EXTENDS SurfacePipeline, TLAPS

(* A cloud moves on from the frame to exchangeCloud, to ransacTask, to     *)
(* exchangePlanes, to clusterTask, to exchangeSurfaces; at each place the  *)
(* frame number is at most that of the place before.                       *)
InOrder ==
  /\ frameNum = IF frame.num = 0 THEN 1 ELSE frame.num
  /\ frame.cloud.of = frame.num
  /\ exchangeCloud.of <= frame.num
  /\ cloud.of <= exchangeCloud.of
  /\ exchangePlanes.of <= cloud.of
  /\ surfaceData.planes.of <= exchangePlanes.of
  /\ exchangeSurfaces.of <= surfaceData.planes.of
  /\ frame.coefficients.of <= exchangePlanes.of
  /\ frame.surfaces.of <= exchangeSurfaces.of

(* Where a thread has news for the next one, the number is smaller.        *)
News ==
  /\ capture_pc = "cloud" => exchangeCloud.of < frame.num
  /\ newInputCloud => cloud.of < exchangeCloud.of
  /\ ransac_pc # "idle" => exchangePlanes.of < cloud.of

(* The stamps on the way.                                                  *)
Stamps ==
  /\ ransac_pc = "publish" => cloud.of <= tmpFrameNum
  /\ tmpFrameNum <= frameNum
  /\ surfaceData.planes.of <= surfaceData.num
  /\ surfaceData.num <= frameNum

IInv ==
  /\ TypeOK
  /\ InOrder
  /\ News
  /\ Stamps
  /\ StampsErrForward
  /\ ResultsAreCausal

(* The invariant holds before the first frame.                             *)
LEMMA InitInv == Init => IInv
<1> SUFFICES ASSUME Init PROVE IInv
  OBVIOUS
<1> USE PipelineAssumption DEF Init, Nothing
<1>1. TypeOK
  <2>1. [planes |-> {}, of |-> 0] \in Result
    BY DEF Result
  <2>2. frame \in [num : 0 .. MaxFrame, cloud : Result, coefficients : Result,
                   coefficientsRef : 0 .. MaxFrame, surfaces : Result,
                   surfacesRef : 0 .. MaxFrame]
    BY <2>1
  <2>3. surfaceData \in [num : 0 .. MaxFrame, planes : Result]
    BY <2>1
  <2>4. hits \in [Plane -> 0 .. FOUND_LIMIT - 1] /\ misses \in [Plane -> 0 .. LOST_LIMIT - 1]
    OBVIOUS
  <2>5. /\ exchangeCloud \in Result /\ exchangePlanes \in Result
        /\ exchangeSurfaces \in Result /\ cloud \in Result
    BY <2>1
  <2>6. /\ frameNum \in 1 .. MaxFrame
        /\ planeCoeffsIteration \in 0 .. MaxFrame
        /\ planeCoeffsReferenceFrameNum \in 0 .. MaxFrame
        /\ surfaceReferenceFrameNum \in 0 .. MaxFrame
        /\ tmpFrameNum \in 0 .. MaxFrame
    OBVIOUS
  <2>7. /\ capture_pc \in {"idle", "cloud", "surfaces"}
        /\ ransac_pc \in {"idle", "stamp", "publish"}
        /\ cluster_pc \in {"idle", "track"}
        /\ newInputCloud \in BOOLEAN
        /\ real \subseteq Plane
    OBVIOUS
  <2> HIDE DEF Init, Nothing
  <2>8. QED
    BY <2>2, <2>3, <2>4, <2>5, <2>6, <2>7 DEF TypeOK
<1>2. InOrder
  BY DEF InOrder
<1>3. News /\ Stamps /\ StampsErrForward /\ ResultsAreCausal
  BY DEF News, Stamps, StampsErrForward, ResultsAreCausal
<1>4. QED
  BY <1>1, <1>2, <1>3 DEF IInv

(* The fields that hold frame numbers hold naturals.                       *)
LEMMA Numbers ==
  ASSUME TypeOK
  PROVE  /\ frame.num \in Nat /\ frameNum \in Nat
         /\ frame.cloud.of \in Nat /\ frame.coefficients.of \in Nat
         /\ frame.surfaces.of \in Nat
         /\ exchangeCloud.of \in Nat /\ cloud.of \in Nat
         /\ exchangePlanes.of \in Nat /\ exchangeSurfaces.of \in Nat
         /\ surfaceData.num \in Nat /\ surfaceData.planes.of \in Nat
         /\ tmpFrameNum \in Nat /\ planeCoeffsIteration \in Nat
         /\ planeCoeffsReferenceFrameNum \in Nat
         /\ surfaceReferenceFrameNum \in Nat
BY PipelineAssumption DEF TypeOK, Result

(* Every critical section of every thread preserves it.                    *)
LEMMA StepInv == IInv /\ [Next]_vars => IInv'
<1> SUFFICES ASSUME IInv, [Next]_vars PROVE IInv'
  OBVIOUS
<1> USE DEF IInv, InOrder, News, Stamps, StampsErrForward, ResultsAreCausal
<1>0. TypeOK
  OBVIOUS
<1>1. ASSUME NEW visible \in SUBSET Plane, TakeCoefficients(visible)
      PROVE  IInv'
  <2> USE <1>1 DEF TakeCoefficients, cloud_vars, plane_vars, surface_vars,
                   ransac_vars, cluster_vars, tracker_vars
  <2>1. /\ frame'.num = frame.num + 1
        /\ frame'.cloud = [planes |-> visible, of |-> frame.num + 1]
        /\ frame'.coefficients = exchangePlanes
        /\ frame'.surfaces = frame.surfaces
    BY DEF TypeOK
  <2>2. TypeOK'
    <3>1. frame.num + 1 \in 0 .. MaxFrame /\ frame.num + 1 \in 1 .. MaxFrame
      BY Numbers, PipelineAssumption
    <3>2. [planes |-> visible, of |-> frame.num + 1] \in Result
      BY <3>1 DEF Result
    <3>3. frame' \in [num : 0 .. MaxFrame, cloud : Result, coefficients : Result,
                      coefficientsRef : 0 .. MaxFrame, surfaces : Result,
                      surfacesRef : 0 .. MaxFrame]
      BY <3>1, <3>2 DEF TypeOK
    <3>4. frameNum' \in 1 .. MaxFrame
      BY <3>1
    <3>5. QED
      BY <3>3, <3>4 DEF TypeOK
  <2>3. (InOrder /\ News /\ Stamps /\ StampsErrForward /\ ResultsAreCausal)'
    BY <2>1, Numbers
  <2>4. QED
    BY <2>2, <2>3
<1>2. ASSUME OfferCloud PROVE IInv'
  <2> USE <1>2 DEF OfferCloud, plane_vars, surface_vars, ransac_vars, cluster_vars,
                   tracker_vars
  <2>1. TypeOK'
    BY DEF TypeOK
  <2>2. QED
    BY <2>1, Numbers
<1>3. ASSUME TakeSurfaces PROVE IInv'
  <2> USE <1>3 DEF TakeSurfaces, Finished, cloud_vars, plane_vars, surface_vars,
                   ransac_vars, cluster_vars, tracker_vars
  <2>1. /\ frame'.num = frame.num
        /\ frame'.cloud = frame.cloud
        /\ frame'.coefficients = frame.coefficients
        /\ frame'.surfaces = exchangeSurfaces
    BY DEF TypeOK
  <2>2. TypeOK'
    BY DEF TypeOK
  <2>3. (InOrder /\ News /\ Stamps /\ StampsErrForward /\ ResultsAreCausal)'
    BY <2>1, Numbers
  <2>4. QED
    BY <2>2, <2>3
<1>4. ASSUME TakeCloud PROVE IInv'
  <2> USE <1>4 DEF TakeCloud, capture_vars, plane_vars, surface_vars, cluster_vars,
                   tracker_vars
  <2>1. TypeOK'
    BY DEF TypeOK
  <2>2. QED
    BY <2>1, Numbers
<1>5. ASSUME TakeStamp PROVE IInv'
  <2> USE <1>5 DEF TakeStamp, Stamp, capture_vars, cloud_vars, plane_vars, surface_vars,
                   cluster_vars, tracker_vars
  <2>1. TypeOK'
    BY DEF TypeOK
  <2>2. QED
    BY <2>1, Numbers
<1>6. ASSUME PublishPlanes PROVE IInv'
  <2> USE <1>6 DEF PublishPlanes, FlagAfterRansac, capture_vars, surface_vars,
                   cluster_vars, tracker_vars
  <2>1. planeCoeffsIteration' <= cloud.of /\ cloud.of <= MaxFrame
    BY Numbers DEF TypeOK, Result
  <2>2. TypeOK'
    BY <2>1, Numbers, PipelineAssumption DEF TypeOK
  <2>3. QED
    BY <2>2, Numbers
<1>7. ASSUME TakePlanes PROVE IInv'
  <2> USE <1>7 DEF TakePlanes, capture_vars, cloud_vars, plane_vars, surface_vars,
                   ransac_vars, tracker_vars
  <2>1. TypeOK'
    BY DEF TypeOK
  <2>2. QED
    BY <2>1, Numbers
<1>8. ASSUME PublishSurfaces PROVE IInv'
  <2> USE <1>8 DEF PublishSurfaces, capture_vars, cloud_vars, plane_vars, ransac_vars
  <2> DEFINE appearing == Tracker!Appearing(Sighted)
             vanishing == Tracker!Vanishing(Sighted)
  <2>1. Sighted \subseteq Plane
    BY DEF Sighted, TypeOK, Result
  <2>2. /\ appearing = {p \in Sighted \ real : hits[p] + 1 >= FOUND_LIMIT}
        /\ vanishing = {p \in real \ Sighted : misses[p] + 1 >= LOST_LIMIT}
    BY DEF Tracker!Appearing, Tracker!Vanishing
  <2>3. real' = (real \cup appearing) \ vanishing
    OBVIOUS
  <2>4. real' \subseteq Plane
    BY <2>1, <2>2, <2>3 DEF TypeOK
  <2>5. hits' \in [Plane -> 0 .. FOUND_LIMIT - 1]
    <3>1. hits' = [p \in Plane |-> IF p \in Sighted \ (real \cup appearing)
                                   THEN hits[p] + 1 ELSE 0]
      OBVIOUS
    <3>2. ASSUME NEW p \in Plane
          PROVE  (IF p \in Sighted \ (real \cup appearing) THEN hits[p] + 1 ELSE 0)
                   \in 0 .. FOUND_LIMIT - 1
      BY <2>2, PipelineAssumption DEF TypeOK
    <3>3. QED
      BY <3>1, <3>2
  <2>6. misses' \in [Plane -> 0 .. LOST_LIMIT - 1]
    <3>1. misses' = [p \in Plane |-> IF p \in real \ (Sighted \cup vanishing)
                                     THEN misses[p] + 1 ELSE 0]
      OBVIOUS
    <3>2. ASSUME NEW p \in Plane
          PROVE  (IF p \in real \ (Sighted \cup vanishing) THEN misses[p] + 1 ELSE 0)
                   \in 0 .. LOST_LIMIT - 1
      BY <2>2, PipelineAssumption DEF TypeOK
    <3>3. QED
      BY <3>1, <3>2
  <2>7. exchangeSurfaces' = [planes |-> real', of |-> surfaceData.planes.of]
    OBVIOUS
  <2>8. exchangeSurfaces' \in Result
    BY <2>4, <2>7 DEF Result, TypeOK
  <2>9. TypeOK'
    BY <2>4, <2>5, <2>6, <2>8 DEF TypeOK
  <2>10. QED
    BY <2>7, <2>9, Numbers
<1>9. CASE UNCHANGED vars
  BY <1>9 DEF vars, capture_vars, cloud_vars, plane_vars, surface_vars, ransac_vars,
              cluster_vars, tracker_vars, TypeOK
<1>10. QED
  BY <1>1, <1>2, <1>3, <1>4, <1>5, <1>6, <1>7, <1>8, <1>9
     DEF Next, Capture, ransacTask, clusterTask

(* The inductive invariant holds throughout.                               *)
THEOREM Invariance == Spec => []IInv
<1>1. Init => IInv
  BY InitInv
<1>2. IInv /\ [Next]_vars => IInv'
  BY StepInv
<1>3. QED
  BY <1>1, <1>2, PTL DEF Spec

(* The fields and the threads' locals keep their types.                    *)
THEOREM TypeCorrect == Spec => []TypeOK
<1>1. IInv => TypeOK
  BY DEF IInv
<1>2. QED
  BY <1>1, Invariance, PTL

(* The reference frame numbers err forward only, and never past the frame  *)
(* the detector is at.                                                     *)
THEOREM StampsOnlyErrForward == Spec => []StampsErrForward
<1>1. IInv => StampsErrForward
  BY DEF IInv
<1>2. QED
  BY <1>1, Invariance, PTL

(* What a frame is given stems from what the threads had before it.        *)
THEOREM Causality == Spec => []ResultsAreCausal
<1>1. IInv => ResultsAreCausal
  BY DEF IInv
<1>2. QED
  BY <1>1, Invariance, PTL

(* Only the capture thread gives a frame anything: coefficients when it    *)
(* begins, surfaces when it ends, both at least as new as the last ones.   *)
LEMMA FrameGoesForward ==
  ASSUME IInv, [Next]_vars
  PROVE  /\ frame.coefficients.of <= frame'.coefficients.of
         /\ frame.surfaces.of <= frame'.surfaces.of
<1>1. TypeOK /\ InOrder
  BY DEF IInv
<1>2. ASSUME NEW visible \in SUBSET Plane, TakeCoefficients(visible)
      PROVE  frame'.coefficients = exchangePlanes /\ frame'.surfaces = frame.surfaces
  BY <1>1, <1>2 DEF TakeCoefficients, TypeOK
<1>3. ASSUME TakeSurfaces
      PROVE  frame'.coefficients = frame.coefficients /\ frame'.surfaces = exchangeSurfaces
  BY <1>1, <1>3 DEF TakeSurfaces, Finished, TypeOK
<1>4. CASE frame' = frame
  BY <1>1, <1>4, Numbers
<1>5. ASSUME OfferCloud \/ ransacTask \/ clusterTask \/ UNCHANGED vars
      PROVE  frame' = frame
  BY <1>5 DEF OfferCloud, ransacTask, TakeCloud, TakeStamp, PublishPlanes, clusterTask,
              TakePlanes, PublishSurfaces, capture_vars, vars
<1>6. QED
  BY <1>1, <1>2, <1>3, <1>4, <1>5, Numbers DEF Next, Capture, InOrder

(* The frames are never given older results than the frame before.         *)
THEOREM NeverGoesBack == Spec => ResultsNeverGoBack
<1>1. IInv /\ [Next]_vars =>
        [/\ frame.coefficients.of <= frame'.coefficients.of
         /\ frame.surfaces.of <= frame'.surfaces.of]_vars
  BY FrameGoesForward
<1>2. QED
  BY <1>1, Invariance, PTL DEF Spec, ResultsNeverGoBack
=============================================================================
