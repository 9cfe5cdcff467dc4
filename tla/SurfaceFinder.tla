---------------------------- MODULE SurfaceFinder ----------------------------
(***************************************************************************)
(* SurfaceFinder::findSurfaces (src/src/lepp3/SurfaceFinder.hpp): planes   *)
(* are taken out of a cloud one after the other, first those of the last   *)
(* frame, if EXPERIMENTAL_ENABLE_SURFACE_REUSE is set, then those RANSAC   *)
(* finds, and each is merged with a similar one found before it.           *)
(*                                                                         *)
(* Planes and points are seen from the side.  A plane is the height at     *)
(* which it meets the z-axis, its tilt in degrees, and whether its normal  *)
(* points up or down; a point is <<x, z, number>>.  Lengths along x are in *)
(* units of 57 of those along z, so that a degree of tilt is a rise by one *)
(* per unit: planes are at most 15 degrees from level (setEpsAngle), where *)
(* that is right within three percent.  RANSAC (external) is free in which *)
(* plane it proposes and which of the points near it it takes.             *)
(***************************************************************************)
EXTENDS Integers, Sequences, FiniteSets, FiniteSetsExt, SequencesExt

CONSTANTS
  Clouds,              (* the clouds of frames: sets of <<x, z, number>>   *)
  Plane,               (* records with fields tilt, up and height          *)
  DEVIATION_ANGLE,
  SAME_HEIGHT,         (* 0.01: heights closer than this are the same      *)
  DISTANCE_THRESHOLD,  (* of RANSAC                                        *)
  REUSE_THRESHOLD,     (* 0.04: of the search for old planes               *)
  MIN_REUSE,           (* 1000: the points an old plane must have          *)
  REST,                (* MIN_FILTER_PERCENTAGE is 1 / REST                *)
  MaxFrames            (* bounds the frames                                *)

VARIABLES
  surfaceDetectorActive,
  reuse,                    (* EXPERIMENTAL_ENABLE_SURFACE_REUSE           *)
  frames,                   (* the number of frames so far                 *)
  original,                 (* the cloud as it was handed over             *)
  cloud,                    (* what is left of it                          *)
  planes,                   (* the points of each plane found              *)
  planeCoefficients,        (* and the planes                              *)
  previous_plane_coeffs,
  searching                 (* "old", "new", or "no": findSurfaces is over *)

vars == <<surfaceDetectorActive, reuse, frames, original, cloud, planes,
          planeCoefficients, previous_plane_coeffs, searching>>

Away(a, b) == IF a < b THEN b - a ELSE a - b

(* The height of a plane at x.                                             *)
At(p, x) == p.height + p.tilt * x

(* Points within a distance of a plane.  It is measured along z, which for *)
(* planes this level is at most four percent more than to the plane.       *)
Near(p, points, threshold) == {q \in points : Away(q[2], At(p, q[1])) <= threshold}

(* The angle between the normals.                                          *)
getAngle(p, q) ==
  IF p.up = q.up THEN Away(p.tilt, q.tilt) ELSE 180 - Away(p.tilt, q.tilt)

(* A faulty variant: planes at any height.                                 *)
SameSurface_AnyHeight(p, q) ==
  getAngle(p, q) < DEVIATION_ANGLE \/ getAngle(p, q) > 180 - DEVIATION_ANGLE

(* A faulty variant: normals that point in opposite directions.            *)
SameSurface_Oriented(p, q) ==
  getAngle(p, q) < DEVIATION_ANGLE /\ Away(p.height, q.height) < SAME_HEIGHT

(* Whether the planes have almost the same tilt and height on the z-axis.  *)
SameSurface(p, q) ==
  /\ getAngle(p, q) < DEVIATION_ANGLE \/ getAngle(p, q) > 180 - DEVIATION_ANGLE
  /\ Away(p.height, q.height) < SAME_HEIGHT

(* The product of two parallel unit vectors may be rounded to more than 1, *)
(* acos of which is no number: no comparison holds then.                   *)
Parallel(p, q) == getAngle(p, q) \in {0, 180}

FoundSimilar(p, i) ==
  {SameSurface(p, planeCoefficients[i])}
    \cup (IF Parallel(p, planeCoefficients[i]) THEN {FALSE} ELSE {})

(* classify: the first similar plane gets the points.                      *)
Classify(p, points) ==
  \E similar \in {s \in [DOMAIN planes -> BOOLEAN] : \A i \in DOMAIN planes : s[i] \in FoundSimilar(p, i)} :
    IF \E i \in DOMAIN planes : similar[i]
    THEN LET i == SelectInSeq(similar, LAMBDA s : s)
         IN  /\ planes' = [planes EXCEPT ![i] = @ \cup points]
             /\ UNCHANGED planeCoefficients
    ELSE /\ planes' = Append(planes, points)
         /\ planeCoefficients' = Append(planeCoefficients, p)

(* extract with setNegative(true)                                          *)
Without(points) == cloud \ points

-----------------------------------------------------------------------------
Init ==
  /\ surfaceDetectorActive \in BOOLEAN
  /\ reuse \in BOOLEAN
  /\ frames = 0
  /\ original = {}
  /\ cloud = {}
  /\ planes = <<>>
  /\ planeCoefficients = <<>>
  /\ previous_plane_coeffs = <<>>
  /\ searching = "no"

(* A new cloud.  Without reuse the old planes are forgotten at once.       *)
FindSurfaces(c) ==
  /\ searching = "no"
  /\ frames < MaxFrames
  /\ frames' = frames + 1
  /\ original' = c
  /\ cloud' = c
  /\ planes' = <<>>
  /\ planeCoefficients' = <<>>
  /\ searching' = "old"
  /\ previous_plane_coeffs' = IF reuse THEN previous_plane_coeffs ELSE <<>>
  /\ UNCHANGED <<surfaceDetectorActive, reuse>>

(* One turn of the first loop: the next of the old planes is looked for,   *)
(* and taken if it has enough points.                                      *)
ReusePlane ==
  /\ searching = "old"
  /\ previous_plane_coeffs # <<>>
  /\ LET p      == Head(previous_plane_coeffs)
         points == Near(p, cloud, REUSE_THRESHOLD)
     IN  IF Cardinality(points) < MIN_REUSE
         THEN UNCHANGED <<cloud, planes, planeCoefficients>>
         ELSE Classify(p, points) /\ cloud' = Without(points)
  /\ previous_plane_coeffs' = Tail(previous_plane_coeffs)
  /\ UNCHANGED <<surfaceDetectorActive, reuse, frames, original, searching>>

(* The old planes are through: they are cleared, those found anew follow.  *)
StartRansac ==
  /\ searching = "old"
  /\ previous_plane_coeffs = <<>>
  /\ searching' = "new"
  /\ UNCHANGED <<surfaceDetectorActive, reuse, frames, original, cloud, planes,
                 planeCoefficients, previous_plane_coeffs>>

MorePoints == Cardinality(cloud) > Cardinality(original) \div REST

FindPlane(p) ==
  /\ searching = "new"
  /\ MorePoints
  /\ \E points \in (SUBSET Near(p, cloud, DISTANCE_THRESHOLD)) \ {{}} :
       Classify(p, points) /\ cloud' = Without(points)
  /\ previous_plane_coeffs' = Append(previous_plane_coeffs, p)
  /\ UNCHANGED <<surfaceDetectorActive, reuse, frames, original, searching>>

(* removeNonGroundCoefficients: the plane whose points have the smallest   *)
(* mean height; the first of several.                                      *)
Heights(points) == FoldSet(LAMBDA q, sum : sum + q[2], 0, points)

Lower(i, j) ==
  Heights(planes[i]) * Cardinality(planes[j]) < Heights(planes[j]) * Cardinality(planes[i])

Ground ==
  LET lowest[i \in DOMAIN planes] ==
        IF i = 1 THEN 1
        ELSE IF Lower(i, lowest[i - 1]) THEN i ELSE lowest[i - 1]
  IN  lowest[Len(planes)]

(* Few points are left, or RANSAC finds no plane in them.                  *)
EndSearch ==
  /\ searching = "new"
  /\ searching' = "no"
  /\ IF surfaceDetectorActive \/ planes = <<>>
     THEN UNCHANGED <<planes, planeCoefficients>>
     ELSE /\ planes' = <<planes[Ground]>>
          /\ planeCoefficients' = <<planeCoefficients[Ground]>>
  /\ UNCHANGED <<surfaceDetectorActive, reuse, frames, original, cloud, previous_plane_coeffs>>

Next ==
  \/ \E c \in Clouds : FindSurfaces(c)
  \/ ReusePlane
  \/ StartRansac
  \/ \E p \in Plane : FindPlane(p)
  \/ EndSearch

Spec == Init /\ [][Next]_vars

-----------------------------------------------------------------------------
(* How far a point at x may be from the plane that stands for those it is  *)
(* with: it was near a plane that was similar to it on the z-axis, but may *)
(* have had another tilt, which counts for more the farther away it is.    *)
Margin(x) ==
  (IF reuse THEN Max({DISTANCE_THRESHOLD, REUSE_THRESHOLD}) ELSE DISTANCE_THRESHOLD)
    + SAME_HEIGHT + DEVIATION_ANGLE * Away(x, 0)

(* While planes are searched for, each point of the cloud is in one plane  *)
(* or left, and, although planes were merged and old ones used again, it   *)
(* is as near the one plane that stands for those it is with as planes     *)
(* that are taken for the same surface are alike.                          *)
PointsKeepTheirPlane ==
  /\ Len(planes) = Len(planeCoefficients)
  /\ \A i \in DOMAIN planes :
       /\ planes[i] # {}
       /\ planes[i] \subseteq original \ cloud
       /\ \A q \in planes[i] : Away(q[2], At(planeCoefficients[i], q[1])) <= Margin(q[1])
       /\ \A j \in DOMAIN planes \ {i} : planes[i] \cap planes[j] = {}
  /\ searching # "no" => original = cloud \cup UNION ToSet(planes)

(* "Merge planes that have almost the same normal vector and               *)
(* z-intersection" (src/src/lepp3/SurfaceFinder.hpp:72): of the planes     *)
(* that are handed on no two are that similar, but for parallel ones.      *)
PlanesDiffer ==
  \A i, j \in DOMAIN planeCoefficients :
    i # j =>
      LET p == planeCoefficients[i]
          q == planeCoefficients[j]
      IN  \/ Parallel(p, q)
          \/ Min({getAngle(p, q), 180 - getAngle(p, q)}) >= DEVIATION_ANGLE
          \/ Away(p.height, q.height) >= SAME_HEIGHT
=============================================================================
