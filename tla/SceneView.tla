------------------------------ MODULE SceneView ------------------------------
(***************************************************************************)
(* What ObsSurfVisualizer (src/src/lepp3/visualization) keeps in the scene *)
(* of its ARVisualizer window: drawings of the parts of obstacles, found   *)
(* again by the id of the part; drawings of surfaces, found again by a     *)
(* handle that travels in the SurfaceModel; and the clouds of obstacles,   *)
(* found again by their place in a list.                                   *)
(*                                                                         *)
(* A part's id is made from the id the segmenter gave the obstacle in that *)
(* frame, here its cluster.  The tracker gives an obstacle an id that      *)
(* lasts, but not its parts, and hands an obstacle it did not see for a    *)
(* while on as it last was.  The three handles of an obstacle's drawing    *)
(* (model, velocity, trajectory) come and go together and are one here.    *)
(***************************************************************************)
EXTENDS Integers, Sequences, FiniteSets, SequencesExt

CONSTANTS
  Obstacle,    (* what the tracker tells apart                             *)
  Surface,     (* the same for surfaces                                    *)
  Clusters,    (* 1 .. n: the clusters of a frame                          *)
  MaxParts,    (* bounds the parts of an obstacle                          *)
  MaxClouds    (* bounds the clouds of a frame                             *)

VARIABLES
  shape,          (* obstacle -> cluster and parts of its latest model     *)
  obsVisData,     (* part -> the handle of its drawing                     *)
  oldObstacleIDs, (* the parts that were visited in the last frame         *)
  mesh,           (* SurfaceModel::mh_ of the surfaces in the frame        *)
  oldHandles,     (* the handles of the surfaces of the last frame         *)
  cloudHandles,   (* obstacleCloudHandles                                  *)
  scene           (* the handles the window has drawings for               *)

vars == <<shape, obsVisData, oldObstacleIDs, mesh, oldHandles, cloudHandles, scene>>

(* The window (external) gives a handle out again once it is removed.      *)
Handle == 1 .. Cardinality(Clusters) * MaxParts + Cardinality(Obstacle) * MaxParts
                 + 2 * Cardinality(Surface) + MaxClouds

FreeHandle(drawn) == CHOOSE h \in Handle \ drawn : \A g \in Handle \ drawn : h <= g

-----------------------------------------------------------------------------
(* The parts that accept takes a visitor to, in the order of the list.     *)
Visits(list, shapes) ==
  FlattenSeq([i \in DOMAIN list |->
    [k \in 1 .. shapes[list[i]].parts |-> <<shapes[list[i]].cluster, k>>]])

(* ModelDrawer::visitSphere and visitCapsule: a part that is known by its  *)
(* id is updated, with its trajectory.                                     *)
Visit(s, part) ==
  IF part \in DOMAIN s.data THEN s
  ELSE LET h == FreeHandle(s.scene)
       IN  [data |-> [p \in DOMAIN s.data \cup {part} |-> IF p = part THEN h ELSE s.data[p]],
            scene |-> s.scene \cup {h}]

(* The end of drawObstacles.  A part that the list has twice is removed    *)
(* once: the second time the map makes a drawing without handles.          *)
RemoveGone(s, gone) ==
  [data |-> [p \in DOMAIN s.data \ gone |-> s.data[p]],
   scene |-> s.scene \ {s.data[p] : p \in gone}]

(* A faulty variant: only the first one is looked at.                      *)
Gone_First(old, seen) == IF old = <<>> THEN {} ELSE {old[1]} \ seen

(* Which parts of the last frame are gone.                                 *)
Gone(old, seen) == ToSet(old) \ seen

(* SurfaceDrawer::visitSurface                                             *)
VisitSurface(s, surface) ==
  IF s.mesh[surface] = -1
  THEN LET h == FreeHandle(s.scene)
       IN  [mesh |-> [s.mesh EXCEPT ![surface] = h],
            scene |-> s.scene \cup {h}, visible |-> s.visible \cup {h}]
  ELSE [s EXCEPT !.visible = @ \cup {s.mesh[surface]}]

(* drawObstacleClouds: one handle per cloud, those beyond are removed; all *)
(* are when clouds are not to be shown.                                    *)
Clouds(n, drawn) ==
  LET kept == {i \in DOMAIN cloudHandles : i <= n}
      Add(s, i) ==
        LET h == IF i \in kept THEN cloudHandles[i] ELSE FreeHandle(s.scene)
        IN  [handles |-> Append(s.handles, h), scene |-> s.scene \cup {h}]
      shown == FoldLeft(Add, [handles |-> <<>>, scene |-> drawn], [i \in 1 .. n |-> i])
  IN  [shown EXCEPT !.scene = @ \ {cloudHandles[i] : i \in DOMAIN cloudHandles \ kept}]

-----------------------------------------------------------------------------
Init ==
  /\ shape = [o \in {} |-> 0]
  /\ obsVisData = [p \in {} |-> 0] /\ oldObstacleIDs = <<>>
  /\ mesh = [s \in {} |-> 0] /\ oldHandles = {}
  /\ cloudHandles = <<>> /\ scene = {}

(* The obstacles in a frame with the models they have: those seen in it    *)
(* are each in a cluster of its own, the others must have a model.         *)
NewShapes(list, found) ==
  {[o \in ToSet(list) |-> IF o \in found THEN s[o] ELSE shape[o]] :
     s \in {t \in [found -> [cluster : Clusters, parts : 0 .. MaxParts]] :
              \A o, p \in found : t[o].cluster = t[p].cluster => o = p}}

(* The surfaces in a frame and the handles they come with.  A surface that *)
(* is new has none, nor does one whose model was made from an earlier one  *)
(* before that was drawn: its tracker runs on a thread of its own.         *)
NewMeshes(surfaces) ==
  {[s \in surfaces |-> IF s \in drawn THEN mesh[s] ELSE -1] :
     drawn \in SUBSET (surfaces \cap DOMAIN mesh)}

(* updateFrame                                                             *)
UpdateFrame(list, shapes, meshes, clouds) ==
  LET visits   == Visits(list, shapes)
      drawn    == FoldLeft(Visit, [data |-> obsVisData, scene |-> scene], visits)
      seen     == ToSet(visits)
      left     == RemoveGone(drawn, Gone(oldObstacleIDs, seen))
      surfaces == FoldLeft(VisitSurface, [mesh |-> meshes, scene |-> left.scene, visible |-> {}],
                           SetToSeq(DOMAIN meshes))
      ending   == Clouds(clouds, surfaces.scene \ (oldHandles \ surfaces.visible))
  IN  /\ shape' = shapes
      /\ obsVisData' = left.data
      /\ oldObstacleIDs' = visits
      /\ mesh' = surfaces.mesh
      /\ oldHandles' = surfaces.visible
      /\ cloudHandles' = ending.handles
      /\ scene' = ending.scene

(* The order of the obstacles makes no difference but to the handles.      *)
Next ==
  \E list \in {SetToSeq(S) : S \in SUBSET Obstacle}, surfaces \in SUBSET Surface,
     clouds \in 0 .. MaxClouds :
    \E found \in SUBSET ToSet(list) :
      /\ ToSet(list) \ found \subseteq DOMAIN shape
      /\ \E shapes \in NewShapes(list, found), meshes \in NewMeshes(surfaces) :
           UpdateFrame(list, shapes, meshes, clouds)

Spec == Init /\ [][Next]_vars
-----------------------------------------------------------------------------
(* After every frame the window has exactly the drawings that the          *)
(* visualizer will find again, each for one thing: none is left behind and *)
(* none is missing, although parts of two obstacles may have one id, and   *)
(* a surface may have lost its handle.                                     *)
SceneIsAccounted ==
  LET ofParts == {obsVisData[p] : p \in DOMAIN obsVisData}
      ofClouds == ToSet(cloudHandles)
  IN  /\ scene = ofParts \cup oldHandles \cup ofClouds
      /\ Cardinality(scene) = Cardinality(DOMAIN obsVisData) + Cardinality(DOMAIN mesh)
                                + Len(cloudHandles)
      /\ oldHandles = {mesh[s] : s \in DOMAIN mesh}
      /\ DOMAIN obsVisData = ToSet(oldObstacleIDs)
=============================================================================
