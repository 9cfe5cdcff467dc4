----------------------- MODULE LowPassObstacleTracker -----------------------
(***************************************************************************)
(* The obstacle tracker of lepp3 (src/src/lepp3/LowPassObstacleTracker.hpp)*)
(*                                                                         *)
(* Once per camera frame updateFrame receives the obstacles approximated   *)
(* from that frame, matches each to the nearest model it tracks, and hands *)
(* on the models it holds to be real instead.  All the steps of            *)
(* updateFrame run on the capture thread, one after the other, so that one *)
(* frame is one action.                                                    *)
(*                                                                         *)
(* A model is abstracted to a member of Model: what distance and blending  *)
(* tell apart.  The linked list materialized_models_ is kept as the number *)
(* of copies of each id in it; its order is of no consequence here.        *)
(***************************************************************************)
EXTENDS Integers, FiniteSets, FiniteSetsExt, Sequences, Functions

CONSTANTS
  Model,          (* the shapes and places an obstacle can have            *)
  Distance,       (* Distance[<<a, b>>]: squared distance of the centres   *)
  Blend,          (* Blend[<<a, b>>]: a moved half way towards b           *)
  MATCH_DISTANCE, (* two models further apart are never matched (0.05)     *)
  FOUND_LIMIT,    (* 8 in the code                                         *)
  LOST_LIMIT,     (* 12 in the code                                        *)
  REFRESH,        (* every REFRESH-th frame replaces the shapes (30)       *)
  MAX_ID,         (* largest model_id_t; bounds next_model_id_             *)
  MaxObstacles    (* bound on the obstacles detected in one frame          *)

ASSUME LimitsAssumption ==
  /\ FOUND_LIMIT \in Nat \ {0}
  /\ LOST_LIMIT \in Nat \ {0}
  /\ REFRESH \in Nat \ {0}
  /\ MAX_ID \in Nat
  /\ MaxObstacles \in Nat

ASSUME GeometryAssumption ==
  /\ MATCH_DISTANCE \in Nat
  /\ Distance \in [Model \X Model -> Nat]
  /\ Blend \in [Model \X Model -> Model]

VARIABLES
  next_model_id,       (* next_model_id_                                   *)
  tracked_models,      (* tracked_models_: id -> model                     *)
  frames_found,        (* frames_found_: id -> frames it was found in      *)
  frames_lost,         (* frames_lost_: id -> frames it was missing in     *)
  materialized_models, (* materialized_models_: copies of each id in it    *)
  model_idx_in_list,   (* the keys of model_idx_in_list_                   *)
  frameNum,            (* frameData->frameNum, as a residue of REFRESH     *)
  detected,            (* the obstacles this frame's updateFrame was given *)
  obstacles            (* the ids in frameData->obstacles, as handed on    *)

vars == <<next_model_id, tracked_models, frames_found, frames_lost,
          materialized_models, model_idx_in_list, frameNum, detected, obstacles>>

Id == 0 .. MAX_ID

(* What segmentation and approximation may hand to the tracker.            *)
Detections == UNION {[1 .. n -> Model] : n \in 0 .. MaxObstacles}

(* operator[] of a std::map of counters: a missing key reads as 0.         *)
Counter(map, id) == IF id \in DOMAIN map THEN map[id] ELSE 0

-----------------------------------------------------------------------------
(* getMatchByDistance: the nearest tracked model within MATCH_DISTANCE; of *)
(* several at the same distance, the one iterated last (the largest id).   *)

Near(m) ==
  {id \in DOMAIN tracked_models :
     Distance[<<tracked_models[id], m>>] <= MATCH_DISTANCE}

Nearest(m) ==
  {id \in Near(m) : \A other \in Near(m) :
     Distance[<<tracked_models[id], m>>] <= Distance[<<tracked_models[other], m>>]}

(* The detections no tracked model matches; each is given the next id, in  *)
(* the order of the list.                                                  *)
Unmatched(det) == {i \in DOMAIN det : Near(det[i]) = {}}

(* A faulty variant: numbering starts over when nothing is tracked.        *)
NewId_StartsOver(det, i) ==
  (IF DOMAIN tracked_models = {} THEN 0 ELSE next_model_id)
    + Cardinality({j \in Unmatched(det) : j < i})

NewId(det, i) == next_model_id + Cardinality({j \in Unmatched(det) : j < i})

MatchedId(det, i) ==
  IF i \in Unmatched(det) THEN NewId(det, i) ELSE Max(Nearest(det[i]))

(* The map matchToPrevious returns: the id of each model seen, and the     *)
(* index of its detection; of several matched to one model, the last one   *)
(* entered in the map.                                                     *)
Correspondence(det) ==
  LET ids == [i \in DOMAIN det |-> MatchedId(det, i)]
  IN  [id \in Range(ids) |-> Max({i \in DOMAIN det : ids[i] = id})]

(* matchToPrevious also starts to track the models seen for the first time.*)
Known(corr) == DOMAIN tracked_models \cup DOMAIN corr

-----------------------------------------------------------------------------
(* updateLostAndFound.  A model that is already materialized is not        *)
(* counted again when found, but a miss enters it in frames_found_ anew.   *)

FoundKeys(corr) ==
  DOMAIN frames_found \cup (Known(corr) \ (DOMAIN corr \cap model_idx_in_list))

(* A faulty variant: materialized models are counted too.                  *)
FoundAfter_CountsMaterialized(corr) ==
  [id \in Known(corr) |->
     IF id \in DOMAIN corr THEN Counter(frames_found, id) + 1 ELSE 0]

(* A faulty variant: a miss does not reset the run of sightings.           *)
FoundAfter_KeepsRun(corr) ==
  [id \in FoundKeys(corr) |->
     Counter(frames_found, id)
       + (IF id \in DOMAIN corr \ model_idx_in_list THEN 1 ELSE 0)]

(* A faulty variant: every sighting starts a new run.                      *)
FoundAfter_StartsOver(corr) ==
  [id \in FoundKeys(corr) |-> IF id \in DOMAIN corr \ model_idx_in_list THEN 1 ELSE 0]

FoundAfter(corr) ==
  [id \in FoundKeys(corr) |->
     IF id \in Known(corr) \ DOMAIN corr THEN 0
     ELSE Counter(frames_found, id)
            + (IF id \in DOMAIN corr \ model_idx_in_list THEN 1 ELSE 0)]

(* A faulty variant: only a missing model is entered in frames_lost_.      *)
LostAfter_OnlyMissing(corr) ==
  [id \in Known(corr) \ DOMAIN corr |-> Counter(frames_lost, id) + 1]

LostAfter(corr) ==
  [id \in DOMAIN frames_lost \cup Known(corr) |->
     IF id \in DOMAIN corr THEN 0
     ELSE Counter(frames_lost, id) + (IF id \in Known(corr) THEN 1 ELSE 0)]

(* adaptTracked: move each seen model half way towards its detection, or   *)
(* take over the detection's parts in every REFRESH-th frame.              *)
Adapted(corr, det, refresh) ==
  [id \in Known(corr) |->
     IF id \notin DOMAIN corr THEN tracked_models[id]
     ELSE IF refresh \/ id \notin DOMAIN tracked_models THEN det[corr[id]]
     ELSE Blend[<<tracked_models[id], det[corr[id]]>>]]

-----------------------------------------------------------------------------
(* dropLostObjects: the models that were missed too often.                 *)

Dropped(lost) == {id \in DOMAIN lost : lost[id] >= LOST_LIMIT}

(* materializeFoundObjects, which runs after the drop: the models found    *)
(* often enough.                                                           *)
Graduated(found, dropped) ==
  {id \in DOMAIN found \ dropped : found[id] >= FOUND_LIMIT}

ListAfter(dropped, graduated) ==
  [id \in Id |->
     materialized_models[id]
       - (IF id \in dropped \cap model_idx_in_list THEN 1 ELSE 0)
       + (IF id \in graduated THEN 1 ELSE 0)]

(* copyMaterialized: what the observers are given.                         *)
Listed(list) == {id \in Id : list[id] > 0}

-----------------------------------------------------------------------------
Init ==
  /\ next_model_id = 0
  /\ tracked_models = <<>>
  /\ frames_found = <<>>
  /\ frames_lost = <<>>
  /\ materialized_models = [id \in Id |-> 0]
  /\ model_idx_in_list = {}
  /\ frameNum = 0
  /\ detected = <<>>
  /\ obstacles = {}

NextFrame == frameNum' = (frameNum + 1) % REFRESH

(* updateFrame on a frame with points off the ground.  The three maps are  *)
(* bound by \E, not by LET, so that TLC computes each of them once.        *)
TrackFrame(det) ==
  \E corr \in {Correspondence(det)} :
  \E found \in {FoundAfter(corr)}, lost \in {LostAfter(corr)} :
    LET fresh     == Cardinality(Unmatched(det))
        dropped   == Dropped(lost)
        graduated == Graduated(found, dropped)
    IN  /\ next_model_id + fresh <= MAX_ID + 1
        /\ NextFrame
        /\ detected' = det
        /\ next_model_id' = next_model_id + fresh
        /\ tracked_models' = Restrict(Adapted(corr, det, frameNum' = 0),
                                      Known(corr) \ dropped)
        /\ frames_found' = Restrict(found, DOMAIN found \ (dropped \cup graduated))
        /\ frames_lost' = Restrict(lost, DOMAIN lost \ dropped)
        /\ materialized_models' = ListAfter(dropped, graduated)
        /\ model_idx_in_list' = (model_idx_in_list \ dropped) \cup graduated
        /\ obstacles' = Listed(materialized_models')

(* updateFrame on a frame whose cloudMinusSurfaces is empty: the tracker   *)
(* is not run and the frame is handed on as it came.  The segmenters leave *)
(* such a frame without obstacles.                                         *)
PassEmptyFrame ==
  /\ NextFrame
  /\ detected' = <<>>
  /\ obstacles' = {}
  /\ UNCHANGED <<next_model_id, tracked_models, frames_found, frames_lost,
                 materialized_models, model_idx_in_list>>

Next ==
  \/ \E det \in Detections : TrackFrame(det)
  \/ PassEmptyFrame

Spec == Init /\ [][Next]_vars

(* The camera keeps delivering frames, and each is processed.              *)
FairSpec == Spec /\ WF_frameNum(NextFrame)

-----------------------------------------------------------------------------
(* Properties.                                                             *)

IsMap(map, S) == DOMAIN map \subseteq Id /\ map \in [DOMAIN map -> S]

(* Types of the tracker's maps, lists and counters.                        *)
TypeOK ==
  /\ next_model_id \in 0 .. MAX_ID + 1
  /\ IsMap(tracked_models, Model)
  /\ IsMap(frames_found, Nat)
  /\ IsMap(frames_lost, Nat)
  /\ materialized_models \in [Id -> Nat]
  /\ model_idx_in_list \in SUBSET Id
  /\ frameNum \in 0 .. REFRESH - 1
  /\ detected \in Detections
  /\ obstacles \in SUBSET Id

(* The list holds each real model exactly once and model_idx_in_list_      *)
(* locates exactly those: no duplicate id reaches the aggregators, and no  *)
(* stored iterator dangles when dropLostObjects erases through it.         *)
ListMatchesIndex ==
  \A id \in Id : materialized_models[id] = IF id \in model_idx_in_list THEN 1 ELSE 0

(* The maps describe one set of models: a real model is still tracked, a   *)
(* counter belongs to a tracked model (so that materializeFoundObjects     *)
(* never dereferences tracked_models_.end()), a model not yet real has     *)
(* both counters, and the counter that a miss enters for a real model      *)
(* stays at 0 (so that it is not put in the list twice).                   *)
MapsAgree ==
  /\ DOMAIN frames_lost = DOMAIN tracked_models
  /\ model_idx_in_list \subseteq DOMAIN tracked_models
  /\ DOMAIN frames_found \subseteq DOMAIN tracked_models
  /\ DOMAIN tracked_models \ model_idx_in_list \subseteq DOMAIN frames_found
  /\ \A id \in model_idx_in_list \cap DOMAIN frames_found : frames_found[id] = 0
  /\ \A id \in DOMAIN tracked_models : id < next_model_id

(* No model lingers at or past a limit once a frame is done.               *)
CountersBelowLimits ==
  /\ \A id \in DOMAIN frames_lost : frames_lost[id] < LOST_LIMIT
  /\ \A id \in DOMAIN frames_found : frames_found[id] < FOUND_LIMIT

(* nextModelId "makes sure that no models are ever assigned the same ID":  *)
(* an id that enters tracked_models_ was never used before.                *)
IdsNeverReused ==
  [][\A id \in DOMAIN tracked_models' \ DOMAIN tracked_models :
        /\ id >= next_model_id
        /\ id < next_model_id']_vars

(* The tracker keeps the low-pass promise of its class comment, counted    *)
(* over the frames it processes.  Its counters hold what the abstract      *)
(* specification counts; frames_found_ of a real model means nothing.      *)
Promise == INSTANCE Hysteresis WITH
  real    <- model_idx_in_list,
  hits    <- [id \in Id |-> IF id \in model_idx_in_list THEN 0
                            ELSE Counter(frames_found, id)],
  misses  <- [id \in Id |-> IF id \in model_idx_in_list
                            THEN Counter(frames_lost, id) ELSE 0],
  retired <- {id \in Id : id < next_model_id} \ DOMAIN tracked_models

KeepsPromise == Promise!Spec

(* An obstacle that stands still alone and is detected in every frame is   *)
(* eventually handed on, and stays: some published model is within         *)
(* matching distance of it.                                                *)
LoneObstacleAppears ==
  <>[](Len(detected) = 1) /\ <>[][UNCHANGED detected]_vars =>
    <>[](\E id \in obstacles \cap DOMAIN tracked_models :
           \A i \in DOMAIN detected :
             Distance[<<tracked_models[id], detected[i]>>] <= MATCH_DISTANCE)

(* The class comment: the tracker propagates "the disappearance only if    *)
(* the obstacle has been gone in a sufficient number of consecutive        *)
(* frames".  An obstacle that is no longer handed on was dropped.          *)
DisappearanceIsConfirmed ==
  [][\A id \in obstacles \ obstacles' : id \notin model_idx_in_list']_vars
=============================================================================
