-------------------- MODULE LowPassObstacleTrackerProofs --------------------
(***************************************************************************)
(* The invariants of LowPassObstacleTracker, and that it keeps the promise *)
(* of module Hysteresis, for all limits, geometries and frames.            *)
(***************************************************************************)
EXTENDS LowPassObstacleTracker, NaturalSets, FiniteSetTheorems, TLAPS

-----------------------------------------------------------------------------
(* Facts about the operators of the tracker.                               *)

(* The types of what the tracker counts, without those of the list it      *)
(* hands on and of the frame.                                              *)
CountTypes ==
  /\ next_model_id \in 0 .. MAX_ID + 1
  /\ IsMap(tracked_models, Model)
  /\ IsMap(frames_found, Nat)
  /\ IsMap(frames_lost, Nat)
  /\ model_idx_in_list \in SUBSET Id

(* Of the models near enough there is always a nearest one.                *)
LEMMA NearestExists ==
  ASSUME CountTypes, NEW m \in Model, Near(m) # {}
  PROVE  Nearest(m) # {}
<1> DEFINE Gap(id) == Distance[<<tracked_models[id], m>>]
           Gaps    == {Gap(id) : id \in Near(m)}
<1>1. \A id \in Near(m) : Gap(id) \in Nat
  BY GeometryAssumption DEF Near, CountTypes, IsMap
<1>2. Gaps \in SUBSET Nat /\ Gaps # {}
  BY <1>1
<1>3. PICK g \in Gaps : \A h \in Gaps : g <= h
  BY <1>2, NatHasMin
<1>4. PICK id \in Near(m) : g = Gap(id)
  OBVIOUS
<1>5. id \in Nearest(m)
  BY <1>3, <1>4 DEF Nearest
<1>6. QED
  BY <1>5

(* The detections of a frame, and the bounds of their indices.             *)
LEMMA DetectionsType ==
  ASSUME NEW det \in Detections
  PROVE  /\ \E n \in 0 .. MaxObstacles : det \in [1 .. n -> Model]
         /\ DOMAIN det \in SUBSET (0 .. MaxObstacles)
         /\ IsFiniteSet(DOMAIN det)
         /\ \A i \in DOMAIN det : det[i] \in Model
<1>1. PICK n \in 0 .. MaxObstacles : det \in [1 .. n -> Model]
  BY DEF Detections
<1>2. IsFiniteSet(1 .. n)
  BY <1>1, FS_Interval, LimitsAssumption
<1>3. QED
  BY <1>1, <1>2, LimitsAssumption

(* The new ids are next_model_id and those following it.                   *)
LEMMA NewIdBounds ==
  ASSUME CountTypes, NEW det \in Detections
  PROVE  /\ Cardinality(Unmatched(det)) \in Nat
         /\ \A i \in Unmatched(det) :
              /\ NewId(det, i) \in Nat
              /\ next_model_id <= NewId(det, i)
              /\ NewId(det, i) < next_model_id + Cardinality(Unmatched(det))
<1> DEFINE U == Unmatched(det)
<1>1. U \subseteq DOMAIN det /\ IsFiniteSet(U) /\ Cardinality(U) \in Nat
  BY DetectionsType, FS_Subset, FS_CardinalityType DEF Unmatched
<1>2. ASSUME NEW i \in U
      PROVE  /\ NewId(det, i) \in Nat
             /\ next_model_id <= NewId(det, i)
             /\ NewId(det, i) < next_model_id + Cardinality(U)
  <2> DEFINE B == {j \in U : j < i}
  <2>1. i \in Nat /\ i \notin B
    BY <1>1, DetectionsType
  <2>2. B \in SUBSET U /\ B # U
    BY <2>1
  <2>3. /\ Cardinality(B) \in Nat
        /\ Cardinality(B) <= Cardinality(U)
        /\ Cardinality(B) # Cardinality(U)
    BY <1>1, <2>2, FS_Subset, FS_CardinalityType
  <2>4. next_model_id \in Nat
    BY LimitsAssumption DEF CountTypes
  <2>5. QED
    BY <1>1, <2>3, <2>4 DEF NewId
<1>3. QED
  BY <1>1, <1>2

(* What the tracker knows of the ids it hands out: an unmatched detection  *)
(* gets a new id, any other the id of a tracked model.                     *)
LEMMA MatchedIdType ==
  ASSUME CountTypes, NEW det \in Detections, NEW i \in DOMAIN det
  PROVE  \/ i \in Unmatched(det) /\ MatchedId(det, i) = NewId(det, i)
         \/ i \notin Unmatched(det) /\ MatchedId(det, i) \in DOMAIN tracked_models
<1>1. CASE i \in Unmatched(det)
  BY <1>1 DEF MatchedId
<1>2. CASE i \notin Unmatched(det)
  <2>1. Near(det[i]) # {} /\ det[i] \in Model
    BY <1>2, DetectionsType DEF Unmatched
  <2>2. Nearest(det[i]) # {}
    BY <2>1, NearestExists
  <2>3. Nearest(det[i]) \in SUBSET (0 .. MAX_ID)
    BY DEF Nearest, Near, CountTypes, IsMap, Id
  <2>4. Max(Nearest(det[i])) \in Nearest(det[i])
    BY <2>2, <2>3, MaxIsGreatest, LimitsAssumption
  <2>5. QED
    BY <1>2, <2>4 DEF MatchedId, Nearest, Near
<1>3. QED
  BY <1>1, <1>2

(* The correspondence map: its keys are tracked models or new ids, its     *)
(* values indices of detections.                                           *)
LEMMA CorrespondenceType ==
  ASSUME CountTypes, NEW det \in Detections,
         next_model_id + Cardinality(Unmatched(det)) <= MAX_ID + 1,
         NEW corr, corr = Correspondence(det)
  PROVE  /\ corr \in [DOMAIN corr -> DOMAIN det]
         /\ DOMAIN corr \subseteq Id
         /\ \A id \in DOMAIN corr \ DOMAIN tracked_models :
              /\ next_model_id <= id
              /\ id < next_model_id + Cardinality(Unmatched(det))
<1> DEFINE ids == [i \in DOMAIN det |-> MatchedId(det, i)]
<1>1. corr = [id \in Range(ids) |-> Max({i \in DOMAIN det : ids[i] = id})]
  BY DEF Correspondence
<1>2. ASSUME NEW id \in Range(ids)
      PROVE  /\ corr[id] \in DOMAIN det
             /\ id \in Id
             /\ id \notin DOMAIN tracked_models =>
                  /\ next_model_id <= id
                  /\ id < next_model_id + Cardinality(Unmatched(det))
  <2> DEFINE S == {i \in DOMAIN det : ids[i] = id}
  <2>1. PICK i \in DOMAIN det : MatchedId(det, i) = id
    BY DEF Range
  <2>2. S \in SUBSET (0 .. MaxObstacles) /\ S # {}
    BY <2>1, DetectionsType
  <2>3. Max(S) \in S
    BY <2>2, MaxIsGreatest, LimitsAssumption
  <2>4. corr[id] \in DOMAIN det
    BY <1>1, <2>3
  <2>5. CASE i \in Unmatched(det) /\ id = NewId(det, i)
    BY <2>4, <2>5, NewIdBounds, LimitsAssumption DEF Id, CountTypes
  <2>6. CASE id \in DOMAIN tracked_models
    BY <2>4, <2>6 DEF CountTypes, IsMap
  <2>7. QED
    BY <2>1, <2>5, <2>6, MatchedIdType
<1>3. DOMAIN corr = Range(ids)
  BY <1>1
<1> HIDE DEF ids
<1>4. QED
  BY <1>1, <1>2, <1>3

-----------------------------------------------------------------------------
(* The inductive invariant.  No part is inductive without the others: that *)
(* a graduating model is not in the list yet needs the zero counters of    *)
(* MapsAgree, and these the keys of the maps.                              *)
IInv == TypeOK /\ ListMatchesIndex /\ MapsAgree /\ CountersBelowLimits

(* What it takes to count: the surface tracker keeps this part, too.       *)
CountingInv == CountTypes /\ MapsAgree /\ CountersBelowLimits

(* The invariant has what the counting needs.                              *)
LEMMA InvCounts == IInv => CountingInv
BY DEF IInv, TypeOK, CountingInv, CountTypes

(* The tracker starts out consistent.                                      *)
LEMMA InitInv == Init => IInv
<1> SUFFICES ASSUME Init PROVE IInv
  OBVIOUS
<1> USE DEF Init
<1>1. <<>> \in Detections
  <2>1. <<>> \in [1 .. 0 -> Model] /\ 0 \in 0 .. MaxObstacles
    BY LimitsAssumption
  <2>2. QED
    BY <2>1 DEF Detections
<1>2. TypeOK
  BY <1>1, LimitsAssumption DEF TypeOK, IsMap, Id
<1>3. ListMatchesIndex /\ MapsAgree /\ CountersBelowLimits
  BY DEF ListMatchesIndex, MapsAgree, CountersBelowLimits
<1>4. QED
  BY <1>2, <1>3 DEF IInv

(* What a frame makes of the maps, before anything is dropped or graduates.*)
LEMMA FrameFacts ==
  ASSUME CountingInv, NEW det \in Detections, NEW corr, corr = Correspondence(det),
         next_model_id + Cardinality(Unmatched(det)) <= MAX_ID + 1
  PROVE  /\ Known(corr) \subseteq Id
         /\ \A id \in Known(corr) : id < next_model_id + Cardinality(Unmatched(det))
         /\ FoundKeys(corr) \subseteq Known(corr)
         /\ Known(corr) \ model_idx_in_list \subseteq FoundKeys(corr)
         /\ FoundAfter(corr) \in [FoundKeys(corr) -> Nat]
         /\ LostAfter(corr) \in [Known(corr) -> Nat]
         /\ \A r \in BOOLEAN : Adapted(corr, det, r) \in [Known(corr) -> Model]
         /\ \A id \in FoundKeys(corr) \cap model_idx_in_list : FoundAfter(corr)[id] = 0
<1> USE DEF CountingInv
<1>1. /\ corr \in [DOMAIN corr -> DOMAIN det]
      /\ DOMAIN corr \subseteq Id
      /\ \A id \in DOMAIN corr \ DOMAIN tracked_models :
              /\ next_model_id <= id
              /\ id < next_model_id + Cardinality(Unmatched(det))
  BY CorrespondenceType
<1>2. Known(corr) \subseteq Id
  BY <1>1 DEF Known, CountTypes, IsMap
<1>3. \A id \in Known(corr) : id < next_model_id + Cardinality(Unmatched(det))
  <2>1. Cardinality(Unmatched(det)) \in Nat
    BY NewIdBounds
  <2>2. ASSUME NEW id \in DOMAIN tracked_models
        PROVE  id < next_model_id + Cardinality(Unmatched(det))
    BY <2>1, LimitsAssumption DEF CountTypes, IsMap, MapsAgree, Id
  <2>3. QED
    BY <1>1, <2>2 DEF Known
<1>4. /\ FoundKeys(corr) \subseteq Known(corr)
      /\ Known(corr) \ model_idx_in_list \subseteq FoundKeys(corr)
  BY DEF FoundKeys, Known, MapsAgree
<1>5. \A id : Counter(frames_found, id) \in Nat /\ Counter(frames_lost, id) \in Nat
  BY DEF Counter, CountTypes, IsMap
<1>6. FoundAfter(corr) \in [FoundKeys(corr) -> Nat]
  BY <1>5 DEF FoundAfter
<1>7. LostAfter(corr) \in [Known(corr) -> Nat]
  <2>1. DOMAIN frames_lost \cup Known(corr) = Known(corr)
    BY DEF Known, MapsAgree
  <2>2. QED
    BY <1>5, <2>1 DEF LostAfter
<1>8. ASSUME NEW r \in BOOLEAN
      PROVE  Adapted(corr, det, r) \in [Known(corr) -> Model]
  <2>1. \A id \in DOMAIN tracked_models : tracked_models[id] \in Model
    BY DEF CountTypes, IsMap
  <2>2. \A id \in DOMAIN corr : det[corr[id]] \in Model
    BY <1>1, DetectionsType
  <2>3. \A a, b \in Model : Blend[<<a, b>>] \in Model
    BY GeometryAssumption
  <2>4. ASSUME NEW id \in Known(corr)
        PROVE  (IF id \notin DOMAIN corr THEN tracked_models[id]
                ELSE IF r \/ id \notin DOMAIN tracked_models THEN det[corr[id]]
                ELSE Blend[<<tracked_models[id], det[corr[id]]>>]) \in Model
    BY <2>1, <2>2, <2>3 DEF Known
  <2>5. QED
    BY <2>4, Zenon DEF Adapted
<1>9. ASSUME NEW id \in FoundKeys(corr) \cap model_idx_in_list
      PROVE  FoundAfter(corr)[id] = 0
  <2>1. Counter(frames_found, id) = 0
    BY DEF Counter, MapsAgree
  <2>2. QED
    BY <1>4, <2>1 DEF FoundAfter, Known
<1>10. QED
  BY <1>2, <1>3, <1>4, <1>6, <1>7, <1>8, <1>9, Zenon

(* A frame with obstacles, in the terms of FrameFacts: what is counted,    *)
(* and the rest of it.                                                     *)
CountingStep(det, corr, dropped, graduated) ==
  LET found == FoundAfter(corr)
      lost  == LostAfter(corr)
  IN  /\ corr = Correspondence(det)
      /\ dropped = Dropped(lost)
      /\ graduated = Graduated(found, dropped)
      /\ next_model_id + Cardinality(Unmatched(det)) <= MAX_ID + 1
      /\ next_model_id' = next_model_id + Cardinality(Unmatched(det))
      /\ \E refresh \in BOOLEAN :
           tracked_models' = [id \in Known(corr) \ dropped |->
                                Adapted(corr, det, refresh)[id]]
      /\ frames_found' = [id \in FoundKeys(corr) \ (dropped \cup graduated) |-> found[id]]
      /\ frames_lost' = [id \in Known(corr) \ dropped |-> lost[id]]
      /\ model_idx_in_list' = (model_idx_in_list \ dropped) \cup graduated

FrameStep(det, corr, dropped, graduated) ==
  /\ CountingStep(det, corr, dropped, graduated)
  /\ NextFrame
  /\ detected' = det
  /\ materialized_models' = ListAfter(dropped, graduated)
  /\ obstacles' = Listed(materialized_models')

(* TrackFrame, with its maps named.                                        *)
LEMMA TrackFrameIsFrameStep ==
  ASSUME IInv, NEW det \in Detections, TrackFrame(det)
  PROVE  \E corr, dropped, graduated : FrameStep(det, corr, dropped, graduated)
<1> DEFINE corr      == Correspondence(det)
           found     == FoundAfter(corr)
           lost      == LostAfter(corr)
           dropped   == Dropped(lost)
           graduated == Graduated(found, dropped)
<1>1. /\ next_model_id + Cardinality(Unmatched(det)) <= MAX_ID + 1
      /\ NextFrame
      /\ detected' = det
      /\ next_model_id' = next_model_id + Cardinality(Unmatched(det))
      /\ tracked_models' = Restrict(Adapted(corr, det, frameNum' = 0),
                                    Known(corr) \ dropped)
      /\ frames_found' = Restrict(found, DOMAIN found \ (dropped \cup graduated))
      /\ frames_lost' = Restrict(lost, DOMAIN lost \ dropped)
      /\ materialized_models' = ListAfter(dropped, graduated)
      /\ model_idx_in_list' = (model_idx_in_list \ dropped) \cup graduated
      /\ obstacles' = Listed(materialized_models')
  BY Zenon DEF TrackFrame
<1>2. DOMAIN found = FoundKeys(corr) /\ DOMAIN lost = Known(corr)
  <2> HIDE DEF corr
  <2>1. corr = Correspondence(det)
    BY DEF corr
  <2>2. found \in [FoundKeys(corr) -> Nat] /\ lost \in [Known(corr) -> Nat]
    BY <1>1, <2>1, InvCounts, FrameFacts
  <2>3. QED
    BY <2>2
<1>3. CountingStep(det, corr, dropped, graduated)
  <2>1. (frameNum' = 0) \in BOOLEAN
    OBVIOUS
  <2>2. \E refresh \in BOOLEAN :
          tracked_models' = [id \in Known(corr) \ dropped |-> Adapted(corr, det, refresh)[id]]
    BY <1>1, <2>1, Zenon DEF Restrict
  <2>3. QED
    BY <1>1, <1>2, <2>2, Zenon DEF CountingStep, Restrict
<1>4. FrameStep(det, corr, dropped, graduated)
  BY <1>1, <1>3, Zenon DEF FrameStep
<1>5. QED
  BY <1>4, Zenon

(* What the models dropped and graduated in a frame are.                   *)
LEMMA DroppedAndGraduated ==
  ASSUME CountingInv, NEW det \in Detections, NEW corr, NEW dropped, NEW graduated,
         CountingStep(det, corr, dropped, graduated)
  PROVE  /\ dropped \subseteq Known(corr) \ DOMAIN corr
         /\ graduated \subseteq DOMAIN corr \ model_idx_in_list
         /\ dropped \cap graduated = {}
         /\ \A id \in DOMAIN corr \ model_idx_in_list :
              id \in graduated <=> Counter(frames_found, id) + 1 >= FOUND_LIMIT
         /\ \A id \in Known(corr) \ DOMAIN corr :
              id \in dropped <=> Counter(frames_lost, id) + 1 >= LOST_LIMIT
<1> DEFINE found == FoundAfter(corr)
           lost  == LostAfter(corr)
<1>1. /\ found \in [FoundKeys(corr) -> Nat]
      /\ lost \in [Known(corr) -> Nat]
      /\ FoundKeys(corr) \subseteq Known(corr)
      /\ Known(corr) \ model_idx_in_list \subseteq FoundKeys(corr)
      /\ \A id \in FoundKeys(corr) \cap model_idx_in_list : found[id] = 0
  BY FrameFacts DEF CountingStep
<1>2. dropped = {id \in Known(corr) : lost[id] >= LOST_LIMIT}
  BY <1>1 DEF CountingStep, Dropped
<1>3. graduated = {id \in FoundKeys(corr) \ dropped : found[id] >= FOUND_LIMIT}
  BY <1>1 DEF CountingStep, Graduated
<1>4. DOMAIN corr \subseteq Known(corr)
  BY DEF Known
<1>5. \A id \in Known(corr) :
        lost[id] = IF id \in DOMAIN corr THEN 0 ELSE Counter(frames_lost, id) + 1
  BY <1>1 DEF LostAfter
<1>6. \A id \in FoundKeys(corr) :
        found[id] = IF id \in DOMAIN corr
                    THEN Counter(frames_found, id)
                           + (IF id \in model_idx_in_list THEN 0 ELSE 1)
                    ELSE 0
  BY <1>1, <1>4 DEF FoundAfter
<1> HIDE DEF found, lost
<1>7. dropped \subseteq Known(corr) \ DOMAIN corr
  BY <1>2, <1>5, LimitsAssumption
<1>8. graduated \subseteq DOMAIN corr \ model_idx_in_list
  BY <1>1, <1>3, <1>6, LimitsAssumption
<1>9. \A id \in DOMAIN corr \ model_idx_in_list :
        id \in graduated <=> Counter(frames_found, id) + 1 >= FOUND_LIMIT
  BY <1>1, <1>3, <1>4, <1>6, <1>7
<1>10. \A id \in Known(corr) \ DOMAIN corr :
        id \in dropped <=> Counter(frames_lost, id) + 1 >= LOST_LIMIT
  BY <1>2, <1>5
<1>11. QED
  BY <1>3, <1>7, <1>8, <1>9, <1>10

-----------------------------------------------------------------------------
(* Every step preserves the inductive invariant.                           *)

(* Counting leaves the maps as consistent as it found them.                *)
LEMMA CountingStepInv ==
  ASSUME CountingInv, NEW det \in Detections, NEW corr, NEW dropped, NEW graduated,
         CountingStep(det, corr, dropped, graduated)
  PROVE  CountingInv'
<1> DEFINE K == Known(corr)
           F == FoundKeys(corr)
<1>1. /\ K \subseteq Id
      /\ \A id \in K : id < next_model_id'
      /\ F \subseteq K
      /\ K \ model_idx_in_list \subseteq F
      /\ FoundAfter(corr) \in [F -> Nat]
      /\ LostAfter(corr) \in [K -> Nat]
      /\ \A r \in BOOLEAN : Adapted(corr, det, r) \in [K -> Model]
      /\ \A id \in F \cap model_idx_in_list : FoundAfter(corr)[id] = 0
  BY FrameFacts DEF CountingStep
<1>2. /\ dropped \subseteq K \ DOMAIN corr
      /\ graduated \subseteq DOMAIN corr \ model_idx_in_list
      /\ dropped \cap graduated = {}
  BY DroppedAndGraduated
<1>3. DOMAIN tracked_models \subseteq K /\ DOMAIN corr \subseteq K
  BY DEF Known
<1>4. /\ dropped = {id \in K : LostAfter(corr)[id] >= LOST_LIMIT}
      /\ graduated = {id \in F \ dropped : FoundAfter(corr)[id] >= FOUND_LIMIT}
  BY <1>1 DEF CountingStep, Dropped, Graduated
<1>5. PICK refresh \in BOOLEAN :
        tracked_models' = [id \in K \ dropped |-> Adapted(corr, det, refresh)[id]]
  BY DEF CountingStep
<1>6. /\ DOMAIN tracked_models' = K \ dropped
      /\ DOMAIN frames_lost' = K \ dropped
      /\ DOMAIN frames_found' = F \ (dropped \cup graduated)
      /\ \A id \in DOMAIN frames_lost' : frames_lost'[id] = LostAfter(corr)[id]
      /\ \A id \in DOMAIN frames_found' : frames_found'[id] = FoundAfter(corr)[id]
  BY <1>5 DEF CountingStep
<1>7. model_idx_in_list' = (model_idx_in_list \ dropped) \cup graduated
  BY DEF CountingStep
<1>8. CountTypes'
  <2>1. next_model_id' \in 0 .. MAX_ID + 1
    BY NewIdBounds, LimitsAssumption DEF CountingStep, CountingInv, CountTypes
  <2>2. IsMap(tracked_models, Model)'
    <3>1. Adapted(corr, det, refresh) \in [K -> Model]
      BY <1>1, <1>5
    <3> HIDE DEF K
    <3>2. QED
      BY <1>1, <1>5, <3>1 DEF IsMap
  <2>3. IsMap(frames_found, Nat)'
    <3>1. frames_found' = [id \in F \ (dropped \cup graduated) |-> FoundAfter(corr)[id]]
      BY DEF CountingStep
    <3> HIDE DEF F, K
    <3>2. QED
      BY <1>1, <3>1 DEF IsMap
  <2>4. IsMap(frames_lost, Nat)'
    <3>1. frames_lost' = [id \in K \ dropped |-> LostAfter(corr)[id]]
      BY DEF CountingStep
    <3> HIDE DEF K
    <3>2. QED
      BY <1>1, <3>1 DEF IsMap
  <2>5. model_idx_in_list' \in SUBSET Id
    BY <1>1, <1>2, <1>3, <1>7 DEF CountingInv, CountTypes
  <2>6. QED
    BY <2>1, <2>2, <2>3, <2>4, <2>5 DEF CountTypes
<1>9. MapsAgree'
  <2>1. model_idx_in_list' \subseteq DOMAIN tracked_models'
    BY <1>2, <1>3, <1>6, <1>7 DEF CountingInv, MapsAgree
  <2>2. DOMAIN frames_found' \subseteq DOMAIN tracked_models'
    BY <1>1, <1>6
  <2>3. DOMAIN tracked_models' \ model_idx_in_list' \subseteq DOMAIN frames_found'
    BY <1>1, <1>6, <1>7
  <2>4. ASSUME NEW id \in model_idx_in_list' \cap DOMAIN frames_found'
        PROVE  frames_found'[id] = 0
    BY <1>1, <1>6, <1>7
  <2>5. \A id \in DOMAIN tracked_models' : id < next_model_id'
    BY <1>1, <1>6
  <2>6. QED
    BY <1>6, <2>1, <2>2, <2>3, <2>4, <2>5, Zenon DEF MapsAgree
<1>10. CountersBelowLimits'
  <2>1. ASSUME NEW id \in DOMAIN frames_lost' PROVE frames_lost'[id] < LOST_LIMIT
    BY <1>1, <1>4, <1>6, LimitsAssumption
  <2>2. ASSUME NEW id \in DOMAIN frames_found' PROVE frames_found'[id] < FOUND_LIMIT
    BY <1>1, <1>4, <1>6, LimitsAssumption
  <2>3. QED
    BY <2>1, <2>2 DEF CountersBelowLimits
<1>11. QED
  BY <1>8, <1>9, <1>10 DEF CountingInv

(* A frame leaves the list as consistent, too.                             *)
LEMMA FrameStepInv ==
  ASSUME IInv, NEW det \in Detections, NEW corr, NEW dropped, NEW graduated,
         FrameStep(det, corr, dropped, graduated)
  PROVE  IInv'
<1>1. CountingInv /\ CountingStep(det, corr, dropped, graduated)
  BY InvCounts DEF FrameStep
<1>2. CountingInv'
  BY <1>1, CountingStepInv
<1>3. /\ dropped \cap graduated = {}
      /\ graduated \cap model_idx_in_list = {}
  BY <1>1, DroppedAndGraduated
<1>4. /\ materialized_models' = ListAfter(dropped, graduated)
      /\ model_idx_in_list' = (model_idx_in_list \ dropped) \cup graduated
  BY DEF FrameStep, CountingStep
<1>5. materialized_models' \in [Id -> Nat]
  <2>1. ASSUME NEW id \in Id
        PROVE  materialized_models[id]
                 - (IF id \in dropped \cap model_idx_in_list THEN 1 ELSE 0)
                 + (IF id \in graduated THEN 1 ELSE 0) \in Nat
    BY DEF IInv, ListMatchesIndex
  <2>2. QED
    BY <1>4, <2>1 DEF ListAfter
<1>6. ListMatchesIndex'
  <2>1. ASSUME NEW id \in Id
        PROVE  materialized_models'[id] = IF id \in model_idx_in_list' THEN 1 ELSE 0
    BY <1>3, <1>4 DEF ListAfter, IInv, ListMatchesIndex
  <2>2. QED
    BY <2>1 DEF ListMatchesIndex
<1>7. frameNum' \in 0 .. REFRESH - 1 /\ detected' \in Detections /\ obstacles' \in SUBSET Id
  BY LimitsAssumption DEF FrameStep, NextFrame, Listed, IInv, TypeOK
<1>8. TypeOK'
  BY <1>2, <1>5, <1>7 DEF CountingInv, CountTypes, TypeOK
<1>9. QED
  BY <1>2, <1>6, <1>8 DEF CountingInv, IInv

(* So does every step: frames without a cloud leave the maps alone.        *)
LEMMA StepInv == IInv /\ [Next]_vars => IInv'
<1> SUFFICES ASSUME IInv, [Next]_vars PROVE IInv'
  OBVIOUS
<1>1. CASE \E det \in Detections : TrackFrame(det)
  BY <1>1, TrackFrameIsFrameStep, FrameStepInv
<1>2. CASE PassEmptyFrame
  <2> USE <1>2 DEF PassEmptyFrame
  <2>1. <<>> \in Detections
    <3>1. <<>> \in [1 .. 0 -> Model] /\ 0 \in 0 .. MaxObstacles
      BY LimitsAssumption
    <3>2. QED
      BY <3>1 DEF Detections
  <2>2. TypeOK'
    BY <2>1, LimitsAssumption DEF IInv, TypeOK, IsMap, NextFrame
  <2>3. ListMatchesIndex' /\ MapsAgree' /\ CountersBelowLimits'
    BY DEF IInv, ListMatchesIndex, MapsAgree, CountersBelowLimits
  <2>4. QED
    BY <2>2, <2>3 DEF IInv
<1>3. CASE UNCHANGED vars
  BY <1>3 DEF vars, IInv, TypeOK, IsMap, ListMatchesIndex, MapsAgree, CountersBelowLimits
<1>4. QED
  BY <1>1, <1>2, <1>3 DEF Next

(* The inductive invariant holds in every reachable state.                 *)
THEOREM Invariance == Spec => []IInv
<1>1. Init => IInv
  BY InitInv
<1>2. IInv /\ [Next]_vars => IInv'
  BY StepInv
<1>3. QED
  BY <1>1, <1>2, PTL DEF Spec

(* The maps, counters and lists always have their types.                   *)
THEOREM TypeCorrect == Spec => []TypeOK
<1>1. IInv => TypeOK
  BY DEF IInv
<1>2. QED
  BY <1>1, Invariance, PTL

(* No model is ever twice in the list handed on, and every stored iterator *)
(* refers to an element of it.                                             *)
THEOREM ListIsConsistent == Spec => []ListMatchesIndex
<1>1. IInv => ListMatchesIndex
  BY DEF IInv
<1>2. QED
  BY <1>1, Invariance, PTL

(* The tracker's maps always describe the same set of models.              *)
THEOREM MapsAreConsistent == Spec => []MapsAgree
<1>1. IInv => MapsAgree
  BY DEF IInv
<1>2. QED
  BY <1>1, Invariance, PTL

(* No model outlives the limits.                                           *)
THEOREM LimitsAreKept == Spec => []CountersBelowLimits
<1>1. IInv => CountersBelowLimits
  BY DEF IInv
<1>2. QED
  BY <1>1, Invariance, PTL

(* An id is given to one model only, however long the tracker runs.        *)
THEOREM IdsAreUnique == Spec => IdsNeverReused
<1>1. IInv /\ [Next]_vars =>
        [\A id \in DOMAIN tracked_models' \ DOMAIN tracked_models :
           /\ id >= next_model_id
           /\ id < next_model_id']_vars
  <2> DEFINE Fresh == \A id \in DOMAIN tracked_models' \ DOMAIN tracked_models :
                        /\ id >= next_model_id
                        /\ id < next_model_id'
  <2> SUFFICES ASSUME IInv, Next PROVE Fresh
    OBVIOUS
  <2>1. ASSUME NEW det \in Detections, NEW corr, NEW dropped, NEW graduated,
               FrameStep(det, corr, dropped, graduated)
        PROVE  Fresh
    <3>1. DOMAIN tracked_models' \subseteq Known(corr)
      BY <2>1 DEF FrameStep, CountingStep
    <3>2. CountTypes /\ corr = Correspondence(det)
          /\ next_model_id + Cardinality(Unmatched(det)) <= MAX_ID + 1
          /\ next_model_id' = next_model_id + Cardinality(Unmatched(det))
      BY <2>1, InvCounts DEF FrameStep, CountingStep, CountingInv
    <3>3. \A id \in DOMAIN corr \ DOMAIN tracked_models :
            next_model_id <= id /\ id < next_model_id'
      BY <3>2, CorrespondenceType
    <3>4. next_model_id \in Nat /\ DOMAIN corr \subseteq Nat
      BY <3>2, CorrespondenceType, LimitsAssumption DEF CountTypes, Id
    <3>5. QED
      BY <3>1, <3>3, <3>4 DEF Known
  <2>2. CASE \E det \in Detections : TrackFrame(det)
    BY <2>1, <2>2, TrackFrameIsFrameStep
  <2>3. CASE PassEmptyFrame
    BY <2>3 DEF PassEmptyFrame
  <2>4. QED
    BY <2>2, <2>3 DEF Next
<1>2. QED
  BY <1>1, Invariance, PTL DEF Spec, IdsNeverReused

-----------------------------------------------------------------------------
(* LowPassObstacleTracker implements Hysteresis: with the refinement       *)
(* mapping of KeepsPromise each frame is an Observe step of the ids        *)
(* matched in it, and an empty frame is a stutter.                         *)

(* The refinement mapping.                                                 *)
Hits == [id \in Id |-> IF id \in model_idx_in_list THEN 0
                       ELSE Counter(frames_found, id)]

Misses == [id \in Id |-> IF id \in model_idx_in_list
                         THEN Counter(frames_lost, id) ELSE 0]

Retired == {id \in Id : id < next_model_id} \ DOMAIN tracked_models

(* Before the first frame nothing is real and no id is retired.            *)
LEMMA PromiseInit == Init => Promise!Init
<1> SUFFICES ASSUME Init PROVE Promise!Init
  OBVIOUS
<1>1. Hits = [id \in Id |-> 0] /\ Misses = [id \in Id |-> 0]
  BY DEF Init, Hits, Misses, Counter
<1>2. Retired = {}
  BY DEF Init, Retired, Id
<1>3. QED
  BY <1>1, <1>2 DEF Init, Promise!Init, Hits, Misses, Retired

(* The models matched in a frame are the ones the promise sees sighted.    *)
LEMMA FrameIsObserved ==
  ASSUME CountingInv, NEW det \in Detections, NEW corr, NEW dropped, NEW graduated,
         CountingStep(det, corr, dropped, graduated)
  PROVE  Promise!Observe(DOMAIN corr)
<1> DEFINE sighted == DOMAIN corr
           real    == model_idx_in_list
<1>1. CountTypes /\ MapsAgree
  BY DEF CountingInv
<1>2. /\ corr = Correspondence(det)
      /\ next_model_id + Cardinality(Unmatched(det)) <= MAX_ID + 1
      /\ next_model_id' = next_model_id + Cardinality(Unmatched(det))
      /\ Cardinality(Unmatched(det)) \in Nat
      /\ next_model_id \in Nat
  BY <1>1, NewIdBounds, LimitsAssumption DEF CountingStep, CountTypes
<1>3. /\ sighted \subseteq Id
      /\ \A id \in sighted \ DOMAIN tracked_models : next_model_id <= id
  BY <1>1, <1>2, CorrespondenceType
<1>4. /\ Known(corr) \subseteq Id
      /\ \A id \in Known(corr) : id < next_model_id'
      /\ FoundKeys(corr) \subseteq Known(corr)
      /\ Known(corr) \ real \subseteq FoundKeys(corr)
      /\ FoundAfter(corr) \in [FoundKeys(corr) -> Nat]
      /\ LostAfter(corr) \in [Known(corr) -> Nat]
  BY <1>2, FrameFacts
<1>5. /\ dropped \subseteq Known(corr) \ sighted
      /\ graduated \subseteq sighted \ real
      /\ dropped \cap graduated = {}
      /\ \A id \in sighted \ real :
           id \in graduated <=> Counter(frames_found, id) + 1 >= FOUND_LIMIT
      /\ \A id \in Known(corr) \ sighted :
           id \in dropped <=> Counter(frames_lost, id) + 1 >= LOST_LIMIT
  BY DroppedAndGraduated
<1>6. /\ real \subseteq Known(corr)
      /\ DOMAIN tracked_models \subseteq Known(corr)
      /\ real \subseteq DOMAIN tracked_models
      /\ sighted \subseteq Known(corr)
      /\ Id \subseteq Nat
  BY <1>1, LimitsAssumption DEF Known, MapsAgree, Id
<1>7. /\ \A id \in sighted \ real : Hits[id] = Counter(frames_found, id)
      /\ \A id \in real : Misses[id] = Counter(frames_lost, id)
  BY <1>3, <1>4, <1>6 DEF Hits, Misses
<1>8. /\ Promise!Appearing(sighted) = graduated
      /\ Promise!Vanishing(sighted) = dropped \cap real
  <2>1. Promise!Appearing(sighted) = {id \in sighted \ real : Hits[id] + 1 >= FOUND_LIMIT}
    BY Zenon DEF Promise!Appearing, Hits
  <2>2. Promise!Vanishing(sighted) = {id \in real \ sighted : Misses[id] + 1 >= LOST_LIMIT}
    BY Zenon DEF Promise!Vanishing, Misses
  <2>3. QED
    BY <1>5, <1>6, <1>7, <2>1, <2>2
<1>9. real' = (real \ dropped) \cup graduated
  BY DEF CountingStep
<1>10. real' = (real \cup graduated) \ (dropped \cap real)
  BY <1>5, <1>9
<1>11. Hits' = [id \in Id |-> IF id \in sighted \ (real \cup graduated)
                              THEN Hits[id] + 1 ELSE 0]
  <2>1. frames_found' = [id \in FoundKeys(corr) \ (dropped \cup graduated)
                           |-> FoundAfter(corr)[id]]
    BY DEF CountingStep
  <2>2. ASSUME NEW id \in Id
        PROVE  (IF id \in real' THEN 0 ELSE Counter(frames_found, id)')
                 = IF id \in sighted \ (real \cup graduated) THEN Hits[id] + 1 ELSE 0
    <3>1. CASE id \in sighted \ (real \cup graduated)
      <4>1. id \in FoundKeys(corr) \ (dropped \cup graduated) /\ id \notin real'
        BY <1>4, <1>5, <1>6, <1>9, <3>1
      <4>2. FoundAfter(corr)[id] = Counter(frames_found, id) + 1
        BY <1>4, <3>1, <4>1 DEF FoundAfter
      <4>3. QED
        BY <1>7, <2>1, <3>1, <4>1, <4>2 DEF Counter
    <3>2. CASE id \notin sighted \ (real \cup graduated) /\ id \notin real'
      <4>1. CASE id \in DOMAIN frames_found'
        <5>1. id \in FoundKeys(corr) /\ id \in Known(corr) \ sighted
          BY <1>4, <1>9, <2>1, <3>2, <4>1
        <5>2. FoundAfter(corr)[id] = 0
          BY <5>1 DEF FoundAfter
        <5>3. QED
          BY <2>1, <3>2, <4>1, <5>2 DEF Counter
      <4>2. CASE id \notin DOMAIN frames_found'
        BY <3>2, <4>2 DEF Counter
      <4>3. QED
        BY <4>1, <4>2
    <3>3. CASE id \in real'
      BY <1>5, <1>9, <3>3
    <3>4. QED
      BY <3>1, <3>2, <3>3
  <2>3. QED
    BY <2>2, Zenon DEF Hits
<1>12. Misses' = [id \in Id |-> IF id \in real \ (sighted \cup (dropped \cap real))
                                THEN Misses[id] + 1 ELSE 0]
  <2>1. frames_lost' = [id \in Known(corr) \ dropped |-> LostAfter(corr)[id]]
    BY DEF CountingStep
  <2>2. \A id \in Known(corr) :
          LostAfter(corr)[id] = IF id \in sighted THEN 0 ELSE Counter(frames_lost, id) + 1
    BY <1>4 DEF LostAfter
  <2>3. ASSUME NEW id \in Id
        PROVE  (IF id \in real' THEN Counter(frames_lost, id)' ELSE 0)
                 = IF id \in real \ (sighted \cup (dropped \cap real))
                   THEN Misses[id] + 1 ELSE 0
    <3>1. CASE id \in real \ (sighted \cup (dropped \cap real))
      BY <1>6, <1>7, <1>9, <2>1, <2>2, <3>1 DEF Counter
    <3>2. CASE id \in real' /\ id \in sighted
      BY <1>5, <1>6, <2>1, <2>2, <3>2 DEF Counter
    <3>3. CASE id \notin real'
      BY <1>9, <3>3
    <3>4. QED
      BY <1>5, <1>9, <3>1, <3>2, <3>3
  <2>4. QED
    BY <2>3, Zenon DEF Misses
<1>13. sighted \cap Retired = {}
  <2>1. ASSUME NEW id \in sighted PROVE id \notin Retired
    <3>1. id \in Nat
      BY <1>3, <1>6
    <3>2. QED
      BY <1>2, <1>3, <3>1 DEF Retired
  <2>2. QED
    BY <2>1
<1>14. Retired \cup (dropped \cap real) \subseteq Retired'
  <2>1. DOMAIN tracked_models' = Known(corr) \ dropped
    BY DEF CountingStep
  <2>2. ASSUME NEW id \in Retired PROVE id \in Retired'
    BY <1>2, <1>3, <1>6, <2>1 DEF Retired, Known, Id
  <2>3. ASSUME NEW id \in dropped \cap real PROVE id \in Retired'
    BY <1>4, <1>6, <2>1 DEF Retired, Id
  <2>4. QED
    BY <2>2, <2>3
<1>15. Retired' \in SUBSET (Id \ (sighted \cup real'))
  <2>1. DOMAIN tracked_models' = Known(corr) \ dropped
    BY DEF CountingStep
  <2>2. QED
    BY <1>5, <1>6, <1>9, <2>1 DEF Retired, Id
<1>16. real' = (real \cup Promise!Appearing(sighted)) \ Promise!Vanishing(sighted)
  BY <1>8, <1>10, Zenon
<1>17. Hits' = [id \in Id |-> IF id \in sighted \ (real \cup Promise!Appearing(sighted))
                              THEN Hits[id] + 1 ELSE 0]
  BY <1>8, <1>11, Zenon
<1>18. Misses' = [id \in Id |-> IF id \in real \ (sighted \cup Promise!Vanishing(sighted))
                                THEN Misses[id] + 1 ELSE 0]
  BY <1>8, <1>12, Zenon
<1>19. Retired \cup Promise!Vanishing(sighted) \subseteq Retired'
  BY <1>8, <1>14, Zenon
<1>20. QED
  BY <1>13, <1>15, <1>16, <1>17, <1>18, <1>19, Zenon
     DEF Promise!Observe, Hits, Misses, Retired

(* Every step of the tracker is a frame of Hysteresis, or none of its.     *)
LEMMA PromiseStep == IInv /\ [Next]_vars => [Promise!Next]_(Promise!vars)
<1> SUFFICES ASSUME IInv, [Next]_vars PROVE [Promise!Next]_(Promise!vars)
  OBVIOUS
<1>1. ASSUME NEW det \in Detections, NEW corr, NEW dropped, NEW graduated,
             FrameStep(det, corr, dropped, graduated)
      PROVE  Promise!Next
  <2>1. CountingInv /\ CountingStep(det, corr, dropped, graduated)
    BY <1>1, InvCounts DEF FrameStep
  <2>2. DOMAIN corr \in SUBSET Id /\ Promise!Observe(DOMAIN corr)
    BY <2>1, CorrespondenceType, FrameIsObserved DEF CountingStep, CountingInv
  <2>3. QED
    BY <2>1, <2>2, Zenon DEF Promise!Next
<1>2. CASE \E det \in Detections : TrackFrame(det)
  BY <1>1, <1>2, TrackFrameIsFrameStep
<1>3. CASE PassEmptyFrame
  BY <1>3 DEF PassEmptyFrame, Promise!vars, Counter
<1>4. CASE UNCHANGED vars
  BY <1>4 DEF vars, Promise!vars, Counter
<1>5. QED
  BY <1>2, <1>3, <1>4 DEF Next

(* The tracker keeps the low-pass promise: whatever the frames hold, a     *)
(* model becomes real, and stops being real, exactly when Hysteresis says. *)
THEOREM PromiseIsKept == Spec => KeepsPromise
<1>1. Init => Promise!Init
  BY PromiseInit
<1>2. IInv /\ [Next]_vars => [Promise!Next]_(Promise!vars)
  BY PromiseStep
<1>3. QED
  BY <1>1, <1>2, Invariance, PTL DEF Spec, KeepsPromise, Promise!Spec
=============================================================================
