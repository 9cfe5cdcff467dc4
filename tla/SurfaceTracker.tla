--------------------------- MODULE SurfaceTracker ---------------------------
(***************************************************************************)
(* The surface tracker (src/src/lepp3/SurfaceTracker.hpp), which runs on   *)
(* clusterTask's thread.  It matches, counts, drops and materializes like  *)
(* the obstacle tracker, from which it was copied, but it replaces a       *)
(* tracked surface by the new one on every match, in the map and, through  *)
(* a stored iterator, in the list that its observers are given.            *)
(*                                                                         *)
(* A surface is a centre and a radius.  The list is a sequence, and the    *)
(* iterators stored in model_idx_in_list_ are positions in it: they move   *)
(* with their elements.                                                    *)
(***************************************************************************)
EXTENDS Integers, Sequences, FiniteSets, Functions

CONSTANTS
  Center,                        (* places a surface can be at             *)
  Radius,                        (* radii a surface can have               *)
  MAX_CENTER_DISTANCE,           (* compared with squared distances        *)
  MAX_RADIUS_DEVIATION_PERCENTAGE,
  FOUND_LIMIT,
  LOST_LIMIT,
  MAX_ID,                        (* bounds next_model_id_                  *)
  MaxSurfaces                    (* bounds the surfaces of one turn        *)

VARIABLES
  next_model_id,       (* next_model_id_                                   *)
  tracked_models,      (* tracked_models_: id -> surface                   *)
  frames_found,        (* frames_found_                                    *)
  frames_lost,         (* frames_lost_                                     *)
  materialized_models, (* materialized_models_: surfaces with their ids    *)
  model_idx_in_list    (* model_idx_in_list_: id -> position in the list   *)

vars == <<next_model_id, tracked_models, frames_found, frames_lost,
          materialized_models, model_idx_in_list>>

Id == 0 .. MAX_ID

Surface == [center : Center, radius : Radius]

NewSurfaces == UNION {[1 .. n -> Surface] : n \in 0 .. MaxSurfaces}

-----------------------------------------------------------------------------
(* getMatchByDistance: an old surface the new one deviates from too much   *)
(* in radius is no match, as if it were too far away.                      *)
SimilarRadius(old, new) ==
  LET deviation == IF new < old THEN old - new ELSE new - old
  IN  100 * deviation < MAX_RADIUS_DEVIATION_PERCENTAGE * old

MatchDistance ==
  [p \in Surface \X Surface |->
     IF SimilarRadius(p[1].radius, p[2].radius)
     THEN (p[1].center - p[2].center) * (p[1].center - p[2].center)
     ELSE MAX_CENTER_DISTANCE + 1]

(* The blender: the new surface, moved half way back to the old one.       *)
Blended ==
  [p \in Surface \X Surface |->
     [p[2] EXCEPT !.center = (p[1].center + p[2].center) \div 2]]

(* What both trackers have in common, line by line.  The list is not among *)
(* it, nor are the frames.                                                 *)
Counting == INSTANCE LowPassObstacleTracker WITH
  Model <- Surface, Distance <- MatchDistance, Blend <- Blended,
  MATCH_DISTANCE <- MAX_CENTER_DISTANCE, REFRESH <- 1, MaxObstacles <- MaxSurfaces,
  model_idx_in_list <- DOMAIN model_idx_in_list,
  materialized_models <- [id \in Id |-> IF id \in DOMAIN model_idx_in_list THEN 1 ELSE 0],
  frameNum <- 0, detected <- <<>>, obstacles <- DOMAIN model_idx_in_list

(* matchToPrevious                                                         *)
Correspondence(new) == Counting!Correspondence(new)

Fresh(new) == Cardinality(Counting!Unmatched(new))

(* updateLostAndFound                                                      *)
FoundAfter(corr) == Counting!FoundAfter(corr)

(* A faulty variant: a sighting does not reset the frames it was lost in.  *)
LostAfter_NotReset(corr) ==
  [id \in DOMAIN frames_lost \cup DOMAIN corr |->
     Counting!Counter(frames_lost, id) + (IF id \in DOMAIN corr THEN 0 ELSE 1)]

LostAfter(corr) == Counting!LostAfter(corr)

(* adaptTracked, the map                                                   *)
Adapted(corr, new) == Counting!Adapted(corr, new, FALSE)

(* dropLostSurface and materializeFoundSurfaces, the maps                  *)
Dropped(lost) == Counting!Dropped(lost)

Graduated(found, dropped) == Counting!Graduated(found, dropped)

-----------------------------------------------------------------------------
(* The list.                                                               *)

WithId(id, s) == [id |-> id, center |-> s.center, radius |-> s.radius]

(* A faulty variant: the list keeps the surfaces it was given first.       *)
ListAdapted_NotReplaced(corr, tracked) == materialized_models

(* adaptTracked: *model_idx_in_list_[id] = tracked_models_[id]             *)
ListAdapted(corr, tracked) ==
  [k \in DOMAIN materialized_models |->
     LET here == {id \in DOMAIN corr \cap DOMAIN model_idx_in_list :
                    model_idx_in_list[id] = k}
     IN  IF here = {} THEN materialized_models[k]
         ELSE LET id == CHOOSE i \in here : TRUE IN WithId(id, tracked[id])]

(* The numbers of a set, from the least to the greatest.                   *)
Ascending(S) ==
  [i \in 1 .. Cardinality(S) |->
     CHOOSE x \in S : Cardinality({y \in S : y < x}) = i - 1]

(* dropLostSurface: erase through the stored iterators.                    *)
Erased(dropped) ==
  {model_idx_in_list[id] : id \in dropped \cap DOMAIN model_idx_in_list}

KeptPositions(dropped) ==
  Ascending(DOMAIN materialized_models \ Erased(dropped))

(* materializeFoundSurfaces goes through frames_found_ in order of the ids.*)
Appended(graduated) == Ascending(graduated)

ListAfter(list, tracked, dropped, graduated) ==
  LET kept == KeptPositions(dropped)
      new  == Appended(graduated)
  IN  [i \in DOMAIN kept |-> list[kept[i]]]
        \o [i \in DOMAIN new |-> WithId(new[i], tracked[new[i]])]

IndexAfter(dropped, graduated) ==
  LET kept == KeptPositions(dropped)
      new  == Appended(graduated)
  IN  [id \in (DOMAIN model_idx_in_list \ dropped) \cup graduated |->
         IF id \in graduated
         THEN Len(kept) + CHOOSE i \in DOMAIN new : new[i] = id
         ELSE CHOOSE i \in DOMAIN kept : kept[i] = model_idx_in_list[id]]

-----------------------------------------------------------------------------
Init ==
  /\ next_model_id = 0
  /\ tracked_models = <<>>
  /\ frames_found = <<>>
  /\ frames_lost = <<>>
  /\ materialized_models = <<>>
  /\ model_idx_in_list = <<>>

(* updateSurfaces                                                          *)
UpdateSurfaces(new) ==
  \E corr \in {Correspondence(new)} :
  \E found \in {FoundAfter(corr)}, lost \in {LostAfter(corr)},
     tracked \in {Adapted(corr, new)} :
    LET dropped   == Dropped(lost)
        graduated == Graduated(found, dropped)
    IN  /\ next_model_id + Fresh(new) <= MAX_ID + 1
        /\ next_model_id' = next_model_id + Fresh(new)
        /\ tracked_models' = Restrict(tracked, DOMAIN tracked \ dropped)
        /\ frames_found' = Restrict(found, DOMAIN found \ (dropped \cup graduated))
        /\ frames_lost' = Restrict(lost, DOMAIN lost \ dropped)
        /\ materialized_models' =
             ListAfter(ListAdapted(corr, tracked), tracked, dropped, graduated)
        /\ model_idx_in_list' = IndexAfter(dropped, graduated)

Next == \E new \in NewSurfaces : UpdateSurfaces(new)

Spec == Init /\ [][Next]_vars

-----------------------------------------------------------------------------
(* What the observers are given is what is tracked: the list holds each    *)
(* real surface once, at the place its iterator points to, and, although   *)
(* every match replaces the tracked object, it is the tracked one.         *)
ListShowsTracked ==
  /\ Len(materialized_models) = Cardinality(DOMAIN model_idx_in_list)
  /\ \A id \in DOMAIN model_idx_in_list :
       /\ id \in DOMAIN tracked_models
       /\ materialized_models[model_idx_in_list[id]] = WithId(id, tracked_models[id])

(* The low-pass promise of the class comment, counted over the turns of    *)
(* clusterTask.                                                            *)
Promise == INSTANCE Hysteresis WITH
  real    <- DOMAIN model_idx_in_list,
  hits    <- [id \in Id |-> IF id \in DOMAIN model_idx_in_list THEN 0
                            ELSE Counting!Counter(frames_found, id)],
  misses  <- [id \in Id |-> IF id \in DOMAIN model_idx_in_list
                            THEN Counting!Counter(frames_lost, id) ELSE 0],
  retired <- {id \in Id : id < next_model_id} \ DOMAIN tracked_models

KeepsPromise == Promise!Spec
=============================================================================
