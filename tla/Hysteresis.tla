----------------------------- MODULE Hysteresis -----------------------------
(***************************************************************************)
(* What lepp3's two low-pass trackers promise the rest of the pipeline     *)
(* (class comments of LowPassObstacleTracker and SurfaceTracker): a model  *)
(* becomes real only after it was sighted in FOUND_LIMIT consecutive       *)
(* frames, it stops being real only after LOST_LIMIT consecutive frames    *)
(* without it, and an id that was given up is never seen again.            *)
(*                                                                         *)
(* The specification knows nothing of geometry, lists or iterators: a      *)
(* frame is the set of ids sighted in it.                                  *)
(***************************************************************************)
EXTENDS Naturals

CONSTANTS
  Id,           (* the ids a model may be given                            *)
  FOUND_LIMIT,  (* sightings in a row that make a model real               *)
  LOST_LIMIT    (* frames in a row without it that make it unreal          *)

VARIABLES
  real,      (* the models presented as real                               *)
  hits,      (* hits[id]: sightings in a row of a model not yet real       *)
  misses,    (* misses[id]: frames in a row without a real model           *)
  retired    (* ids that will not be used again                            *)

vars == <<real, hits, misses, retired>>

Init ==
  /\ real    = {}
  /\ hits    = [id \in Id |-> 0]
  /\ misses  = [id \in Id |-> 0]
  /\ retired = {}

Appearing(sighted) == {id \in sighted \ real : hits[id] + 1 >= FOUND_LIMIT}

Vanishing(sighted) == {id \in real \ sighted : misses[id] + 1 >= LOST_LIMIT}

(* One frame in which exactly the models of `sighted` were seen.           *)
Observe(sighted) ==
  /\ sighted \cap retired = {}
  /\ real' = (real \cup Appearing(sighted)) \ Vanishing(sighted)
  /\ hits' = [id \in Id |-> IF id \in sighted \ (real \cup Appearing(sighted))
                            THEN hits[id] + 1 ELSE 0]
  /\ misses' = [id \in Id |-> IF id \in real \ (sighted \cup Vanishing(sighted))
                              THEN misses[id] + 1 ELSE 0]
  /\ retired \cup Vanishing(sighted) \subseteq retired'
  /\ retired' \in SUBSET (Id \ (sighted \cup real'))

Next == \E sighted \in SUBSET Id : Observe(sighted)

Spec == Init /\ [][Next]_vars
=============================================================================
