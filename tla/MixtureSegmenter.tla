-------------------------- MODULE MixtureSegmenter --------------------------
(***************************************************************************)
(* The Gaussian mixture segmenter                                          *)
(* (src/src/lepp3/obstacles/segmenter/gmm/GmmSegmenter.cpp), its Kalman    *)
(* filters (src/src/lepp3/KalmanObstacleTracker.cpp) and the visualizer    *)
(* that watches its states.  States live in a vector; a state is removed   *)
(* by swapping it with the last one, an obstacle's id is the index its     *)
(* state had, and filters and drawings are kept by that id.                *)
(*                                                                         *)
(* What the EM algorithm computes from a cloud is a choice: which states   *)
(* have little weight, which reach into a second cluster, how many         *)
(* clusters no state covers.  Indices begin at 1, as the ids do.  Names    *)
(* tell states apart for the properties; the code has none.                *)
(***************************************************************************)
EXTENDS Integers, Sequences, FiniteSets, FiniteSetsExt

CONSTANTS
  enableKalmanFilter,    (* of the parameters                              *)
  WATCHED,               (* whether the visualizer observes the states     *)
  Name,                  (* any values; bounds the states there are at once  *)
  NUM_SPLIT_LIFE_TIME,   (* numSplitLifeTimeFrames (20)                    *)
  NUM_SPLIT_FRAMES,      (* numSplitFrames (6)                             *)
  MIN_PERSISTENT_FRAMES  (* minPersistentFrames (1)                        *)

ASSUME MixtureAssumption ==
  /\ IsFiniteSet(Name) /\ Name # {}
  /\ NUM_SPLIT_LIFE_TIME \in Nat
  /\ NUM_SPLIT_FRAMES \in Nat \ {0}
  /\ MIN_PERSISTENT_FRAMES \in Nat

VARIABLES
  initialized,   (* initialized_                                           *)
  step,          (* where in extractObstacleParams: "idle", "clean",       *)
                 (* "m_step" or "remove"                                   *)
  k,             (* the loop variable of m_step                            *)
  states,        (* states_                                                *)
  newStates,     (* the names of the states to add                         *)
  removed,       (* the indices in removedStates, a set: it is sorted      *)
  obstacles,     (* frameData->obstacleParams: id -> name of its state     *)
  filters,       (* the ids in kalmanFilter_.states_                       *)
  drawn,         (* the indices in gmm_visualizations                      *)
  (* What only the properties read.                                        *)
  kept,          (* the states nothing has spoken against in this frame    *)
  inherited,     (* the filters that began with another state than the one *)
                 (* that has the index now                                 *)
  apart,         (* name -> the frames in a row it reached into two        *)
                 (* clusters, up to NUM_SPLIT_FRAMES                       *)
  seen           (* name -> the frames it had weight in, up to LIFE        *)

vars == <<initialized, step, k, states, newStates, removed, obstacles, filters,
          drawn, kept, inherited, apart, seen>>

(* Life times are compared with two limits and saturate at the larger one. *)
LIFE == Max({NUM_SPLIT_LIFE_TIME, MIN_PERSISTENT_FRAMES})

UpTo(n, bound) == IF n < bound THEN n ELSE bound

Names == {states[i].name : i \in DOMAIN states}

(* A name is used again when nothing that is compared has it any more.     *)
Unused == Name \ (Names \cup {newStates[i] : i \in DOMAIN newStates}
                    \cup {obstacles[id] : id \in DOMAIN obstacles})

(* Some n unused names.                                                    *)
Take(n) ==
  CHOOSE s \in [1 .. n -> Unused] : \A i, j \in 1 .. n : s[i] = s[j] => i = j

(* GMM::State::State                                                       *)
NewState(name) ==
  [name |-> name, lifeTime |-> 0, splitCounter |-> 0, resets |-> 0]

-----------------------------------------------------------------------------
Init ==
  /\ initialized = FALSE
  /\ step = "idle" /\ k = 0
  /\ states = <<>> /\ newStates = <<>> /\ removed = {}
  /\ obstacles = <<>> /\ filters = {} /\ drawn = {}
  /\ kept = {} /\ inherited = {}
  /\ apart = [n \in Name |-> 0] /\ seen = [n \in Name |-> 0]

(* updateFrame without a ground plane yet, or without points: the frame is *)
(* handed on with no obstacles.                                            *)
PassOn ==
  /\ step = "idle"
  /\ obstacles' = <<>>
  /\ UNCHANGED <<initialized, step, k, states, newStates, removed, filters, drawn,
                 kept, inherited, apart, seen>>

(* extractObstacleParams: initialize fits a state to the whole first       *)
(* cloud.  States whose covariance the last frame left without an inverse  *)
(* are to be removed first.                                                *)
Begin ==
  /\ step = "idle"
  /\ states' = IF initialized THEN states ELSE <<NewState(CHOOSE x \in Name : TRUE)>>
  /\ \E broken \in SUBSET DOMAIN states' :
       /\ removed' = broken
       /\ kept' = {states'[i].name : i \in DOMAIN states' \ broken}
  /\ initialized' = TRUE
  /\ step' = "clean"
  /\ obstacles' = <<>>
  /\ UNCHANGED <<k, newStates, filters, drawn, inherited,
                 apart, seen>>

(* A faulty variant: in the order they were found.                         *)
NextRemoved_Ascending == Min(removed)

(* removedStates is sorted so that the last one comes first.               *)
NextRemoved == Max(removed)

(* removeState, for one of removedStates.                                  *)
RemoveState ==
  /\ step \in {"clean", "remove"} /\ removed # {}
  /\ LET index == NextRemoved
         last == Len(states)
     IN  /\ index <= last
         /\ drawn' = drawn \ {index}
         /\ states' = [i \in 1 .. last - 1 |-> states[IF i = index THEN last ELSE i]]
         /\ removed' = removed \ {index}
         /\ inherited' = inherited \cup ({index, last} \cap filters)
  /\ UNCHANGED <<initialized, step, k, newStates, obstacles, filters, kept, apart, seen>>

(* e_step, and a new state for every cluster that no state covers.         *)
EStep ==
  /\ step = "clean" /\ removed = {}
  /\ \E n \in 0 .. Cardinality(Unused) : newStates' = Take(n)
  /\ step' = "m_step" /\ k' = 1
  /\ UNCHANGED <<initialized, states, removed, obstacles, filters, drawn, kept, inherited, apart, seen>>

-----------------------------------------------------------------------------
(* A faulty variant: a frame that speaks against it does not count.        *)
SplitCount_NotReset(s, spread) ==
  IF s.lifeTime >= NUM_SPLIT_LIFE_TIME /\ spread THEN s.splitCounter + 1 ELSE s.splitCounter

(* m_step: the counter of the frames in a row that spoke for a split.      *)
SplitCount(s, spread) ==
  IF s.lifeTime >= NUM_SPLIT_LIFE_TIME /\ spread THEN s.splitCounter + 1 ELSE 0

Lived(s) == [s EXCEPT !.lifeTime = UpTo(@ + 1, LIFE)]

(* Whether the second cluster is mostly other states': it then is not      *)
(* split but reset, unless that was done before.                           *)
IsReset(s, covered) == covered /\ s.resets <= 1

Update(s) == states' = [states EXCEPT ![k] = Lived(s)]

Witness(spread) ==
  LET name == states[k].name
  IN  /\ apart' = [apart EXCEPT ![name] = IF spread THEN UpTo(@ + 1, NUM_SPLIT_FRAMES) ELSE 0]
      /\ seen' = [seen EXCEPT ![name] = UpTo(@ + 1, LIFE)]

Doom == /\ removed' = removed \cup {k}
        /\ kept' = kept \ {states[k].name}

(* The state's mixing coefficient is low: it is not looked at further.     *)
LowWeight ==
  /\ Doom
  /\ UNCHANGED <<states, newStates, filters, inherited, apart, seen>>

MaximizeOnly(spread) ==
  LET s == states[k]
      count == SplitCount(s, spread)
  IN  /\ count < NUM_SPLIT_FRAMES
      /\ Update([s EXCEPT !.splitCounter = count])
      /\ Witness(spread)
      /\ UNCHANGED <<newStates, removed, filters, inherited, kept>>

(* kalmanFilter_.reset goes with it.                                       *)
ResetState ==
  LET s == states[k]
  IN  /\ SplitCount(s, TRUE) >= NUM_SPLIT_FRAMES
      /\ IsReset(s, TRUE)
      /\ Update([NewState(s.name) EXCEPT !.resets = s.resets + 1])
      /\ filters' = filters \ {k}
      /\ inherited' = inherited \ {k}
      /\ Witness(TRUE)
      /\ UNCHANGED <<newStates, removed, kept>>

(* Two new states take its place.                                          *)
SplitState(covered) ==
  LET s == states[k]
  IN  /\ SplitCount(s, TRUE) >= NUM_SPLIT_FRAMES
      /\ ~ IsReset(s, covered)
      /\ Cardinality(Unused) >= 2
      /\ Doom
      /\ newStates' = newStates \o Take(2)
      /\ Update([s EXCEPT !.splitCounter = SplitCount(s, TRUE)])
      /\ Witness(TRUE)
      /\ UNCHANGED <<filters, inherited>>

MStep ==
  /\ step = "m_step" /\ k <= Len(states)
  /\ \/ LowWeight
     \/ \E spread \in BOOLEAN : MaximizeOnly(spread)
     \/ ResetState
     \/ \E covered \in BOOLEAN : SplitState(covered)
  /\ k' = k + 1
  /\ UNCHANGED <<initialized, step, obstacles, drawn>>

(* A faulty variant: every state is.                                       *)
Persistent_All == DOMAIN states

(* The states old enough to be obstacles.                                  *)
Persistent == {i \in DOMAIN states : states[i].lifeTime >= MIN_PERSISTENT_FRAMES}

(* The results: the states that have points enough, under their indices,   *)
(* those about to be removed included.                                     *)
Results ==
  /\ step = "m_step" /\ k > Len(states)
  /\ \E dense \in SUBSET Persistent : obstacles' = [i \in dense |-> states[i].name]
  /\ step' = "remove" /\ k' = 0
  /\ UNCHANGED <<initialized, states, newStates, removed, filters, drawn, kept, inherited, apart, seen>>

(* The new states are added; the observers see all; update runs the        *)
(* filters on the obstacles under the indices their states had, and gives  *)
(* one to an id that has none.                                             *)
Finish ==
  /\ step = "remove" /\ removed = {}
  /\ LET all == states \o [i \in DOMAIN newStates |-> NewState(newStates[i])]
         names == {all[i].name : i \in DOMAIN all}
         fresh == {newStates[i] : i \in DOMAIN newStates}
     IN  /\ states' = all
         /\ kept' = names
         /\ drawn' = IF WATCHED THEN drawn \cup DOMAIN all ELSE drawn
         /\ filters' = IF enableKalmanFilter THEN filters \cup DOMAIN obstacles ELSE filters
         /\ inherited' = inherited \cup
              {id \in filters' \ filters :
                 ~ (id \in DOMAIN all /\ all[id].name = obstacles[id])}
         /\ apart' = [n \in Name |-> IF n \in names \ fresh THEN apart[n] ELSE 0]
         /\ seen' = [n \in Name |-> IF n \in names \ fresh THEN seen[n] ELSE 0]
  /\ newStates' = <<>>
  /\ step' = "idle"
  /\ UNCHANGED <<initialized, k, removed, obstacles>>

Next == PassOn \/ Begin \/ RemoveState \/ EStep \/ MStep \/ Results \/ Finish

Spec == Init /\ [][Next]_vars
-----------------------------------------------------------------------------
(* Removal by swapping with the last state, in whatever order the states   *)
(* were found, takes out exactly the states that had a reason to go: the   *)
(* indices still to remove are always those of states that are not kept,   *)
(* and what is kept is there.  (GmmSegmenter.cpp:178, "sort in descending  *)
(* order for this to work".)                                               *)
RemovalIsExact ==
  /\ kept \subseteq Names
  /\ \A i \in DOMAIN states : i \in removed <=> states[i].name \notin kept
  /\ removed \subseteq DOMAIN states

(* A state is split only after it reached into two clusters in             *)
(* NUM_SPLIT_FRAMES frames in a row, wherever swaps moved it meanwhile.    *)
SplitIsEarned ==
  [][step = "m_step" /\ Len(newStates') > Len(newStates)
       => apart'[states[k].name] = NUM_SPLIT_FRAMES]_vars

(* What is handed on as an obstacle was observed in as many frames as it   *)
(* takes to be real, resets and swaps in between or not.                   *)
ObstaclesAreReal ==
  step = "remove" => \A id \in DOMAIN obstacles : seen[obstacles[id]] >= MIN_PERSISTENT_FRAMES

(* Refuted: an obstacle that is new gets a filter of its own               *)
(* (KalmanObstacleTracker.hpp:33); that of the state which had its index   *)
(* goes on with the new one's positions.                                   *)
FiltersAreOwn ==
  [][Results => DOMAIN obstacles' \cap inherited = {}]_vars
=============================================================================
