---------------------------- MODULE HullReduction ----------------------------
(***************************************************************************)
(* reduceConvHullPoints of src/src/lepp3/ConvexHullDetector.hpp: points of *)
(* a convex hull are removed until NUM_HULL_POINTS are left, always the one*)
(* that spans the smallest triangle with its neighbours.                   *)
(*                                                                         *)
(* The code keeps a triangle per point, linked to the triangles left and   *)
(* right of it and pointing to three points of the hull, and a std::set of *)
(* triangles ordered by area and number.  A triangle is its number here,   *)
(* its mid is the hull point of that number; points have two coordinates,  *)
(* since a hull is planar.                                                 *)
(***************************************************************************)
EXTENDS Integers, Sequences, FiniteSets, FiniteSetsExt, SequencesExt

CONSTANTS
  Hulls,            (* what the convex hull algorithm returns (external)   *)
  NUM_HULL_POINTS

VARIABLES
  hull,           (* the points, in order around the hull                  *)
  queue,          (* the triangles in the PrioQ                            *)
  left_triangle, right_triangle,  (* neighbours of each triangle           *)
  left, right,    (* left and right point of each triangle                 *)
  area,           (* key of each triangle                                  *)
  reduced         (* the hull handed back; <<>> while the loop runs        *)

vars == <<hull, queue, left_triangle, right_triangle, left, right, area, reduced>>

(* Twice the area of the triangle a, b, c, with a sign for the turn in b.  *)
Cross(a, b, c) ==
  (a[1] - b[1]) * (c[2] - b[2]) - (a[2] - b[2]) * (c[1] - b[1])

(* computeArea                                                             *)
Area(a, b, c) == Cross(a, b, c) * Cross(a, b, c)

(* The index after and before i around a sequence of n.                    *)
After(i, n) == (i % n) + 1
Before(i, n) == ((i + n - 2) % n) + 1

(* Turns the same way in every point, and goes around only once.           *)
IsConvex(s) ==
  \A i \in DOMAIN s, j \in DOMAIN s :
    j \notin {i, After(i, Len(s))} => Cross(s[i], s[After(i, Len(s))], s[j]) < 0

Init ==
  /\ hull \in Hulls
  /\ queue = DOMAIN hull
  /\ left_triangle = [i \in DOMAIN hull |-> Before(i, Len(hull))]
  /\ right_triangle = [i \in DOMAIN hull |-> After(i, Len(hull))]
  /\ left = [i \in DOMAIN hull |-> Before(i, Len(hull))]
  /\ right = [i \in DOMAIN hull |-> After(i, Len(hull))]
  /\ area = [i \in DOMAIN hull |->
               Area(hull[Before(i, Len(hull))], hull[i], hull[After(i, Len(hull))])]
  /\ reduced = <<>>

(* Triangle::compare: by area, then by number                              *)
Less(t, u) == area[t] < area[u] \/ (area[t] = area[u] /\ t < u)

(* deleteMin                                                               *)
First == CHOOSE t \in queue : \A u \in queue \ {t} : Less(t, u)

(* A faulty variant: only the left neighbour's right point is replaced.    *)
LeftAfter_Kept(t) == left

LeftAfter(t) == [left EXCEPT ![right_triangle[t]] = left[t]]

RightAfter(t) == [right EXCEPT ![left_triangle[t]] = right[t]]

(* A faulty variant: the keys are not computed anew.                       *)
AreaAfter_Kept(t) == area

(* changeKey of both neighbours                                            *)
AreaAfter(t) ==
  [u \in DOMAIN area |->
     IF u \in {left_triangle[t], right_triangle[t]}
     THEN Area(hull[LeftAfter(t)[u]], hull[u], hull[RightAfter(t)[u]])
     ELSE area[u]]

(* One turn of the loop that deletes triangles.                            *)
DeletePoint ==
  /\ reduced = <<>>
  /\ Cardinality(queue) > NUM_HULL_POINTS
  /\ LET t == First IN
       /\ queue' = queue \ {t}
       /\ right_triangle' = [right_triangle EXCEPT ![left_triangle[t]] = right_triangle[t]]
       /\ left_triangle' = [left_triangle EXCEPT ![right_triangle[t]] = left_triangle[t]]
       /\ left' = LeftAfter(t)
       /\ right' = RightAfter(t)
       /\ area' = AreaAfter(t)
  /\ UNCHANGED <<hull, reduced>>

(* The triangles met when going left from t, n of them.                    *)
Leftwards(t, n) ==
  LET walk[i \in 1 .. n] == IF i = 1 THEN t ELSE left_triangle[walk[i - 1]] IN walk

(* The new hull starts at the smallest triangle left and goes leftwards; a *)
(* hull that was small enough is handed back as it is.                     *)
Collect ==
  /\ reduced = <<>>
  /\ Cardinality(queue) <= NUM_HULL_POINTS
  /\ reduced' = IF Len(hull) <= NUM_HULL_POINTS THEN hull
                ELSE LET walk == Leftwards(First, NUM_HULL_POINTS)
                     IN  [i \in DOMAIN walk |-> hull[walk[i]]]
  /\ UNCHANGED <<hull, queue, left_triangle, right_triangle, left, right, area>>

Next == DeletePoint \/ Collect

Spec == Init /\ [][Next]_vars

-----------------------------------------------------------------------------
(* The triangles that are left form a ring: each one's points are the mids *)
(* of its neighbours, its key is the area they span, and going leftwards   *)
(* from any of them one meets all of them before one meets it again.       *)
RingIsSound ==
  \A t \in queue :
    /\ {left_triangle[t], right_triangle[t]} \subseteq queue
    /\ right_triangle[left_triangle[t]] = t
    /\ left[t] = left_triangle[t] /\ right[t] = right_triangle[t]
    /\ area[t] = Area(hull[left_triangle[t]], hull[t], hull[right_triangle[t]])
    /\ ToSet(Leftwards(t, Cardinality(queue))) = queue

(* The reference: what the comment on the method describes, on the         *)
(* sequence itself.                                                        *)
SpannedArea(s, i) == Area(s[Before(i, Len(s))], s[i], s[After(i, Len(s))])

Smallest(s) ==
  Min({i \in DOMAIN s : \A j \in DOMAIN s : SpannedArea(s, i) <= SpannedArea(s, j)})

Shrunk ==
  LET shrink[n \in Nat] ==
        IF n >= Len(hull) THEN hull
        ELSE RemoveAt(shrink[n + 1], Smallest(shrink[n + 1]))
  IN  shrink[NUM_HULL_POINTS]

(* The points handed back are those of the reference, in the opposite      *)
(* direction around a convex hull.                                         *)
ReductionIsGreedy ==
  reduced # <<>> =>
    /\ ToSet(reduced) = ToSet(Shrunk)
    /\ Len(reduced) = Len(Shrunk)
    /\ IsConvex(reduced) \/ IsConvex(Reverse(reduced))
=============================================================================
