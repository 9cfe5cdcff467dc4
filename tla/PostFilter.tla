----------------------------- MODULE PostFilter -----------------------------
(***************************************************************************)
(* The filtered video source (src/src/lepp3/FilteredVideoSource.hpp) with  *)
(* its point filters and one of the two filters that remember the points   *)
(* of earlier frames (src/src/lepp3/filter/cloud/post).  One frame is one  *)
(* action: the source calls newFrame, newPoint for each point its filters  *)
(* let pass, and getFiltered.                                              *)
(*                                                                         *)
(* The cells of a centimetre that points fall in are numbers on a line.    *)
(* ProbFilter keeps a word of WIDTH bits per cell, Pt1Filter a float,      *)
(* here in hundredths.  A word is the set of its bits that are set, the    *)
(* lowest one being 0.                                                     *)
(***************************************************************************)
EXTENDS Integers, FiniteSets, FiniteSetsExt

CONSTANTS
  Kind,        (* the filters to run, of "prob" and "pt1"                  *)
  Cell,        (* integers: the cells points can be in                     *)
  MaxPoints,   (* bounds the points in a cell in one frame                 *)
  WIDTH,       (* bits of a history (32)                                   *)
  THRESHOLD,   (* bits that must be set (10)                               *)
  LEEWAY       (* how far the bounding box is widened (10)                 *)

VARIABLES
  kind,        (* which filter post_filter_ is                             *)
  all_points,  (* all_points_: cell -> its history or value                *)
  filtered,    (* the cells of the cloud the last frame was given          *)
  (* What only the properties read.                                        *)
  seenIn,      (* ProbFilter: cell -> the last WIDTH frames, a bit each    *)
  run          (* Pt1Filter: cell -> the frames in a row it was in, or if  *)
               (* negative was not in, up to RUN                           *)

vars == <<kind, all_points, filtered, seenIn, run>>

RUN == 9

Frames == [Cell -> 0 .. MaxPoints]

Known == DOMAIN all_points

-----------------------------------------------------------------------------
(* The filters that a point passes before the post filter.  Without a pose *)
(* the transformation is null, and RobotOdoTransformer drops every point;  *)
(* what the others drop is not in the frame to begin with.                 *)
Passing(frame, posed) == [c \in Cell |-> IF posed THEN frame[c] ELSE 0]

ThisFrame(frame) == {c \in Cell : frame[c] > 0}

(* A word shifted to the left, whose lowest bit becomes set or not.        *)
Shifted(h, low) == {i \in 0 .. WIDTH - 1 : IF i = 0 THEN low ELSE i - 1 \in h}

(* ProbFilter::newPoint, for each of n points: a bit per point.            *)
NewPoints(h, n) ==
  LET after[i \in 0 .. n] == IF i = 0 THEN h ELSE Shifted(after[i - 1], TRUE)
  IN  after[n]

(* A faulty variant: nothing is entered for a cell without a point.        *)
History_NoMiss(frame, c) ==
  LET h == IF c \in Known THEN all_points[c] ELSE {}
  IN  NewPoints(h, frame[c])

(* ProbFilter::getFiltered: a cell without a point gets a 0.               *)
History(frame, c) ==
  LET h == IF c \in Known THEN all_points[c] ELSE {}
  IN  IF frame[c] > 0 THEN NewPoints(h, frame[c]) ELSE Shifted(h, FALSE)

(* The box around the points of the frame is widened once per cell that is *)
(* visited, and the cells come in the order of their hashes; without a     *)
(* point it is empty.                                                      *)
OutOfBox(frame, rank) ==
  {c \in DOMAIN rank :
     \/ ThisFrame(frame) = {}
     \/ c < Min(ThisFrame(frame)) - LEEWAY * rank[c]
     \/ c > Max(ThisFrame(frame)) + LEEWAY * rank[c]}

Ranks(keys) ==
  {rank \in [keys -> 1 .. Cardinality(keys)] :
     \A a, b \in keys : rank[a] = rank[b] => a = b}

ProbFrame(frame) ==
  LET keys == Known \cup ThisFrame(frame)
  IN  /\ kind = "prob"
      /\ filtered' = {c \in keys : Cardinality(History(frame, c)) >= THRESHOLD}
      /\ \E rank \in Ranks(keys) :
           all_points' = [c \in keys \ OutOfBox(frame, rank) |-> History(frame, c)]
      /\ seenIn' = [c \in Cell |->
           Shifted(IF c \in Known THEN seenIn[c] ELSE {}, frame[c] > 0)]
      /\ UNCHANGED run

(* Pt1Filter::newPoint and getFiltered, in hundredths: 0.9 * v + 0.1 * 10 *)
(* for each point, 0.9 * v for a frame without one; 4.0 is enough.         *)
Faded(v) == (9 * v) \div 10

Raised(v, n) ==
  LET after[i \in 0 .. n] == IF i = 0 THEN v ELSE Faded(after[i - 1]) + 100
  IN  after[n]

(* A faulty variant: a cell without a point keeps its value.               *)
Value_NotFaded(frame, c) ==
  LET v == IF c \in Known THEN all_points[c] ELSE 0
  IN  Raised(v, frame[c])

Value(frame, c) ==
  LET v == IF c \in Known THEN all_points[c] ELSE 0
  IN  IF frame[c] > 0 THEN Raised(v, frame[c]) ELSE Faded(v)

Pt1Frame(frame) ==
  LET keys == Known \cup ThisFrame(frame)
  IN  /\ kind = "pt1"
      /\ all_points' = [c \in keys |-> Value(frame, c)]
      /\ filtered' = {c \in keys : Value(frame, c) >= 400}
      /\ run' = [c \in Cell |->
           IF frame[c] > 0 THEN (IF run[c] < 0 THEN 1 ELSE Min({run[c] + 1, RUN}))
           ELSE (IF run[c] > 0 THEN -1 ELSE Max({run[c] - 1, -RUN}))]
      /\ UNCHANGED seenIn

-----------------------------------------------------------------------------
Init ==
  /\ kind \in Kind
  /\ all_points = [c \in {} |-> 0]
  /\ filtered = {}
  /\ seenIn = [c \in Cell |-> {}]
  /\ run = [c \in Cell |-> -RUN]

(* updateFrame                                                             *)
UpdateFrame ==
  /\ \E frame \in Frames, posed \in BOOLEAN :
       \/ ProbFrame(Passing(frame, posed))
       \/ Pt1Frame(Passing(frame, posed))
  /\ UNCHANGED kind

Next == UpdateFrame

Spec == Init /\ [][Next]_vars
-----------------------------------------------------------------------------
(* However many points a cell has in its frames, one seen in THRESHOLD of  *)
(* the last WIDTH frames (since it was last out of the box) is included,   *)
(* and one seen in none of them is not: the bits that a frame with several *)
(* points shifts out never outnumber those it sets.                        *)
SightingsCount ==
  kind = "prob" =>
    /\ \A c \in Cell : Cardinality(seenIn[c]) >= THRESHOLD => c \in filtered
    /\ \A c \in filtered : seenIn[c] # {}

(* The low-pass filter includes a cell at the latest in the fifth frame in *)
(* a row that has a point in it, and drops it at the latest in the ninth   *)
(* that has none.                                                          *)
LowPassFollows ==
  kind = "pt1" =>
    \A c \in Cell : /\ run[c] >= 5 => c \in filtered
                    /\ run[c] <= -RUN => c \notin filtered
=============================================================================
