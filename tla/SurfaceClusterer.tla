-------------------------- MODULE SurfaceClusterer --------------------------
(***************************************************************************)
(* SurfaceClusterer::updateSurfaces and the VoxelGrid it clusters with     *)
(* (src/src/lepp3/SurfaceClusterer.hpp, util/VoxelGrid.cpp).  Each plane   *)
(* of a frame is projected to two dimensions; the occupied cells of a grid *)
(* are clustered by a depth first search; a cluster with enough points is  *)
(* a surface.                                                              *)
(*                                                                         *)
(* The planes are clustered by several threads.  They share nothing but    *)
(* the surfaces, to which each adds its own in a critical section, so one  *)
(* plane is clustered at a time here, in any order.  A point is its        *)
(* position in the plane, in units that make CLUSTER_TOLERANCE an integer. *)
(***************************************************************************)
EXTENDS Integers, Sequences, FiniteSets, FiniteSetsExt, SequencesExt

CONSTANTS
  Position,          (* positions of points: pairs of natural numbers      *)
  CLUSTER_TOLERANCE, (* the resolution of the grid                         *)
  SafetyMargin,      (* safetyMargin of VoxelGrid::build                   *)
  MIN_CLUSTER_SIZE,
  MaxPoints          (* bounds the points of a frame's planes              *)

VARIABLES
  frame,      (* SurfaceData::planes: a sequence of sets of points         *)
  todo,       (* the planes no thread has taken yet                        *)
  plane,      (* the plane in the grid; 0 if none is                       *)
  numCells,   (* _numCells                                                 *)
  grid,       (* _grid                                                     *)
  stack,      (* the stack of the search                                   *)
  curCluster,
  surfaces    (* SurfaceData::surfaces: sets of points with their planes   *)

vars == <<frame, todo, plane, numCells, grid, stack, curCluster, surfaces>>

EMPTY_CELL == 0
UNVISITED_CELL == 1
CLUSTERED_CELL_START == 2

(* One or two planes; the finder hands on no empty ones.                   *)
Frames ==
  LET Planes == UNION {kSubset(k, Position) : k \in 1 .. MaxPoints}
  IN  {<<p>> : p \in Planes} \cup
      {f \in Planes \X Planes : Cardinality(f[1]) + Cardinality(f[2]) <= MaxPoints}

-----------------------------------------------------------------------------
(* VoxelGrid::build                                                        *)

Border == 2 * CLUSTER_TOLERANCE + SafetyMargin

minBounds(pts) == [d \in 1 .. 2 |-> Min({p[d] : p \in pts}) - Border]

(* A faulty variant: the grid ends at the last point.                      *)
maxBounds_NoBorder(pts) == [d \in 1 .. 2 |-> Max({p[d] : p \in pts})]

maxBounds(pts) == [d \in 1 .. 2 |-> Max({p[d] : p \in pts}) + Border]

(* calcGridSize.  The result of rounding up is dropped there, so what is   *)
(* left is rounded down.                                                   *)
calcGridSize(pts) ==
  [d \in 1 .. 2 |-> (maxBounds(pts)[d] - minBounds(pts)[d]) \div CLUSTER_TOLERANCE]

CellOf(p, pts) ==
  [d \in 1 .. 2 |-> (p[d] - minBounds(pts)[d]) \div CLUSTER_TOLERANCE]

cellToGridIndex(cell, size) == cell[1] + size[1] * cell[2]

EmptyOrUnvisited(pts, size) ==
  LET occupied == {cellToGridIndex(CellOf(p, pts), size) : p \in pts}
  IN  [i \in 0 .. size[1] * size[2] - 1 |->
         IF i \in occupied THEN UNVISITED_CELL ELSE EMPTY_CELL]

(* A faulty variant: one of the neighbours is not looked at.               *)
gridOffsets_NoneAbove == <<-1, -numCells[1], 1>>

(* The four cells that share an edge, in the order of the constructor.     *)
gridOffsets == <<-1, -numCells[1], numCells[1], 1>>

(* The scan starts at cell (1, 1).                                         *)
Seeds ==
  {i \in DOMAIN grid : /\ grid[i] = UNVISITED_CELL
                       /\ i % numCells[1] >= 1
                       /\ i \div numCells[1] >= 1}

(* The stack without its last cell, i, but with the unvisited neighbours.  *)
Pushed(i) ==
  LET Push(cells, o) == IF grid[i + o] = UNVISITED_CELL THEN Append(cells, i + o) ELSE cells
  IN  FoldLeft(Push, Front(stack), gridOffsets)

-----------------------------------------------------------------------------
Init ==
  /\ frame \in Frames
  /\ todo = DOMAIN frame
  /\ plane = 0
  /\ numCells = <<0, 0>>
  /\ grid = <<>>
  /\ stack = <<>>
  /\ curCluster = CLUSTERED_CELL_START
  /\ surfaces = {}

(* A plane's grid is set up, until the scan starts.                        *)
Build(i) ==
  /\ plane = 0
  /\ plane' = i
  /\ todo' = todo \ {i}
  /\ numCells' = calcGridSize(frame[i])
  /\ grid' = EmptyOrUnvisited(frame[i], calcGridSize(frame[i]))
  /\ stack' = <<>>
  /\ curCluster' = CLUSTERED_CELL_START
  /\ UNCHANGED <<frame, surfaces>>

(* The scan meets the first cell of a new cluster.                         *)
StartCluster ==
  /\ stack = <<>>
  /\ Seeds # {}
  /\ stack' = <<Min(Seeds)>>
  /\ UNCHANGED <<frame, todo, plane, numCells, grid, curCluster, surfaces>>

(* The search takes a cell off the stack, on which it may be several times.*)
VisitCell ==
  /\ stack # <<>>
  /\ grid' = [grid EXCEPT ![Last(stack)] = curCluster]
  /\ stack' = Pushed(Last(stack))
  /\ curCluster' = IF stack' = <<>> THEN curCluster + 1 ELSE curCluster
  /\ UNCHANGED <<frame, todo, plane, numCells, surfaces>>

(* clusterForPoint                                                         *)
clusterForPoint(p) ==
  grid[cellToGridIndex(CellOf(p, frame[plane]), numCells)] - CLUSTERED_CELL_START

(* The rest of cluster: the points by their cluster, and the surfaces.     *)
Clusters ==
  {{p \in frame[plane] : clusterForPoint(p) = c} : c \in {clusterForPoint(p) : p \in frame[plane]}}

AddSurfaces ==
  /\ plane # 0
  /\ stack = <<>>
  /\ Seeds = {}
  /\ surfaces' = surfaces \cup
       {[plane |-> plane, points |-> c] :
          c \in {c \in Clusters : Cardinality(c) >= MIN_CLUSTER_SIZE}}
  /\ plane' = 0
  /\ grid' = <<>>
  /\ UNCHANGED <<frame, todo, numCells, stack, curCluster>>

Next ==
  \/ \E i \in todo : Build(i)
  \/ StartCluster
  \/ VisitCell
  \/ AddSurfaces

Spec == Init /\ [][Next]_vars

-----------------------------------------------------------------------------
(* Although the grid's size is rounded down, no point is in a cell at its  *)
(* border: neither a point nor a neighbour that the search looks at is     *)
(* outside the array or in another row of it.                              *)
PointsAreInside ==
  plane # 0 =>
    \A p \in frame[plane], d \in 1 .. 2 :
      CellOf(p, frame[plane])[d] \in 1 .. numCells[d] - 2

(* What cells and their edges mean for points, wherever the grid begins:   *)
(* those that are certainly in one cluster, and those that may be next to  *)
(* each other in one.                                                      *)
Distances(p, q) == {IF p[d] < q[d] THEN q[d] - p[d] ELSE p[d] - q[d] : d \in 1 .. 2}

SurelyTogether(p, q) ==
  0 \in Distances(p, q) /\ Max(Distances(p, q)) <= CLUSTER_TOLERANCE

MaybeTogether(p, q) ==
  Min(Distances(p, q)) < CLUSTER_TOLERANCE /\ Max(Distances(p, q)) < 2 * CLUSTER_TOLERANCE

(* Points are chained in S when no part of S that has the first and all    *)
(* that are related to its points is without the second.                   *)
Chained(R(_, _), S, p, q) ==
  \A T \in SUBSET S : p \in T /\ (\A x \in T, y \in S : R(x, y) => y \in T) => q \in T

(* In the surfaces of a frame, whatever thread added them when: no point   *)
(* is in two; none is divided by a gap of twice the tolerance; and points  *)
(* that follow each other within the tolerance are in one, all of them, or,*)
(* when they are too few and next to no others, in none.                   *)
SurfacesAreClusters ==
  plane = 0 /\ todo = {} =>
    \A i \in DOMAIN frame :
      LET mine == {s.points : s \in {s \in surfaces : s.plane = i}}
      IN  /\ \A s \in mine :
               /\ s \subseteq frame[i]
               /\ \A p, q \in s : Chained(MaybeTogether, s, p, q)
               /\ \A t \in mine \ {s} : s \cap t = {}
          /\ \A p \in frame[i] :
               LET chain == {q \in frame[i] : Chained(SurelyTogether, frame[i], p, q)}
               IN  \/ \E s \in mine : chain \subseteq s
                   \/ /\ Cardinality(chain) < MIN_CLUSTER_SIZE
                      /\ \A s \in mine : chain \cap s = {}
=============================================================================
