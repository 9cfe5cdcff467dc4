----------------------------- MODULE NaturalSets -----------------------------
(* Sets of naturals, and what is in numbers only of the proofs about the     *)
(* modules: recursion, rings, sequences in order, grids and turns.           *)
EXTENDS Integers, FiniteSetsExt, FiniteSetTheorems, WellFoundedInduction, TLAPS

(* A nonempty set of naturals has a least element.                         *)
LEMMA NatHasMin ==
  ASSUME NEW S \in SUBSET Nat, S # {}
  PROVE  \E x \in S : \A y \in S : x <= y
<1>1. IsWellFoundedOn(OpToRel(<, Nat), Nat)
  BY NatLessThanWellFounded, Zenon
<1>2. PICK x \in S : \A y \in S : <<y, x>> \notin OpToRel(<, Nat)
  BY <1>1, WFMin, Zenon
<1>3. \A y \in S : ~ (y < x)
  BY <1>2, Zenon DEF OpToRel
<1>4. QED
  BY <1>3

(* Max yields the greatest element of a nonempty set of bounded naturals:  *)
(* its distance to the bound is least.                                     *)
LEMMA MaxIsGreatest ==
  ASSUME NEW n \in Nat, NEW S \in SUBSET (0 .. n), S # {}
  PROVE  /\ Max(S) \in S
         /\ \A y \in S : y <= Max(S)
<1> DEFINE Mirror == {k \in 0 .. n : n - k \in S}
<1>1. PICK s \in S : TRUE
  OBVIOUS
<1>2. n - s \in Mirror
  OBVIOUS
<1>3. PICK m \in Mirror : \A y \in Mirror : m <= y
  <2>1. Mirror \in SUBSET Nat /\ Mirror # {}
    BY <1>2
  <2> HIDE DEF Mirror
  <2>2. QED
    BY <2>1, NatHasMin
<1>4. \A y \in S : n - m >= y
  <2>1. \A y \in S : n - y \in Mirror
    OBVIOUS
  <2>2. QED
    BY <1>3, <2>1
<1>5. QED
  BY <1>3, <1>4 DEF Max

(* Min yields the least element of a nonempty set of naturals.             *)
LEMMA MinIsLeast ==
  ASSUME NEW S \in SUBSET Nat, S # {}
  PROVE  /\ Min(S) \in S
         /\ \A y \in S : Min(S) <= y
<1>1. PICK m \in S : \A y \in S : m <= y
  BY NatHasMin
<1>2. QED
  BY <1>1 DEF Min

(* A finite set of naturals is bounded, or removing an element of the      *)
(* smallest one that is not would leave a smaller one.                     *)
LEMMA FiniteIsBounded ==
  ASSUME NEW S \in SUBSET Nat, IsFiniteSet(S)
  PROVE  \E n \in Nat : S \in SUBSET (0 .. n)
<1> DEFINE Unbounded(R) == /\ R \in SUBSET Nat /\ IsFiniteSet(R)
                           /\ \A n \in Nat : R \notin SUBSET (0 .. n)
           Sizes == {k \in Nat : \E R \in SUBSET Nat : Unbounded(R) /\ Cardinality(R) = k}
<1>1. SUFFICES ASSUME Unbounded(S) PROVE FALSE
  OBVIOUS
<1>2. Cardinality(S) \in Sizes
  BY <1>1, FS_CardinalityType
<1>3. PICK m \in Sizes : \A k \in Sizes : m <= k
  <2>1. Sizes \in SUBSET Nat /\ Sizes # {}
    BY <1>2
  <2> HIDE DEF Sizes
  <2>2. QED
    BY <2>1, NatHasMin
<1>4. PICK R \in SUBSET Nat : Unbounded(R) /\ Cardinality(R) = m
  BY <1>3
<1>5. PICK x \in R : TRUE
  <2>1. {} \in SUBSET (0 .. 0)
    OBVIOUS
  <2>2. R # {}
    BY <1>4, <2>1
  <2>3. QED
    BY <2>2
<1>6. IsFiniteSet(R \ {x}) /\ Cardinality(R \ {x}) = m - 1 /\ m - 1 \in Nat
  <2>1. IsFiniteSet(R) /\ Cardinality(R) = m
    BY <1>4
  <2>2. IsFiniteSet(R \ {x}) /\ Cardinality(R \ {x}) = m - 1
    BY <1>5, <2>1, FS_RemoveElement, Zenon
  <2>3. Cardinality(R \ {x}) \in Nat
    BY <2>2, FS_CardinalityType
  <2>4. QED
    BY <2>2, <2>3
<1>7. ~ Unbounded(R \ {x})
  BY <1>3, <1>6
<1>8. PICK n \in Nat : R \ {x} \in SUBSET (0 .. n)
  BY <1>6, <1>7
<1>9. R \in SUBSET (0 .. (n + x))
  BY <1>5, <1>8
<1>10. QED
  BY <1>4, <1>5, <1>9

(* A value is defined by where it starts and by what follows it.           *)
Recursive(base, step, n, T) ==
  n \in Nat /\ base \in T /\ step \in [(1 .. n) \X T -> T]

Computes(f, base, step, n, T) ==
  /\ f \in [0 .. n -> T]
  /\ f[0] = base
  /\ \A i \in 1 .. n : f[i] = step[<<i, f[i - 1]>>]

(* There is a function defined by that recursion: the least place that has *)
(* none would have one all the same.                                       *)
LEMMA Recursion ==
  ASSUME NEW base, NEW step, NEW n, NEW T, Recursive(base, step, n, T)
  PROVE  \E f : Computes(f, base, step, n, T)
<1> USE DEF Recursive, Computes
<1> DEFINE Follows(f, m) == /\ f \in [0 .. m -> T]
                            /\ f[0] = base
                            /\ \A i \in 1 .. m : f[i] = step[<<i, f[i - 1]>>]
           Bad == {m \in 0 .. n : ~ \E f : Follows(f, m)}
<1>1. SUFFICES Bad = {}
  <2>1. n \notin Bad => \E f : Follows(f, n)
    OBVIOUS
  <2>2. QED
    BY <2>1
<1>2. SUFFICES ASSUME Bad # {} PROVE FALSE
  OBVIOUS
<1>3. PICK m \in Bad : \A k \in Bad : m <= k
  <2>1. Bad \in SUBSET Nat
    OBVIOUS
  <2> HIDE DEF Bad
  <2>2. QED
    BY <1>2, <2>1, NatHasMin
<1>4. CASE m = 0
  <2> DEFINE f == [i \in 0 .. 0 |-> base]
  <2>1. f \in [0 .. 0 -> T] /\ f[0] = base
    OBVIOUS
  <2>2. Follows(f, 0)
    BY <2>1
  <2>3. QED
    BY <1>3, <1>4, <2>2
<1>5. CASE m # 0
  <2>1. m \in 1 .. n /\ m - 1 \in 0 .. n /\ m - 1 \notin Bad
    BY <1>3, <1>5
  <2>2. PICK f : Follows(f, m - 1)
    BY <2>1
  <2> DEFINE g == [i \in 0 .. m |-> IF i = m THEN step[<<m, f[m - 1]>>] ELSE f[i]]
  <2>3. f[m - 1] \in T
    BY <2>1, <2>2
  <2>4. step[<<m, f[m - 1]>>] \in T
    BY <2>1, <2>3
  <2>5. g \in [0 .. m -> T] /\ g[0] = base
    BY <2>1, <2>2, <2>4
  <2>6. ASSUME NEW i \in 1 .. m PROVE g[i] = step[<<i, g[i - 1]>>]
    <3>1. CASE i = m
      <4>1. m \in 0 .. m /\ m - 1 \in 0 .. m /\ m - 1 # m
        BY <2>1
      <4>2. g[m] = step[<<m, f[m - 1]>>] /\ g[m - 1] = f[m - 1]
        BY <4>1
      <4>3. QED
        BY <3>1, <4>2
    <3>2. CASE i # m
      <4>1. i \in 1 .. m - 1 /\ i - 1 \in 0 .. m /\ i - 1 # m
        BY <2>1, <3>2
      <4>2. g[i] = f[i] /\ g[i - 1] = f[i - 1]
        BY <3>2, <4>1
      <4>3. QED
        BY <2>2, <4>1, <4>2
    <3>3. QED
      BY <3>1, <3>2
  <2>7. QED
    BY <1>3, <2>5, <2>6
<1>6. QED
  BY <1>4, <1>5

(* A value of every set of the first n naturals, by its greatest element.  *)
SetRecursive(base, step, n, T) ==
  n \in Nat /\ base \in T /\ step \in [(1 .. n) \X T -> T]

SetComputes(f, base, step, n, T) ==
  /\ f \in [SUBSET (1 .. n) -> T]
  /\ \A s \in SUBSET (1 .. n) :
       f[s] = IF s = {} THEN base ELSE step[<<Max(s), f[s \ {Max(s)}]>>]

(* The greatest of a set of the first naturals, and what is left of it.    *)
LEMMA WithoutMax ==
  ASSUME NEW k \in Nat, NEW s \in SUBSET (1 .. k), s # {}
  PROVE  /\ Max(s) \in s /\ Max(s) \in 1 .. k /\ k \in Nat \ {0}
         /\ s \ {Max(s)} \in SUBSET (1 .. k - 1)
<1>1. s \in SUBSET (0 .. k)
  OBVIOUS
<1>2. PICK m : m = Max(s)
  OBVIOUS
<1>3. m \in s /\ \A y \in s : y <= m
  BY <1>1, <1>2, MaxIsGreatest, Zenon
<1>4. m \in 1 .. k /\ k # 0
  BY <1>3
<1>5. ASSUME NEW y \in s \ {m} PROVE y \in 1 .. k - 1
  <2>1. y \in 1 .. k /\ y <= m /\ y # m
    BY <1>3
  <2>2. QED
    BY <1>4, <2>1
<1>6. QED
  BY <1>2, <1>3, <1>4, <1>5

(* There is a function defined by that recursion, since on the sets that   *)
(* are within the first k it is the same after k steps as after any more.  *)
LEMMA SetRecursion ==
  ASSUME NEW base, NEW step, NEW n, NEW T, SetRecursive(base, step, n, T)
  PROVE  \E f : SetComputes(f, base, step, n, T)
<1> USE DEF SetRecursive
<1> DEFINE Sets     == SUBSET (1 .. n)
           Next(F)  == [s \in Sets |-> IF s = {} THEN base ELSE step[<<Max(s), F[s \ {Max(s)}]>>]]
           start    == [s \in Sets |-> base]
           onward   == [e \in (1 .. n) \X [Sets -> T] |-> Next(e[2])]
<1>1. \A s \in Sets : s # {} => Max(s) \in 1 .. n /\ s \ {Max(s)} \in Sets
  <2>1. SUFFICES ASSUME NEW s \in SUBSET (1 .. n), s # {}
                 PROVE  Max(s) \in 1 .. n /\ s \ {Max(s)} \in SUBSET (1 .. n)
    OBVIOUS
  <2>2. QED
    BY <2>1, WithoutMax
<1>2. ASSUME NEW F \in [Sets -> T] PROVE Next(F) \in [Sets -> T]
  <2>1. SUFFICES ASSUME NEW s \in Sets
                 PROVE  (IF s = {} THEN base ELSE step[<<Max(s), F[s \ {Max(s)}]>>]) \in T
    BY Zenon
  <2>2. CASE s = {}
    BY <2>2
  <2>3. CASE s # {}
    <3>1. Max(s) \in 1 .. n /\ F[s \ {Max(s)}] \in T
      BY <1>1, <2>3, Zenon
    <3>2. step[<<Max(s), F[s \ {Max(s)}]>>] \in T
      BY <3>1
    <3>3. QED
      BY <2>3, <3>2, Zenon
  <2>4. QED
    BY <2>2, <2>3
<1>3. PICK G : Computes(G, start, onward, n, [Sets -> T])
  <2>1. onward \in [(1 .. n) \X [Sets -> T] -> [Sets -> T]]
    <3> HIDE DEF Sets, Next
    <3>1. QED
      BY <1>2
  <2>2. start \in [Sets -> T]
    <3> HIDE DEF Sets
    <3>1. QED
      OBVIOUS
  <2>3. Recursive(start, onward, n, [Sets -> T])
    <3> HIDE DEF start, onward, Sets
    <3>1. QED
      BY <2>1, <2>2 DEF Recursive
  <2> HIDE DEF start, onward, Sets
  <2>4. QED
    BY <2>3, Recursion, Zenon
<1>4. G \in [0 .. n -> [Sets -> T]] /\ G[0] = start
      /\ \A k \in 1 .. n : G[k] = onward[<<k, G[k - 1]>>]
  <2> HIDE DEF start, onward, Sets
  <2>1. QED
    BY <1>3, Zenon DEF Computes
<1>5. ASSUME NEW k \in 1 .. n
      PROVE  \A s \in Sets :
               G[k][s] = IF s = {} THEN base ELSE step[<<Max(s), G[k - 1][s \ {Max(s)}]>>]
  <2> HIDE DEF start, Sets, Next
  <2>1. k - 1 \in 0 .. n
    OBVIOUS
  <2>2. G[k - 1] \in [Sets -> T]
    BY <1>4, <2>1, Zenon
  <2>3. PICK F : F = G[k - 1]
    OBVIOUS
  <2>4. <<k, F>> \in (1 .. n) \X [Sets -> T] /\ <<k, F>>[2] = F
    BY <2>2, <2>3
  <2>5. onward[<<k, F>>] = Next(F)
    BY <2>4, Zenon
  <2> HIDE DEF onward
  <2>6. G[k] = Next(F)
    BY <1>4, <2>3, <2>5, Zenon
  <2>7. \A s \in Sets : Next(F)[s] = IF s = {} THEN base ELSE step[<<Max(s), F[s \ {Max(s)}]>>]
    BY Zenon DEF Next
  <2>8. QED
    BY <2>2, <2>3, <2>6, <2>7, Zenon
<1> DEFINE Same(k) == \A s \in SUBSET (1 .. k - 1) : G[k][s] = G[k - 1][s]
           Bad     == {k \in 1 .. n : ~ Same(k)}
<1>6. Bad = {}
  <2>1. SUFFICES ASSUME Bad # {} PROVE FALSE
    OBVIOUS
  <2>2. PICK k \in Bad : \A l \in Bad : k <= l
    <3>1. Bad \in SUBSET Nat
      OBVIOUS
    <3> HIDE DEF Bad
    <3>2. QED
      BY <2>1, <3>1, NatHasMin
  <2>3. k \in 1 .. n /\ ~ Same(k)
    BY <2>2
  <2>4. PICK s \in SUBSET (1 .. k - 1) : G[k][s] # G[k - 1][s]
    BY <2>3
  <2>5. s \in Sets /\ k - 1 \in Nat
    BY <2>3, <2>4
  <2>6. G[k][s] = IF s = {} THEN base ELSE step[<<Max(s), G[k - 1][s \ {Max(s)}]>>]
    <3> HIDE DEF Sets
    <3>1. QED
      BY <1>5, <2>3, <2>5, Zenon
  <2>7. CASE k = 1
    <3>1. s = {}
      BY <2>4, <2>7
    <3>2. G[0][s] = base
      BY <1>4, <2>5, Zenon
    <3>3. G[k - 1][s] = base
      BY <2>7, <3>2
    <3>4. QED
      BY <2>4, <2>6, <3>1, <3>3, Zenon
  <2>8. CASE k # 1
    <3>1. k - 1 \in 1 .. n /\ ~ (k <= k - 1)
      BY <2>3, <2>8
    <3>2. Same(k - 1)
      <4>1. k - 1 \notin Bad
        <5> HIDE DEF Bad
        <5>1. QED
          BY <2>2, <3>1
      <4>2. QED
        BY <3>1, <4>1, Zenon
    <3>3. G[k - 1][s] = IF s = {} THEN base ELSE step[<<Max(s), G[(k - 1) - 1][s \ {Max(s)}]>>]
      <4> HIDE DEF Sets
      <4>1. QED
        BY <1>5, <2>5, <3>1, Zenon
    <3>4. s # {}
      BY <2>4, <2>6, <3>3, Zenon
    <3>5. s \ {Max(s)} \in SUBSET (1 .. (k - 1) - 1)
      BY <2>4, <2>5, <3>4, WithoutMax, Zenon
    <3>6. G[k - 1][s \ {Max(s)}] = G[(k - 1) - 1][s \ {Max(s)}]
      BY <3>2, <3>5, Zenon
    <3>7. QED
      BY <2>4, <2>6, <3>3, <3>6, Zenon
  <2>9. QED
    BY <2>7, <2>8
<1>7. ASSUME NEW s \in Sets
      PROVE  G[n][s] = IF s = {} THEN base ELSE step[<<Max(s), G[n][s \ {Max(s)}]>>]
  <2>1. CASE n = 0
    <3>1. s = {}
      BY <2>1
    <3>2. G[0][s] = base
      BY <1>4, Zenon
    <3>3. QED
      BY <2>1, <3>1, <3>2
  <2>2. CASE n # 0
    <3>1. n \in 1 .. n
      BY <2>2
    <3>2. G[n][s] = IF s = {} THEN base ELSE step[<<Max(s), G[n - 1][s \ {Max(s)}]>>]
      <4> HIDE DEF Sets
      <4>1. QED
        BY <1>5, <3>1, Zenon
    <3>3. CASE s # {}
      <4>1. s \ {Max(s)} \in SUBSET (1 .. n - 1)
        BY <3>3, WithoutMax
      <4>2. Same(n)
        BY <1>6, <3>1, Zenon
      <4>3. QED
        BY <3>2, <4>1, <4>2, Zenon
    <3>4. CASE s = {}
      BY <3>2, <3>4, Zenon
    <3>5. QED
      BY <3>3, <3>4
  <2>3. QED
    BY <2>1, <2>2
<1>8. G[n] \in [Sets -> T]
  <2> HIDE DEF start, onward, Sets
  <2>1. n \in 0 .. n
    OBVIOUS
  <2>2. QED
    BY <1>4, <2>1, Zenon
<1>9. SetComputes(G[n], base, step, n, T)
  BY <1>7, <1>8, Zenon DEF SetComputes
<1>10. QED
  BY <1>9, Zenon

(* The sets of the first i are what the recursion passes through.          *)
LEMMA Segments ==
  ASSUME NEW n \in Nat, NEW i \in 1 .. n
  PROVE  /\ 1 .. i \in SUBSET (1 .. n) /\ 1 .. i - 1 \in SUBSET (1 .. n)
         /\ 1 .. i # {} /\ Max(1 .. i) = i
         /\ (1 .. i) \ {i} = 1 .. i - 1
<1>1. 1 .. i \in SUBSET (0 .. n) /\ i \in 1 .. i
  OBVIOUS
<1>2. PICK m : m = Max(1 .. i)
  OBVIOUS
<1>3. m \in 1 .. i /\ \A y \in 1 .. i : y <= m
  <2>1. PICK S : S = 1 .. i
    OBVIOUS
  <2>2. Max(S) \in S /\ \A y \in S : y <= Max(S)
    BY <1>1, <2>1, MaxIsGreatest
  <2>3. QED
    BY <1>2, <2>1, <2>2, Zenon
<1>4. m = i
  BY <1>1, <1>3
<1>5. QED
  BY <1>1, <1>2, <1>4

-----------------------------------------------------------------------------
(* Rings: what is left of n things (the triangles of a hull) in a circle,  *)
(* each of which knows the next one left and right of it.                  *)

(* How far it is leftwards from triangle t to u around n of them: all the  *)
(* way to t itself.                                                        *)
StepsLeft(t, u, n) == IF u < t THEN t - u ELSE t - u + n

(* The triangles of Q are linked in their order around the hull: no other  *)
(* is nearer than a neighbour.                                             *)
Linked(Q, n, lt, rt) ==
  \A t \in Q :
    /\ lt[t] \in Q /\ \A u \in Q : StepsLeft(t, lt[t], n) <= StepsLeft(t, u, n)
    /\ rt[t] \in Q /\ \A u \in Q : StepsLeft(rt[t], t, n) <= StepsLeft(u, t, n)

(* Distances around the hull.                                              *)
LEMMA StepsAround ==
  ASSUME NEW n \in Nat
  PROVE  /\ \A t, u \in 1 .. n : StepsLeft(t, u, n) \in 1 .. n
         /\ \A t, u, v \in 1 .. n : StepsLeft(t, u, n) = StepsLeft(t, v, n) => u = v
         /\ \A t, u, v \in 1 .. n : StepsLeft(u, t, n) = StepsLeft(v, t, n) => u = v
         /\ \A t \in 1 .. n : StepsLeft(t, t, n) = n
         /\ \A t, u \in 1 .. n : t # u => StepsLeft(t, u, n) + StepsLeft(u, t, n) = n
         /\ \A t, u, v \in 1 .. n :
              StepsLeft(u, v, n) = StepsLeft(u, t, n) + StepsLeft(t, v, n)
                \/ StepsLeft(u, v, n) = StepsLeft(u, t, n) + StepsLeft(t, v, n) - n
BY DEF StepsLeft

(* When l and r are nearest to t on either side, no v is between them.      *)
LEMMA Detour ==
  ASSUME NEW n \in Nat, NEW t \in 1 .. n, NEW l \in 1 .. n, NEW r \in 1 .. n,
         NEW v \in 1 .. n, v # t, l # t, r # t,
         StepsLeft(t, l, n) <= StepsLeft(t, v, n), StepsLeft(r, t, n) <= StepsLeft(v, t, n)
  PROVE  StepsLeft(r, l, n) <= StepsLeft(r, v, n) /\ StepsLeft(r, l, n) <= StepsLeft(v, l, n)
<1>1. /\ \A a, b \in {t, l, r, v} : StepsLeft(a, b, n) \in 1 .. n
      /\ StepsLeft(t, v, n) + StepsLeft(v, t, n) = n
  BY StepsAround
<1>2. /\ StepsLeft(r, l, n) = StepsLeft(r, t, n) + StepsLeft(t, l, n) \/ StepsLeft(r, l, n) = StepsLeft(r, t, n) + StepsLeft(t, l, n) - n
      /\ StepsLeft(r, v, n) = StepsLeft(r, t, n) + StepsLeft(t, v, n) \/ StepsLeft(r, v, n) = StepsLeft(r, t, n) + StepsLeft(t, v, n) - n
      /\ StepsLeft(v, l, n) = StepsLeft(v, t, n) + StepsLeft(t, l, n) \/ StepsLeft(v, l, n) = StepsLeft(v, t, n) + StepsLeft(t, l, n) - n
  <2>1. StepsLeft(r, l, n) = StepsLeft(r, t, n) + StepsLeft(t, l, n) \/ StepsLeft(r, l, n) = StepsLeft(r, t, n) + StepsLeft(t, l, n) - n
    BY StepsAround
  <2>2. StepsLeft(r, v, n) = StepsLeft(r, t, n) + StepsLeft(t, v, n) \/ StepsLeft(r, v, n) = StepsLeft(r, t, n) + StepsLeft(t, v, n) - n
    BY StepsAround
  <2>3. StepsLeft(v, l, n) = StepsLeft(v, t, n) + StepsLeft(t, l, n) \/ StepsLeft(v, l, n) = StepsLeft(v, t, n) + StepsLeft(t, l, n) - n
    BY StepsAround
  <2>4. QED
    BY <2>1, <2>2, <2>3
<1>3. QED
  BY <1>1, <1>2

(* Two triangles that are nearest to w, as seen from each other, are one.  *)
LEMMA Adjacent ==
  ASSUME NEW n \in Nat, NEW t \in 1 .. n, NEW r \in 1 .. n, NEW w \in 1 .. n,
         \/ StepsLeft(r, w, n) <= StepsLeft(t, w, n) /\ StepsLeft(t, w, n) <= StepsLeft(t, r, n)
         \/ StepsLeft(w, r, n) <= StepsLeft(w, t, n) /\ StepsLeft(w, t, n) <= StepsLeft(r, t, n)
  PROVE  r = t
BY DEF StepsLeft

(* A ring of triangles, of a hull of n points.                             *)
Ring(Q, n, lt, rt) ==
  /\ n \in Nat /\ Q \in SUBSET (1 .. n)
  /\ lt \in [1 .. n -> 1 .. n] /\ rt \in [1 .. n -> 1 .. n]
  /\ Linked(Q, n, lt, rt)

(* The neighbours of a triangle are neighbours of each other's.            *)
LEMMA NeighboursAgree ==
  ASSUME NEW Q, NEW n, NEW lt, NEW rt, Ring(Q, n, lt, rt), NEW t \in Q
  PROVE  rt[lt[t]] = t /\ lt[rt[t]] = t
<1> USE DEF Ring
<1>1. /\ lt[t] \in Q /\ \A u \in Q : StepsLeft(t, lt[t], n) <= StepsLeft(t, u, n)
      /\ rt[t] \in Q /\ \A u \in Q : StepsLeft(rt[t], t, n) <= StepsLeft(u, t, n)
  BY DEF Linked
<1>2. rt[lt[t]] = t
  <2> DEFINE w == lt[t]
             r == rt[w]
  <2>1. w \in Q /\ \A u \in Q : StepsLeft(t, w, n) <= StepsLeft(t, u, n)
    BY <1>1
  <2>2. r \in Q /\ \A u \in Q : StepsLeft(r, w, n) <= StepsLeft(u, w, n)
    BY <2>1 DEF Linked
  <2> HIDE DEF w, r
  <2>3. StepsLeft(r, w, n) <= StepsLeft(t, w, n) /\ StepsLeft(t, w, n) <= StepsLeft(t, r, n)
    BY <2>1, <2>2
  <2>4. w \in 1 .. n /\ r \in 1 .. n /\ t \in 1 .. n
    BY <2>1, <2>2
  <2>5. r = t
    <3>1. n \in Nat
      OBVIOUS
    <3>2. QED
      BY <2>3, <2>4, <3>1, Adjacent
  <2>6. QED
    BY <2>5 DEF r, w
<1>3. lt[rt[t]] = t
  <2> DEFINE w == rt[t]
             r == lt[w]
  <2>1. w \in Q /\ \A u \in Q : StepsLeft(w, t, n) <= StepsLeft(u, t, n)
    BY <1>1
  <2>2. r \in Q /\ \A u \in Q : StepsLeft(w, r, n) <= StepsLeft(w, u, n)
    BY <2>1 DEF Linked
  <2> HIDE DEF w, r
  <2>3. StepsLeft(w, r, n) <= StepsLeft(w, t, n) /\ StepsLeft(w, t, n) <= StepsLeft(r, t, n)
    BY <2>1, <2>2
  <2>4. w \in 1 .. n /\ r \in 1 .. n /\ t \in 1 .. n
    BY <2>1, <2>2
  <2>5. r = t
    <3>1. n \in Nat
      OBVIOUS
    <3>2. QED
      BY <2>3, <2>4, <3>1, Adjacent
  <2>6. QED
    BY <2>5 DEF r, w
<1>4. QED
  BY <1>2, <1>3

(* Without a triangle, its neighbours become neighbours.                   *)
LEMMA StillLinked ==
  ASSUME NEW Q, NEW n, NEW lt, NEW rt, Ring(Q, n, lt, rt), NEW t \in Q
  PROVE  Linked(Q \ {t}, n, [lt EXCEPT ![rt[t]] = lt[t]], [rt EXCEPT ![lt[t]] = rt[t]])
<1> USE DEF Ring
<1> DEFINE l == lt[t]
           r == rt[t]
           newLt == [lt EXCEPT ![r] = l]
           newRt == [rt EXCEPT ![l] = r]
<1>1. /\ l \in Q /\ \A u \in Q : StepsLeft(t, l, n) <= StepsLeft(t, u, n)
      /\ r \in Q /\ \A u \in Q : StepsLeft(r, t, n) <= StepsLeft(u, t, n)
  BY DEF Linked
<1> HIDE DEF l, r
<1>2. SUFFICES ASSUME NEW u \in Q \ {t}
               PROVE  /\ newLt[u] \in Q \ {t} /\ \A v \in Q \ {t} : StepsLeft(u, newLt[u], n) <= StepsLeft(u, v, n)
                      /\ newRt[u] \in Q \ {t} /\ \A v \in Q \ {t} : StepsLeft(newRt[u], u, n) <= StepsLeft(v, u, n)
  BY Zenon DEF Linked, l, r
<1>3. /\ lt[u] \in Q /\ \A v \in Q : StepsLeft(u, lt[u], n) <= StepsLeft(u, v, n)
      /\ rt[u] \in Q /\ \A v \in Q : StepsLeft(rt[u], u, n) <= StepsLeft(v, u, n)
      /\ rt[lt[u]] = u /\ lt[rt[u]] = u
  <2>1. rt[lt[u]] = u /\ lt[rt[u]] = u
    <3>1. Ring(Q, n, lt, rt) /\ u \in Q
      OBVIOUS
    <3> HIDE DEF Ring
    <3>2. QED
      BY <3>1, NeighboursAgree
  <2>2. QED
    BY <2>1 DEF Linked
<1>4. /\ newLt[u] = IF u = r THEN l ELSE lt[u]
      /\ newRt[u] = IF u = l THEN r ELSE rt[u]
  BY <1>1
<1>5. l # t /\ r # t
  <2>1. t \in 1 .. n /\ u \in 1 .. n /\ l \in 1 .. n /\ r \in 1 .. n /\ u # t
    BY <1>1
  <2>2. StepsLeft(t, l, n) <= StepsLeft(t, u, n) /\ StepsLeft(r, t, n) <= StepsLeft(u, t, n)
    BY <1>1
  <2>3. StepsLeft(t, t, n) = n /\ StepsLeft(t, u, n) + StepsLeft(u, t, n) = n /\ StepsLeft(t, u, n) \in 1 .. n /\ StepsLeft(u, t, n) \in 1 .. n
    BY <2>1, StepsAround
  <2>4. StepsLeft(t, l, n) # StepsLeft(t, t, n) /\ StepsLeft(r, t, n) # StepsLeft(t, t, n)
    <3>1. StepsLeft(t, l, n) \in 1 .. n /\ StepsLeft(r, t, n) \in 1 .. n
      BY <2>1, StepsAround
    <3>2. \A i, j, k, m \in Int : i \in 1 .. m /\ j \in 1 .. m /\ i + j = m /\ k <= i => k # m
      OBVIOUS
    <3>3. n \in Int /\ StepsLeft(t, l, n) \in Int /\ StepsLeft(r, t, n) \in Int
      BY <3>1
    <3> HIDE DEF Ring
    <3>4. StepsLeft(t, l, n) # n
      BY <2>2, <2>3, <3>2, <3>3
    <3>5. StepsLeft(r, t, n) # n
      BY <2>2, <2>3, <3>2, <3>3
    <3>6. QED
      BY <2>3, <3>4, <3>5
  <2>5. QED
    BY <2>4
<1>6. newLt[u] \in Q \ {t} /\ \A v \in Q \ {t} : StepsLeft(u, newLt[u], n) <= StepsLeft(u, v, n)
  <2>1. CASE u = r
    <3>1. ASSUME NEW v \in Q \ {t} PROVE StepsLeft(r, l, n) <= StepsLeft(r, v, n)
      <4>1. t \in 1 .. n /\ v \in 1 .. n /\ l \in 1 .. n /\ r \in 1 .. n /\ v # t
        BY <1>1
      <4>2. StepsLeft(t, l, n) <= StepsLeft(t, v, n) /\ StepsLeft(r, t, n) <= StepsLeft(v, t, n)
        BY <1>1
      <4>3. QED
        BY <1>5, <4>1, <4>2, Detour
    <3>2. QED
      BY <1>1, <1>4, <1>5, <2>1, <3>1
  <2>2. CASE u # r
    <3>1. lt[u] # t
      BY <1>3, <2>2 DEF r
    <3>2. QED
      BY <1>3, <1>4, <2>2, <3>1
  <2>3. QED
    BY <2>1, <2>2
<1>7. newRt[u] \in Q \ {t} /\ \A v \in Q \ {t} : StepsLeft(newRt[u], u, n) <= StepsLeft(v, u, n)
  <2>1. CASE u = l
    <3>1. ASSUME NEW v \in Q \ {t} PROVE StepsLeft(r, l, n) <= StepsLeft(v, l, n)
      <4>1. t \in 1 .. n /\ v \in 1 .. n /\ l \in 1 .. n /\ r \in 1 .. n /\ v # t
        BY <1>1
      <4>2. StepsLeft(t, l, n) <= StepsLeft(t, v, n) /\ StepsLeft(r, t, n) <= StepsLeft(v, t, n)
        BY <1>1
      <4>3. QED
        BY <1>5, <4>1, <4>2, Detour
    <3>2. QED
      BY <1>1, <1>4, <1>5, <2>1, <3>1
  <2>2. CASE u # l
    <3>1. rt[u] # t
      BY <1>3, <2>2 DEF l
    <3>2. QED
      BY <1>3, <1>4, <2>2, <3>1
  <2>3. QED
    BY <2>1, <2>2
<1>8. QED
  BY <1>6, <1>7

(* How far u is leftwards from t, when t is where one starts.              *)
Key(t, u, n) == IF u = t THEN 0 ELSE StepsLeft(t, u, n)

(* The next triangle leftwards of w is the one with the next greater key.  *)
LEMMA NextKey ==
  ASSUME NEW n \in Nat, NEW t \in 1 .. n, NEW w \in 1 .. n, NEW u \in 1 .. n, NEW v \in 1 .. n,
         StepsLeft(w, u, n) <= StepsLeft(w, v, n), Key(t, w, n) < Key(t, v, n)
  PROVE  Key(t, w, n) < Key(t, u, n) /\ Key(t, u, n) <= Key(t, v, n)
BY DEF StepsLeft, Key

(* A walk leftwards through a ring.                                        *)
WalksLeft(walk, t, k, lt) ==
  /\ k \in Nat
  /\ DOMAIN walk = 1 .. k
  /\ k # 0 => walk[1] = t
  /\ \A i \in 1 .. k : i # 1 => walk[i] = lt[walk[i - 1]]

(* A walk through a ring that is as long as the ring has triangles meets   *)
(* all of them: the i-th triangle has i triangles with no greater key.     *)
LEMMA WalkMeetsAll ==
  ASSUME NEW Q, NEW n, NEW lt, NEW rt, Ring(Q, n, lt, rt), NEW t \in Q, NEW walk,
         WalksLeft(walk, t, Cardinality(Q), lt)
  PROVE  {walk[i] : i \in DOMAIN walk} = Q
<1> DEFINE k       == Cardinality(Q)
           Upto(u) == {v \in Q : Key(t, v, n) <= Key(t, u, n)}
           P(i)    == walk[i] \in Q /\ Cardinality(Upto(walk[i])) = i
           Bad     == {i \in 1 .. k : ~ P(i)}
<1>1. n \in Nat /\ Q \in SUBSET (1 .. n) /\ Linked(Q, n, lt, rt)
  BY DEF Ring
<1>2. IsFiniteSet(Q) /\ k \in Nat
  <2>1. IsFiniteSet(1 .. n)
    BY <1>1, FS_Interval
  <2>2. QED
    BY <1>1, <2>1, FS_Subset, FS_CardinalityType
<1>3. /\ DOMAIN walk = 1 .. k
      /\ k # 0 => walk[1] = t
      /\ \A i \in 1 .. k : i # 1 => walk[i] = lt[walk[i - 1]]
  BY DEF WalksLeft
<1>4. \A u \in Q : Key(t, u, n) \in Nat /\ (Key(t, u, n) = 0 => u = t) /\ Key(t, t, n) = 0
  <2>1. \A u \in 1 .. n : StepsLeft(t, u, n) \in 1 .. n
    BY <1>1, StepsAround
  <2>2. QED
    BY <1>1, <2>1 DEF Key
<1>5. ASSUME NEW u \in Q PROVE IsFiniteSet(Upto(u))
  BY <1>2, FS_Subset
<1>6. P(1) \/ k = 0
  <2>1. Upto(t) = {t}
    BY <1>4
  <2>2. Cardinality(Upto(t)) = 1
    BY <2>1, FS_Singleton
  <2> HIDE DEF Upto
  <2>3. QED
    BY <1>3, <2>2
<1>7. ASSUME NEW i \in 1 .. k, P(i), i + 1 <= k PROVE P(i + 1)
  <2> DEFINE w == walk[i]
             u == lt[w]
  <2>1. w \in Q /\ Cardinality(Upto(w)) = i
    BY <1>7
  <2>2. walk[i + 1] = u
    <3>1. i + 1 \in 1 .. k /\ i + 1 # 1 /\ (i + 1) - 1 = i
      BY <1>2, <1>7
    <3>2. QED
      BY <1>3, <3>1
  <2>3. u \in Q /\ \A v \in Q : StepsLeft(w, u, n) <= StepsLeft(w, v, n)
    BY <1>1, <2>1 DEF Linked
  <2> HIDE DEF w, u
  <2>4. PICK v \in Q : Key(t, w, n) < Key(t, v, n)
    <3>1. Upto(w) # Q
      <4>1. i # k
        BY <1>2, <1>7
      <4> HIDE DEF Upto
      <4>2. QED
        BY <2>1, <4>1
    <3>2. PICK x \in Q : x \notin Upto(w)
      BY <3>1
    <3>3. ~ (Key(t, x, n) <= Key(t, w, n))
      BY <3>2
    <3>4. QED
      BY <1>4, <2>1, <3>3
  <2>5. ASSUME NEW x \in Q, Key(t, w, n) < Key(t, x, n)
        PROVE  Key(t, w, n) < Key(t, u, n) /\ Key(t, u, n) <= Key(t, x, n)
    <3>1. t \in 1 .. n /\ w \in 1 .. n /\ u \in 1 .. n /\ x \in 1 .. n
      BY <1>1, <2>1, <2>3
    <3>2. StepsLeft(w, u, n) <= StepsLeft(w, x, n)
      BY <2>3
    <3>3. QED
      BY <1>1, <2>5, <3>1, <3>2, NextKey
  <2>6. Key(t, w, n) < Key(t, u, n)
    BY <2>4, <2>5
  <2>7. u \notin Upto(w)
    BY <1>4, <2>1, <2>3, <2>6
  <2>8. Upto(u) = Upto(w) \cup {u}
    <3>1. ASSUME NEW x \in Q
          PROVE  x \in Upto(u) <=> x \in Upto(w) \/ x = u
      <4>1. CASE Key(t, x, n) <= Key(t, w, n)
        <5>1. Key(t, x, n) <= Key(t, u, n)
          BY <1>4, <2>1, <2>3, <2>6, <4>1
        <5>2. QED
          BY <4>1, <5>1
      <4>2. CASE ~ (Key(t, x, n) <= Key(t, w, n))
        <5>1. Key(t, w, n) < Key(t, x, n)
          BY <1>4, <2>1, <4>2
        <5>2. Key(t, u, n) <= Key(t, x, n)
          BY <2>5, <5>1
        <5>3. Key(t, x, n) <= Key(t, u, n) => x = u
          <6>1. t \in 1 .. n /\ x \in 1 .. n /\ u \in 1 .. n
            BY <1>1, <2>3
          <6>2. Key(t, x, n) = Key(t, u, n) => x = u
            <7>1. /\ StepsLeft(t, x, n) = StepsLeft(t, u, n) => x = u
                  /\ StepsLeft(t, x, n) \in 1 .. n /\ StepsLeft(t, u, n) \in 1 .. n
              BY <1>1, <6>1, StepsAround
            <7>2. QED
              BY <7>1 DEF Key
          <6>3. QED
            BY <1>4, <2>3, <5>2, <6>2
        <5>4. QED
          BY <4>2, <5>3, <1>4, <2>3
      <4>3. QED
        BY <4>1, <4>2
    <3>2. Upto(u) \subseteq Q /\ Upto(w) \cup {u} \subseteq Q
      BY <2>3
    <3> HIDE DEF Upto
    <3>3. QED
      BY <3>1, <3>2
  <2>9. IsFiniteSet(Upto(w))
    BY <1>5, <2>1
  <2> HIDE DEF Upto
  <2>10. Cardinality(Upto(w) \cup {u}) = Cardinality(Upto(w)) + 1
    BY <2>7, <2>9, FS_AddElement
  <2>11. QED
    BY <2>1, <2>2, <2>3, <2>8, <2>10
<1>8. Bad = {}
  <2>1. SUFFICES ASSUME Bad # {} PROVE FALSE
    OBVIOUS
  <2>2. PICK m \in Bad : \A i \in Bad : m <= i
    <3>1. Bad \in SUBSET Nat
      OBVIOUS
    <3> HIDE DEF Bad
    <3>2. QED
      BY <2>1, <3>1, NatHasMin
  <2>3. m \in 1 .. k /\ ~ P(m)
    BY <2>2
  <2> HIDE DEF P
  <2>4. m # 1
    BY <1>2, <1>6, <2>3
  <2>5. m - 1 \in 1 .. k /\ m - 1 \notin Bad /\ (m - 1) + 1 = m /\ m <= k
    BY <1>2, <2>2, <2>3, <2>4
  <2>6. P(m - 1)
    BY <2>5
  <2>7. P((m - 1) + 1)
    BY <1>7, <2>5, <2>6, Zenon
  <2>8. QED
    BY <2>3, <2>5, <2>7
<1>9. \A i \in 1 .. k : P(i)
  BY <1>8
<1> DEFINE f == [i \in 1 .. k |-> walk[i]]
<1>10. f \in Injection(1 .. k, Q)
  <2> HIDE DEF Upto
  <2>1. QED
    BY <1>9 DEF Injection, IsInjective
<1>11. IsFiniteSet(1 .. k) /\ Cardinality(1 .. k) = k
  BY <1>2, FS_Interval
<1>12. f \in Surjection(1 .. k, Q)
  <2> HIDE DEF f
  <2>1. QED
    BY <1>2, <1>10, <1>11, FS_Injection
<1>13. \A x \in Q : \E i \in 1 .. k : walk[i] = x
  BY <1>12 DEF Surjection
<1>14. QED
  <2> HIDE DEF Upto
  <2>1. QED
    BY <1>3, <1>9, <1>13

(* The numbers of Q in ascending order.                                    *)
Ascending(e, m, Q) ==
  /\ m \in Nat /\ e \in [1 .. m -> Q]
  /\ \A i, j \in 1 .. m : i < j => e[i] < e[j]
  /\ \A t \in Q : \E j \in 1 .. m : e[j] = t

(* There are as many as there are in Q.                                    *)
LEMMA AscendingCounts ==
  ASSUME NEW Q \in SUBSET Nat, NEW e, NEW m, Ascending(e, m, Q)
  PROVE  IsFiniteSet(Q) /\ Cardinality(Q) = m
<1>1. m \in Nat /\ e \in [1 .. m -> Q]
  BY DEF Ascending
<1>2. \A i, j \in 1 .. m : e[i] = e[j] => i = j
  <2>1. SUFFICES ASSUME NEW i \in 1 .. m, NEW j \in 1 .. m, i # j PROVE e[i] # e[j]
    BY Zenon
  <2>2. e[i] < e[j] \/ e[j] < e[i]
    BY <1>1, <2>1 DEF Ascending
  <2>3. e[i] \in Nat /\ e[j] \in Nat
    BY <1>1
  <2>4. QED
    BY <2>2, <2>3
<1>3. e \in Bijection(1 .. m, Q)
  <2>1. e \in Injection(1 .. m, Q)
    BY <1>1, <1>2 DEF Injection, IsInjective
  <2>2. e \in Surjection(1 .. m, Q)
    BY <1>1 DEF Surjection, Ascending
  <2>3. QED
    BY <2>1, <2>2 DEF Bijection
<1>4. ExistsBijection(1 .. m, Q)
  BY <1>3, Zenon DEF ExistsBijection
<1>5. QED
  BY <1>1, <1>4, FS_CountingElements, FS_NatBijection

(* In a ring the neighbours are those before and after in that order.      *)
LEMMA NeighboursInOrder ==
  ASSUME NEW Q, NEW n, NEW lt, NEW rt, Ring(Q, n, lt, rt), NEW e, NEW m, Ascending(e, m, Q),
         NEW j \in 1 .. m, NEW b, b = (IF j = 1 THEN m ELSE j - 1),
         NEW a, a = (IF j = m THEN 1 ELSE j + 1)
  PROVE  lt[e[j]] = e[b] /\ rt[e[j]] = e[a]
<1>1. /\ n \in Nat /\ Q \in SUBSET (1 .. n) /\ Linked(Q, n, lt, rt)
      /\ m \in Nat /\ e \in [1 .. m -> Q]
      /\ \A i, k \in 1 .. m : i < k => e[i] < e[k]
      /\ \A t \in Q : \E k \in 1 .. m : e[k] = t
  BY DEF Ring, Ascending
<1>2. a \in 1 .. m /\ b \in 1 .. m
  BY <1>1
<1>3. PICK t, l, r : t = e[j] /\ l = e[b] /\ r = e[a]
  OBVIOUS
<1>4. t \in Q /\ l \in Q /\ r \in Q
  BY <1>1, <1>2, <1>3
<1>5. /\ lt[t] \in Q /\ \A u \in Q : StepsLeft(t, lt[t], n) <= StepsLeft(t, u, n)
      /\ rt[t] \in Q /\ \A u \in Q : StepsLeft(rt[t], t, n) <= StepsLeft(u, t, n)
  BY <1>1, <1>4, Zenon DEF Linked
<1>6. ASSUME NEW u \in Q PROVE StepsLeft(t, l, n) <= StepsLeft(t, u, n) /\ StepsLeft(r, t, n) <= StepsLeft(u, t, n)
  <2>1. PICK k \in 1 .. m : u = e[k]
    BY <1>1
  <2>2. t \in 1 .. n /\ l \in 1 .. n /\ r \in 1 .. n /\ u \in 1 .. n
    BY <1>1, <1>4
  <2>3. (k < j => u < t) /\ (k > j => t < u) /\ (k = j => u = t)
    BY <1>1, <1>3, <2>1
  <2>4. StepsLeft(t, l, n) <= StepsLeft(t, u, n)
    <3>1. CASE j = 1
      <4>1. b = m
        BY <3>1
      <4>2. t <= u /\ u <= l
        <5>1. (k < m => u < l) /\ (k = m => u = l)
          BY <1>1, <1>3, <2>1, <4>1
        <5>2. QED
          BY <1>1, <2>2, <2>3, <3>1, <5>1
      <4>3. QED
        BY <1>1, <2>2, <4>2 DEF StepsLeft
    <3>2. CASE j # 1
      <4>1. b = j - 1
        BY <3>2
      <4>2. l < t
        BY <1>1, <1>2, <1>3, <4>1
      <4>3. u <= l \/ t <= u
        <5>1. (k < b => u < l) /\ (k = b => u = l)
          BY <1>1, <1>2, <1>3, <2>1
        <5>2. k < b \/ k = b \/ k = j \/ k > j
          BY <4>1
        <5>3. QED
          BY <2>2, <2>3, <5>1, <5>2
      <4>4. QED
        BY <1>1, <2>2, <4>2, <4>3 DEF StepsLeft
    <3>3. QED
      BY <3>1, <3>2
  <2>5. StepsLeft(r, t, n) <= StepsLeft(u, t, n)
    <3>1. CASE j = m
      <4>1. a = 1
        BY <3>1
      <4>2. u <= t /\ r <= u
        <5>1. (1 < k => r < u) /\ (k = 1 => u = r)
          BY <1>1, <1>2, <1>3, <2>1, <4>1
        <5>2. QED
          BY <1>1, <2>2, <2>3, <3>1, <5>1
      <4>3. QED
        BY <1>1, <2>2, <4>2 DEF StepsLeft
    <3>2. CASE j # m
      <4>1. a = j + 1
        BY <3>2
      <4>2. t < r
        BY <1>1, <1>2, <1>3, <4>1
      <4>3. r <= u \/ u <= t
        <5>1. (a < k => r < u) /\ (k = a => u = r)
          BY <1>1, <1>2, <1>3, <2>1
        <5>2. a < k \/ k = a \/ k = j \/ k < j
          BY <4>1
        <5>3. QED
          BY <2>2, <2>3, <5>1, <5>2
      <4>4. QED
        BY <1>1, <2>2, <4>2, <4>3 DEF StepsLeft
    <3>3. QED
      BY <3>1, <3>2
  <2>6. QED
    BY <2>4, <2>5
<1>7. t \in 1 .. n /\ l \in 1 .. n /\ r \in 1 .. n /\ lt[t] \in 1 .. n /\ rt[t] \in 1 .. n
  BY <1>1, <1>4, <1>5
<1>8. PICK x, y : x = lt[t] /\ y = rt[t]
  OBVIOUS
<1>9. StepsLeft(t, l, n) = StepsLeft(t, x, n) /\ StepsLeft(r, t, n) = StepsLeft(y, t, n)
  <2>1. /\ StepsLeft(t, l, n) \in 1 .. n /\ StepsLeft(t, x, n) \in 1 .. n
        /\ StepsLeft(r, t, n) \in 1 .. n /\ StepsLeft(y, t, n) \in 1 .. n
    BY <1>1, <1>7, <1>8, StepsAround
  <2>2. /\ StepsLeft(t, l, n) <= StepsLeft(t, x, n) /\ StepsLeft(t, x, n) <= StepsLeft(t, l, n)
        /\ StepsLeft(r, t, n) <= StepsLeft(y, t, n) /\ StepsLeft(y, t, n) <= StepsLeft(r, t, n)
    BY <1>4, <1>5, <1>6, <1>8, Zenon
  <2>3. QED
    BY <1>1, <2>1, <2>2
<1>10. l = x /\ r = y
  <2>1. /\ \A u, v, w \in 1 .. n : StepsLeft(u, v, n) = StepsLeft(u, w, n) => v = w
        /\ \A u, v, w \in 1 .. n : StepsLeft(v, u, n) = StepsLeft(w, u, n) => v = w
    BY <1>1, StepsAround, Zenon
  <2>2. QED
    BY <1>7, <1>8, <1>9, <2>1, Zenon
<1>11. QED
  BY <1>3, <1>8, <1>10

(* Where one is after i steps leftwards around m places, the first of which*)
(* is that to f itself.                                                    *)
Leftward(f, m, i) == IF i <= f THEN f - i + 1 ELSE f - i + 1 + m

(* The m values of s in that order.                                        *)
GoneLeft(s, f, m) == [i \in 1 .. m |-> s[Leftward(f, m, i)]]

(* walk meets them in it.                                                  *)
GoesLeft(walk, s, f, m) == \A i \in 1 .. m : walk[i] = s[Leftward(f, m, i)]

(* A walk leftwards through a ring goes through the numbers in that order. *)
LEMMA WalkInOrder ==
  ASSUME NEW Q, NEW n, NEW lt, NEW rt, Ring(Q, n, lt, rt), NEW e, NEW m, Ascending(e, m, Q),
         NEW f \in 1 .. m, NEW walk, WalksLeft(walk, e[f], m, lt)
  PROVE  GoesLeft(walk, e, f, m)
<1> DEFINE Bad == {i \in 1 .. m : walk[i] # e[Leftward(f, m, i)]}
<1>1. SUFFICES ASSUME Bad # {} PROVE FALSE
  BY Zenon DEF GoesLeft
<1>2. PICK i \in Bad : \A j \in Bad : i <= j
  <2>1. Bad \in SUBSET Nat
    OBVIOUS
  <2> HIDE DEF Bad
  <2>2. QED
    BY <1>1, <2>1, NatHasMin
<1>3. i \in 1 .. m /\ walk[i] # e[Leftward(f, m, i)]
  OBVIOUS
<1>4. m \in Nat /\ walk[1] = e[f] /\ (i # 1 => walk[i] = lt[walk[i - 1]])
  <2>1. m \in Nat /\ m # 0
    BY DEF Ascending
  <2>2. QED
    BY <1>3, <2>1 DEF WalksLeft
<1>5. i # 1
  <2>1. Leftward(f, m, 1) = f
    BY <1>4 DEF Leftward
  <2>2. QED
    BY <1>3, <1>4, <2>1, Zenon
<1>6. PICK p, j, b : /\ p = i - 1 /\ j = Leftward(f, m, p)
                     /\ b = IF j = 1 THEN m ELSE j - 1
  OBVIOUS
<1>7. p \in 1 .. m /\ p < i
  BY <1>3, <1>4, <1>5, <1>6
<1>8. walk[p] = e[j]
  <2>1. p \notin Bad
    BY <1>2, <1>3, <1>4, <1>7
  <2>2. QED
    BY <1>6, <1>7, <2>1
<1>9. j \in 1 .. m /\ b = Leftward(f, m, i)
  BY <1>3, <1>4, <1>5, <1>6, <1>7 DEF Leftward
<1>10. lt[e[j]] = e[b]
  BY <1>6, <1>9, NeighboursInOrder
<1>11. walk[i] = e[b]
  BY <1>4, <1>5, <1>6, <1>8, <1>10, Zenon
<1>12. QED
  BY <1>3, <1>9, <1>11, Zenon

-----------------------------------------------------------------------------
(* A finite set of numbers in a sequence.                                  *)

(* The numbers of a set, as the list of the tracker takes them.            *)
InOrder(S) ==
  [i \in 1 .. Cardinality(S) |->
     CHOOSE x \in S : Cardinality({y \in S : y < x}) = i - 1]

(* The numbers of a finite set have as many places, one each.              *)
LEMMA InOrderEnumerates ==
  ASSUME NEW S \in SUBSET Nat, IsFiniteSet(S)
  PROVE  /\ Cardinality(S) \in Nat
         /\ InOrder(S) \in [1 .. Cardinality(S) -> S]
         /\ \A x \in S : \E i \in 1 .. Cardinality(S) : InOrder(S)[i] = x
         /\ \A i, j \in 1 .. Cardinality(S) : InOrder(S)[i] = InOrder(S)[j] => i = j
<1> DEFINE n        == Cardinality(S)
           Less(x)  == {y \in S : y < x}
           rank     == [x \in S |-> Cardinality(Less(x)) + 1]
<1>1. n \in Nat
  BY FS_CardinalityType
<1>2. ASSUME NEW x \in S
      PROVE  Cardinality(Less(x)) \in Nat /\ Cardinality(Less(x)) < n
  <2>1. Less(x) \in SUBSET S /\ Less(x) # S
    OBVIOUS
  <2> HIDE DEF Less
  <2>2. QED
    BY <1>1, <2>1, FS_Subset, FS_CardinalityType
<1>3. ASSUME NEW x \in S, NEW y \in S, x < y
      PROVE  Cardinality(Less(x)) < Cardinality(Less(y))
  <2>1. Less(x) \in SUBSET Less(y) /\ Less(x) # Less(y)
    <3>1. x \in Less(y) /\ x \notin Less(x)
      BY <1>3
    <3>2. \A z \in S : z < x => z < y
      BY <1>3
    <3>3. Less(x) \in SUBSET Less(y)
      BY <3>2
    <3>4. QED
      BY <3>1, <3>3
  <2>2. IsFiniteSet(Less(y))
    BY FS_Subset
  <2> HIDE DEF Less
  <2>3. QED
    BY <1>2, <2>1, <2>2, FS_Subset
<1>4. rank \in [S -> 1 .. n]
  <2> HIDE DEF Less
  <2>1. ASSUME NEW x \in S PROVE Cardinality(Less(x)) + 1 \in 1 .. n
    BY <1>1, <1>2
  <2>2. QED
    BY <2>1
<1>5. \A x, y \in S : rank[x] = rank[y] => x = y
  <2> HIDE DEF Less
  <2>1. ASSUME NEW x \in S, NEW y \in S, rank[x] = rank[y], x # y PROVE FALSE
    <3>1. Cardinality(Less(x)) = Cardinality(Less(y))
      BY <1>2, <2>1
    <3>2. x < y \/ y < x
      BY <2>1
    <3>3. QED
      BY <1>2, <1>3, <3>1, <3>2
  <2>2. QED
    BY <2>1
<1>6. \A i \in 1 .. n : \E x \in S : rank[x] = i
  <2> HIDE DEF rank
  <2>1. rank \in Injection(S, 1 .. n)
    BY <1>4, <1>5 DEF Injection, IsInjective
  <2>2. IsFiniteSet(1 .. n) /\ Cardinality(1 .. n) = n
    BY <1>1, FS_Interval
  <2>3. rank \in Surjection(S, 1 .. n)
    BY <2>1, <2>2, FS_Injection
  <2>4. QED
    BY <2>3 DEF Surjection
<1>7. ASSUME NEW i \in 1 .. n
      PROVE  InOrder(S)[i] \in S /\ Cardinality(Less(InOrder(S)[i])) = i - 1
  <2>1. PICK x \in S : rank[x] = i
    BY <1>6
  <2>2. Cardinality(Less(x)) = i - 1
    <3> HIDE DEF Less
    <3>1. QED
      BY <1>2, <2>1
  <2>3. InOrder(S)[i] = CHOOSE y \in S : Cardinality(Less(y)) = i - 1
    BY DEF InOrder
  <2> HIDE DEF Less
  <2>4. QED
    BY <2>2, <2>3
<1> HIDE DEF Less
<1>8. InOrder(S) \in [1 .. n -> S]
  <2>1. DOMAIN InOrder(S) = 1 .. n
    BY DEF InOrder
  <2>2. QED
    BY <1>7, <2>1 DEF InOrder
<1>9. \A i, j \in 1 .. n : InOrder(S)[i] = InOrder(S)[j] => i = j
  BY <1>7
<1>10. ASSUME NEW x \in S
       PROVE  \E i \in 1 .. n : InOrder(S)[i] = x
  <2>1. rank[x] \in 1 .. n /\ rank[x] = Cardinality(Less(x)) + 1
    BY <1>4
  <2>2. PICK i \in 1 .. n : i = Cardinality(Less(x)) + 1
    BY <2>1
  <2>3. InOrder(S)[i] \in S /\ Cardinality(Less(InOrder(S)[i])) = Cardinality(Less(x))
    BY <1>2, <1>7, <2>2
  <2>4. rank[InOrder(S)[i]] = rank[x]
    BY <2>3
  <2> HIDE DEF rank
  <2>5. QED
    BY <1>5, <2>3, <2>4
<1>11. QED
  BY <1>1, <1>8, <1>9, <1>10

-----------------------------------------------------------------------------
(* Grids: the cells of an array by rows, and the cells that coordinates are*)
(* in.                                                                     *)

(* A quotient times the divisor is the dividend, but for a remainder.      *)
LEMMA Quotient ==
  ASSUME NEW a \in Nat, NEW t \in Nat \ {0}
  PROVE  /\ a \div t \in Nat
         /\ (a \div t) * t <= a
         /\ a < (a \div t) * t + t
OBVIOUS

(* Two divisors more make the quotient greater by two, at least.           *)
LEMMA QuotientGrows ==
  ASSUME NEW a \in Nat, NEW b \in Nat, NEW t \in Nat \ {0}, a + 2 * t <= b
  PROVE  a \div t + 2 <= b \div t
<1> DEFINE q == a \div t
           r == b \div t
<1>1. q \in Nat /\ r \in Nat /\ q * t <= a /\ b < r * t + t
  BY Quotient
<1> HIDE DEF q, r
<1>2. (q + 2) * t = q * t + 2 * t
  BY <1>1
<1>3. (q + 2) * t < r * t + t
  BY <1>1, <1>2
<1>4. \A x, y \in Nat : x * t < y * t + t => x <= y
  OBVIOUS
<1>5. q + 2 <= r
  BY <1>1, <1>3, <1>4
<1>6. QED
  BY <1>5 DEF q, r

(* A multiple of W that is less than W away from 0 is 0.                   *)
LEMMA NoMultiple ==
  ASSUME NEW W \in Nat, NEW d \in Int, - W < W * d, W * d < W
  PROVE  d = 0
<1>1. W > 0
  OBVIOUS
<1>2. CASE d >= 1
  <2>1. W * d = W + W * (d - 1)
    OBVIOUS
  <2>2. \A x, y \in Nat : x * y \in Nat
    OBVIOUS
  <2>3. W * (d - 1) \in Nat
    BY <1>2, <2>2
  <2>4. QED
    BY <2>1, <2>3
<1>3. CASE d <= -1
  <2>1. W * d = - W - W * (-1 - d)
    OBVIOUS
  <2>2. \A x, y \in Nat : x * y \in Nat
    OBVIOUS
  <2>3. -1 - d \in Nat
    BY <1>3
  <2>4. W * (-1 - d) \in Nat
    BY <2>2, <2>3
  <2>5. QED
    BY <2>1, <2>4
<1>4. QED
  BY <1>2, <1>3

(* Cells in one row of the array that are not at its border, and cells of  *)
(* the rows beside.                                                        *)
Touching(i, j, w) == j \in {i - 1, i + 1, i - w, i + w}

(* Only cells side by side in the grid touch.                              *)
LEMMA RowsAreApart ==
  ASSUME NEW W \in Nat, NEW x \in 1 .. W - 2, NEW u \in 1 .. W - 2,
         NEW y \in Nat, NEW v \in Nat
  PROVE  /\ x + W * y = u + W * v => x = u /\ y = v
         /\ Touching(x + W * y, u + W * v, W) =>
              \/ x = u /\ (v = y + 1 \/ y = v + 1)
              \/ y = v /\ (u = x + 1 \/ x = u + 1)
<1>1. \A a \in {-1, 0, 1} : u + W * v = x + a + W * y => y = v /\ u = x + a
  <2>1. SUFFICES ASSUME NEW a \in {-1, 0, 1}, u + W * v = x + a + W * y
                 PROVE  y = v /\ u = x + a
    OBVIOUS
  <2>2. W * (y - v) = u - x - a
    BY <2>1
  <2>3. - W < u - x - a /\ u - x - a < W
    OBVIOUS
  <2>4. y - v = 0
    BY <2>2, <2>3, NoMultiple
  <2>5. W * 0 = 0
    OBVIOUS
  <2>6. QED
    BY <2>2, <2>4, <2>5
<1>2. \A b \in {-1, 1} : u + W * v = x + W * y + W * b => v = y + b /\ u = x
  <2>1. SUFFICES ASSUME NEW b \in {-1, 1}, u + W * v = x + W * y + W * b
                 PROVE  v = y + b /\ u = x
    OBVIOUS
  <2>2. W * (y + b - v) = u - x
    BY <2>1
  <2>3. - W < u - x /\ u - x < W
    OBVIOUS
  <2>4. y + b - v = 0
    BY <2>2, <2>3, NoMultiple
  <2>5. W * 0 = 0
    OBVIOUS
  <2>6. QED
    BY <2>2, <2>4, <2>5
<1>3. W * 1 = W /\ W * (-1) = - W
  OBVIOUS
<1>4. PICK s, t : s = W * y /\ t = W * v
  OBVIOUS
<1>5. s \in Int /\ t \in Int
  BY <1>4
<1>6. x + s = u + t => x = u /\ y = v
  <2>1. u + t = x + 0 + s => y = v /\ u = x + 0
    BY <1>1, <1>4, Zenon
  <2>2. QED
    BY <1>5, <2>1
<1>7. Touching(x + s, u + t, W) =>
        \/ x = u /\ (v = y + 1 \/ y = v + 1)
        \/ y = v /\ (u = x + 1 \/ x = u + 1)
  <2>1. u + t = x + 1 + s => y = v /\ u = x + 1
    BY <1>1, <1>4, Zenon
  <2>2. u + t = x + (-1) + s => y = v /\ u = x + (-1)
    BY <1>1, <1>4, Zenon
  <2>3. u + t = x + s + W => v = y + 1 /\ u = x
    BY <1>2, <1>3, <1>4, Zenon
  <2>4. u + t = x + s - W => v = y + (-1) /\ u = x
    <3>1. u + t = x + s + (- W) => v = y + (-1) /\ u = x
      BY <1>2, <1>3, <1>4, Zenon
    <3>2. QED
      BY <1>5, <3>1
  <2>5. SUFFICES ASSUME Touching(x + s, u + t, W)
                 PROVE  \/ x = u /\ (v = y + 1 \/ y = v + 1)
                        \/ y = v /\ (u = x + 1 \/ x = u + 1)
    OBVIOUS
  <2>6. \/ u + t = x + s - 1 \/ u + t = x + s + 1 \/ u + t = x + s - W \/ u + t = x + s + W
    BY <1>5, <2>5 DEF Touching
  <2>7. QED
    BY <1>5, <2>1, <2>2, <2>3, <2>4, <2>6
<1>8. QED
  BY <1>4, <1>6, <1>7, Zenon

(* Neighbours of a cell that is not at the border are in the array, and    *)
(* the scan comes across it.                                               *)
LEMMA InsideTheArray ==
  ASSUME NEW W \in Nat, NEW H \in Nat, NEW x \in 1 .. W - 2, NEW y \in 1 .. H - 2,
         NEW i, i = x + W * y
  PROVE  /\ \A j : j = i \/ Touching(i, j, W) => j \in 0 .. W * H - 1
         /\ i % W >= 1 /\ i \div W >= 1
<1>1. \A a, b \in Nat : a * b \in Nat
  OBVIOUS
<1>2. PICK s : s = W * y
  OBVIOUS
<1>3. PICK r : r = W * (y - 1)
  OBVIOUS
<1>4. s = r + W /\ r \in Nat
  <2>1. y - 1 \in Nat
    OBVIOUS
  <2>2. r \in Nat
    BY <1>1, <1>3, <2>1
  <2>3. W * y = W * (y - 1) + W
    OBVIOUS
  <2>4. QED
    BY <1>2, <1>3, <2>2, <2>3
<1>5. PICK z : z = W * (H - 2 - y)
  OBVIOUS
<1>6. W * H = s + W + W + z /\ z \in Nat
  <2>1. H - 2 - y \in Nat
    OBVIOUS
  <2>2. z \in Nat
    BY <1>1, <1>5, <2>1
  <2>3. W * H = W * y + W + W + W * (H - 2 - y)
    OBVIOUS
  <2>4. QED
    BY <1>2, <1>5, <2>2, <2>3
<1>7. PICK n : n = W * H
  OBVIOUS
<1>8. i = x + s /\ i \in Nat /\ n \in Nat
  BY <1>2, <1>4, <1>6, <1>7
<1>9. \A j : j = i \/ Touching(i, j, W) => j \in 0 .. n - 1
  BY <1>4, <1>6, <1>7, <1>8 DEF Touching
<1>10. i \div W = y
  <2>1. PICK q : q = i \div W
    OBVIOUS
  <2>2. W \in Nat \ {0}
    OBVIOUS
  <2>3. q \in Nat /\ q * W <= i /\ i < q * W + W
    BY <1>8, <2>1, <2>2, Quotient
  <2>4. W * (q - y) = q * W - s
    BY <1>2, <2>3
  <2>5. - W < q * W - s /\ q * W - s < W
    <3>1. PICK m : m = q * W
      OBVIOUS
    <3>2. m \in Int
      BY <2>3, <3>1
    <3>3. QED
      BY <1>4, <1>8, <2>3, <3>1, <3>2
  <2>6. q - y = 0
    BY <2>3, <2>4, <2>5, NoMultiple
  <2>7. QED
    BY <2>1, <2>3, <2>6
<1>11. i % W = x
  <2>1. W \in Nat \ {0}
    OBVIOUS
  <2>2. i = W * (i \div W) + (i % W)
    BY <1>8, <2>1
  <2>3. i % W \in Nat
    BY <1>8, <2>1
  <2>4. i = s + (i % W)
    BY <1>2, <1>10, <2>2
  <2>5. QED
    BY <1>4, <1>8, <2>3, <2>4
<1>12. QED
  BY <1>7, <1>9, <1>10, <1>11

(* How far two coordinates are apart.                                      *)
Far(a, b) == IF a < b THEN b - a ELSE a - b

(* Coordinates in one division of width t, or in neighbouring ones.        *)
Divided(f, x, u, t) ==
  /\ f = 0 => x = u
  /\ f <= t => x = u \/ u = x + 1 \/ x = u + 1
  /\ x = u => f < t
  /\ x = u \/ u = x + 1 \/ x = u + 1 => f < 2 * t

(* The cells are found by division.                                        *)
LEMMA FarInCells ==
  ASSUME NEW t \in Nat \ {0}, NEW m \in Int, NEW a \in Nat, NEW b \in Nat,
         a - m \in Nat, b - m \in Nat,
         NEW x, x = (a - m) \div t, NEW u, u = (b - m) \div t
  PROVE  Divided(Far(a, b), x, u, t)
<1>1. /\ x \in Nat /\ x * t <= a - m /\ a - m < x * t + t
      /\ u \in Nat /\ u * t <= b - m /\ b - m < u * t + t
  BY Quotient
<1>2. PICK r, s : r = x * t /\ s = u * t
  OBVIOUS
<1>3. /\ r \in Int /\ s \in Int /\ r <= a - m /\ a - m < r + t /\ s <= b - m /\ b - m < s + t
  BY <1>1, <1>2
<1>4. x = u => Far(a, b) < t
  BY <1>2, <1>3 DEF Far
<1>5. u = x + 1 => s = r + t
  BY <1>1, <1>2
<1>6. x = u + 1 => r = s + t
  BY <1>1, <1>2
<1>7. x = u \/ u = x + 1 \/ x = u + 1 => Far(a, b) < 2 * t
  <2>1. x = u => r = s
    BY <1>2
  <2>2. QED
    BY <1>3, <1>5, <1>6, <2>1 DEF Far
<1>8. Far(a, b) = 0 => x = u
  <2>1. Far(a, b) = 0 => a = b
    BY DEF Far
  <2>2. QED
    BY <2>1
<1>9. Far(a, b) <= t => x = u \/ u = x + 1 \/ x = u + 1
  <2>1. ASSUME NEW y \in Nat, NEW v \in Nat, NEW g \in Int, NEW h \in Int,
               g = y * t, h = v * t, v >= y + 2
        PROVE  h >= g + t + t
    <3>1. v * t = y * t + t + t + (v - y - 2) * t
      OBVIOUS
    <3>2. \A c, d \in Nat : c * d \in Nat
      OBVIOUS
    <3>3. v - y - 2 \in Nat
      BY <2>1
    <3>4. (v - y - 2) * t \in Nat
      BY <3>2, <3>3
    <3>5. QED
      BY <2>1, <3>1, <3>4
  <2>2. u >= x + 2 => s >= r + t + t
    BY <1>1, <1>2, <1>3, <2>1
  <2>3. x >= u + 2 => r >= s + t + t
    BY <1>1, <1>2, <1>3, <2>1
  <2>4. SUFFICES ASSUME Far(a, b) <= t PROVE ~ (u >= x + 2) /\ ~ (x >= u + 2)
    BY <1>1
  <2>5. QED
    BY <1>3, <2>2, <2>3, <2>4 DEF Far
<1>10. QED
  BY <1>4, <1>7, <1>8, <1>9, Zenon DEF Divided

-----------------------------------------------------------------------------
(* Which way one turns, going from point to point.                         *)

(* The turn, as seen from its first point: the product of the directions   *)
(* in which the others are.                                                *)
Turn(o, p, q) == (p[2] - o[2]) * (q[1] - o[1]) - (p[1] - o[1]) * (q[2] - o[2])

(* Products of the signs of turns.                                         *)
LEMMA Signs ==
  ASSUME NEW x \in Int, NEW y \in Int
  PROVE  /\ x < 0 /\ y < 0 => x * y > 0
         /\ x < 0 /\ x * y > 0 => y < 0
<1>1. \A a, b \in Nat \ {0} : a * b > 0
  OBVIOUS
<1>2. x < 0 /\ y < 0 => x * y > 0
  <2>1. SUFFICES ASSUME x < 0, y < 0 PROVE x * y > 0
    OBVIOUS
  <2>2. (-x) \in Nat \ {0} /\ (-y) \in Nat \ {0}
    BY <2>1
  <2>3. (-x) * (-y) > 0
    BY <1>1, <2>2
  <2>4. x * y = (-x) * (-y)
    OBVIOUS
  <2>5. QED
    BY <2>3, <2>4
<1>3. x < 0 /\ x * y > 0 => y < 0
  <2>1. SUFFICES ASSUME x < 0, x * y > 0, y >= 0 PROVE FALSE
    OBVIOUS
  <2>2. CASE y = 0
    BY <2>1, <2>2
  <2>3. CASE y # 0
    <3>1. (-x) \in Nat \ {0} /\ y \in Nat \ {0}
      BY <2>1, <2>3
    <3>2. (-x) * y > 0
      BY <1>1, <3>1
    <3>3. x * y = - ((-x) * y) /\ (-x) * y \in Int
      OBVIOUS
    <3>4. QED
      BY <2>1, <3>2, <3>3
  <2>4. QED
    BY <2>2, <2>3
<1>4. QED
  BY <1>2, <1>3

(* Directions in a half plane, as seen from o, are in an order.            *)
LEMMA TurnsAreTransitive ==
  ASSUME NEW o \in Int \X Int, NEW u \in Int \X Int, NEW a \in Int \X Int,
         NEW b \in Int \X Int, NEW c \in Int \X Int,
         Turn(o, u, a) < 0, Turn(o, u, b) < 0, Turn(o, u, c) < 0,
         Turn(o, a, b) < 0, Turn(o, b, c) < 0
  PROVE  Turn(o, a, c) < 0
<1>1. PICK u1, u2, a1, a2, b1, b2, c1, c2 :
        /\ u1 = u[1] - o[1] /\ u2 = u[2] - o[2] /\ a1 = a[1] - o[1] /\ a2 = a[2] - o[2]
        /\ b1 = b[1] - o[1] /\ b2 = b[2] - o[2] /\ c1 = c[1] - o[1] /\ c2 = c[2] - o[2]
  OBVIOUS
<1>2. /\ u1 \in Int /\ u2 \in Int /\ a1 \in Int /\ a2 \in Int
      /\ b1 \in Int /\ b2 \in Int /\ c1 \in Int /\ c2 \in Int
  BY <1>1
<1>3. PICK ua, ub, uc, ab, bc, ac :
        /\ ua = u2 * a1 - u1 * a2 /\ ub = u2 * b1 - u1 * b2 /\ uc = u2 * c1 - u1 * c2
        /\ ab = a2 * b1 - a1 * b2 /\ bc = b2 * c1 - b1 * c2 /\ ac = a2 * c1 - a1 * c2
  OBVIOUS
<1>4. /\ Turn(o, u, a) = ua /\ Turn(o, u, b) = ub /\ Turn(o, u, c) = uc
      /\ Turn(o, a, b) = ab /\ Turn(o, b, c) = bc /\ Turn(o, a, c) = ac
  BY <1>1, <1>3, Zenon DEF Turn
<1>5. /\ ua \in Int /\ ub \in Int /\ uc \in Int /\ ab \in Int /\ bc \in Int /\ ac \in Int
  BY <1>2, <1>3
<1>6. ub * ac = ua * bc + uc * ab
  BY <1>2, <1>3
<1>7. ua * bc > 0 /\ uc * ab > 0
  BY <1>4, <1>5, Signs
<1>8. ub * ac > 0
  <2>1. PICK x, y : x = ua * bc /\ y = uc * ab
    OBVIOUS
  <2>2. x \in Int /\ y \in Int
    BY <1>5, <2>1
  <2>3. QED
    BY <1>6, <1>7, <2>1, <2>2
<1>9. ac < 0
  BY <1>4, <1>5, <1>8, Signs
<1>10. QED
  BY <1>4, <1>9
=============================================================================
