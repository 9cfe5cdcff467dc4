---------------------------- MODULE StageProofs ----------------------------
(***************************************************************************)
(* The invariants of the stages of Stages, for all values of its constants.*)
(***************************************************************************)
EXTENDS Stages, NaturalSets, FiniteSetTheorems, SequenceTheorems, TLAPS

-----------------------------------------------------------------------------
(* The surface finder.                                                     *)

Point == Int \X Int \X Int

(* How far points at x that are with a plane may be from it.               *)
Margin(old, x) ==
  (IF old THEN Max({DISTANCE_THRESHOLD, REUSE_THRESHOLD}) ELSE DISTANCE_THRESHOLD)
    + SAME_HEIGHT + DEVIATION_ANGLE * Finder!Away(x, 0)

(* Points within a threshold of a plane are within the margin of those     *)
(* that are similar to it.                                                 *)
Covers(old, thr) ==
  /\ thr \in Nat
  /\ \A x \in Int : thr + SAME_HEIGHT + DEVIATION_ANGLE * Finder!Away(x, 0) <= Margin(old, x)

FinderTypes ==
  /\ reuse \in BOOLEAN
  /\ original \subseteq Point
  /\ cloud \subseteq original
  /\ planes \in Seq(SUBSET Point)
  /\ planeCoefficients \in Seq(Plane)
  /\ previous_plane_coeffs \in Seq(Plane)

(* Without reuse no old plane is left to be searched for.                  *)
FinderInv ==
  /\ FinderTypes
  /\ searching = "old" /\ ~ reuse => previous_plane_coeffs = <<>>
  /\ Finder!PointsKeepTheirPlane
  /\ Finder!PlanesDiffer

(* The greater of two thresholds is as great as both.                      *)
LEMMA MaxOfTwo ==
  ASSUME NEW a \in Nat, NEW b \in Nat
  PROVE  Max({a, b}) \in Nat /\ a <= Max({a, b}) /\ b <= Max({a, b})
<1> DEFINE n == a + b
<1>1. n \in Nat /\ {a, b} \in SUBSET (0 .. n) /\ {a, b} # {}
  OBVIOUS
<1> HIDE DEF n
<1>2. Max({a, b}) \in {a, b} /\ \A y \in {a, b} : y <= Max({a, b})
  BY <1>1, MaxIsGreatest
<1>3. QED
  BY <1>2

(* The smaller of two bounds both.                                         *)
LEMMA MinOfTwo ==
  ASSUME NEW a \in Nat, NEW b \in Nat
  PROVE  \A n : n <= a /\ n <= b => n <= Min({a, b})
<1>1. {a, b} \in SUBSET Nat /\ {a, b} # {}
  OBVIOUS
<1>2. Min({a, b}) \in {a, b}
  BY <1>1, MinIsLeast
<1>3. QED
  BY <1>2

(* What classify makes of the planes found so far: the points go to a plane*)
(* that is similar, or begin a plane that differs from the others.         *)
LEMMA Classified ==
  ASSUME FinderTypes, Len(planes) = Len(planeCoefficients),
         NEW p \in Plane, NEW points, Finder!Classify(p, points)
  PROVE  \/ /\ planeCoefficients' = planeCoefficients
            /\ \E i \in DOMAIN planes :
                 /\ Finder!SameSurface(p, planeCoefficients[i])
                 /\ planes' = [planes EXCEPT ![i] = @ \cup points]
         \/ /\ planes' = Append(planes, points)
            /\ planeCoefficients' = Append(planeCoefficients, p)
            /\ \A i \in DOMAIN planes : \/ ~ Finder!SameSurface(p, planeCoefficients[i])
                                       \/ Finder!Parallel(p, planeCoefficients[i])
<1>1. PICK similar \in [DOMAIN planes -> BOOLEAN] :
        /\ \A i \in DOMAIN planes : similar[i] \in Finder!FoundSimilar(p, i)
        /\ IF \E i \in DOMAIN planes : similar[i]
           THEN LET i == Finder!SelectInSeq(similar, LAMBDA s : s)
                IN  /\ planes' = [planes EXCEPT ![i] = @ \cup points]
                    /\ UNCHANGED planeCoefficients
           ELSE /\ planes' = Append(planes, points)
                /\ planeCoefficients' = Append(planeCoefficients, p)
  BY Zenon DEF Finder!Classify
<1>2. DOMAIN planes = 1 .. Len(planes)
  BY DEF FinderTypes
<1>3. CASE \E i \in DOMAIN planes : similar[i]
  <2> DEFINE I == {k \in 1 .. Len(similar) : similar[k]}
             i == Finder!SelectInSeq(similar, LAMBDA s : s)
  <2>1. Len(similar) = Len(planes)
    BY <1>1, <1>2 DEF FinderTypes
  <2>2. I \in SUBSET Nat /\ I # {}
    BY <1>2, <1>3, <2>1
  <2>3. i = Min(I)
    BY <2>2 DEF Finder!SelectInSeq, Finder!Min, Min
  <2>4. Min(I) \in I
    <3> HIDE DEF I
    <3>1. QED
      BY <2>2, MinIsLeast
  <2>5. i \in DOMAIN planes /\ similar[i]
    BY <1>2, <2>1, <2>3, <2>4
  <2>6. Finder!SameSurface(p, planeCoefficients[i])
    BY <1>1, <2>5 DEF Finder!FoundSimilar
  <2> HIDE DEF i
  <2>7. /\ planes' = [planes EXCEPT ![i] = @ \cup points]
        /\ planeCoefficients' = planeCoefficients
    BY <1>1, <1>3 DEF i
  <2>8. QED
    BY <2>5, <2>6, <2>7
<1>4. CASE ~ \E i \in DOMAIN planes : similar[i]
  <2>1. ASSUME NEW i \in DOMAIN planes
        PROVE  ~ Finder!SameSurface(p, planeCoefficients[i]) \/ Finder!Parallel(p, planeCoefficients[i])
    BY <1>1, <1>4 DEF Finder!FoundSimilar
  <2>2. QED
    BY <1>1, <1>4, <2>1
<1>5. QED
  BY <1>3, <1>4

(* Distances between heights.                                              *)
LEMMA AwayTriangle ==
  ASSUME NEW a \in Int, NEW b \in Int, NEW c \in Int
  PROVE  /\ Finder!Away(a, b) \in Nat
         /\ Finder!Away(a, b) = Finder!Away(b, a)
         /\ Finder!Away(a, c) <= Finder!Away(a, b) + Finder!Away(b, c)
BY DEF Finder!Away

(* Two planes may be handed on side by side.                               *)
Differ(p, q) ==
  \/ Finder!Parallel(p, q)
  \/ Min({Finder!getAngle(p, q), 180 - Finder!getAngle(p, q)}) >= DEVIATION_ANGLE
  \/ Finder!Away(p.height, q.height) >= SAME_HEIGHT

(* What a plane consists of.                                               *)
LEMMA PlaneType ==
  ASSUME NEW p \in Plane
  PROVE  p.tilt \in -15 .. 15 /\ p.up \in BOOLEAN /\ p.height \in Int
BY FinderAssumption

(* Angles and distances of planes do not depend on their order.            *)
LEMMA AngleType ==
  ASSUME NEW p \in Plane, NEW q \in Plane
  PROVE  /\ Finder!getAngle(p, q) \in 0 .. 180
         /\ Finder!getAngle(p, q) = Finder!getAngle(q, p)
         /\ Finder!Away(p.height, q.height) \in Nat
         /\ Finder!Away(p.height, q.height) = Finder!Away(q.height, p.height)
<1>1. \A a, b \in -15 .. 15 : /\ Finder!Away(a, b) \in 0 .. 30
                              /\ Finder!Away(a, b) = Finder!Away(b, a)
  BY DEF Finder!Away
<1>2. /\ p.tilt \in -15 .. 15 /\ q.tilt \in -15 .. 15
      /\ p.height \in Int /\ q.height \in Int
  BY PlaneType
<1>3. /\ Finder!Away(p.height, q.height) \in Nat
      /\ Finder!Away(p.height, q.height) = Finder!Away(q.height, p.height)
  BY <1>2, AwayTriangle
<1>4. \A a \in 0 .. 30 : a \in 0 .. 180 /\ 180 - a \in 0 .. 180
  OBVIOUS
<1>5. /\ Finder!getAngle(p, q) \in 0 .. 180
      /\ Finder!getAngle(p, q) = Finder!getAngle(q, p)
  <2>1. Finder!Away(p.tilt, q.tilt) \in 0 .. 30 /\ Finder!Away(p.tilt, q.tilt) = Finder!Away(q.tilt, p.tilt)
    BY <1>1, <1>2
  <2>2. CASE p.up = q.up
    BY <1>4, <2>1, <2>2, Zenon DEF Finder!getAngle
  <2>3. CASE p.up # q.up
    BY <1>4, <2>1, <2>3, Zenon DEF Finder!getAngle
  <2>4. QED
    BY <2>2, <2>3
<1>6. QED
  BY <1>3, <1>5

(* Planes that are taken for one differ by less than the limit in tilt.    *)
LEMMA TiltsAgree ==
  ASSUME NEW p \in Plane, NEW q \in Plane, Finder!SameSurface(p, q)
  PROVE  Finder!Away(p.tilt, q.tilt) \in Nat /\ Finder!Away(p.tilt, q.tilt) <= DEVIATION_ANGLE
<1> DEFINE d == Finder!Away(p.tilt, q.tilt)
<1>1. d \in 0 .. 30
  <2>1. \A a, b \in -15 .. 15 : Finder!Away(a, b) \in 0 .. 30
    BY DEF Finder!Away
  <2>2. QED
    BY <2>1, PlaneType
<1>2. \/ Finder!getAngle(p, q) < DEVIATION_ANGLE
      \/ Finder!getAngle(p, q) > 180 - DEVIATION_ANGLE
  BY DEF Finder!SameSurface
<1>3. Finder!getAngle(p, q) = d \/ Finder!getAngle(p, q) = 180 - d
  BY DEF Finder!getAngle
<1>4. DEVIATION_ANGLE \in Nat
  BY FinderAssumption
<1> HIDE DEF d
<1>5. QED
  BY <1>1, <1>2, <1>3, <1>4 DEF d

(* How far two lines through the origin are apart.                         *)
LEMMA LinesPart ==
  ASSUME NEW a \in Int, NEW b \in Int, NEW x \in Int, NEW D \in Nat, Finder!Away(a, b) <= D
  PROVE  /\ D * Finder!Away(x, 0) \in Nat
         /\ Finder!Away(a * x, b * x) <= D * Finder!Away(x, 0)
<1> DEFINE y == Finder!Away(x, 0)
           d == Finder!Away(a, b)
           e == D - d
<1>1. y \in Nat /\ (y = x \/ y = -x)
  BY DEF Finder!Away
<1>2. d \in Nat /\ (d = a - b \/ d = b - a) /\ e \in Nat /\ D = d + e
  BY DEF Finder!Away
<1>3. a * x \in Int /\ b * x \in Int /\ a * x - b * x = (a - b) * x /\ b * x - a * x = (b - a) * x
  OBVIOUS
<1> HIDE DEF y, d, e
<1>4. \A m, n \in Nat : m * n \in Nat
  OBVIOUS
<1>5. d * y \in Nat /\ e * y \in Nat /\ D * y \in Nat /\ D * y = d * y + e * y
  BY <1>1, <1>2, <1>4
<1>6. a * x - b * x = d * y \/ b * x - a * x = d * y
  <2>1. /\ (a - b) * x = d * y \/ (b - a) * x = d * y
    BY <1>1, <1>2
  <2>2. QED
    BY <1>3, <2>1
<1>7. Finder!Away(a * x, b * x) = d * y
  BY <1>3, <1>5, <1>6 DEF Finder!Away
<1>8. QED
  BY <1>5, <1>7 DEF y

(* Nor does whether two planes differ.                                     *)
LEMMA DifferIsSymmetric ==
  ASSUME NEW p \in Plane, NEW q \in Plane
  PROVE  Differ(p, q) => Differ(q, p)
<1>1. /\ Finder!getAngle(p, q) = Finder!getAngle(q, p)
      /\ Finder!Away(p.height, q.height) = Finder!Away(q.height, p.height)
  BY AngleType
<1>2. QED
  BY <1>1 DEF Differ, Finder!Parallel

(* Planes that are not similar enough to be merged differ.                 *)
LEMMA NotSimilarDiffer ==
  ASSUME NEW p \in Plane, NEW q \in Plane,
         ~ Finder!SameSurface(p, q) \/ Finder!Parallel(p, q)
  PROVE  Differ(p, q)
<1> DEFINE angle == Finder!getAngle(p, q)
           a     == 180 - angle
<1>1. CASE Finder!Parallel(p, q)
  BY <1>1 DEF Differ
<1>2. CASE Finder!Away(p.height, q.height) >= SAME_HEIGHT
  BY <1>2 DEF Differ
<1>3. CASE ~ (Finder!Away(p.height, q.height) >= SAME_HEIGHT) /\ ~ Finder!SameSurface(p, q)
  <2>1. angle \in Nat /\ a \in Nat
    BY AngleType
  <2>2. Finder!Away(p.height, q.height) < SAME_HEIGHT
    <3>1. Finder!Away(p.height, q.height) \in Nat
      BY AngleType
    <3>2. QED
      BY <1>3, <3>1, FinderAssumption
  <2>3. DEVIATION_ANGLE <= angle /\ DEVIATION_ANGLE <= a
    BY <1>3, <2>1, <2>2, FinderAssumption DEF Finder!SameSurface
  <2> HIDE DEF angle, a
  <2>4. DEVIATION_ANGLE <= Min({angle, a})
    BY <2>1, <2>3, MinOfTwo
  <2>5. Min({angle, a}) >= DEVIATION_ANGLE
    <3>1. Min({angle, a}) \in {angle, a}
      <4>1. {angle, a} \in SUBSET Nat /\ {angle, a} # {}
        BY <2>1
      <4>2. QED
        BY <4>1, MinIsLeast
    <3>2. QED
      BY <2>1, <2>4, <3>1, FinderAssumption
  <2>6. QED
    BY <2>5 DEF Differ, angle, a
<1>4. QED
  BY <1>1, <1>2, <1>3

(* The property, in the terms of the proofs.                               *)
LEMMA DifferInTerms ==
  Finder!PlanesDiffer <=>
    \A i, j \in DOMAIN planeCoefficients :
      i # j => Differ(planeCoefficients[i], planeCoefficients[j])
BY DEF Finder!PlanesDiffer, Differ, Finder!Min, Min

(* A plane that is merged or begun leaves the planes different.            *)
LEMMA StillDifferent ==
  ASSUME FinderTypes, Len(planes) = Len(planeCoefficients), Finder!PlanesDiffer,
         NEW p \in Plane, NEW points, Finder!Classify(p, points)
  PROVE  Finder!PlanesDiffer'
<1> DEFINE pc == planeCoefficients
<1>1. CASE UNCHANGED pc
  BY <1>1 DEF Finder!PlanesDiffer
<1>2. CASE /\ pc' = Append(pc, p)
           /\ \A i \in DOMAIN planes : \/ ~ Finder!SameSurface(p, pc[i])
                                       \/ Finder!Parallel(p, pc[i])
  <2>1. DOMAIN planes = 1 .. Len(pc) /\ DOMAIN pc = 1 .. Len(pc) /\ pc \in Seq(Plane)
    BY DEF FinderTypes
  <2>2. \A i \in 1 .. Len(pc) : pc[i] \in Plane /\ Differ(p, pc[i]) /\ Differ(pc[i], p)
    BY <1>2, <2>1, NotSimilarDiffer, DifferIsSymmetric
  <2>3. \A i, j \in 1 .. Len(pc) : i # j => Differ(pc[i], pc[j])
    BY <2>1, DifferInTerms
  <2>4. /\ DOMAIN pc' = 1 .. Len(pc) + 1
        /\ \A i \in 1 .. Len(pc) : pc'[i] = pc[i]
        /\ pc'[Len(pc) + 1] = p
    BY <1>2, <2>1
  <2>5. ASSUME NEW i \in DOMAIN pc', NEW j \in DOMAIN pc', i # j
        PROVE  Differ(pc'[i], pc'[j])
    <3>1. CASE i \in 1 .. Len(pc) /\ j \in 1 .. Len(pc)
      BY <2>3, <2>4, <2>5, <3>1
    <3>2. CASE i = Len(pc) + 1 /\ j \in 1 .. Len(pc)
      BY <2>2, <2>4, <3>2
    <3>3. CASE j = Len(pc) + 1 /\ i \in 1 .. Len(pc)
      BY <2>2, <2>4, <3>3
    <3>4. QED
      BY <2>1, <2>4, <2>5, <3>1, <3>2, <3>3
  <2>6. QED
    BY <2>5, Zenon DEF Finder!PlanesDiffer, Differ, Finder!Min, Min, Finder!Parallel, Finder!getAngle, Finder!Away
<1>3. QED
  BY <1>1, <1>2, Classified

(* What the margins allow for.                                             *)
LEMMA MarginCovers ==
  ASSUME NEW old \in BOOLEAN
  PROVE  /\ \A x \in Int : Margin(old, x) \in Nat
         /\ Covers(old, DISTANCE_THRESHOLD)
         /\ old => Covers(old, REUSE_THRESHOLD)
<1>1. {SAME_HEIGHT, DISTANCE_THRESHOLD, REUSE_THRESHOLD, DEVIATION_ANGLE} \subseteq Nat
  BY FinderAssumption
<1> DEFINE m == Max({DISTANCE_THRESHOLD, REUSE_THRESHOLD})
<1>2. m \in Nat /\ DISTANCE_THRESHOLD <= m /\ REUSE_THRESHOLD <= m
  BY <1>1, MaxOfTwo
<1> HIDE DEF m
<1>3. ASSUME NEW x \in Int
      PROVE  /\ Margin(old, x) \in Nat
             /\ DISTANCE_THRESHOLD + SAME_HEIGHT + DEVIATION_ANGLE * Finder!Away(x, 0) <= Margin(old, x)
             /\ old => REUSE_THRESHOLD + SAME_HEIGHT + DEVIATION_ANGLE * Finder!Away(x, 0) <= Margin(old, x)
  <2> DEFINE w == DEVIATION_ANGLE * Finder!Away(x, 0)
  <2>1. w \in Nat
    <3>1. Finder!Away(x, 0) \in Nat
      BY DEF Finder!Away
    <3>2. \A k, n \in Nat : k * n \in Nat
      OBVIOUS
    <3>3. QED
      BY <1>1, <3>1, <3>2
  <2>2. Margin(old, x) = (IF old THEN m ELSE DISTANCE_THRESHOLD) + SAME_HEIGHT + w
    BY DEF Margin, m
  <2> HIDE DEF w
  <2>3. /\ Margin(old, x) \in Nat
        /\ DISTANCE_THRESHOLD + SAME_HEIGHT + w <= Margin(old, x)
        /\ old => REUSE_THRESHOLD + SAME_HEIGHT + w <= Margin(old, x)
    BY <1>1, <1>2, <2>1, <2>2
  <2>4. QED
    BY <2>3 DEF w
<1>4. QED
  BY <1>1, <1>3 DEF Covers

(* The points of the planes, apart from how near they are.                 *)
Shared(ps, others) ==
  /\ \A i \in DOMAIN ps : ps[i] # {} /\ ps[i] \cap others = {}
  /\ \A i, j \in DOMAIN ps : i # j => ps[i] \cap ps[j] = {}

NearTheirs(ps, pcs) ==
  \A i \in DOMAIN ps : \A q \in ps[i] :
    /\ q \in original
    /\ Finder!Away(q[2], Finder!At(pcs[i], q[1])) <= Margin(reuse, q[1])

PointsKept ==
  /\ Len(planes) = Len(planeCoefficients)
  /\ Shared(planes, cloud)
  /\ NearTheirs(planes, planeCoefficients)
  /\ searching # "no" => original = cloud \cup UNION {planes[i] : i \in DOMAIN planes}

(* The property, in the terms of the proofs.                               *)
LEMMA PointsInTerms == Finder!PointsKeepTheirPlane <=> PointsKept
<1>1. \A x : Finder!Margin(x) = Margin(reuse, x)
  BY Zenon DEF Margin, Max, Finder!Max, Finder!Margin
<1>2. Finder!PointsKeepTheirPlane <=>
        /\ Len(planes) = Len(planeCoefficients)
        /\ \A i \in DOMAIN planes :
             /\ planes[i] # {}
             /\ planes[i] \subseteq original \ cloud
             /\ \A q \in planes[i] :
                  Finder!Away(q[2], Finder!At(planeCoefficients[i], q[1])) <= Margin(reuse, q[1])
             /\ \A j \in DOMAIN planes \ {i} : planes[i] \cap planes[j] = {}
        /\ searching # "no" => original = cloud \cup UNION {planes[i] : i \in DOMAIN planes}
  BY <1>1, Zenon DEF Finder!PointsKeepTheirPlane, Finder!ToSet
<1>3. (\A i \in DOMAIN planes : planes[i] \subseteq original \ cloud)
        <=> /\ \A i \in DOMAIN planes : planes[i] \cap cloud = {}
            /\ \A i \in DOMAIN planes : \A q \in planes[i] : q \in original
  OBVIOUS
<1>4. QED
  BY <1>2, <1>3 DEF PointsKept, Shared, NearTheirs

(* Points found near a plane are near enough to one that is similar to it. *)
LEMMA NearSimilar ==
  ASSUME NEW p \in Plane, NEW q \in Plane, Finder!SameSurface(p, q), NEW old \in BOOLEAN,
         NEW thr, Covers(old, thr), NEW x \in Int, NEW z \in Int,
         Finder!Away(z, Finder!At(p, x)) <= thr
  PROVE  Finder!Away(z, Finder!At(q, x)) <= Margin(old, x)
<1> DEFINE a == p.tilt * x
           b == q.tilt * x
           w == DEVIATION_ANGLE * Finder!Away(x, 0)
<1>1. /\ p.height \in Int /\ q.height \in Int /\ p.tilt \in Int /\ q.tilt \in Int
      /\ DEVIATION_ANGLE \in Nat /\ SAME_HEIGHT \in Nat
  BY PlaneType, FinderAssumption
<1>2. a \in Int /\ b \in Int /\ w \in Nat /\ Finder!Away(a, b) <= w
  BY <1>1, TiltsAgree, LinesPart
<1>3. Finder!At(p, x) = p.height + a /\ Finder!At(q, x) = q.height + b
  BY DEF Finder!At
<1>4. Finder!Away(p.height, q.height) < SAME_HEIGHT
  BY DEF Finder!SameSurface
<1>5. thr \in Nat /\ thr + SAME_HEIGHT + w <= Margin(old, x) /\ Margin(old, x) \in Nat
  BY MarginCovers DEF Covers
<1> HIDE DEF a, b, w
<1>6. Finder!Away(z, p.height + a) <= thr
  BY <1>3
<1>7. Finder!Away(z, q.height + b) <= thr + SAME_HEIGHT + w
  BY <1>1, <1>2, <1>4, <1>5, <1>6 DEF Finder!Away
<1>8. Finder!Away(z, q.height + b) \in Nat
  BY <1>1, <1>2 DEF Finder!Away
<1>9. QED
  BY <1>1, <1>2, <1>3, <1>5, <1>7, <1>8

(* Nor are they too far from the plane itself.                             *)
LEMMA NearOwn ==
  ASSUME NEW p \in Plane, NEW old \in BOOLEAN, NEW thr, Covers(old, thr),
         NEW x \in Int, NEW z \in Int, Finder!Away(z, Finder!At(p, x)) <= thr
  PROVE  Finder!Away(z, Finder!At(p, x)) <= Margin(old, x)
<1>1. p.height \in Int /\ p.tilt * x \in Int
  BY PlaneType
<1>2. Finder!Away(z, Finder!At(p, x)) \in Nat
  BY <1>1 DEF Finder!At, Finder!Away
<1>3. DEVIATION_ANGLE * Finder!Away(x, 0) \in Nat /\ SAME_HEIGHT \in Nat
  <2>1. DEVIATION_ANGLE \in Nat /\ SAME_HEIGHT \in Nat /\ Finder!Away(x, 0) \in Nat
    BY FinderAssumption DEF Finder!Away
  <2>2. \A k, n \in Nat : k * n \in Nat
    OBVIOUS
  <2>3. QED
    BY <2>1, <2>2
<1>4. thr \in Nat /\ thr + SAME_HEIGHT + DEVIATION_ANGLE * Finder!Away(x, 0) <= Margin(old, x)
      /\ Margin(old, x) \in Nat
  BY MarginCovers DEF Covers
<1>5. QED
  BY <1>2, <1>3, <1>4

(* A turn that takes points out of the cloud.                              *)
Takes(p, points, thr) ==
  /\ points # {}
  /\ points \subseteq Finder!Near(p, cloud, thr)
  /\ Finder!Classify(p, points)
  /\ cloud' = cloud \ points
  /\ UNCHANGED <<original, reuse, searching>>

(* One more plane takes points that are near it.                           *)
LEMMA StillWithTheirPlane ==
  ASSUME FinderTypes, Finder!PointsKeepTheirPlane, NEW p \in Plane, NEW points,
         NEW thr, Covers(reuse, thr), Takes(p, points, thr)
  PROVE  /\ planes' \in Seq(SUBSET Point)
         /\ planeCoefficients' \in Seq(Plane)
         /\ cloud' \subseteq original'
         /\ Finder!PointsKeepTheirPlane'
<1> DEFINE pc == planeCoefficients
<1>1. /\ points # {} /\ points \subseteq cloud /\ points \subseteq Point
      /\ cloud' = cloud \ points /\ original' = original
      /\ \A q \in points : /\ q \in original /\ q[1] \in Int /\ q[2] \in Int
                          /\ Finder!Away(q[2], Finder!At(p, q[1])) <= thr
  BY DEF Takes, Finder!Near, FinderTypes, Point
<1>2. /\ Len(planes) = Len(pc)
      /\ Shared(planes, cloud)
      /\ NearTheirs(planes, pc)
      /\ searching # "no" => original = cloud \cup UNION {planes[i] : i \in DOMAIN planes}
  BY PointsInTerms DEF PointsKept
<1>3. DOMAIN planes = 1 .. Len(planes) /\ DOMAIN pc = 1 .. Len(planes)
  BY <1>2 DEF FinderTypes
<1>4. \A i \in DOMAIN planes : planes[i] \cap points = {}
  BY <1>1, <1>2 DEF Shared
<1>5. reuse' = reuse /\ reuse \in BOOLEAN
  BY DEF Takes, FinderTypes
<1>7. Finder!PointsKeepTheirPlane' <=> PointsKept'
  BY PointsInTerms, PTL
<1>6. CASE /\ pc' = pc
           /\ \E i \in DOMAIN planes :
                /\ Finder!SameSurface(p, pc[i])
                /\ planes' = [planes EXCEPT ![i] = @ \cup points]
  <2>1. PICK i \in DOMAIN planes :
          Finder!SameSurface(p, pc[i]) /\ planes' = [planes EXCEPT ![i] = @ \cup points]
    BY <1>6
  <2>2. /\ DOMAIN planes' = DOMAIN planes /\ Len(planes') = Len(planes)
        /\ planes' \in Seq(SUBSET Point)
        /\ planes'[i] = planes[i] \cup points
        /\ \A k \in DOMAIN planes \ {i} : planes'[k] = planes[k]
    BY <1>1, <2>1 DEF FinderTypes
  <2>3. Shared(planes', cloud')
    <3>1. ASSUME NEW k \in DOMAIN planes PROVE planes'[k] # {} /\ planes'[k] \cap cloud' = {}
      <4>1. planes[k] # {} /\ planes[k] \cap cloud = {}
        BY <1>2 DEF Shared
      <4>2. CASE k = i
        BY <1>1, <2>2, <4>1, <4>2
      <4>3. CASE k # i
        BY <1>1, <2>2, <4>1, <4>3
      <4>4. QED
        BY <4>2, <4>3
    <3>2. ASSUME NEW k \in DOMAIN planes, NEW l \in DOMAIN planes, k # l
          PROVE  planes'[k] \cap planes'[l] = {}
      <4>1. planes[k] \cap planes[l] = {}
        BY <1>2, <3>2 DEF Shared
      <4>2. CASE k = i
        BY <1>4, <2>2, <3>2, <4>1, <4>2
      <4>3. CASE l = i
        BY <1>4, <2>2, <3>2, <4>1, <4>3
      <4>4. CASE k # i /\ l # i
        BY <2>2, <4>1, <4>4
      <4>5. QED
        BY <4>2, <4>3, <4>4
    <3>3. QED
      BY <2>2, <3>1, <3>2 DEF Shared
  <2>4. NearTheirs(planes, pc)'
    <3>1. ASSUME NEW k \in DOMAIN planes, NEW q \in planes'[k]
          PROVE  /\ q \in original
                 /\ Finder!Away(q[2], Finder!At(pc[k], q[1])) <= Margin(reuse, q[1])
      <4>1. CASE q \in planes[k]
        BY <1>2, <4>1 DEF NearTheirs
      <4>2. CASE q \notin planes[k]
        <5>1. k = i /\ q \in points
          BY <2>2, <3>1, <4>2
        <5>2. pc[i] \in Plane
          BY <1>3 DEF FinderTypes
        <5>3. QED
          BY <1>1, <1>5, <2>1, <5>1, <5>2, NearSimilar
      <4>3. QED
        BY <4>1, <4>2
    <3>2. QED
      BY <1>1, <1>5, <1>6, <2>2, <3>1, Zenon DEF NearTheirs
  <2>5. searching # "no" => original = cloud' \cup UNION {planes'[k] : k \in DOMAIN planes}
    <3>1. UNION {planes'[k] : k \in DOMAIN planes} = points \cup UNION {planes[k] : k \in DOMAIN planes}
      BY <2>1, <2>2
    <3>2. QED
      BY <1>1, <1>2, <3>1
  <2>6. planeCoefficients' \in Seq(Plane) /\ cloud' \subseteq original' /\ searching' = searching
    BY <1>1, <1>6 DEF Takes, FinderTypes
  <2>7. QED
    BY <1>1, <1>2, <1>6, <1>7, <2>2, <2>3, <2>4, <2>5, <2>6 DEF PointsKept
<1>8. CASE planes' = Append(planes, points) /\ pc' = Append(pc, p)
  <2> DEFINE n == Len(planes) + 1
  <2>1. planes \in Seq(SUBSET Point) /\ pc \in Seq(Plane) /\ Len(pc) = Len(planes)
    BY <1>2 DEF FinderTypes
  <2>2. /\ planes' \in Seq(SUBSET Point) /\ pc' \in Seq(Plane)
        /\ DOMAIN planes' = 1 .. n /\ Len(planes') = n /\ Len(pc') = n
        /\ DOMAIN planes = 1 .. n - 1
        /\ \A k \in 1 .. n - 1 : planes'[k] = planes[k] /\ pc'[k] = pc[k]
        /\ planes'[n] = points /\ pc'[n] = p
    BY <1>1, <1>8, <2>1
  <2>3. 1 .. n = (1 .. n - 1) \cup {n}
    BY <2>1
  <2> HIDE DEF n
  <2>4. Shared(planes', cloud')
    <3>1. ASSUME NEW k \in 1 .. n PROVE planes'[k] # {} /\ planes'[k] \cap cloud' = {}
      <4>1. CASE k = n
        BY <1>1, <2>2, <4>1
      <4>2. CASE k \in 1 .. n - 1
        BY <1>1, <1>2, <2>2, <4>2 DEF Shared
      <4>3. QED
        BY <2>3, <4>1, <4>2
    <3>2. ASSUME NEW k \in 1 .. n, NEW l \in 1 .. n, k # l
          PROVE  planes'[k] \cap planes'[l] = {}
      <4>1. CASE k \in 1 .. n - 1 /\ l \in 1 .. n - 1
        BY <1>2, <2>2, <3>2, <4>1 DEF Shared
      <4>2. CASE k = n /\ l \in 1 .. n - 1
        BY <1>4, <2>2, <4>2
      <4>3. CASE l = n /\ k \in 1 .. n - 1
        BY <1>4, <2>2, <4>3
      <4>4. QED
        BY <2>3, <3>2, <4>1, <4>2, <4>3
    <3>3. QED
      BY <2>2, <3>1, <3>2 DEF Shared
  <2>5. NearTheirs(planes, pc)'
    <3>1. ASSUME NEW k \in 1 .. n, NEW q \in planes'[k]
          PROVE  /\ q \in original
                 /\ Finder!Away(q[2], Finder!At(pc'[k], q[1])) <= Margin(reuse, q[1])
      <4>1. CASE k \in 1 .. n - 1
        BY <1>2, <2>2, <3>1, <4>1 DEF NearTheirs
      <4>2. CASE k = n
        <5>1. /\ q \in original /\ q[1] \in Int /\ q[2] \in Int /\ pc'[k] = p
              /\ Finder!Away(q[2], Finder!At(p, q[1])) <= thr
          BY <1>1, <2>2, <3>1, <4>2
        <5>2. QED
          BY <1>5, <5>1, NearOwn
      <4>3. QED
        BY <2>3, <4>1, <4>2
    <3>2. QED
      BY <1>1, <1>5, <2>2, <3>1, Zenon DEF NearTheirs
  <2>6. searching # "no" => original = cloud' \cup UNION {planes'[k] : k \in 1 .. n}
    <3>1. UNION {planes'[k] : k \in 1 .. n} = points \cup UNION {planes[k] : k \in 1 .. n - 1}
      BY <2>2, <2>3
    <3>2. QED
      BY <1>1, <1>2, <2>2, <3>1
  <2>7. cloud' \subseteq original' /\ searching' = searching
    BY <1>1 DEF Takes, FinderTypes
  <2>8. QED
    BY <1>1, <1>7, <2>2, <2>4, <2>5, <2>6, <2>7 DEF PointsKept
<1>9. QED
  BY <1>2, <1>6, <1>8, Classified DEF Takes

(* The scan for the ground ends at one of the planes.                      *)
LEMMA GroundIsPlane ==
  ASSUME FinderTypes, planes # <<>>
  PROVE  Finder!Ground \in DOMAIN planes
<1> DEFINE n == Len(planes)
           D == 1 .. n
           step == [e \in D \X D |-> IF e[1] = 1 THEN 1
                                     ELSE IF Finder!Lower(e[1], e[2]) THEN e[1] ELSE e[2]]
           Scan(f) == f = [i \in DOMAIN planes |->
                             IF i = 1 THEN 1
                             ELSE IF Finder!Lower(i, f[i - 1]) THEN i ELSE f[i - 1]]
<1>1. n \in Nat /\ n >= 1 /\ DOMAIN planes = D /\ 1 \in D
  BY DEF FinderTypes
<1>2. step \in [D \X D -> D]
  BY <1>1
<1>3. PICK g : /\ g \in [0 .. n -> D]
               /\ g[0] = 1
               /\ \A i \in 1 .. n : g[i] = step[<<i, g[i - 1]>>]
  <2>1. Recursive(1, step, n, D)
    BY <1>1, <1>2 DEF Recursive
  <2> HIDE DEF step, D, n
  <2>2. \E g : Computes(g, 1, step, n, D)
    BY <2>1, Recursion
  <2>3. QED
    BY <2>2 DEF Computes
<1> DEFINE f == [i \in D |-> g[i]]
<1>4. f \in [D -> D]
  BY <1>3
<1>5. ASSUME NEW i \in D
      PROVE  f[i] = IF i = 1 THEN 1 ELSE IF Finder!Lower(i, f[i - 1]) THEN i ELSE f[i - 1]
  <2>1. /\ g[i - 1] \in D
        /\ f[i] = IF i = 1 THEN 1
                  ELSE IF Finder!Lower(i, g[i - 1]) THEN i ELSE g[i - 1]
    <3>1. f[i] = g[i] /\ g[i] = step[<<i, g[i - 1]>>] /\ i - 1 \in 0 .. n
      <4> HIDE DEF step
      <4>1. QED
        BY <1>1, <1>3
    <3>2. g[i - 1] \in D
      BY <1>3, <3>1
    <3> DEFINE b == g[i - 1]
    <3>3. <<i, b>> \in D \X D /\ <<i, b>>[1] = i /\ <<i, b>>[2] = b
      BY <3>2
    <3> HIDE DEF b
    <3>4. step[<<i, b>>] = IF i = 1 THEN 1 ELSE IF Finder!Lower(i, b) THEN i ELSE b
      BY <3>3, Zenon
    <3>5. QED
      BY <3>1, <3>2, <3>4 DEF b
  <2>2. CASE i = 1
    BY <2>1, <2>2
  <2>3. CASE i # 1
    <3>1. i - 1 \in D /\ f[i - 1] = g[i - 1]
      BY <1>1, <2>3
    <3>2. QED
      BY <2>1, <2>3, <3>1
  <2>4. QED
    BY <2>2, <2>3
<1>6. Scan(f)
  <2> HIDE DEF f
  <2>1. f = [i \in D |-> f[i]]
    BY <1>4
  <2>2. QED
    BY <1>1, <1>5, <2>1, Zenon
<1>7. \A h : Scan(h) => h[n] \in D
  <2> SUFFICES ASSUME NEW h, Scan(h) PROVE h[n] \in D
    OBVIOUS
  <2> DEFINE Bad == {i \in D : h[i] \notin D}
  <2>1. CASE Bad = {}
    <3>1. n \in D
      BY <1>1
    <3> HIDE DEF D, n
    <3>2. QED
      BY <2>1, <3>1
  <2>2. CASE Bad # {}
    <3>1. PICK m \in Bad : \A k \in Bad : m <= k
      <4>1. Bad \in SUBSET Nat
        OBVIOUS
      <4> HIDE DEF Bad
      <4>2. QED
        BY <2>2, <4>1, NatHasMin
    <3>2. h[m] = IF m = 1 THEN 1 ELSE IF Finder!Lower(m, h[m - 1]) THEN m ELSE h[m - 1]
      BY <1>1, <3>1, Zenon
    <3>3. m \in D /\ h[m] \notin D
      BY <3>1
    <3>4. m # 1 => m - 1 \in D /\ m - 1 \notin Bad
      BY <1>1, <3>1, <3>3
    <3>5. QED
      BY <1>1, <3>2, <3>3, <3>4
  <2>3. QED
    BY <2>1, <2>2
<1>8. Finder!Ground = (CHOOSE h : Scan(h))[n]
  BY Zenon DEF Finder!Ground
<1>9. QED
  <2> HIDE DEF Scan, f
  <2>1. Scan(CHOOSE h : Scan(h))
    BY <1>6, Zenon
  <2>2. QED
    BY <1>1, <1>7, <1>8, <2>1, Zenon

(* A frame begins without planes.                                          *)
LEMMA NoPlanes ==
  ASSUME planes' = <<>>, planeCoefficients' = <<>>
  PROVE  Finder!PlanesDiffer' /\ (cloud' = original' => Finder!PointsKeepTheirPlane')
<1>1. PointsKept' <=> Finder!PointsKeepTheirPlane'
  BY PointsInTerms, PTL
<1>2. DOMAIN planes' = {} /\ DOMAIN planeCoefficients' = {} /\ Len(planes') = Len(planeCoefficients')
  OBVIOUS
<1>3. Finder!PlanesDiffer'
  BY <1>2 DEF Finder!PlanesDiffer
<1>4. Shared(planes', cloud') /\ NearTheirs(planes, planeCoefficients)'
  BY <1>2 DEF Shared, NearTheirs
<1>5. cloud' = original' => original' = cloud' \cup UNION {planes'[i] : i \in DOMAIN planes'}
  BY <1>2
<1>6. QED
  BY <1>1, <1>2, <1>3, <1>4, <1>5 DEF PointsKept

(* The ground alone is as the finder wants it.                             *)
LEMMA OnlyGround ==
  ASSUME FinderInv, NEW g \in DOMAIN planes,
         planes' = <<planes[g]>>, planeCoefficients' = <<planeCoefficients[g]>>,
         UNCHANGED <<original, cloud, reuse>>, searching' = "no"
  PROVE  /\ planes' \in Seq(SUBSET Point) /\ planeCoefficients' \in Seq(Plane)
         /\ Finder!PlanesDiffer' /\ Finder!PointsKeepTheirPlane'
<1>1. PointsKept /\ (PointsKept' <=> Finder!PointsKeepTheirPlane')
  BY PointsInTerms, PTL DEF FinderInv
<1>2. /\ planes[g] \in SUBSET Point /\ planeCoefficients[g] \in Plane
      /\ DOMAIN planes = DOMAIN planeCoefficients
  BY <1>1 DEF FinderInv, FinderTypes, PointsKept
<1>3. /\ DOMAIN planes' = {1} /\ DOMAIN planeCoefficients' = {1}
      /\ planes'[1] = planes[g] /\ planeCoefficients'[1] = planeCoefficients[g]
      /\ Len(planes') = 1 /\ Len(planeCoefficients') = 1
      /\ planes' \in Seq(SUBSET Point) /\ planeCoefficients' \in Seq(Plane)
  BY <1>2
<1>4. Finder!PlanesDiffer'
  BY <1>3 DEF Finder!PlanesDiffer
<1>5. Shared(planes', cloud')
  BY <1>1, <1>3 DEF PointsKept, Shared
<1>6. NearTheirs(planes, planeCoefficients)'
  <2>1. original' = original /\ reuse' = reuse
    OBVIOUS
  <2>2. QED
    BY <1>1, <1>3, <2>1, Zenon DEF PointsKept, NearTheirs
<1>7. QED
  BY <1>1, <1>3, <1>4, <1>5, <1>6 DEF PointsKept

(* The finder starts with all points and no plane.                         *)
LEMMA FinderInit == Finder!Init => FinderInv
<1> SUFFICES ASSUME Finder!Init PROVE FinderInv
  OBVIOUS
<1> USE DEF Finder!Init
<1>1. FinderTypes
  BY DEF FinderTypes
<1>2. PointsKept
  BY DEF PointsKept, Shared, NearTheirs
<1>3. Finder!PlanesDiffer
  BY DEF Finder!PlanesDiffer
<1>4. QED
  BY <1>1, <1>2, <1>3, PointsInTerms DEF FinderInv

(* Every turn of the finder's loops leaves its planes in order.            *)
LEMMA FinderStep == FinderInv /\ [Finder!Next]_(Finder!vars) => FinderInv'
<1> SUFFICES ASSUME FinderInv, [Finder!Next]_(Finder!vars) PROVE FinderInv'
  OBVIOUS
<1>1. PointsKept
  BY PointsInTerms DEF FinderInv
<1>2. FinderTypes /\ Len(planes) = Len(planeCoefficients)
  BY <1>1 DEF FinderInv, PointsKept
<1>3. ASSUME NEW c \in Clouds, Finder!FindSurfaces(c)
      PROVE  FinderInv'
  <2> USE <1>3 DEF Finder!FindSurfaces
  <2>1. Finder!PlanesDiffer' /\ Finder!PointsKeepTheirPlane'
    BY NoPlanes
  <2>2. FinderTypes'
    BY <1>2, FinderAssumption DEF FinderTypes, Point
  <2>3. QED
    BY <2>1, <2>2 DEF FinderInv
<1>4. ASSUME NEW p \in Plane, NEW points, NEW thr, Covers(reuse, thr),
             Takes(p, points, thr), previous_plane_coeffs' \in Seq(Plane),
             searching = "old" /\ ~ reuse => previous_plane_coeffs' = <<>>
      PROVE  FinderInv'
  <2>1. /\ planes' \in Seq(SUBSET Point)
        /\ planeCoefficients' \in Seq(Plane)
        /\ cloud' \subseteq original'
        /\ Finder!PointsKeepTheirPlane'
    BY <1>2, <1>4, StillWithTheirPlane DEF FinderInv
  <2>2. Finder!PlanesDiffer'
    BY <1>2, <1>4, StillDifferent DEF FinderInv, Takes
  <2>3. /\ original' = original /\ reuse' = reuse /\ searching' = searching
    BY <1>4 DEF Takes
  <2>4. QED
    BY <1>2, <1>4, <2>1, <2>2, <2>3 DEF FinderInv, FinderTypes
<1>5. CASE Finder!ReusePlane
  <2> DEFINE p == Head(previous_plane_coeffs)
  <2>1. /\ searching = "old" /\ previous_plane_coeffs # <<>>
        /\ previous_plane_coeffs' = Tail(previous_plane_coeffs)
        /\ UNCHANGED <<original, reuse, searching>>
    BY <1>5 DEF Finder!ReusePlane
  <2>2. reuse /\ p \in Plane /\ previous_plane_coeffs' \in Seq(Plane)
    BY <1>2, <2>1 DEF FinderInv, FinderTypes
  <2> DEFINE points == Finder!Near(p, cloud, REUSE_THRESHOLD)
  <2>3. IF Cardinality(points) < MIN_REUSE
        THEN UNCHANGED <<cloud, planes, planeCoefficients>>
        ELSE Finder!Classify(p, points) /\ cloud' = Finder!Without(points)
    BY <1>5, Zenon DEF Finder!ReusePlane, Finder!Cardinality, Cardinality
  <2> HIDE DEF p
  <2>4. CASE Cardinality(points) < MIN_REUSE
    <3>1. UNCHANGED <<cloud, planes, planeCoefficients, original, reuse, searching>>
      BY <2>1, <2>3, <2>4
    <3>2. PointsKept' /\ (PointsKept' <=> Finder!PointsKeepTheirPlane')
      <4>1. PointsKept'
        BY <1>1, <3>1, Zenon DEF PointsKept, Shared, NearTheirs
      <4>2. QED
        BY <4>1, PointsInTerms, PTL
    <3>3. Finder!PlanesDiffer'
      BY <3>1 DEF FinderInv, Finder!PlanesDiffer
    <3>4. QED
      BY <1>2, <2>2, <3>1, <3>2, <3>3 DEF FinderInv, FinderTypes
  <2>5. CASE ~ (Cardinality(points) < MIN_REUSE)
    <3>1. points # {}
      <4>1. Cardinality({}) = 0 /\ 0 < MIN_REUSE
        BY FS_EmptySet, FinderAssumption
      <4>2. QED
        BY <2>5, <4>1
    <3>2. Takes(p, points, REUSE_THRESHOLD)
      BY <2>1, <2>3, <2>5, <3>1 DEF Takes, Finder!Without
    <3>3. REUSE_THRESHOLD \in Nat /\ Covers(reuse, REUSE_THRESHOLD)
      BY <1>2, <2>2, MarginCovers DEF FinderTypes, Covers
    <3> HIDE DEF points
    <3>4. QED
      BY <1>4, <2>2, <3>2, <3>3
  <2>6. QED
    BY <2>4, <2>5
<1>6. CASE Finder!StartRansac
  <2> USE <1>6 DEF Finder!StartRansac
  <2>1. PointsKept' /\ (PointsKept' <=> Finder!PointsKeepTheirPlane')
    <3>1. PointsKept'
      BY <1>1 DEF PointsKept, Shared, NearTheirs
    <3>2. QED
      BY <3>1, PointsInTerms, PTL
  <2>2. Finder!PlanesDiffer'
    BY DEF FinderInv, Finder!PlanesDiffer
  <2>3. QED
    BY <1>2, <2>1, <2>2 DEF FinderInv, FinderTypes
<1>7. ASSUME NEW p \in Plane, Finder!FindPlane(p)
      PROVE  FinderInv'
  <2>1. /\ searching = "new" /\ previous_plane_coeffs' = Append(previous_plane_coeffs, p)
        /\ UNCHANGED <<original, reuse, searching>>
    BY <1>7 DEF Finder!FindPlane
  <2>2. PICK points \in (SUBSET Finder!Near(p, cloud, DISTANCE_THRESHOLD)) \ {{}} :
          Finder!Classify(p, points) /\ cloud' = Finder!Without(points)
    BY <1>7 DEF Finder!FindPlane
  <2>3. Takes(p, points, DISTANCE_THRESHOLD)
    BY <2>1, <2>2, Zenon DEF Takes, Finder!Without
  <2>4. DISTANCE_THRESHOLD \in Nat /\ Covers(reuse, DISTANCE_THRESHOLD)
    BY <1>2, MarginCovers DEF FinderTypes, Covers
  <2>5. previous_plane_coeffs' \in Seq(Plane)
    BY <1>2, <1>7, <2>1 DEF FinderTypes
  <2>6. QED
    BY <1>4, <2>1, <2>3, <2>4, <2>5
<1>8. CASE Finder!EndSearch
  <2>1. /\ searching = "new" /\ searching' = "no"
        /\ UNCHANGED <<reuse, original, cloud, previous_plane_coeffs>>
    BY <1>8 DEF Finder!EndSearch
  <2>2. CASE UNCHANGED <<planes, planeCoefficients>>
    <3>1. PointsKept' /\ (PointsKept' <=> Finder!PointsKeepTheirPlane')
      <4>1. PointsKept'
        BY <1>1, <2>1, <2>2 DEF PointsKept, Shared, NearTheirs
      <4>2. QED
        BY <4>1, PointsInTerms, PTL
    <3>2. Finder!PlanesDiffer'
      BY <2>2 DEF FinderInv, Finder!PlanesDiffer
    <3>3. QED
      BY <1>2, <2>1, <2>2, <3>1, <3>2 DEF FinderInv, FinderTypes
  <2>3. CASE ~ UNCHANGED <<planes, planeCoefficients>>
    <3>1. /\ planes # <<>> /\ planes' = <<planes[Finder!Ground]>>
          /\ planeCoefficients' = <<planeCoefficients[Finder!Ground]>>
      BY <1>8, <2>3 DEF Finder!EndSearch
    <3>2. Finder!Ground \in DOMAIN planes
      BY <1>2, <3>1, GroundIsPlane
    <3>3. /\ planes' \in Seq(SUBSET Point) /\ planeCoefficients' \in Seq(Plane)
          /\ Finder!PlanesDiffer' /\ Finder!PointsKeepTheirPlane'
      BY <2>1, <3>1, <3>2, OnlyGround
    <3>4. QED
      BY <1>2, <2>1, <3>3 DEF FinderInv, FinderTypes
  <2>4. QED
    BY <2>2, <2>3
<1>9. CASE UNCHANGED Finder!vars
  <2> USE <1>9 DEF Finder!vars
  <2>1. PointsKept' /\ (PointsKept' <=> Finder!PointsKeepTheirPlane')
    <3>1. PointsKept'
      BY <1>1 DEF PointsKept, Shared, NearTheirs
    <3>2. QED
      BY <3>1, PointsInTerms, PTL
  <2>2. Finder!PlanesDiffer'
    BY DEF FinderInv, Finder!PlanesDiffer
  <2>3. QED
    BY <1>2, <2>1, <2>2 DEF FinderInv, FinderTypes
<1>10. QED
  BY <1>3, <1>5, <1>6, <1>7, <1>8, <1>9 DEF Finder!Next

(* What is run side by side is, for the finder, the finder.                *)
LEMMA FinderRuns == Spec => Finder!Spec
<1>1. Init => Finder!Init
  BY DEF Init
<1>2. [Next]_vars => [Finder!Next]_(Finder!vars)
  BY DEF Next, vars, RunTracker, RunHull, RunClusterer, RunFinder, RunSplitter, finder, Finder!vars
<1>3. QED
  BY <1>1, <1>2, PTL DEF Spec, Finder!Spec

(* However the finder goes on, its planes are in order.                    *)
THEOREM FinderInvariance == Finder!Spec => []FinderInv
BY FinderInit, FinderStep, PTL DEF Finder!Spec

(* Each point of a cloud is in one plane or left, and not too far from the *)
(* plane that stands for it, however tilted the planes are that were merged*)
(* and reused.                                                             *)
THEOREM PointsStayWithTheirPlane == Spec => []PointsKeepTheirPlane
<1>1. FinderInv => PointsKeepTheirPlane
  BY DEF FinderInv, PointsKeepTheirPlane
<1>2. QED
  BY <1>1, FinderRuns, FinderInvariance, PTL

(* No two planes that are similar are ever handed on, but for parallel ones*)
THEOREM PlanesStayDifferent == Spec => []PlanesDiffer
<1>1. FinderInv => PlanesDiffer
  BY DEF FinderInv, PlanesDiffer
<1>2. QED
  BY <1>1, FinderRuns, FinderInvariance, PTL

-----------------------------------------------------------------------------
(* The surface tracker.                                                    *)

(* It counts like the obstacle tracker, and what is proved of its counting *)
(* holds here, too.                                                        *)
Counted == INSTANCE LowPassObstacleTrackerProofs WITH
  Model <- Tracker!Surface, Distance <- Tracker!MatchDistance, Blend <- Tracker!Blended,
  MATCH_DISTANCE <- MAX_CENTER_DISTANCE, REFRESH <- 1, MaxObstacles <- MaxSurfaces,
  model_idx_in_list <- DOMAIN model_idx_in_list,
  materialized_models <- [id \in Tracker!Id |-> IF id \in DOMAIN model_idx_in_list THEN 1 ELSE 0],
  frameNum <- 0, detected <- <<>>, obstacles <- DOMAIN model_idx_in_list

(* What the counting that both trackers share assumes of a geometry holds  *)
(* of the surface tracker's.                                               *)
LEMMA CountedGeometry ==
  /\ MAX_CENTER_DISTANCE \in Nat
  /\ Tracker!MatchDistance \in [Tracker!Surface \X Tracker!Surface -> Nat]
  /\ Tracker!Blended \in [Tracker!Surface \X Tracker!Surface -> Tracker!Surface]
<1>1. \A x \in Int : x * x \in Nat
  OBVIOUS
<1>2. ASSUME NEW p \in Tracker!Surface \X Tracker!Surface
      PROVE  /\ (IF Tracker!SimilarRadius(p[1].radius, p[2].radius)
                 THEN (p[1].center - p[2].center) * (p[1].center - p[2].center)
                 ELSE MAX_CENTER_DISTANCE + 1) \in Nat
             /\ [p[2] EXCEPT !.center = (p[1].center + p[2].center) \div 2] \in Tracker!Surface
  <2>1. /\ p[1].center \in Center /\ p[2].center \in Center
        /\ p[2] \in [center : Center, radius : Radius]
    BY DEF Tracker!Surface
  <2>2. p[1].center - p[2].center \in Int /\ MAX_CENTER_DISTANCE + 1 \in Nat
    <3>1. p[1].center \in Int /\ p[2].center \in Int
      BY <2>1, TrackerAssumption
    <3>2. QED
      BY <3>1, TrackerAssumption
  <2>3. (p[1].center + p[2].center) \div 2 \in Center
    BY <2>1, TrackerAssumption
  <2>4. QED
    BY <1>1, <2>1, <2>2, <2>3 DEF Tracker!Surface
<1>3. Tracker!MatchDistance \in [Tracker!Surface \X Tracker!Surface -> Nat]
  BY <1>2, Zenon DEF Tracker!MatchDistance
<1>4. Tracker!Blended \in [Tracker!Surface \X Tracker!Surface -> Tracker!Surface]
  BY <1>2, Zenon DEF Tracker!Blended
<1>5. QED
  BY <1>3, <1>4, TrackerAssumption

(* What the counting assumes of its limits holds, too.                     *)
LEMMA CountedLimits ==
  /\ FOUND_LIMIT \in Nat \ {0}
  /\ LOST_LIMIT \in Nat \ {0}
  /\ 1 \in Nat \ {0}
  /\ MAX_ID \in Nat
  /\ MaxSurfaces \in Nat
BY TrackerAssumption

(* A turn of the surface tracker counts like a frame of the other one.     *)
LEMMA UpdateCounts ==
  ASSUME Counted!CountingInv, NEW new \in Tracker!NewSurfaces, Tracker!UpdateSurfaces(new)
  PROVE  \E corr, dropped, graduated :
           /\ Counted!CountingStep(new, corr, dropped, graduated)
           /\ materialized_models' =
                Tracker!ListAfter(Tracker!ListAdapted(corr, Counted!Adapted(corr, new, FALSE)),
                                  Counted!Adapted(corr, new, FALSE), dropped, graduated)
           /\ tracked_models' = [id \in Counted!Known(corr) \ dropped |->
                                   Counted!Adapted(corr, new, FALSE)[id]]
           /\ model_idx_in_list' = Tracker!IndexAfter(dropped, graduated)
<1> DEFINE corr      == Counted!Correspondence(new)
           found     == Counted!FoundAfter(corr)
           lost      == Counted!LostAfter(corr)
           tracked   == Counted!Adapted(corr, new, FALSE)
           dropped   == Counted!Dropped(lost)
           graduated == Counted!Graduated(found, dropped)
<1>1. /\ Tracker!Correspondence(new) = corr
      /\ Tracker!Fresh(new) = Cardinality(Counted!Unmatched(new))
  BY Zenon
     DEF Tracker!Correspondence, Tracker!Fresh,
         Tracker!Counting!Near, Counted!Near, Tracker!Counting!Nearest, Counted!Nearest,
         Tracker!Counting!Unmatched, Counted!Unmatched, Tracker!Counting!NewId, Counted!NewId,
         Tracker!Counting!MatchedId, Counted!MatchedId,
         Tracker!Counting!Correspondence, Counted!Correspondence,
         Tracker!Counting!Max, Counted!Max, Tracker!Counting!Range, Counted!Range,
         Tracker!Counting!Cardinality, Counted!Cardinality, Tracker!Cardinality, Cardinality
<1>2. /\ Tracker!FoundAfter(corr) = found
      /\ Tracker!LostAfter(corr) = lost
      /\ Tracker!Adapted(corr, new) = tracked
  BY Zenon
     DEF Tracker!FoundAfter, Tracker!LostAfter, Tracker!Adapted,
         Tracker!Counting!FoundAfter, Counted!FoundAfter,
         Tracker!Counting!LostAfter, Counted!LostAfter,
         Tracker!Counting!Adapted, Counted!Adapted,
         Tracker!Counting!Known, Counted!Known, Tracker!Counting!FoundKeys, Counted!FoundKeys,
         Tracker!Counting!Counter, Counted!Counter
<1>3. /\ Tracker!Dropped(lost) = dropped
      /\ Tracker!Graduated(found, dropped) = graduated
  BY Zenon
     DEF Tracker!Dropped, Tracker!Graduated, Tracker!Counting!Dropped, Counted!Dropped,
         Tracker!Counting!Graduated, Counted!Graduated
<1> HIDE DEF corr, found, lost, tracked, dropped, graduated
<1>4. /\ next_model_id + Cardinality(Counted!Unmatched(new)) <= MAX_ID + 1
      /\ next_model_id' = next_model_id + Cardinality(Counted!Unmatched(new))
      /\ tracked_models' = Tracker!Restrict(tracked, DOMAIN tracked \ dropped)
      /\ frames_found' = Tracker!Restrict(found, DOMAIN found \ (dropped \cup graduated))
      /\ frames_lost' = Tracker!Restrict(lost, DOMAIN lost \ dropped)
      /\ materialized_models' =
           Tracker!ListAfter(Tracker!ListAdapted(corr, tracked), tracked, dropped, graduated)
      /\ model_idx_in_list' = Tracker!IndexAfter(dropped, graduated)
  BY <1>1, <1>2, <1>3, Zenon DEF Tracker!UpdateSurfaces
<1>5. /\ DOMAIN found = Counted!FoundKeys(corr)
      /\ DOMAIN lost = Counted!Known(corr)
      /\ DOMAIN tracked = Counted!Known(corr)
  <2>1. corr = Counted!Correspondence(new) /\ new \in Counted!Detections
    BY DEF corr, Tracker!NewSurfaces, Counted!Detections
  <2>2. /\ Counted!FoundAfter(corr) \in [Counted!FoundKeys(corr) -> Nat]
        /\ Counted!LostAfter(corr) \in [Counted!Known(corr) -> Nat]
    BY <1>4, <2>1, CountedGeometry, CountedLimits, Counted!FrameFacts DEF Counted!Cardinality, Cardinality
  <2>3. QED
    BY <2>2 DEF found, lost, tracked, Counted!Adapted
<1>6. DOMAIN model_idx_in_list' = (DOMAIN model_idx_in_list \ dropped) \cup graduated
  BY <1>4, Zenon DEF Tracker!IndexAfter
<1>7. Counted!CountingStep(new, corr, dropped, graduated)
  BY <1>4, <1>5, <1>6, Zenon DEF corr, found, lost, tracked, dropped, graduated, Counted!CountingStep, Tracker!Restrict, Counted!Cardinality, Cardinality
<1>8. QED
  BY <1>4, <1>5, <1>7, Zenon DEF tracked, Tracker!Restrict

(* The part of the promise that is about counting is the shared one.       *)
LEMMA SamePromise ==
  /\ Tracker!Promise!Init <=> Counted!Promise!Init
  /\ Tracker!Promise!Next <=> Counted!Promise!Next
BY Zenon DEF Tracker!Promise!Init, Counted!Promise!Init, Tracker!Promise!Next, Counted!Promise!Next,
   Tracker!Promise!Observe, Counted!Promise!Observe, Tracker!Promise!Appearing, Counted!Promise!Appearing,
   Tracker!Promise!Vanishing, Counted!Promise!Vanishing, Tracker!Counting!Counter, Counted!Counter,
   Tracker!Id, Counted!Id

(* Nothing is tracked and nothing is promised yet.                         *)
LEMMA TrackerInit == Tracker!Init => Counted!CountingInv /\ Tracker!Promise!Init
<1> SUFFICES ASSUME Tracker!Init PROVE Counted!CountingInv /\ Tracker!Promise!Init
  OBVIOUS
<1> USE DEF Tracker!Init
<1>1. Counted!CountingInv
  BY CountedLimits DEF Counted!CountingInv, Counted!CountTypes, Counted!IsMap, Counted!MapsAgree, Counted!CountersBelowLimits
<1>2. Tracker!Promise!Init
  BY CountedLimits DEF Tracker!Promise!Init, Tracker!Counting!Counter, Tracker!Id
<1>3. QED
  BY <1>1, <1>2

(* Each turn keeps the counters and the promise.                           *)
LEMMA TrackerStep ==
  Counted!CountingInv /\ [Tracker!Next]_(Tracker!vars)
     => Counted!CountingInv' /\ [Tracker!Promise!Next]_(Tracker!Promise!vars)
<1> SUFFICES ASSUME Counted!CountingInv, [Tracker!Next]_(Tracker!vars)
             PROVE  Counted!CountingInv' /\ [Tracker!Promise!Next]_(Tracker!Promise!vars)
  OBVIOUS
<1>1. ASSUME NEW new \in Tracker!NewSurfaces, Tracker!UpdateSurfaces(new)
      PROVE  Counted!CountingInv' /\ Tracker!Promise!Next
  <2>1. PICK corr, dropped, graduated : Counted!CountingStep(new, corr, dropped, graduated)
    BY <1>1, UpdateCounts
  <2>2. new \in Counted!Detections
    BY DEF Tracker!NewSurfaces, Counted!Detections
  <2>3. Counted!CountingInv'
    BY <2>1, <2>2, CountedGeometry, CountedLimits, Counted!CountingStepInv
  <2>4. Counted!Promise!Observe(DOMAIN corr)
    BY <2>1, <2>2, CountedGeometry, CountedLimits, Counted!FrameIsObserved
  <2>5. DOMAIN corr \in SUBSET Counted!Id
    BY <2>1, <2>2, CountedGeometry, CountedLimits, Counted!CorrespondenceType
       DEF Counted!CountingStep, Counted!CountingInv
  <2>6. Counted!Promise!Next
    BY <2>4, <2>5, Zenon DEF Counted!Promise!Next
  <2>7. QED
    BY <2>3, <2>6, SamePromise
<1>2. CASE UNCHANGED Tracker!vars
  <2>1. Counted!CountingInv'
    BY <1>2 DEF Tracker!vars, Counted!CountingInv, Counted!CountTypes, Counted!IsMap, Counted!MapsAgree, Counted!CountersBelowLimits
  <2>2. UNCHANGED Tracker!Promise!vars
    BY <1>2 DEF Tracker!vars, Tracker!Promise!vars, Tracker!Counting!Counter
  <2>3. QED
    BY <2>1, <2>2
<1>3. QED
  BY <1>1, <1>2 DEF Tracker!Next

(* A behaviour of the stages is one of the tracker.                        *)
LEMMA TrackerRuns == Spec => Tracker!Spec
<1>1. Init => Tracker!Init
  BY DEF Init
<1>2. [Next]_vars => [Tracker!Next]_(Tracker!vars)
  BY DEF Next, vars, RunTracker, RunHull, RunClusterer, RunFinder, RunSplitter, tracker, Tracker!vars
<1>3. QED
  BY <1>1, <1>2, PTL DEF Spec, Tracker!Spec

(* The maps of the surface tracker agree with each other and its counters  *)
(* stay below their limits.                                                *)
THEOREM CountsAgree == Tracker!Spec => []Counted!CountingInv
BY TrackerInit, TrackerStep, PTL DEF Tracker!Spec

(* A surface is shown after FOUND_LIMIT turns in a row that found it and   *)
(* is dropped after LOST_LIMIT turns that did not.                         *)
THEOREM SurfacesAreFiltered == Spec => SurfacesKeepPromise
<1>1. Tracker!Spec => Tracker!Promise!Spec
  BY TrackerInit, TrackerStep, CountsAgree, PTL DEF Tracker!Spec, Tracker!Promise!Spec
<1>2. QED
  BY <1>1, TrackerRuns DEF SurfacesKeepPromise, Tracker!KeepsPromise

(* The list of the tracker takes them in this order.                       *)
LEMMA TakenInOrder ==
  ASSUME NEW S
  PROVE  Tracker!Ascending(S) = InOrder(S)
BY Zenon DEF Tracker!Ascending, InOrder, Tracker!Cardinality, Cardinality

Shown == [id : Counted!Id, center : Center, radius : Radius]

(* The real surfaces have one place each in the list, and the list has no  *)
(* others.                                                                 *)
PlacesAgree(I, n) ==
  /\ model_idx_in_list \in [I -> 1 .. n]
  /\ \A a, b \in I : model_idx_in_list[a] = model_idx_in_list[b] => a = b
  /\ \A k \in 1 .. n : \E id \in I : model_idx_in_list[id] = k

ListInv ==
  /\ materialized_models \in Seq(Shown)
  /\ PlacesAgree(DOMAIN model_idx_in_list, Len(materialized_models))
  /\ \A id \in DOMAIN model_idx_in_list :
       materialized_models[model_idx_in_list[id]] = Tracker!WithId(id, tracked_models[id])

(* The invariant says what the property does.                              *)
LEMMA ListIsShown == Counted!CountingInv /\ ListInv => Tracker!ListShowsTracked
<1> SUFFICES ASSUME Counted!CountingInv, ListInv PROVE Tracker!ListShowsTracked
  OBVIOUS
<1> DEFINE I == DOMAIN model_idx_in_list
           n == Len(materialized_models)
<1>1. /\ n \in Nat
      /\ model_idx_in_list \in [I -> 1 .. n]
      /\ \A a, b \in I : model_idx_in_list[a] = model_idx_in_list[b] => a = b
      /\ \A k \in 1 .. n : \E id \in I : model_idx_in_list[id] = k
      /\ \A id \in I : materialized_models[model_idx_in_list[id]] = Tracker!WithId(id, tracked_models[id])
  BY DEF ListInv, PlacesAgree
<1>2. I \subseteq DOMAIN tracked_models
  BY DEF Counted!CountingInv, Counted!MapsAgree
<1>3. n = Cardinality(I)
  <2> HIDE DEF I, n
  <2>1. model_idx_in_list \in Injection(I, 1 .. n)
    BY <1>1 DEF Injection, IsInjective
  <2>2. model_idx_in_list \in Surjection(I, 1 .. n)
    BY <1>1 DEF Surjection
  <2>3. IsFiniteSet(1 .. n) /\ Cardinality(1 .. n) = n
    BY <1>1, FS_Interval
  <2>4. QED
    BY <2>1, <2>2, <2>3, FS_Injection
<1>4. n = Tracker!Cardinality(I)
  BY <1>3, Zenon DEF Tracker!Cardinality, Cardinality
<1>5. QED
  BY <1>1, <1>2, <1>4 DEF Tracker!ListShowsTracked

(* A turn of the tracker, in the terms of what it does to the list.        *)
ListStep(new, corr, dropped, graduated) ==
  LET tracked == Counted!Adapted(corr, new, FALSE)
  IN  /\ Counted!CountingStep(new, corr, dropped, graduated)
      /\ materialized_models' =
           Tracker!ListAfter(Tracker!ListAdapted(corr, tracked), tracked, dropped, graduated)
      /\ tracked_models' = [id \in Counted!Known(corr) \ dropped |-> tracked[id]]
      /\ model_idx_in_list' = Tracker!IndexAfter(dropped, graduated)

(* What a turn drops and what graduates in it.                             *)
LEMMA TurnFacts ==
  ASSUME Counted!CountingInv, NEW new \in Tracker!NewSurfaces, NEW corr, NEW dropped, NEW graduated,
         Counted!CountingStep(new, corr, dropped, graduated)
  PROVE  /\ Counted!Known(corr) \subseteq Counted!Id
         /\ dropped \subseteq Counted!Known(corr) \ DOMAIN corr
         /\ graduated \subseteq DOMAIN corr \ DOMAIN model_idx_in_list
         /\ dropped \cap graduated = {}
         /\ DOMAIN model_idx_in_list \subseteq DOMAIN tracked_models
         /\ Counted!Known(corr) = DOMAIN tracked_models \cup DOMAIN corr
         /\ Counted!Adapted(corr, new, FALSE) \in [Counted!Known(corr) -> Tracker!Surface]
         /\ \A id \in Counted!Known(corr) \ DOMAIN corr :
              Counted!Adapted(corr, new, FALSE)[id] = tracked_models[id]
<1>1. new \in Counted!Detections
  BY DEF Tracker!NewSurfaces, Counted!Detections
<1>2. /\ dropped \subseteq Counted!Known(corr) \ DOMAIN corr
      /\ graduated \subseteq DOMAIN corr \ DOMAIN model_idx_in_list
      /\ dropped \cap graduated = {}
  BY <1>1, CountedGeometry, CountedLimits, Counted!DroppedAndGraduated
<1>3. /\ corr = Counted!Correspondence(new)
      /\ next_model_id + Counted!Cardinality(Counted!Unmatched(new)) <= MAX_ID + 1
  BY DEF Counted!CountingStep
<1>4. /\ Counted!Known(corr) \subseteq Counted!Id
      /\ Counted!Adapted(corr, new, FALSE) \in [Counted!Known(corr) -> Tracker!Surface]
  BY <1>1, <1>3, CountedGeometry, CountedLimits, Counted!FrameFacts
<1>5. DOMAIN model_idx_in_list \subseteq DOMAIN tracked_models
  BY DEF Counted!CountingInv, Counted!MapsAgree
<1>6. \A id \in Counted!Known(corr) \ DOMAIN corr :
        Counted!Adapted(corr, new, FALSE)[id] = tracked_models[id]
  BY DEF Counted!Adapted
<1>7. Counted!Known(corr) = DOMAIN tracked_models \cup DOMAIN corr
  BY DEF Counted!Known
<1>8. QED
  BY <1>2, <1>4, <1>5, <1>6, <1>7, Zenon

(* After adaptTracked every element of the list is the tracked one.        *)
LEMMA AdaptedIsTracked ==
  ASSUME ListInv, NEW corr, NEW tracked,
         \A id \in DOMAIN model_idx_in_list \ DOMAIN corr : tracked[id] = tracked_models[id]
  PROVE  /\ DOMAIN Tracker!ListAdapted(corr, tracked) = 1 .. Len(materialized_models)
         /\ \A id \in DOMAIN model_idx_in_list :
              Tracker!ListAdapted(corr, tracked)[model_idx_in_list[id]]
                = Tracker!WithId(id, tracked[id])
<1> DEFINE I       == DOMAIN model_idx_in_list
           n       == Len(materialized_models)
           here(k) == {id \in DOMAIN corr \cap I : model_idx_in_list[id] = k}
<1>1. /\ DOMAIN materialized_models = 1 .. n
      /\ model_idx_in_list \in [I -> 1 .. n]
      /\ \A a, b \in I : model_idx_in_list[a] = model_idx_in_list[b] => a = b
      /\ \A id \in I : materialized_models[model_idx_in_list[id]] = Tracker!WithId(id, tracked_models[id])
  BY DEF ListInv, PlacesAgree
<1>2. Tracker!ListAdapted(corr, tracked) =
        [k \in DOMAIN materialized_models |->
           IF here(k) = {} THEN materialized_models[k]
           ELSE Tracker!WithId(CHOOSE i \in here(k) : TRUE, tracked[CHOOSE i \in here(k) : TRUE])]
  BY Zenon DEF Tracker!ListAdapted
<1>3. ASSUME NEW id \in I
      PROVE  Tracker!ListAdapted(corr, tracked)[model_idx_in_list[id]]
                = Tracker!WithId(id, tracked[id])
  <2> DEFINE k == model_idx_in_list[id]
  <2>1. k \in DOMAIN materialized_models
    BY <1>1
  <2>2. Tracker!ListAdapted(corr, tracked)[k] =
          IF here(k) = {} THEN materialized_models[k]
          ELSE Tracker!WithId(CHOOSE i \in here(k) : TRUE, tracked[CHOOSE i \in here(k) : TRUE])
    BY <1>2, <2>1, Zenon
  <2>3. CASE id \in DOMAIN corr
    <3>1. here(k) = {id}
      BY <1>1, <2>3
    <3>2. (CHOOSE i \in here(k) : TRUE) = id
      BY <3>1
    <3>3. QED
      BY <2>2, <3>1, <3>2
  <2>4. CASE id \notin DOMAIN corr
    <3>1. here(k) = {}
      BY <1>1, <2>4
    <3>2. tracked[id] = tracked_models[id]
      BY <2>4
    <3>3. QED
      BY <1>1, <2>2, <3>1, <3>2
  <2>5. QED
    BY <2>3, <2>4
<1>4. QED
  BY <1>1, <1>2, <1>3

(* The list of a turn: who was kept, in the old order, and who is new.     *)
LEMMA ListIsKept ==
  ASSUME Counted!CountingInv, ListInv,
         NEW new \in Tracker!NewSurfaces, NEW corr, NEW dropped, NEW graduated,
         ListStep(new, corr, dropped, graduated)
  PROVE  ListInv'
<1> DEFINE I       == DOMAIN model_idx_in_list
           n       == Len(materialized_models)
           tracked == Counted!Adapted(corr, new, FALSE)
           list    == Tracker!ListAdapted(corr, tracked)
           K       == (1 .. n) \ Tracker!Erased(dropped)
           kept    == InOrder(K)
           m       == Cardinality(K)
           fresh   == InOrder(graduated)
           g       == Cardinality(graduated)
           front   == [i \in 1 .. m |-> list[kept[i]]]
           back    == [i \in 1 .. g |-> Tracker!WithId(fresh[i], tracked[fresh[i]])]
<1>1. /\ Counted!Known(corr) \subseteq Counted!Id
      /\ dropped \subseteq Counted!Known(corr) \ DOMAIN corr
      /\ graduated \subseteq DOMAIN corr \ I
      /\ dropped \cap graduated = {}
      /\ I \subseteq DOMAIN tracked_models
      /\ Counted!Known(corr) = DOMAIN tracked_models \cup DOMAIN corr
      /\ tracked \in [Counted!Known(corr) -> Tracker!Surface]
      /\ \A id \in Counted!Known(corr) \ DOMAIN corr : tracked[id] = tracked_models[id]
  BY TurnFacts, Zenon DEF ListStep
<1>2. /\ n \in Nat
      /\ DOMAIN materialized_models = 1 .. n
      /\ model_idx_in_list \in [I -> 1 .. n]
      /\ \A a, b \in I : model_idx_in_list[a] = model_idx_in_list[b] => a = b
      /\ \A k \in 1 .. n : \E id \in I : model_idx_in_list[id] = k
  BY DEF ListInv, PlacesAgree
<1>3. /\ DOMAIN list = 1 .. n
      /\ \A id \in I : list[model_idx_in_list[id]] = Tracker!WithId(id, tracked[id])
  <2>1. \A id \in I \ DOMAIN corr : tracked[id] = tracked_models[id]
    BY <1>1
  <2> HIDE DEF tracked
  <2>2. QED
    BY <2>1, AdaptedIsTracked
<1>4. /\ K \in SUBSET Nat /\ IsFiniteSet(K)
      /\ graduated \in SUBSET Nat /\ IsFiniteSet(graduated)
  <2>1. IsFiniteSet(1 .. n) /\ IsFiniteSet(Counted!Id)
    <3>1. MAX_ID \in Int /\ n \in Int /\ 0 \in Int /\ 1 \in Int
      BY <1>2, CountedLimits
    <3> HIDE DEF n
    <3>2. QED
      BY <3>1, FS_Interval, Zenon DEF Counted!Id
  <2>2. K \in SUBSET (1 .. n) /\ graduated \in SUBSET Counted!Id
    BY <1>1
  <2>3. Counted!Id \subseteq Nat
    BY CountedLimits DEF Counted!Id
  <2> HIDE DEF K
  <2>4. QED
    BY <1>2, <2>1, <2>2, <2>3, FS_Subset
<1>5. /\ m \in Nat /\ kept \in [1 .. m -> K]
      /\ \A x \in K : \E i \in 1 .. m : kept[i] = x
      /\ \A i, j \in 1 .. m : kept[i] = kept[j] => i = j
  <2> HIDE DEF K
  <2>1. QED
    BY <1>4, InOrderEnumerates
<1>6. /\ g \in Nat /\ fresh \in [1 .. g -> graduated]
      /\ \A x \in graduated : \E i \in 1 .. g : fresh[i] = x
      /\ \A i, j \in 1 .. g : fresh[i] = fresh[j] => i = j
  BY <1>4, InOrderEnumerates
<1>7. Tracker!KeptPositions(dropped) = kept /\ Tracker!Appended(graduated) = fresh
  BY <1>2, TakenInOrder, Zenon DEF Tracker!KeptPositions, Tracker!Appended
<1>8. /\ \A id \in I \ dropped : model_idx_in_list[id] \in K
      /\ \A k \in K : \E id \in I \ dropped : model_idx_in_list[id] = k
  <2>1. Tracker!Erased(dropped) = {model_idx_in_list[id] : id \in dropped \cap I}
    BY DEF Tracker!Erased
  <2>2. QED
    BY <1>2, <2>1
<1>9. K \subseteq 1 .. n
  OBVIOUS
<1>10. DOMAIN kept = 1 .. m /\ DOMAIN fresh = 1 .. g
  BY <1>5, <1>6
<1>11. materialized_models' = front \o back
  BY <1>7, <1>10, Zenon DEF ListStep, Tracker!ListAfter
<1>12. model_idx_in_list' =
         [id \in (I \ dropped) \cup graduated |->
            IF id \in graduated THEN Len(kept) + CHOOSE i \in 1 .. g : fresh[i] = id
            ELSE CHOOSE i \in 1 .. m : kept[i] = model_idx_in_list[id]]
  <2>1. model_idx_in_list' =
          [id \in (I \ dropped) \cup graduated |->
             IF id \in graduated
             THEN Len(Tracker!KeptPositions(dropped))
                    + CHOOSE i \in DOMAIN Tracker!Appended(graduated) :
                        Tracker!Appended(graduated)[i] = id
             ELSE CHOOSE i \in DOMAIN Tracker!KeptPositions(dropped) :
                    Tracker!KeptPositions(dropped)[i] = model_idx_in_list[id]]
    BY Zenon DEF ListStep, Tracker!IndexAfter
  <2> HIDE DEF kept, fresh, m, g
  <2>2. QED
    BY <1>7, <1>10, <2>1
<1>13. tracked_models' = [id \in Counted!Known(corr) \ dropped |-> tracked[id]]
  BY Zenon DEF ListStep
<1> HIDE DEF I, n, tracked, list, K, kept, m, fresh, g
<1>14. Len(kept) = m
  BY <1>5
<1>15. \A id \in Counted!Known(corr) : Tracker!WithId(id, tracked[id]) \in Shown
  BY <1>1 DEF Tracker!WithId, Shown, Tracker!Surface
<1>16. /\ front \in Seq(Shown) /\ Len(front) = m
       /\ back \in Seq(Shown) /\ Len(back) = g
  <2>1. \A k \in K : list[k] \in Shown
    BY <1>1, <1>3, <1>8, <1>15
  <2>2. front \in [1 .. m -> Shown]
    BY <1>5, <2>1
  <2>3. back \in [1 .. g -> Shown]
    BY <1>1, <1>6, <1>15
  <2> HIDE DEF front, back
  <2>4. QED
    BY <1>5, <1>6, <2>2, <2>3
<1>17. /\ materialized_models' \in Seq(Shown)
       /\ Len(materialized_models') = m + g
       /\ \A i \in 1 .. m : materialized_models'[i] = list[kept[i]]
       /\ \A i \in 1 .. g :
            materialized_models'[m + i] = Tracker!WithId(fresh[i], tracked[fresh[i]])
  <2>1. /\ \A i \in 1 .. m : front[i] = list[kept[i]]
        /\ \A i \in 1 .. g : back[i] = Tracker!WithId(fresh[i], tracked[fresh[i]])
    OBVIOUS
  <2> HIDE DEF front, back
  <2>2. /\ front \o back \in Seq(Shown)
        /\ Len(front \o back) = m + g
        /\ \A i \in 1 .. m : (front \o back)[i] = front[i]
        /\ \A i \in 1 .. g : (front \o back)[m + i] = back[i]
    BY <1>5, <1>6, <1>16
  <2>3. QED
    BY <1>11, <2>1, <2>2
<1>18. DOMAIN model_idx_in_list' = (I \ dropped) \cup graduated
  BY <1>12
<1>19. ASSUME NEW id \in I \ dropped
       PROVE  /\ model_idx_in_list'[id] \in 1 .. m
              /\ kept[model_idx_in_list'[id]] = model_idx_in_list[id]
  <2>1. id \notin graduated
    BY <1>1
  <2>2. model_idx_in_list'[id] = CHOOSE i \in 1 .. m : kept[i] = model_idx_in_list[id]
    BY <1>12, <2>1
  <2>3. \E i \in 1 .. m : kept[i] = model_idx_in_list[id]
    BY <1>5, <1>8
  <2>4. QED
    BY <2>2, <2>3
<1>20. ASSUME NEW id \in graduated
       PROVE  \E j \in 1 .. g : model_idx_in_list'[id] = m + j /\ fresh[j] = id
  <2>1. model_idx_in_list'[id] = m + CHOOSE i \in 1 .. g : fresh[i] = id
    BY <1>12, <1>14
  <2>2. \E i \in 1 .. g : fresh[i] = id
    BY <1>6
  <2>3. QED
    BY <2>1, <2>2
<1>21. ASSUME NEW id \in (I \ dropped) \cup graduated
       PROVE  model_idx_in_list'[id] \in 1 .. m + g
  BY <1>5, <1>6, <1>19, <1>20
<1>22. ASSUME NEW a \in (I \ dropped) \cup graduated, NEW b \in (I \ dropped) \cup graduated,
              model_idx_in_list'[a] = model_idx_in_list'[b]
       PROVE  a = b
  <2>1. CASE a \in I \ dropped /\ b \in I \ dropped
    BY <1>2, <1>19, <1>22, <2>1
  <2>2. CASE a \in graduated /\ b \in graduated
    BY <1>5, <1>6, <1>20, <1>22, <2>2
  <2>3. CASE a \in I \ dropped /\ b \in graduated
    BY <1>5, <1>19, <1>20, <1>22, <2>3
  <2>4. CASE b \in I \ dropped /\ a \in graduated
    BY <1>5, <1>19, <1>20, <1>22, <2>4
  <2>5. QED
    BY <2>1, <2>2, <2>3, <2>4
<1>23. ASSUME NEW k \in 1 .. m + g
       PROVE  \E id \in (I \ dropped) \cup graduated : model_idx_in_list'[id] = k
  <2>1. CASE k \in 1 .. m
    <3>1. kept[k] \in K
      BY <1>5, <2>1
    <3>2. PICK id \in I \ dropped : model_idx_in_list[id] = kept[k]
      BY <1>8, <3>1
    <3>3. model_idx_in_list'[id] = k
      BY <1>5, <1>19, <2>1, <3>2
    <3>4. QED
      BY <3>3
  <2>2. CASE k \notin 1 .. m
    <3>1. PICK j \in 1 .. g : k = m + j
      <4>1. k - m \in 1 .. g /\ k = m + (k - m)
        BY <1>5, <1>6, <2>2
      <4>2. QED
        BY <4>1
    <3>2. fresh[j] \in graduated
      BY <1>6
    <3>3. PICK i \in 1 .. g : model_idx_in_list'[fresh[j]] = m + i /\ fresh[i] = fresh[j]
      BY <1>20, <3>2
    <3>4. i = j
      BY <1>6, <3>3
    <3>5. QED
      BY <3>1, <3>2, <3>3, <3>4
  <2>3. QED
    BY <2>1, <2>2
<1>24. ASSUME NEW id \in (I \ dropped) \cup graduated
       PROVE  materialized_models'[model_idx_in_list'[id]]
                = Tracker!WithId(id, tracked_models'[id])
  <2>1. tracked_models'[id] = tracked[id]
    BY <1>1, <1>13
  <2>2. CASE id \in graduated
    BY <1>17, <1>20, <2>1, <2>2
  <2>3. CASE id \in I \ dropped
    BY <1>3, <1>17, <1>19, <2>1, <2>3
  <2>4. QED
    BY <2>2, <2>3
<1>25. PlacesAgree(DOMAIN model_idx_in_list, Len(materialized_models))'
  <2>1. model_idx_in_list' \in [(I \ dropped) \cup graduated -> 1 .. m + g]
    BY <1>12, <1>21
  <2>2. QED
    BY <1>17, <1>18, <1>22, <1>23, <2>1 DEF PlacesAgree
<1>26. \A id \in DOMAIN model_idx_in_list' :
         materialized_models'[model_idx_in_list'[id]] = Tracker!WithId(id, tracked_models[id])'
  BY <1>18, <1>24 DEF Tracker!WithId
<1>27. QED
  BY <1>17, <1>25, <1>26 DEF ListInv

(* Nothing is tracked, and nothing is in the list.                         *)
LEMMA ListInit == Tracker!Init => ListInv
BY DEF Tracker!Init, ListInv, PlacesAgree

(* Each turn keeps the list.                                               *)
LEMMA ListNext ==
  Counted!CountingInv /\ ListInv /\ [Tracker!Next]_(Tracker!vars) => ListInv'
<1> SUFFICES ASSUME Counted!CountingInv, ListInv, [Tracker!Next]_(Tracker!vars)
             PROVE  ListInv'
  OBVIOUS
<1>1. ASSUME NEW new \in Tracker!NewSurfaces, Tracker!UpdateSurfaces(new)
      PROVE  ListInv'
  <2>1. PICK corr, dropped, graduated : ListStep(new, corr, dropped, graduated)
    BY <1>1, UpdateCounts, Zenon DEF ListStep
  <2>2. QED
    BY <2>1, ListIsKept
<1>2. CASE UNCHANGED Tracker!vars
  BY <1>2 DEF Tracker!vars, ListInv, PlacesAgree, Tracker!WithId
<1>3. QED
  BY <1>1, <1>2 DEF Tracker!Next

(* What the observers are given is what is tracked: the list holds each    *)
(* real surface once, at the place its iterator points to.                 *)
THEOREM TheListShowsTracked == Spec => []ListShowsTracked
<1>1. Tracker!Spec => []ListInv
  BY ListInit, ListNext, CountsAgree, PTL DEF Tracker!Spec
<1>2. Counted!CountingInv /\ ListInv => ListShowsTracked
  BY ListIsShown DEF ListShowsTracked
<1>3. QED
  BY <1>1, <1>2, TrackerRuns, CountsAgree, PTL

-----------------------------------------------------------------------------
(* The surface clusterer.                                                  *)

(* The grid that is searched is the one that was built for the plane.      *)
GridInv ==
  /\ frame \in Clusterer!Frames
  /\ todo \subseteq DOMAIN frame
  /\ plane # 0 => plane \in DOMAIN frame /\ numCells = Clusterer!calcGridSize(frame[plane])

(* A plane of a frame has points, finitely many.                           *)
LEMMA PlanesOfFrames ==
  ASSUME NEW f \in Clusterer!Frames, NEW i \in DOMAIN f
  PROVE  f[i] \in SUBSET Position /\ f[i] # {} /\ IsFiniteSet(f[i])
<1> DEFINE Planes == UNION {Clusterer!kSubset(k, Position) : k \in 1 .. MaxPoints}
<1>1. ASSUME NEW p \in Planes
      PROVE  p \in SUBSET Position /\ p # {} /\ IsFiniteSet(p)
  <2>1. PICK k \in 1 .. MaxPoints : p \in SUBSET Position /\ Clusterer!Cardinality(p) = k
    BY Zenon DEF Clusterer!kSubset
  <2>2. Cardinality(p) = k
    BY <2>1, Zenon DEF Clusterer!Cardinality, Cardinality
  <2>3. p # {}
    BY <2>2, FS_EmptySet
  <2>4. QED
    BY <2>1, <2>3, ClustererAssumption, FS_Subset
<1>2. f[i] \in Planes
  <2>1. f \in {<<p>> : p \in Planes} \/ f \in Planes \X Planes
    BY DEF Clusterer!Frames
  <2> HIDE DEF Planes
  <2>2. QED
    BY <2>1
<1>3. QED
  BY <1>1, <1>2

(* The bounds of a plane's points: those of the grid are a border away.    *)
LEMMA BoundsOfPlane ==
  ASSUME NEW pts \in SUBSET Position, pts # {}, IsFiniteSet(pts), NEW d \in 1 .. 2
  PROVE  \E low, high \in Nat :
           /\ \A p \in pts : p[d] \in low .. high
           /\ Clusterer!minBounds(pts)[d] = low - Clusterer!Border
           /\ Clusterer!maxBounds(pts)[d] = high + Clusterer!Border
<1> DEFINE C == {p[d] : p \in pts}
<1>1. C \in SUBSET Nat /\ C # {}
  BY ClustererAssumption
<1>2. IsFiniteSet(C)
  <2> DEFINE f == [p \in pts |-> p[d]]
  <2>1. f \in Surjection(pts, C)
    BY DEF Surjection
  <2> HIDE DEF f, C
  <2>2. QED
    BY <2>1, FS_Surjection
<1>3. \A p \in pts : p[d] \in C
  OBVIOUS
<1>4. /\ Clusterer!minBounds(pts)[d] = Clusterer!Min(C) - Clusterer!Border
      /\ Clusterer!maxBounds(pts)[d] = Clusterer!Max(C) + Clusterer!Border
  BY Zenon DEF Clusterer!minBounds, Clusterer!maxBounds
<1> HIDE DEF C
<1>5. Clusterer!Min(C) = Min(C) /\ Clusterer!Max(C) = Max(C)
  BY Zenon DEF Clusterer!Min, Min, Clusterer!Max, Max
<1>6. PICK n \in Nat : C \in SUBSET (0 .. n)
  BY <1>1, <1>2, FiniteIsBounded
<1>7. Min(C) \in C /\ \A y \in C : Min(C) <= y
  BY <1>1, MinIsLeast
<1>8. Max(C) \in C /\ \A y \in C : y <= Max(C)
  BY <1>1, <1>6, MaxIsGreatest
<1>9. \A p \in pts : p[d] \in Min(C) .. Max(C)
  <2>1. \A x \in C : x \in Min(C) .. Max(C)
    BY <1>1, <1>7, <1>8
  <2>2. QED
    BY <1>3, <2>1
<1>10. QED
  BY <1>1, <1>4, <1>5, <1>7, <1>8, <1>9

(* The border is two cells wide at least.                                  *)
LEMMA CellsAreInside ==
  ASSUME NEW pts \in SUBSET Position, pts # {}, IsFiniteSet(pts), NEW d \in 1 .. 2,
         NEW p \in pts
  PROVE  Clusterer!CellOf(p, pts)[d] \in 1 .. Clusterer!calcGridSize(pts)[d] - 2
<1> DEFINE B == Clusterer!Border
           t == CLUSTER_TOLERANCE
<1>1. PICK low \in Nat, high \in Nat :
        /\ \A q \in pts : q[d] \in low .. high
        /\ Clusterer!minBounds(pts)[d] = low - B
        /\ Clusterer!maxBounds(pts)[d] = high + B
  BY BoundsOfPlane
<1>2. /\ Clusterer!CellOf(p, pts)[d] = (p[d] - Clusterer!minBounds(pts)[d]) \div t
      /\ Clusterer!calcGridSize(pts)[d] =
           (Clusterer!maxBounds(pts)[d] - Clusterer!minBounds(pts)[d]) \div t
  BY Zenon DEF Clusterer!CellOf, Clusterer!calcGridSize
<1>3. t \in Nat \ {0} /\ B \in Nat /\ 2 * t <= B
  BY ClustererAssumption DEF Clusterer!Border
<1>4. p[d] \in low .. high
  BY <1>1
<1> DEFINE a == p[d] - (low - B)
           b == (high + B) - (low - B)
<1> HIDE DEF B, t
<1>5. a \in Nat /\ b \in Nat /\ 0 + 2 * t <= a /\ a + 2 * t <= b
  BY <1>3, <1>4
<1> HIDE DEF a, b
<1>6. 0 \div t + 2 <= a \div t /\ a \div t + 2 <= b \div t
  BY <1>3, <1>5, QuotientGrows
<1>7. 0 \div t \in Nat /\ a \div t \in Nat /\ b \div t \in Nat
  BY <1>3, <1>5, Quotient
<1>8. a \div t \in 1 .. (b \div t) - 2
  BY <1>6, <1>7
<1>9. QED
  BY <1>1, <1>2, <1>8 DEF a, b

(* The search does not leave the array.                                    *)
LEMMA GridIsWide == GridInv => Clusterer!PointsAreInside
<1> SUFFICES ASSUME GridInv, plane # 0, NEW p \in frame[plane], NEW d \in 1 .. 2
             PROVE  Clusterer!CellOf(p, frame[plane])[d] \in 1 .. numCells[d] - 2
  BY Zenon DEF Clusterer!PointsAreInside
<1>1. /\ frame \in Clusterer!Frames /\ plane \in DOMAIN frame
      /\ numCells = Clusterer!calcGridSize(frame[plane])
  BY DEF GridInv
<1>2. /\ frame[plane] \in SUBSET Position /\ frame[plane] # {} /\ IsFiniteSet(frame[plane])
  BY <1>1, PlanesOfFrames
<1>3. QED
  BY <1>1, <1>2, CellsAreInside

(* Nothing is built yet.                                                   *)
LEMMA GridInit == Clusterer!Init => GridInv
BY DEF Clusterer!Init, GridInv

(* Only Build takes another plane, and it sets the grid up for it.         *)
LEMMA GridNext == GridInv /\ [Clusterer!Next]_(Clusterer!vars) => GridInv'
<1> SUFFICES ASSUME GridInv, [Clusterer!Next]_(Clusterer!vars) PROVE GridInv'
  OBVIOUS
<1>1. ASSUME NEW i \in todo, Clusterer!Build(i) PROVE GridInv'
  <2>1. /\ plane' = i /\ todo' = todo \ {i} /\ UNCHANGED frame
        /\ numCells' = Clusterer!calcGridSize(frame[i])
    BY <1>1, Zenon DEF Clusterer!Build
  <2>2. frame \in Clusterer!Frames /\ todo \subseteq DOMAIN frame
    BY DEF GridInv
  <2>3. numCells' = Clusterer!calcGridSize(frame'[plane'])
    BY <2>1
  <2>4. frame' \in Clusterer!Frames /\ todo' \subseteq DOMAIN frame' /\ plane' \in DOMAIN frame'
    BY <2>1, <2>2
  <2>5. QED
    BY <2>3, <2>4, Zenon DEF GridInv, Clusterer!calcGridSize, Clusterer!maxBounds, Clusterer!minBounds
<1>2. ASSUME UNCHANGED <<frame, todo, numCells>>, plane' \in {0, plane} PROVE GridInv'
  BY <1>2 DEF GridInv
<1>3. CASE Clusterer!StartCluster
  BY <1>2, <1>3, Zenon DEF Clusterer!StartCluster
<1>4. CASE Clusterer!VisitCell
  BY <1>2, <1>4, Zenon DEF Clusterer!VisitCell
<1>5. CASE Clusterer!AddSurfaces
  BY <1>2, <1>5, Zenon DEF Clusterer!AddSurfaces
<1>6. CASE UNCHANGED Clusterer!vars
  BY <1>2, <1>6, Zenon DEF Clusterer!vars
<1>7. QED
  BY <1>1, <1>3, <1>4, <1>5, <1>6, Zenon DEF Clusterer!Next

(* No point is in a cell at the border of the grid, wherever the grid      *)
(* begins: neither a point nor a neighbour that is looked at is outside    *)
(* the array.                                                              *)
THEOREM PointsStayInside == Spec => []PointsAreInside
<1> DEFINE J == stage = "clusterer" => GridInv
<1>1. Init => J
  BY GridInit DEF Init
<1>2. J /\ [Next]_vars => J'
  <2> SUFFICES ASSUME J, [Next]_vars, stage' = "clusterer" PROVE GridInv'
    OBVIOUS
  <2>1. stage = "clusterer" /\ [Clusterer!Next]_(Clusterer!vars)
    BY DEF Next, vars, RunTracker, RunHull, RunClusterer, RunFinder, RunSplitter, clusterer, Clusterer!vars
  <2>2. QED
    BY <2>1, GridNext
<1>3. J => PointsAreInside
  BY GridIsWide DEF PointsAreInside
<1>4. QED
  BY <1>1, <1>2, <1>3, PTL DEF Spec

-----------------------------------------------------------------------------
(* The clusters.                                                           *)

(* The two relations between points, by how far the coordinates are apart. *)
LEMMA FarInTerms ==
  ASSUME NEW p \in Position, NEW q \in Position
  PROVE  LET a == Far(p[1], q[1])
             b == Far(p[2], q[2])
         IN  /\ a \in Nat /\ b \in Nat
             /\ Clusterer!SurelyTogether(p, q) <=>
                  (a = 0 \/ b = 0) /\ a <= CLUSTER_TOLERANCE /\ b <= CLUSTER_TOLERANCE
             /\ Clusterer!MaybeTogether(p, q) <=>
                  /\ a < CLUSTER_TOLERANCE \/ b < CLUSTER_TOLERANCE
                  /\ a < 2 * CLUSTER_TOLERANCE /\ b < 2 * CLUSTER_TOLERANCE
<1>1. p \in Nat \X Nat /\ q \in Nat \X Nat /\ CLUSTER_TOLERANCE \in Nat
  BY ClustererAssumption
<1>2. PICK a, b, S : a = Far(p[1], q[1]) /\ b = Far(p[2], q[2]) /\ S = Clusterer!Distances(p, q)
  OBVIOUS
<1>3. a \in Nat /\ b \in Nat
  BY <1>1, <1>2 DEF Far
<1>4. S = {a, b}
  <2>1. S = {Far(p[d], q[d]) : d \in 1 .. 2}
    BY <1>2, Zenon DEF Clusterer!Distances, Far
  <2>2. 1 .. 2 = {1, 2}
    OBVIOUS
  <2>3. S = {Far(p[1], q[1]), Far(p[2], q[2])}
    BY <2>1, <2>2, Zenon
  <2>4. QED
    BY <1>2, <2>3, Zenon
<1>5. S \in SUBSET Nat /\ S # {} /\ S \in SUBSET (0 .. a + b)
  BY <1>3, <1>4
<1>6. Min(S) \in {a, b} /\ Min(S) <= a /\ Min(S) <= b
  <2>1. Min(S) \in S /\ \A y \in S : Min(S) <= y
    BY <1>5, MinIsLeast, Zenon
  <2>2. QED
    BY <1>4, <2>1, Zenon
<1>7. Max(S) \in {a, b} /\ a <= Max(S) /\ b <= Max(S)
  <2>1. a + b \in Nat
    BY <1>3
  <2>2. Max(S) \in S /\ \A y \in S : y <= Max(S)
    BY <1>5, <2>1, MaxIsGreatest, Zenon
  <2>3. QED
    BY <1>4, <2>2, Zenon
<1>8. Clusterer!Min(S) = Min(S) /\ Clusterer!Max(S) = Max(S)
  BY Zenon DEF Clusterer!Min, Min, Clusterer!Max, Max
<1>9. PICK least, most : least = Min(S) /\ most = Max(S)
  OBVIOUS
<1>10. Clusterer!SurelyTogether(p, q) <=> 0 \in S /\ most <= CLUSTER_TOLERANCE
  BY <1>2, <1>8, <1>9, Zenon DEF Clusterer!SurelyTogether
<1>11. Clusterer!MaybeTogether(p, q) <=> least < CLUSTER_TOLERANCE /\ most < 2 * CLUSTER_TOLERANCE
  BY <1>2, <1>8, <1>9, Zenon DEF Clusterer!MaybeTogether
<1>12. /\ least \in {a, b} /\ least <= a /\ least <= b
       /\ most \in {a, b} /\ a <= most /\ b <= most
  BY <1>6, <1>7, <1>9, Zenon
<1>13. 0 \in S <=> a = 0 \/ b = 0
  BY <1>4
<1>14. most <= CLUSTER_TOLERANCE <=> a <= CLUSTER_TOLERANCE /\ b <= CLUSTER_TOLERANCE
  BY <1>1, <1>3, <1>12
<1>15. least < CLUSTER_TOLERANCE <=> a < CLUSTER_TOLERANCE \/ b < CLUSTER_TOLERANCE
  BY <1>1, <1>3, <1>12
<1>16. most < 2 * CLUSTER_TOLERANCE <=> a < 2 * CLUSTER_TOLERANCE /\ b < 2 * CLUSTER_TOLERANCE
  BY <1>1, <1>3, <1>12
<1>17. QED
  BY <1>2, <1>3, <1>10, <1>11, <1>13, <1>14, <1>15, <1>16, Zenon

(* How a dimension of the grid is divided.                                 *)
LEMMA GridDivision ==
  ASSUME NEW pts \in SUBSET Position, pts # {}, IsFiniteSet(pts), NEW d \in 1 .. 2
  PROVE  /\ Clusterer!calcGridSize(pts)[d] \in Nat
         /\ \E m \in Int : \A p \in pts :
              p[d] - m \in Nat /\ Clusterer!CellOf(p, pts)[d] = (p[d] - m) \div CLUSTER_TOLERANCE
<1>1. PICK low \in Nat, high \in Nat :
        /\ \A q \in pts : q[d] \in low .. high
        /\ Clusterer!minBounds(pts)[d] = low - Clusterer!Border
        /\ Clusterer!maxBounds(pts)[d] = high + Clusterer!Border
  BY BoundsOfPlane
<1>2. PICK B : B = Clusterer!Border
  OBVIOUS
<1>3. B \in Nat /\ CLUSTER_TOLERANCE \in Nat \ {0}
  BY <1>2, ClustererAssumption DEF Clusterer!Border
<1>4. /\ \A p \in pts :
           Clusterer!CellOf(p, pts)[d] = (p[d] - Clusterer!minBounds(pts)[d]) \div CLUSTER_TOLERANCE
      /\ Clusterer!calcGridSize(pts)[d] =
           (Clusterer!maxBounds(pts)[d] - Clusterer!minBounds(pts)[d]) \div CLUSTER_TOLERANCE
  BY Zenon DEF Clusterer!CellOf, Clusterer!calcGridSize
<1>5. PICK q \in pts : q[d] \in low .. high
  BY <1>1
<1>6. PICK s : s = (high + B) - (low - B)
  OBVIOUS
<1>7. s \in Nat
  BY <1>3, <1>5, <1>6
<1>8. Clusterer!calcGridSize(pts)[d] = s \div CLUSTER_TOLERANCE
  BY <1>1, <1>2, <1>4, <1>6, Zenon
<1>9. Clusterer!calcGridSize(pts)[d] \in Nat
  BY <1>3, <1>7, <1>8, Quotient
<1>10. PICK m : m = low - B
  OBVIOUS
<1>11. m \in Int /\ \A p \in pts : p[d] - m \in Nat
  BY <1>1, <1>3, <1>10
<1>12. \A p \in pts : Clusterer!CellOf(p, pts)[d] = (p[d] - m) \div CLUSTER_TOLERANCE
  BY <1>1, <1>2, <1>4, <1>10, Zenon
<1>13. QED
  BY <1>9, <1>11, <1>12, Zenon

(* Each point has a place in the array.  Points that may be in one cluster *)
(* are in one cell or in cells that touch, and those that are must be.     *)
Spots(pts) ==
  [p \in pts |->
     Clusterer!cellToGridIndex(Clusterer!CellOf(p, pts), Clusterer!calcGridSize(pts))]

(* A cell and those that share an edge with it, w of them to a row.        *)
Near(i, j, w) == i = j \/ Touching(i, j, w)

(* All cells near points are in the array, none at its border; points in   *)
(* near cells may be together, and those that surely are have near cells.  *)
Placed(pts, at, w, n) ==
  /\ w \in Int /\ n \in Nat /\ at \in [pts -> Int]
  /\ \A p \in pts : /\ \A j : Near(at[p], j, w) => j \in 0 .. n - 1
                    /\ at[p] % w >= 1 /\ at[p] \div w >= 1
  /\ \A p, q \in pts :
       /\ Near(at[p], at[q], w) => Clusterer!MaybeTogether(p, q)
       /\ Clusterer!SurelyTogether(p, q) => Near(at[p], at[q], w)

(* So the grid places the points of a plane.                               *)
LEMMA PointsArePlaced ==
  ASSUME NEW pts \in SUBSET Position, pts # {}, IsFiniteSet(pts), NEW size,
         size = Clusterer!calcGridSize(pts)
  PROVE  Placed(pts, Spots(pts), size[1], size[2] * size[1])
<1>1. 1 \in 1 .. 2 /\ 2 \in 1 .. 2
  OBVIOUS
<1>2. PICK W, H, at, cell : /\ W = size[1] /\ H = size[2] /\ at = Spots(pts)
                            /\ cell = [p \in pts |-> Clusterer!CellOf(p, pts)]
  OBVIOUS
<1>3. W \in Nat /\ H \in Nat /\ W * H \in Nat /\ W * H = H * W
  <2>1. W \in Nat /\ H \in Nat
    BY <1>1, <1>2, GridDivision, Zenon
  <2>2. QED
    BY <2>1
<1>4. PICK k \in Int : \A p \in pts : p[1] - k \in Nat /\ cell[p][1] = (p[1] - k) \div CLUSTER_TOLERANCE
  BY <1>1, <1>2, GridDivision, Zenon
<1>5. PICK m \in Int : \A p \in pts : p[2] - m \in Nat /\ cell[p][2] = (p[2] - m) \div CLUSTER_TOLERANCE
  BY <1>1, <1>2, GridDivision, Zenon
<1>6. \A p \in pts : cell[p][1] \in 1 .. W - 2 /\ cell[p][2] \in 1 .. H - 2
  BY <1>1, <1>2, CellsAreInside, Zenon
<1>7. \A p \in pts : at[p] = cell[p][1] + W * cell[p][2]
  BY <1>2, Zenon DEF Spots, Clusterer!cellToGridIndex
<1>8. at \in [pts -> Int]
  <2>1. \A p \in pts : at[p] \in Int
    BY <1>3, <1>6, <1>7
  <2>2. at = [p \in pts |-> at[p]]
    BY <1>2 DEF Spots
  <2>3. QED
    BY <2>1, <2>2, Zenon
<1>9. \A p \in pts : /\ \A j : Near(at[p], j, W) => j \in 0 .. W * H - 1
                     /\ at[p] % W >= 1 /\ at[p] \div W >= 1
  <2>1. SUFFICES ASSUME NEW p \in pts
                 PROVE  /\ \A j : Near(at[p], j, W) => j \in 0 .. W * H - 1
                        /\ at[p] % W >= 1 /\ at[p] \div W >= 1
    BY Zenon
  <2>2. PICK x, y : x = cell[p][1] /\ y = cell[p][2]
    OBVIOUS
  <2>3. x \in 1 .. W - 2 /\ y \in 1 .. H - 2 /\ at[p] = x + W * y
    BY <1>6, <1>7, <2>2, Zenon
  <2>4. QED
    BY <1>3, <2>3, InsideTheArray, Zenon DEF Near
<1>10. ASSUME NEW p \in pts, NEW q \in pts
       PROVE  /\ Near(at[p], at[q], W) => Clusterer!MaybeTogether(p, q)
              /\ Clusterer!SurelyTogether(p, q) => Near(at[p], at[q], W)
  <2>1. PICK t : t = CLUSTER_TOLERANCE
    OBVIOUS
  <2>2. t \in Nat \ {0}
    BY <2>1, ClustererAssumption
  <2>3. PICK x, y, u, v : /\ x = cell[p][1] /\ y = cell[p][2]
                          /\ u = cell[q][1] /\ v = cell[q][2]
    OBVIOUS
  <2>4. /\ x \in 1 .. W - 2 /\ u \in 1 .. W - 2 /\ y \in 1 .. H - 2 /\ v \in 1 .. H - 2
        /\ at[p] = x + W * y /\ at[q] = u + W * v
    BY <1>6, <1>7, <2>3, Zenon
  <2>5. PICK a, b : a = Far(p[1], q[1]) /\ b = Far(p[2], q[2])
    OBVIOUS
  <2>6. /\ a \in Nat /\ b \in Nat
        /\ Clusterer!SurelyTogether(p, q) <=> (a = 0 \/ b = 0) /\ a <= t /\ b <= t
        /\ Clusterer!MaybeTogether(p, q) <=>
             (a < t \/ b < t) /\ a < 2 * t /\ b < 2 * t
    <3>1. p \in Position /\ q \in Position
      OBVIOUS
    <3>2. QED
      BY <2>1, <2>5, <3>1, FarInTerms, Zenon
  <2>7. p[1] \in Nat /\ p[2] \in Nat /\ q[1] \in Nat /\ q[2] \in Nat
    BY ClustererAssumption
  <2>8. /\ a = 0 => x = u
        /\ a <= t => x = u \/ u = x + 1 \/ x = u + 1
        /\ x = u => a < t
        /\ x = u \/ u = x + 1 \/ x = u + 1 => a < 2 * t
    <3>1. p[1] - k \in Nat /\ q[1] - k \in Nat /\ x = (p[1] - k) \div t /\ u = (q[1] - k) \div t
      BY <1>4, <2>1, <2>3, Zenon
    <3>2. Divided(Far(p[1], q[1]), x, u, t)
      BY <2>2, <2>7, <3>1, FarInCells, Zenon
    <3>3. QED
      BY <2>5, <3>2, Zenon DEF Divided
  <2>9. /\ b = 0 => y = v
        /\ b <= t => y = v \/ v = y + 1 \/ y = v + 1
        /\ y = v => b < t
        /\ y = v \/ v = y + 1 \/ y = v + 1 => b < 2 * t
    <3>1. p[2] - m \in Nat /\ q[2] - m \in Nat /\ y = (p[2] - m) \div t /\ v = (q[2] - m) \div t
      BY <1>5, <2>1, <2>3, Zenon
    <3>2. Divided(Far(p[2], q[2]), y, v, t)
      BY <2>2, <2>7, <3>1, FarInCells, Zenon
    <3>3. QED
      BY <2>5, <3>2, Zenon DEF Divided
  <2>10. y \in Nat /\ v \in Nat
    BY <2>4
  <2>11. /\ at[p] = at[q] => x = u /\ y = v
         /\ Touching(at[p], at[q], W) =>
              \/ x = u /\ (v = y + 1 \/ y = v + 1)
              \/ y = v /\ (u = x + 1 \/ x = u + 1)
    <3>1. /\ x + W * y = u + W * v => x = u /\ y = v
          /\ Touching(x + W * y, u + W * v, W) =>
               \/ x = u /\ (v = y + 1 \/ y = v + 1)
               \/ y = v /\ (u = x + 1 \/ x = u + 1)
      BY <1>3, <2>4, <2>10, RowsAreApart
    <3>2. QED
      BY <2>4, <3>1, Zenon
  <2>12. Near(at[p], at[q], W) => Clusterer!MaybeTogether(p, q)
    BY <2>6, <2>8, <2>9, <2>11, Zenon DEF Near
  <2>13. Clusterer!SurelyTogether(p, q) => Near(at[p], at[q], W)
    <3>1. SUFFICES ASSUME Clusterer!SurelyTogether(p, q) PROVE Near(at[p], at[q], W)
      OBVIOUS
    <3>2. \/ x = u /\ (y = v \/ v = y + 1 \/ y = v + 1)
          \/ y = v /\ (x = u \/ u = x + 1 \/ x = u + 1)
      BY <2>6, <2>8, <2>9, <3>1, Zenon
    <3>3. PICK r, s : r = W * y /\ s = W * v
      OBVIOUS
    <3>4. /\ r \in Int /\ s \in Int
          /\ y = v => r = s
          /\ v = y + 1 => s = r + W
          /\ y = v + 1 => r = s + W
      BY <1>3, <2>10, <3>3
    <3>5. PICK i, j : i = at[p] /\ j = at[q]
      OBVIOUS
    <3>6. i = x + r /\ j = u + s
      BY <2>4, <3>3, <3>5, Zenon
    <3>7. i = j \/ j = i - 1 \/ j = i + 1 \/ j = i - W \/ j = i + W
      <4>1. x \in Int /\ u \in Int /\ W \in Int
        BY <1>3, <2>4
      <4>2. CASE x = u
        <5>1. s = r \/ s = r + W \/ r = s + W
          BY <3>2, <3>4, <4>2
        <5>2. QED
          BY <3>4, <3>6, <4>1, <4>2, <5>1
      <4>3. CASE x # u
        <5>1. r = s /\ (u = x + 1 \/ x = u + 1)
          BY <3>2, <3>4, <4>3
        <5>2. QED
          BY <3>4, <3>6, <4>1, <5>1
      <4>4. QED
        BY <4>2, <4>3
    <3>8. QED
      BY <3>5, <3>7, Zenon DEF Near, Touching
  <2>14. QED
    BY <2>12, <2>13
<1>11. Placed(pts, at, W, W * H)
  <2>1. W \in Int
    BY <1>3
  <2>2. QED
    BY <1>3, <1>8, <1>9, <1>10, <2>1, Zenon DEF Placed
<1>12. QED
  BY <1>2, <1>3, <1>11, Zenon

(* The cells on a stack.                                                   *)
CellsOn(s) == {s[k] : k \in DOMAIN s}

(* The neighbours of a cell that the search has not come across.           *)
Found(g, i, w) == {j \in {i - 1, i + 1, i - w, i + w} : g[j] = 1}

(* The stack with one neighbour of cell i more, if it was not visited.     *)
PushedOn(i, cells, o) == IF grid[i + o] = 1 THEN Append(cells, i + o) ELSE cells

(* The stack after each of the neighbours.                                 *)
CellsInTurn(f, i, n) ==
  /\ f[0] = Clusterer!Front(stack)
  /\ \A k \in 1 .. n : f[k] = PushedOn(i, f[k - 1], Clusterer!gridOffsets[k])
  /\ f[n] = Clusterer!Pushed(i)

(* The fold over the neighbours' offsets takes them in turn.               *)
LEMMA CellsPushedInTurn ==
  ASSUME NEW i \in Int, NEW n \in Nat, Clusterer!gridOffsets \in [1 .. n -> Int],
         Clusterer!Front(stack) \in Seq(Int)
  PROVE  \E f : CellsInTurn(f, i, n)
<1> DEFINE q     == Clusterer!gridOffsets
           b     == Clusterer!Front(stack)
           T     == Seq(Int)
           Sets  == SUBSET (1 .. n)
           on    == [e \in (1 .. n) \X T |-> PushedOn(i, e[2], q[e[1]])]
           Is(r) == r = [s \in Sets |-> IF s = {} THEN b
                                        ELSE PushedOn(i, r[s \ {Max(s)}], q[Max(s)])]
<1>1. q \in [1 .. n -> Int] /\ b \in T
  OBVIOUS
<1>2. SetRecursive(b, on, n, T)
  <2>1. \A e \in (1 .. n) \X T : PushedOn(i, e[2], q[e[1]]) \in T
    <3>1. SUFFICES ASSUME NEW k \in 1 .. n, NEW s \in T PROVE PushedOn(i, s, q[k]) \in T
      BY Zenon
    <3>2. PICK o : o = q[k]
      OBVIOUS
    <3>3. o \in Int
      <4> HIDE DEF q
      <4>1. QED
        BY <1>1, <3>2
    <3>4. Append(s, i + o) \in T
      BY <3>3
    <3>5. QED
      BY <3>2, <3>4, Zenon DEF PushedOn
  <2> HIDE DEF q, T
  <2>2. on \in [(1 .. n) \X T -> T]
    BY <2>1, Zenon
  <2>3. QED
    BY <1>1, <2>2, Zenon DEF SetRecursive
<1> HIDE DEF T
<1>3. PICK f : SetComputes(f, b, on, n, T)
  <2> HIDE DEF on
  <2>1. QED
    BY <1>2, SetRecursion, Zenon
<1>4. Is(f)
  <2>1. f \in [Sets -> T]
        /\ \A s \in Sets : f[s] = IF s = {} THEN b ELSE on[<<Max(s), f[s \ {Max(s)}]>>]
    <3> HIDE DEF on
    <3>1. QED
      BY <1>3, Zenon DEF SetComputes
  <2>2. ASSUME NEW s \in Sets
        PROVE  f[s] = IF s = {} THEN b ELSE PushedOn(i, f[s \ {Max(s)}], q[Max(s)])
    <3>1. CASE s = {}
      BY <2>1, <3>1, Zenon
    <3>2. CASE s # {}
      <4>1. PICK m : m = Max(s)
        OBVIOUS
      <4>2. m \in 1 .. n /\ s \ {m} \in Sets
        BY <3>2, <4>1, WithoutMax, Zenon
      <4>3. f[s \ {m}] \in T
        BY <2>1, <4>2, Zenon
      <4>4. on[<<m, f[s \ {m}]>>] = PushedOn(i, f[s \ {m}], q[m])
        BY <4>2, <4>3, Zenon
      <4>5. QED
        BY <2>1, <3>2, <4>1, <4>4, Zenon
    <3>3. QED
      BY <3>1, <3>2
  <2> HIDE DEF Sets, on
  <2>3. QED
    BY <2>1, <2>2, Zenon
<1>5. PICK R : Is(R) /\ R[1 .. n] = Clusterer!Pushed(i)
  <2>1. DOMAIN q = 1 .. n
    BY <1>1
  <2>2. Clusterer!Pushed(i) =
          (CHOOSE r : r = [s \in SUBSET DOMAIN q |-> IF s = {} THEN b
             ELSE PushedOn(i, r[s \ {Clusterer!Max(s)}], q[Clusterer!Max(s)])])[DOMAIN q]
    BY Zenon DEF Clusterer!Pushed, Clusterer!FoldLeft, Clusterer!MapThenFoldSet, PushedOn,
                 Clusterer!UNVISITED_CELL
  <2>3. \A S : Clusterer!Max(S) = Max(S)
    BY Zenon DEF Clusterer!Max, Max
  <2> HIDE DEF q, b
  <2>4. Clusterer!Pushed(i) = (CHOOSE r : Is(r))[1 .. n]
    BY <2>1, <2>2, <2>3, ZenonT(40)
  <2> HIDE DEF Is
  <2>5. QED
    BY <1>4, <2>4, Zenon
<1> DEFINE f2 == [k \in 0 .. n |-> R[1 .. k]]
<1>6. \A s \in Sets : R[s] = IF s = {} THEN b ELSE PushedOn(i, R[s \ {Max(s)}], q[Max(s)])
  <2> HIDE DEF Sets, q, b
  <2>1. QED
    BY <1>5, Zenon
<1>7. f2[0] = b
  <2>1. f2[0] = R[1 .. 0]
    OBVIOUS
  <2>2. 1 .. 0 = {}
    OBVIOUS
  <2>3. R[{}] = b
    BY <1>6, Zenon
  <2> HIDE DEF f2
  <2>4. QED
    BY <2>1, <2>2, <2>3
<1>8. ASSUME NEW k \in 1 .. n PROVE f2[k] = PushedOn(i, f2[k - 1], q[k])
  <2>1. k \in 0 .. n /\ k - 1 \in 0 .. n
    OBVIOUS
  <2>2. f2[k] = R[1 .. k] /\ f2[k - 1] = R[1 .. k - 1]
    BY <2>1, Zenon
  <2>3. 1 .. k \in Sets /\ 1 .. k # {} /\ Max(1 .. k) = k /\ (1 .. k) \ {k} = 1 .. k - 1
    BY Segments, Zenon
  <2> HIDE DEF f2, q
  <2>4. R[1 .. k] = PushedOn(i, R[1 .. k - 1], q[k])
    BY <1>6, <2>3, Zenon
  <2>5. QED
    BY <2>2, <2>4, Zenon
<1>9. f2[n] = R[1 .. n]
  <2>1. n \in 0 .. n
    OBVIOUS
  <2>2. QED
    BY <2>1, Zenon
<1> HIDE DEF f2
<1>10. CellsInTurn(f2, i, n)
  BY <1>5, <1>7, <1>8, <1>9, Zenon DEF CellsInTurn
<1>11. QED
  BY <1>10, Zenon

(* The cells of s are those of cells, and j if it was not visited.         *)
PushedOver(s, cells, j) ==
  /\ s \in Seq(Int)
  /\ CellsOn(s) = CellsOn(cells) \cup {e \in {j} : grid[e] = 1}

(* One more neighbour is on the stack, if it was not visited.              *)
LEMMA OnePushed ==
  ASSUME NEW i \in Int, NEW cells \in Seq(Int), NEW o \in Int
  PROVE  PushedOver(PushedOn(i, cells, o), cells, i + o)
<1>1. PICK s, j : s = PushedOn(i, cells, o) /\ j = i + o
  OBVIOUS
<1>2. j \in Int
  BY <1>1
<1>3. CASE grid[j] = 1
  <2>1. s = Append(cells, j)
    BY <1>1, <1>3, Zenon DEF PushedOn
  <2>2. PICK n \in Nat : n = Len(cells)
    OBVIOUS
  <2>3. /\ s \in Seq(Int) /\ DOMAIN s = 1 .. n + 1 /\ s[n + 1] = j
        /\ DOMAIN cells = 1 .. n /\ \A k \in 1 .. n : s[k] = cells[k]
    BY <1>2, <2>1, <2>2
  <2>4. DOMAIN s = (DOMAIN cells) \cup {n + 1}
    BY <2>3
  <2>5. \A k \in DOMAIN cells : s[k] = cells[k]
    BY <2>3, Zenon
  <2>6. CellsOn(s) = CellsOn(cells) \cup {j}
    <3>1. PICK m : m = n + 1
      OBVIOUS
    <3>2. DOMAIN s = (DOMAIN cells) \cup {m} /\ s[m] = j
      BY <2>3, <2>4, <3>1, Zenon
    <3>3. {s[k] : k \in (DOMAIN cells) \cup {m}} = {cells[k] : k \in DOMAIN cells} \cup {j}
      BY <2>5, <3>2
    <3>4. QED
      BY <3>2, <3>3, Zenon DEF CellsOn
  <2>7. {e \in {j} : grid[e] = 1} = {j}
    BY <1>3
  <2>8. QED
    BY <1>1, <2>3, <2>6, <2>7, Zenon DEF PushedOver
<1>4. CASE grid[j] # 1
  <2>1. s = cells
    BY <1>1, <1>4, Zenon DEF PushedOn
  <2>2. {e \in {j} : grid[e] = 1} = {}
    BY <1>4
  <2>3. QED
    BY <1>1, <2>1, <2>2 DEF PushedOver
<1>5. QED
  BY <1>3, <1>4

(* All neighbours that were not visited are on the stack then, and what    *)
(* was below the cell.                                                     *)
LEMMA NeighboursArePushed ==
  ASSUME NEW i \in Int, numCells[1] \in Int, Clusterer!Front(stack) \in Seq(Int)
  PROVE  /\ Clusterer!Pushed(i) \in Seq(Int)
         /\ CellsOn(Clusterer!Pushed(i)) =
              CellsOn(Clusterer!Front(stack)) \cup Found(grid, i, numCells[1])
<1>1. PICK w : w = numCells[1]
  OBVIOUS
<1>2. PICK q : q = Clusterer!gridOffsets
  OBVIOUS
<1>3. q = <<-1, -w, w, 1>>
  BY <1>1, <1>2, Zenon DEF Clusterer!gridOffsets
<1>4. q \in [1 .. 4 -> Int] /\ q[1] = -1 /\ q[2] = -w /\ q[3] = w /\ q[4] = 1
  BY <1>1, <1>3
<1>5. PICK f : CellsInTurn(f, i, 4)
  BY <1>2, <1>4, CellsPushedInTurn
<1>6. /\ f[0] = Clusterer!Front(stack)
      /\ \A k \in 1 .. 4 : f[k] = PushedOn(i, f[k - 1], q[k])
      /\ f[4] = Clusterer!Pushed(i)
  BY <1>2, <1>5, Zenon DEF CellsInTurn
<1>7. /\ f[1] = PushedOn(i, f[0], q[1]) /\ f[2] = PushedOn(i, f[1], q[2])
      /\ f[3] = PushedOn(i, f[2], q[3]) /\ f[4] = PushedOn(i, f[3], q[4])
  <2>1. 1 - 1 = 0 /\ 2 - 1 = 1 /\ 3 - 1 = 2 /\ 4 - 1 = 3
    OBVIOUS
  <2>2. 1 \in 1 .. 4 /\ 2 \in 1 .. 4 /\ 3 \in 1 .. 4 /\ 4 \in 1 .. 4
    OBVIOUS
  <2>3. QED
    BY <1>6, <2>1, <2>2, Zenon
<1>8. q[1] \in Int /\ q[2] \in Int /\ q[3] \in Int /\ q[4] \in Int
  BY <1>4
<1>9. PushedOver(f[1], f[0], i + q[1])
  BY <1>6, <1>7, <1>8, OnePushed, Zenon
<1>10. PushedOver(f[2], f[1], i + q[2])
  <2>1. f[1] \in Seq(Int)
    BY <1>9, Zenon DEF PushedOver
  <2>2. QED
    BY <1>7, <1>8, <2>1, OnePushed, Zenon
<1>11. PushedOver(f[3], f[2], i + q[3])
  <2>1. f[2] \in Seq(Int)
    BY <1>10, Zenon DEF PushedOver
  <2>2. QED
    BY <1>7, <1>8, <2>1, OnePushed, Zenon
<1>12. PushedOver(f[4], f[3], i + q[4])
  <2>1. f[3] \in Seq(Int)
    BY <1>11, Zenon DEF PushedOver
  <2>2. QED
    BY <1>7, <1>8, <2>1, OnePushed, Zenon
<1>13. i + q[1] = i - 1 /\ i + q[2] = i - w /\ i + q[3] = i + w /\ i + q[4] = i + 1
  BY <1>1, <1>4
<1>14. PICK c0, c1, c2, c3, c4 : /\ c0 = CellsOn(f[0]) /\ c1 = CellsOn(f[1]) /\ c2 = CellsOn(f[2])
                                 /\ c3 = CellsOn(f[3]) /\ c4 = CellsOn(f[4])
  OBVIOUS
<1>15. PICK a, b, c, d : a = i - 1 /\ b = i - w /\ c = i + w /\ d = i + 1
  OBVIOUS
<1>16. /\ c1 = c0 \cup {e \in {a} : grid[e] = 1}
       /\ c2 = c1 \cup {e \in {b} : grid[e] = 1}
       /\ c3 = c2 \cup {e \in {c} : grid[e] = 1}
       /\ c4 = c3 \cup {e \in {d} : grid[e] = 1}
  BY <1>9, <1>10, <1>11, <1>12, <1>13, <1>14, <1>15, Zenon DEF PushedOver
<1>17. c4 = c0 \cup {j \in {a, d, b, c} : grid[j] = 1}
  BY <1>16
<1>18. f[4] \in Seq(Int)
  BY <1>12, Zenon DEF PushedOver
<1>19. c4 = c0 \cup Found(grid, i, w)
  BY <1>15, <1>17, Zenon DEF Found
<1>20. QED
  BY <1>1, <1>6, <1>14, <1>18, <1>19, Zenon

(* No part of X with a point is without the points next to its own.        *)
Joined(X) ==
  \A T \in SUBSET X :
    T # {} /\ (\A x \in T, y \in X : Clusterer!MaybeTogether(x, y) => y \in T) => T = X

(* Points next to each other, all of them, are joined.                     *)
LEMMA NextToEachOther ==
  ASSUME NEW X, \A p, q \in X : Clusterer!MaybeTogether(p, q)
  PROVE  Joined(X)
BY Zenon DEF Joined

(* Points that are next to joined ones join them.                          *)
LEMMA JoinedGrows ==
  ASSUME NEW X, Joined(X), NEW N,
         \A q \in N : \E r \in X : Clusterer!MaybeTogether(r, q) /\ Clusterer!MaybeTogether(q, r)
  PROVE  Joined(X \cup N)
<1>1. SUFFICES ASSUME NEW T \in SUBSET (X \cup N), T # {},
                      \A x \in T, y \in X \cup N : Clusterer!MaybeTogether(x, y) => y \in T
               PROVE  T = X \cup N
  BY Zenon DEF Joined
<1>2. PICK U : U = T \cap X
  OBVIOUS
<1>3. U # {}
  <2>1. PICK t \in T : TRUE
    BY <1>1
  <2>2. CASE t \in X
    BY <1>2, <2>2
  <2>3. CASE t \in N
    BY <1>1, <1>2, <2>3
  <2>4. QED
    BY <2>2, <2>3
<1>4. \A x \in U, y \in X : Clusterer!MaybeTogether(x, y) => y \in U
  BY <1>1, <1>2
<1>5. U = X
  BY <1>2, <1>3, <1>4 DEF Joined
<1>6. \A q \in N : q \in T
  BY <1>1, <1>2, <1>5
<1>7. QED
  BY <1>1, <1>2, <1>5, <1>6

(* Each point of joined ones is chained to each.                           *)
LEMMA JoinedIsChained ==
  ASSUME NEW X, Joined(X), NEW p \in X, NEW q \in X
  PROVE  Clusterer!Chained(Clusterer!MaybeTogether, X, p, q)
BY Zenon DEF Joined, Clusterer!Chained

(* The points of cluster c: those in its cells, and for the one that is    *)
(* searched those in the cells on the stack.                               *)
Members(pts, at, g, on, cur, c) ==
  {p \in pts : g[at[p]] = c \/ (c = cur /\ at[p] \in on)}

(* The search, when the cells on the stack are on.  What was visited is    *)
(* next to visited cells of its cluster, or to what is on the stack.       *)
Searching(pts, at, w, n, g, on, cur) ==
  LET occupied == {at[p] : p \in pts}
  IN  /\ cur \in Nat /\ cur >= 2
      /\ g \in [0 .. n - 1 -> 0 .. cur]
      /\ \A i \in 0 .. n - 1 : g[i] # 0 <=> i \in occupied
      /\ on \subseteq occupied
      /\ \A i \in on : g[i] \in {1, cur}
      /\ \A i, j \in occupied :
           Touching(i, j, w) /\ g[i] >= 2 => g[j] = g[i] \/ (g[i] = cur /\ j \in on)
      /\ \A c \in Nat : c >= 2 => Joined(Members(pts, at, g, on, cur, c))

(* No cell is in the cluster that comes next.                              *)
Fresh(g, n, cur) == \A i \in 0 .. n - 1 : g[i] # cur

(* Nothing is visited.                                                     *)
Unvisited(occupied, n) == [i \in 0 .. n - 1 |-> IF i \in occupied THEN 1 ELSE 0]

(* The search begins with these cells.                                     *)
LEMMA SearchBegins ==
  ASSUME NEW pts, NEW at, NEW w, NEW n, Placed(pts, at, w, n), NEW g,
         g = Unvisited({at[p] : p \in pts}, n)
  PROVE  Searching(pts, at, w, n, g, {}, 2) /\ Fresh(g, n, 2)
<1>1. PICK S : S = {at[p] : p \in pts}
  OBVIOUS
<1>2. n \in Nat /\ S \subseteq 0 .. n - 1
  BY <1>1 DEF Placed, Near
<1>3. /\ g \in [0 .. n - 1 -> 0 .. 2]
      /\ \A i \in 0 .. n - 1 : (g[i] # 0 <=> i \in S) /\ g[i] \in {0, 1}
  BY <1>1 DEF Unvisited
<1>4. Fresh(g, n, 2) /\ \A i \in 0 .. n - 1 : ~ (g[i] >= 2)
  BY <1>3 DEF Fresh
<1>5. ASSUME NEW c \in Nat, c >= 2 PROVE Joined(Members(pts, at, g, {}, 2, c))
  <2>1. \A p \in pts : at[p] \in 0 .. n - 1
    BY <1>1, <1>2
  <2>2. \A p \in pts : ~ (g[at[p]] = c \/ (c = 2 /\ at[p] \in {}))
    BY <1>4, <1>5, <2>1
  <2>3. Members(pts, at, g, {}, 2, c) = {}
    BY <2>2, Zenon DEF Members
  <2>4. QED
    BY <2>3, NextToEachOther, Zenon
<1>6. /\ 2 \in Nat /\ 2 >= 2 /\ {} \subseteq S
      /\ \A i \in {} : g[i] \in {1, 2}
  OBVIOUS
<1>7. QED
  BY <1>1, <1>2, <1>3, <1>4, <1>5, <1>6, Zenon DEF Searching

(* The first cell of a cluster is on the stack.                            *)
LEMMA ClusterBegins ==
  ASSUME NEW pts, NEW at, NEW w, NEW n, Placed(pts, at, w, n), NEW g, NEW cur,
         Searching(pts, at, w, n, g, {}, cur), Fresh(g, n, cur),
         NEW i \in 0 .. n - 1, g[i] = 1
  PROVE  Searching(pts, at, w, n, g, {i}, cur)
<1>1. PICK S : S = {at[p] : p \in pts}
  OBVIOUS
<1>2. S \subseteq 0 .. n - 1
  BY <1>1, Zenon DEF Placed, Near
<1>3. /\ cur \in Nat /\ cur >= 2 /\ g \in [0 .. n - 1 -> 0 .. cur]
      /\ \A j \in 0 .. n - 1 : g[j] # 0 <=> j \in S
      /\ \A j, k \in S :
           Touching(j, k, w) /\ g[j] >= 2 => g[k] = g[j] \/ (g[j] = cur /\ k \in {})
      /\ \A c \in Nat : c >= 2 => Joined(Members(pts, at, g, {}, cur, c))
  BY <1>1, Zenon DEF Searching
<1>4. i \in S
  BY <1>3
<1>5. ASSUME NEW c \in Nat, c >= 2 PROVE Joined(Members(pts, at, g, {i}, cur, c))
  <2>1. CASE c = cur
    <3>1. \A p \in pts : g[at[p]] # c
      BY <1>1, <1>2, <2>1 DEF Fresh
    <3>2. Members(pts, at, g, {i}, cur, c) = {p \in pts : at[p] = i}
      BY <2>1, <3>1 DEF Members
    <3>3. \A p, q \in {p \in pts : at[p] = i} : Clusterer!MaybeTogether(p, q)
      BY Zenon DEF Placed, Near
    <3>4. QED
      BY <3>2, <3>3, NextToEachOther, Zenon
  <2>2. CASE c # cur
    <3>1. Members(pts, at, g, {i}, cur, c) = Members(pts, at, g, {}, cur, c)
      BY <2>2, Zenon DEF Members
    <3>2. QED
      BY <1>3, <1>5, <3>1, Zenon
  <2>3. QED
    BY <2>1, <2>2
<1>6. \A j, k \in S :
        Touching(j, k, w) /\ g[j] >= 2 => g[k] = g[j] \/ (g[j] = cur /\ k \in {i})
  BY <1>3, Zenon
<1>7. {i} \subseteq S /\ \A j \in {i} : g[j] \in {1, cur}
  BY <1>4
<1>8. QED
  BY <1>1, <1>3, <1>5, <1>6, <1>7, Zenon DEF Searching

(* A cell is visited, and its neighbours found.                            *)
LEMMA CellVisited ==
  ASSUME NEW pts, NEW at, NEW w, NEW n, Placed(pts, at, w, n), NEW g, NEW cur,
         NEW rest, NEW i, NEW on, on = rest \cup {i},
         Searching(pts, at, w, n, g, on, cur),
         NEW h, h = [g EXCEPT ![i] = cur],
         NEW found, found = rest \cup Found(g, i, w)
  PROVE  Searching(pts, at, w, n, h, found, cur)
<1>1. PICK S : S = {at[p] : p \in pts}
  OBVIOUS
<1>2. S \subseteq 0 .. n - 1
  BY <1>1, Zenon DEF Placed, Near
<1>3. /\ cur \in Nat /\ cur >= 2 /\ g \in [0 .. n - 1 -> 0 .. cur]
      /\ \A j \in 0 .. n - 1 : g[j] # 0 <=> j \in S
      /\ on \subseteq S
      /\ \A j \in on : g[j] \in {1, cur}
      /\ \A j, k \in S :
           Touching(j, k, w) /\ g[j] >= 2 => g[k] = g[j] \/ (g[j] = cur /\ k \in on)
      /\ \A c \in Nat : c >= 2 => Joined(Members(pts, at, g, on, cur, c))
  BY <1>1, Zenon DEF Searching
<1>4. i \in on /\ i \in S /\ i \in 0 .. n - 1 /\ g[i] \in {1, cur}
  BY <1>2, <1>3
<1>5. w \in Int /\ n \in Nat
  BY Zenon DEF Placed
<1>6. \A j : Touching(i, j, w) => j \in 0 .. n - 1
  BY <1>1, <1>4, Zenon DEF Placed, Near
<1>7. Found(g, i, w) = {j \in 0 .. n - 1 : Touching(i, j, w) /\ g[j] = 1}
  BY <1>6 DEF Touching, Found
<1>8. Found(g, i, w) \subseteq S
  BY <1>3, <1>7
<1>9. /\ h \in [0 .. n - 1 -> 0 .. cur] /\ h[i] = cur
      /\ \A j \in 0 .. n - 1 : j # i => h[j] = g[j]
  BY <1>3, <1>4
<1>10. \A j \in 0 .. n - 1 : h[j] # 0 <=> j \in S
  BY <1>3, <1>4, <1>9
<1>11. found \subseteq S /\ \A j \in found : h[j] \in {1, cur}
  <2>1. found \subseteq S
    BY <1>3, <1>8
  <2>2. \A j \in found : g[j] \in {1, cur}
    BY <1>3, <1>7
  <2>3. QED
    BY <1>2, <1>9, <2>1, <2>2
<1>12. \A j, k \in 0 .. n - 1 : Touching(j, k, w) => Touching(k, j, w)
  BY <1>5 DEF Touching
<1>13. ASSUME NEW j \in S, NEW k \in S, Touching(j, k, w), h[j] >= 2
       PROVE  h[k] = h[j] \/ (h[j] = cur /\ k \in found)
  <2>1. j \in 0 .. n - 1 /\ k \in 0 .. n - 1 /\ g[j] \in Nat /\ g[k] \in Nat /\ g[k] # 0
    BY <1>2, <1>3
  <2>2. CASE j = i
    <3>1. h[j] = cur
      BY <1>9, <2>2
    <3>2. CASE k = i
      BY <1>9, <3>1, <3>2
    <3>3. CASE k # i /\ g[k] = 1
      <4>1. k \in Found(g, i, w)
        BY <1>7, <1>13, <2>1, <2>2, <3>3
      <4>2. QED
        BY <3>1, <4>1
    <3>4. CASE k # i /\ g[k] # 1
      <4>1. g[k] >= 2
        BY <2>1, <3>4
      <4>2. Touching(k, i, w)
        BY <1>12, <1>13, <2>1, <2>2, Zenon
      <4>3. g[i] = g[k] \/ g[k] = cur
        BY <1>3, <1>4, <4>1, <4>2, Zenon
      <4>4. g[k] = cur
        BY <1>4, <4>1, <4>3
      <4>5. QED
        BY <1>9, <2>1, <3>1, <3>4, <4>4
    <3>5. QED
      BY <3>2, <3>3, <3>4
  <2>3. CASE j # i
    <3>1. h[j] = g[j] /\ g[j] >= 2
      BY <1>9, <1>13, <2>1, <2>3
    <3>2. g[k] = g[j] \/ (g[j] = cur /\ k \in on)
      BY <1>3, <1>13, <3>1, Zenon
    <3>3. CASE k = i
      BY <1>3, <1>4, <1>9, <3>1, <3>2, <3>3
    <3>4. CASE k # i
      <4>1. h[k] = g[k]
        BY <1>9, <2>1, <3>4
      <4>2. k \in on => k \in found
        BY <3>4
      <4>3. QED
        BY <3>1, <3>2, <4>1, <4>2
    <3>5. QED
      BY <3>3, <3>4
  <2>4. QED
    BY <2>2, <2>3
<1>14. ASSUME NEW c \in Nat, c >= 2 PROVE Joined(Members(pts, at, h, found, cur, c))
  <2>1. \A p \in pts : at[p] \in S /\ at[p] \in 0 .. n - 1
    BY <1>1, <1>2
  <2>2. CASE c # cur
    <3>1. \A p \in pts : h[at[p]] = c <=> g[at[p]] = c
      BY <1>4, <1>9, <1>14, <2>1, <2>2
    <3>2. Members(pts, at, h, found, cur, c) = Members(pts, at, g, on, cur, c)
      BY <2>2, <3>1, Zenon DEF Members
    <3>3. QED
      BY <1>3, <1>14, <3>2, Zenon
  <2>3. CASE c = cur
    <3>1. PICK X, N : X = Members(pts, at, g, on, cur, cur) /\ N = {p \in pts : at[p] \in Found(g, i, w)}
      OBVIOUS
    <3>2. Members(pts, at, h, found, cur, c) = X \cup N
      <4>1. \A p \in pts : h[at[p]] = cur <=> g[at[p]] = cur \/ at[p] = i
        BY <1>9, <2>1
      <4>2. \A p \in pts : (h[at[p]] = cur \/ at[p] \in found) <=>
                             \/ g[at[p]] = cur \/ at[p] \in on
                             \/ at[p] \in Found(g, i, w)
        BY <4>1
      <4>3. QED
        BY <2>3, <3>1, <4>2 DEF Members
    <3>3. PICK r \in pts : at[r] = i
      BY <1>1, <1>4
    <3>4. r \in X
      BY <1>4, <3>1, <3>3, Zenon DEF Members
    <3>5. \A q \in N : Clusterer!MaybeTogether(r, q) /\ Clusterer!MaybeTogether(q, r)
      <4>1. SUFFICES ASSUME NEW q \in N
                     PROVE  Clusterer!MaybeTogether(r, q) /\ Clusterer!MaybeTogether(q, r)
        BY Zenon
      <4>2. q \in pts /\ Touching(i, at[q], w)
        BY <1>7, <3>1
      <4>3. Touching(at[q], i, w)
        BY <1>4, <1>12, <2>1, <4>2, Zenon
      <4>4. QED
        BY <3>3, <4>2, <4>3, Zenon DEF Placed, Near
    <3>6. Joined(X)
      BY <1>3, <3>1, Zenon
    <3>7. QED
      BY <3>2, <3>4, <3>5, <3>6, JoinedGrows, Zenon
  <2>4. QED
    BY <2>2, <2>3
<1>15. QED
  BY <1>1, <1>3, <1>9, <1>10, <1>11, <1>13, <1>14, Zenon DEF Searching

(* When nothing is on the stack, the next cluster's number is taken.       *)
LEMMA ClusterEnds ==
  ASSUME NEW pts, NEW at, NEW w, NEW n, Placed(pts, at, w, n), NEW g, NEW cur,
         Searching(pts, at, w, n, g, {}, cur)
  PROVE  Searching(pts, at, w, n, g, {}, cur + 1) /\ Fresh(g, n, cur + 1)
<1>1. PICK S : S = {at[p] : p \in pts}
  OBVIOUS
<1>2. S \subseteq 0 .. n - 1
  BY <1>1, Zenon DEF Placed, Near
<1>3. /\ cur \in Nat /\ cur >= 2 /\ g \in [0 .. n - 1 -> 0 .. cur]
      /\ \A j \in 0 .. n - 1 : g[j] # 0 <=> j \in S
      /\ \A j, k \in S :
           Touching(j, k, w) /\ g[j] >= 2 => g[k] = g[j] \/ (g[j] = cur /\ k \in {})
      /\ \A c \in Nat : c >= 2 => Joined(Members(pts, at, g, {}, cur, c))
  BY <1>1, Zenon DEF Searching
<1>4. \A c : Members(pts, at, g, {}, cur + 1, c) = Members(pts, at, g, {}, cur, c)
  BY Zenon DEF Members
<1>5. cur + 1 \in Nat /\ cur + 1 >= 2 /\ g \in [0 .. n - 1 -> 0 .. cur + 1] /\ Fresh(g, n, cur + 1)
  BY <1>3 DEF Fresh
<1>6. \A j, k \in S :
        Touching(j, k, w) /\ g[j] >= 2 => g[k] = g[j] \/ (g[j] = cur + 1 /\ k \in {})
  BY <1>3, Zenon
<1>7. \A c \in Nat : c >= 2 => Joined(Members(pts, at, g, {}, cur + 1, c))
  BY <1>3, <1>4, Zenon
<1>8. {} \subseteq S /\ \A j \in {} : g[j] \in {1, cur + 1}
  OBVIOUS
<1>9. QED
  BY <1>1, <1>3, <1>5, <1>6, <1>7, <1>8, Zenon DEF Searching

(* The points that follow each other from p on within the tolerance.       *)
ChainOf(pts, p) == {q \in pts : Clusterer!Chained(Clusterer!SurelyTogether, pts, p, q)}

(* What is promised of the surfaces of a plane, and of its points.         *)
IsSurface(s, pts, mine) ==
  /\ s \subseteq pts
  /\ \A p, q \in s : Clusterer!Chained(Clusterer!MaybeTogether, s, p, q)
  /\ \A t \in mine \ {s} : s \cap t = {}

(* A chain is in one surface, or short and in none.                        *)
IsAssigned(chain, mine) ==
  \/ \E s \in mine : chain \subseteq s
  \/ /\ Clusterer!Cardinality(chain) < MIN_CLUSTER_SIZE
     /\ \A s \in mine : chain \cap s = {}

(* The surfaces and the points of one plane.                               *)
IsClustered(pts, mine) ==
  /\ \A s \in mine : IsSurface(s, pts, mine)
  /\ \A p \in pts : IsAssigned(ChainOf(pts, p), mine)

(* The points by the values of their cells.                                *)
CellClasses(pts, at, g) == {{p \in pts : g[at[p]] = c} : c \in {g[at[p]] : p \in pts}}

(* Those that are surfaces.                                                *)
LargeEnough(sets) == {c \in sets : Clusterer!Cardinality(c) >= MIN_CLUSTER_SIZE}

(* When every cell with points is visited, the clusters are as promised.   *)
LEMMA SearchEnds ==
  ASSUME NEW pts, IsFiniteSet(pts), NEW at, NEW w, NEW n, Placed(pts, at, w, n),
         NEW g, NEW cur, Searching(pts, at, w, n, g, {}, cur),
         \A p \in pts : g[at[p]] # 1,
         NEW mine, mine = LargeEnough(CellClasses(pts, at, g))
  PROVE  IsClustered(pts, mine)
<1>1. PICK S : S = {at[p] : p \in pts}
  OBVIOUS
<1>2. S \subseteq 0 .. n - 1
  BY <1>1, Zenon DEF Placed, Near
<1>3. /\ cur \in Nat /\ cur >= 2 /\ g \in [0 .. n - 1 -> 0 .. cur]
      /\ \A j \in 0 .. n - 1 : g[j] # 0 <=> j \in S
      /\ \A j, k \in S :
           Touching(j, k, w) /\ g[j] >= 2 => g[k] = g[j] \/ (g[j] = cur /\ k \in {})
      /\ \A c \in Nat : c >= 2 => Joined(Members(pts, at, g, {}, cur, c))
  BY <1>1, Zenon DEF Searching
<1>4. \A p \in pts : at[p] \in S /\ at[p] \in 0 .. n - 1
  BY <1>1, <1>2
<1>5. \A p \in pts : g[at[p]] \in Nat /\ g[at[p]] >= 2
  <2>1. \A j \in S : g[j] \in Nat /\ g[j] # 0
    BY <1>2, <1>3
  <2>2. SUFFICES ASSUME NEW p \in pts PROVE g[at[p]] \in Nat /\ g[at[p]] >= 2
    OBVIOUS
  <2>3. PICK e : e = g[at[p]]
    OBVIOUS
  <2>4. e \in Nat /\ e # 0 /\ e # 1
    BY <1>4, <2>1, <2>3, Zenon
  <2>5. QED
    BY <2>3, <2>4
<1> USE DEF CellClasses, LargeEnough
<1> DEFINE Of(c) == {p \in pts : g[at[p]] = c}
<1>6. \A s \in mine : \E p \in pts : s = Of(g[at[p]])
  <2>1. SUFFICES ASSUME NEW s \in mine PROVE \E p \in pts : s = Of(g[at[p]])
    OBVIOUS
  <2>2. PICK c \in {g[at[p]] : p \in pts} : s = Of(c)
    BY Zenon
  <2> HIDE DEF Of
  <2>3. QED
    BY <2>2
<1>7. \A p \in pts : Clusterer!Cardinality(Of(g[at[p]])) >= MIN_CLUSTER_SIZE => Of(g[at[p]]) \in mine
  BY Zenon
<1>8. \A p \in pts : p \in Of(g[at[p]])
  OBVIOUS
<1>9. \A c : Of(c) = Members(pts, at, g, {}, cur, c)
  BY DEF Members
<1>10. \A c, d : c # d => Of(c) \cap Of(d) = {}
  OBVIOUS
<1>11. \A c : Of(c) \subseteq pts
  OBVIOUS
<1>12. ASSUME NEW p \in pts, NEW x \in Of(g[at[p]]), NEW y \in pts, Clusterer!SurelyTogether(x, y)
       PROVE  y \in Of(g[at[p]])
  <2>1. x \in pts /\ g[at[x]] = g[at[p]]
    OBVIOUS
  <2>2. at[x] = at[y] \/ Touching(at[x], at[y], w)
    BY <1>12, <2>1, Zenon DEF Placed, Near
  <2>3. g[at[y]] = g[at[x]]
    BY <1>3, <1>4, <1>5, <2>1, <2>2, Zenon
  <2>4. QED
    BY <2>1, <2>3
<1> HIDE DEF Of
<1>13. ASSUME NEW s \in mine
       PROVE  IsSurface(s, pts, mine)
  <2>1. PICK p \in pts : s = Of(g[at[p]])
    BY <1>6
  <2>2. Joined(s)
    BY <1>3, <1>5, <1>9, <2>1, Zenon
  <2>3. \A a, b \in s : Clusterer!Chained(Clusterer!MaybeTogether, s, a, b)
    BY <2>2, JoinedIsChained, Zenon
  <2>4. ASSUME NEW t \in mine \ {s} PROVE s \cap t = {}
    <3>1. PICK q \in pts : t = Of(g[at[q]])
      BY <1>6
    <3>2. g[at[p]] # g[at[q]]
      BY <2>1, <3>1
    <3>3. QED
      BY <1>10, <2>1, <3>1, <3>2
  <2>5. s \subseteq pts
    BY <1>11, <2>1
  <2>6. QED
    BY <2>3, <2>4, <2>5, Zenon DEF IsSurface
<1>14. ASSUME NEW p \in pts, NEW chain, chain = ChainOf(pts, p)
       PROVE  IsAssigned(chain, mine)
  <2>1. PICK C : C = Of(g[at[p]])
    OBVIOUS
  <2>2. chain \subseteq C
    <3>1. C \in SUBSET pts /\ p \in C /\ \A x \in C, y \in pts : Clusterer!SurelyTogether(x, y) => y \in C
      BY <1>8, <1>11, <1>12, <2>1, Zenon
    <3>2. \A q \in pts : Clusterer!Chained(Clusterer!SurelyTogether, pts, p, q) => q \in C
      BY <3>1, Zenon DEF Clusterer!Chained
    <3>3. QED
      BY <1>14, <3>2 DEF ChainOf
  <2>3. CASE C \in mine
    BY <2>2, <2>3, Zenon DEF IsAssigned
  <2>4. CASE C \notin mine
    <3>1. ~ (Clusterer!Cardinality(C) >= MIN_CLUSTER_SIZE)
      BY <1>7, <2>1, <2>4, Zenon
    <3>2. \A S1 : Clusterer!Cardinality(S1) = Cardinality(S1)
      BY Zenon DEF Clusterer!Cardinality, Cardinality
    <3>3. IsFiniteSet(C)
      BY <1>11, <2>1, FS_Subset
    <3>4. Cardinality(chain) <= Cardinality(C) /\ Cardinality(C) \in Nat /\ Cardinality(chain) \in Nat
      BY <2>2, <3>3, FS_Subset, FS_CardinalityType
    <3>5. Clusterer!Cardinality(chain) < MIN_CLUSTER_SIZE
      BY <3>1, <3>2, <3>4, ClustererAssumption
    <3>6. \A s \in mine : chain \cap s = {}
      <4>1. SUFFICES ASSUME NEW s \in mine PROVE chain \cap s = {}
        OBVIOUS
      <4>2. PICK q \in pts : s = Of(g[at[q]])
        BY <1>6
      <4>3. g[at[p]] # g[at[q]]
        BY <2>1, <2>4, <4>2
      <4>4. C \cap s = {}
        BY <1>10, <2>1, <4>2, <4>3
      <4>5. QED
        BY <2>2, <4>4
    <3>7. QED
      BY <3>5, <3>6, Zenon DEF IsAssigned
  <2>5. QED
    BY <2>3, <2>4
<1>15. QED
  BY <1>13, <1>14, Zenon DEF IsClustered

(* The surfaces of plane i.                                                *)
Mine(found, i) == {s.points : s \in {s \in found : s.plane = i}}

(* The search in the grid of a plane, and that no cluster is begun when    *)
(* the stack is empty.                                                     *)
SearchState(pts, size, g, cells, cur) ==
  /\ cells \in Seq(Int)
  /\ Searching(pts, Spots(pts), size[1], size[2] * size[1], g, CellsOn(cells), cur)
  /\ cells = <<>> => Fresh(g, size[2] * size[1], cur)

(* The planes that are done have their surfaces, the others have none.     *)
ClusterInv ==
  /\ GridInv
  /\ plane \notin todo
  /\ \A s \in surfaces : s.plane \in DOMAIN frame \ (todo \cup {plane})
  /\ \A i \in DOMAIN frame \ (todo \cup {plane}) : IsClustered(frame[i], Mine(surfaces, i))
  /\ plane # 0 => SearchState(frame[plane], numCells, grid, stack, curCluster)

(* Planes are counted from 1.                                              *)
LEMMA PlanesAreCounted == ASSUME NEW f \in Clusterer!Frames PROVE 0 \notin DOMAIN f
<1> DEFINE Planes == UNION {Clusterer!kSubset(k, Position) : k \in 1 .. MaxPoints}
<1>1. f \in {<<p>> : p \in Planes} \/ f \in Planes \X Planes
  BY DEF Clusterer!Frames
<1> HIDE DEF Planes
<1>2. QED
  BY <1>1

(* What the surfaces of the planes that are done promise is the property.  *)
LEMMA ClustersInTerms == ClusterInv => Clusterer!SurfacesAreClusters
<1>1. SUFFICES ASSUME ClusterInv, plane = 0, todo = {}, NEW i \in DOMAIN frame
               PROVE  IsClustered(frame[i], Mine(surfaces, i))
  BY Zenon DEF Clusterer!SurfacesAreClusters, IsClustered, IsSurface, IsAssigned, ChainOf, Mine
<1>2. i # 0
  BY <1>1, PlanesAreCounted, Zenon DEF ClusterInv, GridInv
<1>3. i \in DOMAIN frame \ (todo \cup {plane})
  BY <1>1, <1>2
<1>4. QED
  BY <1>1, <1>3, Zenon DEF ClusterInv

(* Nothing is done yet.                                                    *)
LEMMA ClusterInit == Clusterer!Init => ClusterInv
<1> SUFFICES ASSUME Clusterer!Init PROVE ClusterInv
  OBVIOUS
<1>1. frame \in Clusterer!Frames /\ todo = DOMAIN frame /\ plane = 0 /\ surfaces = {}
  BY Zenon DEF Clusterer!Init
<1>2. plane \notin todo
  BY <1>1, PlanesAreCounted, Zenon
<1>3. DOMAIN frame \ (todo \cup {plane}) = {}
  BY <1>1
<1>4. QED
  BY <1>1, <1>2, <1>3, GridInit DEF ClusterInv

(* The plane in the grid.                                                  *)
LEMMA PlaneInGrid ==
  ASSUME NEW pts \in SUBSET Position, pts # {}, IsFiniteSet(pts), NEW size,
         size = Clusterer!calcGridSize(pts)
  PROVE  /\ Placed(pts, Spots(pts), size[1], size[2] * size[1])
         /\ size[1] \in Nat /\ size[2] \in Nat /\ size[1] * size[2] = size[2] * size[1]
         /\ \A p \in pts :
              Spots(pts)[p] = Clusterer!cellToGridIndex(Clusterer!CellOf(p, pts), size)
<1>1. 1 \in 1 .. 2 /\ 2 \in 1 .. 2
  OBVIOUS
<1>2. size[1] \in Nat /\ size[2] \in Nat
  BY <1>1, GridDivision, Zenon
<1>3. size[1] * size[2] = size[2] * size[1]
  BY <1>2
<1>4. QED
  BY <1>2, <1>3, PointsArePlaced, Zenon DEF Spots

(* Build begins the search in a plane's grid.                              *)
LEMMA PlaneBuilt ==
  ASSUME ClusterInv, NEW i \in todo, Clusterer!Build(i)
  PROVE  ClusterInv'
<1>1. /\ plane = 0 /\ plane' = i /\ todo' = todo \ {i} /\ frame' = frame /\ surfaces' = surfaces
      /\ numCells' = Clusterer!calcGridSize(frame[i])
      /\ grid' = Clusterer!EmptyOrUnvisited(frame[i], Clusterer!calcGridSize(frame[i]))
      /\ stack' = <<>> /\ curCluster' = 2
  BY Zenon DEF Clusterer!Build, Clusterer!CLUSTERED_CELL_START
<1>2. /\ GridInv /\ frame \in Clusterer!Frames /\ todo \subseteq DOMAIN frame
      /\ \A s \in surfaces : s.plane \in DOMAIN frame \ (todo \cup {plane})
      /\ \A j \in DOMAIN frame \ (todo \cup {plane}) : IsClustered(frame[j], Mine(surfaces, j))
  BY Zenon DEF ClusterInv, GridInv
<1>3. GridInv'
  <2>1. Clusterer!Next
    BY Zenon DEF Clusterer!Next
  <2>2. QED
    BY <1>2, <2>1, GridNext, Zenon
<1>4. DOMAIN frame \ (todo' \cup {plane'}) = DOMAIN frame \ (todo \cup {plane})
  <2>1. 0 \notin DOMAIN frame
    BY <1>2, PlanesAreCounted, Zenon
  <2>2. QED
    BY <1>1, <1>2, <2>1
<1>5. plane' \notin todo'
  BY <1>1
<1>6. PICK pts, size : pts = frame[i] /\ size = Clusterer!calcGridSize(pts)
  OBVIOUS
<1>7. pts \in SUBSET Position /\ pts # {} /\ IsFiniteSet(pts)
  BY <1>2, <1>6, PlanesOfFrames, Zenon
<1>8. SearchState(pts, size, grid', <<>>, 2)
  <2>1. PICK at, n : at = Spots(pts) /\ n = size[2] * size[1]
    OBVIOUS
  <2>2. /\ Placed(pts, at, size[1], n) /\ size[1] * size[2] = n
        /\ \A p \in pts : at[p] = Clusterer!cellToGridIndex(Clusterer!CellOf(p, pts), size)
    BY <1>6, <1>7, <2>1, PlaneInGrid, Zenon
  <2>3. {Clusterer!cellToGridIndex(Clusterer!CellOf(p, pts), size) : p \in pts} = {at[p] : p \in pts}
    BY <2>2, Zenon
  <2>4. grid' = Unvisited({at[p] : p \in pts}, n)
    BY <1>1, <1>6, <2>2, <2>3, Zenon
       DEF Unvisited, Clusterer!EmptyOrUnvisited, Clusterer!UNVISITED_CELL, Clusterer!EMPTY_CELL
  <2>5. Searching(pts, at, size[1], n, grid', {}, 2) /\ Fresh(grid', n, 2)
    BY <2>2, <2>4, SearchBegins, Zenon
  <2>6. <<>> \in Seq(Int) /\ CellsOn(<<>>) = {}
    BY DEF CellsOn
  <2>7. QED
    BY <2>1, <2>5, <2>6, Zenon DEF SearchState
<1>9. SearchState(frame'[plane'], numCells', grid', stack', curCluster')
  BY <1>1, <1>6, <1>8, Zenon
<1>10. QED
  BY <1>1, <1>2, <1>3, <1>4, <1>5, <1>9, Zenon DEF ClusterInv

(* The plane that is in the grid, and the search in it.                    *)
LEMMA SearchGoesOn ==
  ASSUME ClusterInv, plane # 0
  PROVE  \E pts, at, w, n :
           /\ plane \in DOMAIN frame /\ pts = frame[plane] /\ at = Spots(pts)
           /\ w = numCells[1] /\ n = numCells[2] * numCells[1]
           /\ IsFiniteSet(pts) /\ w \in Nat /\ n \in Nat
           /\ Placed(pts, at, w, n)
           /\ \A p \in pts : at[p] = Clusterer!cellToGridIndex(Clusterer!CellOf(p, pts), numCells)
           /\ stack \in Seq(Int)
           /\ Searching(pts, at, w, n, grid, CellsOn(stack), curCluster)
           /\ stack = <<>> => Fresh(grid, n, curCluster)
<1>1. /\ frame \in Clusterer!Frames /\ plane \in DOMAIN frame
      /\ numCells = Clusterer!calcGridSize(frame[plane])
      /\ SearchState(frame[plane], numCells, grid, stack, curCluster)
  BY Zenon DEF ClusterInv, GridInv
<1>2. PICK pts, at, w, n : /\ pts = frame[plane] /\ at = Spots(pts)
                           /\ w = numCells[1] /\ n = numCells[2] * numCells[1]
  OBVIOUS
<1>3. pts \in SUBSET Position /\ pts # {} /\ IsFiniteSet(pts)
  BY <1>1, <1>2, PlanesOfFrames, Zenon
<1>4. /\ Placed(pts, at, w, n) /\ w \in Nat
      /\ \A p \in pts : at[p] = Clusterer!cellToGridIndex(Clusterer!CellOf(p, pts), numCells)
  BY <1>1, <1>2, <1>3, PlaneInGrid, Zenon
<1>5. n \in Nat
  BY <1>4, Zenon DEF Placed
<1>6. /\ stack \in Seq(Int)
      /\ Searching(pts, at, w, n, grid, CellsOn(stack), curCluster)
      /\ stack = <<>> => Fresh(grid, n, curCluster)
  BY <1>1, <1>2, Zenon DEF SearchState
<1>7. QED
  BY <1>1, <1>2, <1>3, <1>4, <1>5, <1>6, Zenon

(* The grid is searched on: the other variables keep their values.         *)
LEMMA StillSearching ==
  ASSUME ClusterInv, [Clusterer!Next]_(Clusterer!vars),
         UNCHANGED <<frame, todo, plane, numCells, surfaces>>,
         plane # 0 => SearchState(frame[plane], numCells, grid', stack', curCluster')
  PROVE  ClusterInv'
<1>1. GridInv'
  BY GridNext, Zenon DEF ClusterInv
<1>2. frame' = frame /\ todo' = todo /\ plane' = plane /\ numCells' = numCells /\ surfaces' = surfaces
  OBVIOUS
<1>3. plane' # 0 => SearchState(frame'[plane'], numCells', grid', stack', curCluster')
  BY <1>2, Zenon
<1>4. /\ plane \notin todo
      /\ \A s \in surfaces : s.plane \in DOMAIN frame \ (todo \cup {plane})
      /\ \A i \in DOMAIN frame \ (todo \cup {plane}) : IsClustered(frame[i], Mine(surfaces, i))
  BY Zenon DEF ClusterInv
<1>5. QED
  BY <1>1, <1>2, <1>3, <1>4, Zenon DEF ClusterInv

(* The first cell of a cluster has no cluster beside it.                   *)
LEMMA ClusterStarted ==
  ASSUME ClusterInv, Clusterer!StartCluster
  PROVE  ClusterInv'
<1>1. /\ stack = <<>> /\ Clusterer!Seeds # {} /\ stack' = <<Clusterer!Min(Clusterer!Seeds)>>
      /\ grid' = grid /\ curCluster' = curCluster
      /\ UNCHANGED <<frame, todo, plane, numCells, surfaces>>
  BY Zenon DEF Clusterer!StartCluster
<1>2. [Clusterer!Next]_(Clusterer!vars)
  BY Zenon DEF Clusterer!Next
<1>3. ASSUME plane # 0 PROVE SearchState(frame[plane], numCells, grid', stack', curCluster')
  <2>1. PICK pts, at, w, n :
           /\ pts = frame[plane] /\ at = Spots(pts)
           /\ w = numCells[1] /\ n = numCells[2] * numCells[1]
           /\ n \in Nat /\ Placed(pts, at, w, n)
           /\ Searching(pts, at, w, n, grid, CellsOn(stack), curCluster)
           /\ stack = <<>> => Fresh(grid, n, curCluster)
    BY <1>3, SearchGoesOn, Zenon
  <2>2. DOMAIN grid = 0 .. n - 1
    <3>1. grid \in [0 .. n - 1 -> 0 .. curCluster]
      BY <2>1, Zenon DEF Searching
    <3>2. QED
      BY <3>1
  <2>3. /\ Clusterer!Seeds \subseteq DOMAIN grid
        /\ \A i \in Clusterer!Seeds : grid[i] = 1
    BY Zenon DEF Clusterer!Seeds, Clusterer!UNVISITED_CELL
  <2>4. PICK i : i = Min(Clusterer!Seeds)
    OBVIOUS
  <2>5. i \in Clusterer!Seeds
    <3>1. Clusterer!Seeds \in SUBSET Nat
      BY <2>1, <2>2, <2>3
    <3>2. QED
      BY <1>1, <2>4, <3>1, MinIsLeast, Zenon
  <2>6. stack' = <<i>>
    BY <1>1, <2>4, Zenon DEF Clusterer!Min, Min
  <2>7. i \in 0 .. n - 1 /\ grid[i] = 1
    BY <2>2, <2>3, <2>5
  <2>8. CellsOn(stack) = {}
    BY <1>1 DEF CellsOn
  <2>9. Searching(pts, at, w, n, grid, {i}, curCluster)
    BY <1>1, <2>1, <2>7, <2>8, ClusterBegins, Zenon
  <2>10. <<i>> \in Seq(Int) /\ CellsOn(<<i>>) = {i} /\ <<i>> # <<>>
    <3>1. i \in Int /\ DOMAIN <<i>> = {1} /\ <<i>>[1] = i
      BY <2>7
    <3>2. CellsOn(<<i>>) = {i}
      BY <3>1, Zenon DEF CellsOn
    <3>3. QED
      BY <3>1, <3>2
  <2>11. SearchState(pts, numCells, grid, <<i>>, curCluster)
    BY <2>1, <2>9, <2>10, Zenon DEF SearchState
  <2>12. QED
    BY <1>1, <2>1, <2>6, <2>11, Zenon
<1>4. QED
  BY <1>1, <1>2, <1>3, StillSearching, Zenon

(* The cell on top of the stack, and what is below it.                     *)
LEMMA LastCell ==
  ASSUME NEW s \in Seq(Int), s # <<>>
  PROVE  /\ Clusterer!Front(s) \in Seq(Int) /\ Clusterer!Last(s) \in Int
         /\ CellsOn(s) = CellsOn(Clusterer!Front(s)) \cup {Clusterer!Last(s)}
<1>1. PICK n : n = Len(s)
  OBVIOUS
<1>2. PICK r, i : r = Clusterer!Front(s) /\ i = Clusterer!Last(s)
  OBVIOUS
<1>3. r = SubSeq(s, 1, n - 1) /\ i = s[n]
  BY <1>1, <1>2, Zenon DEF Clusterer!Front, Clusterer!Last
<1>4. n \in Nat /\ n >= 1 /\ DOMAIN s = 1 .. n /\ s \in [1 .. n -> Int]
  BY <1>1
<1>5. r \in Seq(Int) /\ DOMAIN r = 1 .. n - 1 /\ \A k \in 1 .. n - 1 : r[k] = s[k]
  BY <1>1, <1>3, <1>4
<1>6. DOMAIN s = (DOMAIN r) \cup {n} /\ s[n] = i /\ \A k \in DOMAIN r : r[k] = s[k]
  BY <1>3, <1>4, <1>5
<1>7. {s[k] : k \in (DOMAIN r) \cup {n}} = {r[k] : k \in DOMAIN r} \cup {i}
  BY <1>6
<1>8. CellsOn(s) = CellsOn(r) \cup {i}
  BY <1>6, <1>7, Zenon DEF CellsOn
<1>9. i \in Int
  BY <1>3, <1>4
<1>10. QED
  BY <1>2, <1>5, <1>8, <1>9, Zenon

(* A cell that is visited keeps its cluster joined.                        *)
LEMMA CellTaken ==
  ASSUME ClusterInv, Clusterer!VisitCell
  PROVE  ClusterInv'
<1>1. PICK i : i = Clusterer!Last(stack)
  OBVIOUS
<1>2. /\ stack # <<>> /\ grid' = [grid EXCEPT ![i] = curCluster]
      /\ stack' = Clusterer!Pushed(i)
      /\ curCluster' = IF stack' = <<>> THEN curCluster + 1 ELSE curCluster
      /\ UNCHANGED <<frame, todo, plane, numCells, surfaces>>
  BY <1>1, Zenon DEF Clusterer!VisitCell
<1>3. [Clusterer!Next]_(Clusterer!vars)
  BY Zenon DEF Clusterer!Next
<1>4. ASSUME plane # 0 PROVE SearchState(frame[plane], numCells, grid', stack', curCluster')
  <2>1. PICK pts, at, w, n :
           /\ pts = frame[plane] /\ at = Spots(pts)
           /\ w = numCells[1] /\ n = numCells[2] * numCells[1]
           /\ w \in Nat /\ Placed(pts, at, w, n) /\ stack \in Seq(Int)
           /\ Searching(pts, at, w, n, grid, CellsOn(stack), curCluster)
    BY <1>4, SearchGoesOn, Zenon
  <2>2. /\ Clusterer!Front(stack) \in Seq(Int) /\ i \in Int
        /\ CellsOn(stack) = CellsOn(Clusterer!Front(stack)) \cup {i}
    BY <1>1, <1>2, <2>1, LastCell, Zenon
  <2>3. numCells[1] \in Int
    BY <2>1
  <2>4. PICK rest, on, found, h :
          /\ rest = CellsOn(Clusterer!Front(stack)) /\ on = CellsOn(stack)
          /\ found = CellsOn(stack') /\ h = grid'
    OBVIOUS
  <2>5. stack' \in Seq(Int) /\ found = rest \cup Found(grid, i, w)
    BY <1>2, <2>1, <2>2, <2>3, <2>4, NeighboursArePushed, Zenon
  <2>6. Searching(pts, at, w, n, h, found, curCluster)
    BY <1>2, <2>1, <2>2, <2>4, <2>5, CellVisited, Zenon
  <2>7. CASE stack' = <<>>
    <3>1. found = {}
      BY <2>4, <2>7 DEF CellsOn
    <3>2. Searching(pts, at, w, n, h, {}, curCluster + 1) /\ Fresh(h, n, curCluster + 1)
      BY <2>1, <2>6, <3>1, ClusterEnds, Zenon
    <3>3. curCluster' = curCluster + 1
      BY <1>2, <2>7, Zenon
    <3>4. QED
      BY <2>1, <2>4, <2>5, <3>1, <3>2, <3>3, Zenon DEF SearchState
  <2>8. CASE stack' # <<>>
    <3>1. curCluster' = curCluster
      BY <1>2, <2>8, Zenon
    <3>2. QED
      BY <2>1, <2>4, <2>5, <2>6, <2>8, <3>1, Zenon DEF SearchState
  <2>9. QED
    BY <2>7, <2>8
<1>5. QED
  BY <1>2, <1>3, <1>4, StillSearching, Zenon

(* When no cell is left for the scan, every cell with points is visited.   *)
LEMMA NothingUnvisited ==
  ASSUME NEW pts, NEW at, NEW w, NEW n, w = numCells[1], Placed(pts, at, w, n),
         NEW on, NEW cur, Searching(pts, at, w, n, grid, on, cur), Clusterer!Seeds = {}
  PROVE  \A p \in pts : grid[at[p]] # 1
<1>1. SUFFICES ASSUME NEW p \in pts, grid[at[p]] = 1 PROVE FALSE
  OBVIOUS
<1>2. PICK i : i = at[p]
  OBVIOUS
<1>3. i \in 0 .. n - 1 /\ i % numCells[1] >= 1 /\ i \div numCells[1] >= 1
  BY <1>2, Zenon DEF Placed, Near
<1>4. grid \in [0 .. n - 1 -> 0 .. cur]
  BY Zenon DEF Searching
<1>5. i \in DOMAIN grid
  BY <1>3, <1>4
<1>6. i \in Clusterer!Seeds
  BY <1>1, <1>2, <1>3, <1>5, Zenon DEF Clusterer!Seeds, Clusterer!UNVISITED_CELL
<1>7. QED
  BY <1>6

(* The clusters are the classes of points by the value of their cell.      *)
LEMMA ClustersAreCells ==
  ASSUME NEW at, NEW pts, pts = frame[plane],
         \A p \in pts : at[p] = Clusterer!cellToGridIndex(Clusterer!CellOf(p, pts), numCells),
         \A p \in pts : grid[at[p]] \in Int
  PROVE  Clusterer!Clusters = CellClasses(pts, at, grid)
<1> DEFINE cl(p) == Clusterer!clusterForPoint(p)
           Same(e) == {p \in pts : cl(p) = e}
           Of(c)   == {p \in pts : grid[at[p]] = c}
<1>1. \A p \in pts : cl(p) = grid[at[p]] - 2
  BY Zenon DEF Clusterer!clusterForPoint, Clusterer!CLUSTERED_CELL_START
<1>2. Clusterer!Clusters = {Same(e) : e \in {cl(p) : p \in pts}}
  BY Zenon DEF Clusterer!Clusters
<1> HIDE DEF cl
<1>3. \A p \in pts : Same(cl(p)) = Of(grid[at[p]])
  <2>1. SUFFICES ASSUME NEW p \in pts PROVE Same(cl(p)) = Of(grid[at[p]])
    OBVIOUS
  <2>2. \A q \in pts : cl(q) = cl(p) <=> grid[at[q]] = grid[at[p]]
    BY <1>1
  <2>3. QED
    BY <2>2, Zenon
<1> HIDE DEF Same, Of
<1>4. {Same(e) : e \in {cl(p) : p \in pts}} = {Same(cl(p)) : p \in pts}
  OBVIOUS
<1>5. {Of(c) : c \in {grid[at[p]] : p \in pts}} = {Of(grid[at[p]]) : p \in pts}
  OBVIOUS
<1>6. {Same(cl(p)) : p \in pts} = {Of(grid[at[p]]) : p \in pts}
  BY <1>3
<1>7. Clusterer!Clusters = {Of(c) : c \in {grid[at[p]] : p \in pts}}
  BY <1>2, <1>4, <1>5, <1>6, Zenon
<1>8. QED
  BY <1>7, Zenon DEF Of, CellClasses

(* What the surfaces are of each plane when those of plane n are added.    *)
SurfacesOf(n, sets) == {[plane |-> n, points |-> c] : c \in sets}

(* The surfaces of plane n are the sets, those of the others the old ones. *)
Adds(new, old, n, sets) ==
  Mine(new, n) = sets /\ \A i : i # n => Mine(new, i) = Mine(old, i)

(* AddSurfaces adds them like this.                                        *)
LEMMA SurfacesAdded ==
  ASSUME NEW old, NEW n, NEW added, \A s \in old : s.plane # n,
         NEW new, new = old \cup SurfacesOf(n, added)
  PROVE  Adds(new, old, n, added)
<1> USE DEF SurfacesOf
<1> DEFINE more == SurfacesOf(n, added)
<1>1. \A s \in more : s.plane = n /\ s.points \in added
  OBVIOUS
<1>2. \A c \in added : [plane |-> n, points |-> c] \in more
                         /\ [plane |-> n, points |-> c].plane = n
                         /\ [plane |-> n, points |-> c].points = c
  OBVIOUS
<1> HIDE DEF more
<1>3. new = old \cup more
  BY DEF more
<1>4. Mine(new, n) \subseteq added
  BY <1>1, <1>3 DEF Mine
<1>5. added \subseteq Mine(new, n)
  <2>1. ASSUME NEW c \in added PROVE c \in Mine(new, n)
    <3>1. PICK s : s = [plane |-> n, points |-> c]
      OBVIOUS
    <3>2. s \in new /\ s.plane = n /\ s.points = c
      BY <1>2, <1>3, <3>1
    <3>3. s \in {r \in new : r.plane = n}
      BY <3>2
    <3>4. QED
      BY <3>2, <3>3 DEF Mine
  <2>2. QED
    BY <2>1
<1>6. ASSUME NEW i, i # n PROVE Mine(new, i) = Mine(old, i)
  <2>1. {s \in new : s.plane = i} = {s \in old : s.plane = i}
    BY <1>1, <1>3, <1>6
  <2>2. QED
    BY <2>1, Zenon DEF Mine
<1>7. QED
  BY <1>4, <1>5, <1>6 DEF Adds

(* The plane that is done has its surfaces.                                *)
LEMMA PlaneDone ==
  ASSUME ClusterInv, Clusterer!AddSurfaces
  PROVE  ClusterInv'
<1>1. PICK added : added = LargeEnough(Clusterer!Clusters)
  OBVIOUS
<1>2. /\ plane # 0 /\ stack = <<>> /\ Clusterer!Seeds = {} /\ plane' = 0
      /\ surfaces' = surfaces \cup SurfacesOf(plane, added)
      /\ frame' = frame /\ todo' = todo
  BY <1>1, Zenon DEF Clusterer!AddSurfaces, SurfacesOf, LargeEnough
<1>3. GridInv'
  <2>1. GridInv /\ [Clusterer!Next]_(Clusterer!vars)
    BY Zenon DEF ClusterInv, Clusterer!Next
  <2>2. QED
    BY <2>1, GridNext, Zenon
<1>4. /\ plane \notin todo
      /\ \A s \in surfaces : s.plane \in DOMAIN frame \ (todo \cup {plane})
      /\ \A i \in DOMAIN frame \ (todo \cup {plane}) : IsClustered(frame[i], Mine(surfaces, i))
      /\ frame \in Clusterer!Frames /\ todo \subseteq DOMAIN frame
  BY Zenon DEF ClusterInv, GridInv
<1>5. 0 \notin DOMAIN frame
  BY <1>4, PlanesAreCounted, Zenon
<1>6. PICK pts, at, w, n :
         /\ plane \in DOMAIN frame /\ pts = frame[plane] /\ at = Spots(pts)
         /\ w = numCells[1]
         /\ IsFiniteSet(pts) /\ w \in Nat /\ n \in Nat /\ Placed(pts, at, w, n)
         /\ \A p \in pts : at[p] = Clusterer!cellToGridIndex(Clusterer!CellOf(p, pts), numCells)
         /\ Searching(pts, at, w, n, grid, CellsOn(stack), curCluster)
  BY <1>2, SearchGoesOn, Zenon
<1>7. Searching(pts, at, w, n, grid, {}, curCluster)
  <2>1. CellsOn(stack) = {}
    BY <1>2 DEF CellsOn
  <2>2. QED
    BY <1>6, <2>1, Zenon
<1>8. \A p \in pts : grid[at[p]] # 1
  BY <1>2, <1>6, <1>7, NothingUnvisited, Zenon
<1>9. \A p \in pts : grid[at[p]] \in Int
  <2>1. grid \in [0 .. n - 1 -> 0 .. curCluster] /\ curCluster \in Nat
    BY <1>7, Zenon DEF Searching
  <2>2. \A p \in pts : at[p] \in 0 .. n - 1
    BY <1>6, Zenon DEF Placed, Near
  <2>3. QED
    BY <2>1, <2>2
<1>10. Clusterer!Clusters = CellClasses(pts, at, grid)
  BY <1>6, <1>9, ClustersAreCells, Zenon
<1>11. IsClustered(pts, added)
  <2>1. PICK g, cur : g = grid /\ cur = curCluster
    OBVIOUS
  <2>2. added = LargeEnough(CellClasses(pts, at, g))
    BY <1>1, <1>10, <2>1, Zenon
  <2>3. (\A p \in pts : g[at[p]] # 1) /\ Searching(pts, at, w, n, g, {}, cur)
    BY <1>7, <1>8, <2>1, Zenon
  <2>4. IsFiniteSet(pts) /\ Placed(pts, at, w, n)
    BY <1>6
  <2>5. QED
    BY <2>2, <2>3, <2>4, SearchEnds, Zenon
<1>12. PICK new : new = surfaces'
  OBVIOUS
<1>13. Mine(new, plane) = added /\ \A i : i # plane => Mine(new, i) = Mine(surfaces, i)
  <2>1. PICK old, m : old = surfaces /\ m = plane
    OBVIOUS
  <2>2. \A s \in old : s.plane # m
    BY <1>4, <2>1
  <2>3. new = old \cup SurfacesOf(m, added)
    BY <1>2, <1>12, <2>1, Zenon
  <2>4. Adds(new, old, m, added)
    BY <2>2, <2>3, SurfacesAdded, Zenon
  <2>5. QED
    BY <2>1, <2>4, Zenon DEF Adds
<1>14. \A s \in new : s.plane \in DOMAIN frame \ (todo \cup {0})
  <2>1. \A s \in surfaces : s.plane \in DOMAIN frame \ (todo \cup {0})
    BY <1>4, <1>5
  <2>2. \A s \in SurfacesOf(plane, added) : s.plane = plane
    BY DEF SurfacesOf
  <2>3. plane \in DOMAIN frame \ (todo \cup {0})
    BY <1>2, <1>4, <1>6
  <2>4. QED
    BY <1>2, <1>12, <2>1, <2>2, <2>3
<1>15. \A i \in DOMAIN frame \ (todo \cup {0}) : IsClustered(frame[i], Mine(new, i))
  <2>1. SUFFICES ASSUME NEW i \in DOMAIN frame \ (todo \cup {0})
                 PROVE  IsClustered(frame[i], Mine(new, i))
    OBVIOUS
  <2>2. CASE i = plane
    BY <1>6, <1>11, <1>13, <2>2, Zenon
  <2>3. CASE i # plane
    <3>1. i \in DOMAIN frame \ (todo \cup {plane})
      BY <2>3
    <3>2. QED
      BY <1>4, <1>13, <2>3, <3>1, Zenon
  <2>4. QED
    BY <2>2, <2>3
<1>16. 0 \notin todo
  BY <1>4, <1>5
<1>17. QED
  BY <1>2, <1>3, <1>12, <1>14, <1>15, <1>16, Zenon DEF ClusterInv

(* Each step of the clusterer keeps the invariant.                         *)
LEMMA ClusterNext == ClusterInv /\ [Clusterer!Next]_(Clusterer!vars) => ClusterInv'
<1> SUFFICES ASSUME ClusterInv, [Clusterer!Next]_(Clusterer!vars) PROVE ClusterInv'
  OBVIOUS
<1>1. CASE UNCHANGED Clusterer!vars
  <2>1. /\ frame' = frame /\ todo' = todo /\ plane' = plane /\ numCells' = numCells
        /\ grid' = grid /\ stack' = stack /\ curCluster' = curCluster /\ surfaces' = surfaces
    BY <1>1, Zenon DEF Clusterer!vars
  <2>2. plane # 0 => SearchState(frame[plane], numCells, grid', stack', curCluster')
    BY <2>1, Zenon DEF ClusterInv
  <2>3. QED
    BY <2>1, <2>2, StillSearching, Zenon
<1>2. QED
  BY <1>1, PlaneBuilt, ClusterStarted, CellTaken, PlaneDone, Zenon DEF Clusterer!Next

(* The surfaces of a frame are its planes' clusters, whatever the planes,  *)
(* the resolution and the order in which threads add them: none is divided *)
(* by a gap, none shares points with another, and points that follow each  *)
(* other within the tolerance are in one surface or, too few, in none.     *)
THEOREM SurfacesStayClusters == Spec => []SurfacesAreClusters
<1> DEFINE J == stage = "clusterer" => ClusterInv
<1>1. Init => J
  BY ClusterInit DEF Init
<1>2. J /\ [Next]_vars => J'
  <2> SUFFICES ASSUME J, [Next]_vars, stage' = "clusterer" PROVE ClusterInv'
    OBVIOUS
  <2>1. stage = "clusterer" /\ [Clusterer!Next]_(Clusterer!vars)
    BY DEF Next, vars, RunTracker, RunHull, RunClusterer, RunFinder, RunSplitter, clusterer, Clusterer!vars
  <2>2. QED
    BY <2>1, ClusterNext
<1>3. J => SurfacesAreClusters
  BY ClustersInTerms DEF SurfacesAreClusters
<1>4. QED
  BY <1>1, <1>2, <1>3, PTL DEF Spec

-----------------------------------------------------------------------------
(* The reduction of a hull.                                                *)

(* The triangles in the queue are linked so, and know what lies between    *)
(* them.                                                                   *)
RingInv ==
  LET n == Len(hull)
  IN  /\ hull \in Seq(Int \X Int)
      /\ queue \in SUBSET (1 .. n)
      /\ {left_triangle, right_triangle, left, right} \subseteq [1 .. n -> 1 .. n]
      /\ area \in [1 .. n -> Nat]
      /\ Linked(queue, n, left_triangle, right_triangle)
      /\ \A t \in queue :
           /\ left[t] = left_triangle[t] /\ right[t] = right_triangle[t]
           /\ area[t] = Hull!Area(hull[left_triangle[t]], hull[t], hull[right_triangle[t]])

(* The function that Leftwards defines exists.                             *)
LEMMA LeftwardsWalks ==
  ASSUME NEW t, NEW k \in Nat, NEW D, t \in D, left_triangle \in [D -> D]
  PROVE  WalksLeft(Hull!Leftwards(t, k), t, k, left_triangle)
<1> DEFINE lt      == left_triangle
           step    == [e \in (1 .. k) \X D |-> IF e[1] = 1 THEN t ELSE lt[e[2]]]
           Walk(f) == f = [i \in 1 .. k |-> IF i = 1 THEN t ELSE lt[f[i - 1]]]
<1>1. step \in [(1 .. k) \X D -> D]
  OBVIOUS
<1>2. PICK g : /\ g \in [0 .. k -> D]
               /\ g[0] = t
               /\ \A i \in 1 .. k : g[i] = step[<<i, g[i - 1]>>]
  <2>1. Recursive(t, step, k, D)
    BY <1>1 DEF Recursive
  <2> HIDE DEF step
  <2>2. \E g : Computes(g, t, step, k, D)
    BY <2>1, Recursion
  <2>3. QED
    BY <2>2 DEF Computes
<1> DEFINE f == [i \in 1 .. k |-> g[i]]
<1>3. ASSUME NEW i \in 1 .. k
      PROVE  f[i] = IF i = 1 THEN t ELSE lt[f[i - 1]]
  <2>1. f[i] = g[i] /\ g[i] = step[<<i, g[i - 1]>>] /\ i - 1 \in 0 .. k
    <3> HIDE DEF step
    <3>1. QED
      BY <1>2
  <2>2. g[i - 1] \in D
    BY <1>2, <2>1
  <2> DEFINE b == g[i - 1]
  <2>3. <<i, b>> \in (1 .. k) \X D /\ <<i, b>>[1] = i /\ <<i, b>>[2] = b
    BY <2>2
  <2> HIDE DEF b
  <2>4. step[<<i, b>>] = IF i = 1 THEN t ELSE lt[b]
    BY <2>3, Zenon
  <2>5. CASE i = 1
    BY <2>1, <2>4, <2>5 DEF b
  <2>6. CASE i # 1
    <3>1. i - 1 \in 1 .. k /\ f[i - 1] = b
      BY <2>6 DEF b
    <3>2. QED
      BY <2>1, <2>4, <2>6, <3>1 DEF b
  <2>7. QED
    BY <2>5, <2>6
<1>4. Walk(f)
  <2>1. f = [i \in 1 .. k |-> f[i]]
    OBVIOUS
  <2> HIDE DEF f
  <2>2. QED
    BY <1>3, <2>1, Zenon
<1>5. Walk(CHOOSE h : Walk(h))
  BY <1>4, Zenon
<1>6. Hull!Leftwards(t, k) = CHOOSE h : Walk(h)
  BY Zenon DEF Hull!Leftwards
<1>7. \A h : Walk(h) => WalksLeft(h, t, k, lt)
  <2> SUFFICES ASSUME NEW h, Walk(h) PROVE WalksLeft(h, t, k, lt)
    OBVIOUS
  <2>1. DOMAIN h = 1 .. k /\ \A i \in 1 .. k : h[i] = IF i = 1 THEN t ELSE lt[h[i - 1]]
    BY Zenon
  <2>2. QED
    BY <2>1 DEF WalksLeft
<1>8. QED
  BY <1>5, <1>6, <1>7, Zenon

(* An area is a square.                                                    *)
LEMMA AreaType ==
  ASSUME NEW a \in Int \X Int, NEW b \in Int \X Int, NEW c \in Int \X Int
  PROVE  Hull!Area(a, b, c) \in Nat
<1>1. \A x \in Int : x * x \in Nat
  OBVIOUS
<1>2. Hull!Cross(a, b, c) \in Int
  <2>1. {a[1], a[2], b[1], b[2], c[1], c[2]} \subseteq Int
    OBVIOUS
  <2>2. \A p, q, r, s, u, v \in Int : (p - r) * (v - s) - (q - s) * (u - r) \in Int
    OBVIOUS
  <2>3. QED
    BY <2>1, <2>2, Zenon DEF Hull!Cross
<1>3. QED
  BY <1>1, <1>2, Zenon DEF Hull!Area

(* A queue that is not empty has a first triangle: of the least areas the  *)
(* least number.                                                           *)
LEMMA FirstIsQueued ==
  ASSUME RingInv, queue # {}
  PROVE  Hull!First \in queue
<1> DEFINE areas == {area[t] : t \in queue}
<1>1. queue \in SUBSET Nat /\ \A t \in queue : area[t] \in Nat
  <2> DEFINE D == 1 .. Len(hull)
  <2>1. queue \in SUBSET D /\ area \in [D -> Nat]
    BY Zenon DEF RingInv
  <2>2. D \subseteq Nat
    OBVIOUS
  <2> HIDE DEF D
  <2>3. QED
    BY <2>1, <2>2
<1>2. areas \in SUBSET Nat /\ areas # {}
  BY <1>1
<1>3. PICK a \in areas : \A b \in areas : a <= b
  <2> HIDE DEF areas
  <2>1. QED
    BY <1>2, NatHasMin
<1> DEFINE least == {t \in queue : area[t] = a}
<1>4. least \in SUBSET Nat /\ least # {}
  BY <1>1, <1>3
<1>5. PICK t \in least : \A u \in least : t <= u
  <2> HIDE DEF least
  <2>1. QED
    BY <1>4, NatHasMin
<1>6. \A u \in queue \ {t} : Hull!Less(t, u)
  BY <1>1, <1>3, <1>5, SMTT(30) DEF Hull!Less
<1>7. QED
  BY <1>5, <1>6 DEF Hull!First

(* What one says of the ring follows from how it is linked.                *)
LEMMA RingIsARing == RingInv => Hull!RingIsSound
<1> SUFFICES ASSUME RingInv, NEW t \in queue
             PROVE  /\ {left_triangle[t], right_triangle[t]} \subseteq queue
                    /\ right_triangle[left_triangle[t]] = t
                    /\ left[t] = left_triangle[t] /\ right[t] = right_triangle[t]
                    /\ area[t] = Hull!Area(hull[left_triangle[t]], hull[t], hull[right_triangle[t]])
                    /\ Hull!ToSet(Hull!Leftwards(t, Hull!Cardinality(queue))) = queue
  BY Zenon DEF Hull!RingIsSound
<1> DEFINE n == Len(hull)
<1>1. /\ Ring(queue, n, left_triangle, right_triangle)
      /\ left[t] = left_triangle[t] /\ right[t] = right_triangle[t]
      /\ area[t] = Hull!Area(hull[left_triangle[t]], hull[t], hull[right_triangle[t]])
  <2>1. hull \in Seq(Int \X Int)
    BY Zenon DEF RingInv
  <2>2. n \in Nat
    BY <2>1
  <2>3. QED
    BY <2>2, Zenon DEF RingInv, Ring
<1>2. left_triangle[t] \in queue /\ right_triangle[t] \in queue
  BY <1>1 DEF Ring, Linked
<1>3. right_triangle[left_triangle[t]] = t
  BY <1>1, NeighboursAgree
<1>4. Cardinality(queue) \in Nat
  <2>1. n \in Nat /\ queue \in SUBSET (1 .. n)
    BY <1>1 DEF Ring
  <2> HIDE DEF n
  <2>2. IsFiniteSet(1 .. n)
    BY <2>1, FS_Interval
  <2>3. QED
    BY <2>1, <2>2, FS_Subset, FS_CardinalityType
<1>5. t \in 1 .. n /\ left_triangle \in [1 .. n -> 1 .. n]
  BY <1>1 DEF Ring
<1>6. WalksLeft(Hull!Leftwards(t, Cardinality(queue)), t, Cardinality(queue), left_triangle)
  BY <1>4, <1>5, LeftwardsWalks
<1>7. {Hull!Leftwards(t, Cardinality(queue))[i] :
         i \in DOMAIN Hull!Leftwards(t, Cardinality(queue))} = queue
  BY <1>1, <1>6, WalkMeetsAll
<1>8. Hull!ToSet(Hull!Leftwards(t, Hull!Cardinality(queue))) = queue
  BY <1>7, Zenon DEF Hull!ToSet, Hull!Cardinality, Cardinality
<1>9. QED
  BY <1>1, <1>2, <1>3, <1>8

(* The neighbours that % counts.                                           *)
LEMMA Neighbours ==
  ASSUME NEW n \in Nat, NEW i \in 1 .. n
  PROVE  /\ Hull!After(i, n) = (IF i = n THEN 1 ELSE i + 1)
         /\ Hull!Before(i, n) = (IF i = 1 THEN n ELSE i - 1)
<1>1. \A a \in Nat : a < n => a % n = a /\ (a + n) % n = a
  OBVIOUS
<1>2. n % n = 0
  OBVIOUS
<1>3. Hull!After(i, n) = (IF i = n THEN 1 ELSE i + 1)
  BY <1>1, <1>2 DEF Hull!After
<1>4. Hull!Before(i, n) = (IF i = 1 THEN n ELSE i - 1)
  <2>1. CASE i = 1
    BY <1>1, <2>1 DEF Hull!Before
  <2>2. CASE i # 1
    <3>1. i - 2 \in Nat /\ i - 2 < n /\ i + n - 2 = (i - 2) + n
      BY <2>2
    <3>2. QED
      BY <1>1, <2>2, <3>1 DEF Hull!Before
  <2>3. QED
    BY <2>1, <2>2
<1>5. QED
  BY <1>3, <1>4

(* At first every triangle is linked to those beside it.                   *)
LEMMA RingInit == Hull!Init => RingInv
<1> SUFFICES ASSUME Hull!Init PROVE RingInv
  OBVIOUS
<1> DEFINE n == Len(hull)
           D == 1 .. n
<1>1. /\ hull \in Seq(Int \X Int)
      /\ queue = DOMAIN hull
      /\ left_triangle = [i \in DOMAIN hull |-> Hull!Before(i, n)]
      /\ right_triangle = [i \in DOMAIN hull |-> Hull!After(i, n)]
      /\ left = [i \in DOMAIN hull |-> Hull!Before(i, n)]
      /\ right = [i \in DOMAIN hull |-> Hull!After(i, n)]
      /\ area = [i \in DOMAIN hull |->
                   Hull!Area(hull[Hull!Before(i, n)], hull[i], hull[Hull!After(i, n)])]
  BY HullAssumption, Zenon DEF Hull!Init
<1>2. n \in Nat /\ DOMAIN hull = D /\ \A i \in D : hull[i] \in Int \X Int
  BY <1>1
<1> HIDE DEF n
<1>3. ASSUME NEW i \in D
      PROVE  /\ Hull!Before(i, n) \in D /\ StepsLeft(i, Hull!Before(i, n), n) = 1
             /\ Hull!After(i, n) \in D /\ StepsLeft(Hull!After(i, n), i, n) = 1
  <2>1. \A b, a : b = (IF i = 1 THEN n ELSE i - 1) /\ a = (IF i = n THEN 1 ELSE i + 1)
          => /\ b \in D /\ StepsLeft(i, b, n) = 1
             /\ a \in D /\ StepsLeft(a, i, n) = 1
    BY <1>2 DEF StepsLeft
  <2>2. /\ Hull!After(i, n) = (IF i = n THEN 1 ELSE i + 1)
        /\ Hull!Before(i, n) = (IF i = 1 THEN n ELSE i - 1)
    BY <1>2, Neighbours
  <2>3. QED
    BY <2>1, <2>2
<1>4. \A t, u \in D : 1 <= StepsLeft(t, u, n)
  <2>1. \A t, u \in D : StepsLeft(t, u, n) \in 1 .. n
    BY <1>2, StepsAround
  <2>2. QED
    BY <1>2, <2>1
<1> HIDE DEF D
<1>5. {left_triangle, right_triangle, left, right} \subseteq [D -> D]
  BY <1>1, <1>2, <1>3
<1>6. \A t \in D : /\ left_triangle[t] = Hull!Before(t, n) /\ left[t] = left_triangle[t]
                   /\ right_triangle[t] = Hull!After(t, n) /\ right[t] = right_triangle[t]
                   /\ area[t] = Hull!Area(hull[left_triangle[t]], hull[t], hull[right_triangle[t]])
  BY <1>1, <1>2
<1>7. Linked(queue, n, left_triangle, right_triangle)
  <2> SUFFICES ASSUME NEW t \in D
               PROVE  /\ left_triangle[t] \in D /\ \A u \in D : StepsLeft(t, left_triangle[t], n) <= StepsLeft(t, u, n)
                      /\ right_triangle[t] \in D /\ \A u \in D : StepsLeft(right_triangle[t], t, n) <= StepsLeft(u, t, n)
    BY <1>1, <1>2, Zenon DEF Linked
  <2>1. /\ left_triangle[t] = Hull!Before(t, n)
        /\ right_triangle[t] = Hull!After(t, n)
    BY <1>6
  <2>2. QED
    BY <1>3, <1>4, <2>1
<1>8. area \in [D -> Nat]
  <2>1. \A t \in D : area[t] \in Nat
    BY <1>2, <1>3, <1>6, AreaType
  <2>2. DOMAIN area = D /\ area = [t \in DOMAIN area |-> area[t]]
    BY <1>1, <1>2
  <2>3. QED
    BY <2>1, <2>2
<1>9. queue \in SUBSET D
  BY <1>1, <1>2
<1>10. QED
  BY <1>1, <1>5, <1>6, <1>7, <1>8, <1>9, Zenon DEF RingInv, D, n

(* Deleting a triangle leaves a ring.                                      *)
LEMMA RingIsClosed == RingInv /\ Hull!DeletePoint => RingInv'
<1> SUFFICES ASSUME RingInv, Hull!DeletePoint PROVE RingInv'
  OBVIOUS
<1> DEFINE n == Len(hull)
           D == 1 .. n
           t == Hull!First
           l == left_triangle[t]
           r == right_triangle[t]
<1>1. /\ hull \in Seq(Int \X Int)
      /\ queue \in SUBSET D
      /\ {left_triangle, right_triangle, left, right} \subseteq [D -> D]
      /\ area \in [D -> Nat]
      /\ Linked(queue, n, left_triangle, right_triangle)
      /\ \A u \in queue :
           /\ left[u] = left_triangle[u] /\ right[u] = right_triangle[u]
           /\ area[u] = Hull!Area(hull[left_triangle[u]], hull[u], hull[right_triangle[u]])
  BY Zenon DEF RingInv
<1>2. /\ Hull!Cardinality(queue) > NUM_HULL_POINTS
      /\ queue' = queue \ {t}
      /\ right_triangle' = [right_triangle EXCEPT ![l] = r]
      /\ left_triangle' = [left_triangle EXCEPT ![r] = l]
      /\ left' = Hull!LeftAfter(t)
      /\ right' = Hull!RightAfter(t)
      /\ area' = Hull!AreaAfter(t)
      /\ hull' = hull
  BY Zenon DEF Hull!DeletePoint
<1>3. t \in queue
  <2>1. Cardinality(queue) > NUM_HULL_POINTS
    BY <1>2, Zenon DEF Hull!Cardinality, Cardinality
  <2>2. queue # {}
    BY <2>1, HullAssumption, FS_EmptySet
  <2> HIDE DEF t
  <2>3. QED
    BY <2>2, FirstIsQueued DEF t
<1>4. n \in Nat /\ \A i \in D : hull[i] \in Int \X Int
  BY <1>1
<1> HIDE DEF n, t
<1>5. Ring(queue, n, left_triangle, right_triangle)
  BY <1>1, <1>4 DEF Ring
<1>6. Linked(queue', n, left_triangle', right_triangle')
  BY <1>2, <1>3, <1>5, StillLinked, Zenon
<1>7. /\ left' = [left EXCEPT ![r] = left[t]]
      /\ right' = [right EXCEPT ![l] = right[t]]
  BY <1>2, Zenon DEF Hull!LeftAfter, Hull!RightAfter
<1>8. left[t] = l /\ right[t] = r /\ l \in queue /\ r \in queue /\ l \in D /\ r \in D
  BY <1>1, <1>3 DEF Linked
<1>9. area' = [u \in DOMAIN area |->
                 IF u \in {l, r} THEN Hull!Area(hull[left'[u]], hull[u], hull[right'[u]])
                 ELSE area[u]]
  <2>1. Hull!AreaAfter(t) =
          [u \in DOMAIN area |->
             IF u \in {l, r}
             THEN Hull!Area(hull[Hull!LeftAfter(t)[u]], hull[u], hull[Hull!RightAfter(t)[u]])
             ELSE area[u]]
    BY Zenon DEF Hull!AreaAfter
  <2> DEFINE left_after  == Hull!LeftAfter(t)
             right_after == Hull!RightAfter(t)
  <2>2. left_after = left' /\ right_after = right'
    BY <1>2, Zenon
  <2> HIDE DEF left_after, right_after
  <2>3. Hull!AreaAfter(t) =
          [u \in DOMAIN area |->
             IF u \in {l, r} THEN Hull!Area(hull[left_after[u]], hull[u], hull[right_after[u]])
             ELSE area[u]]
    BY <2>1, Zenon DEF left_after, right_after
  <2>4. QED
    BY <1>2, <2>2, <2>3
<1> HIDE DEF l, r, D
<1>10. {left_triangle', right_triangle', left', right'} \subseteq [D -> D]
  BY <1>1, <1>2, <1>7, <1>8
<1>11. ASSUME NEW u \in queue'
       PROVE  /\ left'[u] = left_triangle'[u] /\ right'[u] = right_triangle'[u]
              /\ area'[u] = Hull!Area(hull[left_triangle'[u]], hull[u], hull[right_triangle'[u]])
  <2>1. u \in queue /\ u \in D /\ DOMAIN area = D
    BY <1>1, <1>2
  <2>2. /\ left[u] = left_triangle[u] /\ right[u] = right_triangle[u]
        /\ area[u] = Hull!Area(hull[left_triangle[u]], hull[u], hull[right_triangle[u]])
    BY <1>1, <2>1
  <2>3. /\ left'[u] = IF u = r THEN l ELSE left[u]
        /\ right'[u] = IF u = l THEN r ELSE right[u]
        /\ left_triangle'[u] = IF u = r THEN l ELSE left_triangle[u]
        /\ right_triangle'[u] = IF u = l THEN r ELSE right_triangle[u]
    BY <1>1, <1>2, <1>7, <1>8, <2>1
  <2>4. left'[u] = left_triangle'[u] /\ right'[u] = right_triangle'[u]
    BY <2>2, <2>3
  <2>5. area'[u] = IF u \in {l, r} THEN Hull!Area(hull[left'[u]], hull[u], hull[right'[u]])
                   ELSE area[u]
    BY <1>9, <2>1, Zenon
  <2>6. CASE u \in {l, r}
    BY <2>4, <2>5, <2>6
  <2>7. CASE u \notin {l, r}
    BY <2>2, <2>3, <2>4, <2>5, <2>7
  <2>8. QED
    BY <2>4, <2>6, <2>7
<1>12. area' \in [D -> Nat]
  <2>1. ASSUME NEW u \in D
        PROVE  (IF u \in {l, r} THEN Hull!Area(hull[left'[u]], hull[u], hull[right'[u]])
                ELSE area[u]) \in Nat
    <3>1. left'[u] \in D /\ right'[u] \in D
      BY <1>10
    <3>2. Hull!Area(hull[left'[u]], hull[u], hull[right'[u]]) \in Nat
      BY <1>4, <3>1, AreaType
    <3>3. area[u] \in Nat
      BY <1>1
    <3>4. QED
      BY <3>2, <3>3
  <2>2. DOMAIN area = D
    BY <1>1
  <2>3. QED
    BY <1>9, <2>1, <2>2
<1>13. queue' \in SUBSET D
  BY <1>1, <1>2
<1>14. \A u \in queue' :
         area'[u] = Hull!Area(hull[left_triangle[u]], hull[u], hull[right_triangle[u]])'
  BY <1>2, <1>11, Zenon DEF Hull!Area, Hull!Cross
<1>15. n' = n /\ D' = D
  BY <1>2 DEF n, D
<1>16. QED
  BY <1>1, <1>2, <1>6, <1>10, <1>11, <1>12, <1>13, <1>14, <1>15, Zenon DEF RingInv, n, D, Linked, StepsLeft

(* The triangles that are left of a hull form a ring, whatever hull it was *)
(* and however many were deleted.                                          *)
THEOREM RingStaysSound == Spec => []RingIsSound
<1> DEFINE J == stage = "hull" => RingInv
<1>1. Init => J
  BY RingInit DEF Init
<1>2. J /\ [Next]_vars => J'
  <2> SUFFICES ASSUME J, [Next]_vars, stage' = "hull" PROVE RingInv'
    OBVIOUS
  <2>1. stage = "hull" /\ [Hull!Next]_(Hull!vars)
    BY DEF Next, vars, RunTracker, RunHull, RunClusterer, RunFinder, RunSplitter, hullReduction, Hull!vars
  <2>2. CASE UNCHANGED <<hull, queue, left_triangle, right_triangle, left, right, area>>
    BY <2>1, <2>2 DEF RingInv, Linked, StepsLeft, Hull!Area, Hull!Cross
  <2>3. CASE Hull!DeletePoint
    BY <2>1, <2>3, RingIsClosed
  <2>4. QED
    BY <2>1, <2>2, <2>3, Zenon DEF Hull!Next, Hull!Collect, Hull!vars
<1>3. J => RingIsSound
  BY RingIsARing DEF RingIsSound
<1>4. QED
  BY <1>1, <1>2, <1>3, PTL DEF Spec

-----------------------------------------------------------------------------
(* Which points of a hull are left.                                        *)

(* The turn in the middle of three points is the same from each of them.   *)
LEMMA TurnsAreCyclic ==
  ASSUME NEW o \in Int \X Int, NEW p \in Int \X Int, NEW q \in Int \X Int
  PROVE  /\ Hull!Cross(o, p, q) = Turn(o, p, q) /\ Turn(o, p, q) \in Int
         /\ Hull!Cross(o, p, q) = Hull!Cross(p, q, o)
<1>1. PICK a, b, c, d, e, f : /\ a = o[1] /\ b = o[2] /\ c = p[1] /\ d = p[2] /\ e = q[1] /\ f = q[2]
  OBVIOUS
<1>2. a \in Int /\ b \in Int /\ c \in Int /\ d \in Int /\ e \in Int /\ f \in Int
  BY <1>1
<1>3. /\ Hull!Cross(o, p, q) = (a - c) * (f - d) - (b - d) * (e - c)
      /\ Hull!Cross(p, q, o) = (c - e) * (b - f) - (d - f) * (a - e)
      /\ Turn(o, p, q) = (d - b) * (e - a) - (c - a) * (f - b)
  BY <1>1, Zenon DEF Hull!Cross, Turn
<1>4. (a - c) * (f - d) - (b - d) * (e - c) = (d - b) * (e - a) - (c - a) * (f - b)
  BY <1>2
<1>5. (a - c) * (f - d) - (b - d) * (e - c) = (c - e) * (b - f) - (d - f) * (a - e)
  BY <1>2
<1>6. (d - b) * (e - a) - (c - a) * (f - b) \in Int
  BY <1>2
<1>7. QED
  BY <1>3, <1>4, <1>5, <1>6, Zenon

(* Points of a hull in their order turn the same way, whichever they are.  *)
TurnsRight(s, n) ==
  \A a, b, c \in 1 .. n : a < b /\ b < c => Turn(s[a], s[b], s[c]) < 0

(* Those of a convex hull turn right.                                      *)
LEMMA ConvexTurnsRight ==
  ASSUME NEW s \in Seq(Int \X Int), Hull!IsConvex(s), NEW n, n = Len(s)
  PROVE  TurnsRight(s, n)
<1>1. n \in Nat /\ DOMAIN s = 1 .. n /\ \A i \in 1 .. n : s[i] \in Int \X Int
  OBVIOUS
<1>2. \A i, j \in 1 .. n :
        j \notin {i, Hull!After(i, n)} => Hull!Cross(s[i], s[Hull!After(i, n)], s[j]) < 0
  BY <1>1, Zenon DEF Hull!IsConvex
<1>3. \A i, j \in 1 .. n : i + 1 \in 1 .. n /\ j # i /\ j # i + 1 => Turn(s[i], s[i + 1], s[j]) < 0
  <2>1. SUFFICES ASSUME NEW i \in 1 .. n, NEW j \in 1 .. n, i + 1 \in 1 .. n, j # i, j # i + 1
                 PROVE  Turn(s[i], s[i + 1], s[j]) < 0
    BY Zenon
  <2>2. Hull!After(i, n) = i + 1
    <3>1. i # n
      BY <1>1, <2>1
    <3>2. QED
      BY <1>1, <3>1, Neighbours, Zenon
  <2>3. Hull!Cross(s[i], s[i + 1], s[j]) < 0
    BY <1>2, <2>1, <2>2, Zenon
  <2>4. Hull!Cross(s[i], s[i + 1], s[j]) = Turn(s[i], s[i + 1], s[j])
    BY <1>1, <2>1, TurnsAreCyclic, Zenon
  <2>5. QED
    BY <2>3, <2>4, Zenon
<1>4. \A i, j \in 1 .. n : i + 1 \in 1 .. n /\ j # i /\ j # i + 1 => Turn(s[j], s[i], s[i + 1]) < 0
  <2>1. SUFFICES ASSUME NEW i \in 1 .. n, NEW j \in 1 .. n, i + 1 \in 1 .. n, j # i, j # i + 1
                 PROVE  Turn(s[j], s[i], s[i + 1]) < 0
    BY Zenon
  <2>2. PICK x, y, z : x = s[i] /\ y = s[i + 1] /\ z = s[j]
    OBVIOUS
  <2>3. x \in Int \X Int /\ y \in Int \X Int /\ z \in Int \X Int /\ Turn(x, y, z) < 0
    BY <1>1, <1>3, <2>1, <2>2, Zenon
  <2>4. Turn(z, x, y) = Turn(x, y, z)
    BY <2>3, TurnsAreCyclic
  <2>5. QED
    BY <2>2, <2>3, <2>4, Zenon
<1>5. ASSUME NEW a \in 1 .. n, NEW b \in 1 .. n, a < b
      PROVE  \A c \in 1 .. n : b < c => Turn(s[a], s[b], s[c]) < 0
  <2> DEFINE Bad == {c \in 1 .. n : b < c /\ ~ (Turn(s[a], s[b], s[c]) < 0)}
  <2>1. SUFFICES ASSUME Bad # {} PROVE FALSE
    OBVIOUS
  <2>2. PICK c \in Bad : \A e \in Bad : c <= e
    <3>1. Bad \in SUBSET Nat
      OBVIOUS
    <3> HIDE DEF Bad
    <3>2. QED
      BY <2>1, <3>1, NatHasMin
  <2>3. c \in 1 .. n /\ b < c /\ ~ (Turn(s[a], s[b], s[c]) < 0)
    OBVIOUS
  <2>4. c # b + 1
    <3>1. SUFFICES ASSUME c = b + 1 PROVE FALSE
      OBVIOUS
    <3>2. b + 1 \in 1 .. n /\ a # b /\ a # b + 1
      BY <1>5, <2>3, <3>1
    <3>3. Turn(s[a], s[b], s[b + 1]) < 0
      BY <1>4, <3>2, Zenon
    <3>4. QED
      BY <2>3, <3>1, <3>3, Zenon
  <2>5. PICK d : d = c - 1
    OBVIOUS
  <2>6. d \in 1 .. n /\ b < d /\ c = d + 1 /\ a # d /\ a # d + 1
    BY <1>5, <2>3, <2>4, <2>5
  <2>7. Turn(s[a], s[b], s[d]) < 0
    <3>1. d \notin Bad
      BY <2>2, <2>3, <2>5
    <3>2. QED
      BY <2>6, <3>1, Zenon
  <2>8. Turn(s[a], s[d], s[c]) < 0
    BY <1>4, <2>3, <2>6, Zenon
  <2>9. a + 1 \in 1 .. n /\ c # a /\ c # a + 1 /\ d # a + 1
    BY <1>1, <1>5, <2>3, <2>6
  <2>10. Turn(s[a], s[a + 1], s[c]) < 0 /\ Turn(s[a], s[a + 1], s[d]) < 0
    BY <1>3, <2>3, <2>6, <2>9, Zenon
  <2>11. CASE b = a + 1
    BY <2>3, <2>10, <2>11, Zenon
  <2>12. CASE b # a + 1
    <3>1. b # a
      BY <1>5
    <3>2. Turn(s[a], s[a + 1], s[b]) < 0
      BY <1>3, <2>9, <2>12, <3>1, Zenon
    <3>3. PICK o, u, x, y, z : o = s[a] /\ u = s[a + 1] /\ x = s[b] /\ y = s[d] /\ z = s[c]
      OBVIOUS
    <3>4. /\ o \in Int \X Int /\ u \in Int \X Int /\ x \in Int \X Int
          /\ y \in Int \X Int /\ z \in Int \X Int
      BY <1>1, <2>3, <2>6, <2>9, <3>3, Zenon
    <3>5. /\ Turn(o, u, x) < 0 /\ Turn(o, u, y) < 0 /\ Turn(o, u, z) < 0
          /\ Turn(o, x, y) < 0 /\ Turn(o, y, z) < 0
      BY <2>7, <2>8, <2>10, <3>2, <3>3, Zenon
    <3>6. Turn(o, x, z) < 0
      BY <3>4, <3>5, TurnsAreTransitive, Zenon
    <3>7. QED
      BY <2>3, <3>3, <3>6, Zenon
  <2>13. QED
    BY <2>11, <2>12
<1>6. QED
  BY <1>5, Zenon DEF TurnsRight

(* The other way round: such points are convex from wherever one starts    *)
(* to go around them.                                                      *)
Rotated(r, s, m, k) ==
  \A i \in 1 .. m : r[i] = s[IF k + i <= m THEN k + i ELSE k + i - m]

(* When they turn right, they are convex.                                  *)
LEMMA RotatedIsConvex ==
  ASSUME NEW s, NEW m \in Nat, s \in [1 .. m -> Int \X Int], TurnsRight(s, m),
         NEW k \in 0 .. m, NEW r \in Seq(Int \X Int), Len(r) = m, Rotated(r, s, m, k)
  PROVE  Hull!IsConvex(r)
<1>1. DOMAIN r = 1 .. m
  OBVIOUS
<1>2. SUFFICES ASSUME NEW i \in 1 .. m, NEW j \in 1 .. m, j # i, j # Hull!After(i, m)
               PROVE  Hull!Cross(r[i], r[Hull!After(i, m)], r[j]) < 0
  BY <1>1, Zenon DEF Hull!IsConvex
<1>3. PICK h : h = Hull!After(i, m)
  OBVIOUS
<1>4. h = IF i = m THEN 1 ELSE i + 1
  BY <1>3, Neighbours, Zenon
<1>5. h \in 1 .. m /\ j # h
  BY <1>2, <1>3, <1>4
<1>6. PICK a, b, c : /\ a = IF k + i <= m THEN k + i ELSE k + i - m
                     /\ b = IF k + h <= m THEN k + h ELSE k + h - m
                     /\ c = IF k + j <= m THEN k + j ELSE k + j - m
  OBVIOUS
<1>7. r[i] = s[a] /\ r[h] = s[b] /\ r[j] = s[c]
  BY <1>5, <1>6, Zenon DEF Rotated
<1>8. a \in 1 .. m /\ b \in 1 .. m /\ c \in 1 .. m
  BY <1>5, <1>6
<1>9. (a < b /\ b < c) \/ (b < c /\ c < a) \/ (c < a /\ a < b)
  <2>1. \A x, y : x \in 1 .. m /\ y = (IF k + x <= m THEN k + x ELSE k + x - m) =>
                   y = k + x \/ y = k + x - m
    OBVIOUS
  <2>2. /\ a = k + i \/ a = k + i - m
        /\ b = k + h \/ b = k + h - m
        /\ c = k + j \/ c = k + j - m
    BY <1>2, <1>5, <1>6, <2>1, Zenon
  <2>3. h = i + 1 \/ h = i + 1 - m
    BY <1>4
  <2>4. /\ i \in 1 .. m /\ j \in 1 .. m /\ h \in 1 .. m /\ k \in Int /\ m \in Nat
        /\ a \in 1 .. m /\ b \in 1 .. m /\ c \in 1 .. m
        /\ j # i /\ j # h
    BY <1>2, <1>5, <1>8
  <2>5. c # a /\ c # b
    <3>1. ASSUME NEW x \in 1 .. m, NEW y \in 1 .. m, x # y,
                 NEW e \in Int, e = k + x \/ e = k + x - m,
                 NEW f \in Int, f = k + y \/ f = k + y - m
          PROVE  e # f
      BY <3>1
    <3>2. a \in Int /\ b \in Int /\ c \in Int
      BY <2>4
    <3>3. c # a
      <4>1. /\ j \in 1 .. m /\ i \in 1 .. m /\ j # i /\ c \in Int /\ a \in Int
            /\ c = k + j \/ c = k + j - m
            /\ a = k + i \/ a = k + i - m
        BY <2>2, <2>4, <3>2
      <4>2. QED
        BY <4>1, <3>1, Zenon
    <3>4. c # b
      BY <2>2, <2>4, <3>1, <3>2, ZenonT(40)
    <3>5. QED
      BY <3>3, <3>4
  <2>6. b = a + 1 \/ b = a + 1 - m
    BY <2>2, <2>3, <2>4, SMTT(30)
  <2>7. QED
    BY <2>4, <2>5, <2>6
<1>10. PICK x, y, z : x = s[a] /\ y = s[b] /\ z = s[c]
  OBVIOUS
<1>11. x \in Int \X Int /\ y \in Int \X Int /\ z \in Int \X Int
  BY <1>8, <1>10
<1>12. Turn(x, y, z) < 0 \/ Turn(y, z, x) < 0 \/ Turn(z, x, y) < 0
  BY <1>8, <1>9, <1>10, Zenon DEF TurnsRight
<1>13. Turn(x, y, z) = Turn(y, z, x) /\ Turn(y, z, x) = Turn(z, x, y) /\ Hull!Cross(x, y, z) = Turn(x, y, z)
  BY <1>11, TurnsAreCyclic
<1>14. Hull!Cross(x, y, z) < 0
  BY <1>12, <1>13, Zenon
<1>15. QED
  BY <1>3, <1>7, <1>10, <1>14, Zenon

(* r is s, which has m elements, without the k-th one.                     *)
Skips(r, s, m, k) == \A i \in 1 .. m - 1 : r[i] = s[IF i < k THEN i ELSE i + 1]

(* What is left of a sequence without its k-th element.                    *)
LEMMA OneRemoved ==
  ASSUME NEW P, NEW s \in Seq(P), NEW k \in 1 .. Len(s)
  PROVE  /\ Hull!RemoveAt(s, k) \in Seq(P) /\ Len(Hull!RemoveAt(s, k)) = Len(s) - 1
         /\ Skips(Hull!RemoveAt(s, k), s, Len(s), k)
<1>1. PICK n, r : n = Len(s) /\ r = Hull!RemoveAt(s, k)
  OBVIOUS
<1>2. n \in Nat /\ k \in 1 .. n
  BY <1>1
<1>3. PICK a, b : a = SubSeq(s, 1, k - 1) /\ b = SubSeq(s, k + 1, n)
  OBVIOUS
<1>4. r = a \o b
  BY <1>1, <1>3, Zenon DEF Hull!RemoveAt
<1>5. /\ a \in Seq(P) /\ Len(a) = k - 1 /\ \A i \in 1 .. k - 1 : a[i] = s[i]
      /\ b \in Seq(P) /\ Len(b) = n - k /\ \A i \in 1 .. n - k : b[i] = s[i + k]
  <2>1. a \in Seq(P) /\ Len(a) = k - 1 /\ \A i \in 1 .. k - 1 : a[i] = s[i]
    BY <1>1, <1>2, <1>3
  <2>2. b \in Seq(P) /\ Len(b) = n - k
    BY <1>1, <1>2, <1>3
  <2>3. \A i \in 1 .. n - k : b[i] = s[i + k]
    BY <1>1, <1>2, <1>3
  <2>4. QED
    BY <2>1, <2>2, <2>3
<1>6. r \in Seq(P) /\ Len(r) = n - 1
  <2>1. a \in Seq(P) /\ b \in Seq(P) /\ Len(a) = k - 1 /\ Len(b) = n - k
    BY <1>5
  <2>2. r \in Seq(P) /\ Len(r) = Len(a) + Len(b)
    BY <1>4, <2>1, ConcatProperties
  <2>3. QED
    BY <1>2, <2>1, <2>2
<1>7. ASSUME NEW i \in 1 .. n - 1 PROVE r[i] = s[IF i < k THEN i ELSE i + 1]
  <2>1. CASE i < k
    <3>1. r[i] = a[i]
      BY <1>2, <1>4, <1>5, <2>1
    <3>2. QED
      BY <1>2, <1>5, <2>1, <3>1
  <2>2. CASE ~ (i < k)
    <3>1. PICK j : j = i - (k - 1)
      OBVIOUS
    <3>2. j \in 1 .. n - k /\ j + k = i + 1
      BY <1>2, <2>2, <3>1
    <3>3. r[i] = b[j]
      <4>1. a \in Seq(P) /\ b \in Seq(P) /\ Len(a) = k - 1 /\ Len(b) = n - k
        BY <1>5
      <4>2. i \in 1 .. Len(a) + Len(b) /\ i > Len(a) /\ j = i - Len(a)
        BY <1>2, <2>2, <3>1, <4>1
      <4>3. QED
        BY <1>4, <4>1, <4>2
    <3>4. b[j] = s[i + 1]
      BY <1>5, <3>2
    <3>5. QED
      BY <2>2, <3>3, <3>4
  <2>3. QED
    BY <2>1, <2>2
<1>8. QED
  BY <1>1, <1>6, <1>7, Zenon DEF Skips

(* The point that is removed is the first of those that span least.        *)
LEMMA SmallestIsFirst ==
  ASSUME NEW s \in Seq(Int \X Int), s # <<>>, NEW n, n = Len(s),
         NEW k, k = Hull!Smallest(s)
  PROVE  /\ k \in 1 .. n
         /\ \A j \in 1 .. n : Hull!SpannedArea(s, j) \in Nat
         /\ \A j \in 1 .. n : Hull!SpannedArea(s, k) <= Hull!SpannedArea(s, j)
         /\ \A j \in 1 .. n : j < k => Hull!SpannedArea(s, k) < Hull!SpannedArea(s, j)
<1>1. n \in Nat /\ n # 0 /\ DOMAIN s = 1 .. n /\ \A i \in 1 .. n : s[i] \in Int \X Int
  OBVIOUS
<1> DEFINE A(j)  == Hull!SpannedArea(s, j)
           least == {i \in 1 .. n : \A j \in 1 .. n : A(i) <= A(j)}
           areas == {A(j) : j \in 1 .. n}
<1>2. \A j \in 1 .. n : A(j) \in Nat
  <2>1. SUFFICES ASSUME NEW j \in 1 .. n PROVE A(j) \in Nat
    BY Zenon
  <2>2. PICK b, c : b = Hull!Before(j, n) /\ c = Hull!After(j, n)
    OBVIOUS
  <2>3. c = (IF j = n THEN 1 ELSE j + 1) /\ b = (IF j = 1 THEN n ELSE j - 1)
    BY <1>1, <2>2, Neighbours, Zenon
  <2>4. b \in 1 .. n /\ c \in 1 .. n
    BY <1>1, <2>3
  <2>5. A(j) = Hull!Area(s[b], s[j], s[c])
    BY <2>2, Zenon DEF Hull!SpannedArea
  <2>6. s[b] \in Int \X Int /\ s[j] \in Int \X Int /\ s[c] \in Int \X Int
    BY <1>1, <2>4
  <2>7. QED
    BY <2>5, <2>6, AreaType, Zenon
<1>3. k = Hull!Min(least)
  BY <1>1, Zenon DEF Hull!Smallest
<1>4. Hull!Min(least) = Min(least)
  BY Zenon DEF Hull!Min, Min
<1> HIDE DEF A
<1>5. least # {}
  <2>1. areas \in SUBSET Nat /\ areas # {}
    BY <1>1, <1>2
  <2>2. PICK a \in areas : \A b \in areas : a <= b
    <3> HIDE DEF areas
    <3>1. QED
      BY <2>1, NatHasMin
  <2>3. PICK i \in 1 .. n : a = A(i)
    OBVIOUS
  <2>4. \A j \in 1 .. n : A(i) <= A(j)
    BY <2>2, <2>3
  <2>5. QED
    BY <2>4
<1>6. least \in SUBSET Nat
  OBVIOUS
<1>7. k \in least /\ \A i \in least : k <= i
  <2> HIDE DEF least
  <2>1. QED
    BY <1>3, <1>4, <1>5, <1>6, MinIsLeast
<1>8. \A j \in 1 .. n : A(k) <= A(j)
  BY <1>7
<1>9. ASSUME NEW j \in 1 .. n, j < k PROVE A(k) < A(j)
  <2>1. j \notin least
    <3>1. k \in 1 .. n
      BY <1>7
    <3> HIDE DEF least
    <3>2. SUFFICES ASSUME j \in least PROVE FALSE
      OBVIOUS
    <3>3. k <= j
      BY <1>7, <3>2, Zenon
    <3>4. QED
      BY <1>1, <1>9, <3>1, <3>3
  <2>2. PICK i \in 1 .. n : ~ (A(j) <= A(i))
    BY <2>1
  <2>3. A(k) <= A(i) /\ A(k) \in Nat /\ A(i) \in Nat /\ A(j) \in Nat
    BY <1>2, <1>7
  <2>4. QED
    BY <2>2, <2>3
<1>10. k \in 1 .. n
  BY <1>7
<1>11. QED
  BY <1>2, <1>8, <1>9, <1>10 DEF A

(* What the comment describes leaves of h: n points of it.                 *)
IsShrink(f, h) ==
  f = [n \in Nat |-> IF n >= Len(h) THEN h
                     ELSE Hull!RemoveAt(f[n + 1], Hull!Smallest(f[n + 1]))]

Shrink(h) == CHOOSE f : IsShrink(f, h)

(* There is such a function: it begins with h and removes a point at each  *)
(* step.                                                                   *)
LEMMA ShrinkComputes ==
  ASSUME NEW h \in Seq(Int \X Int)
  PROVE  IsShrink(Shrink(h), h)
<1> DEFINE N    == Len(h)
           T    == Seq(Int \X Int)
           R(s) == Hull!RemoveAt(s, Hull!Smallest(s))
           step == [e \in (1 .. N) \X T |-> IF e[2] = <<>> THEN <<>> ELSE R(e[2])]
<1>1. N \in Nat /\ h \in T /\ <<>> \in T
  OBVIOUS
<1>2. ASSUME NEW s \in T, s # <<>> PROVE R(s) \in T /\ Len(R(s)) = Len(s) - 1
  <2>1. PICK k : k = Hull!Smallest(s)
    OBVIOUS
  <2>2. k \in 1 .. Len(s)
    BY <1>2, <2>1, SmallestIsFirst
  <2>3. PICK r : r = Hull!RemoveAt(s, k)
    OBVIOUS
  <2>4. r \in T /\ Len(r) = Len(s) - 1
    BY <2>2, <2>3, OneRemoved
  <2>5. QED
    BY <2>1, <2>3, <2>4, Zenon
<1> HIDE DEF R, T
<1>3. step \in [(1 .. N) \X T -> T]
  <2>1. \A e \in (1 .. N) \X T : (IF e[2] = <<>> THEN <<>> ELSE R(e[2])) \in T
    <3>1. \A e \in (1 .. N) \X T : e[2] \in T
      OBVIOUS
    <3>2. QED
      BY <1>1, <1>2, <3>1
  <2>2. QED
    BY <2>1, Zenon
<1>4. PICK g : /\ g \in [0 .. N -> T] /\ g[0] = h
               /\ \A i \in 1 .. N : g[i] = step[<<i, g[i - 1]>>]
  <2>1. Recursive(h, step, N, T)
    BY <1>1, <1>3 DEF Recursive
  <2> HIDE DEF step
  <2>2. \E g : Computes(g, h, step, N, T)
    BY <2>1, Recursion
  <2>3. QED
    BY <2>2 DEF Computes
<1>5. ASSUME NEW i \in 1 .. N
      PROVE  g[i] = IF g[i - 1] = <<>> THEN <<>> ELSE R(g[i - 1])
  <2>1. PICK s : s = g[i - 1]
    OBVIOUS
  <2>2. s \in T
    <3>1. i - 1 \in 0 .. N
      BY <1>1
    <3>2. QED
      BY <1>4, <2>1, <3>1
  <2>3. g[i] = step[<<i, s>>]
    BY <1>4, <2>1
  <2>4. <<i, s>> \in (1 .. N) \X T /\ <<i, s>>[2] = s
    BY <2>2
  <2>5. step[<<i, s>>] = IF s = <<>> THEN <<>> ELSE R(s)
    BY <2>4, Zenon
  <2> HIDE DEF step
  <2>6. QED
    BY <2>1, <2>3, <2>5, Zenon
<1> HIDE DEF step
<1> DEFINE Bad == {i \in 0 .. N : Len(g[i]) # N - i}
<1>6. Bad = {}
  <2>1. SUFFICES ASSUME Bad # {} PROVE FALSE
    OBVIOUS
  <2>2. PICK m \in Bad : \A i \in Bad : m <= i
    <3>1. Bad \in SUBSET Nat
      OBVIOUS
    <3> HIDE DEF Bad
    <3>2. QED
      BY <2>1, <3>1, NatHasMin
  <2>3. m \in 0 .. N /\ Len(g[m]) # N - m
    OBVIOUS
  <2>4. m # 0
    BY <1>1, <1>4, <2>3
  <2>5. m \in 1 .. N /\ m - 1 \in 0 .. N
    BY <1>1, <2>3, <2>4
  <2>6. Len(g[m - 1]) = N - (m - 1)
    <3>1. m - 1 \notin Bad
      BY <1>1, <2>2, <2>3
    <3>2. QED
      BY <2>5, <3>1
  <2>7. PICK s : s = g[m - 1]
    OBVIOUS
  <2>8. s \in T /\ Len(s) = N - m + 1 /\ s # <<>>
    <3>1. s \in T
      BY <1>4, <2>5, <2>7
    <3>2. Len(s) = N - m + 1
      BY <1>1, <2>5, <2>6, <2>7
    <3>3. Len(<<>>) = 0
      OBVIOUS
    <3>4. s # <<>>
      BY <1>1, <2>5, <3>2, <3>3
    <3>5. QED
      BY <3>1, <3>2, <3>4
  <2>9. g[m] = R(s)
    BY <1>5, <2>5, <2>7, <2>8, Zenon
  <2>10. Len(R(s)) = Len(s) - 1
    BY <1>2, <2>8, Zenon
  <2>11. QED
    BY <1>1, <2>3, <2>5, <2>8, <2>9, <2>10
<1>7. \A i \in 0 .. N : g[i] \in T /\ Len(g[i]) = N - i
  <2>1. \A i \in 0 .. N : i \notin Bad
    BY <1>6, Zenon
  <2>2. QED
    BY <1>4, <2>1
<1> HIDE DEF Bad
<1> DEFINE f == [n \in Nat |-> IF n >= N THEN h ELSE g[N - n]]
<1>8. ASSUME NEW n \in Nat
      PROVE  f[n] = IF n >= N THEN h ELSE R(f[n + 1])
  <2>1. CASE n >= N
    BY <2>1
  <2>2. CASE ~ (n >= N)
    <3>1. f[n] = g[N - n] /\ N - n \in 1 .. N
      BY <1>1, <2>2
    <3>2. f[n + 1] = g[(N - n) - 1]
      <4>1. CASE n + 1 >= N
        <5>1. n + 1 = N /\ (N - n) - 1 = 0
          BY <1>1, <2>2, <4>1
        <5>2. f[n + 1] = h
          BY <4>1
        <5>3. QED
          BY <1>4, <5>1, <5>2
      <4>2. CASE ~ (n + 1 >= N)
        <5>1. f[n + 1] = g[N - (n + 1)]
          BY <4>2
        <5>2. N - (n + 1) = (N - n) - 1
          BY <1>1
        <5>3. QED
          BY <5>1, <5>2
      <4>3. QED
        BY <4>1, <4>2
    <3> HIDE DEF f
    <3>3. g[(N - n) - 1] # <<>>
      <4>1. (N - n) - 1 \in 0 .. N
        BY <1>1, <2>2
      <4>2. Len(g[(N - n) - 1]) = N - ((N - n) - 1)
        BY <1>7, <4>1, Zenon
      <4>3. Len(<<>>) = 0 /\ N - ((N - n) - 1) # 0
        BY <1>1
      <4>4. QED
        BY <4>2, <4>3
    <3>4. g[N - n] = R(g[(N - n) - 1])
      BY <1>5, <3>1, <3>3, Zenon
    <3>5. QED
      BY <2>2, <3>1, <3>2, <3>4, Zenon
  <2>3. QED
    BY <2>1, <2>2
<1>9. f = [n \in Nat |-> f[n]]
  OBVIOUS
<1> HIDE DEF f
<1>10. f = [n \in Nat |-> IF n >= N THEN h ELSE R(f[n + 1])]
  BY <1>8, <1>9, Zenon
<1>11. IsShrink(f, h)
  BY <1>10, Zenon DEF IsShrink, R
<1>12. QED
  BY <1>11, Zenon DEF Shrink

(* The points of h that e stands for.                                      *)
PointsOf(h, e, m) == [j \in 1 .. m |-> h[e[j]]]

(* The triangle that is deleted is that of the point the reference removes.*)
LEMMA FirstIsSmallest ==
  ASSUME RingInv, NEW e, NEW m, Ascending(e, m, queue), m # 0,
         NEW s, s = PointsOf(hull, e, m)
  PROVE  /\ s \in Seq(Int \X Int) /\ Len(s) = m
         /\ Hull!Smallest(s) \in 1 .. m
         /\ Hull!First = e[Hull!Smallest(s)]
<1>1. PICK n : n = Len(hull)
  OBVIOUS
<1>2. /\ hull \in Seq(Int \X Int)
      /\ queue \in SUBSET (1 .. n)
      /\ {left_triangle, right_triangle, left, right} \subseteq [1 .. n -> 1 .. n]
      /\ area \in [1 .. n -> Nat]
      /\ Linked(queue, n, left_triangle, right_triangle)
      /\ \A u \in queue :
           area[u] = Hull!Area(hull[left_triangle[u]], hull[u], hull[right_triangle[u]])
  BY <1>1, Zenon DEF RingInv
<1>3. /\ m \in Nat /\ e \in [1 .. m -> queue]
      /\ \A i, j \in 1 .. m : i < j => e[i] < e[j]
      /\ \A t \in queue : \E j \in 1 .. m : e[j] = t
  BY Zenon DEF Ascending
<1>4. n \in Nat /\ \A i \in 1 .. n : hull[i] \in Int \X Int
  BY <1>1, <1>2
<1>5. Ring(queue, n, left_triangle, right_triangle)
  BY <1>2, <1>4, Zenon DEF Ring
<1>6. /\ s \in [1 .. m -> Int \X Int]
      /\ \A j \in 1 .. m : s[j] = hull[e[j]]
  BY <1>2, <1>3, <1>4 DEF PointsOf
<1>7. s \in Seq(Int \X Int) /\ Len(s) = m /\ s # <<>>
  BY <1>3, <1>6
<1>8. ASSUME NEW j \in 1 .. m PROVE Hull!SpannedArea(s, j) = area[e[j]]
  <2>1. PICK b, a : b = (IF j = 1 THEN m ELSE j - 1) /\ a = (IF j = m THEN 1 ELSE j + 1)
    OBVIOUS
  <2>2. Hull!Before(j, m) = b /\ Hull!After(j, m) = a
    BY <1>3, <2>1, Neighbours
  <2>3. a \in 1 .. m /\ b \in 1 .. m /\ e[j] \in queue
    BY <1>3, <2>1
  <2>4. left_triangle[e[j]] = e[b] /\ right_triangle[e[j]] = e[a]
    BY <1>5, <2>1, NeighboursInOrder
  <2>5. Hull!SpannedArea(s, j) = Hull!Area(hull[e[b]], hull[e[j]], hull[e[a]])
    BY <1>6, <1>7, <2>2, <2>3, Zenon DEF Hull!SpannedArea
  <2>6. QED
    BY <1>2, <2>3, <2>4, <2>5, Zenon
<1>9. PICK k : k = Hull!Smallest(s)
  OBVIOUS
<1>10. /\ k \in 1 .. m
       /\ \A j \in 1 .. m : Hull!SpannedArea(s, k) <= Hull!SpannedArea(s, j)
       /\ \A j \in 1 .. m : j < k => Hull!SpannedArea(s, k) < Hull!SpannedArea(s, j)
  BY <1>7, <1>9, SmallestIsFirst
<1>11. PICK t : t = e[k]
  OBVIOUS
<1>12. t \in queue
  BY <1>3, <1>10, <1>11
<1>13. ASSUME NEW u \in queue \ {t} PROVE Hull!Less(t, u) /\ ~ Hull!Less(u, t)
  <2>1. PICK j \in 1 .. m : u = e[j]
    BY <1>3
  <2>2. area[t] <= area[u] /\ (j < k => area[t] < area[u])
    BY <1>8, <1>10, <1>11, <2>1, Zenon
  <2>3. j # k /\ (k < j => t < u)
    BY <1>3, <1>10, <1>11, <1>13, <2>1
  <2>4. area[t] \in Nat /\ area[u] \in Nat /\ t \in Nat /\ u \in Nat
    BY <1>2, <1>12
  <2>5. area[t] < area[u] \/ (area[t] = area[u] /\ t < u)
    BY <1>10, <2>2, <2>3, <2>4
  <2>6. ~ (area[u] < area[t] \/ (area[u] = area[t] /\ u < t))
    BY <2>4, <2>5
  <2>7. QED
    BY <2>5, <2>6, Zenon DEF Hull!Less
<1>14. Hull!First = t
  <2>1. PICK f : f = Hull!First
    OBVIOUS
  <2>2. f \in queue /\ \A u \in queue \ {f} : Hull!Less(f, u)
    BY <1>12, <1>13, <2>1, Zenon DEF Hull!First
  <2>3. QED
    BY <1>12, <1>13, <2>1, <2>2
<1>15. QED
  BY <1>7, <1>9, <1>10, <1>11, <1>14, Zenon

(* The m numbers of e but for the k-th.                                    *)
Without(e, m, k) == [j \in 1 .. m - 1 |-> e[IF j < k THEN j ELSE j + 1]]

(* Removing the k-th point is to do without the k-th number.               *)
LEMMA PointsRemoved ==
  ASSUME NEW h \in Seq(Int \X Int), NEW Q \in SUBSET (1 .. Len(h)), NEW e, NEW m,
         Ascending(e, m, Q), NEW k \in 1 .. m
  PROVE  /\ Ascending(Without(e, m, k), m - 1, Q \ {e[k]})
         /\ Hull!RemoveAt(PointsOf(h, e, m), k) = PointsOf(h, Without(e, m, k), m - 1)
<1> DEFINE d == Without(e, m, k)
<1>1. /\ m \in Nat /\ e \in [1 .. m -> Q]
      /\ \A i, j \in 1 .. m : i < j => e[i] < e[j]
      /\ \A t \in Q : \E j \in 1 .. m : e[j] = t
  BY Zenon DEF Ascending
<1>2. /\ \A i \in 1 .. Len(h) : h[i] \in Int \X Int
      /\ d = [j \in 1 .. m - 1 |-> e[IF j < k THEN j ELSE j + 1]]
  BY DEF Without
<1> HIDE DEF d
<1>3. m - 1 \in Nat
  BY <1>1
<1>4. ASSUME NEW i \in 1 .. m, NEW j \in 1 .. m, i # j PROVE e[i] # e[j]
  <2>1. e[i] < e[j] \/ e[j] < e[i]
    BY <1>1, <1>4
  <2>2. e[i] \in Nat /\ e[j] \in Nat
    <3>1. Q \in SUBSET Nat
      OBVIOUS
    <3>2. e[i] \in Q /\ e[j] \in Q
      BY <1>1
    <3>3. QED
      BY <3>1, <3>2
  <2>3. QED
    BY <2>1, <2>2
<1>5. \A j \in 1 .. m - 1 :
        (IF j < k THEN j ELSE j + 1) \in 1 .. m /\ (IF j < k THEN j ELSE j + 1) # k
  BY <1>1
<1>6. d \in [1 .. m - 1 -> Q \ {e[k]}]
  BY <1>1, <1>2, <1>4, <1>5
<1>7. ASSUME NEW i \in 1 .. m - 1, NEW j \in 1 .. m - 1, i < j PROVE d[i] < d[j]
  <2>1. PICK x, y : x = (IF i < k THEN i ELSE i + 1) /\ y = (IF j < k THEN j ELSE j + 1)
    OBVIOUS
  <2>2. x \in 1 .. m /\ y \in 1 .. m /\ x < y
    BY <1>1, <1>7, <2>1
  <2>3. d[i] = e[x] /\ d[j] = e[y]
    BY <1>2, <2>1
  <2>4. QED
    BY <1>1, <2>2, <2>3, Zenon
<1>8. ASSUME NEW t \in Q \ {e[k]} PROVE \E j \in 1 .. m - 1 : d[j] = t
  <2>1. PICK i \in 1 .. m : e[i] = t
    BY <1>1
  <2>2. i # k
    BY <1>8, <2>1
  <2>3. CASE i < k
    <3>1. i \in 1 .. m - 1 /\ d[i] = e[i]
      BY <1>1, <1>2, <2>3
    <3>2. QED
      BY <2>1, <3>1
  <2>4. CASE k < i
    <3>1. i - 1 \in 1 .. m - 1 /\ ~ (i - 1 < k) /\ (i - 1) + 1 = i
      BY <1>1, <2>4
    <3>2. d[i - 1] = e[i]
      BY <1>2, <3>1
    <3>3. QED
      BY <2>1, <3>1, <3>2
  <2>5. QED
    BY <2>2, <2>3, <2>4
<1>9. Ascending(d, m - 1, Q \ {e[k]})
  BY <1>3, <1>6, <1>7, <1>8, Zenon DEF Ascending
<1>10. PICK s, r, p : /\ s = PointsOf(h, e, m) /\ r = Hull!RemoveAt(s, k)
                      /\ p = PointsOf(h, d, m - 1)
  OBVIOUS
<1>11. s \in [1 .. m -> Int \X Int] /\ \A j \in 1 .. m : s[j] = h[e[j]]
  BY <1>1, <1>2, <1>10 DEF PointsOf
<1>12. s \in Seq(Int \X Int) /\ Len(s) = m
  BY <1>1, <1>11
<1>13. r \in Seq(Int \X Int) /\ Len(r) = m - 1 /\ Skips(r, s, m, k)
  <2>1. k \in 1 .. Len(s)
    BY <1>12
  <2>2. QED
    BY <1>10, <1>12, <2>1, OneRemoved
<1>14. DOMAIN p = 1 .. m - 1 /\ \A i \in 1 .. m - 1 : p[i] = h[d[i]]
  BY <1>10 DEF PointsOf
<1>15. ASSUME NEW i \in 1 .. m - 1 PROVE r[i] = p[i]
  <2>1. PICK j : j = IF i < k THEN i ELSE i + 1
    OBVIOUS
  <2>2. j \in 1 .. m
    BY <1>5, <2>1
  <2>3. r[i] = s[j] /\ d[i] = e[j]
    BY <1>2, <1>13, <1>15, <2>1 DEF Skips
  <2>4. QED
    <3>1. s[j] = h[e[j]]
      BY <1>11, <2>2, Zenon
    <3>2. p[i] = h[d[i]]
      BY <1>14, <1>15, Zenon
    <3>3. QED
      BY <2>3, <3>1, <3>2, Zenon
<1>16. r = p
  <2>1. r = [i \in 1 .. m - 1 |-> r[i]]
    BY <1>3, <1>13
  <2>2. p = [i \in 1 .. m - 1 |-> p[i]]
    BY <1>14, <1>10 DEF PointsOf
  <2>3. QED
    BY <1>15, <2>1, <2>2
<1>17. QED
  BY <1>9, <1>10, <1>16, Zenon DEF d

(* The triangles of Q are those of the m points that the reference leaves  *)
(* of h, on the way to as many as there should be.                         *)
IsLeft(h, Q, e, m) ==
  /\ Ascending(e, m, Q)
  /\ m = Len(h) \/ (NUM_HULL_POINTS <= m /\ m < Len(h))
  /\ Shrink(h)[m] = PointsOf(h, e, m)

GreedyInv ==
  /\ RingInv
  /\ hull \in Hulls
  /\ \E e, m : IsLeft(hull, queue, e, m)
  /\ Hull!ReductionIsGreedy

(* At first all points are left.                                           *)
LEMMA GreedyInit == Hull!Init => GreedyInv
<1> SUFFICES ASSUME Hull!Init PROVE GreedyInv
  OBVIOUS
<1>1. RingInv /\ hull \in Hulls /\ queue = DOMAIN hull /\ reduced = <<>>
  BY RingInit, Zenon DEF Hull!Init
<1>2. PICK n, e : n = Len(hull) /\ e = [i \in 1 .. n |-> i]
  OBVIOUS
<1>3. hull \in Seq(Int \X Int) /\ n \in Nat /\ queue = 1 .. n
  BY <1>1, <1>2, HullAssumption
<1>4. Ascending(e, n, queue)
  BY <1>2, <1>3 DEF Ascending
<1>5. PointsOf(hull, e, n) = hull
  BY <1>2, <1>3 DEF PointsOf
<1>6. Shrink(hull)[n] = hull
  <2>1. IsShrink(Shrink(hull), hull)
    BY <1>3, ShrinkComputes, Zenon
  <2> DEFINE f == Shrink(hull)
  <2>2. f = [i \in Nat |-> IF i >= n THEN hull
                           ELSE Hull!RemoveAt(f[i + 1], Hull!Smallest(f[i + 1]))]
    BY <1>2, <2>1, Zenon DEF IsShrink
  <2>3. n >= n
    BY <1>3
  <2> HIDE DEF f
  <2>4. f[n] = hull
    BY <1>3, <2>2, <2>3, Zenon
  <2>5. QED
    BY <2>4 DEF f
<1>7. IsLeft(hull, queue, e, n)
  BY <1>2, <1>4, <1>5, <1>6, Zenon DEF IsLeft
<1>8. Hull!ReductionIsGreedy
  BY <1>1, Zenon DEF Hull!ReductionIsGreedy
<1>9. QED
  BY <1>1, <1>7, <1>8, Zenon DEF GreedyInv

(* The reference removes the point that is deleted.                        *)
LEMMA GreedyDeletes ==
  ASSUME GreedyInv, Hull!DeletePoint
  PROVE  GreedyInv'
<1>1. PICK e, m : IsLeft(hull, queue, e, m)
  BY Zenon DEF GreedyInv
<1>2. /\ Ascending(e, m, queue)
      /\ m = Len(hull) \/ (NUM_HULL_POINTS <= m /\ m < Len(hull))
      /\ Shrink(hull)[m] = PointsOf(hull, e, m)
  BY <1>1, Zenon DEF IsLeft
<1>3. RingInv /\ hull \in Hulls
  BY Zenon DEF GreedyInv
<1>4. /\ reduced = <<>> /\ Hull!Cardinality(queue) > NUM_HULL_POINTS
      /\ queue' = queue \ {Hull!First} /\ hull' = hull /\ reduced' = reduced
  BY Zenon DEF Hull!DeletePoint
<1>5. RingInv'
  BY <1>3, RingIsClosed
<1>6. PICK n : n = Len(hull)
  OBVIOUS
<1>7. hull \in Seq(Int \X Int) /\ queue \in SUBSET (1 .. n) /\ n \in Nat
  <2>1. hull \in Seq(Int \X Int) /\ queue \in SUBSET (1 .. n)
    BY <1>3, <1>6, Zenon DEF RingInv
  <2>2. QED
    BY <1>6, <2>1
<1>8. m \in Nat /\ NUM_HULL_POINTS \in Nat /\ m > NUM_HULL_POINTS
  <2>1. queue \in SUBSET Nat
    BY <1>7
  <2>2. Cardinality(queue) = m
    BY <1>2, <2>1, AscendingCounts, Zenon
  <2>3. Cardinality(queue) > NUM_HULL_POINTS
    BY <1>4, Zenon DEF Hull!Cardinality, Cardinality
  <2>4. m \in Nat
    BY <1>2, Zenon DEF Ascending
  <2>5. QED
    BY <2>2, <2>3, <2>4, HullAssumption
<1>9. PICK s, k, d : /\ s = PointsOf(hull, e, m) /\ k = Hull!Smallest(s)
                     /\ d = Without(e, m, k)
  OBVIOUS
<1>10. k \in 1 .. m /\ Hull!First = e[k]
  <2>1. m # 0
    BY <1>8
  <2>2. QED
    BY <1>2, <1>3, <1>9, <2>1, FirstIsSmallest
<1>11. /\ Ascending(d, m - 1, queue \ {e[k]})
       /\ Hull!RemoveAt(PointsOf(hull, e, m), k) = PointsOf(hull, d, m - 1)
  <2>1. queue \in SUBSET (1 .. Len(hull))
    BY <1>6, <1>7, Zenon
  <2>2. Ascending(e, m, queue) /\ hull \in Seq(Int \X Int) /\ k \in 1 .. m
    BY <1>2, <1>7, <1>10, Zenon
  <2>3. /\ Ascending(Without(e, m, k), m - 1, queue \ {e[k]})
        /\ Hull!RemoveAt(PointsOf(hull, e, m), k) = PointsOf(hull, Without(e, m, k), m - 1)
    BY <2>1, <2>2, PointsRemoved
  <2>4. QED
    BY <1>9, <2>3, Zenon
<1>12. m - 1 \in Nat /\ (m - 1) + 1 = m /\ ~ (m - 1 >= n) /\ NUM_HULL_POINTS <= m - 1 /\ m - 1 < n
  BY <1>2, <1>6, <1>7, <1>8
<1>13. Shrink(hull)[m - 1] = PointsOf(hull, d, m - 1)
  <2>1. IsShrink(Shrink(hull), hull)
    BY <1>7, ShrinkComputes, Zenon
  <2> DEFINE f == Shrink(hull)
  <2>2. f = [i \in Nat |-> IF i >= n THEN hull
                           ELSE Hull!RemoveAt(f[i + 1], Hull!Smallest(f[i + 1]))]
    BY <1>6, <2>1, Zenon DEF IsShrink
  <2>3. f[m] = s
    BY <1>2, <1>9, Zenon
  <2> HIDE DEF f
  <2>4. PICK p : p = m - 1
    OBVIOUS
  <2>5. p \in Nat /\ p + 1 = m /\ ~ (p >= n)
    BY <1>12, <2>4
  <2>6. f[p] = Hull!RemoveAt(f[p + 1], Hull!Smallest(f[p + 1]))
    BY <2>2, <2>5, Zenon
  <2>7. f[p] = Hull!RemoveAt(s, k)
    BY <1>9, <2>3, <2>5, <2>6, Zenon
  <2>8. QED
    BY <1>9, <1>11, <2>4, <2>7, Zenon DEF f
<1>14. IsLeft(hull, queue', d, m - 1)
  BY <1>4, <1>6, <1>10, <1>11, <1>12, <1>13, Zenon DEF IsLeft
<1>15. (\E x, y : IsLeft(hull, queue, x, y))'
  <2>1. \E x, y : IsLeft(hull', queue', x, y)
    BY <1>4, <1>14, Zenon
  <2>2. QED
    BY <2>1
<1>16. (Hull!ReductionIsGreedy)'
  BY <1>4, Zenon DEF Hull!ReductionIsGreedy
<1>17. QED
  BY <1>3, <1>4, <1>5, <1>15, <1>16, Zenon DEF GreedyInv

(* What is demanded of a hull r that h was reduced to.                     *)
Greedy(r, h) ==
  LET s == Shrink(h)[NUM_HULL_POINTS]
  IN  /\ Hull!ToSet(r) = Hull!ToSet(s)
      /\ Len(r) = Len(s)
      /\ Hull!IsConvex(r) \/ Hull!IsConvex(Hull!Reverse(r))

(* Going leftwards through points that turn right is going the other way   *)
(* around a convex hull, through all of them.                              *)
LEMMA LeftwardsIsConvex ==
  ASSUME NEW s, NEW m \in Nat \ {0}, s \in [1 .. m -> Int \X Int], TurnsRight(s, m),
         NEW f \in 1 .. m
  PROVE  /\ Hull!ToSet(GoneLeft(s, f, m)) = Hull!ToSet(s)
         /\ Len(GoneLeft(s, f, m)) = Len(s)
         /\ Hull!IsConvex(Hull!Reverse(GoneLeft(s, f, m)))
<1> DEFINE r == GoneLeft(s, f, m)
<1>1. \A i \in 1 .. m : Leftward(f, m, i) \in 1 .. m
  BY DEF Leftward
<1>2. r \in [1 .. m -> Int \X Int] /\ \A i \in 1 .. m : r[i] = s[Leftward(f, m, i)]
  BY <1>1 DEF GoneLeft
<1> HIDE DEF r
<1>3. r \in Seq(Int \X Int) /\ Len(r) = m /\ DOMAIN r = 1 .. m
  BY <1>2
<1>4. s \in Seq(Int \X Int) /\ Len(s) = m /\ DOMAIN s = 1 .. m
  OBVIOUS
<1>5. Hull!ToSet(r) = Hull!ToSet(s)
  <2>1. ASSUME NEW j \in 1 .. m PROVE \E i \in 1 .. m : Leftward(f, m, i) = j
    <3>1. PICK i : i = IF j <= f THEN f - j + 1 ELSE f - j + 1 + m
      OBVIOUS
    <3>2. i \in 1 .. m /\ Leftward(f, m, i) = j
      BY <3>1 DEF Leftward
    <3>3. QED
      BY <3>2
  <2>2. {r[i] : i \in 1 .. m} = {s[i] : i \in 1 .. m}
    <3>1. \A i \in 1 .. m : \E j \in 1 .. m : r[i] = s[j]
      BY <1>1, <1>2, Zenon
    <3>2. \A j \in 1 .. m : \E i \in 1 .. m : r[i] = s[j]
      BY <1>2, <2>1, Zenon
    <3>3. ASSUME NEW x \in {r[i] : i \in 1 .. m} PROVE x \in {s[i] : i \in 1 .. m}
      <4>1. PICK i \in 1 .. m : x = r[i]
        OBVIOUS
      <4>2. PICK j \in 1 .. m : r[i] = s[j]
        BY <3>1
      <4>3. QED
        BY <4>1, <4>2
    <3>4. ASSUME NEW x \in {s[i] : i \in 1 .. m} PROVE x \in {r[i] : i \in 1 .. m}
      <4>1. PICK j \in 1 .. m : x = s[j]
        OBVIOUS
      <4>2. PICK i \in 1 .. m : r[i] = s[j]
        BY <3>2
      <4>3. QED
        BY <4>1, <4>2
    <3>5. QED
      BY <3>3, <3>4
  <2>3. QED
    BY <1>3, <1>4, <2>2, Zenon DEF Hull!ToSet
<1>6. PICK v : v = Hull!Reverse(r)
  OBVIOUS
<1>7. v = [i \in 1 .. m |-> r[(m - i) + 1]]
  <2>1. v = [i \in 1 .. Len(r) |-> r[(Len(r) - i) + 1]]
    BY <1>6, Zenon DEF Hull!Reverse
  <2>2. QED
    BY <1>3, <2>1
<1>8. v \in Seq(Int \X Int) /\ Len(v) = m
  <2>1. \A i \in 1 .. m : (m - i) + 1 \in 1 .. m
    OBVIOUS
  <2>2. v \in [1 .. m -> Int \X Int]
    BY <1>2, <1>7, <2>1
  <2>3. QED
    BY <2>2
<1>9. ASSUME NEW i \in 1 .. m PROVE v[i] = s[IF f + i <= m THEN f + i ELSE f + i - m]
  <2>1. PICK j : j = (m - i) + 1
    OBVIOUS
  <2>2. j \in 1 .. m /\ Leftward(f, m, j) = IF f + i <= m THEN f + i ELSE f + i - m
    BY <2>1 DEF Leftward
  <2>3. v[i] = r[j] /\ r[j] = s[Leftward(f, m, j)]
    BY <1>2, <1>7, <2>1, <2>2
  <2>4. QED
    BY <2>2, <2>3, Zenon
<1>10. Hull!IsConvex(v)
  <2>1. Rotated(v, s, m, f) /\ f \in 0 .. m
    BY <1>9, SMTT(30) DEF Rotated
  <2>2. QED
    BY <1>8, <2>1, RotatedIsConvex
<1>11. QED
  BY <1>3, <1>4, <1>5, <1>6, <1>10, Zenon DEF r

(* The points that are left of a convex hull turn right, like those it had.*)
LEMMA LeftOnesTurnRight ==
  ASSUME NEW h \in Seq(Int \X Int), Hull!IsConvex(h), NEW Q \in SUBSET (1 .. Len(h)),
         NEW e, NEW m, Ascending(e, m, Q)
  PROVE  TurnsRight(PointsOf(h, e, m), m)
<1>1. PICK n, s : n = Len(h) /\ s = PointsOf(h, e, m)
  OBVIOUS
<1>2. TurnsRight(h, n)
  BY <1>1, ConvexTurnsRight
<1>3. e \in [1 .. m -> Q] /\ \A i, j \in 1 .. m : i < j => e[i] < e[j]
  BY DEF Ascending
<1>4. /\ \A i \in 1 .. m : s[i] = h[e[i]]
      /\ \A i \in 1 .. m : e[i] \in 1 .. n
  BY <1>1, <1>3 DEF PointsOf
<1>5. TurnsRight(s, m)
  BY <1>2, <1>3, <1>4, Zenon DEF TurnsRight
<1>6. QED
  BY <1>1, <1>5, Zenon

(* A hull with no more points than wanted stays as it is.                  *)
LEMMA SmallStaysGreedy ==
  ASSUME NEW h \in Hulls, Len(h) <= NUM_HULL_POINTS
  PROVE  Greedy(h, h)
<1>1. h \in Seq(Int \X Int) /\ NUM_HULL_POINTS \in Nat /\ Hull!IsConvex(h)
  BY HullAssumption, ConvexAssumption
<1> DEFINE f == Shrink(h)
<1>2. f = [i \in Nat |-> IF i >= Len(h) THEN h
                         ELSE Hull!RemoveAt(f[i + 1], Hull!Smallest(f[i + 1]))]
  <2>1. IsShrink(Shrink(h), h)
    BY <1>1, ShrinkComputes, Zenon
  <2>2. QED
    BY <2>1, Zenon DEF IsShrink
<1>3. NUM_HULL_POINTS >= Len(h)
  BY <1>1
<1> HIDE DEF f
<1>4. f[NUM_HULL_POINTS] = h
  BY <1>1, <1>2, <1>3, Zenon
<1>5. QED
  BY <1>1, <1>4, Zenon DEF Greedy, f

(* What is collected are the points that the reference leaves.             *)
LEMMA CollectedIsGreedy ==
  ASSUME GreedyInv, Hull!Collect, reduced' # <<>>
  PROVE  Greedy(reduced', hull)
<1>1. PICK e, m : IsLeft(hull, queue, e, m)
  BY Zenon DEF GreedyInv
<1>2. /\ Ascending(e, m, queue)
      /\ m = Len(hull) \/ (NUM_HULL_POINTS <= m /\ m < Len(hull))
      /\ Shrink(hull)[m] = PointsOf(hull, e, m)
  BY <1>1, Zenon DEF IsLeft
<1>3. RingInv /\ hull \in Hulls
  BY Zenon DEF GreedyInv
<1>4. PICK n : n = Len(hull)
  OBVIOUS
<1>5. /\ hull \in Seq(Int \X Int) /\ n \in Nat /\ queue \in SUBSET (1 .. n)
      /\ left_triangle \in [1 .. n -> 1 .. n]
      /\ Ring(queue, n, left_triangle, right_triangle)
      /\ Hull!IsConvex(hull)
  <2>1. /\ hull \in Seq(Int \X Int) /\ queue \in SUBSET (1 .. n)
        /\ {left_triangle, right_triangle} \subseteq [1 .. n -> 1 .. n]
        /\ Linked(queue, n, left_triangle, right_triangle)
    BY <1>3, <1>4, Zenon DEF RingInv
  <2>2. n \in Nat /\ Hull!IsConvex(hull)
    BY <1>3, <1>4, <2>1, ConvexAssumption
  <2>3. QED
    BY <2>1, <2>2, Zenon DEF Ring
<1>6. m \in Nat /\ NUM_HULL_POINTS \in Nat /\ m <= NUM_HULL_POINTS
  <2>1. queue \in SUBSET Nat
    BY <1>5
  <2>2. Cardinality(queue) = m
    BY <1>2, <2>1, AscendingCounts, Zenon
  <2>3. Hull!Cardinality(queue) <= NUM_HULL_POINTS
    BY Zenon DEF Hull!Collect
  <2>4. Cardinality(queue) <= NUM_HULL_POINTS
    BY <2>3, Zenon DEF Hull!Cardinality, Cardinality
  <2>5. m \in Nat
    BY <1>2, Zenon DEF Ascending
  <2>6. QED
    BY <2>2, <2>4, <2>5, HullAssumption
<1>7. CASE Len(hull) <= NUM_HULL_POINTS
  <2>1. reduced' = hull
    BY <1>7, Zenon DEF Hull!Collect
  <2>2. QED
    BY <1>3, <1>7, <2>1, SmallStaysGreedy, Zenon
<1>8. CASE ~ (Len(hull) <= NUM_HULL_POINTS)
  <2>1. m = NUM_HULL_POINTS
    BY <1>2, <1>4, <1>5, <1>6, <1>8
  <2>2. PICK walk : walk = Hull!Leftwards(Hull!First, m)
    OBVIOUS
  <2>3. reduced' = [i \in DOMAIN walk |-> hull[walk[i]]]
    <3>1. reduced' = LET w == Hull!Leftwards(Hull!First, NUM_HULL_POINTS)
                     IN  [i \in DOMAIN w |-> hull[w[i]]]
      BY <1>8, Zenon DEF Hull!Collect
    <3>2. QED
      BY <2>1, <2>2, <3>1, Zenon
  <2>4. m # 0
    <3>1. SUFFICES ASSUME m = 0 PROVE FALSE
      OBVIOUS
    <3> DEFINE Walk(w) == w = [i \in 1 .. m |-> IF i = 1 THEN Hull!First ELSE left_triangle[w[i - 1]]]
    <3>2. Walk(<<>>)
      BY <3>1
    <3>3. walk = CHOOSE w : Walk(w)
      BY <2>2, Zenon DEF Hull!Leftwards
    <3>4. Walk(walk)
      BY <3>2, <3>3, Zenon
    <3>5. DOMAIN walk = {}
      BY <3>1, <3>4
    <3>6. reduced' = <<>>
      BY <2>3, <3>5
    <3>7. QED
      BY <3>6
  <2>5. PICK s, f : s = PointsOf(hull, e, m) /\ f = Hull!Smallest(s)
    OBVIOUS
  <2>6. s \in Seq(Int \X Int) /\ Len(s) = m /\ f \in 1 .. m /\ Hull!First = e[f]
    BY <1>2, <1>3, <2>4, <2>5, FirstIsSmallest
  <2>7. e \in [1 .. m -> queue] /\ s = [i \in 1 .. m |-> hull[e[i]]]
    BY <1>2, <2>5, Zenon DEF Ascending, PointsOf
  <2>8. WalksLeft(walk, e[f], m, left_triangle)
    <3>1. e[f] \in 1 .. n
      BY <1>5, <2>6, <2>7
    <3>2. WalksLeft(Hull!Leftwards(e[f], m), e[f], m, left_triangle)
      BY <1>5, <1>6, <3>1, LeftwardsWalks
    <3>3. QED
      BY <2>2, <2>6, <3>2, Zenon
  <2>9. GoesLeft(walk, e, f, m)
    <3>1. /\ Ring(queue, n, left_triangle, right_triangle)
          /\ Ascending(e, m, queue)
          /\ f \in 1 .. m
      BY <1>2, <1>5, <2>6, Zenon
    <3>2. QED
      BY <2>8, <3>1, WalkInOrder, Zenon
  <2>10. DOMAIN walk = 1 .. m
    BY <2>8, Zenon DEF WalksLeft
  <2>11. reduced' = GoneLeft(s, f, m)
    <3>1. \A i \in 1 .. m : Leftward(f, m, i) \in 1 .. m
      BY <1>6, <2>6 DEF Leftward
    <3>2. \A i \in 1 .. m : hull[walk[i]] = s[Leftward(f, m, i)]
      BY <2>7, <2>9, <3>1 DEF GoesLeft
    <3>3. reduced' = [i \in 1 .. m |-> hull[walk[i]]]
      BY <2>3, <2>10, Zenon
    <3>4. QED
      BY <3>2, <3>3 DEF GoneLeft
  <2>12. TurnsRight(s, m)
    <3>1. queue \in SUBSET (1 .. Len(hull))
      BY <1>4, <1>5, Zenon
    <3>2. TurnsRight(PointsOf(hull, e, m), m)
      BY <1>2, <1>5, <3>1, LeftOnesTurnRight
    <3>3. QED
      BY <2>5, <3>2, Zenon
  <2>13. s \in [1 .. m -> Int \X Int] /\ m \in Nat \ {0}
    BY <1>6, <2>4, <2>6
  <2>14. /\ Hull!ToSet(reduced') = Hull!ToSet(s) /\ Len(reduced') = Len(s)
         /\ Hull!IsConvex(Hull!Reverse(reduced'))
    BY <2>6, <2>11, <2>12, <2>13, LeftwardsIsConvex, Zenon
  <2>15. s = Shrink(hull)[NUM_HULL_POINTS]
    BY <1>2, <2>1, <2>5, Zenon
  <2>16. QED
    BY <2>14, <2>15, Zenon DEF Greedy
<1>9. QED
  BY <1>7, <1>8

(* Nothing else changes when they are.                                     *)
LEMMA GreedyCollects ==
  ASSUME GreedyInv, Hull!Collect
  PROVE  GreedyInv'
<1>1. /\ RingInv /\ hull \in Hulls /\ \E e, m : IsLeft(hull, queue, e, m)
  BY Zenon DEF GreedyInv
<1>2. UNCHANGED <<hull, queue, left_triangle, right_triangle, left, right, area>>
  BY Zenon DEF Hull!Collect
<1>3. RingInv'
  BY <1>1, <1>2 DEF RingInv, Linked, StepsLeft, Hull!Area, Hull!Cross
<1>4. (\E e, m : IsLeft(hull, queue, e, m))'
  <2>1. \E e, m : IsLeft(hull', queue', e, m)
    BY <1>1, <1>2, Zenon
  <2>2. QED
    BY <2>1
<1>5. (Hull!ReductionIsGreedy)'
  <2>1. SUFFICES ASSUME reduced' # <<>> PROVE (Greedy(reduced, hull))'
    BY Zenon DEF Hull!ReductionIsGreedy, Hull!Shrunk, Greedy, Shrink, IsShrink
  <2>2. Greedy(reduced', hull')
    BY <1>2, <2>1, CollectedIsGreedy, Zenon
  <2>3. QED
    BY <2>2
<1>6. QED
  BY <1>1, <1>2, <1>3, <1>4, <1>5, Zenon DEF GreedyInv

(* The reduced hull has the points that the comment's algorithm leaves,    *)
(* and is convex again, whatever hull it was and however small it becomes. *)
THEOREM ReductionStaysGreedy == Spec => []ReductionIsGreedy
<1> DEFINE J == stage = "hull" => GreedyInv
<1>1. Init => J
  BY GreedyInit DEF Init
<1>2. J /\ [Next]_vars => J'
  <2> SUFFICES ASSUME J, [Next]_vars, stage' = "hull" PROVE GreedyInv'
    OBVIOUS
  <2>1. stage = "hull" /\ [Hull!Next]_(Hull!vars)
    BY DEF Next, vars, RunTracker, RunHull, RunClusterer, RunFinder, RunSplitter, hullReduction, Hull!vars
  <2>2. CASE UNCHANGED Hull!vars
    <3>1. UNCHANGED <<hull, queue, left_triangle, right_triangle, left, right, area, reduced>>
      BY <2>2, Zenon DEF Hull!vars
    <3>2. RingInv'
      BY <2>1, <3>1 DEF GreedyInv, RingInv, Linked, StepsLeft, Hull!Area, Hull!Cross
    <3>3. /\ hull \in Hulls /\ Hull!ReductionIsGreedy
          /\ \E e, m : IsLeft(hull, queue, e, m)
      BY <2>1, Zenon DEF GreedyInv
    <3>4. (\E e, m : IsLeft(hull, queue, e, m))'
      <4>1. \E e, m : IsLeft(hull', queue', e, m)
        BY <3>1, <3>3, Zenon
      <4>2. QED
        BY <4>1
    <3>5. (Hull!ReductionIsGreedy)'
      BY <3>1, <3>3, Zenon DEF Hull!ReductionIsGreedy, Hull!Shrunk
    <3>6. QED
      BY <3>1, <3>2, <3>3, <3>4, <3>5, Zenon DEF GreedyInv
  <2>3. CASE Hull!DeletePoint
    BY <2>1, <2>3, GreedyDeletes
  <2>4. CASE Hull!Collect
    BY <2>1, <2>4, GreedyCollects
  <2>5. QED
    BY <2>1, <2>2, <2>3, <2>4, Zenon DEF Hull!Next
<1>3. J => ReductionIsGreedy
  BY Zenon DEF GreedyInv, ReductionIsGreedy
<1>4. QED
  BY <1>1, <1>2, <1>3, PTL DEF Spec

-----------------------------------------------------------------------------
(* The parts of an obstacle.                                               *)

(* f doubles n times.                                                      *)
Doubles(f, n) ==
  /\ f \in [0 .. n -> Nat \ {0}]
  /\ f[0] = 1
  /\ \A i \in 1 .. n : f[i] = 2 * f[i - 1]

(* Two that double agree.                                                  *)
LEMMA DoublesAgree ==
  ASSUME NEW n \in Nat, NEW m \in Nat, n <= m, NEW f, NEW g, Doubles(f, n), Doubles(g, m)
  PROVE  f[n] = g[n]
<1> DEFINE Bad == {i \in 0 .. n : f[i] # g[i]}
<1>1. SUFFICES ASSUME Bad # {} PROVE FALSE
  OBVIOUS
<1>2. PICK i \in Bad : \A j \in Bad : i <= j
  <2>1. Bad \in SUBSET Nat
    OBVIOUS
  <2> HIDE DEF Bad
  <2>2. QED
    BY <1>1, <2>1, NatHasMin
<1>3. i \in 0 .. n /\ f[i] # g[i]
  BY <1>2
<1>4. i # 0
  BY <1>3 DEF Doubles
<1>5. i \in 1 .. n /\ i \in 1 .. m /\ i - 1 \in 0 .. n /\ i - 1 \notin Bad
  BY <1>2, <1>3, <1>4
<1>6. f[i - 1] = g[i - 1]
  BY <1>5
<1>7. f[i] = 2 * f[i - 1] /\ g[i] = 2 * g[i - 1]
  BY <1>5 DEF Doubles
<1>8. QED
  BY <1>3, <1>6, <1>7

(* MostParts doubles with each further split.                              *)
LEMMA MostPartsDoubles ==
  ASSUME NEW n \in Nat
  PROVE  \E f : Doubles(f, n) /\ Splitter!MostParts(n) = f[n]
<1> DEFINE step    == [e \in (1 .. n) \X (Nat \ {0}) |-> 2 * e[2]]
           Most(f) == f = [i \in 0 .. n |-> IF i = 0 THEN 1 ELSE 2 * f[i - 1]]
<1>1. step \in [(1 .. n) \X (Nat \ {0}) -> Nat \ {0}]
  OBVIOUS
<1>2. PICK g : /\ g \in [0 .. n -> Nat \ {0}]
               /\ g[0] = 1
               /\ \A i \in 1 .. n : g[i] = step[<<i, g[i - 1]>>]
  <2>1. Recursive(1, step, n, Nat \ {0})
    BY <1>1 DEF Recursive
  <2> HIDE DEF step
  <2>2. \E g : Computes(g, 1, step, n, Nat \ {0})
    BY <2>1, Recursion
  <2>3. QED
    BY <2>2 DEF Computes
<1>3. Doubles(g, n)
  <2>1. ASSUME NEW i \in 1 .. n PROVE g[i] = 2 * g[i - 1]
    <3>1. g[i - 1] \in Nat \ {0} /\ g[i] = step[<<i, g[i - 1]>>]
      <4> HIDE DEF step
      <4>1. QED
        BY <1>2
    <3>2. QED
      BY <3>1
  <2> HIDE DEF step
  <2>2. QED
    BY <1>2, <2>1 DEF Doubles
<1>4. Most(g)
  <2>1. g = [i \in 0 .. n |-> g[i]]
    BY <1>3 DEF Doubles
  <2>2. \A i \in 0 .. n : g[i] = IF i = 0 THEN 1 ELSE 2 * g[i - 1]
    BY <1>3 DEF Doubles
  <2>3. QED
    BY <2>1, <2>2, Zenon
<1>5. Most(CHOOSE f : Most(f))
  BY <1>4, Zenon
<1>6. Splitter!MostParts(n) = (CHOOSE f : Most(f))[n]
  BY Zenon DEF Splitter!MostParts
<1>7. \A f : Most(f) => Doubles(f, n)
  <2> SUFFICES ASSUME NEW f, Most(f) PROVE Doubles(f, n)
    OBVIOUS
  <2>1. DOMAIN f = 0 .. n /\ \A i \in 0 .. n : f[i] = IF i = 0 THEN 1 ELSE 2 * f[i - 1]
    BY Zenon
  <2>2. f[0] = 1 /\ \A i \in 1 .. n : f[i] = 2 * f[i - 1]
    BY <2>1
  <2> DEFINE Bad == {i \in 0 .. n : f[i] # g[i]}
  <2>3. Bad = {}
    <3>1. SUFFICES ASSUME Bad # {} PROVE FALSE
      OBVIOUS
    <3>2. PICK i \in Bad : \A j \in Bad : i <= j
      <4>1. Bad \in SUBSET Nat
        OBVIOUS
      <4> HIDE DEF Bad
      <4>2. QED
        BY <3>1, <4>1, NatHasMin
    <3>3. i # 0 /\ i \in 0 .. n /\ f[i] # g[i]
      BY <2>2, <3>2, <1>3 DEF Doubles
    <3>4. i \in 1 .. n /\ i - 1 \in 0 .. n /\ i - 1 \notin Bad
      BY <3>2, <3>3
    <3>5. f[i] = 2 * f[i - 1] /\ g[i] = 2 * g[i - 1] /\ f[i - 1] = g[i - 1]
      BY <1>3, <2>2, <3>4 DEF Doubles
    <3>6. QED
      BY <3>3, <3>5
  <2>4. \A i \in 0 .. n : f[i] = g[i]
    BY <2>3
  <2>5. f = g
    <3>1. f = [i \in 0 .. n |-> f[i]]
      BY Zenon
    <3>2. g = [i \in 0 .. n |-> g[i]]
      BY <1>3 DEF Doubles
    <3>3. QED
      BY <2>4, <3>1, <3>2
  <2>6. QED
    BY <1>3, <2>5
<1>8. QED
  BY <1>5, <1>6, <1>7, Zenon

(* It is a power of two.                                                   *)
LEMMA PowersOfTwo ==
  /\ Splitter!MostParts(0) = 1
  /\ \A n \in Nat : /\ Splitter!MostParts(n) \in Nat \ {0}
                    /\ Splitter!MostParts(n + 1) = 2 * Splitter!MostParts(n)
<1>1. Splitter!MostParts(0) = 1
  BY MostPartsDoubles DEF Doubles
<1>2. ASSUME NEW n \in Nat
      PROVE  /\ Splitter!MostParts(n) \in Nat \ {0}
             /\ Splitter!MostParts(n + 1) = 2 * Splitter!MostParts(n)
  <2>1. PICK f : Doubles(f, n) /\ Splitter!MostParts(n) = f[n]
    BY MostPartsDoubles
  <2>2. PICK g : Doubles(g, n + 1) /\ Splitter!MostParts(n + 1) = g[n + 1]
    BY MostPartsDoubles
  <2>3. f[n] = g[n]
    BY <2>1, <2>2, DoublesAgree
  <2>4. f[n] \in Nat \ {0} /\ g[n + 1] = 2 * g[(n + 1) - 1]
    BY <2>1, <2>2 DEF Doubles
  <2>5. QED
    BY <2>1, <2>2, <2>3, <2>4
<1>3. QED
  BY <1>1, <1>2

Piece == [depth : 0 .. limit, cloud : SUBSET obstacle.cloud]

PartModel == [id : Int, cloud : SUBSET obstacle.cloud, described : SUBSET obstacle.cloud]

SplitTypes ==
  /\ obstacle \in [id : ObstacleId, cloud : ObstacleCloud]
  /\ limit \in DepthLimit
  /\ pieces \in Seq(Piece)
  /\ parts \in Seq(PartModel)

(* No point is in two pieces, in two parts, or in a piece and a part.      *)
Apart ==
  /\ \A i, j \in DOMAIN pieces : i # j => pieces[i].cloud \cap pieces[j].cloud = {}
  /\ \A j, k \in DOMAIN parts : j # k => parts[j].cloud \cap parts[k].cloud = {}
  /\ \A i \in DOMAIN pieces, k \in DOMAIN parts : pieces[i].cloud \cap parts[k].cloud = {}

(* Parts are numbered; the segmenter's hints are for the whole obstacle.   *)
Described ==
  /\ \A k \in DOMAIN parts :
       /\ parts[k].id = 1000 * (100 + obstacle.id) + k
       /\ parts[k].described = parts[k].cloud
  /\ first => /\ parts = <<>>
              /\ Len(pieces) <= 1
              /\ \A i \in DOMAIN pieces : pieces[i].cloud = obstacle.cloud

(* The points that are neither in a piece nor in a part.                   *)
Lost ==
  {x \in obstacle.cloud : /\ \A i \in DOMAIN pieces : x \notin pieces[i].cloud
                          /\ \A k \in DOMAIN parts : x \notin parts[k].cloud}

(* The parts that the first i pieces may still become.                     *)
Prospects(p) ==
  /\ p \in [0 .. Len(pieces) -> Int]
  /\ p[0] = 0
  /\ \A i \in 1 .. Len(pieces) : p[i] = p[i - 1] + Splitter!MostParts(limit - pieces[i].depth)

(* There are never too many parts, present and prospective, and each that  *)
(* will never be has cost two points.                                      *)
Counts(p) ==
  /\ p[Len(pieces)] + Len(parts) <= Splitter!MostParts(limit)
  /\ Cardinality(Lost) <= 2 * (Splitter!MostParts(limit) - Len(parts) - p[Len(pieces)])

SplitInv ==
  /\ SplitTypes
  /\ Apart
  /\ Described
  /\ \E p : Prospects(p) /\ Counts(p)

(* An obstacle has finitely many points, and a limit is a natural number.  *)
LEMMA ObstacleType ==
  ASSUME SplitTypes
  PROVE  IsFiniteSet(obstacle.cloud) /\ limit \in Nat /\ obstacle.id \in Int
BY SplitterAssumption DEF SplitTypes

(* So only finitely many points can be lost.                               *)
LEMMA LostType ==
  ASSUME SplitTypes
  PROVE  IsFiniteSet(Lost) /\ Cardinality(Lost) \in Nat
<1>1. Lost \in SUBSET obstacle.cloud
  BY DEF Lost
<1>2. QED
  BY <1>1, ObstacleType, FS_Subset, FS_CardinalityType

(* When nothing is left to split, the invariant says what the property does.*)
LEMMA PartsAreAll == SplitInv => Splitter!PartsCoverObstacle
<1> SUFFICES ASSUME SplitInv, pieces = <<>> PROVE Splitter!PartsCoverObstacle
  BY Zenon DEF Splitter!PartsCoverObstacle
<1> DEFINE kept == UNION {parts[k].cloud : k \in DOMAIN parts}
<1>1. SplitTypes /\ Apart /\ Described
  BY DEF SplitInv
<1>2. PICK p : Prospects(p) /\ Counts(p)
  BY DEF SplitInv
<1>3. p[Len(pieces)] = 0
  BY <1>2 DEF Prospects
<1>4. obstacle.cloud \ kept = Lost
  BY DEF Lost
<1>5. Len(parts) \in Nat /\ Splitter!MostParts(limit) \in Nat
  BY <1>1, ObstacleType, PowersOfTwo DEF SplitTypes
<1>6. /\ Len(parts) <= Splitter!MostParts(limit)
      /\ Cardinality(obstacle.cloud \ kept) <= 2 * (Splitter!MostParts(limit) - Len(parts))
  <2> HIDE DEF kept
  <2>1. Cardinality(Lost) \in Nat
    BY <1>1, LostType
  <2> DEFINE m == Splitter!MostParts(limit)
             l == Len(parts)
             c == Cardinality(Lost)
             q == p[Len(pieces)]
  <2>2. q + l <= m /\ c <= 2 * (m - l - q)
    BY <1>2, Zenon DEF Counts
  <2>3. m \in Nat /\ l \in Nat /\ c \in Nat /\ q = 0
    BY <1>3, <1>5, <2>1
  <2>4. Cardinality(obstacle.cloud \ kept) = c
    BY <1>4, Zenon
  <2> HIDE DEF m, l, c, q
  <2>5. l <= m /\ c <= 2 * (m - l)
    BY <2>2, <2>3
  <2>6. QED
    BY <2>4, <2>5 DEF m, l
<1>7. \A j, k \in DOMAIN parts : j # k => parts[j].cloud \cap parts[k].cloud = {}
  BY <1>1 DEF Apart
<1>8. \A j, k \in DOMAIN parts : j # k => parts[j].id # parts[k].id
  <2>1. \A k \in DOMAIN parts : parts[k].id = 1000 * (100 + obstacle.id) + k
    BY <1>1 DEF Described
  <2>2. 1000 * (100 + obstacle.id) \in Int
    BY <1>1, ObstacleType
  <2>3. \A k \in DOMAIN parts : k \in Int
    BY <1>1 DEF SplitTypes
  <2>4. QED
    BY <2>1, <2>2, <2>3
<1>9. \A k \in DOMAIN parts : parts[k].described = parts[k].cloud
  BY <1>1 DEF Described
<1>10. QED
  BY <1>6, <1>7, <1>8, <1>9, Zenon DEF Splitter!PartsCoverObstacle, Splitter!Cardinality, Cardinality

(* At first the whole obstacle is one piece.                               *)
LEMMA SplitInit == Splitter!Init => SplitInv
<1> SUFFICES ASSUME Splitter!Init PROVE SplitInv
  OBVIOUS
<1>1. /\ obstacle \in [id : ObstacleId, cloud : ObstacleCloud]
      /\ limit \in DepthLimit
      /\ pieces = <<[depth |-> 0, cloud |-> obstacle.cloud]>>
      /\ parts = <<>>
  BY DEF Splitter!Init
<1>2. limit \in Nat
  BY <1>1, SplitterAssumption
<1>3. /\ DOMAIN pieces = {1} /\ Len(pieces) = 1
      /\ pieces[1].depth = 0 /\ pieces[1].cloud = obstacle.cloud
  BY <1>1
<1>4. SplitTypes
  <2>1. [depth |-> 0, cloud |-> obstacle.cloud] \in Piece
    BY <1>2 DEF Piece
  <2>2. pieces \in Seq(Piece)
    BY <1>1, <2>1
  <2>3. QED
    BY <1>1, <2>2 DEF SplitTypes
<1>5. Apart /\ Described
  BY <1>1, <1>3 DEF Apart, Described
<1>6. Lost = {}
  BY <1>3 DEF Lost
<1> DEFINE m == Splitter!MostParts(limit)
           p == [i \in 0 .. 1 |-> IF i = 0 THEN 0 ELSE m]
<1>7. m \in Nat
  BY <1>2, PowersOfTwo
<1>8. Prospects(p)
  <2>1. limit - pieces[1].depth = limit
    BY <1>2, <1>3
  <2>2. Splitter!MostParts(limit - pieces[1].depth) = m
    BY <2>1
  <2> HIDE DEF m
  <2>3. p[0] = 0 /\ p[1] = m /\ p \in [0 .. 1 -> Nat]
    BY <1>7
  <2> HIDE DEF p
  <2>4. QED
    BY <1>3, <1>7, <2>2, <2>3 DEF Prospects
<1>9. Counts(p)
  <2>1. p[Len(pieces)] = m /\ Len(parts) = 0 /\ Cardinality(Lost) = 0
    BY <1>1, <1>3, <1>6, FS_EmptySet
  <2> HIDE DEF p
  <2>2. QED
    BY <1>7, <2>1 DEF Counts
<1>10. QED
  <2> HIDE DEF p
  <2>1. QED
    BY <1>4, <1>5, <1>8, <1>9 DEF SplitInv

(* The queue of pieces, and what is left of it without its head.           *)
LEMMA HeadAndTail ==
  ASSUME SplitTypes, pieces # <<>>, NEW n, n = Len(pieces)
  PROVE  /\ n \in Nat \ {0} /\ DOMAIN pieces = 1 .. n /\ 1 \in DOMAIN pieces
         /\ Head(pieces) = pieces[1] /\ pieces[1] \in Piece
         /\ pieces[1].depth \in 0 .. limit /\ pieces[1].cloud \in SUBSET obstacle.cloud
         /\ Tail(pieces) \in Seq(Piece) /\ Len(Tail(pieces)) = n - 1
         /\ \A i \in 1 .. n - 1 : i + 1 \in DOMAIN pieces /\ Tail(pieces)[i] = pieces[i + 1]
<1>1. pieces \in Seq(Piece)
  BY DEF SplitTypes
<1>2. /\ n \in Nat \ {0} /\ DOMAIN pieces = 1 .. n /\ 1 \in DOMAIN pieces
      /\ Head(pieces) = pieces[1] /\ pieces[1] \in Piece
      /\ Tail(pieces) \in Seq(Piece) /\ Len(Tail(pieces)) = n - 1
      /\ \A i \in 1 .. n - 1 : i + 1 \in DOMAIN pieces /\ Tail(pieces)[i] = pieces[i + 1]
  BY <1>1
<1>3. pieces[1].depth \in 0 .. limit /\ pieces[1].cloud \in SUBSET obstacle.cloud
  BY <1>2 DEF Piece
<1>4. QED
  BY <1>2, <1>3

(* The prospects without the first piece.                                  *)
LEMMA FewerProspects ==
  ASSUME SplitTypes, NEW p, Prospects(p), NEW n, n = Len(pieces), n # 0
  PROVE  /\ p[1] = Splitter!MostParts(limit - pieces[1].depth)
         /\ p[1] \in Nat \ {0}
         /\ [i \in 0 .. n - 1 |-> p[i + 1] - p[1]] \in [0 .. n - 1 -> Int]
         /\ p[1] - p[1] = 0
         /\ \A i \in 1 .. n - 1 :
              p[i + 1] - p[1] = (p[(i - 1) + 1] - p[1])
                                  + Splitter!MostParts(limit - pieces[i + 1].depth)
<1>1. /\ p \in [0 .. n -> Int] /\ p[0] = 0
      /\ \A i \in 1 .. n : p[i] = p[i - 1] + Splitter!MostParts(limit - pieces[i].depth)
  BY DEF Prospects
<1>2. n \in Nat \ {0} /\ pieces \in Seq(Piece) /\ limit \in Nat
  BY ObstacleType DEF SplitTypes
<1>3. ASSUME NEW i \in 1 .. n
      PROVE  Splitter!MostParts(limit - pieces[i].depth) \in Nat \ {0}
  <2>1. pieces[i] \in Piece
    BY <1>2
  <2>2. limit - pieces[i].depth \in Nat
    BY <1>2, <2>1 DEF Piece
  <2>3. QED
    BY <2>2, PowersOfTwo
<1>4. 1 \in 1 .. n /\ p[1] = p[1 - 1] + Splitter!MostParts(limit - pieces[1].depth)
  BY <1>1, <1>2
<1>5. p[1] = Splitter!MostParts(limit - pieces[1].depth) /\ p[1] \in Nat \ {0}
  BY <1>1, <1>3, <1>4
<1>6. \A i \in 0 .. n - 1 : p[i + 1] - p[1] \in Int
  BY <1>1, <1>2, <1>5
<1>7. ASSUME NEW i \in 1 .. n - 1
      PROVE  p[i + 1] - p[1] = (p[(i - 1) + 1] - p[1])
                                 + Splitter!MostParts(limit - pieces[i + 1].depth)
  <2>1. i + 1 \in 1 .. n /\ (i + 1) - 1 = i /\ (i - 1) + 1 = i /\ i \in 0 .. n
    BY <1>2
  <2>2. p[i + 1] = p[i] + Splitter!MostParts(limit - pieces[i + 1].depth)
    BY <1>1, <2>1
  <2> DEFINE a == p[i + 1]
             b == p[i]
             m == Splitter!MostParts(limit - pieces[i + 1].depth)
  <2>3. a \in Int /\ b \in Int /\ m \in Int
    BY <1>1, <1>3, <2>1
  <2> HIDE DEF a, b, m
  <2>4. a - p[1] = (b - p[1]) + m
    BY <1>5, <2>2, <2>3 DEF a, b, m
  <2>5. QED
    BY <2>1, <2>4 DEF a, b, m
<1>8. QED
  BY <1>5, <1>6, <1>7

(* A set has one cardinality.                                              *)
LEMMA CardinalitiesAgree == \A S : Splitter!Cardinality(S) = Cardinality(S)
BY Zenon DEF Splitter!Cardinality, Cardinality

(* A splinter costs two points at most, and its prospects.                 *)
LEMMA SplinterCounts ==
  ASSUME SplitInv, Splitter!DropSplinter, NEW n, n = Len(pieces)
  PROVE  SplitInv'
<1> DEFINE c == pieces[1].cloud
<1>1. /\ pieces # <<>>
      /\ Splitter!Cardinality(Head(pieces).cloud) < 3
      /\ pieces' = Tail(pieces)
      /\ UNCHANGED <<obstacle, limit, first, parts>>
  BY Zenon DEF Splitter!DropSplinter
<1>2. SplitTypes /\ Apart /\ Described
  BY DEF SplitInv
<1>3. PICK p : Prospects(p) /\ Counts(p)
  BY DEF SplitInv
<1>4. /\ n \in Nat \ {0} /\ DOMAIN pieces = 1 .. n /\ 1 \in DOMAIN pieces
      /\ Head(pieces) = pieces[1]
      /\ c \in SUBSET obstacle.cloud
      /\ pieces' \in Seq(Piece) /\ Len(pieces') = n - 1 /\ DOMAIN pieces' = 1 .. n - 1
      /\ \A i \in 1 .. n - 1 : i + 1 \in DOMAIN pieces /\ pieces'[i] = pieces[i + 1]
  <2>1. Tail(pieces) \in Seq(Piece) => DOMAIN Tail(pieces) = 1 .. Len(Tail(pieces))
    OBVIOUS
  <2>2. QED
    BY <1>1, <1>2, <2>1, HeadAndTail
<1>5. Cardinality(c) < 3
  <2>1. Head(pieces).cloud = c
    BY <1>4
  <2> HIDE DEF c
  <2>2. QED
    BY <1>1, <2>1, CardinalitiesAgree
<1>6. Piece' = Piece /\ PartModel' = PartModel
  BY <1>1 DEF Piece, PartModel
<1>7. SplitTypes'
  BY <1>1, <1>2, <1>4, <1>6 DEF SplitTypes
<1>8. Apart'
  BY <1>1, <1>2, <1>4, SMTT(30) DEF Apart
<1>9. Described'
  BY <1>1, <1>2, <1>4 DEF Described
<1>10. Lost' \in SUBSET (Lost \cup c)
  <2>1. ASSUME NEW x \in Lost', x \notin c PROVE x \in Lost
    <3>1. /\ x \in obstacle.cloud
          /\ \A i \in 1 .. n - 1 : x \notin pieces'[i].cloud
          /\ \A k \in DOMAIN parts : x \notin parts[k].cloud
      BY <1>1, <1>4 DEF Lost
    <3>2. ASSUME NEW i \in DOMAIN pieces, i # 1 PROVE x \notin pieces[i].cloud
      <4>1. i - 1 \in 1 .. n - 1 /\ (i - 1) + 1 = i
        BY <1>4, <3>2
      <4>2. pieces'[i - 1] = pieces[i]
        BY <1>4, <4>1
      <4>3. QED
        BY <3>1, <4>1, <4>2
    <3>3. QED
      BY <2>1, <3>1, <3>2 DEF Lost
  <2>2. QED
    BY <2>1
<1>11. Cardinality(Lost') \in Nat /\ Cardinality(Lost) \in Nat /\ Cardinality(Lost') <= Cardinality(Lost) + 2
  <2>1. IsFiniteSet(Lost) /\ Cardinality(Lost) \in Nat
    BY <1>2, LostType
  <2>2. IsFiniteSet(c) /\ Cardinality(c) \in Nat
    BY <1>2, <1>4, ObstacleType, FS_Subset, FS_CardinalityType
  <2> HIDE DEF c
  <2>3. IsFiniteSet(Lost \cap c) /\ Cardinality(Lost \cap c) \in Nat
    BY <2>1, FS_Subset, FS_CardinalityType
  <2>4. /\ IsFiniteSet(Lost \cup c)
        /\ Cardinality(Lost \cup c) = Cardinality(Lost) + Cardinality(c) - Cardinality(Lost \cap c)
    BY <2>1, <2>2, FS_Union
  <2>5. Cardinality(Lost') <= Cardinality(Lost \cup c) /\ Cardinality(Lost') \in Nat
    BY <1>10, <2>4, FS_Subset, FS_CardinalityType
  <2>6. QED
    BY <1>5, <2>1, <2>2, <2>3, <2>4, <2>5
<1>12. PICK q : q = [i \in 0 .. n - 1 |-> p[i + 1] - p[1]]
  OBVIOUS
<1>13. /\ p[1] \in Nat \ {0} /\ q \in [0 .. n - 1 -> Int] /\ p[1] - p[1] = 0
       /\ \A i \in 1 .. n - 1 :
            p[i + 1] - p[1] = (p[(i - 1) + 1] - p[1])
                                + Splitter!MostParts(limit - pieces[i + 1].depth)
  BY <1>2, <1>3, <1>4, <1>12, FewerProspects
<1>14. Prospects(q)'
  <2>1. q[0] = 0
    BY <1>4, <1>13, <1>12
  <2>2. ASSUME NEW i \in 1 .. n - 1
        PROVE  q[i] = q[i - 1] + Splitter!MostParts(limit - pieces'[i].depth)
    <3>1. i - 1 \in 0 .. n - 1 /\ i \in 0 .. n - 1 /\ pieces'[i] = pieces[i + 1]
      BY <1>4
    <3>2. q[i] = p[i + 1] - p[1] /\ q[i - 1] = p[(i - 1) + 1] - p[1]
      BY <1>12, <3>1
    <3>3. QED
      BY <1>13, <3>1, <3>2, Zenon
  <2>3. \A i \in 1 .. n - 1 : (q[i] = q[i - 1] + Splitter!MostParts(limit - pieces[i].depth))'
    BY <1>1, <2>2, Zenon DEF Splitter!MostParts
  <2>4. QED
    BY <1>4, <1>13, <2>1, <2>3 DEF Prospects
<1>15. Counts(q)'
  <2> DEFINE m == Splitter!MostParts(limit)
             l == Len(parts)
             a == Cardinality(Lost)
             b == Cardinality(Lost')
  <2>1. p[n] \in Int /\ q[n - 1] = p[n] - p[1]
    <3>1. n - 1 \in 0 .. n - 1 /\ (n - 1) + 1 = n /\ n \in 0 .. n
      BY <1>4
    <3>2. QED
      BY <1>3, <1>12, <3>1 DEF Prospects
  <2>2. m \in Nat /\ l \in Nat
    <3>1. limit \in Nat /\ parts \in Seq(PartModel)
      BY <1>2, ObstacleType DEF SplitTypes
    <3>2. Splitter!MostParts(limit) \in Nat
      BY <3>1, PowersOfTwo
    <3>3. Len(parts) \in Nat
      BY <3>1
    <3>4. QED
      BY <3>2, <3>3
  <2>3. p[n] + l <= m /\ a <= 2 * (m - l - p[n])
    BY <1>3, Zenon DEF Counts
  <2>4. m' = m /\ l' = l
    BY <1>1, Zenon DEF Splitter!MostParts
  <2> HIDE DEF m, l, a, b
  <2>5. q[n - 1] + l <= m /\ b <= 2 * (m - l - q[n - 1])
    <3>1. a \in Nat /\ b \in Nat /\ b <= a + 2
      BY <1>11 DEF a, b
    <3>2. p[1] \in Nat \ {0}
      BY <1>13
    <3> DEFINE d == p[n]
               e == q[n - 1]
               f == p[1]
    <3>3. d \in Int /\ e = d - f /\ f \in Nat \ {0} /\ d + l <= m /\ a <= 2 * (m - l - d)
      BY <2>1, <2>3, <3>2
    <3> HIDE DEF d, e, f
    <3>4. e + l <= m /\ b <= 2 * (m - l - e)
      BY <2>2, <3>1, <3>3
    <3>5. QED
      BY <3>4 DEF e
  <2>6. QED
    BY <1>4, <2>4, <2>5 DEF Counts, m, l, b
<1>16. QED
  <2>1. QED
    BY <1>7, <1>8, <1>9, <1>14, <1>15 DEF SplitInv

(* What the part of a cloud is.                                            *)
LEMMA ThePart ==
  ASSUME NEW c \in SUBSET obstacle.cloud, first => obstacle.cloud = c,
         obstacle.id \in Int, NEW l \in Nat, l = Len(parts)
  PROVE  /\ Splitter!Part(c).id = 1000 * (100 + obstacle.id) + (l + 1)
         /\ Splitter!Part(c).cloud = c
         /\ Splitter!Part(c).described = c
         /\ Splitter!Part(c) \in PartModel
<1> DEFINE i == 1000 * (100 + obstacle.id) + (l + 1)
           d == IF first THEN obstacle.cloud ELSE c
<1>1. Splitter!Part(c) = [id |-> i, cloud |-> c, described |-> d]
  BY DEF Splitter!Part, Splitter!Hinted
<1>2. i \in Int
  OBVIOUS
<1>3. d = c
  OBVIOUS
<1> HIDE DEF i, d
<1>4. /\ Splitter!Part(c).id = i /\ Splitter!Part(c).cloud = c
      /\ Splitter!Part(c).described = c /\ Splitter!Part(c) \in PartModel
  BY <1>1, <1>2, <1>3 DEF PartModel
<1>5. QED
  BY <1>4, Zenon DEF i

(* A part takes the place of its prospects, which were one part at least.  *)
LEMMA PartCounts ==
  ASSUME SplitInv, Splitter!KeepPart, NEW n, n = Len(pieces), NEW l, l = Len(parts)
  PROVE  SplitInv'
<1> DEFINE c == pieces[1].cloud
           P == Splitter!Part(c)
<1>1. /\ pieces # <<>>
      /\ parts' = Append(parts, Splitter!Part(Head(pieces).cloud))
      /\ pieces' = Tail(pieces)
      /\ first' = FALSE
      /\ UNCHANGED <<obstacle, limit>>
  BY Zenon DEF Splitter!KeepPart
<1>2. SplitTypes /\ Apart /\ Described
  BY DEF SplitInv
<1>3. PICK p : Prospects(p) /\ Counts(p)
  BY DEF SplitInv
<1>4. /\ n \in Nat \ {0} /\ DOMAIN pieces = 1 .. n /\ 1 \in DOMAIN pieces
      /\ Head(pieces) = pieces[1]
      /\ c \in SUBSET obstacle.cloud
      /\ pieces' \in Seq(Piece) /\ Len(pieces') = n - 1 /\ DOMAIN pieces' = 1 .. n - 1
      /\ \A i \in 1 .. n - 1 : i + 1 \in DOMAIN pieces /\ pieces'[i] = pieces[i + 1]
  <2>1. Tail(pieces) \in Seq(Piece) => DOMAIN Tail(pieces) = 1 .. Len(Tail(pieces))
    OBVIOUS
  <2>2. QED
    BY <1>1, <1>2, <2>1, HeadAndTail
<1>5. /\ P.id = 1000 * (100 + obstacle.id) + (l + 1)
      /\ P.cloud = c
      /\ P.described = c
      /\ P \in PartModel
  <2>1. (first => obstacle.cloud = c) /\ obstacle.id \in Int /\ l \in Nat
    BY <1>2, <1>4, ObstacleType DEF Described, SplitTypes
  <2> HIDE DEF c
  <2>2. QED
    BY <1>4, <2>1, ThePart DEF P
<1> HIDE DEF P
<1>6. /\ l \in Nat /\ DOMAIN parts = 1 .. l
      /\ parts' \in Seq(PartModel) /\ Len(parts') = l + 1 /\ DOMAIN parts' = 1 .. l + 1
      /\ \A k \in 1 .. l : parts'[k] = parts[k]
      /\ parts'[l + 1] = P
  <2>1. parts \in Seq(PartModel) /\ parts' = Append(parts, P)
    BY <1>1, <1>2, <1>4 DEF SplitTypes, P
  <2>2. QED
    BY <1>5, <2>1
<1>7. SplitTypes'
  <2>1. Piece' = Piece /\ PartModel' = PartModel
    BY <1>1 DEF Piece, PartModel
  <2>2. QED
    BY <1>1, <1>2, <1>4, <1>6, <2>1 DEF SplitTypes
<1>8. Apart'
  <2>1. /\ \A i, j \in DOMAIN pieces : i # j => pieces[i].cloud \cap pieces[j].cloud = {}
        /\ \A j, k \in DOMAIN parts : j # k => parts[j].cloud \cap parts[k].cloud = {}
        /\ \A i \in DOMAIN pieces, k \in DOMAIN parts : pieces[i].cloud \cap parts[k].cloud = {}
    BY <1>2 DEF Apart
  <2>2. \A k \in DOMAIN parts' : (k \in DOMAIN parts /\ parts'[k] = parts[k]) \/ k = l + 1
    BY <1>6
  <2>3. ASSUME NEW i \in DOMAIN pieces', NEW j \in DOMAIN pieces', i # j
        PROVE  pieces'[i].cloud \cap pieces'[j].cloud = {}
    <3>1. /\ i + 1 \in DOMAIN pieces /\ j + 1 \in DOMAIN pieces /\ i + 1 # j + 1
          /\ pieces'[i] = pieces[i + 1] /\ pieces'[j] = pieces[j + 1]
      BY <1>4, <2>3
    <3>2. QED
      BY <2>1, <3>1
  <2>4. ASSUME NEW k \in DOMAIN parts
        PROVE  P.cloud \cap parts[k].cloud = {} /\ parts[k].cloud \cap P.cloud = {}
    <3>1. c \cap parts[k].cloud = {}
      BY <1>4, <2>1
    <3>2. P.cloud = c
      BY <1>5
    <3> HIDE DEF c
    <3>3. QED
      BY <3>1, <3>2
  <2>5. ASSUME NEW i \in DOMAIN pieces' PROVE pieces'[i].cloud \cap P.cloud = {}
    <3>1. i + 1 \in DOMAIN pieces /\ i + 1 # 1 /\ pieces'[i] = pieces[i + 1]
      BY <1>4
    <3>2. QED
      BY <1>4, <1>5, <2>1, <3>1
  <2>6. ASSUME NEW i \in DOMAIN pieces', NEW k \in DOMAIN parts'
        PROVE  pieces'[i].cloud \cap parts'[k].cloud = {}
    <3>1. CASE k \in DOMAIN parts /\ parts'[k] = parts[k]
      <4>1. i + 1 \in DOMAIN pieces /\ pieces'[i] = pieces[i + 1]
        BY <1>4
      <4>2. QED
        BY <2>1, <3>1, <4>1
    <3>2. CASE k = l + 1
      BY <1>6, <2>5, <3>2
    <3>3. QED
      BY <2>2, <3>1, <3>2
  <2>7. ASSUME NEW j \in DOMAIN parts', NEW k \in DOMAIN parts', j # k
        PROVE  parts'[j].cloud \cap parts'[k].cloud = {}
    BY <1>6, <2>1, <2>2, <2>4, <2>7
  <2>8. QED
    BY <2>3, <2>6, <2>7 DEF Apart
<1>9. Described'
  <2>1. ASSUME NEW k \in DOMAIN parts'
        PROVE  /\ parts'[k].id = 1000 * (100 + obstacle.id) + k
               /\ parts'[k].described = parts'[k].cloud
    <3>1. CASE k \in 1 .. l
      BY <1>2, <1>6, <3>1 DEF Described
    <3>2. CASE k = l + 1
      BY <1>5, <1>6, <3>2
    <3>3. QED
      BY <1>6, <3>1, <3>2
  <2>2. QED
    BY <1>1, <2>1 DEF Described
<1>10. Lost' \in SUBSET Lost
  <2>1. ASSUME NEW x \in Lost' PROVE x \in Lost
    <3>1. /\ x \in obstacle.cloud
          /\ \A i \in 1 .. n - 1 : x \notin pieces'[i].cloud
          /\ \A k \in 1 .. l + 1 : x \notin parts'[k].cloud
      BY <1>1, <1>4, <1>6 DEF Lost
    <3>2. ASSUME NEW i \in DOMAIN pieces PROVE x \notin pieces[i].cloud
      <4>1. CASE i = 1
        <5>1. l + 1 \in 1 .. l + 1
          BY <1>6
        <5>2. QED
          BY <1>5, <1>6, <3>1, <4>1, <5>1
      <4>2. CASE i # 1
        <5>1. i - 1 \in 1 .. n - 1 /\ (i - 1) + 1 = i
          BY <1>4, <4>2
        <5>2. pieces'[i - 1] = pieces[i]
          BY <1>4, <5>1
        <5>3. QED
          BY <3>1, <5>1, <5>2
      <4>3. QED
        BY <4>1, <4>2
    <3>3. ASSUME NEW k \in DOMAIN parts PROVE x \notin parts[k].cloud
      <4>1. k \in 1 .. l /\ k \in 1 .. l + 1
        BY <1>6
      <4>2. QED
        BY <1>6, <3>1, <4>1
    <3>4. QED
      BY <3>1, <3>2, <3>3 DEF Lost
  <2>2. QED
    BY <2>1
<1>11. Cardinality(Lost') \in Nat /\ Cardinality(Lost) \in Nat /\ Cardinality(Lost') <= Cardinality(Lost)
  <2>1. IsFiniteSet(Lost) /\ Cardinality(Lost) \in Nat
    BY <1>2, LostType
  <2>2. QED
    BY <1>10, <2>1, FS_Subset, FS_CardinalityType
<1>12. PICK q : q = [i \in 0 .. n - 1 |-> p[i + 1] - p[1]]
  OBVIOUS
<1>13. /\ p[1] \in Nat \ {0} /\ q \in [0 .. n - 1 -> Int] /\ p[1] - p[1] = 0
       /\ \A i \in 1 .. n - 1 :
            p[i + 1] - p[1] = (p[(i - 1) + 1] - p[1])
                                + Splitter!MostParts(limit - pieces[i + 1].depth)
  BY <1>2, <1>3, <1>4, <1>12, FewerProspects
<1>14. Prospects(q)'
  <2>1. q[0] = 0
    BY <1>4, <1>12, <1>13
  <2>2. ASSUME NEW i \in 1 .. n - 1
        PROVE  q[i] = q[i - 1] + Splitter!MostParts(limit - pieces'[i].depth)
    <3>1. i - 1 \in 0 .. n - 1 /\ i \in 0 .. n - 1 /\ pieces'[i] = pieces[i + 1]
      BY <1>4
    <3>2. q[i] = p[i + 1] - p[1] /\ q[i - 1] = p[(i - 1) + 1] - p[1]
      BY <1>12, <3>1
    <3>3. QED
      BY <1>13, <3>1, <3>2, Zenon
  <2>3. \A i \in 1 .. n - 1 : (q[i] = q[i - 1] + Splitter!MostParts(limit - pieces[i].depth))'
    BY <1>1, <2>2, Zenon DEF Splitter!MostParts
  <2>4. QED
    BY <1>4, <1>13, <2>1, <2>3 DEF Prospects
<1>15. Counts(q)'
  <2> DEFINE m == Splitter!MostParts(limit)
             a == Cardinality(Lost)
             b == Cardinality(Lost')
  <2>1. p[n] \in Int /\ q[n - 1] = p[n] - p[1]
    <3>1. n - 1 \in 0 .. n - 1 /\ (n - 1) + 1 = n /\ n \in 0 .. n
      BY <1>4
    <3>2. QED
      BY <1>3, <1>12, <3>1 DEF Prospects
  <2>2. m \in Nat
    <3>1. limit \in Nat
      BY <1>2, ObstacleType
    <3>2. QED
      BY <3>1, PowersOfTwo
  <2>3. p[n] + l <= m /\ a <= 2 * (m - l - p[n])
    BY <1>3, Zenon DEF Counts
  <2>4. m' = m
    BY <1>1, Zenon DEF Splitter!MostParts
  <2> HIDE DEF m, a, b
  <2>5. q[n - 1] + (l + 1) <= m /\ b <= 2 * (m - (l + 1) - q[n - 1])
    <3>1. a \in Nat /\ b \in Nat /\ b <= a
      BY <1>11 DEF a, b
    <3> DEFINE d == p[n]
               e == q[n - 1]
               f == p[1]
    <3>2. d \in Int /\ e = d - f /\ f \in Nat \ {0} /\ d + l <= m /\ a <= 2 * (m - l - d)
      BY <1>13, <2>1, <2>3
    <3> HIDE DEF d, e, f
    <3>3. e + (l + 1) <= m /\ b <= 2 * (m - (l + 1) - e)
      BY <1>6, <2>2, <3>1, <3>2
    <3>4. QED
      BY <3>3 DEF e
  <2>6. QED
    BY <1>4, <1>6, <2>4, <2>5 DEF Counts, m, b
<1>16. QED
  BY <1>7, <1>8, <1>9, <1>14, <1>15 DEF SplitInv

(* Two elements more at the end of a sequence.                             *)
LEMMA TwoMore ==
  ASSUME NEW S, NEW rest \in Seq(S), NEW n \in Nat \ {0}, Len(rest) = n - 1,
         NEW a \in S, NEW b \in S
  PROVE  /\ rest \o <<a, b>> \in Seq(S)
         /\ Len(rest \o <<a, b>>) = n + 1
         /\ \A i \in 1 .. n - 1 : (rest \o <<a, b>>)[i] = rest[i]
         /\ (rest \o <<a, b>>)[n] = a
         /\ (rest \o <<a, b>>)[n + 1] = b
<1>1. PICK more : more = <<a, b>>
  OBVIOUS
<1>2. more \in Seq(S) /\ Len(more) = 2 /\ more[1] = a /\ more[2] = b
  BY <1>1
<1>3. PICK longer : longer = rest \o more
  OBVIOUS
<1>4. /\ longer \in Seq(S)
      /\ Len(longer) = Len(rest) + Len(more)
      /\ \A i \in 1 .. Len(rest) + Len(more) :
           longer[i] = IF i <= Len(rest) THEN rest[i] ELSE more[i - Len(rest)]
  <2>1. /\ rest \o more \in Seq(S)
        /\ Len(rest \o more) = Len(rest) + Len(more)
        /\ \A i \in 1 .. Len(rest) + Len(more) :
             (rest \o more)[i] = IF i <= Len(rest) THEN rest[i] ELSE more[i - Len(rest)]
    BY <1>2, ConcatProperties
  <2>2. QED
    BY <1>3, <2>1, Zenon
<1>5. (n - 1) + 2 = n + 1
  OBVIOUS
<1>6. \A i \in 1 .. n + 1 : longer[i] = IF i <= n - 1 THEN rest[i] ELSE more[i - (n - 1)]
  BY <1>2, <1>4, <1>5
<1>7. ASSUME NEW i \in 1 .. n - 1 PROVE longer[i] = rest[i]
  BY <1>6
<1>8. longer[n] = more[1]
  <2>1. n \in 1 .. n + 1 /\ ~ (n <= n - 1)
    OBVIOUS
  <2>2. n - (n - 1) = 1
    OBVIOUS
  <2>3. longer[n] = more[n - (n - 1)]
    BY <1>6, <2>1
  <2>4. QED
    BY <2>2, <2>3
<1>9. longer[n + 1] = more[2]
  <2>1. n + 1 \in 1 .. n + 1 /\ ~ (n + 1 <= n - 1)
    OBVIOUS
  <2>2. (n + 1) - (n - 1) = 2
    OBVIOUS
  <2>3. longer[n + 1] = more[(n + 1) - (n - 1)]
    BY <1>6, <2>1
  <2>4. QED
    BY <2>2, <2>3
<1>10. Len(longer) = n + 1
  BY <1>2, <1>4, <1>5
<1>11. longer = rest \o <<a, b>>
  BY <1>1, <1>3
<1>12. QED
  BY <1>2, <1>4, <1>7, <1>8, <1>9, <1>10, <1>11, Zenon

(* The queue of n pieces when its head, a cloud c at depth d, is split: the *)
(* halves are its new end.                                                 *)
Halved(longer, n, d, c, s) ==
  /\ n \in Nat \ {0} /\ d \in Nat /\ limit - (d + 1) \in Nat
  /\ longer \in Seq(Piece) /\ Len(longer) = n + 1
  /\ \A i \in 1 .. n - 1 : i + 1 \in DOMAIN pieces /\ longer[i] = pieces[i + 1]
  /\ longer[n].depth = d + 1 /\ longer[n].cloud = s
  /\ longer[n + 1].depth = d + 1 /\ longer[n + 1].cloud = c \ s

(* The halves of a part that is split go to the end of the queue.          *)
LEMMA HalvesAreQueued ==
  ASSUME SplitTypes, pieces # <<>>, NEW n, n = Len(pieces),
         NEW d, d = pieces[1].depth, d < limit,
         NEW c, c = pieces[1].cloud, NEW s \in SUBSET c
  PROVE  Halved(Tail(pieces) \o Splitter!Pieces(d, <<s, c \ s>>), n, d, c, s)
<1> DEFINE longer == Tail(pieces) \o Splitter!Pieces(d, <<s, c \ s>>)
<1>1. PICK rest : rest = Tail(pieces)
  OBVIOUS
<1>2. /\ n \in Nat \ {0} /\ d \in 0 .. limit /\ c \in SUBSET obstacle.cloud
      /\ rest \in Seq(Piece) /\ Len(rest) = n - 1
      /\ \A i \in 1 .. n - 1 : i + 1 \in DOMAIN pieces /\ rest[i] = pieces[i + 1]
  BY <1>1, HeadAndTail
<1>3. limit \in Nat /\ d \in Nat /\ limit - (d + 1) \in Nat /\ d + 1 \in 0 .. limit
  <2>1. limit \in Nat
    BY ObstacleType
  <2>2. d \in 0 .. limit /\ d < limit
    BY <1>2, Zenon
  <2>3. QED
    BY <2>1, <2>2
<1>4. PICK half1 : half1 = [depth |-> d + 1, cloud |-> s]
  OBVIOUS
<1>5. PICK half2 : half2 = [depth |-> d + 1, cloud |-> c \ s]
  OBVIOUS
<1>6. /\ half1.depth = d + 1 /\ half1.cloud = s
      /\ half2.depth = d + 1 /\ half2.cloud = c \ s
  BY <1>4, <1>5
<1>7. half1 \in Piece /\ half2 \in Piece
  BY <1>2, <1>3, <1>4, <1>5 DEF Piece
<1>8. Splitter!Pieces(d, <<s, c \ s>>) = <<half1, half2>>
  <2>1. Splitter!Pieces(d, <<s, c \ s>>)
          = [k \in 1 .. 2 |-> [depth |-> d + 1, cloud |-> <<s, c \ s>>[k]]]
    BY Zenon DEF Splitter!Pieces
  <2>2. \A k \in 1 .. 2 : [depth |-> d + 1, cloud |-> <<s, c \ s>>[k]] = <<half1, half2>>[k]
    <3>1. [depth |-> d + 1, cloud |-> <<s, c \ s>>[1]] = half1
      BY <1>4
    <3>2. [depth |-> d + 1, cloud |-> <<s, c \ s>>[2]] = half2
      BY <1>5
    <3>3. \A k \in 1 .. 2 : k = 1 \/ k = 2
      OBVIOUS
    <3>4. <<half1, half2>>[1] = half1 /\ <<half1, half2>>[2] = half2
      OBVIOUS
    <3>5. QED
      BY <3>1, <3>2, <3>3, <3>4, Zenon
  <2>3. [k \in 1 .. 2 |-> <<half1, half2>>[k]] = <<half1, half2>>
    OBVIOUS
  <2>4. QED
    BY <2>1, <2>2, <2>3
<1>9. longer = rest \o <<half1, half2>>
  BY <1>1, <1>8
<1> HIDE DEF longer
<1>10. /\ longer \in Seq(Piece) /\ Len(longer) = n + 1
       /\ \A i \in 1 .. n - 1 : longer[i] = rest[i]
       /\ longer[n] = half1 /\ longer[n + 1] = half2
  <2>1. rest \in Seq(Piece) /\ n \in Nat \ {0} /\ Len(rest) = n - 1
    BY <1>2, Zenon
  <2> DEFINE joined == rest \o <<half1, half2>>
  <2>2. /\ joined \in Seq(Piece) /\ Len(joined) = n + 1
        /\ \A i \in 1 .. n - 1 : joined[i] = rest[i]
        /\ joined[n] = half1 /\ joined[n + 1] = half2
    BY <1>7, <2>1, TwoMore
  <2> HIDE DEF joined
  <2>3. longer = joined
    BY <1>9 DEF joined
  <2>4. QED
    BY <2>2, <2>3, Zenon
<1>11. Halved(longer, n, d, c, s)
  <2>1. \A i \in 1 .. n - 1 : i + 1 \in DOMAIN pieces /\ longer[i] = pieces[i + 1]
    BY <1>2, <1>10, Zenon
  <2>2. QED
    BY <1>2, <1>3, <1>6, <1>10, <2>1, Zenon DEF Halved
<1>12. QED
  BY <1>11 DEF longer

(* The halves have together the prospects of the whole, and its points.    *)
LEMMA HalvesCount ==
  ASSUME SplitInv, Splitter!SplitCloud, NEW n, n = Len(pieces)
  PROVE  SplitInv'
<1>1. PICK d, c : d = pieces[1].depth /\ c = pieces[1].cloud
  OBVIOUS
<1>2. SplitTypes /\ Apart /\ Described
  BY DEF SplitInv
<1>3. pieces # <<>>
  BY Zenon DEF Splitter!SplitCloud
<1>4. /\ DOMAIN pieces = 1 .. n /\ 1 \in DOMAIN pieces
      /\ Head(pieces) = pieces[1]
      /\ c \in SUBSET obstacle.cloud
  BY <1>1, <1>2, <1>3, HeadAndTail
<1>5. PICK s \in SUBSET c : /\ d < limit
                            /\ pieces' = Tail(pieces) \o Splitter!Pieces(d, <<s, c \ s>>)
                            /\ first' = FALSE
                            /\ UNCHANGED <<obstacle, limit, parts>>
  <2>1. PICK split \in Splitter!doSplit(Head(pieces).cloud) :
          pieces' = Tail(pieces) \o Splitter!Pieces(Head(pieces).depth, split)
    BY Zenon DEF Splitter!SplitCloud
  <2>2. /\ Head(pieces).depth < limit
        /\ first' = FALSE
        /\ UNCHANGED <<obstacle, limit, parts>>
    BY Zenon DEF Splitter!SplitCloud, Splitter!MaySplit
  <2>3. PICK s \in SUBSET c : split = <<s, c \ s>>
    BY <1>1, <1>4, <2>1, Zenon DEF Splitter!doSplit
  <2>4. QED
    BY <1>1, <1>4, <2>1, <2>2, <2>3, Zenon
<1>6. /\ n \in Nat \ {0} /\ d \in Nat /\ limit - (d + 1) \in Nat
      /\ pieces' \in Seq(Piece) /\ Len(pieces') = n + 1 /\ DOMAIN pieces' = 1 .. n + 1
      /\ \A i \in 1 .. n - 1 : i + 1 \in DOMAIN pieces /\ pieces'[i] = pieces[i + 1]
      /\ pieces'[n].depth = d + 1 /\ pieces'[n].cloud = s
      /\ pieces'[n + 1].depth = d + 1 /\ pieces'[n + 1].cloud = c \ s
  <2>1. PICK longer : longer = Tail(pieces) \o Splitter!Pieces(d, <<s, c \ s>>)
    OBVIOUS
  <2>2. pieces' = longer
    BY <1>5, <2>1
  <2>3. Halved(longer, n, d, c, s)
    BY <1>1, <1>2, <1>3, <1>5, <2>1, HalvesAreQueued, Zenon
  <2>4. DOMAIN longer = 1 .. n + 1
    BY <2>3 DEF Halved
  <2>5. QED
    BY <2>2, <2>3, <2>4, Zenon DEF Halved
<1>7. SplitTypes'
  <2>1. Piece' = Piece /\ PartModel' = PartModel
    BY <1>5 DEF Piece, PartModel
  <2>2. QED
    BY <1>2, <1>5, <1>6, <2>1 DEF SplitTypes
(* Each new piece is one of the others, or a half.                         *)
<1>8. \A i \in DOMAIN pieces' : i \in 1 .. n - 1 \/ i = n \/ i = n + 1
  BY <1>6
<1>9. Apart'
  <2>1. /\ \A i, j \in DOMAIN pieces : i # j => pieces[i].cloud \cap pieces[j].cloud = {}
        /\ \A j, k \in DOMAIN parts : j # k => parts[j].cloud \cap parts[k].cloud = {}
        /\ \A i \in DOMAIN pieces, k \in DOMAIN parts : pieces[i].cloud \cap parts[k].cloud = {}
    BY <1>2 DEF Apart
  <2>2. ASSUME NEW i \in 1 .. n - 1
        PROVE  /\ i + 1 \in DOMAIN pieces /\ i + 1 # 1 /\ pieces'[i] = pieces[i + 1]
               /\ pieces'[i].cloud \cap c = {}
    <3>1. i + 1 \in DOMAIN pieces /\ i + 1 # 1 /\ pieces'[i] = pieces[i + 1]
      BY <1>6, SMTT(30)
    <3>2. pieces[i + 1].cloud \cap c = {}
      BY <1>1, <1>4, <2>1, <3>1
    <3>3. QED
      BY <3>1, <3>2
  <2>3. pieces'[n].cloud \subseteq c /\ pieces'[n + 1].cloud \subseteq c
    BY <1>6
  <2>4. pieces'[n].cloud \cap pieces'[n + 1].cloud = {}
    BY <1>6
  <2>5. ASSUME NEW i \in DOMAIN pieces', NEW j \in DOMAIN pieces', i # j
        PROVE  pieces'[i].cloud \cap pieces'[j].cloud = {}
    <3>1. CASE i \in 1 .. n - 1 /\ j \in 1 .. n - 1
      <4>1. /\ i + 1 \in DOMAIN pieces /\ j + 1 \in DOMAIN pieces
            /\ pieces'[i] = pieces[i + 1] /\ pieces'[j] = pieces[j + 1]
        BY <2>2, <3>1
      <4>2. i + 1 # j + 1
        BY <2>5, <3>1
      <4>3. QED
        BY <2>1, <4>1, <4>2
    <3>2. CASE i \in 1 .. n - 1 /\ j \notin 1 .. n - 1
      BY <1>8, <2>2, <2>3, <3>2
    <3>3. CASE i \notin 1 .. n - 1 /\ j \in 1 .. n - 1
      BY <1>8, <2>2, <2>3, <3>3
    <3>4. CASE i \notin 1 .. n - 1 /\ j \notin 1 .. n - 1
      BY <1>8, <2>4, <2>5, <3>4
    <3>5. QED
      BY <3>1, <3>2, <3>3, <3>4
  <2>6. ASSUME NEW i \in DOMAIN pieces', NEW k \in DOMAIN parts
        PROVE  pieces'[i].cloud \cap parts[k].cloud = {}
    <3>1. CASE i \in 1 .. n - 1
      BY <2>1, <2>2, <3>1
    <3>2. CASE i \notin 1 .. n - 1
      <4>1. c \cap parts[k].cloud = {}
        BY <1>1, <1>4, <2>1
      <4>2. pieces'[i].cloud \subseteq c
        BY <1>8, <2>3, <3>2
      <4>3. QED
        BY <4>1, <4>2
    <3>3. QED
      BY <3>1, <3>2
  <2>7. QED
    BY <1>5, <2>1, <2>5, <2>6 DEF Apart
<1>10. Described'
  BY <1>2, <1>5 DEF Described
<1>11. Lost' \in SUBSET Lost
  <2>1. ASSUME NEW x \in Lost' PROVE x \in Lost
    <3>1. /\ x \in obstacle.cloud
          /\ \A i \in 1 .. n + 1 : x \notin pieces'[i].cloud
          /\ \A k \in DOMAIN parts : x \notin parts[k].cloud
      BY <1>5, <1>6 DEF Lost
    <3>2. x \notin c
      <4>1. n \in 1 .. n + 1 /\ n + 1 \in 1 .. n + 1
        BY <1>6
      <4>2. x \notin s /\ x \notin c \ s
        BY <1>6, <3>1, <4>1
      <4>3. QED
        BY <4>2
    <3>3. ASSUME NEW i \in DOMAIN pieces PROVE x \notin pieces[i].cloud
      <4>1. CASE i = 1
        BY <1>1, <3>2, <4>1
      <4>2. CASE i # 1
        <5>1. i - 1 \in 1 .. n - 1 /\ (i - 1) + 1 = i /\ i - 1 \in 1 .. n + 1
          BY <1>4, <1>6, <4>2
        <5>2. pieces'[i - 1] = pieces[i]
          BY <1>6, <5>1
        <5>3. QED
          BY <3>1, <5>1, <5>2
      <4>3. QED
        BY <4>1, <4>2
    <3>4. QED
      BY <3>1, <3>3 DEF Lost
  <2>2. QED
    BY <2>1
<1>12. Cardinality(Lost') \in Nat /\ Cardinality(Lost) \in Nat /\ Cardinality(Lost') <= Cardinality(Lost)
  <2>1. IsFiniteSet(Lost) /\ Cardinality(Lost) \in Nat
    BY <1>2, LostType
  <2>2. QED
    BY <1>11, <2>1, FS_Subset, FS_CardinalityType
<1>13. PICK p : Prospects(p) /\ Counts(p)
  BY DEF SplitInv
<1>14. PICK h : h = Splitter!MostParts(limit - (d + 1))
  OBVIOUS
<1>15. /\ p[1] \in Nat \ {0}
       /\ p[1] - p[1] = 0
       /\ p[1] = Splitter!MostParts(limit - d)
       /\ \A i \in 0 .. n - 1 : p[i + 1] - p[1] \in Int
       /\ \A i \in 1 .. n - 1 :
            p[i + 1] - p[1] = (p[(i - 1) + 1] - p[1])
                                + Splitter!MostParts(limit - pieces[i + 1].depth)
  <2>1. n # 0
    BY <1>6
  <2>2. /\ p[1] \in Nat \ {0} /\ p[1] - p[1] = 0 /\ p[1] = Splitter!MostParts(limit - pieces[1].depth)
        /\ [i \in 0 .. n - 1 |-> p[i + 1] - p[1]] \in [0 .. n - 1 -> Int]
        /\ \A i \in 1 .. n - 1 :
             p[i + 1] - p[1] = (p[(i - 1) + 1] - p[1])
                                 + Splitter!MostParts(limit - pieces[i + 1].depth)
    BY <1>2, <1>13, <2>1, FewerProspects
  <2>3. QED
    BY <1>1, <2>2
<1>16. h \in Nat \ {0} /\ p[1] = 2 * h
  <2>1. limit - d = (limit - (d + 1)) + 1
    <3>1. limit \in Nat
      BY <1>2, ObstacleType
    <3>2. QED
      BY <1>6, <3>1
  <2>2. QED
    BY <1>6, <1>14, <1>15, <2>1, PowersOfTwo
<1>17. p[n] \in Int
  BY <1>6, <1>13 DEF Prospects
<1>18. PICK q : q = [i \in 0 .. n + 1 |-> IF i = n + 1 THEN p[n] ELSE IF i = n THEN p[n] - h
                                          ELSE p[i + 1] - p[1]]
  OBVIOUS
<1>19. /\ q \in [0 .. n + 1 -> Int]
       /\ q[n + 1] = p[n]
       /\ q[n] = p[n] - h
       /\ \A i \in 0 .. n - 1 : q[i] = p[i + 1] - p[1]
  <2>1. /\ n \in 0 .. n + 1 /\ n + 1 \in 0 .. n + 1 /\ n # n + 1
        /\ \A i \in 0 .. n - 1 : i \in 0 .. n + 1 /\ i # n /\ i # n + 1
    BY <1>6
  <2>2. /\ q[n + 1] = p[n] /\ q[n] = p[n] - h
        /\ \A i \in 0 .. n - 1 : q[i] = p[i + 1] - p[1]
    BY <1>18, <2>1
  <2>3. ASSUME NEW i \in 0 .. n + 1 PROVE q[i] \in Int
    <3>1. i \in 0 .. n - 1 \/ i = n \/ i = n + 1
      BY <1>6
    <3>2. p[n] - h \in Int
      BY <1>16, <1>17
    <3>3. QED
      BY <1>15, <1>17, <2>2, <3>1, <3>2
  <2>4. QED
    BY <1>18, <2>2, <2>3
<1>20. Prospects(q)'
  <2>1. q[0] = 0
    BY <1>6, <1>15, <1>19, SMTT(30)
  <2>2. ASSUME NEW i \in 1 .. n + 1
        PROVE  q[i] = q[i - 1] + Splitter!MostParts(limit - pieces'[i].depth)
    <3>1. CASE i \in 1 .. n - 1
      <4>1. i - 1 \in 0 .. n - 1 /\ i \in 0 .. n - 1 /\ pieces'[i] = pieces[i + 1]
        BY <1>6, <3>1
      <4>2. q[i] = p[i + 1] - p[1] /\ q[i - 1] = p[(i - 1) + 1] - p[1]
        BY <1>19, <4>1
      <4>3. QED
        BY <1>15, <3>1, <4>1, <4>2, Zenon
    <3>2. CASE i = n
      <4>1. n - 1 \in 0 .. n - 1 /\ (n - 1) + 1 = n
        BY <1>6
      <4>2. q[i - 1] = p[n] - p[1] /\ q[i] = p[n] - h
        BY <1>19, <3>2, <4>1
      <4>3. Splitter!MostParts(limit - pieces'[i].depth) = h
        BY <1>6, <1>14, <3>2
      <4>4. p[n] - h = (p[n] - p[1]) + h
        BY <1>16, <1>17
      <4>5. QED
        BY <4>2, <4>3, <4>4
    <3>3. CASE i = n + 1
      <4>1. (n + 1) - 1 = n
        BY <1>6
      <4>2. q[i - 1] = p[n] - h /\ q[i] = p[n]
        BY <1>19, <3>3, <4>1
      <4>3. Splitter!MostParts(limit - pieces'[i].depth) = h
        BY <1>6, <1>14, <3>3
      <4>4. p[n] = (p[n] - h) + h
        BY <1>16, <1>17
      <4>5. QED
        BY <4>2, <4>3, <4>4
    <3>4. QED
      BY <1>6, <1>8, <3>1, <3>2, <3>3
  <2>3. \A i \in 1 .. n + 1 : (q[i] = q[i - 1] + Splitter!MostParts(limit - pieces[i].depth))'
    BY <1>5, <2>2, Zenon DEF Splitter!MostParts
  <2>4. QED
    BY <1>6, <1>19, <2>1, <2>3 DEF Prospects
<1>21. Counts(q)'
  <2> DEFINE m == Splitter!MostParts(limit)
             l == Len(parts)
             a == Cardinality(Lost)
             b == Cardinality(Lost')
  <2>1. m \in Nat /\ l \in Nat
    <3>1. limit \in Nat /\ parts \in Seq(PartModel)
      BY <1>2, ObstacleType DEF SplitTypes
    <3>2. Splitter!MostParts(limit) \in Nat
      BY <3>1, PowersOfTwo
    <3>3. Len(parts) \in Nat
      BY <3>1
    <3>4. QED
      BY <3>2, <3>3
  <2>2. p[n] + l <= m /\ a <= 2 * (m - l - p[n])
    BY <1>13, Zenon DEF Counts
  <2>3. m' = m /\ l' = l
    BY <1>5, Zenon DEF Splitter!MostParts
  <2>4. a \in Nat /\ b \in Nat /\ b <= a
    BY <1>12
  <2> HIDE DEF m, l, a, b
  <2>5. q[n + 1] + l <= m /\ b <= 2 * (m - l - q[n + 1])
    <3> DEFINE e == p[n]
    <3>1. e \in Int /\ q[n + 1] = e /\ e + l <= m /\ a <= 2 * (m - l - e)
      BY <1>17, <1>19, <2>2
    <3> HIDE DEF e
    <3>2. e + l <= m /\ b <= 2 * (m - l - e)
      BY <2>1, <2>4, <3>1
    <3>3. QED
      BY <3>1, <3>2
  <2>6. QED
    BY <1>6, <2>3, <2>5 DEF Counts, m, l, b
<1>22. QED
  BY <1>7, <1>9, <1>10, <1>20, <1>21 DEF SplitInv

(* The parts of an obstacle: nothing is in two of them, no two have the    *)
(* same id, there are at most 2 ^ DepthLimit, at most two points are lost  *)
(* for each that is missing, and each is described by its own points.      *)
THEOREM PartsCoverTheObstacle == Spec => []PartsCoverObstacle
<1> DEFINE J == stage = "splitter" => SplitInv
<1>1. Init => J
  BY SplitInit DEF Init
<1>2. J /\ [Next]_vars => J'
  <2> SUFFICES ASSUME J, [Next]_vars, stage' = "splitter" PROVE SplitInv'
    OBVIOUS
  <2>1. stage = "splitter" /\ [Splitter!Next]_(Splitter!vars)
    BY DEF Next, vars, RunTracker, RunHull, RunClusterer, RunFinder, RunSplitter, splitter, Splitter!vars
  <2>2. CASE UNCHANGED <<obstacle, limit, pieces, first, parts>>
    <3>1. SplitTypes' /\ Apart' /\ Described'
      BY <2>1, <2>2 DEF SplitInv, SplitTypes, Apart, Described, Piece, PartModel
    <3>2. PICK p : Prospects(p) /\ Counts(p)
      BY <2>1 DEF SplitInv
    <3>3. Lost' = Lost
      BY <2>2 DEF Lost
    <3>4. Prospects(p)' /\ Counts(p)'
      BY <2>2, <3>2, <3>3, Zenon DEF Prospects, Counts, Splitter!MostParts
    <3>5. QED
      BY <3>1, <3>4 DEF SplitInv
  <2>3. CASE Splitter!DropSplinter
    BY <2>1, <2>3, SplinterCounts
  <2>4. CASE Splitter!SplitCloud
    BY <2>1, <2>4, HalvesCount
  <2>5. CASE Splitter!KeepPart
    BY <2>1, <2>5, PartCounts
  <2>6. QED
    BY <2>1, <2>2, <2>3, <2>4, <2>5, Zenon DEF Splitter!Next, Splitter!vars
<1>3. J => PartsCoverObstacle
  BY PartsAreAll DEF PartsCoverObstacle
<1>4. QED
  BY <1>1, <1>2, <1>3, PTL DEF Spec
=============================================================================
