----------------------- MODULE MixtureSegmenterProofs -----------------------
(***************************************************************************)
(* That the mixture removes, splits and presents states only for reasons   *)
(* of their own, for any number of states and all limits.                  *)
(***************************************************************************)
EXTENDS MixtureSegmenter, NaturalSets, FiniteSetTheorems, SequenceTheorems, TLAPS

State == [name : Name, lifeTime : Nat, splitCounter : Nat, resets : Nat]

TypeInv ==
  /\ step \in {"idle", "clean", "m_step", "remove"}
  /\ k \in Nat
  /\ states \in Seq(State)
  /\ newStates \in Seq(Name)
  /\ apart \in [Name -> Nat]
  /\ seen \in [Name -> Nat]

(* No two states have one name, be they there or still to be added.        *)
NamesDiffer ==
  /\ \A i, j \in 1 .. Len(states) : states[i].name = states[j].name => i = j
  /\ \A i, j \in 1 .. Len(newStates) : newStates[i] = newStates[j] => i = j
  /\ \A i \in 1 .. Len(states), j \in 1 .. Len(newStates) : states[i].name # newStates[j]

(* Where in a frame what has been found so far.                            *)
FoundSoFar ==
  /\ step = "idle" => removed = {}
  /\ step \in {"idle", "clean"} => newStates = <<>>
  /\ step = "m_step" => k >= 1 /\ \A i \in removed : i < k

(* A state never counts more frames than there were.                       *)
CountersAreEarned ==
  \A i \in 1 .. Len(states) :
    /\ states[i].lifeTime <= seen[states[i].name]
    /\ i \in removed \/ states[i].splitCounter <= apart[states[i].name]

IInv ==
  TypeInv /\ NamesDiffer /\ RemovalIsExact /\ FoundSoFar /\ CountersAreEarned /\ ObstaclesAreReal

-----------------------------------------------------------------------------
(* The larger of the two limits of life times.                             *)
LEMMA LifeIsLarger == LIFE \in Nat /\ LIFE >= MIN_PERSISTENT_FRAMES
<1> DEFINE a == NUM_SPLIT_LIFE_TIME
           b == MIN_PERSISTENT_FRAMES
<1>1. a \in Nat /\ b \in Nat
  BY MixtureAssumption
<1> HIDE DEF a, b
<1>2. \E x \in {a, b} : \A y \in {a, b} : x >= y
  BY <1>1
<1>3. Max({a, b}) \in {a, b} /\ \A y \in {a, b} : Max({a, b}) >= y
  BY <1>2 DEF Max
<1>4. QED
  BY <1>1, <1>3 DEF LIFE, a, b

(* There are as many unused names to take as there are.                    *)
LEMMA TakesUnused ==
  ASSUME NEW n \in Nat, n <= Cardinality(Unused)
  PROVE  /\ Take(n) \in [1 .. n -> Unused]
         /\ \A i, j \in 1 .. n : Take(n)[i] = Take(n)[j] => i = j
<1>1. IsFiniteSet(Unused)
  BY MixtureAssumption, FS_Subset DEF Unused
<1>2. PICK m \in Nat : ExistsBijection(1 .. m, Unused)
  BY <1>1, FS_NatBijection
<1>3. Cardinality(Unused) = m
  BY <1>2, FS_CountingElements
<1>4. PICK f \in [1 .. m -> Unused] : \A i, j \in 1 .. m : f[i] = f[j] => i = j
  BY <1>2 DEF ExistsBijection, Bijection, Injection, IsInjective
<1> DEFINE s == [i \in 1 .. n |-> f[i]]
<1>5. s \in [1 .. n -> Unused] /\ \A i, j \in 1 .. n : s[i] = s[j] => i = j
  BY <1>3, <1>4
<1> HIDE DEF s
<1>6. QED
  BY <1>5 DEF Take

(* A sequence of some unused names.                                        *)
LEMMA TakesASequence ==
  ASSUME TypeInv, NEW n \in Nat, n <= Cardinality(Unused)
  PROVE  /\ Take(n) \in Seq(Name) /\ Len(Take(n)) = n
         /\ \A i, j \in 1 .. n : Take(n)[i] = Take(n)[j] => i = j
         /\ \A i \in 1 .. n : /\ Take(n)[i] \in Name
                              /\ \A j \in 1 .. Len(states) : states[j].name # Take(n)[i]
                              /\ \A j \in 1 .. Len(newStates) : newStates[j] # Take(n)[i]
<1> DEFINE s == Take(n)
<1>1. s \in [1 .. n -> Unused] /\ \A i, j \in 1 .. n : s[i] = s[j] => i = j
  BY TakesUnused
<1>2. /\ Unused \subseteq Name
      /\ \A x \in Unused : /\ \A j \in 1 .. Len(states) : states[j].name # x
                           /\ \A j \in 1 .. Len(newStates) : newStates[j] # x
  BY DEF Unused, Names, TypeInv
<1> HIDE DEF s
<1>3. s \in [1 .. n -> Name]
  BY <1>1, <1>2
<1>4. s \in Seq(Name) /\ Len(s) = n
  BY <1>3
<1>5. QED
  BY <1>1, <1>2, <1>4 DEF s

(* There are no states to begin with.                                      *)
LEMMA InitInv == Init => IInv
BY MixtureAssumption DEF Init, IInv, TypeInv, NamesDiffer, RemovalIsExact, Names, FoundSoFar,
   CountersAreEarned, ObstaclesAreReal, State

-----------------------------------------------------------------------------
(* The invariant is kept by each action.                                   *)
LEMMA BeginKeeps == IInv /\ Begin => IInv'
<1> SUFFICES ASSUME IInv, Begin PROVE IInv'
  OBVIOUS
<1> USE DEF IInv
<1> DEFINE x == CHOOSE y \in Name : TRUE
<1>1. x \in Name
  BY MixtureAssumption
<1> HIDE DEF x
<1>2. \/ states' = states
      \/ states' = <<NewState(x)>>
  BY DEF Begin, x
<1>3. NewState(x) \in State /\ NewState(x).lifeTime = 0 /\ NewState(x).splitCounter = 0
  BY <1>1 DEF NewState, State
<1>4. TypeInv'
  <2>1. <<NewState(x)>> \in Seq(State)
    BY <1>3
  <2>2. states' \in Seq(State)
    BY <1>2, <2>1 DEF TypeInv
  <2>3. QED
    BY <2>2 DEF TypeInv, Begin
<1>5. newStates = <<>> /\ removed = {}
  BY DEF Begin, FoundSoFar
<1>6. PICK broken \in SUBSET DOMAIN states' :
         removed' = broken /\ kept' = {states'[i].name : i \in DOMAIN states' \ broken}
  BY DEF Begin
<1>7. NamesDiffer'
  BY <1>2, <1>5 DEF NamesDiffer, Begin
<1>8. DOMAIN states' = 1 .. Len(states')
  BY <1>4 DEF TypeInv
<1>9. RemovalIsExact'
  BY <1>6, <1>7, <1>8 DEF RemovalIsExact, Names, NamesDiffer
<1>10. FoundSoFar'
  BY <1>5 DEF FoundSoFar, Begin
<1>11. CountersAreEarned'
  <2>1. CASE states' = states
    BY <1>5, <2>1 DEF CountersAreEarned, Begin
  <2>2. CASE states' = <<NewState(x)>>
    <3>1. NewState(x).name = x
      BY DEF NewState
    <3>2. seen[x] \in Nat /\ apart[x] \in Nat
      BY <1>1 DEF TypeInv
    <3>3. QED
      BY <1>3, <2>2, <3>1, <3>2 DEF CountersAreEarned, Begin
  <2>3. QED
    BY <1>2, <2>1, <2>2
<1>12. ObstaclesAreReal'
  BY DEF ObstaclesAreReal, Begin
<1>13. QED
  BY <1>4, <1>7, <1>9, <1>10, <1>11, <1>12

(* The last state takes the place of the one removed, which no index still *)
(* to be removed exceeds.                                                  *)
LEMMA RemoveStateKeeps == IInv /\ RemoveState => IInv'
<1> SUFFICES ASSUME IInv, RemoveState PROVE IInv'
  OBVIOUS
<1> USE DEF IInv
<1> DEFINE index == NextRemoved
           last == Len(states)
<1>1. last \in Nat /\ DOMAIN states = 1 .. last /\ removed \in SUBSET (0 .. last) /\ removed # {}
  BY DEF TypeInv, RemovalIsExact, RemoveState
<1>2. index \in removed /\ \A i \in removed : i <= index
  BY <1>1, MaxIsGreatest DEF NextRemoved
<1>3. /\ states' = [i \in 1 .. last - 1 |-> states[IF i = index THEN last ELSE i]]
      /\ removed' = removed \ {index}
      /\ UNCHANGED <<newStates, step, k, kept, apart, seen, obstacles>>
  BY DEF RemoveState
<1>4. index \in 1 .. last /\ last >= 1
  BY <1>1, <1>2 DEF RemovalIsExact
<1> HIDE DEF index, last
<1>5. \A i \in 1 .. last : states[i] \in State
  BY <1>1 DEF TypeInv, last
<1>6. states' \in [1 .. last - 1 -> State]
  BY <1>3, <1>4, <1>5, <1>1
<1>7. states' \in Seq(State) /\ Len(states') = last - 1 /\ DOMAIN states' = 1 .. last - 1
  BY <1>1, <1>4, <1>6
<1>8. \A i \in 1 .. last - 1 : /\ i # index => states'[i] = states[i]
                               /\ i = index => states'[i] = states[last]
  BY <1>3
<1>9. TypeInv'
  BY <1>3, <1>7 DEF TypeInv
<1>10. NamesDiffer'
  BY <1>1, <1>3, <1>4, <1>7, <1>8 DEF NamesDiffer, last
<1>11. last # index => last \notin removed
  BY <1>1, <1>2, <1>4
<1>12. \A i \in 1 .. last : i \in removed <=> states[i].name \notin kept
  BY <1>1 DEF RemovalIsExact
<1>13. RemovalIsExact'
  <2>1. removed' \subseteq 1 .. last - 1
    BY <1>1, <1>2, <1>3, <1>4 DEF RemovalIsExact
  <2>2. \A i \in 1 .. last - 1 : i \in removed' <=> states'[i].name \notin kept
    <3> SUFFICES ASSUME NEW i \in 1 .. last - 1
                 PROVE  i \in removed' <=> states'[i].name \notin kept
      OBVIOUS
    <3>1. i \in 1 .. last /\ last \in 1 .. last
      BY <1>1, <1>4
    <3>2. CASE i # index
      BY <1>3, <1>8, <1>12, <3>1, <3>2
    <3>3. CASE i = index
      <4>1. last # index
        BY <1>4, <3>3
      <4>2. states'[i] = states[last] /\ i \notin removed'
        BY <1>3, <1>8, <3>3
      <4>3. QED
        BY <1>11, <1>12, <3>1, <4>1, <4>2
    <3>4. QED
      BY <3>2, <3>3
  <2>3. kept \subseteq {states'[i].name : i \in 1 .. last - 1}
    <3> SUFFICES ASSUME NEW n \in kept PROVE \E i \in 1 .. last - 1 : states'[i].name = n
      OBVIOUS
    <3>1. PICK i \in 1 .. last : states[i].name = n
      BY <1>1 DEF RemovalIsExact, Names
    <3>2. i # index
      BY <1>2, <1>12, <3>1
    <3>3. CASE i = last
      BY <1>4, <1>8, <3>1, <3>2, <3>3
    <3>4. CASE i # last
      BY <1>1, <1>8, <3>1, <3>2, <3>4
    <3>5. QED
      BY <3>3, <3>4
  <2>4. QED
    BY <1>3, <1>7, <2>1, <2>2, <2>3 DEF RemovalIsExact, Names
<1>14. FoundSoFar'
  BY <1>3 DEF FoundSoFar, RemoveState
<1>15. CountersAreEarned'
  <2> DEFINE Earned(s, i) == /\ s.lifeTime <= seen[s.name]
                             /\ i \in removed \/ s.splitCounter <= apart[s.name]
  <2>1. \A i \in 1 .. last : Earned(states[i], i)
    BY DEF CountersAreEarned, last
  <2>2. \A i \in 1 .. last - 1 :
          /\ states'[i].lifeTime <= seen[states'[i].name]
          /\ i \in removed' \/ states'[i].splitCounter <= apart[states'[i].name]
    <3> SUFFICES ASSUME NEW i \in 1 .. last - 1
                 PROVE  /\ states'[i].lifeTime <= seen[states'[i].name]
                        /\ i \in removed' \/ states'[i].splitCounter <= apart[states'[i].name]
      OBVIOUS
    <3>1. i \in 1 .. last /\ last \in 1 .. last
      BY <1>1, <1>4
    <3>2. CASE i # index
      BY <1>3, <1>8, <2>1, <3>1, <3>2
    <3>3. CASE i = index
      <4>1. last \notin removed
        BY <1>11, <3>3, <1>4
      <4>2. QED
        BY <1>8, <2>1, <3>1, <3>3, <4>1
    <3>4. QED
      BY <3>2, <3>3
  <2>3. QED
    BY <1>3, <1>7, <2>2 DEF CountersAreEarned
<1>16. ObstaclesAreReal'
  BY <1>3 DEF ObstaclesAreReal
<1>17. QED
  BY <1>9, <1>10, <1>13, <1>14, <1>15, <1>16

(* Points are assigned to the states, and new states made for the rest.    *)
LEMMA EStepKeeps == IInv /\ EStep => IInv'
<1> SUFFICES ASSUME IInv, EStep PROVE IInv'
  OBVIOUS
<1> USE DEF IInv
<1>1. Cardinality(Unused) \in Nat
  BY MixtureAssumption, FS_Subset, FS_CardinalityType DEF Unused
<1>2. PICK n \in 0 .. Cardinality(Unused) : newStates' = Take(n)
  BY DEF EStep
<1>3. /\ newStates' \in Seq(Name) /\ Len(newStates') = n
      /\ \A i, j \in 1 .. n : newStates'[i] = newStates'[j] => i = j
      /\ \A i \in 1 .. n, j \in 1 .. Len(states) : states[j].name # newStates'[i]
  <2>1. n \in Nat /\ n <= Cardinality(Unused) /\ TypeInv
    BY <1>1
  <2> HIDE DEF IInv
  <2>2. /\ Take(n) \in Seq(Name) /\ Len(Take(n)) = n
        /\ \A i, j \in 1 .. n : Take(n)[i] = Take(n)[j] => i = j
        /\ \A i \in 1 .. n, j \in 1 .. Len(states) : states[j].name # Take(n)[i]
    BY <2>1, TakesASequence
  <2>3. QED
    BY <1>2, <2>2, Zenon
<1>4. TypeInv'
  BY <1>3 DEF TypeInv, EStep
<1>5. NamesDiffer'
  BY <1>3 DEF NamesDiffer, EStep
<1>6. RemovalIsExact' /\ FoundSoFar' /\ CountersAreEarned' /\ ObstaclesAreReal'
  BY DEF EStep, RemovalIsExact, Names, FoundSoFar, CountersAreEarned, ObstaclesAreReal
<1>7. QED
  BY <1>4, <1>5, <1>6

-----------------------------------------------------------------------------
(* What a state of a frame counts stays with what was observed of it.      *)
LEMMA SplitCountIsEarned ==
  ASSUME NEW s \in State, NEW spread \in BOOLEAN
  PROVE  /\ SplitCount(s, spread) \in Nat
         /\ SplitCount(s, spread) <= s.splitCounter + 1
         /\ ~ spread => SplitCount(s, spread) = 0
BY DEF SplitCount, State

(* A number capped by a bound.                                             *)
LEMMA UpToIsNat ==
  ASSUME NEW n \in Nat, NEW bound \in Nat
  PROVE  /\ UpTo(n, bound) \in Nat
         /\ UpTo(n, bound) <= bound /\ UpTo(n, bound) <= n
         /\ n >= bound => UpTo(n, bound) = bound
         /\ \A m \in Nat : m <= n => UpTo(m, bound) <= UpTo(n, bound)
BY DEF UpTo

(* The state in turn changes only in its counters, and its name has its    *)
(* observations entered.                                                   *)
LEMMA LoopStepKeeps ==
  ASSUME IInv, step = "m_step", k \in 1 .. Len(states),
         NEW s \in State, s.name = states[k].name,
         s.lifeTime <= states[k].lifeTime,
         NEW spread \in BOOLEAN, Update(s), Witness(spread),
         \/ k \in removed'
         \/ s.splitCounter <= apart'[states[k].name],
         \/ removed' = removed /\ kept' = kept
         \/ Doom,
         newStates' \in Seq(Name), UNCHANGED obstacles, step' = step, k' = k + 1,
         \A i, j \in 1 .. Len(newStates') : newStates'[i] = newStates'[j] => i = j,
         \A i \in 1 .. Len(states), j \in 1 .. Len(newStates') : states[i].name # newStates'[j]
  PROVE  IInv'
<1> USE DEF IInv
<1> DEFINE new == Lived(s)
           name == states[k].name
<1>1. /\ states[k] \in State /\ \A i \in 1 .. Len(states) : states[i] \in State
      /\ \A i \in 1 .. Len(states) : states[i].name \in Name
      /\ name \in Name
  <2>1. \A i \in 1 .. Len(states) : states[i] \in State
    BY DEF TypeInv
  <2>2. \A i \in 1 .. Len(states) : states[i].name \in Name
    BY <2>1 DEF State
  <2>3. QED
    BY <2>1, <2>2
<1>2. new \in State /\ new.name = name /\ new.splitCounter = s.splitCounter
      /\ new.lifeTime = UpTo(s.lifeTime + 1, LIFE)
  <2>1. s.lifeTime + 1 \in Nat
    BY DEF State
  <2>2. UpTo(s.lifeTime + 1, LIFE) \in Nat
    BY <2>1, LifeIsLarger, UpToIsNat
  <2>3. QED
    BY <2>2 DEF Lived, State
<1>3. states' = [states EXCEPT ![k] = new]
  BY DEF Update
<1> HIDE DEF new, name
<1>4. /\ states' \in Seq(State) /\ Len(states') = Len(states)
      /\ DOMAIN states' = 1 .. Len(states) /\ DOMAIN states = 1 .. Len(states)
      /\ \A i \in 1 .. Len(states) : states'[i] = IF i = k THEN new ELSE states[i]
  BY <1>2, <1>3 DEF TypeInv
<1>5. \A i \in 1 .. Len(states) : states'[i].name = states[i].name
  <2> SUFFICES ASSUME NEW i \in 1 .. Len(states) PROVE states'[i].name = states[i].name
    OBVIOUS
  <2>1. CASE i = k
    BY <1>2, <1>4, <2>1 DEF name
  <2>2. CASE i # k
    BY <1>4, <2>2
  <2>3. QED
    BY <2>1, <2>2
<1>6. /\ apart[name] \in Nat /\ seen[name] \in Nat /\ NUM_SPLIT_FRAMES \in Nat
      /\ apart \in [Name -> Nat] /\ seen \in [Name -> Nat]
  BY <1>1, MixtureAssumption DEF TypeInv
<1>7. /\ apart' = [apart EXCEPT ![name] = IF spread THEN UpTo(apart[name] + 1, NUM_SPLIT_FRAMES) ELSE 0]
      /\ seen' = [seen EXCEPT ![name] = UpTo(seen[name] + 1, LIFE)]
  BY DEF Witness, name
<1>8. /\ UpTo(apart[name] + 1, NUM_SPLIT_FRAMES) \in Nat
      /\ UpTo(seen[name] + 1, LIFE) \in Nat
  <2>1. apart[name] + 1 \in Nat /\ seen[name] + 1 \in Nat
    BY <1>6
  <2>2. QED
    BY <1>6, <2>1, LifeIsLarger, UpToIsNat
<1>9. apart' \in [Name -> Nat] /\ seen' \in [Name -> Nat]
  BY <1>6, <1>7, <1>8
<1>10. TypeInv'
  BY <1>4, <1>9 DEF TypeInv
<1>11. NamesDiffer'
  <2>1. \A i, j \in 1 .. Len(states') : states'[i].name = states'[j].name => i = j
    BY <1>4, <1>5 DEF NamesDiffer
  <2>2. \A i \in 1 .. Len(states'), j \in 1 .. Len(newStates') :
          states'[i].name # newStates'[j]
    BY <1>4, <1>5
  <2>3. QED
    BY <2>1, <2>2 DEF NamesDiffer
<1>12. \A i \in 1 .. Len(states) : i # k => states[i].name # name
  BY DEF NamesDiffer, name
<1>13. removed' \subseteq 1 .. Len(states) /\ removed \subseteq removed'
  BY <1>4 DEF Doom, RemovalIsExact
<1>14. RemovalIsExact'
  <2>1. /\ kept \subseteq {states[i].name : i \in 1 .. Len(states)}
        /\ \A i \in 1 .. Len(states) : i \in removed <=> states[i].name \notin kept
    BY <1>4 DEF RemovalIsExact, Names
  <2>2. kept' \subseteq {states[i].name : i \in 1 .. Len(states)}
    BY <2>1 DEF Doom
  <2>3. \A i \in 1 .. Len(states) : i \in removed' <=> states[i].name \notin kept'
    <3>1. CASE removed' = removed /\ kept' = kept
      BY <2>1, <3>1
    <3>2. CASE Doom
      BY <1>12, <2>1, <3>2 DEF Doom, name
    <3>3. QED
      BY <3>1, <3>2
  <2>4. QED
    <3>1. {states[i].name : i \in 1 .. Len(states)} \subseteq Names'
      <4> SUFFICES ASSUME NEW i \in 1 .. Len(states)
                   PROVE  \E j \in DOMAIN states' : states'[j].name = states[i].name
        BY DEF Names
      <4>1. i \in DOMAIN states' /\ states'[i].name = states[i].name
        BY <1>4, <1>5
      <4>2. QED
        BY <4>1
    <3>2. \A i \in DOMAIN states' : i \in removed' <=> states'[i].name \notin kept'
      BY <1>4, <1>5, <2>3
    <3>3. removed' \subseteq DOMAIN states'
      BY <1>4, <1>13
    <3>4. QED
      BY <2>2, <3>1, <3>2, <3>3 DEF RemovalIsExact
<1>15. FoundSoFar'
  <2>1. k \in Nat /\ k >= 1 /\ \A i \in removed : i < k
    BY DEF FoundSoFar, TypeInv
  <2>2. removed' \subseteq removed \cup {k}
    BY DEF Doom
  <2>3. removed \subseteq Nat
    BY <1>4 DEF RemovalIsExact
  <2>4. \A i \in removed' : i < k + 1
    BY <2>1, <2>2, <2>3
  <2>5. QED
    BY <2>1, <2>4 DEF FoundSoFar
<1>16. CountersAreEarned'
  <2> SUFFICES ASSUME NEW i \in 1 .. Len(states)
               PROVE  /\ states'[i].lifeTime <= seen'[states'[i].name]
                      /\ i \in removed' \/ states'[i].splitCounter <= apart'[states'[i].name]
    BY <1>4 DEF CountersAreEarned
  <2>1. CASE i # k
    <3>1. states'[i] = states[i] /\ states[i].name # name /\ states[i].name \in Name
      BY <1>1, <1>4, <1>12, <2>1
    <3>2. seen'[states[i].name] = seen[states[i].name] /\ apart'[states[i].name] = apart[states[i].name]
      BY <1>6, <1>7, <3>1
    <3>3. QED
      BY <1>13, <3>1, <3>2 DEF CountersAreEarned
  <2>2. CASE i = k
    <3>1. states'[i] = new /\ new.name = name
      BY <1>2, <1>4, <2>2
    <3>2. s.lifeTime \in Nat /\ states[k].lifeTime \in Nat /\ states[k].lifeTime <= seen[name]
      BY <1>1 DEF CountersAreEarned, State, name
    <3>3. UpTo(s.lifeTime + 1, LIFE) <= UpTo(seen[name] + 1, LIFE)
      <4>1. s.lifeTime <= states[k].lifeTime
        OBVIOUS
      <4>2. s.lifeTime + 1 \in Nat /\ seen[name] + 1 \in Nat /\ s.lifeTime + 1 <= seen[name] + 1
        <5> DEFINE b == states[k].lifeTime
                   c == seen[name]
        <5>1. c \in Nat
          BY <1>6
        <5>2. b \in Nat /\ b <= c /\ s.lifeTime <= b
          BY <3>2, <4>1
        <5> HIDE DEF b, c
        <5>3. c + 1 \in Nat /\ s.lifeTime + 1 <= c + 1 /\ s.lifeTime + 1 \in Nat
          BY <3>2, <5>1, <5>2
        <5>4. QED
          BY <5>3 DEF c
      <4>3. \A n, m \in Nat : m <= n => UpTo(m, LIFE) <= UpTo(n, LIFE)
        BY LifeIsLarger DEF UpTo
      <4>4. QED
        BY <4>2, <4>3
    <3>4. seen'[name] = UpTo(seen[name] + 1, LIFE)
      BY <1>1, <1>6, <1>7
    <3>5. QED
      BY <1>2, <2>2, <3>1, <3>3, <3>4 DEF name
  <2>3. QED
    BY <2>1, <2>2
<1>17. ObstaclesAreReal'
  BY DEF ObstaclesAreReal
<1>18. QED
  BY <1>10, <1>11, <1>14, <1>15, <1>16, <1>17

(* A state is fitted, reset, split or, of low weight, marked for removal.  *)
LEMMA MStepKeeps == IInv /\ MStep => IInv'
<1> SUFFICES ASSUME IInv, MStep PROVE IInv'
  OBVIOUS
<1> DEFINE s == states[k]
<1>1. TypeInv /\ NamesDiffer /\ RemovalIsExact /\ FoundSoFar /\ CountersAreEarned
  BY DEF IInv
<1>2. /\ step = "m_step" /\ k \in 1 .. Len(states)
      /\ step' = step /\ k' = k + 1 /\ obstacles' = obstacles
  BY <1>1 DEF MStep, TypeInv, FoundSoFar
<1>3. s \in State /\ k \notin removed /\ s.name \in Name
  <2>1. s \in State
    BY <1>1, <1>2 DEF TypeInv
  <2>2. k \notin removed
    BY <1>1, <1>2 DEF FoundSoFar, TypeInv
  <2>3. QED
    BY <2>1, <2>2 DEF State
<1>4. /\ s.lifeTime \in Nat /\ s.splitCounter \in Nat /\ s.resets \in Nat
      /\ apart[s.name] \in Nat /\ s.splitCounter <= apart[s.name]
  BY <1>1, <1>2, <1>3 DEF State, TypeInv, CountersAreEarned
<1>5. /\ newStates \in Seq(Name)
      /\ \A i, j \in 1 .. Len(newStates) : newStates[i] = newStates[j] => i = j
      /\ \A i \in 1 .. Len(states), j \in 1 .. Len(newStates) : states[i].name # newStates[j]
  BY <1>1 DEF TypeInv, NamesDiffer
<1>6. NUM_SPLIT_FRAMES \in Nat \ {0}
  BY MixtureAssumption
<1>7. CASE LowWeight
  <2>1. UNCHANGED <<states, newStates, apart, seen, step, obstacles>> /\ Doom /\ k' = k + 1
    BY <1>2, <1>7 DEF LowWeight
  <2>2. TypeInv' /\ NamesDiffer'
    BY <1>1, <2>1 DEF TypeInv, NamesDiffer
  <2>3. RemovalIsExact'
    <3>1. DOMAIN states = 1 .. Len(states)
      BY <1>1 DEF TypeInv
    <3>2. \A i \in 1 .. Len(states) : i # k => states[i].name # s.name
      BY <1>1, <1>2 DEF NamesDiffer
    <3>3. QED
      BY <1>1, <1>2, <2>1, <3>1, <3>2 DEF RemovalIsExact, Names, Doom
  <2>4. FoundSoFar'
    <3>1. removed \subseteq Nat
      BY <1>1 DEF RemovalIsExact, TypeInv
    <3>2. QED
      BY <1>1, <1>2, <2>1, <3>1 DEF FoundSoFar, TypeInv, Doom
  <2>5. CountersAreEarned' /\ ObstaclesAreReal'
    BY <1>1, <1>2, <2>1 DEF CountersAreEarned, ObstaclesAreReal, Doom
  <2>6. QED
    BY <2>2, <2>3, <2>4, <2>5 DEF IInv
<1>8. ASSUME NEW spread \in BOOLEAN, MaximizeOnly(spread) PROVE IInv'
  <2> DEFINE count == SplitCount(s, spread)
             t == [s EXCEPT !.splitCounter = count]
  <2>1. /\ count \in Nat /\ count <= s.splitCounter + 1 /\ count < NUM_SPLIT_FRAMES
        /\ ~ spread => count = 0
    BY <1>3, <1>8, SplitCountIsEarned DEF MaximizeOnly
  <2>2. Update(t) /\ Witness(spread) /\ UNCHANGED <<newStates, removed, kept>>
    BY <1>8 DEF MaximizeOnly
  <2> HIDE DEF count
  <2>3. t \in State /\ t.name = s.name /\ t.lifeTime = s.lifeTime /\ t.splitCounter = count
    BY <1>3, <2>1 DEF State
  <2>4. apart'[s.name] = IF spread THEN UpTo(apart[s.name] + 1, NUM_SPLIT_FRAMES) ELSE 0
    BY <1>1, <1>3, <2>2 DEF Witness, TypeInv
  <2>5. count <= apart'[s.name]
    BY <1>4, <1>6, <2>1, <2>4 DEF UpTo
  <2>6. t.lifeTime <= s.lifeTime /\ t.splitCounter <= apart'[s.name]
    BY <1>4, <2>3, <2>5
  <2> HIDE DEF t
  <2>7. QED
    BY <1>2, <1>5, <2>2, <2>3, <2>6, LoopStepKeeps
<1>9. CASE ResetState
  <2> DEFINE t == [NewState(s.name) EXCEPT !.resets = s.resets + 1]
  <2>1. Update(t) /\ Witness(TRUE) /\ UNCHANGED <<newStates, removed, kept>>
    BY <1>9 DEF ResetState
  <2>2. t \in State /\ t.name = s.name /\ t.lifeTime = 0 /\ t.splitCounter = 0
    <3>1. s.resets + 1 \in Nat
      BY <1>4
    <3>2. t = [name |-> s.name, lifeTime |-> 0, splitCounter |-> 0, resets |-> s.resets + 1]
      BY DEF NewState
    <3> HIDE DEF t
    <3>3. QED
      BY <1>3, <3>1, <3>2 DEF State
  <2>3. apart'[s.name] = UpTo(apart[s.name] + 1, NUM_SPLIT_FRAMES)
    BY <1>1, <1>3, <2>1 DEF Witness, TypeInv
  <2>4. 0 <= apart'[s.name]
    BY <1>4, <1>6, <2>3 DEF UpTo
  <2> DEFINE spread == TRUE
  <2>5. spread \in BOOLEAN /\ Witness(spread)
    BY <2>1
  <2>6. t.lifeTime <= s.lifeTime /\ t.splitCounter <= apart'[s.name]
    BY <1>4, <2>2, <2>4
  <2> HIDE DEF t, spread
  <2>7. QED
    BY <1>2, <1>5, <2>1, <2>2, <2>5, <2>6, LoopStepKeeps
<1>10. ASSUME NEW covered \in BOOLEAN, SplitState(covered) PROVE IInv'
  <2> DEFINE count == SplitCount(s, TRUE)
             t == [s EXCEPT !.splitCounter = count]
             two == Take(2)
  <2>1. /\ Update(t) /\ Witness(TRUE) /\ Doom /\ newStates' = newStates \o two
        /\ 2 <= Cardinality(Unused)
    <3>1. Cardinality(Unused) >= 2
      BY <1>10 DEF SplitState
    <3>2. Cardinality(Unused) \in Nat
      BY MixtureAssumption, FS_Subset, FS_CardinalityType DEF Unused
    <3>3. QED
      BY <1>10, <3>1, <3>2 DEF SplitState
  <2>2. /\ two \in Seq(Name) /\ Len(two) = 2
        /\ \A i, j \in 1 .. 2 : two[i] = two[j] => i = j
        /\ \A i \in 1 .. 2 : /\ \A j \in 1 .. Len(states) : states[j].name # two[i]
                             /\ \A j \in 1 .. Len(newStates) : newStates[j] # two[i]
    BY <1>1, <2>1, TakesASequence
  <2>3. count \in Nat
    BY <1>3, SplitCountIsEarned
  <2> HIDE DEF count, two
  <2>4. t \in State /\ t.name = s.name /\ t.lifeTime = s.lifeTime
    BY <1>3, <2>3 DEF State
  <2>5. /\ newStates' \in Seq(Name) /\ Len(newStates') = Len(newStates) + 2
        /\ \A i \in 1 .. Len(newStates') :
             newStates'[i] = IF i <= Len(newStates) THEN newStates[i] ELSE two[i - Len(newStates)]
    <3>1. newStates' = newStates \o two
      BY <2>1
    <3>2. newStates \in Seq(Name) /\ two \in Seq(Name) /\ Len(two) = 2
      BY <1>5, <2>2
    <3>3. /\ newStates \o two \in Seq(Name) /\ Len(newStates \o two) = Len(newStates) + Len(two)
          /\ \A i \in 1 .. Len(newStates) + Len(two) :
               (newStates \o two)[i] = IF i <= Len(newStates) THEN newStates[i]
                                       ELSE two[i - Len(newStates)]
      BY <3>2, ConcatProperties
    <3>4. QED
      BY <3>1, <3>2, <3>3, Zenon
  <2>6. \A i \in 1 .. Len(newStates') :
          \/ i \in 1 .. Len(newStates) /\ newStates'[i] = newStates[i]
          \/ i - Len(newStates) \in 1 .. 2 /\ newStates'[i] = two[i - Len(newStates)]
    BY <1>5, <2>5
  <2>7. \A i, j \in 1 .. Len(newStates') : newStates'[i] = newStates'[j] => i = j
    <3> DEFINE n == Len(newStates)
    <3>1. n \in Nat /\ 1 .. Len(newStates') = 1 .. n + 2
      BY <1>5, <2>5
    <3>2. \A i, j \in 1 .. n : newStates[i] = newStates[j] => i = j
      BY <1>5
    <3>3. \A i \in 1 .. n, d \in 1 .. 2 : newStates[i] # two[d]
      BY <2>2
    <3>4. ASSUME NEW i \in 1 .. n + 2, NEW j \in 1 .. n + 2, newStates'[i] = newStates'[j]
          PROVE  i = j
      <4>1. CASE i \in 1 .. n /\ newStates'[i] = newStates[i]
        BY <2>6, <3>1, <3>2, <3>3, <3>4, <4>1
      <4>2. CASE i - n \in 1 .. 2 /\ newStates'[i] = two[i - n]
        <5>1. j - n \in 1 .. 2 /\ newStates'[j] = two[j - n]
          BY <2>6, <3>1, <3>3, <3>4, <4>2
        <5>2. i - n = j - n
          BY <2>2, <3>4, <4>2, <5>1
        <5>3. QED
          BY <3>1, <5>2
      <4>3. QED
        BY <2>6, <3>1, <4>1, <4>2
    <3>5. QED
      BY <3>1, <3>4
  <2>8. \A i \in 1 .. Len(states), j \in 1 .. Len(newStates') : states[i].name # newStates'[j]
    BY <1>5, <2>2, <2>6
  <2>9. k \in removed'
    BY <2>1 DEF Doom
  <2> DEFINE spread == TRUE
  <2>10. spread \in BOOLEAN /\ Witness(spread)
    BY <2>1
  <2>11. t.lifeTime <= s.lifeTime
    BY <1>4, <2>4
  <2> HIDE DEF t, spread
  <2>12. QED
    BY <1>2, <2>1, <2>4, <2>5, <2>7, <2>8, <2>9, <2>10, <2>11, LoopStepKeeps
<1>11. QED
  BY <1>7, <1>8, <1>9, <1>10 DEF MStep

(* The obstacles are made from the persistent states.                      *)
LEMMA ResultsKeeps == IInv /\ Results => IInv'
<1> SUFFICES ASSUME IInv, Results PROVE IInv'
  OBVIOUS
<1> USE DEF IInv
<1>1. PICK dense \in SUBSET Persistent : obstacles' = [i \in dense |-> states[i].name]
  BY DEF Results
<1>2. /\ UNCHANGED <<states, newStates, removed, kept, apart, seen>>
      /\ step' = "remove" /\ k' = 0
  BY DEF Results
<1>3. TypeInv' /\ NamesDiffer' /\ RemovalIsExact' /\ FoundSoFar' /\ CountersAreEarned'
  <2>1. TypeInv'
    BY <1>2 DEF TypeInv
  <2>2. NamesDiffer' /\ RemovalIsExact' /\ CountersAreEarned'
    BY <1>2 DEF NamesDiffer, RemovalIsExact, Names, CountersAreEarned
  <2>3. FoundSoFar'
    BY <1>2 DEF FoundSoFar
  <2>4. QED
    BY <2>1, <2>2, <2>3
<1>4. ObstaclesAreReal'
  <2> SUFFICES ASSUME NEW id \in dense
               PROVE  seen[states[id].name] >= MIN_PERSISTENT_FRAMES
    BY <1>1, <1>2 DEF ObstaclesAreReal
  <2>1. id \in 1 .. Len(states) /\ states[id].lifeTime >= MIN_PERSISTENT_FRAMES
    BY DEF Persistent, TypeInv
  <2>2. states[id].lifeTime <= seen[states[id].name]
    BY <2>1 DEF CountersAreEarned
  <2>3. states[id] \in State
    BY <2>1 DEF TypeInv
  <2>4. states[id].lifeTime \in Nat /\ seen[states[id].name] \in Nat
    BY <2>3 DEF State, TypeInv
  <2>5. QED
    BY <2>1, <2>2, <2>4, MixtureAssumption
<1>5. QED
  BY <1>3, <1>4

(* The new states are put behind the old ones, and begin to count.         *)
LEMMA FinishKeeps == IInv /\ Finish => IInv'
<1> SUFFICES ASSUME IInv, Finish PROVE IInv'
  OBVIOUS
<1> USE DEF IInv
<1> DEFINE added == [i \in DOMAIN newStates |-> NewState(newStates[i])]
           all == states \o added
           names == {all[i].name : i \in DOMAIN all}
           fresh == {newStates[i] : i \in DOMAIN newStates}
           n == Len(states)
           m == Len(newStates)
<1>1. /\ states' = all /\ kept' = names /\ newStates' = <<>> /\ step' = "idle"
      /\ UNCHANGED <<removed, obstacles, k>> /\ removed = {}
      /\ apart' = [x \in Name |-> IF x \in names \ fresh THEN apart[x] ELSE 0]
      /\ seen' = [x \in Name |-> IF x \in names \ fresh THEN seen[x] ELSE 0]
  BY DEF Finish
<1>2. /\ states \in Seq(State) /\ n \in Nat /\ m \in Nat
      /\ DOMAIN newStates = 1 .. m /\ \A i \in 1 .. m : newStates[i] \in Name
  BY DEF TypeInv
<1>3. /\ added \in [1 .. m -> State]
      /\ \A i \in 1 .. m : /\ added[i].name = newStates[i]
                           /\ added[i].lifeTime = 0 /\ added[i].splitCounter = 0
  BY <1>2 DEF NewState, State
<1>4. added \in Seq(State) /\ Len(added) = m
  BY <1>2, <1>3
<1> HIDE DEF added
<1>5. /\ all \in Seq(State) /\ Len(all) = n + m
      /\ \A i \in 1 .. n + m : all[i] = IF i <= n THEN states[i] ELSE added[i - n]
  <2>1. /\ all \in Seq(State) /\ Len(all) = Len(states) + Len(added)
        /\ \A i \in 1 .. Len(states) + Len(added) :
             all[i] = IF i <= Len(states) THEN states[i] ELSE added[i - Len(states)]
    BY <1>2, <1>4, ConcatProperties
  <2> HIDE DEF all
  <2>2. QED
    BY <1>4, <2>1
<1> HIDE DEF all
<1>6. \A i \in 1 .. n + m :
        \/ i \in 1 .. n /\ all[i] = states[i]
        \/ /\ i - n \in 1 .. m /\ all[i].name = newStates[i - n]
           /\ all[i].lifeTime = 0 /\ all[i].splitCounter = 0
  BY <1>2, <1>3, <1>5
<1>7. \A i \in 1 .. n + m : all[i] \in State /\ all[i].name \in Name
  <2>1. \A i \in 1 .. n + m : all[i] \in State
    BY <1>2, <1>5
  <2>2. QED
    BY <2>1 DEF State
<1>8. DOMAIN all = 1 .. n + m
  BY <1>2, <1>5
<1>9. apart \in [Name -> Nat] /\ seen \in [Name -> Nat]
  BY DEF TypeInv
<1>10. apart' \in [Name -> Nat] /\ seen' \in [Name -> Nat]
  BY <1>1, <1>9
<1>11. TypeInv'
  BY <1>1, <1>5, <1>10 DEF TypeInv
<1>12. NamesDiffer'
  <2>1. \A i, j \in 1 .. n + m : all[i].name = all[j].name => i = j
    <3> SUFFICES ASSUME NEW i \in 1 .. n + m, NEW j \in 1 .. n + m, all[i].name = all[j].name
                 PROVE  i = j
      OBVIOUS
    <3>1. CASE i \in 1 .. n /\ j \in 1 .. n
      BY <1>2, <1>5, <3>1 DEF NamesDiffer
    <3>2. CASE i \in 1 .. n /\ j \notin 1 .. n
      BY <1>2, <1>5, <1>6, <3>2 DEF NamesDiffer
    <3>3. CASE i \notin 1 .. n /\ j \in 1 .. n
      BY <1>2, <1>5, <1>6, <3>3 DEF NamesDiffer
    <3>4. CASE i \notin 1 .. n /\ j \notin 1 .. n
      <4>1. /\ i - n \in 1 .. m /\ all[i].name = newStates[i - n]
            /\ j - n \in 1 .. m /\ all[j].name = newStates[j - n]
        BY <1>6, <3>4
      <4>2. i - n = j - n
        BY <4>1 DEF NamesDiffer
      <4>3. QED
        BY <1>2, <4>2
    <3>5. QED
      BY <3>1, <3>2, <3>3, <3>4
  <2>2. QED
    BY <1>1, <1>5, <2>1 DEF NamesDiffer
<1>13. RemovalIsExact'
  BY <1>1, <1>8 DEF RemovalIsExact, Names
<1>14. FoundSoFar' /\ ObstaclesAreReal'
  BY <1>1 DEF FoundSoFar, ObstaclesAreReal
<1>15. CountersAreEarned'
  <2> SUFFICES ASSUME NEW i \in 1 .. n + m
               PROVE  /\ all[i].lifeTime <= seen'[all[i].name]
                      /\ all[i].splitCounter <= apart'[all[i].name]
    BY <1>1, <1>5 DEF CountersAreEarned
  <2>1. all[i].name \in Name /\ all[i].name \in names
    BY <1>7, <1>8
  <2>2. CASE i \in 1 .. n /\ all[i] = states[i]
    <3>1. all[i].name \notin fresh
      BY <1>2, <2>2 DEF NamesDiffer
    <3>2. seen'[all[i].name] = seen[all[i].name] /\ apart'[all[i].name] = apart[all[i].name]
      BY <1>1, <2>1, <3>1
    <3>3. QED
      BY <1>1, <2>2, <3>2 DEF CountersAreEarned
  <2>3. CASE all[i].lifeTime = 0 /\ all[i].splitCounter = 0
    <3>1. seen'[all[i].name] \in Nat /\ apart'[all[i].name] \in Nat
      BY <1>10, <2>1
    <3>2. QED
      BY <2>3, <3>1
  <2>4. QED
    BY <1>6, <2>2, <2>3
<1>16. QED
  BY <1>11, <1>12, <1>13, <1>14, <1>15

(* The obstacles are passed on, or nothing happens.                        *)
LEMMA PassOnKeeps == IInv /\ (PassOn \/ UNCHANGED vars) => IInv'
<1> SUFFICES ASSUME IInv, PassOn \/ UNCHANGED vars PROVE IInv'
  OBVIOUS
<1>1. /\ UNCHANGED <<step, k, states, newStates, removed, kept, apart, seen>>
      /\ step = "remove" => UNCHANGED obstacles
  BY DEF PassOn, vars
<1>2. QED
  BY <1>1 DEF IInv, TypeInv, NamesDiffer, RemovalIsExact, Names, FoundSoFar, CountersAreEarned,
     ObstaclesAreReal

-----------------------------------------------------------------------------
(* The invariant holds in every state the segmenter reaches.               *)
THEOREM Invariance == Spec => []IInv
<1>1. IInv /\ [Next]_vars => IInv'
  <2> SUFFICES ASSUME IInv, [Next]_vars PROVE IInv'
    OBVIOUS
  <2>1. CASE PassOn \/ UNCHANGED vars
    BY <2>1, PassOnKeeps
  <2>2. CASE Begin
    BY <2>2, BeginKeeps
  <2>3. CASE RemoveState
    BY <2>3, RemoveStateKeeps
  <2>4. CASE EStep
    BY <2>4, EStepKeeps
  <2>5. CASE MStep
    BY <2>5, MStepKeeps
  <2>6. CASE Results
    BY <2>6, ResultsKeeps
  <2>7. CASE Finish
    BY <2>7, FinishKeeps
  <2>8. QED
    BY <2>1, <2>2, <2>3, <2>4, <2>5, <2>6, <2>7 DEF Next
<1>2. QED
  BY <1>1, InitInv, PTL DEF Spec

(* The states removed are those there was a reason to remove, although     *)
(* each removal moves another state to the index of the one removed.       *)
THEOREM RemovesTheRightStates == Spec => []RemovalIsExact
<1>1. IInv => RemovalIsExact
  BY DEF IInv
<1>2. QED
  BY <1>1, Invariance, PTL

(* Obstacles were observed in enough frames.                               *)
THEOREM ObstaclesWereObserved == Spec => []ObstaclesAreReal
<1>1. IInv => ObstaclesAreReal
  BY DEF IInv
<1>2. QED
  BY <1>1, Invariance, PTL

(* States are split after they reached into two clusters often enough.     *)
THEOREM SplitsAreEarned == Spec => SplitIsEarned
<1> DEFINE Earned == step = "m_step" /\ Len(newStates') > Len(newStates)
                       => apart'[states[k].name] = NUM_SPLIT_FRAMES
<1>1. IInv /\ [Next]_vars => [Earned]_vars
  <2> SUFFICES ASSUME IInv, Next, step = "m_step", Len(newStates') > Len(newStates)
               PROVE  apart'[states[k].name] = NUM_SPLIT_FRAMES
    BY DEF vars
  <2> DEFINE s == states[k]
  <2>0. newStates \in Seq(Name) /\ Len(newStates) \in Nat
    BY DEF IInv, TypeInv
  <2>1. newStates' # newStates
    BY <2>0
  <2>2. MStep
    BY <2>1 DEF Next, PassOn, Begin, RemoveState, EStep, Results, Finish
  <2>3. PICK covered \in BOOLEAN : SplitState(covered)
    BY <2>1, <2>2 DEF MStep, LowWeight, MaximizeOnly, ResetState
  <2>4. k \in 1 .. Len(states) /\ k \notin removed
    BY <2>2 DEF MStep, IInv, TypeInv, FoundSoFar
  <2>5. s \in State
    BY <2>4 DEF IInv, TypeInv
  <2>6. s.name \in Name /\ s.splitCounter \in Nat /\ apart[s.name] \in Nat
    BY <2>5 DEF State, IInv, TypeInv
  <2>7. s.splitCounter <= apart[s.name]
    BY <2>4 DEF IInv, CountersAreEarned
  <2>8. SplitCount(s, TRUE) <= s.splitCounter + 1 /\ SplitCount(s, TRUE) \in Nat
    BY <2>5 DEF SplitCount, State
  <2>9. SplitCount(s, TRUE) >= NUM_SPLIT_FRAMES
    BY <2>3 DEF SplitState
  <2>10. apart' = [apart EXCEPT ![s.name] = UpTo(apart[s.name] + 1, NUM_SPLIT_FRAMES)]
    BY <2>3 DEF SplitState, Witness
  <2>11. apart'[s.name] = UpTo(apart[s.name] + 1, NUM_SPLIT_FRAMES)
    BY <2>6, <2>10 DEF IInv, TypeInv
  <2>12. QED
    <3>1. NUM_SPLIT_FRAMES \in Nat
      BY MixtureAssumption
    <3>2. apart[s.name] + 1 >= NUM_SPLIT_FRAMES
      <4> DEFINE count == SplitCount(s, TRUE)
      <4>1. count \in Nat /\ count <= s.splitCounter + 1 /\ count >= NUM_SPLIT_FRAMES
        BY <2>8, <2>9
      <4> HIDE DEF count
      <4>2. QED
        BY <2>6, <2>7, <3>1, <4>1
    <3>3. UpTo(apart[s.name] + 1, NUM_SPLIT_FRAMES) = NUM_SPLIT_FRAMES
      BY <2>6, <3>1, <3>2 DEF UpTo
    <3>4. QED
      BY <2>11, <3>3
<1>2. QED
  BY <1>1, Invariance, PTL DEF Spec, SplitIsEarned
=============================================================================
