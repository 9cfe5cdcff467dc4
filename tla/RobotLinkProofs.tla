--------------------------- MODULE RobotLinkProofs ---------------------------
(***************************************************************************)
(* That the aggregators number the models soundly and the robot gets them  *)
(* in that order, whatever the connection loses, and that the robot stays  *)
(* informed as long as it loses nothing: for any number of obstacles,      *)
(* surfaces and parts.                                                     *)
(***************************************************************************)
EXTENDS RobotLink, NaturalSets, FiniteSetTheorems, SequenceTheorems, TLAPS

Msg == Message(Nat, Nat, Surface)

View == [models : UNION {[D -> SUBSET Nat] : D \in SUBSET Nat}, surfaces : SUBSET Surface]

TypeInv ==
  /\ obstacles \in Seq([id : Obstacle, parts : 0 .. MaxParts])
  /\ surfaces \in Seq(Surface)
  /\ next_id \in Nat
  /\ robot_ids \in [previous_ids -> Seq(Nat)]
  /\ queue \in Seq(Msg)
  /\ robot \in View
  /\ untold \subseteq 0 .. next_id - 1

(* Only what the tracker remembers is deleted.                             *)
DeletedWereThere == phase = "deletions" => deleted \subseteq previous_ids

Sets(msg) == msg.action = "SET_SSV"

(* The models in the queue follow each other, come after those the robot   *)
(* has, and were numbered already.                                         *)
QueueInOrder ==
  /\ \A m \in DOMAIN robot.models : m < next_id
  /\ \A i \in 1 .. Len(queue) :
       Sets(queue[i]) =>
         /\ queue[i].model < next_id
         /\ \A m \in DOMAIN robot.models : m < queue[i].model
         /\ \A j \in 1 .. Len(queue) : i < j /\ Sets(queue[j]) => queue[i].model < queue[j].model

IInv == TypeInv /\ NumberingIsSound /\ DeletedWereThere /\ QueueInOrder

-----------------------------------------------------------------------------
(* The two helpers on numbers.                                             *)
LEMMA SurplusIs ==
  ASSUME NEW a \in Int, NEW b \in Int
  PROVE  Surplus(a, b) = IF a > b THEN a - b ELSE 0
<1> DEFINE S == {0, a - b}
<1>1. \E x \in S : \A y \in S : x >= y
  OBVIOUS
<1>2. Max(S) \in S /\ \A y \in S : Max(S) >= y
  BY <1>1 DEF Max
<1>3. QED
  BY <1>2 DEF Surplus

(* The smaller of two integers.                                            *)
LEMMA MinIs ==
  ASSUME NEW a \in Int, NEW b \in Int
  PROVE  Min({a, b}) = IF a < b THEN a ELSE b
<1> DEFINE S == {a, b}
<1>1. \E x \in S : \A y \in S : x =< y
  OBVIOUS
<1>2. Min(S) \in S /\ \A y \in S : Min(S) =< y
  BY <1>1 DEF Min
<1>3. QED
  BY <1>2

(* Sending takes the oldest message.                                       *)
LEMMA SentIsFirst ==
  ASSUME NEW S, NEW s \in Seq(S), s # <<>>
  PROVE  /\ RemoveAt(s, 1) \in Seq(S)
         /\ Len(RemoveAt(s, 1)) = Len(s) - 1
         /\ \A i \in 1 .. Len(s) - 1 : RemoveAt(s, 1)[i] = s[i + 1]
<1> DEFINE a == SubSeq(s, 1, 0)
           b == SubSeq(s, 2, Len(s))
<1>1. a = <<>>
  OBVIOUS
<1>2. b \in Seq(S) /\ Len(b) = Len(s) - 1 /\ \A i \in 1 .. Len(s) - 1 : b[i] = s[i + 1]
  <2>1. Len(s) \in Nat /\ Len(s) >= 1
    OBVIOUS
  <2>2. \A i \in 2 .. Len(s) : s[i] \in S
    OBVIOUS
  <2>3. /\ b \in Seq(S)
        /\ Len(b) = IF 2 <= Len(s) THEN Len(s) - 2 + 1 ELSE 0
        /\ \A i \in 1 .. Len(s) - 2 + 1 : b[i] = s[2 + i - 1]
    BY <2>1, <2>2, SubSeqProperties
  <2> HIDE DEF b
  <2>4. ASSUME NEW i \in 1 .. Len(s) - 1
        PROVE  b[i] = s[i + 1]
    <3>1. i \in 1 .. Len(s) - 2 + 1 /\ 2 + i - 1 = i + 1
      BY <2>1
    <3>2. QED
      BY <2>3, <3>1
  <2>5. Len(b) = Len(s) - 1
    <3>1. CASE 2 <= Len(s)
      BY <2>1, <2>3, <3>1
    <3>2. CASE ~ (2 <= Len(s))
      <4> DEFINE n == Len(s)
      <4>0. n \in Nat /\ n >= 1 /\ ~ (2 <= n)
        BY <2>1, <3>2
      <4> HIDE DEF n
      <4>1. n = 1
        BY <4>0
      <4>2. Len(b) = 0
        BY <2>3, <3>2, Zenon
      <4>3. QED
        BY <4>1, <4>2 DEF n
    <3>3. QED
      BY <3>1, <3>2
  <2>6. QED
    BY <2>3, <2>4, <2>5
<1> HIDE DEF a, b
<1>3. a \o b = b
  BY <1>1, <1>2
<1>4. RemoveAt(s, 1) = a \o b
  BY DEF RemoveAt, a, b
<1>5. QED
  BY <1>2, <1>3, <1>4

(* The elements of two sequences one after the other.                      *)
LEMMA ConcatIs ==
  ASSUME NEW S, NEW s \in Seq(S), NEW t \in Seq(S), NEW q, q = s \o t
  PROVE  /\ q \in Seq(S) /\ Len(q) = Len(s) + Len(t)
         /\ \A i \in 1 .. Len(s) : q[i] = s[i]
         /\ \A i \in 1 .. Len(t) : q[Len(s) + i] = t[i]
<1>1. q \in Seq(S) /\ Len(q) = Len(s) + Len(t)
  OBVIOUS
<1>2. \A i \in 1 .. Len(s) : q[i] = s[i]
  OBVIOUS
<1>3. ASSUME NEW i \in 1 .. Len(t)
      PROVE  q[Len(s) + i] = t[i]
  <2>1. Len(s) + i \in Len(s) + 1 .. Len(s) + Len(t)
    OBVIOUS
  <2>2. q[Len(s) + i] = t[Len(s) + i - Len(s)]
    BY <2>1
  <2>3. Len(s) + i - Len(s) = i
    OBVIOUS
  <2>4. QED
    BY <2>2, <2>3
<1>4. QED
  BY <1>1, <1>2, <1>3

(* The lists that a frame can hand on.                                     *)
LEMMA ListsAreTyped ==
  /\ ObstacleLists \subseteq Seq([id : Obstacle, parts : 0 .. MaxParts])
  /\ Listing(Surface) \subseteq Seq(Surface)
<1>1. ASSUME NEW S, IsFiniteSet(S), NEW s \in Listing(S)
      PROVE  s \in Seq(S) /\ \E n \in Nat : s \in [1 .. n -> S]
  <2>1. Cardinality(S) \in Nat
    BY <1>1, FS_CardinalityType
  <2>2. s \in BoundedSeq(S, Cardinality(S))
    BY DEF Listing
  <2>3. PICK n \in 0 .. Cardinality(S) : s \in [1 .. n -> S]
    BY <2>2 DEF BoundedSeq, SeqOf
  <2>4. n \in Nat
    BY <2>1
  <2>5. s \in Seq(S)
    BY <2>3, <2>4
  <2>6. QED
    BY <2>3, <2>4, <2>5
<1>2. Listing(Surface) \subseteq Seq(Surface)
  BY <1>1, LinkAssumption
<1>3. ASSUME NEW l \in ObstacleLists
      PROVE  l \in Seq([id : Obstacle, parts : 0 .. MaxParts])
  <2>1. PICK ids \in Listing(Obstacle) : \E parts \in [DOMAIN ids -> 0 .. MaxParts] :
          l = [i \in DOMAIN ids |-> [id |-> ids[i], parts |-> parts[i]]]
    BY DEF ObstacleLists
  <2>2. PICK n \in Nat : ids \in [1 .. n -> Obstacle]
    BY <1>1, LinkAssumption
  <2> DEFINE T == [id : Obstacle, parts : 0 .. MaxParts]
  <2>3. l \in [1 .. n -> T]
    BY <2>1, <2>2
  <2> HIDE DEF T
  <2>4. l \in Seq(T)
    BY <2>2, <2>3
  <2>5. QED
    BY <2>4 DEF T
<1>4. QED
  BY <1>2, <1>3

(* What creates a model names it.                                          *)
LEMMA SetsAModel ==
  ASSUME NEW msg \in Msg, Sets(msg)
  PROVE  msg.model \in Nat
<1>1. CASE msg \in [action : {"SET_SSV", "MODIFY_SSV", "REMOVE_SSV_ONLY_PART"},
                    model : Nat, part : Nat]
  BY <1>1
<1>2. CASE msg \in [action : {"REMOVE_SSV_WHOLE_SEGMENT"}, model : Nat]
  BY <1>2
<1>3. CASE msg \in [action : {"SET_SURFACE", "MODIFY_SURFACE", "REMOVE_SURFACE"},
                    surface : Surface]
  BY <1>3 DEF Sets
<1>4. QED
  BY <1>1, <1>2, <1>3 DEF Msg, Message

(* Messages that create no model can be posted at any time.                *)
LEMMA OthersKeepOrder ==
  ASSUME TypeInv, QueueInOrder, NEW ms \in Seq(Msg),
         \A i \in 1 .. Len(ms) : ~ Sets(ms[i]),
         queue' = queue \o ms, robot' = robot, next_id' \in Nat, next_id' >= next_id
  PROVE  QueueInOrder' /\ queue' \in Seq(Msg)
<1>1. queue' \in Seq(Msg) /\ Len(queue') = Len(queue) + Len(ms)
  BY DEF TypeInv
<1>2. \A i \in 1 .. Len(queue') :
        Sets(queue'[i]) => i \in 1 .. Len(queue) /\ queue'[i] = queue[i]
  <2> SUFFICES ASSUME NEW i \in 1 .. Len(queue'), Sets(queue'[i])
               PROVE  i \in 1 .. Len(queue) /\ queue'[i] = queue[i]
    OBVIOUS
  <2>1. CASE i <= Len(queue)
    BY <1>1, <2>1 DEF TypeInv
  <2>2. CASE i > Len(queue)
    <3>1. i - Len(queue) \in 1 .. Len(ms) /\ queue'[i] = ms[i - Len(queue)]
      BY <1>1, <2>2 DEF TypeInv
    <3>2. QED
      BY <3>1
  <2>3. QED
    BY <1>1, <2>1, <2>2 DEF TypeInv
<1>3. \A i \in 1 .. Len(queue) : Sets(queue[i]) => queue[i].model \in Nat
  <2>1. \A i \in 1 .. Len(queue) : queue[i] \in Msg
    BY DEF TypeInv
  <2>2. QED
    BY <2>1, SetsAModel
<1>4. \A m \in DOMAIN robot.models : m \in Nat
  BY DEF TypeInv, View
<1>5. next_id \in Nat
  BY DEF TypeInv
<1> HIDE DEF TypeInv
<1>6. \A m \in DOMAIN robot'.models : m < next_id'
  BY <1>4, <1>5 DEF QueueInOrder
<1>7. ASSUME NEW i \in 1 .. Len(queue'), Sets(queue'[i])
      PROVE  /\ queue'[i].model < next_id'
             /\ \A m \in DOMAIN robot'.models : m < queue'[i].model
             /\ \A j \in 1 .. Len(queue') :
                  i < j /\ Sets(queue'[j]) => queue'[i].model < queue'[j].model
  <2>1. /\ queue[i].model < next_id /\ queue[i].model \in Nat
        /\ \A m \in DOMAIN robot.models : m < queue[i].model
        /\ \A j \in 1 .. Len(queue) :
             i < j /\ Sets(queue[j]) => queue[i].model < queue[j].model
    BY <1>2, <1>3, <1>7 DEF QueueInOrder
  <2>2. QED
    BY <1>2, <1>5, <1>7, <2>1
<1>8. QED
  BY <1>1, <1>6, <1>7 DEF QueueInOrder

-----------------------------------------------------------------------------
(* Ids stay sound when one obstacle is given a list of its own or new ids. *)
LEMMA RenumberingIsSound ==
  ASSUME TypeInv, NumberingIsSound, NEW o, NEW ids \in Seq(Nat),
         previous_ids' = previous_ids \cup {o},
         robot_ids' = [x \in DOMAIN robot_ids \cup {o} |->
                         IF x = o THEN ids ELSE robot_ids[x]],
         next_id' \in Nat, next_id' >= next_id,
         Len(ids) >= 1, IsInjective(ids),
         \A i \in 1 .. Len(ids) :
           /\ ids[i] < next_id'
           /\ ids[i] >= next_id \/ (o \in DOMAIN robot_ids /\ ids[i] \in Range(robot_ids[o]))
  PROVE  NumberingIsSound' /\ robot_ids' \in [previous_ids' -> Seq(Nat)]
<1>1. DOMAIN robot_ids' = previous_ids'
  BY DEF NumberingIsSound
<1>2. robot_ids' \in [previous_ids' -> Seq(Nat)]
  BY <1>1 DEF TypeInv
<1>3. ASSUME NEW x \in DOMAIN robot_ids'
      PROVE  /\ Len(robot_ids'[x]) >= 1
             /\ IsInjective(robot_ids'[x])
             /\ \A i \in DOMAIN robot_ids'[x] : robot_ids'[x][i] < next_id'
  <2>1. CASE x = o
    BY <2>1
  <2>2. CASE x # o
    <3>1. x \in DOMAIN robot_ids /\ robot_ids'[x] = robot_ids[x]
      BY <2>2
    <3>2. robot_ids[x] \in Seq(Nat)
      BY <3>1 DEF TypeInv
    <3>3. QED
      BY <3>1, <3>2 DEF NumberingIsSound, TypeInv
  <2>3. QED
    BY <2>1, <2>2
<1>4. ASSUME NEW x \in DOMAIN robot_ids, x # o
      PROVE  Range(ids) \cap Range(robot_ids[x]) = {}
  <2> SUFFICES ASSUME NEW i \in 1 .. Len(ids), NEW j \in DOMAIN robot_ids[x],
                      ids[i] = robot_ids[x][j]
               PROVE  FALSE
    BY DEF Range
  <2>1. robot_ids[x] \in Seq(Nat) /\ robot_ids[x][j] < next_id /\ robot_ids[x][j] \in Nat
    <3>1. robot_ids[x] \in Seq(Nat)
      BY DEF TypeInv
    <3>2. robot_ids[x][j] < next_id
      BY DEF NumberingIsSound
    <3>3. QED
      BY <3>1, <3>2
  <2>2. ~ (ids[i] >= next_id)
    BY <2>1 DEF TypeInv
  <2>3. o \in DOMAIN robot_ids /\ ids[i] \in Range(robot_ids[o])
    BY <2>2
  <2>4. ids[i] \in Range(robot_ids[x])
    BY DEF Range
  <2>5. QED
    BY <1>4, <2>3, <2>4 DEF NumberingIsSound
<1>5. ASSUME NEW a \in DOMAIN robot_ids', NEW b \in DOMAIN robot_ids', a # b
      PROVE  Range(robot_ids'[a]) \cap Range(robot_ids'[b]) = {}
  <2>1. CASE a = o
    BY <1>4, <1>5, <2>1
  <2>2. CASE b = o
    BY <1>4, <1>5, <2>2
  <2>3. CASE a # o /\ b # o
    <3>1. /\ a \in DOMAIN robot_ids /\ robot_ids'[a] = robot_ids[a]
          /\ b \in DOMAIN robot_ids /\ robot_ids'[b] = robot_ids[b]
      BY <2>3
    <3>2. QED
      BY <1>5, <3>1 DEF NumberingIsSound
  <2>4. QED
    BY <2>1, <2>2, <2>3
<1>6. QED
  BY <1>1, <1>2, <1>3, <1>5 DEF NumberingIsSound

(* The ids mod_obstacle_cb leaves: those kept, and new ones for parts that *)
(* were added.                                                             *)
LEMMA UpdatedIds ==
  ASSUME next_id \in Nat, NEW ids \in Seq(Nat), Len(ids) >= 1, IsInjective(ids),
         \A i \in DOMAIN ids : ids[i] < next_id, NEW parts \in Nat
  PROVE  LET new == PartsKept(ids, parts) \o PartsAdded(ids, parts)
         IN  /\ new \in Seq(Nat)
             /\ Len(new) >= 1
             /\ IsInjective(new)
             /\ Len(PartsAdded(ids, parts)) \in Nat
             /\ \A i \in 1 .. Len(new) :
                  /\ new[i] < next_id + Len(PartsAdded(ids, parts))
                  /\ new[i] >= next_id \/ new[i] \in Range(ids)
             /\ new[1] = ids[1]
<1> DEFINE n == Len(ids)
           k == IF n < parts + 1 THEN n ELSE parts + 1
           a == IF parts > n - 1 THEN parts - (n - 1) ELSE 0
           kept == SubSeq(ids, 1, k)
           added == [i \in 1 .. a |-> next_id + i - 1]
           new == kept \o added
<1>1. n \in Nat /\ k \in 1 .. n /\ a \in Nat
  OBVIOUS
<1>2. PartsKept(ids, parts) = kept /\ PartsAdded(ids, parts) = added
  <2>1. Min({n, parts + 1}) = k
    <3>1. n \in Int /\ parts + 1 \in Int
      OBVIOUS
    <3> HIDE DEF n
    <3>2. QED
      BY <3>1, MinIs DEF k
  <2>2. Surplus(parts, n - 1) = a
    BY <1>1, SurplusIs
  <2>3. QED
    BY <2>1, <2>2 DEF PartsKept, PartsAdded
<1> HIDE DEF n, k, a
<1>3. kept \in Seq(Nat) /\ Len(kept) = k /\ \A i \in 1 .. k : kept[i] = ids[i]
  BY <1>1 DEF n
<1>4. added \in Seq(Nat) /\ Len(added) = a /\ \A i \in 1 .. a : added[i] = next_id + i - 1
  BY <1>1
<1> HIDE DEF kept, added
<1>5. /\ new \in Seq(Nat) /\ Len(new) = k + a
      /\ \A i \in 1 .. k + a : new[i] = IF i <= k THEN ids[i] ELSE next_id + i - k - 1
  <2>1. new \in Seq(Nat) /\ Len(new) = k + a
    BY <1>1, <1>3, <1>4, ConcatProperties
  <2>2. \A i \in 1 .. k : new[i] = ids[i]
    BY <1>1, <1>3, <1>4
  <2>3. ASSUME NEW i \in 1 .. k + a, i > k
        PROVE  new[i] = next_id + i - k - 1
    <3>1. i - k \in 1 .. a /\ new[i] = added[i - k]
      BY <1>1, <1>3, <1>4, <2>3
    <3>2. QED
      BY <1>1, <1>4, <3>1
  <2>4. QED
    BY <1>1, <2>1, <2>2, <2>3
<1> HIDE DEF new
<1>6. \A i \in 1 .. k : ids[i] \in Nat /\ ids[i] < next_id /\ ids[i] \in Range(ids)
  BY <1>1 DEF Range, n
<1>7. IsInjective(new)
  <2>1. ASSUME NEW i \in 1 .. k, NEW j \in 1 .. k, new[i] = new[j]
        PROVE  i = j
    <3>1. ids[i] = ids[j]
      BY <1>1, <1>5, <2>1
    <3>2. i \in DOMAIN ids /\ j \in DOMAIN ids
      BY <1>1 DEF n
    <3>3. QED
      BY <3>1, <3>2 DEF IsInjective
  <2>2. ASSUME NEW i \in 1 .. k, NEW j \in 1 .. k + a, j > k
        PROVE  new[i] < new[j]
    <3>1. new[i] = ids[i] /\ ids[i] \in Nat /\ ids[i] < next_id
      BY <1>1, <1>5, <1>6
    <3>2. new[j] = next_id + j - k - 1
      BY <1>1, <1>5, <2>2
    <3>3. QED
      BY <1>1, <2>2, <3>1, <3>2
  <2>3. ASSUME NEW i \in 1 .. k + a, NEW j \in 1 .. k + a, i > k, j > k, new[i] = new[j]
        PROVE  i = j
    BY <1>1, <1>5, <2>3
  <2>4. \A i \in 1 .. k + a : new[i] \in Nat
    BY <1>5
  <2>5. \A i \in 1 .. k + a : i > k \/ i \in 1 .. k
    BY <1>1
  <2>6. \A i, j \in 1 .. k + a : new[i] = new[j] => i = j
    BY <2>1, <2>2, <2>3, <2>4, <2>5
  <2>7. QED
    BY <1>1, <1>5, <2>6 DEF IsInjective
<1>8. ASSUME NEW i \in 1 .. k + a
      PROVE  /\ new[i] < next_id + a
             /\ new[i] >= next_id \/ new[i] \in Range(ids)
  <2>1. CASE i <= k
    <3>1. new[i] = ids[i] /\ ids[i] \in Nat /\ ids[i] < next_id /\ ids[i] \in Range(ids)
      BY <1>1, <1>5, <1>6, <2>1
    <3>2. QED
      BY <1>1, <3>1
  <2>2. CASE i > k
    BY <1>1, <1>5, <2>2
  <2>3. QED
    BY <1>1, <2>1, <2>2
<1>9. new[1] = ids[1] /\ Len(new) >= 1
  BY <1>1, <1>5
<1>10. QED
  BY <1>1, <1>2, <1>4, <1>5, <1>7, <1>8, <1>9 DEF new

-----------------------------------------------------------------------------
(* The ids of a new model.                                                 *)
LEMMA IdsOfNewModel ==
  ASSUME TypeInv, NEW parts \in Nat
  PROVE  /\ NewIds(parts) \in Seq(Nat) /\ Len(NewIds(parts)) = parts + 1
         /\ IsInjective(NewIds(parts))
         /\ \A i \in 1 .. parts + 1 : NewIds(parts)[i] = next_id + i - 1
<1>1. next_id \in Nat
  BY DEF TypeInv
<1>2. \A i \in 1 .. parts + 1 : NewIds(parts)[i] = next_id + i - 1 /\ next_id + i - 1 \in Nat
  BY <1>1 DEF NewIds
<1>3. NewIds(parts) \in [1 .. parts + 1 -> Nat]
  BY <1>1 DEF NewIds
<1>4. QED
  BY <1>1, <1>2, <1>3 DEF IsInjective

(* The messages that tell of it: the first creates it.                     *)
LEMMA NewModelInOrder ==
  ASSUME TypeInv, QueueInOrder, NEW parts \in Nat \ {0},
         queue' = queue \o NewMessages(NewIds(parts)), robot' = robot,
         next_id' = next_id + Len(NewIds(parts))
  PROVE  QueueInOrder' /\ queue' \in Seq(Msg) /\ next_id' \in Nat
<1> DEFINE ids == NewIds(parts)
           ms == NewMessages(ids)
<1>1. /\ ids \in Seq(Nat) /\ Len(ids) = parts + 1
      /\ ids[1] = next_id /\ \A i \in 1 .. parts + 1 : ids[i] \in Nat
  <2>1. /\ ids \in Seq(Nat) /\ Len(ids) = parts + 1
        /\ \A i \in 1 .. parts + 1 : ids[i] = next_id + i - 1
    BY IdsOfNewModel
  <2>2. next_id \in Nat /\ 1 \in 1 .. parts + 1
    BY DEF TypeInv
  <2> HIDE DEF ids
  <2>3. ids[1] = next_id
    BY <2>1, <2>2
  <2>4. QED
    BY <2>1, <2>2, <2>3
<1>2. next_id \in Nat /\ next_id' = next_id + parts + 1
  BY <1>1 DEF TypeInv
<1> HIDE DEF ids
<1>3. /\ ms \in Seq(Msg) /\ Len(ms) = parts
      /\ Sets(ms[1]) /\ ms[1].model = next_id
      /\ \A i \in 1 .. parts : Sets(ms[i]) => i = 1
  <2>1. ASSUME NEW i \in 1 .. parts
        PROVE  ms[i] = IF i = 1 THEN SetPart(ids[1], ids[2]) ELSE ModifyPart(ids[1], ids[i + 1])
    BY <1>1 DEF NewMessages
  <2>2. ASSUME NEW i \in 1 .. parts
        PROVE  ms[i] \in Msg
    <3>1. ids[1] \in Nat /\ ids[2] \in Nat /\ ids[i + 1] \in Nat
      BY <1>1
    <3>2. SetPart(ids[1], ids[2]) \in Msg
      BY <3>1 DEF SetPart, Msg, Message
    <3>3. ModifyPart(ids[1], ids[i + 1]) \in Msg
      BY <3>1 DEF ModifyPart, Msg, Message
    <3>4. QED
      BY <2>1, <3>2, <3>3
  <2>3. ms \in [1 .. parts -> Msg]
    <3>1. ms = [i \in 1 .. parts |->
                  IF i = 1 THEN SetPart(ids[1], ids[2]) ELSE ModifyPart(ids[1], ids[i + 1])]
      BY <1>1 DEF NewMessages
    <3>2. QED
      BY <2>2, <3>1
  <2>4. Sets(ms[1]) /\ ms[1].model = next_id
    BY <1>1, <2>1 DEF SetPart, Sets
  <2>5. ASSUME NEW i \in 1 .. parts, i # 1
        PROVE  ~ Sets(ms[i])
    <3>1. ms[i] = ModifyPart(ids[1], ids[i + 1])
      BY <2>1, <2>5
    <3>2. ms[i].action = "MODIFY_SSV"
      BY <3>1 DEF ModifyPart
    <3>3. QED
      BY <3>2 DEF Sets
  <2>6. QED
    BY <2>3, <2>4, <2>5
<1> HIDE DEF ms
<1>4. /\ queue' \in Seq(Msg) /\ Len(queue') = Len(queue) + parts
      /\ \A i \in 1 .. Len(queue) : queue'[i] = queue[i]
      /\ \A i \in 1 .. parts : queue'[Len(queue) + i] = ms[i]
  <2>1. queue \in Seq(Msg) /\ ms \in Seq(Msg) /\ queue' = queue \o ms
    BY <1>3 DEF TypeInv, ms, ids
  <2>2. queue' \in Seq(Msg) /\ Len(queue') = Len(queue) + Len(ms)
    BY <2>1
  <2>3. \A i \in 1 .. Len(queue) : queue'[i] = queue[i]
    BY <2>1
  <2>4. \A i \in 1 .. Len(ms) : queue'[Len(queue) + i] = ms[i]
    BY <2>1, ConcatIs
  <2> HIDE DEF TypeInv
  <2>5. QED
    BY <1>3, <2>2, <2>3, <2>4
<1>5. \A i \in 1 .. Len(queue) : Sets(queue[i]) => queue[i].model \in Nat
  <2>1. \A i \in 1 .. Len(queue) : queue[i] \in Msg
    BY DEF TypeInv
  <2>2. QED
    BY <2>1, SetsAModel
<1>6. Len(queue) \in Nat
  BY DEF TypeInv
<1>7. \A m \in DOMAIN robot.models : m \in Nat /\ m < next_id
  BY DEF TypeInv, View, QueueInOrder
<1> HIDE DEF TypeInv
<1>8. ASSUME NEW i \in 1 .. Len(queue'), Sets(queue'[i])
      PROVE  \/ i \in 1 .. Len(queue) /\ queue'[i] = queue[i]
             \/ i = Len(queue) + 1 /\ queue'[i].model = next_id
  <2>1. CASE i <= Len(queue)
    BY <1>4, <1>6, <2>1
  <2>2. CASE i > Len(queue)
    <3>1. PICK d \in 1 .. parts : i = Len(queue) + d
      <4>1. i - Len(queue) \in 1 .. parts
        BY <1>4, <1>6, <2>2
      <4>2. QED
        BY <1>6, <4>1
    <3>2. d = 1
      BY <1>3, <1>4, <1>8, <3>1
    <3>3. QED
      BY <1>3, <1>4, <3>1, <3>2
  <2>3. QED
    BY <1>4, <1>6, <2>1, <2>2
<1>9. ASSUME NEW i \in 1 .. Len(queue'), Sets(queue'[i])
      PROVE  /\ queue'[i].model < next_id'
             /\ \A m \in DOMAIN robot'.models : m < queue'[i].model
             /\ \A j \in 1 .. Len(queue') :
                  i < j /\ Sets(queue'[j]) => queue'[i].model < queue'[j].model
  <2>1. CASE i \in 1 .. Len(queue) /\ queue'[i] = queue[i]
    <3>1. /\ queue[i].model < next_id /\ queue[i].model \in Nat
          /\ \A m \in DOMAIN robot.models : m < queue[i].model
          /\ \A j \in 1 .. Len(queue) :
               i < j /\ Sets(queue[j]) => queue[i].model < queue[j].model
      BY <1>5, <1>9, <2>1 DEF QueueInOrder
    <3>2. ASSUME NEW j \in 1 .. Len(queue'), i < j, Sets(queue'[j])
          PROVE  queue'[i].model < queue'[j].model
      <4>1. CASE j \in 1 .. Len(queue) /\ queue'[j] = queue[j]
        BY <2>1, <3>1, <3>2, <4>1
      <4>2. CASE queue'[j].model = next_id
        BY <2>1, <3>1, <4>2
      <4>3. QED
        BY <1>8, <3>2, <4>1, <4>2
    <3>3. queue'[i].model < next_id'
      BY <1>2, <2>1, <3>1
    <3>4. \A m \in DOMAIN robot'.models : m < queue'[i].model
      BY <2>1, <3>1
    <3>5. QED
      BY <3>2, <3>3, <3>4
  <2>2. CASE i = Len(queue) + 1 /\ queue'[i].model = next_id
    <3>1. ASSUME NEW j \in 1 .. Len(queue'), i < j, Sets(queue'[j])
          PROVE  FALSE
      <4>1. j <= Len(queue) + 1
        BY <1>6, <1>8, <3>1
      <4>2. QED
        BY <1>6, <2>2, <3>1, <4>1
    <3>2. QED
      BY <1>2, <1>7, <2>2, <3>1
  <2>3. QED
    BY <1>8, <1>9, <2>1, <2>2
<1>10. \A m \in DOMAIN robot'.models : m < next_id'
  BY <1>2, <1>7
<1>11. QueueInOrder'
  BY <1>9, <1>10 DEF QueueInOrder
<1>12. QED
  BY <1>2, <1>4, <1>11

(* What a message makes of the robot's view.                               *)
LEMMA ViewAfter ==
  ASSUME NEW view \in View, NEW msg \in Msg
  PROVE  /\ After(view, msg) \in View
         /\ \A m \in DOMAIN After(view, msg).models :
              m \in DOMAIN view.models \/ (Sets(msg) /\ m = msg.model)
<1> DEFINE M == view.models
<1>1. /\ view = [models |-> M, surfaces |-> view.surfaces]
      /\ M \in [DOMAIN M -> SUBSET Nat] /\ DOMAIN M \subseteq Nat
      /\ view.surfaces \subseteq Surface
  BY DEF View
<1>2. CASE Confusing(view, msg)
  BY <1>2 DEF After
<1>3. CASE ~ Confusing(view, msg)
  <2>1. CASE msg.action = "SET_SSV"
    <3> DEFINE N == [m \in DOMAIN M \cup {msg.model} |-> IF m = msg.model THEN {msg.part} ELSE M[m]]
    <3>1. msg.model \in Nat /\ msg.part \in Nat
      BY <2>1 DEF Msg, Message
    <3>2. N \in [DOMAIN M \cup {msg.model} -> SUBSET Nat] /\ DOMAIN M \cup {msg.model} \subseteq Nat
      BY <1>1, <3>1
    <3>3. After(view, msg) = [models |-> N, surfaces |-> view.surfaces]
      BY <1>1, <1>3, <2>1 DEF After
    <3>4. QED
      BY <1>1, <2>1, <3>2, <3>3 DEF View, Sets
  <2>2. CASE msg.action = "MODIFY_SSV"
    <3> DEFINE N == [M EXCEPT ![msg.model] = @ \cup {msg.part}]
    <3>1. msg.part \in Nat
      BY <2>2 DEF Msg, Message
    <3>2. N \in [DOMAIN M -> SUBSET Nat]
      BY <1>1, <3>1
    <3>3. After(view, msg) = [models |-> N, surfaces |-> view.surfaces]
      BY <1>1, <1>3, <2>2 DEF After
    <3>4. QED
      BY <1>1, <3>2, <3>3 DEF View
  <2>3. CASE msg.action = "REMOVE_SSV_ONLY_PART"
    <3> DEFINE N == [M EXCEPT ![msg.model] = @ \ {msg.part}]
    <3>1. N \in [DOMAIN M -> SUBSET Nat]
      BY <1>1
    <3>2. After(view, msg) = [models |-> N, surfaces |-> view.surfaces]
      BY <1>1, <1>3, <2>3 DEF After
    <3>3. QED
      BY <1>1, <3>1, <3>2 DEF View
  <2>4. CASE msg.action = "REMOVE_SSV_WHOLE_SEGMENT"
    <3> DEFINE D == DOMAIN M \ {msg.model}
               N == [m \in D |-> M[m]]
    <3>1. N \in [D -> SUBSET Nat] /\ D \subseteq Nat
      BY <1>1
    <3>2. After(view, msg) = [models |-> N, surfaces |-> view.surfaces]
      BY <1>1, <1>3, <2>4 DEF After, Restrict
    <3>3. QED
      BY <1>1, <3>1, <3>2 DEF View
  <2>5. CASE msg.action \in {"SET_SURFACE", "MODIFY_SURFACE", "REMOVE_SURFACE"}
    <3>1. msg.surface \in Surface
      BY <2>5 DEF Msg, Message
    <3>2. /\ After(view, msg).models = M
          /\ After(view, msg) = [models |-> M, surfaces |-> After(view, msg).surfaces]
          /\ After(view, msg).surfaces \subseteq Surface
      BY <1>1, <1>3, <2>5, <3>1 DEF After
    <3>3. QED
      BY <1>1, <3>2 DEF View
  <2>6. QED
    BY <2>1, <2>2, <2>3, <2>4, <2>5 DEF Msg, Message
<1>4. QED
  BY <1>2, <1>3

-----------------------------------------------------------------------------
(* A step that neither numbers, posts nor sends.                           *)
LEMMA QuietStep ==
  ASSUME IInv, UNCHANGED <<previous_ids, robot_ids, next_id, untold, queue, robot>>,
         obstacles' \in Seq([id : Obstacle, parts : 0 .. MaxParts]), surfaces' \in Seq(Surface),
         DeletedWereThere'
  PROVE  IInv'
<1>1. NumberingIsSound'
  BY DEF IInv, NumberingIsSound
<1>2. QueueInOrder'
  BY DEF IInv, QueueInOrder
<1>3. TypeInv'
  BY DEF IInv, TypeInv
<1>4. QED
  BY <1>1, <1>2, <1>3 DEF IInv

(* A step that posts, at most, messages that create no model, and numbers  *)
(* nothing.                                                                *)
LEMMA PostingStep ==
  ASSUME IInv, UNCHANGED <<previous_ids, robot_ids, next_id, untold, robot, obstacles>>,
         surfaces' \in Seq(Surface), DeletedWereThere',
         NEW msg \in Msg, ~ Sets(msg), queue' = queue \/ Send(<<msg>>)
  PROVE  IInv'
<1>1. CASE queue' = queue
  BY <1>1, QuietStep DEF IInv, TypeInv
<1>2. CASE Send(<<msg>>)
  <2>1. <<msg>> \in Seq(Msg) /\ \A i \in 1 .. Len(<<msg>>) : ~ Sets(<<msg>>[i])
    OBVIOUS
  <2>2. QueueInOrder' /\ queue' \in Seq(Msg)
    <3>1. TypeInv /\ QueueInOrder /\ queue' = queue \o <<msg>> /\ robot' = robot
      BY <1>2 DEF IInv, Send
    <3>2. next_id' \in Nat /\ next_id' >= next_id
      BY DEF IInv, TypeInv
    <3>3. QED
      BY <2>1, <3>1, <3>2, OthersKeepOrder
  <2>3. NumberingIsSound'
    BY DEF IInv, NumberingIsSound
  <2>4. TypeInv'
    BY <2>2 DEF IInv, TypeInv
  <2>5. QED
    BY <2>2, <2>3, <2>4 DEF IInv
<1>3. QED
  BY <1>1, <1>2

(* The rest of the obstacles.                                              *)
LEMMA NextObstacleTyped ==
  ASSUME TypeInv, NEW o, NEW parts, NextObstacle(o, parts)
  PROVE  /\ o \in Obstacle /\ parts \in Nat
         /\ obstacles' \in Seq([id : Obstacle, parts : 0 .. MaxParts])
         /\ DeletedWereThere'
<1> DEFINE T == [id : Obstacle, parts : 0 .. MaxParts]
<1>1. Head(obstacles) \in T /\ Tail(obstacles) \in Seq(T)
  <2>1. obstacles \in Seq(T) /\ obstacles # <<>>
    BY DEF TypeInv, NextObstacle
  <2> HIDE DEF T
  <2>2. QED
    BY <2>1
<1>2. MaxParts \in Nat
  BY LinkAssumption
<1>3. phase' = "obstacles"
  BY DEF NextObstacle
<1>4. QED
  BY <1>1, <1>2, <1>3 DEF NextObstacle, DeletedWereThere

(* A new obstacle is told to the robot.                                    *)
LEMMA NewObstacleStep ==
  ASSUME IInv, NEW o \in Obstacle, NEW parts \in 0 .. MaxParts, new_obstacle_cb(o, parts)
  PROVE  IInv'
<1> DEFINE ids == NewIds(parts)
<1>1. /\ parts \in Nat
      /\ obstacles' \in Seq([id : Obstacle, parts : 0 .. MaxParts])
      /\ DeletedWereThere'
  BY NextObstacleTyped DEF IInv, new_obstacle_cb
<1>2. /\ queue' = queue \o NewMessages(ids) /\ next_id' = next_id + Len(ids)
      /\ robot_ids' = [x \in DOMAIN robot_ids \cup {o} |-> IF x = o THEN ids ELSE robot_ids[x]]
      /\ previous_ids' = previous_ids \cup {o}
      /\ robot' = robot /\ surfaces' = surfaces
      /\ untold' \subseteq untold \cup {ids[1]}
  BY DEF new_obstacle_cb, NextObstacle, Send, service_vars
<1>3. /\ ids \in Seq(Nat) /\ Len(ids) = parts + 1 /\ IsInjective(ids)
      /\ \A i \in 1 .. parts + 1 : ids[i] = next_id + i - 1
  BY <1>1, IdsOfNewModel DEF IInv
<1>4. QueueInOrder' /\ queue' \in Seq(Msg) /\ next_id' \in Nat
  <2>1. CASE parts = 0
    <3>1. Len(ids) = 1
      BY <1>3, <2>1
    <3> HIDE DEF ids
    <3> DEFINE ms == NewMessages(ids)
    <3>2. ms \in Seq(Msg) /\ \A i \in 1 .. Len(ms) : ~ Sets(ms[i])
      BY <3>1 DEF NewMessages
    <3>3. next_id' \in Nat /\ next_id' >= next_id /\ queue' = queue \o ms
      BY <1>2, <3>1 DEF IInv, TypeInv
    <3> HIDE DEF ms
    <3>4. QED
      BY <1>2, <3>2, <3>3, OthersKeepOrder DEF IInv
  <2>2. CASE parts # 0
    BY <1>1, <1>2, <2>2, NewModelInOrder DEF IInv
  <2>3. QED
    BY <2>1, <2>2
<1> HIDE DEF ids
<1>5. next_id \in Nat /\ next_id' = next_id + parts + 1
  BY <1>2, <1>3 DEF IInv, TypeInv
<1>6. \A i \in 1 .. Len(ids) : ids[i] < next_id' /\ ids[i] >= next_id
  BY <1>1, <1>3, <1>5
<1>7. NumberingIsSound' /\ robot_ids' \in [previous_ids' -> Seq(Nat)]
  <2>1. Len(ids) >= 1 /\ next_id' >= next_id
    BY <1>1, <1>3, <1>5
  <2>2. QED
    BY <1>2, <1>3, <1>4, <1>6, <2>1, RenumberingIsSound DEF IInv
<1>8. TypeInv'
  <2>1. untold' \subseteq 0 .. next_id' - 1
    <3>1. ids[1] = next_id
      BY <1>1, <1>3, <1>5
    <3>2. QED
      BY <1>1, <1>2, <1>5, <3>1 DEF IInv, TypeInv
  <2>2. QED
    BY <1>1, <1>2, <1>4, <1>7, <2>1 DEF IInv, TypeInv
<1>9. QED
  BY <1>1, <1>4, <1>7, <1>8 DEF IInv

(* The messages that change a model create none.                           *)
LEMMA ChangesOnlyModify ==
  ASSUME NEW ids \in Seq(Nat), Len(ids) >= 1, NEW new \in Seq(Nat), Len(new) >= 1,
         NEW parts \in Nat
  PROVE  LET ms == PartsDeleted(ids, parts) \o PartsModified(new)
         IN  ms \in Seq(Msg) /\ \A i \in 1 .. Len(ms) : ~ Sets(ms[i])
<1> DEFINE Changes == {m \in Msg : ~ Sets(m)}
           n == Len(ids) - 1
           d == IF n > parts THEN n - parts ELSE 0
<1>1. n \in Nat /\ d \in 0 .. n
  OBVIOUS
<1>2. \A a, b \in Nat : DeletePart(a, b) \in Changes /\ ModifyPart(a, b) \in Changes
  BY DEF DeletePart, ModifyPart, Msg, Message, Sets
<1>3. ids[1] \in Nat /\ new[1] \in Nat
  OBVIOUS
<1>4. PartsDeleted(ids, parts) \in [1 .. d -> Changes]
  <2>1. Surplus(n, parts) = d
    BY <1>1, SurplusIs
  <2>2. \A i \in 1 .. d : ids[n - (i - 1)] \in Nat
    <3>1. \A i \in 1 .. d : n - (i - 1) \in 1 .. Len(ids)
      BY <1>1
    <3>2. \A j \in 1 .. Len(ids) : ids[j] \in Nat
      OBVIOUS
    <3> HIDE DEF n, d
    <3>3. QED
      BY <3>1, <3>2
  <2> HIDE DEF Changes, n, d
  <2>3. \A i \in 1 .. d : DeletePart(ids[1], ids[n - (i - 1)]) \in Changes
    BY <1>2, <1>3, <2>2
  <2>4. PartsDeleted(ids, parts) = [i \in 1 .. d |-> DeletePart(ids[1], ids[n - (i - 1)])]
    BY <2>1 DEF PartsDeleted, n
  <2>5. QED
    BY <2>3, <2>4
<1>5. PartsModified(new) \in [1 .. Len(new) - 1 -> Changes]
  <2>1. \A i \in 1 .. Len(new) - 1 : new[i + 1] \in Nat
    OBVIOUS
  <2> HIDE DEF Changes
  <2>2. QED
    BY <1>2, <1>3, <2>1 DEF PartsModified
<1> DEFINE a == PartsDeleted(ids, parts)
           b == PartsModified(new)
           ms == a \o b
<1>6. a \in Seq(Changes) /\ b \in Seq(Changes)
  <2>1. ASSUME NEW k \in Nat, NEW T, NEW f \in [1 .. k -> T]
        PROVE  f \in Seq(T)
    OBVIOUS
  <2>2. d \in Nat /\ Len(new) - 1 \in Nat
    BY <1>1
  <2> HIDE DEF Changes, n, d, a, b
  <2>3. a \in Seq(Changes)
    BY <1>4, <2>1, <2>2 DEF a
  <2>4. b \in Seq(Changes)
    BY <1>5, <2>1, <2>2 DEF b
  <2>5. QED
    BY <2>3, <2>4
<1> HIDE DEF a, b, Changes
<1>7. ms \in Seq(Changes)
  BY <1>6
<1> HIDE DEF ms
<1>8. ms \in Seq(Msg) /\ \A i \in 1 .. Len(ms) : ~ Sets(ms[i])
  <2>1. \A i \in 1 .. Len(ms) : ms[i] \in Changes
    BY <1>7
  <2>2. Changes \subseteq Msg /\ \A x \in Changes : ~ Sets(x)
    BY DEF Changes
  <2>3. ms \in Seq(Msg)
    BY <1>7, <2>2
  <2>4. QED
    BY <2>1, <2>2, <2>3
<1>9. QED
  BY <1>8 DEF ms, a, b

(* A modified obstacle is told to the robot.                               *)
LEMMA ModifiedObstacleStep ==
  ASSUME IInv, NEW o \in Obstacle, NEW parts \in 0 .. MaxParts, mod_obstacle_cb(o, parts)
  PROVE  IInv'
<1>1. /\ parts \in Nat
      /\ obstacles' \in Seq([id : Obstacle, parts : 0 .. MaxParts])
      /\ DeletedWereThere'
  BY NextObstacleTyped DEF IInv, mod_obstacle_cb
<1>2. /\ o \in previous_ids /\ previous_ids' = previous_ids
      /\ robot' = robot /\ surfaces' = surfaces
  BY DEF mod_obstacle_cb, NextObstacle, service_vars
<1>3. CASE o \in near
  <2>1. UNCHANGED <<robot_ids, next_id, untold, queue>>
    BY <1>3 DEF mod_obstacle_cb, aggregator_vars
  <2>2. surfaces' \in Seq(Surface)
    BY <1>2 DEF IInv, TypeInv
  <2>3. QED
    BY <1>1, <1>2, <2>1, <2>2, QuietStep
<1>4. CASE o \notin near
  <2> DEFINE ids == robot_ids[o]
             added == PartsAdded(ids, parts)
             new == PartsKept(ids, parts) \o added
  <2>1. /\ o \in DOMAIN robot_ids /\ ids \in Seq(Nat) /\ Len(ids) >= 1 /\ IsInjective(ids)
        /\ \A i \in DOMAIN ids : ids[i] < next_id
        /\ next_id \in Nat /\ DOMAIN robot_ids = previous_ids
    BY <1>2 DEF IInv, TypeInv, NumberingIsSound
  <2>2. /\ robot_ids' = [robot_ids EXCEPT ![o] = new]
        /\ next_id' = next_id + Len(added) /\ untold' = untold
        /\ queue' = queue \o (PartsDeleted(ids, parts) \o PartsModified(new))
    BY <1>4 DEF mod_obstacle_cb, Send
  <2>3. /\ new \in Seq(Nat) /\ Len(new) >= 1 /\ IsInjective(new) /\ Len(added) \in Nat
        /\ \A i \in 1 .. Len(new) :
             new[i] < next_id + Len(added) /\ (new[i] >= next_id \/ new[i] \in Range(ids))
    BY <1>1, <2>1, UpdatedIds
  <2> DEFINE ms == PartsDeleted(ids, parts) \o PartsModified(new)
  <2>4. ms \in Seq(Msg) /\ \A i \in 1 .. Len(ms) : ~ Sets(ms[i])
    BY <1>1, <2>1, <2>3, ChangesOnlyModify
  <2>5. next_id' \in Nat /\ next_id' >= next_id
    BY <2>1, <2>2, <2>3
  <2>6. queue' = queue \o ms
    BY <2>2
  <2> HIDE DEF new, added, ms
  <2>7. QueueInOrder' /\ queue' \in Seq(Msg)
    BY <1>2, <2>4, <2>5, <2>6, OthersKeepOrder DEF IInv
  <2>8. robot_ids' = [x \in DOMAIN robot_ids \cup {o} |-> IF x = o THEN new ELSE robot_ids[x]]
    BY <2>1, <2>2 DEF IInv, TypeInv
  <2>9. previous_ids' = previous_ids \cup {o}
    BY <1>2
  <2>10. \A i \in 1 .. Len(new) :
           /\ new[i] < next_id'
           /\ new[i] >= next_id \/ (o \in DOMAIN robot_ids /\ new[i] \in Range(robot_ids[o]))
    BY <2>1, <2>2, <2>3
  <2>11. NumberingIsSound' /\ robot_ids' \in [previous_ids' -> Seq(Nat)]
    BY <2>3, <2>5, <2>8, <2>9, <2>10, RenumberingIsSound DEF IInv
  <2>12. TypeInv'
    BY <1>1, <1>2, <2>2, <2>5, <2>7, <2>11 DEF IInv, TypeInv
  <2>13. QED
    BY <1>1, <2>7, <2>11, <2>12 DEF IInv
<1>5. QED
  BY <1>3, <1>4

(* So are surfaces, new, modified and deleted.                             *)
LEMMA SurfaceSteps ==
  ASSUME IInv, NEW s \in Surface, surface_cb(s) \/ del_surface_cb(s)
  PROVE  IInv'
<1>1. CASE surface_cb(s)
  <2>1. SurfaceUpdate(s) \in Msg /\ ~ Sets(SurfaceUpdate(s))
    BY DEF SurfaceUpdate, ModifySurface, SetSurface, Msg, Message, Sets
  <2>2. /\ UNCHANGED <<previous_ids, robot_ids, next_id, untold, robot, obstacles>>
        /\ queue' = queue \/ Send(<<SurfaceUpdate(s)>>)
        /\ phase' = "surfaces"
    BY <1>1 DEF surface_cb, aggregator_vars, service_vars
  <2>3. surfaces' \in Seq(Surface) /\ DeletedWereThere'
    BY <1>1, <2>2 DEF surface_cb, IInv, TypeInv, DeletedWereThere
  <2>4. QED
    BY <2>1, <2>2, <2>3, PostingStep
<1>2. CASE del_surface_cb(s)
  <2>1. DeleteSurface(s) \in Msg /\ ~ Sets(DeleteSurface(s))
    BY DEF DeleteSurface, Msg, Message, Sets
  <2>2. /\ UNCHANGED <<previous_ids, robot_ids, next_id, untold, robot, obstacles, surfaces>>
        /\ queue' = queue \/ Send(<<DeleteSurface(s)>>)
        /\ phase' = "surface deletions"
    BY <1>2 DEF del_surface_cb, aggregator_vars, service_vars
  <2>3. surfaces' \in Seq(Surface) /\ DeletedWereThere'
    BY <2>2 DEF IInv, TypeInv, DeletedWereThere
  <2>4. QED
    BY <2>1, <2>2, <2>3, PostingStep
<1>3. QED
  BY <1>1, <1>2

(* A deleted obstacle is told to the robot.                                *)
LEMMA DeletedObstacleStep ==
  ASSUME IInv, NEW o \in Obstacle, del_obstacle_cb(o)
  PROVE  IInv'
<1>1. /\ o \in previous_ids /\ deleted' = deleted \ {o} /\ deleted \subseteq previous_ids
      /\ UNCHANGED <<phase, obstacles, surfaces, next_id, untold, robot>>
  BY DEF IInv, DeletedWereThere, del_obstacle_cb, service_vars
<1>2. CASE o \in near
  <2>1. UNCHANGED <<previous_ids, robot_ids, queue>>
    BY <1>2 DEF del_obstacle_cb, Drops
  <2>2. DeletedWereThere'
    BY <1>1, <2>1 DEF DeletedWereThere
  <2>3. QED
    BY <1>1, <2>1, <2>2, QuietStep DEF IInv, TypeInv
<1>3. CASE o \notin near
  <2> DEFINE D == previous_ids \ {o}
             msg == Deletion(robot_ids[o])
  <2>1. /\ previous_ids' = D /\ queue' = queue \o <<msg>>
        /\ robot_ids' = Restrict(robot_ids, DOMAIN robot_ids \ {o})
    BY <1>3 DEF del_obstacle_cb, Drops, Send
  <2>2. /\ robot_ids \in [previous_ids -> Seq(Nat)] /\ next_id \in Nat
        /\ Len(robot_ids[o]) >= 1
    BY <1>1 DEF IInv, TypeInv, NumberingIsSound
  <2>3. robot_ids' \in [D -> Seq(Nat)] /\ \A x \in D : robot_ids'[x] = robot_ids[x]
    BY <2>1, <2>2 DEF Restrict
  <2>4. NumberingIsSound'
    <3>1. DOMAIN robot_ids' = previous_ids' /\ DOMAIN robot_ids = previous_ids
      BY <2>1, <2>2, <2>3
    <3>2. QED
      BY <1>1, <2>1, <2>3, <3>1 DEF IInv, NumberingIsSound
  <2>5. msg \in Msg /\ ~ Sets(msg)
    <3>1. robot_ids[o] \in Seq(Nat)
      BY <1>1, <2>2
    <3>2. robot_ids[o][1] \in Nat
      BY <2>2, <3>1
    <3>3. QED
      BY <3>2 DEF Deletion, DeleteModel, Msg, Message, Sets
  <2> HIDE DEF msg
  <2>6. QueueInOrder' /\ queue' \in Seq(Msg)
    <3>1. <<msg>> \in Seq(Msg) /\ \A i \in 1 .. Len(<<msg>>) : ~ Sets(<<msg>>[i])
      BY <2>5
    <3>2. next_id' \in Nat /\ next_id' >= next_id
      BY <1>1, <2>2
    <3>3. QED
      BY <1>1, <2>1, <3>1, <3>2, OthersKeepOrder DEF IInv
  <2>7. DeletedWereThere'
    BY <1>1, <2>1 DEF DeletedWereThere
  <2>8. TypeInv'
    BY <1>1, <2>1, <2>3, <2>6 DEF IInv, TypeInv
  <2>9. QED
    BY <2>4, <2>6, <2>7, <2>8 DEF IInv
<1>4. QED
  BY <1>2, <1>3

(* The service thread: nothing but the message at the front can add a      *)
(* model, and it comes after those the robot has.                          *)
LEMMA SendingStep ==
  ASSUME IInv, inner_send
  PROVE  IInv'
<1>1. /\ queue # <<>> /\ queue' = RemoveAt(queue, 1)
      /\ UNCHANGED <<previous_ids, phase, obstacles, surfaces, deleted, robot_ids, next_id, untold>>
      /\ robot' = robot \/ robot' = After(robot, queue[1])
  BY DEF inner_send, NextToSend, Transmit, diff_vars, aggregator_vars
<1>2. /\ queue \in Seq(Msg) /\ robot \in View /\ next_id \in Nat
      /\ queue[1] \in Msg /\ 1 \in 1 .. Len(queue)
  BY <1>1 DEF IInv, TypeInv
<1>3. /\ queue' \in Seq(Msg) /\ Len(queue') = Len(queue) - 1
      /\ \A i \in 1 .. Len(queue) - 1 : queue'[i] = queue[i + 1]
  BY <1>1, <1>2, SentIsFirst
<1>4. /\ robot' \in View
      /\ \A m \in DOMAIN robot'.models :
           m \in DOMAIN robot.models \/ (Sets(queue[1]) /\ m = queue[1].model)
  BY <1>1, <1>2, ViewAfter
<1>5. QueueInOrder'
  <2>1. \A m \in DOMAIN robot'.models : m < next_id'
    BY <1>1, <1>2, <1>4 DEF IInv, QueueInOrder
  <2>2. ASSUME NEW i \in 1 .. Len(queue'), Sets(queue'[i])
        PROVE  /\ queue'[i].model < next_id'
               /\ \A m \in DOMAIN robot'.models : m < queue'[i].model
               /\ \A j \in 1 .. Len(queue') :
                    i < j /\ Sets(queue'[j]) => queue'[i].model < queue'[j].model
    <3>1. Len(queue) \in Nat /\ 1 .. Len(queue') = 1 .. Len(queue) - 1
      BY <1>2, <1>3
    <3>2. \A j \in 1 .. Len(queue) - 1 : j + 1 \in 1 .. Len(queue) /\ queue'[j] = queue[j + 1]
      BY <1>3, <3>1
    <3>3. queue'[i].model < next_id'
      BY <1>1, <2>2, <3>1, <3>2 DEF IInv, QueueInOrder
    <3>4. \A m \in DOMAIN robot.models : m < queue'[i].model
      BY <2>2, <3>1, <3>2 DEF IInv, QueueInOrder
    <3>5. Sets(queue[1]) => queue[1].model < queue'[i].model
      <4>1. 1 < i + 1
        BY <3>1
      <4>2. QED
        BY <1>2, <2>2, <3>1, <3>2, <4>1 DEF IInv, QueueInOrder
    <3>6. ASSUME NEW j \in 1 .. Len(queue'), i < j, Sets(queue'[j])
          PROVE  queue'[i].model < queue'[j].model
      <4>1. i + 1 < j + 1
        BY <3>1, <3>6
      <4>2. QED
        BY <2>2, <3>1, <3>2, <3>6, <4>1 DEF IInv, QueueInOrder
    <3>7. QED
      BY <1>4, <3>3, <3>4, <3>5, <3>6
  <2>3. QED
    BY <2>1, <2>2 DEF QueueInOrder
<1>6. TypeInv'
  BY <1>1, <1>3, <1>4 DEF IInv, TypeInv
<1>7. NumberingIsSound'
  BY <1>1 DEF IInv, NumberingIsSound
<1>8. DeletedWereThere'
  BY <1>1 DEF IInv, DeletedWereThere
<1>9. QED
  BY <1>5, <1>6, <1>7, <1>8 DEF IInv

-----------------------------------------------------------------------------
(* Nothing is known to begin with.                                         *)
LEMMA InitEstablishes == Init => IInv
<1> SUFFICES ASSUME Init PROVE IInv
  OBVIOUS
<1>1. robot \in View /\ DOMAIN robot.models = {}
  <2>1. robot = [models |-> <<>>, surfaces |-> {}]
    BY DEF Init, NothingKnown
  <2>2. DOMAIN <<>> = {} /\ <<>> \in [{} -> SUBSET Nat]
    <3>1. DOMAIN <<>> = 1 .. 0 /\ <<>> = [i \in 1 .. 0 |-> {}] /\ 1 .. 0 = {}
      OBVIOUS
    <3>2. QED
      BY <3>1
  <2>3. <<>> \in UNION {[D -> SUBSET Nat] : D \in SUBSET Nat}
    BY <2>2
  <2>4. QED
    BY <2>1, <2>2, <2>3 DEF View
<1>2. TypeInv
  BY <1>1 DEF Init, TypeInv
<1>3. NumberingIsSound
  BY DEF Init, NumberingIsSound
<1>4. QueueInOrder
  BY <1>1 DEF Init, QueueInOrder
<1>5. DeletedWereThere
  BY DEF Init, DeletedWereThere
<1>6. QED
  BY <1>2, <1>3, <1>4, <1>5 DEF IInv

(* Every step of the three actors.                                         *)
LEMMA StepPreserves ==
  ASSUME IInv, [Next]_vars
  PROVE  IInv'
<1> USE DEF diff_vars, aggregator_vars, service_vars
<1>1. CASE SkipFrame
  BY <1>1, QuietStep DEF SkipFrame, IInv, TypeInv, DeletedWereThere
<1>2. ASSUME NEW obs \in ObstacleLists, NEW surfs \in Listing(Surface), BeginSnapshot(obs, surfs)
      PROVE  IInv'
  <2>1. DeletedWereThere'
    BY <1>2 DEF BeginSnapshot, DeletedWereThere
  <2>2. QED
    BY <1>2, <2>1, ListsAreTyped, QuietStep DEF BeginSnapshot
<1>3. CASE EndObstacles \/ EndSurfaces \/ EndDeletions \/ EndSnapshot
  <2>1. DeletedWereThere'
    BY <1>3 DEF EndObstacles, EndSurfaces, EndDeletions, EndSnapshot, GoneObstacles,
       DeletedWereThere
  <2>2. QED
    BY <1>3, <2>1, QuietStep
       DEF EndObstacles, EndSurfaces, EndDeletions, EndSnapshot, IInv, TypeInv
<1>4. CASE Connect \/ ConnectionBreaks \/ UNCHANGED vars
  BY <1>4, QuietStep DEF Connect, ConnectionBreaks, vars, IInv, TypeInv, DeletedWereThere
<1>5. QED
  BY <1>1, <1>2, <1>3, <1>4, NewObstacleStep, ModifiedObstacleStep, SurfaceSteps,
     DeletedObstacleStep, SendingStep DEF Next, UpdateFrame, Snapshot

(* The inductive invariant holds in every reachable state.                 *)
THEOREM Invariance == Spec => []IInv
<1>1. IInv /\ [Next]_vars => IInv'
  BY StepPreserves
<1>2. QED
  BY InitEstablishes, <1>1, PTL DEF Spec

(* DiffAggregator and RobotAggregator hold the same obstacles, and no id   *)
(* the robot is told stands for two things.                                *)
THEOREM IdsAreSound == Spec => []NumberingIsSound
<1>1. IInv => NumberingIsSound
  BY DEF IInv
<1>2. QED
  BY Invariance, <1>1, PTL

(* The robot gets models in the order they were numbered, so that it never *)
(* gets one back, whatever messages AsyncRobotService loses.               *)
THEOREM ModelsKeepOrder == Spec => ModelsArriveInOrder
<1>1. IInv /\ [Next]_vars =>
        [\A m \in DOMAIN robot'.models \ DOMAIN robot.models :
           \A k \in DOMAIN robot.models : k < m]_vars
  <2> SUFFICES ASSUME IInv, [Next]_vars,
                      NEW m \in DOMAIN robot'.models \ DOMAIN robot.models,
                      NEW k \in DOMAIN robot.models
               PROVE  k < m
    OBVIOUS
  <2>1. inner_send
    <3>1. robot' # robot
      OBVIOUS
    <3>2. QED
      BY <3>1 DEF Next, UpdateFrame, Snapshot, SkipFrame, BeginSnapshot, new_obstacle_cb,
         mod_obstacle_cb, NextObstacle, EndObstacles, surface_cb, EndSurfaces, del_obstacle_cb,
         EndDeletions, del_surface_cb, EndSnapshot, Connect, ConnectionBreaks, vars, service_vars
  <2>2. /\ queue # <<>> /\ queue \in Seq(Msg) /\ robot \in View
        /\ robot' = After(robot, queue[1])
    BY <2>1 DEF inner_send, NextToSend, Transmit, IInv, TypeInv
  <2>3. queue[1] \in Msg /\ 1 \in 1 .. Len(queue)
    BY <2>2
  <2>4. Sets(queue[1]) /\ m = queue[1].model
    BY <2>2, <2>3, ViewAfter
  <2>5. QED
    BY <2>3, <2>4 DEF IInv, QueueInOrder
<1>2. QED
  BY Invariance, <1>1, PTL DEF Spec, ModelsArriveInOrder
-----------------------------------------------------------------------------
(* What the robot will know.  Arriving is stated as a path: messages lead  *)
(* from one view to another, and none is confusing on the way unless it is *)
(* about an obstacle without parts.  U are the models numbered without a   *)
(* message.                                                                *)
Partless(U, msg) ==
  /\ "model" \in DOMAIN msg
  /\ \/ msg.model \in U
     \/ msg.action = "REMOVE_SSV_ONLY_PART" /\ msg.part = msg.model

Sensible(U, view, msg) == Confusing(view, msg) => Partless(U, msg)

Leads(U, from, ms, to) ==
  \E v \in [0 .. Len(ms) -> View] :
    /\ v[0] = from
    /\ v[Len(ms)] = to
    /\ \A i \in 1 .. Len(ms) :
         Sensible(U, v[i - 1], ms[i]) /\ v[i] = After(v[i - 1], ms[i])

Knows(view) ==
  /\ DOMAIN view.models = {robot_ids[o][1] : o \in Told}
  /\ \A o \in Told : Range(Tail(robot_ids[o])) \subseteq view.models[robot_ids[o][1]]
  /\ view.surfaces = previous_surface_ids

WillKnow == intact => \E view \in View : Leads(untold, robot, queue, view) /\ Knows(view)

DeletedSurfacesWereThere ==
  phase = "surface deletions" => deleted \subseteq previous_surface_ids

InformedInv == IInv /\ DeletedSurfacesWereThere /\ WillKnow

(* No message leads nowhere.                                               *)
LEMMA NoneLeadNowhere ==
  ASSUME NEW U, NEW view \in View
  PROVE  Leads(U, view, <<>>, view)
<1> DEFINE v == [i \in 0 .. 0 |-> view]
<1>1. Len(<<>>) = 0
  OBVIOUS
<1>2. v \in [0 .. 0 -> View] /\ v[0] = view
  OBVIOUS
<1> HIDE DEF v
<1>3. \A i \in 1 .. 0 : FALSE
  OBVIOUS
<1>4. QED
  BY <1>1, <1>2, <1>3 DEF Leads

(* The first message leads to where the others begin, and the other way    *)
(* round.                                                                  *)
LEMMA FirstLeads ==
  ASSUME NEW U, NEW a \in View, NEW c, NEW ms \in Seq(Msg), NEW rest \in Seq(Msg),
         Len(ms) = Len(rest) + 1, \A i \in 1 .. Len(rest) : rest[i] = ms[i + 1]
  PROVE  Leads(U, a, ms, c) <=> (Sensible(U, a, ms[1]) /\ Leads(U, After(a, ms[1]), rest, c))
<1> DEFINE n == Len(rest)
<1>1. n \in Nat /\ Len(ms) = n + 1
  OBVIOUS
<1> HIDE DEF n
<1>2. ASSUME Leads(U, a, ms, c)
      PROVE  Sensible(U, a, ms[1]) /\ Leads(U, After(a, ms[1]), rest, c)
  <2>1. PICK v \in [0 .. n + 1 -> View] :
          /\ v[0] = a /\ v[n + 1] = c
          /\ \A i \in 1 .. n + 1 : Sensible(U, v[i - 1], ms[i]) /\ v[i] = After(v[i - 1], ms[i])
    BY <1>1, <1>2 DEF Leads
  <2> DEFINE w == [i \in 0 .. n |-> v[i + 1]]
  <2>2. w \in [0 .. n -> View] /\ \A i \in 0 .. n : w[i] = v[i + 1]
    BY <1>1
  <2> HIDE DEF w
  <2>3. Sensible(U, a, ms[1]) /\ v[1] = After(a, ms[1])
    <3>1. 1 \in 1 .. n + 1 /\ 1 - 1 = 0
      BY <1>1
    <3>2. QED
      BY <2>1, <3>1
  <2>4. w[0] = After(a, ms[1]) /\ w[n] = c
    BY <1>1, <2>1, <2>2, <2>3
  <2>5. ASSUME NEW i \in 1 .. n
        PROVE  Sensible(U, w[i - 1], rest[i]) /\ w[i] = After(w[i - 1], rest[i])
    <3>1. i + 1 \in 1 .. n + 1 /\ (i + 1) - 1 = i /\ i - 1 \in 0 .. n /\ (i - 1) + 1 = i
      BY <1>1
    <3>2. rest[i] = ms[i + 1]
      BY DEF n
    <3>3. w[i - 1] = v[i] /\ w[i] = v[i + 1]
      BY <1>1, <2>2, <3>1
    <3>4. Sensible(U, v[i], ms[i + 1]) /\ v[i + 1] = After(v[i], ms[i + 1])
      BY <2>1, <3>1
    <3>5. QED
      BY <3>2, <3>3, <3>4
  <2>6. Leads(U, After(a, ms[1]), rest, c)
    BY <2>2, <2>4, <2>5 DEF Leads, n
  <2>7. QED
    BY <2>3, <2>6
<1>3. ASSUME Sensible(U, a, ms[1]), Leads(U, After(a, ms[1]), rest, c)
      PROVE  Leads(U, a, ms, c)
  <2>1. PICK w \in [0 .. n -> View] :
          /\ w[0] = After(a, ms[1]) /\ w[n] = c
          /\ \A i \in 1 .. n : Sensible(U, w[i - 1], rest[i]) /\ w[i] = After(w[i - 1], rest[i])
    BY <1>3 DEF Leads, n
  <2> DEFINE v == [i \in 0 .. n + 1 |-> IF i = 0 THEN a ELSE w[i - 1]]
  <2>2. v \in [0 .. n + 1 -> View] /\ v[0] = a /\ \A i \in 1 .. n + 1 : v[i] = w[i - 1]
    BY <1>1
  <2> HIDE DEF v
  <2>3. v[n + 1] = c
    BY <1>1, <2>1, <2>2
  <2>4. ASSUME NEW i \in 1 .. n + 1
        PROVE  Sensible(U, v[i - 1], ms[i]) /\ v[i] = After(v[i - 1], ms[i])
    <3>1. CASE i = 1
      <4>1. i - 1 = 0
        BY <3>1
      <4>2. QED
        BY <1>1, <1>3, <2>1, <2>2, <3>1, <4>1
    <3>2. CASE i # 1
      <4>1. i - 1 \in 1 .. n /\ (i - 1) + 1 = i /\ i - 1 \in 1 .. n + 1
        BY <1>1, <3>2
      <4>2. rest[i - 1] = ms[i]
        BY <4>1 DEF n
      <4>3. v[i - 1] = w[(i - 1) - 1] /\ v[i] = w[i - 1]
        BY <2>2, <4>1
      <4>4. Sensible(U, w[(i - 1) - 1], rest[i - 1]) /\ w[i - 1] = After(w[(i - 1) - 1], rest[i - 1])
        BY <2>1, <4>1
      <4>5. QED
        BY <4>2, <4>3, <4>4
    <3>3. QED
      BY <3>1, <3>2
  <2>5. QED
    BY <1>1, <2>2, <2>3, <2>4 DEF Leads
<1>4. QED
  BY <1>2, <1>3

(* One message that makes sense.                                           *)
LEMMA OneLeads ==
  ASSUME NEW U, NEW view \in View, NEW msg \in Msg, Sensible(U, view, msg)
  PROVE  Leads(U, view, <<msg>>, After(view, msg))
<1>1. After(view, msg) \in View
  BY ViewAfter
<1>2. Leads(U, After(view, msg), <<>>, After(view, msg))
  BY <1>1, NoneLeadNowhere
<1>3. /\ <<msg>> \in Seq(Msg) /\ <<>> \in Seq(Msg) /\ Len(<<msg>>) = Len(<<>>) + 1
      /\ <<msg>>[1] = msg /\ \A i \in 1 .. Len(<<>>) : FALSE
  OBVIOUS
<1>4. \A i \in 1 .. Len(<<>>) : <<>>[i] = <<msg>>[i + 1]
  BY <1>3
<1>5. QED
  BY <1>2, <1>3, <1>4, FirstLeads

(* Paths are joined.                                                       *)
LEMMA BothLead ==
  ASSUME NEW U, NEW s \in Seq(Msg), NEW t \in Seq(Msg), NEW a, NEW b, NEW c,
         Leads(U, a, s, b), Leads(U, b, t, c)
  PROVE  Leads(U, a, s \o t, c)
<1> DEFINE q == s \o t
           m == Len(s)
           n == Len(t)
<1>1. /\ q \in Seq(Msg) /\ Len(q) = m + n
      /\ \A i \in 1 .. m : q[i] = s[i]
      /\ \A i \in 1 .. n : q[m + i] = t[i]
  <2>1. q = s \o t
    OBVIOUS
  <2> HIDE DEF q
  <2>2. QED
    BY <2>1, ConcatIs
<1>2. m \in Nat /\ n \in Nat
  OBVIOUS
<1>3. PICK v \in [0 .. m -> View] :
        /\ v[0] = a /\ v[m] = b
        /\ \A i \in 1 .. m : Sensible(U, v[i - 1], s[i]) /\ v[i] = After(v[i - 1], s[i])
  BY DEF Leads
<1>4. PICK w \in [0 .. n -> View] :
        /\ w[0] = b /\ w[n] = c
        /\ \A i \in 1 .. n : Sensible(U, w[i - 1], t[i]) /\ w[i] = After(w[i - 1], t[i])
  BY DEF Leads
<1> HIDE DEF q, m, n
<1> DEFINE u == [i \in 0 .. m + n |-> IF i <= m THEN v[i] ELSE w[i - m]]
<1>5. /\ u \in [0 .. m + n -> View]
      /\ \A i \in 0 .. m : u[i] = v[i]
      /\ \A i \in 0 .. n : u[m + i] = w[i]
  <2>1. u \in [0 .. m + n -> View]
    BY <1>2
  <2>2. \A i \in 0 .. m : u[i] = v[i]
    BY <1>2
  <2>3. ASSUME NEW i \in 0 .. n
        PROVE  u[m + i] = w[i]
    <3>1. CASE i = 0
      BY <1>2, <1>3, <1>4, <3>1
    <3>2. CASE i # 0
      <4>1. m + i \in 0 .. m + n /\ ~ (m + i <= m) /\ (m + i) - m = i
        BY <1>2, <3>2
      <4>2. u[m + i] = w[(m + i) - m]
        BY <4>1, Zenon
      <4>3. QED
        BY <4>1, <4>2
    <3>3. QED
      BY <3>1, <3>2
  <2>4. QED
    BY <2>1, <2>2, <2>3
<1> HIDE DEF u
<1>6. u[0] = a /\ u[m + n] = c
  BY <1>2, <1>3, <1>4, <1>5
<1>7. ASSUME NEW i \in 1 .. m + n
      PROVE  Sensible(U, u[i - 1], q[i]) /\ u[i] = After(u[i - 1], q[i])
  <2>1. CASE i <= m
    <3>1. i \in 1 .. m /\ i - 1 \in 0 .. m /\ i \in 0 .. m
      BY <1>2, <2>1
    <3>2. u[i] = v[i] /\ u[i - 1] = v[i - 1] /\ q[i] = s[i]
      BY <1>1, <1>5, <3>1
    <3>3. QED
      BY <1>3, <3>1, <3>2
  <2>2. CASE i > m
    <3>1. PICK j \in 1 .. n : i = m + j
      <4>1. i - m \in 1 .. n /\ i = m + (i - m)
        BY <1>2, <2>2
      <4>2. QED
        BY <4>1
    <3>2. j - 1 \in 0 .. n /\ j \in 0 .. n /\ i - 1 = m + (j - 1)
      BY <1>2, <3>1
    <3>3. u[i] = w[j] /\ u[i - 1] = w[j - 1] /\ q[i] = t[j]
      BY <1>1, <1>5, <3>1, <3>2
    <3>4. QED
      BY <1>4, <3>3
  <2>3. QED
    BY <1>2, <2>1, <2>2
<1>8. Leads(U, a, q, c)
  BY <1>1, <1>5, <1>6, <1>7 DEF Leads
<1>9. QED
  BY <1>8 DEF q

(* The path is the one that Arriving follows.                              *)
LEMMA LeadsToArriving ==
  ASSUME NEW U, queue \in Seq(Msg), NEW c, Leads(U, robot, queue, c)
  PROVE  Arriving = c
<1> DEFINE n == Len(queue)
           Follows(f) == f = [i \in 0 .. n |-> IF i = 0 THEN robot ELSE After(f[i - 1], queue[i])]
           view == CHOOSE f : Follows(f)
<1>1. n \in Nat
  OBVIOUS
<1>2. PICK v \in [0 .. n -> View] :
        /\ v[0] = robot /\ v[n] = c
        /\ \A i \in 1 .. n : Sensible(U, v[i - 1], queue[i]) /\ v[i] = After(v[i - 1], queue[i])
  BY DEF Leads
<1> HIDE DEF n
<1>3. Follows(v)
  <2>1. \A i \in 0 .. n : i = 0 \/ i \in 1 .. n
    BY <1>1
  <2>2. QED
    BY <1>2, <2>1
<1>4. view = [i \in 0 .. n |-> IF i = 0 THEN robot ELSE After(view[i - 1], queue[i])]
  <2>1. Follows(view)
    BY <1>3
  <2>2. QED
    BY <2>1
<1> HIDE DEF view
<1>5. /\ view[0] = robot
      /\ \A i \in 1 .. n : view[i] = After(view[i - 1], queue[i])
  <2>1. 0 \in 0 .. n /\ \A i \in 1 .. n : i \in 0 .. n /\ i # 0
    BY <1>1
  <2>2. \A i \in 0 .. n : view[i] = IF i = 0 THEN robot ELSE After(view[i - 1], queue[i])
    BY <1>4, Zenon
  <2>3. QED
    BY <2>1, <2>2
<1> DEFINE Differ == {i \in 0 .. n : view[i] # v[i]}
<1>6. Differ = {}
  <2> SUFFICES ASSUME Differ # {} PROVE FALSE
    OBVIOUS
  <2>1. Differ \in SUBSET Nat
    BY <1>1
  <2> HIDE DEF Differ
  <2>2. PICK k \in Differ : \A j \in Differ : k <= j
    BY <2>1, NatHasMin
  <2> USE DEF Differ
  <2>3. k \in 1 .. n /\ k - 1 \in 0 .. n /\ ~ (k <= k - 1)
    BY <1>1, <1>2, <1>5
  <2>4. view[k - 1] = v[k - 1]
    BY <2>2, <2>3
  <2>5. view[k] = v[k]
    BY <1>2, <1>5, <2>3, <2>4
  <2>6. QED
    BY <2>5
<1>7. view[n] = c
  BY <1>1, <1>2, <1>6
<1>8. QED
  BY <1>7 DEF Arriving, view, n

-----------------------------------------------------------------------------
(* The view with other parts of a model it has.                            *)
WithParts(view, m, P) ==
  [models |-> [view.models EXCEPT ![m] = P], surfaces |-> view.surfaces]

(* A view with the parts of one model replaced.                            *)
LEMMA WithPartsIs ==
  ASSUME NEW view \in View, NEW m \in DOMAIN view.models, NEW P \in SUBSET Nat
  PROVE  /\ WithParts(view, m, P) \in View
         /\ DOMAIN WithParts(view, m, P).models = DOMAIN view.models
         /\ WithParts(view, m, P).models[m] = P
         /\ \A k \in DOMAIN view.models \ {m} :
              WithParts(view, m, P).models[k] = view.models[k]
         /\ WithParts(view, m, P).surfaces = view.surfaces
         /\ m \in Nat
         /\ \A Q \in SUBSET Nat : WithParts(WithParts(view, m, P), m, Q) = WithParts(view, m, Q)
<1> DEFINE M == view.models
           N == [M EXCEPT ![m] = P]
<1>1. M \in [DOMAIN M -> SUBSET Nat] /\ DOMAIN M \subseteq Nat /\ view.surfaces \subseteq Surface
  BY DEF View
<1>2. N \in [DOMAIN M -> SUBSET Nat] /\ N[m] = P /\ \A k \in DOMAIN M \ {m} : N[k] = M[k]
  BY <1>1
<1>3. [N EXCEPT ![m] = P] = N
  BY <1>1
<1>4. \A Q \in SUBSET Nat : [N EXCEPT ![m] = Q] = [M EXCEPT ![m] = Q]
  BY <1>1
<1> HIDE DEF M, N
<1>5. WithParts(view, m, P) = [models |-> N, surfaces |-> view.surfaces]
  BY DEF WithParts, M, N
<1>6. WithParts(view, m, P) \in View
  BY <1>1, <1>2, <1>5 DEF View
<1>7. ASSUME NEW Q \in SUBSET Nat
      PROVE  WithParts(WithParts(view, m, P), m, Q) = WithParts(view, m, Q)
  BY <1>4, <1>5 DEF WithParts, M
<1>8. WithParts(view, m, P).models = N /\ WithParts(view, m, P).surfaces = view.surfaces
  BY <1>5
<1>9. m \in Nat /\ m \in DOMAIN M
  BY <1>1 DEF M
<1>10. QED
  BY <1>2, <1>6, <1>7, <1>8, <1>9 DEF M

(* What comes of the messages about one part of a model whose parts are Q. *)
PartIsChanged(U, view, m, Q, p) ==
  /\ Sensible(U, view, ModifyPart(m, p))
  /\ After(view, ModifyPart(m, p)) = WithParts(view, m, Q \cup {p})
  /\ p \in Q \/ p = m =>
       /\ Sensible(U, view, DeletePart(m, p))
       /\ After(view, DeletePart(m, p)) = WithParts(view, m, Q \ {p})

(* One part more, one part less.                                           *)
LEMMA PartMessages ==
  ASSUME NEW U, NEW view \in View, NEW m \in DOMAIN view.models, NEW p \in Nat
  PROVE  PartIsChanged(U, view, m, view.models[m], p)
<1>1. view = [models |-> view.models, surfaces |-> view.surfaces]
  BY DEF View
<1>2. /\ ModifyPart(m, p).action = "MODIFY_SSV"
      /\ ModifyPart(m, p).model = m /\ ModifyPart(m, p).part = p
  BY DEF ModifyPart
<1>3. /\ DeletePart(m, p).action = "REMOVE_SSV_ONLY_PART"
      /\ DeletePart(m, p).model = m /\ DeletePart(m, p).part = p
  BY DEF DeletePart
<1>4. ~ Confusing(view, ModifyPart(m, p))
  BY <1>2 DEF Confusing
<1>5. After(view, ModifyPart(m, p)) = WithParts(view, m, view.models[m] \cup {p})
  BY <1>1, <1>2, <1>4 DEF After, WithParts
<1>6. ASSUME p \in view.models[m]
      PROVE  ~ Confusing(view, DeletePart(m, p))
  BY <1>3, <1>6 DEF Confusing
<1>7. ASSUME p \in view.models[m]
      PROVE  After(view, DeletePart(m, p)) = WithParts(view, m, view.models[m] \ {p})
  BY <1>1, <1>3, <1>6, <1>7 DEF After, WithParts
<1>8. ASSUME p = m, p \notin view.models[m]
      PROVE  /\ Sensible(U, view, DeletePart(m, p))
             /\ After(view, DeletePart(m, p)) = WithParts(view, m, view.models[m] \ {p})
  <2>1. Partless(U, DeletePart(m, p))
    BY <1>8 DEF Partless, DeletePart
  <2>2. After(view, DeletePart(m, p)) = view
    BY <1>3, <1>8 DEF After, Confusing
  <2>3. view.models[m] \ {p} = view.models[m]
    <3>1. view.models \in [DOMAIN view.models -> SUBSET Nat]
      BY DEF View
    <3>2. QED
      BY <1>8, <3>1
  <2>4. [view.models EXCEPT ![m] = view.models[m]] = view.models
    BY DEF View
  <2>5. WithParts(view, m, view.models[m]) = view
    BY <1>1, <2>4 DEF WithParts
  <2>6. QED
    BY <2>1, <2>2, <2>3, <2>5 DEF Sensible
<1>9. QED
  BY <1>4, <1>5, <1>6, <1>7, <1>8 DEF Sensible, PartIsChanged

(* Messages that change a model's parts one by one.  S[i] are the parts    *)
(* after i of them.                                                        *)
LEMMA PartsLead ==
  ASSUME NEW U, NEW view \in View, NEW m \in DOMAIN view.models, NEW ms \in Seq(Msg),
         NEW S \in [0 .. Len(ms) -> SUBSET Nat], S[0] = view.models[m],
         \A i \in 1 .. Len(ms) : \E p \in Nat :
           \/ ms[i] = ModifyPart(m, p) /\ S[i] = S[i - 1] \cup {p}
           \/ ms[i] = DeletePart(m, p) /\ (p \in S[i - 1] \/ p = m) /\ S[i] = S[i - 1] \ {p}
  PROVE  Leads(U, view, ms, WithParts(view, m, S[Len(ms)]))
<1> DEFINE n == Len(ms)
           v == [i \in 0 .. n |-> WithParts(view, m, S[i])]
<1>1. n \in Nat
  OBVIOUS
<1> HIDE DEF n
<1>2. /\ S \in [0 .. n -> SUBSET Nat]
      /\ \A i \in 1 .. n : \E p \in Nat :
           \/ ms[i] = ModifyPart(m, p) /\ S[i] = S[i - 1] \cup {p}
           \/ ms[i] = DeletePart(m, p) /\ (p \in S[i - 1] \/ p = m) /\ S[i] = S[i - 1] \ {p}
  BY DEF n
<1>3. \A i \in 0 .. n :
        /\ v[i] \in View /\ v[i] = WithParts(view, m, S[i])
        /\ m \in DOMAIN v[i].models /\ v[i].models[m] = S[i]
        /\ \A Q \in SUBSET Nat : WithParts(v[i], m, Q) = WithParts(view, m, Q)
  <2> SUFFICES ASSUME NEW i \in 0 .. n
               PROVE  /\ v[i] \in View /\ v[i] = WithParts(view, m, S[i])
                      /\ m \in DOMAIN v[i].models /\ v[i].models[m] = S[i]
                      /\ \A Q \in SUBSET Nat : WithParts(v[i], m, Q) = WithParts(view, m, Q)
    OBVIOUS
  <2>1. v[i] = WithParts(view, m, S[i]) /\ S[i] \in SUBSET Nat
    BY <1>2
  <2> HIDE DEF v
  <2>2. QED
    BY <2>1, WithPartsIs
<1>4. v \in [0 .. n -> View]
  <2>1. v = [i \in 0 .. n |-> v[i]]
    OBVIOUS
  <2> HIDE DEF v
  <2>2. QED
    BY <1>3, <2>1
<1> HIDE DEF v
<1>5. v[0] = view
  <2>1. [view.models EXCEPT ![m] = view.models[m]] = view.models
    BY DEF View
  <2>2. WithParts(view, m, view.models[m]) = view
    BY <2>1 DEF WithParts, View
  <2>3. QED
    BY <1>1, <1>3, <2>2
<1>6. ASSUME NEW i \in 1 .. n
      PROVE  Sensible(U, v[i - 1], ms[i]) /\ v[i] = After(v[i - 1], ms[i])
  <2>1. i - 1 \in 0 .. n /\ i \in 0 .. n
    BY <1>1
  <2>2. /\ v[i - 1] \in View /\ m \in DOMAIN v[i - 1].models /\ v[i - 1].models[m] = S[i - 1]
        /\ v[i] = WithParts(view, m, S[i])
        /\ S[i] \in SUBSET Nat
        /\ WithParts(v[i - 1], m, S[i]) = WithParts(view, m, S[i])
    BY <1>2, <1>3, <2>1
  <2>3. PICK p \in Nat :
          \/ ms[i] = ModifyPart(m, p) /\ S[i] = S[i - 1] \cup {p}
          \/ ms[i] = DeletePart(m, p) /\ (p \in S[i - 1] \/ p = m) /\ S[i] = S[i - 1] \ {p}
    BY <1>2
  <2>4. /\ Sensible(U, v[i - 1], ModifyPart(m, p))
        /\ After(v[i - 1], ModifyPart(m, p)) = WithParts(v[i - 1], m, S[i - 1] \cup {p})
        /\ p \in S[i - 1] \/ p = m =>
             /\ Sensible(U, v[i - 1], DeletePart(m, p))
             /\ After(v[i - 1], DeletePart(m, p)) = WithParts(v[i - 1], m, S[i - 1] \ {p})
    <3>1. PartIsChanged(U, v[i - 1], m, v[i - 1].models[m], p)
      BY <2>2, PartMessages, Zenon
    <3>2. QED
      BY <2>2, <3>1 DEF PartIsChanged
  <2>5. QED
    BY <2>2, <2>3, <2>4
<1>7. v[n] = WithParts(view, m, S[n])
  BY <1>1, <1>3
<1>8. QED
  BY <1>4, <1>5, <1>6, <1>7 DEF Leads, n

(* All parts are told of.                                                  *)
LEMMA ModifyingLeads ==
  ASSUME NEW U, NEW view \in View, NEW m \in DOMAIN view.models, NEW ms \in Seq(Msg),
         NEW ps \in [1 .. Len(ms) -> Nat], \A i \in 1 .. Len(ms) : ms[i] = ModifyPart(m, ps[i]),
         NEW Q, Q = view.models[m] \cup {ps[i] : i \in 1 .. Len(ms)}
  PROVE  Leads(U, view, ms, WithParts(view, m, Q))
<1> DEFINE n == Len(ms)
           S == [k \in 0 .. n |-> view.models[m] \cup {ps[i] : i \in 1 .. k}]
<1>1. n \in Nat /\ view.models[m] \in SUBSET Nat
  <2>1. n \in Nat
    OBVIOUS
  <2>2. view.models \in [DOMAIN view.models -> SUBSET Nat]
    BY DEF View
  <2>3. QED
    BY <2>1, <2>2
<1> HIDE DEF n
<1>2. S \in [0 .. n -> SUBSET Nat]
  <2>1. \A k \in 0 .. n : \A i \in 1 .. k : ps[i] \in Nat
    BY <1>1 DEF n
  <2>2. QED
    BY <1>1, <2>1
<1>3. S[0] = view.models[m]
  BY <1>1
<1>4. ASSUME NEW i \in 1 .. n
      PROVE  S[i] = S[i - 1] \cup {ps[i]}
  <2>1. i - 1 \in 0 .. n /\ i \in 0 .. n /\ 1 .. i = (1 .. i - 1) \cup {i}
    BY <1>1
  <2>2. QED
    BY <2>1
<1>5. S[n] = view.models[m] \cup {ps[i] : i \in 1 .. n}
  BY <1>1
<1> HIDE DEF S
<1>6. \A i \in 1 .. n : ps[i] \in Nat /\ ms[i] = ModifyPart(m, ps[i])
  BY DEF n
<1>7. \A i \in 1 .. Len(ms) : \E p \in Nat :
        \/ ms[i] = ModifyPart(m, p) /\ S[i] = S[i - 1] \cup {p}
        \/ ms[i] = DeletePart(m, p) /\ (p \in S[i - 1] \/ p = m) /\ S[i] = S[i - 1] \ {p}
  BY <1>4, <1>6 DEF n
<1>8. Leads(U, view, ms, WithParts(view, m, S[Len(ms)]))
  BY <1>2, <1>3, <1>7, PartsLead DEF n
<1>9. QED
  BY <1>5, <1>8 DEF n

(* Parts the robot has are deleted, each once, or the model as a part.     *)
LEMMA DeletingLeads ==
  ASSUME NEW U, NEW view \in View, NEW m \in DOMAIN view.models, NEW ms \in Seq(Msg),
         NEW ps \in [1 .. Len(ms) -> Nat], \A i \in 1 .. Len(ms) : ms[i] = DeletePart(m, ps[i]),
         \A i \in 1 .. Len(ms) : ps[i] \in view.models[m] \/ ps[i] = m,
         \A i, j \in 1 .. Len(ms) : ps[i] = ps[j] => i = j,
         NEW Q, Q = view.models[m] \ {ps[i] : i \in 1 .. Len(ms)}
  PROVE  Leads(U, view, ms, WithParts(view, m, Q))
<1> DEFINE n == Len(ms)
           S == [k \in 0 .. n |-> view.models[m] \ {ps[i] : i \in 1 .. k}]
<1>1. n \in Nat /\ view.models[m] \in SUBSET Nat
  <2>1. n \in Nat
    OBVIOUS
  <2>2. view.models \in [DOMAIN view.models -> SUBSET Nat]
    BY DEF View
  <2>3. QED
    BY <2>1, <2>2
<1> HIDE DEF n
<1>2. S \in [0 .. n -> SUBSET Nat]
  BY <1>1
<1>3. S[0] = view.models[m]
  BY <1>1
<1>4. ASSUME NEW i \in 1 .. n
      PROVE  S[i] = S[i - 1] \ {ps[i]} /\ (ps[i] \in S[i - 1] \/ ps[i] = m)
  <2>1. i - 1 \in 0 .. n /\ i \in 0 .. n /\ 1 .. i = (1 .. i - 1) \cup {i} /\ i \notin 1 .. i - 1
    BY <1>1
  <2>2. \A j \in 1 .. i - 1 : j \in 1 .. n /\ ps[j] # ps[i]
    BY <1>1 DEF n
  <2>3. ps[i] \in view.models[m] \/ ps[i] = m
    BY DEF n
  <2>4. QED
    BY <2>1, <2>2, <2>3
<1>5. S[n] = view.models[m] \ {ps[i] : i \in 1 .. n}
  BY <1>1
<1> HIDE DEF S
<1>6. \A i \in 1 .. n : ps[i] \in Nat /\ ms[i] = DeletePart(m, ps[i])
  BY DEF n
<1>7. \A i \in 1 .. Len(ms) : \E p \in Nat :
        \/ ms[i] = ModifyPart(m, p) /\ S[i] = S[i - 1] \cup {p}
        \/ ms[i] = DeletePart(m, p) /\ (p \in S[i - 1] \/ p = m) /\ S[i] = S[i - 1] \ {p}
  BY <1>4, <1>6 DEF n
<1>8. Leads(U, view, ms, WithParts(view, m, S[Len(ms)]))
  BY <1>2, <1>3, <1>7, PartsLead DEF n
<1>9. QED
  BY <1>5, <1>8 DEF n

-----------------------------------------------------------------------------
(* The parts in a list of ids.                                             *)
LEMMA PartsOfIds ==
  ASSUME NEW ids \in Seq(Nat), Len(ids) >= 1
  PROVE  Range(Tail(ids)) = {ids[i] : i \in 2 .. Len(ids)}
<1> DEFINE n == Len(ids)
           t == Tail(ids)
<1>1. n \in Nat /\ n >= 1
  OBVIOUS
<1>2. DOMAIN t = 1 .. n - 1 /\ \A i \in 1 .. n - 1 : t[i] = ids[i + 1]
  OBVIOUS
<1> HIDE DEF n, t
<1>3. \A i \in 2 .. n : i - 1 \in 1 .. n - 1 /\ (i - 1) + 1 = i
  BY <1>1
<1>4. \A i \in 1 .. n - 1 : i + 1 \in 2 .. n
  BY <1>1
<1>5. Range(t) = {ids[i] : i \in 2 .. n}
  <2>1. ASSUME NEW x \in Range(t) PROVE x \in {ids[i] : i \in 2 .. n}
    <3>1. PICK i \in 1 .. n - 1 : x = t[i]
      BY <1>2 DEF Range
    <3>2. QED
      BY <1>2, <1>4, <3>1
  <2>2. ASSUME NEW i \in 2 .. n PROVE ids[i] \in Range(t)
    <3>1. i - 1 \in DOMAIN t /\ t[i - 1] = ids[i]
      BY <1>2, <1>3
    <3>2. QED
      BY <3>1 DEF Range
  <2>3. QED
    BY <2>1, <2>2
<1>6. QED
  BY <1>5 DEF n, t

(* Obstacle o gets these ids, or gets them anew.                           *)
Renumbers(o, ids) ==
  /\ robot_ids' = [x \in DOMAIN robot_ids \cup {o} |-> IF x = o THEN ids ELSE robot_ids[x]]
  /\ previous_surface_ids' = previous_surface_ids

(* The model id is the obstacle's own.                                     *)
IsModelOf(m, o) ==
  /\ o \in DOMAIN robot_ids => robot_ids[o][1] = m
  /\ \A x \in DOMAIN robot_ids \ {o} : robot_ids[x][1] # m

(* A view that differs by one model at most, of which it has these parts.  *)
HasModel(view, ids, told) ==
  /\ DOMAIN told.models = DOMAIN view.models \cup {ids[1]}
  /\ \A k \in DOMAIN view.models \ {ids[1]} : told.models[k] = view.models[k]
  /\ \A i \in 2 .. Len(ids) : ids[i] \in told.models[ids[1]]
  /\ told.surfaces = view.surfaces

(* A view that suits the ids still does when one obstacle gets other ids   *)
(* and the robot is told of them.                                          *)
LEMMA KnowsRenumbered ==
  ASSUME NEW view \in View, Knows(view), NEW o, NEW ids \in Seq(Nat), Len(ids) >= 1,
         Renumbers(o, ids), IsModelOf(ids[1], o), ids[1] \notin untold, untold' = untold,
         NEW told \in View, HasModel(view, ids, told)
  PROVE  Knows(told)'
<1> USE DEF Renumbers, IsModelOf, HasModel
<1>1. /\ DOMAIN robot_ids' = DOMAIN robot_ids \cup {o}
      /\ robot_ids'[o] = ids
      /\ \A x \in DOMAIN robot_ids \ {o} : robot_ids'[x] = robot_ids[x]
  OBVIOUS
<1>2. DOMAIN view.models = {robot_ids[x][1] : x \in Told}
  BY DEF Knows
<1>3. \A x \in DOMAIN robot_ids : robot_ids'[x][1] = robot_ids[x][1]
  BY <1>1
<1> DEFINE R == robot_ids'
           T == Told'
<1>4. T = Told \cup {o}
  <2>1. DOMAIN R = DOMAIN robot_ids \cup {o} /\ R[o][1] = ids[1]
    BY <1>1
  <2>2. T = {x \in DOMAIN R : R[x][1] \notin untold}
    BY DEF Told
  <2> HIDE DEF R, T
  <2>3. \A x \in DOMAIN robot_ids : R[x][1] = robot_ids[x][1]
    BY <1>3 DEF R
  <2>4. QED
    BY <2>1, <2>2, <2>3 DEF Told
<1>5. DOMAIN told.models = {R[x][1] : x \in T}
  <2>1. R[o][1] = ids[1] /\ \A x \in Told : R[x][1] = robot_ids[x][1]
    BY <1>1, <1>3 DEF Told
  <2>2. DOMAIN told.models = DOMAIN view.models \cup {ids[1]}
    OBVIOUS
  <2> HIDE DEF R, T
  <2>3. {R[x][1] : x \in T} = {R[x][1] : x \in Told} \cup {R[o][1]}
    BY <1>4
  <2>4. {R[x][1] : x \in Told} = {robot_ids[x][1] : x \in Told}
    BY <2>1
  <2>5. QED
    BY <1>2, <2>1, <2>2, <2>3, <2>4
<1>6. ASSUME NEW x \in T
      PROVE  Range(Tail(R[x])) \subseteq told.models[R[x][1]]
  <2>1. CASE x = o
    <3>1. Range(Tail(ids)) = {ids[i] : i \in 2 .. Len(ids)}
      BY PartsOfIds
    <3>2. QED
      BY <1>1, <2>1, <3>1
  <2>2. CASE x # o
    <3>1. x \in Told /\ x \in DOMAIN robot_ids \ {o} /\ R[x] = robot_ids[x]
      BY <1>1, <1>4, <2>2 DEF Told
    <3>2. robot_ids[x][1] \in DOMAIN view.models \ {ids[1]}
      BY <1>2, <3>1
    <3>3. Range(Tail(robot_ids[x])) \subseteq view.models[robot_ids[x][1]]
      BY <3>1 DEF Knows
    <3>4. QED
      BY <3>1, <3>2, <3>3
  <2>3. QED
    BY <2>1, <2>2
<1>7. told.surfaces = previous_surface_ids'
  BY DEF Knows
<1>8. QED
  BY <1>5, <1>6, <1>7 DEF Knows

(* It does so, too, when the robot is told nothing, of an obstacle that    *)
(* was numbered without a message.                                         *)
LEMMA KnowsUntold ==
  ASSUME NEW view \in View, Knows(view), NEW o, o \notin Told, NEW ids,
         Renumbers(o, ids), IsModelOf(ids[1], o), ids[1] \in untold',
         untold \subseteq untold', untold' \subseteq untold \cup {ids[1]}
  PROVE  Knows(view)'
<1> USE DEF Renumbers, IsModelOf
<1>1. /\ DOMAIN robot_ids' = DOMAIN robot_ids \cup {o}
      /\ robot_ids'[o] = ids
      /\ \A x \in DOMAIN robot_ids \ {o} : robot_ids'[x] = robot_ids[x]
  OBVIOUS
<1> DEFINE R == robot_ids'
           T == Told'
           V == untold'
<1>2. T = Told
  <2>1. /\ DOMAIN R = DOMAIN robot_ids \cup {o} /\ R[o][1] = ids[1]
        /\ \A x \in DOMAIN robot_ids \ {o} : R[x][1] = robot_ids[x][1] /\ robot_ids[x][1] # ids[1]
    BY <1>1
  <2>2. T = {x \in DOMAIN R : R[x][1] \notin V}
    BY DEF Told
  <2>3. ids[1] \in V /\ untold \subseteq V /\ V \subseteq untold \cup {ids[1]}
    OBVIOUS
  <2> HIDE DEF R, T, V
  <2>4. QED
    BY <2>1, <2>2, <2>3 DEF Told
<1>3. \A x \in Told : R[x] = robot_ids[x]
  BY <1>1 DEF Told
<1>4. DOMAIN view.models = {R[x][1] : x \in T}
  <2>1. DOMAIN view.models = {robot_ids[x][1] : x \in Told}
    BY DEF Knows
  <2> HIDE DEF R, T
  <2>2. QED
    BY <1>2, <1>3, <2>1
<1>5. \A x \in T : Range(Tail(R[x])) \subseteq view.models[R[x][1]]
  <2> HIDE DEF R, T
  <2>1. QED
    BY <1>2, <1>3 DEF Knows
<1>6. view.surfaces = previous_surface_ids'
  BY DEF Knows
<1>7. QED
  BY <1>4, <1>5, <1>6 DEF Knows

(* Messages about a model that the robot was never told of say nothing to  *)
(* it.                                                                     *)
LEMMA UntoldLead ==
  ASSUME NEW U, NEW view \in View, NEW m \in U, m \notin DOMAIN view.models, NEW ms \in Seq(Msg),
         \A i \in 1 .. Len(ms) :
           /\ ms[i].action \in {"MODIFY_SSV", "REMOVE_SSV_ONLY_PART", "REMOVE_SSV_WHOLE_SEGMENT"}
           /\ "model" \in DOMAIN ms[i] /\ ms[i].model = m
  PROVE  Leads(U, view, ms, view)
<1> DEFINE v == [i \in 0 .. Len(ms) |-> view]
<1>1. v \in [0 .. Len(ms) -> View] /\ \A i \in 0 .. Len(ms) : v[i] = view
  OBVIOUS
<1>2. ASSUME NEW i \in 1 .. Len(ms)
      PROVE  Sensible(U, view, ms[i]) /\ view = After(view, ms[i])
  <2>1. Partless(U, ms[i])
    BY DEF Partless
  <2>2. Confusing(view, ms[i])
    BY DEF Confusing
  <2>3. QED
    BY <2>1, <2>2 DEF Sensible, After
<1>3. /\ 0 \in 0 .. Len(ms) /\ Len(ms) \in 0 .. Len(ms)
      /\ \A i \in 1 .. Len(ms) : i \in 0 .. Len(ms) /\ i - 1 \in 0 .. Len(ms)
  OBVIOUS
<1> HIDE DEF v
<1>4. v[0] = view /\ v[Len(ms)] = view
  BY <1>1, <1>3
<1>5. \A i \in 1 .. Len(ms) : Sensible(U, v[i - 1], ms[i]) /\ v[i] = After(v[i - 1], ms[i])
  BY <1>1, <1>2, <1>3
<1>6. QED
  BY <1>1, <1>4, <1>5 DEF Leads

(* What is excused stays so.                                               *)
LEMMA LeadsOn ==
  ASSUME NEW U, NEW V, U \subseteq V, NEW a, NEW ms, NEW b, Leads(U, a, ms, b)
  PROVE  Leads(V, a, ms, b)
<1>1. \A view, msg : Sensible(U, view, msg) => Sensible(V, view, msg)
  BY DEF Sensible, Partless
<1>2. QED
  BY <1>1 DEF Leads

(* The models the robot will have are those in use, each obstacle's own.   *)
LEMMA ModelsAreOwn ==
  ASSUME TypeInv, NumberingIsSound, NEW o \in DOMAIN robot_ids
  PROVE  /\ robot_ids[o] \in Seq(Nat) /\ Len(robot_ids[o]) >= 1
         /\ robot_ids[o][1] \in Nat /\ robot_ids[o][1] < next_id
         /\ \A x \in DOMAIN robot_ids \ {o} : robot_ids[x][1] # robot_ids[o][1]
<1>1. \A x \in DOMAIN robot_ids :
        /\ robot_ids[x] \in Seq(Nat) /\ Len(robot_ids[x]) >= 1
        /\ \A i \in DOMAIN robot_ids[x] : robot_ids[x][i] < next_id
  BY DEF TypeInv, NumberingIsSound
<1>2. \A x \in DOMAIN robot_ids :
        /\ 1 \in DOMAIN robot_ids[x] /\ robot_ids[x][1] \in Nat
        /\ robot_ids[x][1] \in Range(robot_ids[x])
  <2> SUFFICES ASSUME NEW x \in DOMAIN robot_ids
               PROVE  /\ 1 \in DOMAIN robot_ids[x] /\ robot_ids[x][1] \in Nat
                      /\ robot_ids[x][1] \in Range(robot_ids[x])
    OBVIOUS
  <2>1. robot_ids[x] \in Seq(Nat) /\ Len(robot_ids[x]) >= 1
    BY <1>1
  <2>2. 1 \in DOMAIN robot_ids[x] /\ robot_ids[x][1] \in Nat
    BY <2>1
  <2>3. QED
    BY <2>2 DEF Range
<1>3. \A x \in DOMAIN robot_ids \ {o} : robot_ids[x][1] # robot_ids[o][1]
  BY <1>2 DEF NumberingIsSound
<1>4. QED
  BY <1>1, <1>2, <1>3

-----------------------------------------------------------------------------
(* Posting messages keeps the promise if, to a robot that has got what was *)
(* posted before, they make sense and tell what changed.                   *)
LEMMA PostingInforms ==
  ASSUME TypeInv, WillKnow, NEW ms \in Seq(Msg), Send(ms),
         UNCHANGED <<robot, intact>>, untold \subseteq untold',
         \A view \in View :
           Knows(view) => \E told \in View : Leads(untold', view, ms, told) /\ Knows(told)'
  PROVE  WillKnow'
<1> SUFFICES ASSUME intact
             PROVE  (\E view \in View : Leads(untold, robot, queue, view) /\ Knows(view))'
  BY DEF WillKnow
<1>1. PICK view \in View : Leads(untold, robot, queue, view) /\ Knows(view)
  BY DEF WillKnow
<1>2. PICK told \in View : Leads(untold', view, ms, told) /\ Knows(told)'
  BY <1>1
<1>3. queue' = queue \o ms /\ queue \in Seq(Msg)
  BY DEF Send, TypeInv
<1>4. Leads(untold', robot, queue \o ms, told)
  <2>1. Leads(untold', robot, queue, view)
    BY <1>1, LeadsOn
  <2>2. QED
    BY <1>2, <1>3, <2>1, BothLead
<1>5. Leads(untold, robot, queue, told)'
  <2>1. Leads(untold', robot', queue', told)
    BY <1>3, <1>4
  <2>2. QED
    BY <2>1 DEF Leads, Sensible, Partless
<1>6. QED
  BY <1>2, <1>5

(* Posting nothing keeps it if nothing changed.                            *)
LEMMA SilenceInforms ==
  ASSUME WillKnow,
         UNCHANGED <<robot, queue, intact, robot_ids, untold, previous_surface_ids>>
  PROVE  WillKnow'
BY DEF WillKnow, Leads, Sensible, Partless, Knows, Told

(* new_obstacle_cb, when there is no part                                  *)
LEMMA PartlessModelIsNotTold ==
  ASSUME TypeInv, NumberingIsSound, NEW o, o \notin DOMAIN robot_ids,
         robot_ids' = [x \in DOMAIN robot_ids \cup {o} |->
                         IF x = o THEN NewIds(0) ELSE robot_ids[x]],
         untold' = untold \cup {NewIds(0)[1]}, previous_surface_ids' = previous_surface_ids
  PROVE  /\ NewMessages(NewIds(0)) = <<>>
         /\ \A view \in View : Knows(view) => Leads(untold', view, <<>>, view) /\ Knows(view)'
<1> DEFINE ids == NewIds(0)
<1>1. ids \in Seq(Nat) /\ Len(ids) = 1 /\ ids[1] = next_id
  <2>1. 0 \in Nat /\ 0 + 1 = 1 /\ 1 \in 1 .. 1 /\ next_id \in Nat
    BY DEF TypeInv
  <2>2. /\ ids \in Seq(Nat) /\ Len(ids) = 0 + 1
        /\ \A i \in 1 .. 0 + 1 : ids[i] = next_id + i - 1
    BY <2>1, IdsOfNewModel
  <2> HIDE DEF ids
  <2>3. QED
    BY <2>1, <2>2
<1> HIDE DEF ids
<1>2. NewMessages(ids) = <<>>
  <2>1. Len(ids) - 1 = 0 /\ 1 .. 0 = {}
    BY <1>1
  <2>2. \A f : DOMAIN f = {} /\ f = [i \in {} |-> f[i]] => f = <<>>
    OBVIOUS
  <2> DEFINE ms == [i \in {} |->
                      IF i = 1 THEN SetPart(ids[1], ids[2]) ELSE ModifyPart(ids[1], ids[i + 1])]
  <2>3. DOMAIN ms = {} /\ ms = [i \in {} |-> ms[i]]
    OBVIOUS
  <2>4. NewMessages(ids) = ms
    BY <2>1 DEF NewMessages
  <2> HIDE DEF ms
  <2>5. QED
    BY <2>2, <2>3, <2>4
<1>3. IsModelOf(ids[1], o)
  <2>1. \A x \in DOMAIN robot_ids : robot_ids[x][1] \in Nat /\ robot_ids[x][1] < next_id
    BY ModelsAreOwn
  <2>2. next_id \in Nat
    BY DEF TypeInv
  <2>3. QED
    BY <1>1, <2>1, <2>2 DEF IsModelOf
<1>4. Renumbers(o, ids)
  BY DEF Renumbers, ids
<1>5. o \notin Told
  BY DEF Told
<1>6. untold' = untold \cup {ids[1]}
  BY DEF ids
<1>7. ASSUME NEW view \in View, Knows(view)
      PROVE  Leads(untold', view, <<>>, view) /\ Knows(view)'
  BY <1>3, <1>4, <1>5, <1>6, <1>7, KnowsUntold, NoneLeadNowhere
<1>8. QED
  BY <1>2, <1>7 DEF ids

(* ... and when there is one                                               *)
LEMMA NewModelIsTold ==
  ASSUME TypeInv, NumberingIsSound, NEW parts \in Nat \ {0}, NEW o, o \notin DOMAIN robot_ids,
         robot_ids' = [x \in DOMAIN robot_ids \cup {o} |->
                         IF x = o THEN NewIds(parts) ELSE robot_ids[x]],
         untold' = untold, previous_surface_ids' = previous_surface_ids
  PROVE  /\ NewMessages(NewIds(parts)) \in Seq(Msg)
         /\ \A view \in View :
              Knows(view) =>
                \E told \in View :
                  Leads(untold', view, NewMessages(NewIds(parts)), told) /\ Knows(told)'
<1> DEFINE ids == NewIds(parts)
           ms == NewMessages(ids)
           rest == [i \in 1 .. parts - 1 |-> ModifyPart(ids[1], ids[i + 2])]
           n == next_id
<1>1. /\ ids \in Seq(Nat) /\ Len(ids) = parts + 1
      /\ \A i \in 1 .. parts + 1 : ids[i] = n + i - 1
  BY IdsOfNewModel
<1>2. n \in Nat
  BY DEF TypeInv
<1> HIDE DEF ids, n
<1>3. ids[1] = n /\ ids[2] = n + 1
  BY <1>1, <1>2
<1>4. \A i \in 1 .. parts : i + 1 \in 1 .. parts + 1 /\ ids[i + 1] \in Nat
  BY <1>1
<1>5. \A p \in Nat : SetPart(n, p) \in Msg /\ ModifyPart(n, p) \in Msg
  BY <1>2 DEF SetPart, ModifyPart, Msg, Message
<1>6. ms \in Seq(Msg) /\ Len(ms) = parts
  <2>1. ms = [i \in 1 .. parts |->
                IF i = 1 THEN SetPart(ids[1], ids[2]) ELSE ModifyPart(ids[1], ids[i + 1])]
    BY <1>1 DEF NewMessages
  <2>2. \A i \in 1 .. parts :
          (IF i = 1 THEN SetPart(ids[1], ids[2]) ELSE ModifyPart(ids[1], ids[i + 1])) \in Msg
    <3> SUFFICES ASSUME NEW i \in 1 .. parts
                 PROVE  (IF i = 1 THEN SetPart(ids[1], ids[2]) ELSE ModifyPart(ids[1], ids[i + 1])) \in Msg
      OBVIOUS
    <3>1. SetPart(ids[1], ids[2]) \in Msg
      BY <1>2, <1>3, <1>5
    <3>2. ModifyPart(ids[1], ids[i + 1]) \in Msg
      BY <1>3, <1>4, <1>5
    <3>3. QED
      BY <3>1, <3>2
  <2>3. ms \in [1 .. parts -> Msg]
    BY <2>1, <2>2
  <2> HIDE DEF ms
  <2>4. QED
    BY <2>3
<1>7. /\ ms[1] = SetPart(n, n + 1)
      /\ \A i \in 2 .. parts : ms[i] = ModifyPart(n, ids[i + 1])
  <2>1. \A i \in 1 .. parts :
          ms[i] = IF i = 1 THEN SetPart(ids[1], ids[2]) ELSE ModifyPart(ids[1], ids[i + 1])
    BY <1>1 DEF NewMessages
  <2> HIDE DEF ms
  <2>2. 1 \in 1 .. parts /\ \A i \in 2 .. parts : i \in 1 .. parts /\ i # 1
    OBVIOUS
  <2>3. ms[1] = SetPart(n, n + 1)
    BY <1>3, <2>1, <2>2
  <2>4. \A i \in 2 .. parts : ms[i] = ModifyPart(n, ids[i + 1])
    BY <1>3, <2>1, <2>2
  <2>5. QED
    BY <2>3, <2>4
<1> HIDE DEF ms
<1>8. /\ rest \in Seq(Msg) /\ Len(rest) = parts - 1
      /\ \A i \in 1 .. parts - 1 : rest[i] = ModifyPart(n, ids[i + 2]) /\ rest[i] = ms[i + 1]
  <2>1. \A i \in 1 .. parts - 1 :
          i + 1 \in 2 .. parts /\ (i + 1) + 1 = i + 2 /\ i + 1 \in 1 .. parts
    OBVIOUS
  <2>2. \A i \in 1 .. parts - 1 : ids[i + 2] \in Nat
    BY <1>4, <2>1
  <2>3. \A i \in 1 .. parts - 1 : rest[i] = ModifyPart(n, ids[i + 2]) /\ rest[i] \in Msg
    BY <1>3, <1>5, <2>2
  <2>4. \A i \in 1 .. parts - 1 : ms[i + 1] = ModifyPart(n, ids[i + 2])
    BY <1>7, <2>1
  <2>5. rest \in [1 .. parts - 1 -> Msg]
    BY <2>3
  <2> HIDE DEF rest
  <2>6. rest \in Seq(Msg) /\ Len(rest) = parts - 1
    BY <2>5
  <2>7. QED
    BY <2>3, <2>4, <2>6
<1> HIDE DEF rest
<1>9. ASSUME NEW view \in View, Knows(view)
      PROVE  \E told \in View : Leads(untold', view, ms, told) /\ Knows(told)'
  <2> DEFINE first == After(view, SetPart(n, n + 1))
             ps == [i \in 1 .. Len(rest) |-> ids[i + 2]]
             P == first.models[n] \cup {ps[i] : i \in 1 .. Len(rest)}
  <2>1. \A x \in DOMAIN robot_ids : robot_ids[x][1] \in Nat /\ robot_ids[x][1] < n
    BY ModelsAreOwn DEF n
  <2>2. n \notin DOMAIN view.models
    BY <1>2, <1>9, <2>1 DEF Knows, Told
  <2>3. ~ Confusing(view, SetPart(n, n + 1))
    BY <2>2 DEF Confusing, SetPart
  <2>4. /\ first \in View
        /\ DOMAIN first.models = DOMAIN view.models \cup {n}
        /\ first.models[n] = {n + 1}
        /\ \A k \in DOMAIN view.models : first.models[k] = view.models[k]
        /\ first.surfaces = view.surfaces
    <3>1. SetPart(n, n + 1) \in Msg
      BY <1>2, <1>5
    <3>2. first \in View
      BY <3>1, ViewAfter
    <3> DEFINE M == view.models
               N == [m \in DOMAIN M \cup {n} |-> IF m = n THEN {n + 1} ELSE M[m]]
    <3>3. first = [models |-> N, surfaces |-> view.surfaces]
      <4>1. view = [models |-> M, surfaces |-> view.surfaces]
        BY DEF View
      <4>2. /\ SetPart(n, n + 1).action = "SET_SSV"
            /\ SetPart(n, n + 1).model = n /\ SetPart(n, n + 1).part = n + 1
        BY DEF SetPart
      <4>3. QED
        BY <2>3, <4>1, <4>2 DEF After
    <3>4. first.models = N /\ first.surfaces = view.surfaces
      BY <3>3
    <3>5. /\ DOMAIN N = DOMAIN M \cup {n} /\ N[n] = {n + 1}
          /\ \A k \in DOMAIN M : N[k] = M[k]
      BY <2>2
    <3>6. QED
      BY <3>2, <3>4, <3>5
  <2> HIDE DEF first
  <2>5. ps \in [1 .. Len(rest) -> Nat] /\ \A i \in 1 .. Len(rest) : rest[i] = ModifyPart(n, ps[i])
    <3>1. \A i \in 1 .. parts - 1 : i + 1 \in 1 .. parts /\ (i + 1) + 1 = i + 2
      OBVIOUS
    <3>2. \A i \in 1 .. Len(rest) : ids[i + 2] \in Nat
      BY <1>4, <1>8, <3>1
    <3>3. QED
      BY <1>8, <3>2
  <2> HIDE DEF ps
  <2>6. P \in SUBSET Nat /\ n \in DOMAIN first.models
    BY <1>2, <2>4, <2>5
  <2>7. Leads(untold', first, rest, WithParts(first, n, P))
    <3>1. first \in View /\ n \in DOMAIN first.models /\ rest \in Seq(Msg)
      BY <1>8, <2>4, <2>6
    <3>2. P = first.models[n] \cup {ps[i] : i \in 1 .. Len(rest)}
      OBVIOUS
    <3> HIDE DEF P
    <3>3. QED
      BY <2>5, <3>1, <3>2, ModifyingLeads, Zenon
  <2>8. \A i \in 2 .. Len(ids) : ids[i] \in P
    <3> SUFFICES ASSUME NEW i \in 2 .. Len(ids) PROVE ids[i] \in P
      OBVIOUS
    <3>1. CASE i = 2
      BY <1>3, <2>4, <3>1
    <3>2. CASE i # 2
      <4>1. i - 2 \in 1 .. Len(rest) /\ (i - 2) + 2 = i
        BY <1>1, <1>8, <3>2
      <4>2. ps[i - 2] = ids[i]
        BY <4>1 DEF ps
      <4>3. QED
        BY <4>1, <4>2
    <3>3. QED
      BY <3>1, <3>2
  <2> HIDE DEF P
  <2>9. PICK told \in View : told = WithParts(first, n, P)
    BY <2>4, <2>6, WithPartsIs
  <2>10. /\ DOMAIN told.models = DOMAIN first.models
         /\ told.models[n] = P
         /\ \A k \in DOMAIN first.models \ {n} : told.models[k] = first.models[k]
         /\ told.surfaces = first.surfaces
    BY <2>4, <2>6, <2>9, WithPartsIs
  <2>11. Leads(untold', view, ms, told)
    <3>1. Len(ms) = Len(rest) + 1 /\ \A i \in 1 .. Len(rest) : rest[i] = ms[i + 1]
      BY <1>6, <1>8
    <3>2. Sensible(untold', view, ms[1]) /\ Leads(untold', After(view, ms[1]), rest, told)
      BY <1>7, <2>3, <2>7, <2>9 DEF first, Sensible
    <3>3. ms \in Seq(Msg) /\ rest \in Seq(Msg)
      BY <1>6, <1>8
    <3>4. QED
      BY <3>1, <3>2, <3>3, FirstLeads
  <2>12. Knows(told)'
    <3>1. IsModelOf(ids[1], o)
      BY <1>2, <1>3, <2>1 DEF IsModelOf
    <3>2. DOMAIN told.models = DOMAIN view.models \cup {ids[1]}
      BY <1>3, <2>4, <2>10
    <3>3. \A k \in DOMAIN view.models \ {ids[1]} : told.models[k] = view.models[k]
      BY <1>3, <2>4, <2>10
    <3>4. told.surfaces = view.surfaces
      BY <2>4, <2>10
    <3>5. ids \in Seq(Nat) /\ Len(ids) >= 1
      BY <1>1
    <3>6. Renumbers(o, ids)
      BY DEF Renumbers, ids
    <3>7. \A i \in 2 .. Len(ids) : ids[i] \in told.models[ids[1]]
      BY <1>3, <2>8, <2>10
    <3>8. HasModel(view, ids, told)
      BY <3>2, <3>3, <3>4, <3>7 DEF HasModel
    <3>9. ids[1] \notin untold
      BY <1>2, <1>3 DEF TypeInv, n
    <3>10. QED
      BY <1>9, <2>9, <3>1, <3>5, <3>6, <3>8, <3>9, KnowsRenumbered
  <2>13. QED
    BY <2>11, <2>12
<1>10. QED
  BY <1>6, <1>9 DEF ms, ids

(* The parts mod_obstacle_cb deletes are some that the model has, each     *)
(* once, though not always those it drops; the last of them, when none is  *)
(* to be left, is the model itself.                                        *)
LEMMA DeletesOwnParts ==
  ASSUME NEW ids \in Seq(Nat), Len(ids) >= 1, IsInjective(ids), NEW parts \in Nat
  PROVE  /\ PartsDeleted(ids, parts) \in Seq(Msg)
         /\ \E ps \in [1 .. Len(PartsDeleted(ids, parts)) -> Nat] :
              /\ \A i \in 1 .. Len(PartsDeleted(ids, parts)) :
                   /\ PartsDeleted(ids, parts)[i] = DeletePart(ids[1], ps[i])
                   /\ ps[i] \in {ids[k] : k \in 2 .. Len(ids)} \/ ps[i] = ids[1]
              /\ \A i, j \in 1 .. Len(PartsDeleted(ids, parts)) : ps[i] = ps[j] => i = j
<1> DEFINE n == Len(ids) - 1
           d == IF n > parts THEN n - parts ELSE 0
           ps == [i \in 1 .. d |-> ids[n - (i - 1)]]
           ms == PartsDeleted(ids, parts)
<1>1. n \in Nat /\ Len(ids) = n + 1 /\ d \in Nat /\ \A i \in 1 .. d : n - (i - 1) \in 1 .. n
  OBVIOUS
<1>2. Surplus(n, parts) = d
  BY <1>1, SurplusIs
<1>3. ms = [i \in 1 .. d |-> DeletePart(ids[1], ids[n - (i - 1)])]
  BY <1>2 DEF PartsDeleted
<1>4. \A k \in 1 .. n + 1 : ids[k] \in Nat
  BY <1>1
<1> HIDE DEF n, d, ms
<1>5. \A j, k \in 1 .. n + 1 : ids[j] = ids[k] => j = k
  <2>1. DOMAIN ids = 1 .. n + 1
    BY <1>1
  <2>2. \A j, k \in DOMAIN ids : ids[j] = ids[k] => j = k
    BY DEF IsInjective
  <2>3. QED
    BY <2>1, <2>2
<1>6. \A i \in 1 .. d : n - (i - 1) \in 1 .. n + 1
  BY <1>1
<1>7. ps \in [1 .. d -> Nat] /\ \A i \in 1 .. d : ps[i] = ids[n - (i - 1)]
  BY <1>4, <1>6
<1> HIDE DEF ps
<1>8. 1 \in 1 .. n + 1
  BY <1>1
<1>9. \A a, b \in Nat : DeletePart(a, b) \in Msg
  BY DEF DeletePart, Msg, Message
<1>10. ms \in [1 .. d -> Msg] /\ \A i \in 1 .. d : ms[i] = DeletePart(ids[1], ps[i])
  BY <1>3, <1>4, <1>7, <1>8, <1>9
<1>11. ms \in Seq(Msg) /\ Len(ms) = d
  BY <1>1, <1>10
<1>12. ASSUME NEW i \in 1 .. d
       PROVE  ps[i] \in {ids[k] : k \in 2 .. Len(ids)} \/ ps[i] = ids[1]
  <2>1. PICK k \in 1 .. n + 1 : ps[i] = ids[k]
    BY <1>6, <1>7
  <2>2. k = 1 \/ k \in 2 .. Len(ids)
    BY <1>1
  <2>3. QED
    BY <2>1, <2>2
<1>13. ASSUME NEW i \in 1 .. d, NEW j \in 1 .. d, ps[i] = ps[j]
       PROVE  i = j
  <2>1. n - (i - 1) = n - (j - 1)
    BY <1>5, <1>6, <1>7, <1>13
  <2>2. QED
    BY <1>1, <2>1
<1>14. QED
  BY <1>7, <1>10, <1>11, <1>12, <1>13 DEF ms

(* The parts that are left are modified, all of them.                      *)
LEMMA ModifiesAllParts ==
  ASSUME NEW ids \in Seq(Nat), Len(ids) >= 1
  PROVE  /\ PartsModified(ids) \in Seq(Msg)
         /\ \E ps \in [1 .. Len(PartsModified(ids)) -> Nat] :
              /\ \A i \in 1 .. Len(PartsModified(ids)) :
                   PartsModified(ids)[i] = ModifyPart(ids[1], ps[i])
              /\ {ps[i] : i \in 1 .. Len(PartsModified(ids))} = {ids[k] : k \in 2 .. Len(ids)}
<1> DEFINE n == Len(ids) - 1
           ps == [i \in 1 .. n |-> ids[i + 1]]
           ms == PartsModified(ids)
<1>1. n \in Nat /\ Len(ids) = n + 1 /\ \A k \in 1 .. n + 1 : ids[k] \in Nat
  OBVIOUS
<1>2. ms = [i \in 1 .. n |-> ModifyPart(ids[1], ids[i + 1])]
  BY DEF PartsModified
<1> HIDE DEF n, ms
<1>3. \A i \in 1 .. n : i + 1 \in 1 .. n + 1 /\ i + 1 \in 2 .. n + 1
  BY <1>1
<1>4. ps \in [1 .. n -> Nat] /\ \A i \in 1 .. n : ps[i] = ids[i + 1]
  BY <1>1, <1>3
<1> HIDE DEF ps
<1>5. \A a, b \in Nat : ModifyPart(a, b) \in Msg
  BY DEF ModifyPart, Msg, Message
<1>6. ids[1] \in Nat
  BY <1>1
<1>7. ms \in [1 .. n -> Msg] /\ \A i \in 1 .. n : ms[i] = ModifyPart(ids[1], ps[i])
  BY <1>1, <1>2, <1>3, <1>4, <1>5, <1>6
<1>8. ms \in Seq(Msg) /\ Len(ms) = n
  BY <1>1, <1>7
<1>9. \A k \in 2 .. n + 1 : k - 1 \in 1 .. n /\ (k - 1) + 1 = k
  BY <1>1
<1>10. {ps[i] : i \in 1 .. n} = {ids[k] : k \in 2 .. n + 1}
  <2>1. \A i \in 1 .. n : ps[i] \in {ids[k] : k \in 2 .. n + 1}
    BY <1>3, <1>4
  <2>2. ASSUME NEW k \in 2 .. n + 1
        PROVE  ids[k] \in {ps[i] : i \in 1 .. n}
    <3>1. ps[k - 1] = ids[k]
      BY <1>4, <1>9
    <3>2. QED
      BY <1>9, <3>1
  <2>3. QED
    BY <2>1, <2>2
<1>11. QED
  BY <1>1, <1>4, <1>7, <1>8, <1>10 DEF ms

(* Messages that delete parts of a model of this view, each once, and such *)
(* that modify all parts of a list of ids.                                 *)
DeletesOwn(view, m, ms, ps) ==
  /\ ms \in Seq(Msg) /\ ps \in [1 .. Len(ms) -> Nat]
  /\ \A i \in 1 .. Len(ms) : ms[i] = DeletePart(m, ps[i])
  /\ \A i \in 1 .. Len(ms) : ps[i] \in view.models[m] \/ ps[i] = m
  /\ \A i, j \in 1 .. Len(ms) : ps[i] = ps[j] => i = j

ModifiesAll(ids, ms, ps) ==
  /\ ms \in Seq(Msg) /\ ps \in [1 .. Len(ms) -> Nat]
  /\ \A i \in 1 .. Len(ms) : ms[i] = ModifyPart(ids[1], ps[i])
  /\ \A k \in 2 .. Len(ids) : \E i \in 1 .. Len(ms) : ids[k] = ps[i]

(* Some parts of a model are deleted and then others modified.             *)
LEMMA DeletingAndModifyingLeads ==
  ASSUME NEW U, NEW view \in View, NEW ids, ids[1] \in DOMAIN view.models,
         NEW del, NEW gone, DeletesOwn(view, ids[1], del, gone),
         NEW mod, NEW left, ModifiesAll(ids, mod, left)
  PROVE  \E told \in View : Leads(U, view, del \o mod, told) /\ HasModel(view, ids, told)
<1> DEFINE m == ids[1]
<1>0. /\ del \in Seq(Msg) /\ gone \in [1 .. Len(del) -> Nat]
      /\ \A i \in 1 .. Len(del) : del[i] = DeletePart(m, gone[i])
      /\ \A i \in 1 .. Len(del) : gone[i] \in view.models[m] \/ gone[i] = m
      /\ \A i, j \in 1 .. Len(del) : gone[i] = gone[j] => i = j
      /\ mod \in Seq(Msg) /\ left \in [1 .. Len(mod) -> Nat]
      /\ \A i \in 1 .. Len(mod) : mod[i] = ModifyPart(m, left[i])
      /\ \A k \in 2 .. Len(ids) : \E i \in 1 .. Len(mod) : ids[k] = left[i]
      /\ m \in DOMAIN view.models
  BY DEF DeletesOwn, ModifiesAll
<1> HIDE DEF m
<1> DEFINE P == view.models[m] \ {gone[i] : i \in 1 .. Len(del)}
           L == {left[i] : i \in 1 .. Len(mod)}
           Q == P \cup L
<1>1. P \in SUBSET Nat
  <2>1. view.models \in [DOMAIN view.models -> SUBSET Nat]
    BY DEF View
  <2>2. QED
    BY <1>0, <2>1
<1>2. L \in SUBSET Nat
  BY <1>0
<1>2a. P = view.models[m] \ {gone[i] : i \in 1 .. Len(del)}
  OBVIOUS
<1> HIDE DEF P
<1>3. Leads(U, view, del, WithParts(view, m, P))
  BY <1>0, <1>2a, DeletingLeads, Zenon
<1>4. PICK middle \in View :
        /\ Leads(U, view, del, middle)
        /\ DOMAIN middle.models = DOMAIN view.models
        /\ middle.models[m] = P
        /\ \A k \in DOMAIN view.models \ {m} : middle.models[k] = view.models[k]
        /\ middle.surfaces = view.surfaces
  BY <1>0, <1>1, <1>3, WithPartsIs
<1>5. m \in DOMAIN middle.models
  BY <1>0, <1>4
<1>6. Q = middle.models[m] \cup {left[i] : i \in 1 .. Len(mod)}
  BY <1>4
<1> HIDE DEF L
<1>7. L \subseteq Q /\ Q \in SUBSET Nat
  BY <1>1, <1>2
<1> HIDE DEF Q
<1>8. Leads(U, middle, mod, WithParts(middle, m, Q)) /\ Q \in SUBSET Nat
  <2>1. Leads(U, middle, mod, WithParts(middle, m, Q))
    BY <1>0, <1>4, <1>5, <1>6, ModifyingLeads, Zenon
  <2>2. QED
    BY <1>7, <2>1
<1>9. PICK told \in View :
        /\ Leads(U, middle, mod, told)
        /\ DOMAIN told.models = DOMAIN middle.models
        /\ told.models[m] = Q
        /\ \A k \in DOMAIN middle.models \ {m} : told.models[k] = middle.models[k]
        /\ told.surfaces = middle.surfaces
  BY <1>4, <1>5, <1>7, <1>8, WithPartsIs
<1>10. Leads(U, view, del \o mod, told)
  BY <1>0, <1>4, <1>9, BothLead
<1>11. \A k \in 2 .. Len(ids) : ids[k] \in told.models[m]
  BY <1>0, <1>7, <1>9 DEF L
<1>12. /\ DOMAIN told.models = DOMAIN view.models
       /\ \A k \in DOMAIN view.models \ {m} : told.models[k] = view.models[k]
       /\ told.surfaces = view.surfaces
  BY <1>4, <1>9
<1>13. QED
  BY <1>0, <1>9, <1>10, <1>11, <1>12 DEF HasModel, m

(* mod_obstacle_cb                                                         *)
LEMMA ChangesAreTold ==
  ASSUME TypeInv, NumberingIsSound, NEW o \in DOMAIN robot_ids, NEW parts \in Nat,
         NEW ids, ids = robot_ids[o],
         NEW new, new = PartsKept(ids, parts) \o PartsAdded(ids, parts),
         robot_ids' = [x \in DOMAIN robot_ids \cup {o} |-> IF x = o THEN new ELSE robot_ids[x]],
         untold' = untold, previous_surface_ids' = previous_surface_ids
  PROVE  \A view \in View :
           Knows(view) =>
             \E told \in View :
               Leads(untold', view, PartsDeleted(ids, parts) \o PartsModified(new), told) /\ Knows(told)'
<1>1. /\ ids \in Seq(Nat) /\ Len(ids) >= 1 /\ IsInjective(ids)
      /\ \A i \in DOMAIN ids : ids[i] < next_id
      /\ next_id \in Nat
  BY ModelsAreOwn DEF TypeInv, NumberingIsSound
<1>2. new \in Seq(Nat) /\ Len(new) >= 1 /\ new[1] = ids[1]
  BY <1>1, UpdatedIds
<1> DEFINE m == ids[1]
           del == PartsDeleted(ids, parts)
           mod == PartsModified(new)
<1>3. /\ m \in Nat
      /\ \A x \in DOMAIN robot_ids \ {o} : robot_ids[x][1] # m
  BY ModelsAreOwn
<1>4. del \in Seq(Msg)
  BY <1>1, DeletesOwnParts
<1>5. PICK gone \in [1 .. Len(del) -> Nat] :
        /\ \A i \in 1 .. Len(del) : /\ del[i] = DeletePart(m, gone[i])
                                    /\ gone[i] \in {ids[k] : k \in 2 .. Len(ids)} \/ gone[i] = m
        /\ \A i, j \in 1 .. Len(del) : gone[i] = gone[j] => i = j
  BY <1>1, DeletesOwnParts
<1>6. mod \in Seq(Msg)
  BY <1>2, ModifiesAllParts
<1>7. PICK left \in [1 .. Len(mod) -> Nat] :
        /\ \A i \in 1 .. Len(mod) : mod[i] = ModifyPart(m, left[i])
        /\ {left[i] : i \in 1 .. Len(mod)} = {new[k] : k \in 2 .. Len(new)}
  <2>1. \E left \in [1 .. Len(mod) -> Nat] :
          /\ \A i \in 1 .. Len(mod) : mod[i] = ModifyPart(new[1], left[i])
          /\ {left[i] : i \in 1 .. Len(mod)} = {new[k] : k \in 2 .. Len(new)}
    BY <1>2, ModifiesAllParts
  <2> HIDE DEF mod
  <2>2. QED
    BY <1>2, <2>1
<1>8. ASSUME NEW view \in View, Knows(view), m \notin untold
      PROVE  \E told \in View : Leads(untold', view, del \o mod, told) /\ Knows(told)'
  <2>0. o \in Told
    BY <1>8 DEF Told
  <2>1. m \in DOMAIN view.models
    BY <1>8, <2>0 DEF Knows
  <2>2. {ids[k] : k \in 2 .. Len(ids)} \subseteq view.models[m]
    <3>1. Range(Tail(ids)) \subseteq view.models[m]
      BY <1>8, <2>0 DEF Knows
    <3>2. QED
      BY <1>1, <3>1, PartsOfIds
  <2> HIDE DEF m, del, mod
  <2>3. \A i \in 1 .. Len(del) : gone[i] \in view.models[m] \/ gone[i] = m
    BY <1>5, <2>2
  <2>4. new[1] = m
    BY <1>2 DEF m
  <2>5. DeletesOwn(view, new[1], del, gone)
    BY <1>4, <1>5, <2>3, <2>4 DEF DeletesOwn
  <2>6. ModifiesAll(new, mod, left)
    <3>1. ASSUME NEW k \in 2 .. Len(new)
          PROVE  \E i \in 1 .. Len(mod) : new[k] = left[i]
      <4>1. new[k] \in {left[i] : i \in 1 .. Len(mod)}
        BY <1>7
      <4>2. QED
        BY <4>1
    <3>2. QED
      BY <1>6, <1>7, <2>4, <3>1 DEF ModifiesAll
  <2>7. PICK told \in View : Leads(untold', view, del \o mod, told) /\ HasModel(view, new, told)
    BY <1>8, <2>1, <2>4, <2>5, <2>6, DeletingAndModifyingLeads
  <2>8. IsModelOf(new[1], o)
    BY <1>2, <1>3, <2>4 DEF IsModelOf
  <2>9. Renumbers(o, new)
    BY DEF Renumbers
  <2>10. new \in Seq(Nat) /\ Len(new) >= 1
    BY <1>2
  <2>11. Knows(told)'
    BY <1>8, <2>4, <2>7, <2>8, <2>9, <2>10, KnowsRenumbered
  <2>12. QED
    BY <2>7, <2>11
<1>9. ASSUME NEW view \in View, Knows(view), m \in untold
      PROVE  Leads(untold', view, del \o mod, view) /\ Knows(view)'
  <2>1. m \notin DOMAIN view.models
    BY <1>9 DEF Knows, Told
  <2>2. \A p \in Nat :
          /\ ModifyPart(m, p).action = "MODIFY_SSV" /\ ModifyPart(m, p).model = m
          /\ DeletePart(m, p).action = "REMOVE_SSV_ONLY_PART" /\ DeletePart(m, p).model = m
          /\ "model" \in DOMAIN ModifyPart(m, p) /\ "model" \in DOMAIN DeletePart(m, p)
    BY DEF ModifyPart, DeletePart
  <2>3. o \notin Told
    BY <1>9 DEF Told
  <2>4. IsModelOf(new[1], o) /\ Renumbers(o, new)
    BY <1>2, <1>3 DEF IsModelOf, Renumbers
  <2>5. Knows(view)'
    BY <1>2, <1>9, <2>3, <2>4, KnowsUntold
  <2> HIDE DEF m, del, mod
  <2>6. Leads(untold, view, del, view)
    <3>1. \A i \in 1 .. Len(del) : gone[i] \in Nat /\ del[i] = DeletePart(m, gone[i])
      BY <1>5
    <3>2. \A i \in 1 .. Len(del) :
            /\ del[i].action \in {"MODIFY_SSV", "REMOVE_SSV_ONLY_PART", "REMOVE_SSV_WHOLE_SEGMENT"}
            /\ "model" \in DOMAIN del[i] /\ del[i].model = m
      BY <2>2, <3>1
    <3>3. QED
      BY <1>4, <1>9, <2>1, <3>2, UntoldLead
  <2>7. Leads(untold, view, mod, view)
    <3>1. \A i \in 1 .. Len(mod) : left[i] \in Nat /\ mod[i] = ModifyPart(m, left[i])
      BY <1>7
    <3>2. \A i \in 1 .. Len(mod) :
            /\ mod[i].action \in {"MODIFY_SSV", "REMOVE_SSV_ONLY_PART", "REMOVE_SSV_WHOLE_SEGMENT"}
            /\ "model" \in DOMAIN mod[i] /\ mod[i].model = m
      BY <2>2, <3>1
    <3>3. QED
      BY <1>6, <1>9, <2>1, <3>2, UntoldLead
  <2>8. QED
    BY <1>4, <1>6, <2>5, <2>6, <2>7, BothLead
<1>10. QED
  BY <1>8, <1>9

(* del_obstacle_cb                                                         *)
LEMMA DeletionIsTold ==
  ASSUME TypeInv, NumberingIsSound, NEW o \in DOMAIN robot_ids,
         robot_ids' = Restrict(robot_ids, DOMAIN robot_ids \ {o}),
         untold' = untold, previous_surface_ids' = previous_surface_ids
  PROVE  /\ <<Deletion(robot_ids[o])>> \in Seq(Msg)
         /\ \A view \in View :
              Knows(view) =>
                \E told \in View : Leads(untold', view, <<Deletion(robot_ids[o])>>, told) /\ Knows(told)'
<1> DEFINE m == robot_ids[o][1]
           msg == Deletion(robot_ids[o])
<1>1. m \in Nat /\ \A x \in DOMAIN robot_ids \ {o} : robot_ids[x][1] # m
  BY ModelsAreOwn
<1>2. msg \in Msg /\ msg.action = "REMOVE_SSV_WHOLE_SEGMENT" /\ msg.model = m
  BY <1>1 DEF Deletion, DeleteModel, Msg, Message
<1> HIDE DEF msg
<1> DEFINE R == robot_ids'
           T == Told'
<1>3. /\ DOMAIN R = DOMAIN robot_ids \ {o}
      /\ \A x \in DOMAIN robot_ids \ {o} : R[x] = robot_ids[x]
  BY DEF Restrict
<1>4. T = Told \ {o} /\ \A x \in T : R[x] = robot_ids[x] /\ x # o
  <2>1. T = {x \in DOMAIN R : R[x][1] \notin untold}
    BY DEF Told
  <2> HIDE DEF R, T
  <2>2. QED
    BY <1>3, <2>1 DEF Told
<1>5. Told \subseteq DOMAIN robot_ids
  BY DEF Told
<1>6. ASSUME NEW view \in View, Knows(view), m \in untold
      PROVE  Leads(untold', view, <<msg>>, view) /\ Knows(view)'
  <2>1. m \notin DOMAIN view.models
    BY <1>6 DEF Knows, Told
  <2>2. Leads(untold, view, <<msg>>, view)
    <3>1. "model" \in DOMAIN msg
      BY DEF msg, Deletion, DeleteModel
    <3>2. <<msg>> \in Seq(Msg) /\ \A i \in 1 .. Len(<<msg>>) : <<msg>>[i] = msg
      BY <1>2
    <3>3. QED
      BY <1>2, <1>6, <2>1, <3>1, <3>2, UntoldLead
  <2>3. o \notin Told
    BY <1>6 DEF Told
  <2>4. T = Told
    BY <1>4, <2>3
  <2>5. DOMAIN view.models = {R[x][1] : x \in T}
    <3>1. DOMAIN view.models = {robot_ids[x][1] : x \in Told}
      BY <1>6 DEF Knows
    <3> HIDE DEF R, T
    <3>2. QED
      BY <1>4, <2>4, <3>1
  <2>6. \A x \in T : Range(Tail(R[x])) \subseteq view.models[R[x][1]]
    <3> HIDE DEF R, T
    <3>1. QED
      BY <1>4, <1>6, <2>4 DEF Knows
  <2>7. view.surfaces = previous_surface_ids'
    BY <1>6 DEF Knows
  <2>8. QED
    BY <2>2, <2>5, <2>6, <2>7 DEF Knows
<1>7. ASSUME NEW view \in View, Knows(view), m \notin untold
      PROVE  \E told \in View : Leads(untold', view, <<msg>>, told) /\ Knows(told)'
  <2> DEFINE M == view.models
             D == DOMAIN M \ {m}
             N == [k \in D |-> M[k]]
  <2>1. DOMAIN M = {robot_ids[x][1] : x \in Told} /\ o \in Told /\ m \in DOMAIN M
    BY <1>7 DEF Knows, Told
  <2>2. ~ Confusing(view, msg)
    BY <1>2, <2>1 DEF Confusing
  <2>3. PICK told \in View : told = After(view, msg)
    BY <1>2, ViewAfter
  <2>4. told = [models |-> N, surfaces |-> view.surfaces]
    <3>1. view = [models |-> M, surfaces |-> view.surfaces]
      BY DEF View
    <3>2. QED
      BY <1>2, <2>2, <2>3, <3>1 DEF After, Restrict
  <2>5. told.models = N /\ told.surfaces = view.surfaces
    BY <2>4
  <2>6. Leads(untold', view, <<msg>>, told)
    BY <1>2, <2>2, <2>3, OneLeads DEF Sensible
  <2>8. DOMAIN told.models = {R[x][1] : x \in T}
    <3>1. D = {robot_ids[x][1] : x \in Told \ {o}}
      BY <1>1, <1>5, <2>1
    <3>2. DOMAIN told.models = D
      BY <2>5
    <3> HIDE DEF R, T
    <3>3. {R[x][1] : x \in T} = {robot_ids[x][1] : x \in Told \ {o}}
      BY <1>4
    <3>4. QED
      BY <3>1, <3>2, <3>3
  <2>9. ASSUME NEW x \in T
        PROVE  Range(Tail(R[x])) \subseteq told.models[R[x][1]]
    <3>1. x \in Told /\ x \in DOMAIN robot_ids \ {o} /\ R[x] = robot_ids[x]
      BY <1>4, <1>5
    <3>2. robot_ids[x][1] \in D
      BY <1>1, <2>1, <3>1
    <3>3. Range(Tail(robot_ids[x])) \subseteq M[robot_ids[x][1]]
      BY <1>7, <3>1 DEF Knows
    <3>4. QED
      BY <2>5, <3>1, <3>2, <3>3
  <2>10. told.surfaces = previous_surface_ids'
    BY <1>7, <2>5 DEF Knows
  <2>11. Knows(told)'
    BY <2>8, <2>9, <2>10 DEF Knows
  <2>12. QED
    BY <2>6, <2>11
<1>8. QED
  BY <1>2, <1>7, <1>6 DEF msg

(* surface_cb and del_surface_cb: the messages agree with what lepp3       *)
(* remembers of the surfaces.                                              *)
LEMMA SurfaceIsTold ==
  ASSUME TypeInv, NEW s \in Surface, NEW msg, robot_ids' = robot_ids, untold' = untold,
         \/ msg = SurfaceUpdate(s) /\ previous_surface_ids' = previous_surface_ids \cup {s}
         \/ /\ msg = DeleteSurface(s) /\ previous_surface_ids' = previous_surface_ids \ {s}
            /\ s \in previous_surface_ids
  PROVE  /\ <<msg>> \in Seq(Msg)
         /\ \A view \in View :
              Knows(view) => \E told \in View : Leads(untold', view, <<msg>>, told) /\ Knows(told)'
<1>1. msg \in Msg /\ msg.surface = s
  BY DEF SurfaceUpdate, SetSurface, ModifySurface, DeleteSurface, Msg, Message
<1>2. \/ /\ msg.action = "SET_SURFACE" /\ s \notin previous_surface_ids
         /\ previous_surface_ids' = previous_surface_ids \cup {s}
      \/ /\ msg.action = "MODIFY_SURFACE" /\ s \in previous_surface_ids
         /\ previous_surface_ids' = previous_surface_ids \cup {s}
      \/ /\ msg.action = "REMOVE_SURFACE" /\ s \in previous_surface_ids
         /\ previous_surface_ids' = previous_surface_ids \ {s}
  BY DEF SurfaceUpdate, SetSurface, ModifySurface, DeleteSurface
<1>3. ASSUME NEW view \in View, Knows(view)
      PROVE  \E told \in View : Leads(untold', view, <<msg>>, told) /\ Knows(told)'
  <2>1. view.surfaces = previous_surface_ids
    BY <1>3 DEF Knows
  <2>2. ~ Confusing(view, msg)
    BY <1>1, <1>2, <2>1 DEF Confusing
  <2>3. PICK told \in View : told = After(view, msg)
    BY <1>1, ViewAfter
  <2>4. told.models = view.models /\ told.surfaces = previous_surface_ids'
    <3>1. view = [models |-> view.models, surfaces |-> view.surfaces]
      BY DEF View
    <3>2. QED
      BY <1>1, <1>2, <2>1, <2>2, <2>3, <3>1 DEF After
  <2>5. Leads(untold', view, <<msg>>, told)
    BY <1>1, <2>2, <2>3, OneLeads DEF Sensible
  <2>6. Knows(told)'
    BY <1>3, <2>4 DEF Knows, Told
  <2>7. QED
    BY <2>5, <2>6
<1>4. QED
  BY <1>1, <1>3

-----------------------------------------------------------------------------
(* Every step keeps the promise.                                           *)
LEMMA ObstaclesAreTold ==
  ASSUME InformedInv, NEW o \in Obstacle, NEW parts \in 0 .. MaxParts,
         new_obstacle_cb(o, parts) \/ mod_obstacle_cb(o, parts)
  PROVE  WillKnow'
<1>1. TypeInv /\ NumberingIsSound /\ WillKnow /\ DOMAIN robot_ids = previous_ids
  BY DEF InformedInv, IInv, NumberingIsSound
<1>2. /\ parts \in Nat
      /\ UNCHANGED <<previous_surface_ids, robot, intact>>
  <2>1. NextObstacle(o, parts)
    BY DEF new_obstacle_cb, mod_obstacle_cb
  <2>2. QED
    BY <1>1, <2>1, NextObstacleTyped DEF NextObstacle, service_vars
<1>3. CASE new_obstacle_cb(o, parts)
  <2>1. /\ o \notin DOMAIN robot_ids
        /\ robot_ids' = [x \in DOMAIN robot_ids \cup {o} |->
                           IF x = o THEN NewIds(parts) ELSE robot_ids[x]]
        /\ Send(NewMessages(NewIds(parts)))
        /\ untold' = IF parts = 0 THEN untold \cup {NewIds(parts)[1]} ELSE untold
    BY <1>1, <1>3 DEF new_obstacle_cb
  <2> DEFINE ms == NewMessages(NewIds(parts))
  <2>2. /\ ms \in Seq(Msg)
        /\ \A view \in View :
             Knows(view) => \E told \in View : Leads(untold', view, ms, told) /\ Knows(told)'
    <3>1. CASE parts = 0
      <4>1. /\ ms = <<>>
            /\ \A view \in View : Knows(view) => Leads(untold', view, <<>>, view) /\ Knows(view)'
        BY <1>1, <1>2, <2>1, <3>1, PartlessModelIsNotTold
      <4> HIDE DEF ms
      <4>2. QED
        BY <4>1
    <3>2. CASE parts # 0
      BY <1>1, <1>2, <2>1, <3>2, NewModelIsTold
    <3>3. QED
      BY <3>1, <3>2
  <2>3. QED
    BY <1>1, <1>2, <2>1, <2>2, PostingInforms
<1>4. CASE mod_obstacle_cb(o, parts) /\ o \in near
  BY <1>1, <1>2, <1>4, SilenceInforms DEF mod_obstacle_cb, aggregator_vars
<1>5. CASE mod_obstacle_cb(o, parts) /\ o \notin near
  <2> DEFINE ids == robot_ids[o]
             new == PartsKept(ids, parts) \o PartsAdded(ids, parts)
             ms  == PartsDeleted(ids, parts) \o PartsModified(new)
  <2>1. /\ o \in DOMAIN robot_ids
        /\ robot_ids' = [robot_ids EXCEPT ![o] = new] /\ untold' = untold
        /\ Send(ms)
    BY <1>1, <1>5 DEF mod_obstacle_cb
  <2>2. ids \in Seq(Nat) /\ Len(ids) >= 1 /\ new \in Seq(Nat) /\ Len(new) >= 1
    <3>1. /\ ids \in Seq(Nat) /\ Len(ids) >= 1 /\ IsInjective(ids) /\ next_id \in Nat
          /\ \A i \in DOMAIN ids : ids[i] < next_id
      BY <1>1, <2>1 DEF TypeInv, NumberingIsSound
    <3>2. QED
      BY <1>2, <3>1, UpdatedIds
  <2>3. ms \in Seq(Msg)
    BY <1>2, <2>2, ChangesOnlyModify
  <2>4. robot_ids' = [x \in DOMAIN robot_ids \cup {o} |-> IF x = o THEN new ELSE robot_ids[x]]
    <3> HIDE DEF new
    <3>1. QED
      BY <1>1, <2>1 DEF TypeInv
  <2>5. \A view \in View :
          Knows(view) => \E told \in View : Leads(untold', view, ms, told) /\ Knows(told)'
    BY <1>1, <1>2, <2>1, <2>4, ChangesAreTold
  <2> HIDE DEF ms
  <2>6. QED
    BY <1>1, <1>2, <2>1, <2>3, <2>5, PostingInforms
<1>6. QED
  BY <1>3, <1>4, <1>5

(* What is said of surfaces is what the aggregator knows of them.          *)
LEMMA SurfacesAreTold ==
  ASSUME InformedInv, NEW s \in Surface, surface_cb(s) \/ del_surface_cb(s)
  PROVE  WillKnow'
<1>1. TypeInv /\ WillKnow /\ UNCHANGED <<robot_ids, untold, robot, intact>>
  BY DEF InformedInv, IInv, surface_cb, del_surface_cb, aggregator_vars, service_vars
<1>2. CASE UNCHANGED <<previous_surface_ids, queue>>
  BY <1>1, <1>2, SilenceInforms
<1>3. ASSUME NEW msg, Send(<<msg>>),
             \/ msg = SurfaceUpdate(s) /\ previous_surface_ids' = previous_surface_ids \cup {s}
             \/ /\ msg = DeleteSurface(s) /\ previous_surface_ids' = previous_surface_ids \ {s}
                /\ s \in previous_surface_ids
      PROVE  WillKnow'
  <2>1. /\ <<msg>> \in Seq(Msg)
        /\ \A view \in View :
             Knows(view) => \E told \in View : Leads(untold', view, <<msg>>, told) /\ Knows(told)'
    BY <1>1, <1>3, SurfaceIsTold
  <2>2. QED
    BY <1>1, <1>3, <2>1, PostingInforms
<1>4. CASE surface_cb(s)
  <2>1. CASE s \in previous_surface_ids \cap near_surfaces
    BY <1>2, <1>4, <2>1 DEF surface_cb
  <2>2. CASE s \notin previous_surface_ids \cap near_surfaces
    BY <1>3, <1>4, <2>2 DEF surface_cb
  <2>3. QED
    BY <2>1, <2>2
<1>5. CASE del_surface_cb(s)
  <2>1. s \in previous_surface_ids
    BY <1>5 DEF InformedInv, DeletedSurfacesWereThere, del_surface_cb
  <2>2. CASE s \in near_surfaces
    BY <1>2, <1>5, <2>2 DEF del_surface_cb
  <2>3. CASE s \notin near_surfaces
    BY <1>3, <1>5, <2>1, <2>3 DEF del_surface_cb
  <2>4. QED
    BY <2>2, <2>3
<1>6. QED
  BY <1>4, <1>5

(* The deletion on its way takes away what the aggregator has forgotten.   *)
LEMMA DeletedObstacleIsTold ==
  ASSUME InformedInv, NEW o \in Obstacle, del_obstacle_cb(o)
  PROVE  WillKnow'
<1>1. /\ TypeInv /\ NumberingIsSound /\ WillKnow /\ o \in DOMAIN robot_ids
      /\ UNCHANGED <<previous_surface_ids, untold, robot, intact>>
  BY DEF InformedInv, IInv, NumberingIsSound, DeletedWereThere, del_obstacle_cb, service_vars
<1>2. CASE o \in near
  BY <1>1, <1>2, SilenceInforms DEF del_obstacle_cb
<1>3. CASE o \notin near
  <2> DEFINE ms == <<Deletion(robot_ids[o])>>
  <2>1. Send(ms) /\ robot_ids' = Restrict(robot_ids, DOMAIN robot_ids \ {o})
    BY <1>3 DEF del_obstacle_cb
  <2>2. /\ ms \in Seq(Msg)
        /\ \A view \in View :
             Knows(view) => \E told \in View : Leads(untold', view, ms, told) /\ Knows(told)'
    BY <1>1, <2>1, DeletionIsTold
  <2> HIDE DEF ms
  <2>3. QED
    BY <1>1, <2>1, <2>2, PostingInforms
<1>4. QED
  BY <1>2, <1>3

(* The service thread: a message that arrives makes sense, and the others  *)
(* lead on from there; one that does not arrive is lost.                   *)
LEMMA SendingInforms ==
  ASSUME InformedInv, inner_send
  PROVE  WillKnow'
<1> SUFFICES ASSUME intact'
             PROVE  (\E view \in View : Leads(untold, robot, queue, view) /\ Knows(view))'
  BY DEF WillKnow
<1>1. /\ queue \in Seq(Msg) /\ robot \in View /\ queue # <<>> /\ queue' = RemoveAt(queue, 1)
      /\ UNCHANGED <<robot_ids, untold, previous_surface_ids>>
  BY DEF InformedInv, IInv, TypeInv, inner_send, NextToSend, diff_vars, aggregator_vars
<1>2. intact /\ robot' = After(robot, queue[1])
  BY DEF inner_send, Transmit, NextToSend
<1>3. /\ queue' \in Seq(Msg) /\ Len(queue) = Len(queue') + 1
      /\ \A i \in 1 .. Len(queue') : queue'[i] = queue[i + 1]
  <2> DEFINE q == queue'
  <2>1. /\ q \in Seq(Msg) /\ Len(q) = Len(queue) - 1
        /\ \A i \in 1 .. Len(queue) - 1 : q[i] = queue[i + 1]
    BY <1>1, SentIsFirst
  <2> HIDE DEF q
  <2>2. q \in Seq(Msg) /\ Len(queue) = Len(q) + 1 /\ \A i \in 1 .. Len(q) : q[i] = queue[i + 1]
    BY <1>1, <2>1
  <2>3. QED
    BY <2>2 DEF q
<1>4. PICK view \in View : Leads(untold, robot, queue, view) /\ Knows(view)
  BY <1>2 DEF InformedInv, WillKnow
<1>5. Leads(untold, After(robot, queue[1]), queue', view)
  BY <1>1, <1>3, <1>4, FirstLeads
<1>6. Leads(untold, robot, queue, view)'
  <2>1. Leads(untold', robot', queue', view)
    BY <1>1, <1>2, <1>5
  <2>2. QED
    BY <2>1 DEF Leads, Sensible, Partless
<1>7. Knows(view)'
  BY <1>1, <1>4 DEF Knows, Told
<1>8. QED
  BY <1>4, <1>6, <1>7

(* Every step keeps that the robot knows, or will know.                    *)
LEMMA StepInforms ==
  ASSUME InformedInv, [Next]_vars
  PROVE  InformedInv'
<1>1. IInv'
  BY StepPreserves DEF InformedInv
<1>2. DeletedSurfacesWereThere'
  BY DEF InformedInv, DeletedSurfacesWereThere, Next, UpdateFrame, Snapshot, SkipFrame,
     BeginSnapshot, new_obstacle_cb, mod_obstacle_cb, NextObstacle, EndObstacles, surface_cb,
     EndSurfaces, del_obstacle_cb, EndDeletions, GoneSurfaces, del_surface_cb, EndSnapshot,
     inner_send, Connect, ConnectionBreaks, vars, diff_vars
<1>3. WillKnow'
  <2>1. CASE \/ UpdateFrame \/ EndObstacles \/ EndSurfaces \/ EndDeletions \/ EndSnapshot
             \/ Connect \/ ConnectionBreaks \/ UNCHANGED vars
    BY <2>1, SilenceInforms DEF InformedInv, UpdateFrame, SkipFrame, BeginSnapshot, EndObstacles,
       EndSurfaces, EndDeletions, EndSnapshot, Connect, ConnectionBreaks, vars, diff_vars,
       aggregator_vars, service_vars
  <2>2. QED
    BY <2>1, ObstaclesAreTold, SurfacesAreTold, DeletedObstacleIsTold, SendingInforms
       DEF Next, Snapshot
<1>4. QED
  BY <1>1, <1>2, <1>3 DEF InformedInv

(* There is nothing to know to begin with.                                 *)
LEMMA InitInforms == Init => InformedInv
<1> SUFFICES ASSUME Init PROVE InformedInv
  OBVIOUS
<1>1. IInv
  BY InitEstablishes
<1>2. robot \in View /\ queue = <<>>
  BY <1>1 DEF Init, IInv, TypeInv
<1>3. Leads(untold, robot, queue, robot)
  BY <1>2, NoneLeadNowhere
<1>4. Knows(robot)
  <2>1. robot = [models |-> <<>>, surfaces |-> {}] /\ robot_ids = <<>> /\ previous_surface_ids = {}
    BY DEF Init, NothingKnown
  <2>2. DOMAIN <<>> = {}
    OBVIOUS
  <2>3. QED
    BY <2>1, <2>2 DEF Knows, Told
<1>5. DeletedSurfacesWereThere
  BY DEF Init, DeletedSurfacesWereThere
<1>6. QED
  BY <1>1, <1>2, <1>3, <1>4, <1>5 DEF InformedInv, WillKnow

(* What is queued leads the robot, without a message that makes no sense,  *)
(* to a view that suits what lepp3 remembers.                              *)
THEOREM Informing == Spec => []InformedInv
<1>1. InformedInv /\ [Next]_vars => InformedInv'
  BY StepInforms
<1>2. QED
  BY InitInforms, <1>1, PTL DEF Spec

(* As long as no message was lost, the robot will know the models and      *)
(* surfaces lepp3 remembers, but for models numbered without a part, and   *)
(* every part lepp3 counts to a model.                                     *)
THEOREM RobotStaysInformed == Spec => []RobotIsInformed
<1>1. InformedInv => RobotIsInformed
  <2> SUFFICES ASSUME InformedInv, intact
               PROVE  Knows(Arriving)
    BY DEF RobotIsInformed, Knows
  <2>1. PICK view \in View : Leads(untold, robot, queue, view) /\ Knows(view)
    BY DEF InformedInv, WillKnow
  <2>2. Arriving = view
    BY <2>1, LeadsToArriving DEF InformedInv, IInv, TypeInv
  <2>3. QED
    BY <2>1, <2>2
<1>2. QED
  BY Informing, <1>1, PTL

(* As long as no message was lost, what arrives creates only what the      *)
(* robot does not have, changes or removes only models and surfaces that   *)
(* it has and removes only parts that it has, unless it is about an        *)
(* obstacle without parts.                                                 *)
THEOREM RobotIsNotConfused == Spec => RobotNeverConfused
<1>1. InformedInv /\ [Next]_vars =>
        [inner_send /\ link = "up" /\ intact =>
           LET msg == queue[NextToSend]
           IN  Confusing(robot, msg) => AboutPartless(msg)]_vars
  <2> SUFFICES ASSUME InformedInv, inner_send, intact,
                      Confusing(robot, queue[NextToSend])
               PROVE  AboutPartless(queue[NextToSend])
    OBVIOUS
  <2>1. queue \in Seq(Msg) /\ robot \in View /\ queue # <<>> /\ NextToSend = 1
    BY DEF InformedInv, IInv, TypeInv, inner_send, NextToSend
  <2>2. PICK view \in View : Leads(untold, robot, queue, view)
    BY DEF InformedInv, WillKnow
  <2>3. Sensible(untold, robot, queue[1])
    <3>1. PICK v \in [0 .. Len(queue) -> View] :
            /\ v[0] = robot
            /\ \A i \in 1 .. Len(queue) : Sensible(untold, v[i - 1], queue[i])
      BY <2>2 DEF Leads
    <3>2. 1 \in 1 .. Len(queue) /\ 1 - 1 = 0
      BY <2>1
    <3>3. QED
      BY <3>1, <3>2
  <2>4. QED
    BY <2>1, <2>3 DEF Sensible, Partless, AboutPartless
<1>2. QED
  BY Informing, <1>1, PTL DEF Spec, RobotNeverConfused
=============================================================================
