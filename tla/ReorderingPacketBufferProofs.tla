---------------------- MODULE ReorderingPacketBufferProofs ----------------------
(***************************************************************************)
(* For any number of packet objects and any range of sequence numbers: as  *)
(* long as numbers stay less than half the range away from the one         *)
(* expected, the reordering buffer keeps its queue in the sender's order.  *)
(***************************************************************************)
EXTENDS ReorderingPacketBuffer, SequenceTheorems, TLAPS

LEMMA ConstantTypes == Half \in Nat /\ Half > 0 /\ Reach \in Nat /\ MaxNumber \in Nat /\ NULL \notin Packets
BY ConstantsAssumption

-----------------------------------------------------------------------------
(***************************************************************************)
(* Sequence numbers: numbers less than half the range apart compare like   *)
(* the whole numbers they stand for.                                       *)
(***************************************************************************)
LEMMA DivMod ==
  ASSUME NEW n \in Nat, NEW m \in Nat, m > 0
  PROVE  n = m * (n \div m) + (n % m) /\ n \div m \in Nat /\ n % m \in 0 .. m - 1
<1>1. n = m * (n \div m) + (n % m)  OBVIOUS
<1>2. n \div m \in Nat  OBVIOUS
<1>3. n % m \in 0 .. m - 1  OBVIOUS
<1> QED  BY <1>1, <1>2, <1>3

LEMMA Division ==
  ASSUME NEW n \in Nat
  PROVE  \E q \in Nat : n = 2 * Half * q + seq(n) /\ seq(n) \in SeqNums
<1> DEFINE m == 2 * Half
<1>1. m \in Nat /\ m > 0  BY ConstantTypes
<1> HIDE DEF m
<1>2. n = m * (n \div m) + (n % m) /\ n \div m \in Nat /\ n % m \in 0 .. m - 1  BY <1>1, DivMod
<1>3. \E q \in Nat : n = m * q + (n % m)  BY <1>2
<1>4. n % m = seq(n) /\ SeqNums = 0 .. m - 1  BY DEF m, seq, SeqNums
<1>5. 2 * Half = m  BY DEF m
<1>6. PICK q \in Nat : n = m * q + (n % m)  BY <1>3
<1>7. n = 2 * Half * q + seq(n)  BY <1>4, <1>5, <1>6
<1>8. seq(n) \in SeqNums  BY <1>2, <1>4
<1> QED  BY <1>7, <1>8

LEMMA SeqDifference ==
  ASSUME NEW a \in Nat, NEW b \in Nat, a <= b, b - a < Half
  PROVE  \/ seq(b) - seq(a) = b - a
         \/ seq(b) - seq(a) = b - a - 2 * Half
<1>1. PICK p \in Nat : a = 2 * Half * p + seq(a) /\ seq(a) \in SeqNums  BY Division
<1>2. PICK q \in Nat : b = 2 * Half * q + seq(b) /\ seq(b) \in SeqNums  BY Division
<1> DEFINE m == 2 * Half
           k == q - p
<1>3. m \in Nat /\ m > 0 /\ k \in Int /\ 2 * Half = m  BY ConstantTypes
<1>4. m * q - m * p = m * k  BY <1>3
<1>5. seq(a) \in 0 .. m - 1 /\ seq(b) \in 0 .. m - 1  BY <1>1, <1>2, <1>3 DEF SeqNums
<1>6. b - a = m * k + (seq(b) - seq(a))  BY <1>1, <1>2, <1>3, <1>4, <1>5
<1> HIDE DEF m, k
<1>7. k >= 2 => m * k >= 2 * m  BY <1>3
<1>8. k <= -1 => m * k <= -m  BY <1>3
<1>9. k \in {0, 1}
  <2>1. b - a >= 0 /\ b - a < m  BY <1>3, ConstantTypes
  <2> QED  BY <1>3, <1>5, <1>6, <1>7, <1>8, <2>1
<1>10. m * 0 = 0 /\ m * 1 = m  BY <1>3
<1> QED  BY <1>3, <1>5, <1>6, <1>9, <1>10

LEMMA SeqOrder ==
  ASSUME NEW a \in Nat, NEW b \in Nat, b - a < Half, a - b < Half
  PROVE  /\ seqNumLT(seq(a), seq(b)) <=> a < b
         /\ seq(a) = seq(b) <=> a = b
<1>0. seq(a) \in SeqNums /\ seq(b) \in SeqNums  BY Division
<1>1. seq(a) \in Int /\ seq(b) \in Int /\ Half \in Nat /\ Half > 0
      /\ seq(a) >= 0 /\ seq(b) >= 0 /\ seq(a) < 2 * Half /\ seq(b) < 2 * Half
  BY <1>0, ConstantTypes DEF SeqNums
<1>2. CASE a <= b
  <2>1. seq(b) - seq(a) = b - a \/ seq(b) - seq(a) = b - a - 2 * Half  BY <1>2, SeqDifference
  <2> QED  BY <1>1, <1>2, <2>1 DEF seqNumLT
<1>3. CASE b <= a
  <2>1. seq(a) - seq(b) = a - b \/ seq(a) - seq(b) = a - b - 2 * Half  BY <1>3, SeqDifference
  <2> QED  BY <1>1, <1>3, <2>1 DEF seqNumLT
<1> QED  BY <1>2, <1>3

-----------------------------------------------------------------------------
(***************************************************************************)
(* What the three operations on the list do.                               *)
(***************************************************************************)
Elems(q) == {q[i] : i \in DOMAIN q}

LEMMA AtTheEnd ==
  ASSUME NEW S, NEW q \in Seq(S), NEW p \in S
  PROVE  /\ Append(q, p) \in Seq(S) /\ Len(Append(q, p)) = Len(q) + 1
         /\ \A i \in 1..Len(q) : Append(q, p)[i] = q[i]
         /\ Append(q, p)[Len(q) + 1] = p
         /\ Elems(Append(q, p)) = Elems(q) \cup {p}
<1> DEFINE r == Append(q, p)
<1>1. r \in Seq(S) /\ Len(r) = Len(q) + 1 /\ Len(q) \in Nat  BY AppendProperties
<1>2. \A i \in 1..Len(q) : r[i] = q[i]  BY AppendProperties
<1>3. r[Len(q) + 1] = p  BY AppendProperties
<1>4. DOMAIN r = 1 .. Len(q) + 1 /\ DOMAIN q = 1..Len(q)  BY <1>1, LenProperties
<1> HIDE DEF r
<1>5. DOMAIN r = DOMAIN q \cup {Len(q) + 1}  BY <1>1, <1>4
<1>6. Elems(r) = Elems(q) \cup {p}  BY <1>2, <1>3, <1>4, <1>5 DEF Elems
<1> QED  BY <1>1, <1>2, <1>3, <1>6 DEF r

LEMMA WithoutHead ==
  ASSUME NEW S, NEW q \in Seq(S), q # <<>>
  PROVE  /\ Tail(q) \in Seq(S) /\ Len(Tail(q)) = Len(q) - 1 /\ Len(q) > 0
         /\ \A i \in 1 .. Len(q) - 1 : Tail(q)[i] = q[i + 1]
         /\ Head(q) = q[1] /\ Head(q) \in S
         /\ Elems(q) = Elems(Tail(q)) \cup {Head(q)}
<1> DEFINE r == Tail(q)
<1>1. r \in Seq(S) /\ Len(r) = Len(q) - 1 /\ Len(q) \in Nat /\ Len(q) > 0
  BY HeadTailProperties, LenProperties, EmptySeq
<1>2. \A i \in 1 .. Len(q) - 1 : r[i] = q[i + 1]  BY <1>1, HeadTailProperties
<1>3. Head(q) = q[1] /\ Head(q) \in S  BY HeadTailProperties
<1>4. DOMAIN r = 1 .. Len(q) - 1 /\ DOMAIN q = 1..Len(q)  BY <1>1, LenProperties
<1> HIDE DEF r
<1>5. ASSUME NEW x \in Elems(q)  PROVE x \in Elems(r) \cup {Head(q)}
  <2>1. PICK i \in DOMAIN q : x = q[i]  BY DEF Elems
  <2>2. CASE i = 1  BY <1>3, <2>1, <2>2
  <2>3. CASE i # 1
    <3>1. i - 1 \in 1 .. Len(q) - 1 /\ (i - 1) + 1 = i  BY <1>1, <1>4, <2>1, <2>3
    <3>2. r[i - 1] = x  BY <1>2, <2>1, <3>1
    <3> QED  BY <1>4, <3>1, <3>2 DEF Elems
  <2> QED  BY <2>2, <2>3
<1>6. ASSUME NEW x \in Elems(r) \cup {Head(q)}  PROVE x \in Elems(q)
  <2>1. CASE x = Head(q)
    <3>1. 1 \in DOMAIN q  BY <1>1, <1>4
    <3> QED  BY <1>3, <2>1, <3>1 DEF Elems
  <2>2. CASE x \in Elems(r)
    <3>1. PICK i \in DOMAIN r : x = r[i]  BY <2>2 DEF Elems
    <3>2. i + 1 \in DOMAIN q /\ x = q[i + 1]  BY <1>1, <1>2, <1>4, <3>1
    <3> QED  BY <3>2 DEF Elems
  <2> QED  BY <2>1, <2>2, <1>6
<1> QED  BY <1>1, <1>2, <1>3, <1>5, <1>6 DEF r

LEMMA Between ==
  ASSUME queue \in Seq(Packets), NEW p \in Packets, NEW i \in 0..Len(queue)
  PROVE  /\ Inserted(p, i) \in Seq(Packets) /\ Len(Inserted(p, i)) = Len(queue) + 1
         /\ \A j \in 1..i : Inserted(p, i)[j] = queue[j]
         /\ Inserted(p, i)[i + 1] = p
         /\ \A j \in i + 2 .. Len(queue) + 1 : Inserted(p, i)[j] = queue[j - 1]
         /\ Elems(Inserted(p, i)) = Elems(queue) \cup {p}
<1> DEFINE r == Inserted(p, i)
           k == Len(queue)
<1>1. k \in Nat /\ DOMAIN queue = 1..k /\ \A j \in 1..k : queue[j] \in Packets
  BY LenProperties, ElementOfSeq
<1>2. r = [j \in 1 .. k + 1 |-> IF j <= i THEN queue[j] ELSE IF j = i + 1 THEN p ELSE queue[j - 1]]
  BY DEF Inserted
<1> HIDE DEF r, k
<1>3. i \in 0..k  BY DEF k
<1>4. DOMAIN r = 1 .. k + 1  BY <1>2
<1>5. \A j \in 1..i : r[j] = queue[j]  BY <1>1, <1>2, <1>3
<1>6. r[i + 1] = p  BY <1>1, <1>2, <1>3
<1>7. \A j \in i + 2 .. k + 1 : r[j] = queue[j - 1]  BY <1>1, <1>2, <1>3
<1>8. r \in Seq(Packets) /\ Len(r) = k + 1
  <2>1. \A j \in 1 .. k + 1 : r[j] \in Packets  BY <1>1, <1>2, <1>3
  <2>2. r \in [1 .. k + 1 -> Packets]  BY <1>2, <2>1
  <2>3. k + 1 \in Nat  BY <1>1
  <2> QED  BY <2>2, <2>3, SeqDef, LenProperties
<1>9. ASSUME NEW x \in Elems(r)  PROVE x \in Elems(queue) \cup {p}
  <2>1. PICK j \in 1 .. k + 1 : x = r[j]  BY <1>4 DEF Elems
  <2>2. CASE j <= i
    <3>1. j \in DOMAIN queue /\ x = queue[j]  BY <1>1, <1>3, <1>5, <2>1, <2>2
    <3> QED  BY <3>1 DEF Elems
  <2>3. CASE j = i + 1  BY <1>6, <2>1, <2>3
  <2>4. CASE j > i + 1
    <3>1. j - 1 \in DOMAIN queue /\ x = queue[j - 1]  BY <1>1, <1>3, <1>7, <2>1, <2>4
    <3> QED  BY <3>1 DEF Elems
  <2> QED  BY <1>3, <2>1, <2>2, <2>3, <2>4
<1>10. ASSUME NEW x \in Elems(queue) \cup {p}  PROVE x \in Elems(r)
  <2>1. CASE x = p
    <3>1. i + 1 \in DOMAIN r  BY <1>1, <1>3, <1>4
    <3> QED  BY <1>6, <2>1, <3>1 DEF Elems
  <2>2. CASE x \in Elems(queue)
    <3>1. PICK j \in 1..k : x = queue[j]  BY <1>1, <2>2 DEF Elems
    <3>2. CASE j <= i
      <4>1. j \in DOMAIN r /\ x = r[j]  BY <1>1, <1>3, <1>4, <1>5, <3>1, <3>2
      <4> QED  BY <4>1 DEF Elems
    <3>3. CASE j > i
      <4>1. j + 1 \in i + 2 .. k + 1 /\ (j + 1) - 1 = j /\ j + 1 \in DOMAIN r
        BY <1>1, <1>3, <1>4, <3>1, <3>3
      <4>2. x = r[j + 1]  BY <1>7, <3>1, <4>1
      <4> QED  BY <4>1, <4>2 DEF Elems
    <3> QED  BY <1>3, <3>1, <3>2, <3>3
  <2> QED  BY <1>10, <2>1, <2>2
<1> QED  BY <1>5, <1>6, <1>7, <1>8, <1>9, <1>10 DEF r, k

-----------------------------------------------------------------------------
(***************************************************************************)
(* The invariant.                                                          *)
(***************************************************************************)
Place(i) == number[queue[i]]

\* The whole number expected is the one whose low bits the code keeps.
ExpectedInv ==
  /\ fHaveSeenFirstPacket => expected > 0 /\ fNextExpectedSeqNo = seq(expected)
  /\ ~fHaveSeenFirstPacket => queue = <<>>
  /\ ~fHaveSeenFirstPacket /\ pc \in {"idle", "store", "process"} => expected = 0

\* The packet in hand is near the one expected.
HandInv ==
  /\ pc # "store" => packet = NULL
  /\ pc = "store" =>
       /\ packet \in Packets /\ number[packet] > 0 /\ ~fSavedPacketFree
       /\ fHaveSeenFirstPacket => number[packet] >= expected - Reach /\ number[packet] <= expected + Reach

\* What is queued is ordered by number, and near the one expected.
WithinReach == \A i \in DOMAIN queue : Place(i) >= expected /\ Place(i) <= expected + Reach
Ordered == \A i, j \in DOMAIN queue : i < j => Place(i) < Place(j)
PositiveInv == \A i \in DOMAIN queue : Place(i) > 0

Inv ==
  /\ TypeOK /\ ExpectedInv /\ HandInv /\ WithinReach /\ Ordered /\ PositiveInv
  /\ TailIsLast /\ PacketsOwned /\ StoredIsKept

\* Types, one by one: at a position of the queue there is a packet, with a number.
LEMMA Places ==
  ASSUME TypeOK
  PROVE  /\ Len(queue) \in Nat /\ DOMAIN queue = 1..Len(queue)
         /\ \A i \in DOMAIN queue : queue[i] \in Packets /\ Place(i) \in Nat
         /\ \A p \in Packets : number[p] \in Nat /\ number[p] <= MaxNumber
         /\ expected \in Nat
         /\ queue = <<>> <=> Len(queue) = 0
<1>1. queue \in Seq(Packets)  BY DEF TypeOK
<1>2. Len(queue) \in Nat /\ DOMAIN queue = 1..Len(queue)  BY <1>1, LenProperties
<1>3. \A i \in DOMAIN queue : queue[i] \in Packets  BY <1>1, <1>2, ElementOfSeq
<1>4. \A p \in Packets : number[p] \in Nat /\ number[p] <= MaxNumber
  BY ConstantTypes DEF TypeOK, Numbers
<1>5. expected \in Nat  BY ConstantTypes DEF TypeOK
<1>6. queue = <<>> <=> Len(queue) = 0  BY <1>1, EmptySeq
<1> QED  BY <1>2, <1>3, <1>4, <1>5, <1>6 DEF Place

LEMMA InvInit == Init => Inv
<1> SUFFICES ASSUME Init  PROVE Inv  OBVIOUS
<1>1. queue = <<>> /\ queue \in Seq(Packets) /\ Len(queue) = 0  BY EmptySeq DEF Init
<1>2. DOMAIN queue = {}  BY <1>1, LenProperties
<1>3. Queued = {}  BY <1>2 DEF Queued
<1>4. TypeOK
  <2>1. number \in [Packets -> Numbers \cup {0}]  BY DEF Init
  <2>2. expected \in 0 .. MaxNumber + 1  BY ConstantTypes DEF Init
  <2> QED  BY <1>1, <2>1, <2>2 DEF Init, TypeOK
<1>5. ExpectedInv /\ HandInv  BY DEF Init, ExpectedInv, HandInv
<1>6. WithinReach /\ Ordered /\ PositiveInv  BY <1>2 DEF WithinReach, Ordered, PositiveInv
<1>7. TailIsLast  BY <1>1 DEF Init, TailIsLast
<1>8. PacketsOwned
  <2>1. live = {} /\ packet = NULL /\ fSavedPacket = NULL  BY DEF Init
  <2> QED  BY <1>2, <1>3, <2>1 DEF PacketsOwned
<1>9. StoredIsKept  BY <1>3 DEF Init, StoredIsKept, QueuedNumbers
<1> QED  BY <1>4, <1>5, <1>6, <1>7, <1>8, <1>9 DEF Inv

-----------------------------------------------------------------------------
(***************************************************************************)
(* What storePacket decides, in whole numbers.                             *)
(***************************************************************************)
\* A number near the one expected compares like its low bits with what is queued.
LEMMA Compares ==
  ASSUME Reach < Half, Inv, NEW n \in Nat, n >= expected, n <= expected + Reach, NEW i \in DOMAIN queue
  PROVE  /\ seqNumLT(seq(n), At(i)) <=> n < Place(i)
         /\ seqNumLT(At(i), seq(n)) <=> Place(i) < n
         /\ At(i) = seq(n) <=> Place(i) = n
<1>1. Place(i) \in Nat /\ expected \in Nat  BY Places DEF Inv
<1>2. Place(i) >= expected /\ Place(i) <= expected + Reach  BY DEF Inv, WithinReach
<1>3. Place(i) - n < Half /\ n - Place(i) < Half  BY <1>1, <1>2, ConstantTypes
<1>4. At(i) = seq(Place(i))  BY DEF At, Place
<1> QED  BY <1>1, <1>3, <1>4, SeqOrder

LEMMA Late ==
  ASSUME Reach < Half, Inv, pc = "store", fHaveSeenFirstPacket
  PROVE  seqNumLT(seq(number[packet]), fNextExpectedSeqNo) <=> number[packet] < expected
<1> DEFINE n == number[packet]
<1>1. packet \in Packets /\ n >= expected - Reach /\ n <= expected + Reach  BY DEF Inv, HandInv
<1>2. n \in Nat /\ expected \in Nat  BY <1>1, Places DEF Inv
<1> HIDE DEF n
<1>3. expected - n < Half /\ n - expected < Half  BY <1>1, <1>2, ConstantTypes
<1>4. seqNumLT(seq(n), seq(expected)) <=> n < expected  BY <1>2, <1>3, SeqOrder
<1> QED  BY <1>4 DEF n, Inv, ExpectedInv

\* fTailPacket tells whether there is a queue, and is its last packet.
LEMMA TheTail ==
  ASSUME Inv
  PROVE  /\ fTailPacket = NULL <=> queue = <<>>
         /\ fTailPacket # NULL => Len(queue) \in DOMAIN queue /\ fTailPacket = queue[Len(queue)]
<1>1. CASE queue = <<>>  BY <1>1 DEF Inv, TailIsLast
<1>2. CASE queue # <<>>
  <2>1. Len(queue) \in DOMAIN queue  BY <1>2, Places DEF Inv
  <2>2. fTailPacket = queue[Len(queue)]  BY <1>2 DEF Inv, TailIsLast
  <2>3. fTailPacket \in Packets  BY <2>1, <2>2, Places DEF Inv
  <2> QED  BY <1>2, <2>1, <2>2, <2>3, ConstantTypes
<1> QED  BY <1>1, <1>2

\* A packet that is refused is queued already or comes too late.
LEMMA RefusesRightly ==
  ASSUME Reach < Half, Inv, pc = "store", Refused(seq(number[packet]))
  PROVE  number[packet] \in QueuedNumbers \/ number[packet] < expected
<1> DEFINE n == number[packet]
<1>1. packet \in Packets /\ n \in Nat /\ expected \in Nat  BY Places DEF Inv, HandInv
<1>2. CASE fHaveSeenFirstPacket /\ n < expected  BY <1>2
<1>3. CASE fHaveSeenFirstPacket /\ ~(n < expected)
  <2>1. n >= expected /\ n <= expected + Reach  BY <1>1, <1>3 DEF Inv, HandInv
  <2>2. fTailPacket # NULL /\ (seq(n) = seq(number[fTailPacket]) \/ IsDuplicate(seq(n)))
    BY <1>3, Late DEF Refused
  <2>3. \E i \in DOMAIN queue : At(i) = seq(n)  BY <2>2, TheTail DEF IsDuplicate, At
  <2>4. PICK i \in DOMAIN queue : At(i) = seq(n)  BY <2>3
  <2> HIDE DEF n
  <2>5. Place(i) = n  BY <1>1, <2>1, <2>4, Compares
  <2> QED  BY <2>5 DEF Place, QueuedNumbers, Queued, n
<1>4. CASE ~fHaveSeenFirstPacket
  <2>1. fTailPacket = NULL  BY <1>4, TheTail DEF Inv, ExpectedInv
  <2> QED  BY <1>4, <2>1 DEF Refused
<1> QED  BY <1>2, <1>3, <1>4

-----------------------------------------------------------------------------
(***************************************************************************)
(* Store: the packet goes to its place.                                    *)
(***************************************************************************)
LEMMA Taken ==
  ASSUME Reach < Half, Inv, Store
  PROVE  /\ packet \in Packets /\ number[packet] \in Nat /\ number[packet] > 0
         /\ fHaveSeenFirstPacket => number[packet] >= expected /\ number[packet] <= expected + Reach
         /\ ~fHaveSeenFirstPacket => queue = <<>> /\ expected = 0 /\ expected' = number[packet]
         /\ fHaveSeenFirstPacket => expected' = expected /\ expected > 0
         /\ fHaveSeenFirstPacket' /\ number' = number
<1>1. pc = "store" /\ ~Refused(seq(number[packet]))  BY DEF Store
<1>2. packet \in Packets /\ number[packet] \in Nat /\ number[packet] > 0 /\ expected \in Nat
  BY <1>1, Places DEF Inv, HandInv
<1>3. ASSUME fHaveSeenFirstPacket
      PROVE  number[packet] >= expected /\ number[packet] <= expected + Reach
  <2>1. ~(number[packet] < expected)  BY <1>1, <1>3, Late DEF Refused
  <2>2. number[packet] <= expected + Reach  BY <1>1, <1>3 DEF Inv, HandInv
  <2> QED  BY <1>2, <2>1, <2>2
<1>4. ~fHaveSeenFirstPacket => queue = <<>> /\ expected = 0 /\ expected' = number[packet]
  BY <1>1 DEF Inv, ExpectedInv, Store
<1>5. fHaveSeenFirstPacket => expected' = expected /\ expected > 0  BY DEF Inv, ExpectedInv, Store
<1>6. fHaveSeenFirstPacket' /\ number' = number  BY DEF Store
<1> QED  BY <1>2, <1>3, <1>4, <1>5, <1>6

LEMMA StoredFirst ==
  ASSUME Reach < Half, Inv, Store, fTailPacket = NULL
  PROVE  /\ queue' \in Seq(Packets) /\ Elems(queue') = Elems(queue) \cup {packet}
         /\ TailIsLast' /\ WithinReach' /\ Ordered' /\ PositiveInv'
<1>0. queue \in Seq(Packets)  BY DEF Inv, TypeOK
<1>1. queue = <<>> /\ Len(queue) = 0  BY TheTail, EmptySeq
<1>2. queue' = <<packet>> /\ fTailPacket' = packet  BY DEF Store, Enqueued
<1>3. queue' = Append(queue, packet)  BY <1>1, <1>2
<1>4. packet \in Packets  BY Taken
<1>5. /\ queue' \in Seq(Packets) /\ Len(queue') = 1 /\ queue'[1] = packet
      /\ Elems(queue') = Elems(queue) \cup {packet}
  <2>1. Len(queue) + 1 = 1  BY <1>1
  <2>2. /\ queue' \in Seq(Packets) /\ Len(queue') = Len(queue) + 1
        /\ queue'[Len(queue) + 1] = packet /\ Elems(queue') = Elems(queue) \cup {packet}
    BY <1>0, <1>3, <1>4, AtTheEnd
  <2> QED  BY <2>1, <2>2
<1>6. DOMAIN queue' = {1}  BY <1>5, LenProperties
<1>7. TailIsLast'  BY <1>2, <1>5, EmptySeq DEF TailIsLast
<1>8. Ordered'  BY <1>6 DEF Ordered
<1>9. Place(1)' = number[packet]  BY <1>5, Taken DEF Place
<1>10. number[packet] >= expected' /\ number[packet] <= expected' + Reach  BY Taken, ConstantTypes
<1>11. WithinReach' /\ PositiveInv'  BY <1>6, <1>9, <1>10, Taken DEF WithinReach, PositiveInv
<1> QED  BY <1>5, <1>7, <1>8, <1>11

LEMMA StoredAtTail ==
  ASSUME Reach < Half, Inv, Store, fTailPacket # NULL, InOrder(seq(number[packet]))
  PROVE  /\ queue' \in Seq(Packets) /\ Elems(queue') = Elems(queue) \cup {packet}
         /\ TailIsLast' /\ WithinReach' /\ Ordered' /\ PositiveInv'
<1> DEFINE n == number[packet]
<1>0. PICK k \in Nat : k = Len(queue)  BY Places DEF Inv
<1>1. k \in DOMAIN queue /\ k > 0 /\ fTailPacket = queue[k] /\ queue # <<>>
      /\ queue \in Seq(Packets) /\ Len(queue) = k /\ DOMAIN queue = 1..k
  BY <1>0, TheTail, Places DEF Inv, TypeOK
<1>2. fHaveSeenFirstPacket  BY <1>1 DEF Inv, ExpectedInv
<1>3. packet \in Packets /\ n \in Nat /\ n > 0 /\ n >= expected /\ n <= expected + Reach
      /\ expected' = expected /\ number' = number
  BY <1>2, Taken
<1>4. Linked(packet) = Append(queue, packet)
  <2>1. fTailPacket \in Queued  BY <1>1 DEF Queued
  <2>2. \A j \in DOMAIN queue : queue[j] = fTailPacket => j = k  BY <1>1 DEF Inv, PacketsOwned
  <2>3. (CHOOSE j \in DOMAIN queue : queue[j] = fTailPacket) = k  BY <1>1, <2>2
  <2>4. SubSeq(queue, 1, k) = queue
    <3>1. \A i \in 1..k : queue[i] \in Packets  BY <1>1, Places DEF Inv
    <3>2. SubSeq(queue, 1, k) \in Seq(Packets) /\ Len(SubSeq(queue, 1, k)) = k
          /\ \A i \in 1..k : SubSeq(queue, 1, k)[i] = queue[i]
      BY <1>1, <3>1, SubSeqProperties
    <3> QED  BY <1>1, <3>2, SeqEqual
  <2> QED  BY <2>1, <2>3, <2>4 DEF Linked
<1>5. queue' = Append(queue, packet) /\ fTailPacket' = packet  BY <1>4 DEF Store, Enqueued
<1>6. /\ queue' \in Seq(Packets) /\ Len(queue') = k + 1
      /\ \A i \in 1..k : queue'[i] = queue[i]
      /\ queue'[k + 1] = packet /\ Elems(queue') = Elems(queue) \cup {packet}
  BY <1>1, <1>3, <1>5, AtTheEnd
<1>7. DOMAIN queue' = 1 .. k + 1  BY <1>6, LenProperties
<1>8. TailIsLast'
  <2>1. queue' # <<>>  BY <1>1, <1>6, EmptySeq
  <2> QED  BY <1>5, <1>6, <2>1 DEF TailIsLast
<1>9. \A i \in 1..k : Place(i)' = Place(i) /\ Place(i) \in Nat
  BY <1>1, <1>3, <1>6, Places DEF Place, Inv
<1>10. Place(k + 1)' = n  BY <1>3, <1>6 DEF Place
<1>11. Place(k) < n
  <2>1. seqNumLT(At(k), seq(n))  BY <1>1 DEF InOrder, At
  <2> QED  BY <1>1, <1>3, <2>1, Compares
<1>12. \A i \in 1..k : Place(i) < n
  <2>1. \A i \in 1..k : i < k => Place(i) < Place(k)  BY <1>1 DEF Inv, Ordered
  <2> HIDE DEF n
  <2> SUFFICES ASSUME NEW i \in 1..k  PROVE Place(i) < n  OBVIOUS
  <2>2. i = k \/ i < k  OBVIOUS
  <2>3. Place(i) \in Nat /\ Place(k) \in Nat  BY <1>1, <1>9
  <2> QED  BY <1>3, <1>11, <2>1, <2>2, <2>3
<1> HIDE DEF n
<1>13. ASSUME NEW i \in DOMAIN queue', NEW j \in DOMAIN queue', i < j  PROVE Place(i)' < Place(j)'
  <2>1. i \in 1..k  BY <1>1, <1>7, <1>13
  <2>2. CASE j = k + 1  BY <1>9, <1>10, <1>12, <2>1, <2>2
  <2>3. CASE j # k + 1
    <3>1. j \in 1..k  BY <1>1, <1>7, <2>3
    <3>2. Place(i) < Place(j)  BY <1>1, <1>13, <2>1, <3>1 DEF Inv, Ordered
    <3> QED  BY <1>9, <2>1, <3>1, <3>2
  <2> QED  BY <2>2, <2>3
<1>14. ASSUME NEW i \in DOMAIN queue'
       PROVE  Place(i)' >= expected' /\ Place(i)' <= expected' + Reach /\ Place(i)' > 0
  <2>1. CASE i = k + 1  BY <1>3, <1>10, <2>1
  <2>2. CASE i # k + 1
    <3>1. i \in 1..k  BY <1>1, <1>7, <2>2
    <3>2. Place(i) >= expected /\ Place(i) <= expected + Reach /\ Place(i) > 0
      BY <1>1, <3>1 DEF Inv, WithinReach, PositiveInv
    <3> QED  BY <1>3, <1>9, <3>1, <3>2
  <2> QED  BY <2>1, <2>2
<1> QED  BY <1>6, <1>8, <1>13, <1>14 DEF Ordered, WithinReach, PositiveInv

LEMMA StoredBetween ==
  ASSUME Reach < Half, Inv, Store, fTailPacket # NULL, ~InOrder(seq(number[packet]))
  PROVE  /\ queue' \in Seq(Packets) /\ Elems(queue') = Elems(queue) \cup {packet}
         /\ TailIsLast' /\ WithinReach' /\ Ordered' /\ PositiveInv'
<1> DEFINE n == number[packet]
<1>0. PICK k \in Nat : k = Len(queue)  BY Places DEF Inv
<1>1. k \in DOMAIN queue /\ k > 0 /\ fTailPacket = queue[k] /\ queue # <<>>
      /\ queue \in Seq(Packets) /\ Len(queue) = k /\ DOMAIN queue = 1..k
  BY <1>0, TheTail, Places DEF Inv, TypeOK
<1>2. fHaveSeenFirstPacket  BY <1>1 DEF Inv, ExpectedInv
<1>3. packet \in Packets /\ n \in Nat /\ n > 0 /\ n >= expected /\ n <= expected + Reach
      /\ expected' = expected /\ number' = number
  BY <1>2, Taken
<1>4. /\ seq(n) # seq(number[fTailPacket]) /\ ~IsDuplicate(seq(n)) /\ fTailPacket' = fTailPacket
      /\ \E i \in 0..k : ComesAfter(i, seq(n)) /\ queue' = Inserted(packet, i)
  BY <1>0 DEF Store, Enqueued
<1>5. PICK i \in 0..k : ComesAfter(i, seq(n)) /\ queue' = Inserted(packet, i)  BY <1>4
<1> HIDE DEF n
<1>6. \A j \in 1..k : Place(j) \in Nat /\ (At(j) = seq(n) <=> Place(j) = n)
                     /\ (seqNumLT(seq(n), At(j)) <=> n < Place(j))
  BY <1>1, <1>3, Compares, Places DEF Inv
<1>7. n < Place(k)
  <2>1. seq(n) # At(k) /\ ~seqNumLT(At(k), seq(n))  BY <1>1, <1>4 DEF InOrder, At, n
  <2>2. Place(k) # n /\ ~(Place(k) < n)  BY <1>1, <1>3, <2>1, Compares
  <2> QED  BY <1>1, <1>3, <1>6, <2>2
<1>8. \A j \in 1..i : Place(j) < n
  <2> SUFFICES ASSUME NEW j \in 1..i  PROVE Place(j) < n  OBVIOUS
  <2>1. j \in 1..k  BY <1>1
  <2>2. \A l \in 1..j : ~seqNumLT(seq(n), At(l))  BY <1>1, <1>5 DEF ComesAfter
  <2>3. ~(n < Place(j))  BY <1>6, <2>1, <2>2
  <2>4. Place(j) # n  BY <1>1, <1>4, <1>6, <2>1, <2>2 DEF IsDuplicate
  <2> QED  BY <1>3, <1>6, <2>1, <2>3, <2>4
<1>9. i < k
  <2>1. i = k => k \in 1..i  BY <1>1
  <2>2. i = k => Place(k) < n  BY <1>8, <2>1
  <2>3. Place(k) \in Nat  BY <1>1, <1>6
  <2>4. i # k  BY <1>3, <1>7, <2>2, <2>3
  <2> QED  BY <1>1, <1>5, <2>4
<1>10. n < Place(i + 1)
  <2>1. i + 1 \in 1..k  BY <1>1, <1>9
  <2>2. seqNumLT(seq(n), At(i + 1))  BY <1>1, <1>5, <1>9 DEF ComesAfter
  <2> QED  BY <1>6, <2>1, <2>2
<1>11. \A j \in i + 1 .. k : n < Place(j)
  <2> SUFFICES ASSUME NEW j \in i + 1 .. k  PROVE n < Place(j)  OBVIOUS
  <2>1. j \in 1..k /\ i + 1 \in 1..k  BY <1>1, <1>9
  <2>2. i + 1 < j => Place(i + 1) < Place(j)  BY <1>1, <2>1 DEF Inv, Ordered
  <2>3. i + 1 = j \/ i + 1 < j  BY <1>1, <2>1
  <2> QED  BY <1>3, <1>6, <1>10, <2>1, <2>2, <2>3
<1>12. /\ queue' \in Seq(Packets) /\ Len(queue') = k + 1
       /\ \A j \in 1..i : queue'[j] = queue[j]
       /\ queue'[i + 1] = packet
       /\ \A j \in i + 2 .. k + 1 : queue'[j] = queue[j - 1]
       /\ Elems(queue') = Elems(queue) \cup {packet}
  BY <1>1, <1>3, <1>5, Between
<1>13. DOMAIN queue' = 1 .. k + 1  BY <1>12, LenProperties
<1>14. TailIsLast'
  <2>1. queue' # <<>>  BY <1>1, <1>12, EmptySeq
  <2>2. k + 1 \in i + 2 .. k + 1 /\ (k + 1) - 1 = k  BY <1>1, <1>9
  <2>3. queue'[k + 1] = queue[k]  BY <1>12, <2>2
  <2> QED  BY <1>1, <1>4, <1>12, <2>1, <2>3 DEF TailIsLast
<1>15. \A j \in 1..i : Place(j)' = Place(j)  BY <1>3, <1>12 DEF Place
<1>16. Place(i + 1)' = n  BY <1>3, <1>12 DEF Place, n
<1>17. \A j \in i + 2 .. k + 1 : Place(j)' = Place(j - 1) /\ j - 1 \in i + 1 .. k
  BY <1>1, <1>3, <1>9, <1>12 DEF Place
<1>18. \A j \in DOMAIN queue' : j \in 1..i \/ j = i + 1 \/ j \in i + 2 .. k + 1  BY <1>1, <1>9, <1>13
<1>19. \A j \in 1..i : j \in 1..k  BY <1>1
<1>20. \A j \in i + 1 .. k : j \in 1..k  BY <1>1
<1>21. ASSUME NEW a \in DOMAIN queue', NEW b \in DOMAIN queue', a < b  PROVE Place(a)' < Place(b)'
  <2>1. CASE a \in 1..i /\ b \in 1..i
    <3>1. Place(a) < Place(b)  BY <1>1, <1>19, <1>21, <2>1 DEF Inv, Ordered
    <3> QED  BY <1>15, <2>1, <3>1
  <2>2. CASE a \in 1..i /\ b = i + 1  BY <1>8, <1>15, <1>16, <2>2
  <2>3. CASE a \in 1..i /\ b \in i + 2 .. k + 1
    <3>1. b - 1 \in i + 1 .. k /\ Place(b)' = Place(b - 1)  BY <1>17, <2>3
    <3>2. a \in 1..k /\ b - 1 \in 1..k /\ a < b - 1  BY <1>1, <2>3, <3>1
    <3>3. Place(a) < Place(b - 1)  BY <1>1, <3>2 DEF Inv, Ordered
    <3> QED  BY <1>15, <2>3, <3>1, <3>3
  <2>4. CASE a = i + 1 /\ b \in i + 2 .. k + 1  BY <1>11, <1>16, <1>17, <2>4
  <2>5. CASE a \in i + 2 .. k + 1 /\ b \in i + 2 .. k + 1
    <3>1. a - 1 \in 1..k /\ b - 1 \in 1..k /\ a - 1 < b - 1  BY <1>1, <1>21, <2>5
    <3>2. Place(a - 1) < Place(b - 1)  BY <1>1, <3>1 DEF Inv, Ordered
    <3> QED  BY <1>17, <2>5, <3>2
  <2>6. a \in Int /\ b \in Int  BY <1>13
  <2> QED  BY <1>1, <1>18, <1>21, <2>1, <2>2, <2>3, <2>4, <2>5, <2>6
<1>22. ASSUME NEW a \in DOMAIN queue'
       PROVE  Place(a)' >= expected' /\ Place(a)' <= expected' + Reach /\ Place(a)' > 0
  <2>1. \A j \in 1..k : Place(j) >= expected /\ Place(j) <= expected + Reach /\ Place(j) > 0
    BY <1>1 DEF Inv, WithinReach, PositiveInv
  <2>2. CASE a \in 1..i  BY <1>3, <1>15, <1>19, <2>1, <2>2
  <2>3. CASE a = i + 1  BY <1>3, <1>16, <2>3
  <2>4. CASE a \in i + 2 .. k + 1  BY <1>3, <1>17, <1>20, <2>1, <2>4
  <2> QED  BY <1>18, <2>2, <2>3, <2>4
<1> QED  BY <1>12, <1>14, <1>21, <1>22 DEF Ordered, WithinReach, PositiveInv

\* Packets whose numbers increase are different packets.
NoneTwice == \A i, j \in DOMAIN queue : queue[i] = queue[j] => i = j

LEMMA Distinct == TypeOK /\ Ordered => NoneTwice
<1> SUFFICES ASSUME TypeOK, Ordered, NEW i \in DOMAIN queue, NEW j \in DOMAIN queue, queue[i] = queue[j], i # j
             PROVE  FALSE
  BY DEF NoneTwice
<1>1. i \in Nat /\ j \in Nat /\ Place(i) \in Nat /\ Place(j) \in Nat  BY Places
<1>2. Place(i) = Place(j)  BY DEF Place
<1>3. i < j \/ j < i  BY <1>1
<1>4. Place(i) < Place(j) \/ Place(j) < Place(i)  BY <1>3 DEF Ordered
<1> QED  BY <1>1, <1>2, <1>4

LEMMA DistinctNext == TypeOK' /\ Ordered' => NoneTwice'
BY Distinct, PTL

\* The numbers queued, and who owns what, after Store.
LEMMA StoreStep ==
  ASSUME Reach < Half, Inv, Store
  PROVE  /\ Inv' /\ QueuedNumbers' = QueuedNumbers \cup {number[packet]}
<1>1. /\ queue' \in Seq(Packets) /\ Elems(queue') = Elems(queue) \cup {packet}
      /\ TailIsLast' /\ WithinReach' /\ Ordered' /\ PositiveInv'
  BY StoredFirst, StoredAtTail, StoredBetween
<1>2. Queued' = Queued \cup {packet}  BY <1>1 DEF Queued, Elems
<1>3. /\ pc = "store" /\ pc' = "process" /\ packet' = NULL /\ number' = number
      /\ live' = live /\ fSavedPacket' = fSavedPacket /\ fSavedPacketFree' = fSavedPacketFree
      /\ pending' = pending \cup {number[packet]} /\ fHaveSeenFirstPacket'
      /\ fNextExpectedSeqNo' = IF fHaveSeenFirstPacket THEN fNextExpectedSeqNo ELSE seq(number[packet])
  BY DEF Store, pool
<1>4. packet \in Packets /\ number[packet] \in Nat /\ number[packet] > 0  BY Taken
<1>5. QueuedNumbers' = QueuedNumbers \cup {number[packet]}  BY <1>2, <1>3 DEF QueuedNumbers
<1>6. seq(number[packet]) \in SeqNums  BY <1>4, Division
<1>7. expected' \in 0 .. MaxNumber + 1
  <2>1. number[packet] <= MaxNumber  BY <1>4, Places DEF Inv
  <2>2. expected \in 0 .. MaxNumber + 1  BY DEF Inv, TypeOK
  <2> QED  BY <1>4, <2>1, <2>2, ConstantTypes, Taken
<1>8. number[packet] \in Numbers
  <2>1. number[packet] <= MaxNumber  BY <1>4, Places DEF Inv
  <2> QED  BY <1>4, <2>1, ConstantTypes DEF Numbers
<1>9. TypeOK'
  <2>1. /\ number' \in [Packets -> Numbers \cup {0}] /\ live' \subseteq Packets
        /\ fSavedPacket' \in Packets \cup {NULL} /\ fSavedPacketFree' \in BOOLEAN
    BY <1>3 DEF Inv, TypeOK
  <2>2. fTailPacket' \in Packets \cup {NULL}  BY <1>4 DEF Inv, TypeOK, Store, Enqueued
  <2>3. fHaveSeenFirstPacket' \in BOOLEAN  BY DEF Store
  <2>4. fNextExpectedSeqNo' \in SeqNums  BY <1>3, <1>6 DEF Inv, TypeOK
  <2>5. pending' \subseteq Numbers  BY <1>3, <1>8 DEF Inv, TypeOK
  <2> QED  BY <1>1, <1>3, <1>7, <2>1, <2>2, <2>3, <2>4, <2>5 DEF TypeOK
<1>10. ExpectedInv'
  <2>1. CASE fHaveSeenFirstPacket  BY <1>3, <2>1, Taken DEF Inv, ExpectedInv
  <2>2. CASE ~fHaveSeenFirstPacket  BY <1>3, <1>4, <2>2, Taken DEF ExpectedInv
  <2> QED  BY <2>1, <2>2
<1>11. HandInv'  BY <1>3 DEF HandInv
<1>12. PacketsOwned'
  <2>1. \A i, j \in DOMAIN queue' : queue'[i] = queue'[j] => i = j  BY <1>1, <1>9, DistinctNext DEF NoneTwice
  <2>2. live = Queued \cup ({packet} \ {NULL}) /\ ~fSavedPacketFree
    BY <1>3 DEF Inv, PacketsOwned, HandInv
  <2>3. live' = Queued' /\ packet' = NULL /\ ~fSavedPacketFree'  BY <1>2, <1>3, <1>4, <2>2, ConstantTypes
  <2>4. NULL \notin Queued'
    <3>1. NULL \notin Queued  BY Places, ConstantTypes DEF Inv, Queued
    <3> QED  BY <1>2, <1>4, <3>1, ConstantTypes
  <2> QED  BY <2>1, <2>3, <2>4 DEF PacketsOwned
<1>13. StoredIsKept'  BY <1>3, <1>5 DEF Inv, StoredIsKept
<1> QED  BY <1>1, <1>5, <1>9, <1>10, <1>11, <1>12, <1>13 DEF Inv

-----------------------------------------------------------------------------
(***************************************************************************)
(* Deliver: the head goes out.                                             *)
(***************************************************************************)
LEMMA DeliverStep ==
  ASSUME Reach < Half, Inv, Deliver
  PROVE  /\ Inv' /\ Place(1) \in QueuedNumbers /\ \A m \in QueuedNumbers : Place(1) <= m
         /\ Place(1) >= expected /\ expected' = Place(1) + 1 /\ Place(1) \in Numbers
         /\ QueuedNumbers' = QueuedNumbers \ {Place(1)}
<1> DEFINE n == Place(1)
<1>0. PICK k \in Nat : k = Len(queue)  BY Places DEF Inv
<1>1. queue \in Seq(Packets) /\ queue # <<>> /\ DOMAIN queue = 1..k /\ pc = "process"
  BY <1>0, Places DEF Inv, TypeOK, Deliver
<1>2. /\ queue' \in Seq(Packets) /\ Len(queue') = k - 1 /\ k > 0
      /\ \A i \in 1 .. k - 1 : queue'[i] = queue[i + 1]
      /\ Head(queue) = queue[1] /\ queue[1] \in Packets
      /\ Elems(queue) = Elems(queue') \cup {queue[1]}
  <2>1. queue' = Tail(queue)  BY DEF Deliver
  <2> QED  BY <1>0, <1>1, <2>1, WithoutHead
<1>3. DOMAIN queue' = 1 .. k - 1  BY <1>2, LenProperties
<1>4. /\ fNextExpectedSeqNo' = seq(n + 1) /\ expected' = n + 1 /\ pending' = pending \ {n}
      /\ fTailPacket' = (IF queue' = <<>> THEN NULL ELSE fTailPacket)
      /\ live' = (IF queue[1] = fSavedPacket THEN live ELSE live \ {queue[1]})
      /\ fSavedPacketFree' = (fSavedPacketFree \/ queue[1] = fSavedPacket)
      /\ number' = number /\ fSavedPacket' = fSavedPacket /\ pc' = pc /\ packet' = packet
      /\ fHaveSeenFirstPacket' = fHaveSeenFirstPacket
  BY <1>2 DEF Deliver, NextSeqNo, TailOf, Place
<1>5. n \in Nat /\ n > 0 /\ n >= expected /\ n <= expected + Reach /\ n <= MaxNumber /\ expected \in Nat
  <2>1. 1 \in DOMAIN queue  BY <1>1, <1>2
  <2> QED  BY <1>2, <2>1, Places DEF Inv, PositiveInv, WithinReach, Place
<1>6. \A i \in 1 .. k - 1 : Place(i)' = Place(i + 1) /\ i + 1 \in DOMAIN queue
  BY <1>1, <1>2, <1>4 DEF Place
<1>7. \A i \in DOMAIN queue : i = 1 \/ (n < Place(i) /\ i - 1 \in 1 .. k - 1)
  BY <1>1, <1>2 DEF Inv, Ordered
<1>8. queue[1] \notin Elems(queue') /\ Queued = Queued' \cup {queue[1]}
  <2>1. queue[1] \notin Elems(queue')
    <3> SUFFICES ASSUME NEW i \in 1 .. k - 1, queue'[i] = queue[1]  PROVE FALSE
      BY <1>3 DEF Elems
    <3>1. queue[i + 1] = queue[1] /\ i + 1 \in DOMAIN queue /\ 1 \in DOMAIN queue /\ i + 1 # 1
      BY <1>1, <1>2
    <3> QED  BY <3>1 DEF Inv, PacketsOwned
  <2> QED  BY <1>2, <2>1 DEF Queued, Elems
<1>9. n \in QueuedNumbers  BY <1>8 DEF QueuedNumbers, Place
<1>10. \A m \in QueuedNumbers : n <= m
  <2> SUFFICES ASSUME NEW i \in DOMAIN queue  PROVE n <= Place(i)
    BY DEF QueuedNumbers, Queued, Place
  <2>1. Place(i) \in Nat  BY Places DEF Inv
  <2> HIDE DEF n
  <2>2. i = 1 => n = Place(i)  BY DEF n
  <2> QED  BY <1>5, <1>7, <2>1, <2>2
<1>11. QueuedNumbers' = QueuedNumbers \ {n}
  <2>1. QueuedNumbers = {number[p] : p \in Queued'} \cup {n}
    BY <1>8 DEF QueuedNumbers, Place
  <2>2. n \notin {number[p] : p \in Queued'}
    <3> SUFFICES ASSUME NEW i \in 1 .. k - 1, number[queue'[i]] = n  PROVE FALSE
      BY <1>3 DEF Queued
    <3>1. Place(i + 1) = n /\ i + 1 \in DOMAIN queue /\ i + 1 # 1  BY <1>2, <1>6 DEF Place
    <3>2. n < Place(i + 1)  BY <1>7, <3>1
    <3> QED  BY <1>5, <3>1, <3>2
  <2> QED  BY <1>4, <2>1, <2>2 DEF QueuedNumbers
<1>12. n \in Numbers  BY <1>5, ConstantTypes DEF Numbers
<1> HIDE DEF n
<1>13. TypeOK'
  <2>1. /\ number' \in [Packets -> Numbers \cup {0}] /\ live' \subseteq Packets
        /\ fSavedPacket' \in Packets \cup {NULL} /\ fHaveSeenFirstPacket' \in BOOLEAN
        /\ pc' \in {"idle", "store", "process", "reset", "gone"} /\ packet' \in Packets \cup {NULL}
        /\ pending' \subseteq Numbers
    BY <1>4 DEF Inv, TypeOK
  <2>2. fTailPacket' \in Packets \cup {NULL} /\ fSavedPacketFree' \in BOOLEAN
    BY <1>4 DEF Inv, TypeOK
  <2>3. n + 1 \in Nat  BY <1>5
  <2>4. fNextExpectedSeqNo' \in SeqNums  BY <1>4, <2>3, Division
  <2>5. expected' \in 0 .. MaxNumber + 1  BY <1>4, <1>5, ConstantTypes
  <2> QED  BY <1>2, <2>1, <2>2, <2>4, <2>5 DEF TypeOK
<1>14. ExpectedInv'
  <2>1. fHaveSeenFirstPacket'  BY <1>1, <1>4 DEF Inv, ExpectedInv
  <2>2. expected' > 0 /\ fNextExpectedSeqNo' = seq(expected')  BY <1>4, <1>5
  <2> QED  BY <2>1, <2>2 DEF ExpectedInv
<1>15. HandInv'  BY <1>1, <1>4 DEF Inv, HandInv
<1>16. Ordered'
  <2> SUFFICES ASSUME NEW i \in 1 .. k - 1, NEW j \in 1 .. k - 1, i < j  PROVE Place(i)' < Place(j)'
    BY <1>3 DEF Ordered
  <2>1. i + 1 < j + 1  OBVIOUS
  <2>2. Place(i + 1) < Place(j + 1)  BY <1>6, <2>1 DEF Inv, Ordered
  <2> QED  BY <1>6, <2>2
<1>17. WithinReach' /\ PositiveInv'
  <2> SUFFICES ASSUME NEW i \in 1 .. k - 1
               PROVE  Place(i)' >= expected' /\ Place(i)' <= expected' + Reach /\ Place(i)' > 0
    BY <1>3 DEF WithinReach, PositiveInv
  <2>1. i + 1 \in DOMAIN queue /\ i + 1 # 1  BY <1>6
  <2>2. Place(i + 1) \in Nat /\ n < Place(i + 1) /\ Place(i + 1) <= expected + Reach
    BY <1>7, <2>1, Places DEF Inv, WithinReach
  <2>3. Place(i)' = Place(i + 1)  BY <1>6
  <2> QED  BY <1>4, <1>5, <2>2, <2>3, ConstantTypes
<1>18. TailIsLast'
  <2>1. CASE queue' = <<>>  BY <1>4, <2>1 DEF TailIsLast
  <2>2. CASE queue' # <<>>
    <3>1. k - 1 > 0  BY <1>2, <2>2, EmptySeq
    <3>2. k - 1 \in 1 .. k - 1 /\ (k - 1) + 1 = k  BY <3>1
    <3>3. queue'[k - 1] = queue[k]  BY <1>2, <3>2
    <3>4. fTailPacket = queue[k]  BY <1>0, <1>1 DEF Inv, TailIsLast
    <3> QED  BY <1>2, <1>4, <2>2, <3>3, <3>4 DEF TailIsLast
  <2> QED  BY <2>1, <2>2
<1>19. PacketsOwned'
  <2>1. \A i, j \in DOMAIN queue' : queue'[i] = queue'[j] => i = j  BY <1>13, <1>16, DistinctNext DEF NoneTwice
  <2>2. packet = NULL /\ packet' = NULL  BY <1>1, <1>4 DEF Inv, HandInv
  <2>3. queue[1] \notin Queued'  BY <1>8 DEF Queued, Elems
  <2>4. NULL \notin Queued  BY Places, ConstantTypes DEF Inv, Queued
  <2>5. fSavedPacketFree => fSavedPacket \notin Queued  BY DEF Inv, PacketsOwned
  <2>6. live = Queued \cup (IF fSavedPacketFree THEN {fSavedPacket} \ {NULL} ELSE {})
    BY <2>2 DEF Inv, PacketsOwned
  <2>7. live' = Queued' \cup (IF fSavedPacketFree' THEN {fSavedPacket'} \ {NULL} ELSE {})
    <3>1. CASE queue[1] = fSavedPacket
      <4>1. ~fSavedPacketFree  BY <1>8, <2>5, <3>1
      <4>2. live' = Queued /\ fSavedPacketFree' /\ fSavedPacket' = queue[1]  BY <1>4, <2>6, <3>1, <4>1
      <4> QED  BY <1>2, <1>8, <4>2, ConstantTypes
    <3>2. CASE queue[1] # fSavedPacket
      <4>1. live' = live \ {queue[1]} /\ (fSavedPacketFree' <=> fSavedPacketFree) /\ fSavedPacket' = fSavedPacket
        BY <1>4, <3>2
      <4>2. Queued' = Queued \ {queue[1]}  BY <1>8, <2>3
      <4> QED  BY <2>6, <3>2, <4>1, <4>2
    <3> QED  BY <3>1, <3>2
  <2>8. fSavedPacketFree' => fSavedPacket' \notin Queued'  BY <1>4, <1>8, <2>3, <2>5
  <2>9. NULL \notin Queued'  BY <1>8, <2>4
  <2> QED  BY <2>1, <2>2, <2>7, <2>8, <2>9 DEF PacketsOwned
<1>20. StoredIsKept'  BY <1>1, <1>4, <1>11 DEF Inv, StoredIsKept
<1>21. Inv'  BY <1>13, <1>14, <1>15, <1>16, <1>17, <1>18, <1>19, <1>20 DEF Inv
<1> QED  BY <1>4, <1>5, <1>9, <1>10, <1>11, <1>12, <1>21 DEF n

-----------------------------------------------------------------------------
(***************************************************************************)
(* The steps that leave the queue alone, and reset.                        *)
(***************************************************************************)
LEMMA SameQueue ==
  ASSUME Inv, UNCHANGED <<queue, fTailPacket, expected>>,
         \A i \in DOMAIN queue : number'[queue[i]] = number[queue[i]]
  PROVE  /\ WithinReach' /\ Ordered' /\ PositiveInv' /\ TailIsLast'
         /\ Queued' = Queued /\ QueuedNumbers' = QueuedNumbers
<1>1. \A i \in DOMAIN queue : Place(i)' = Place(i)  BY DEF Place
<1>2. WithinReach'  BY <1>1 DEF Inv, WithinReach
<1>3. Ordered'  BY <1>1 DEF Inv, Ordered
<1>4. PositiveInv'  BY <1>1 DEF Inv, PositiveInv
<1>5. TailIsLast'  BY DEF Inv, TailIsLast
<1>6. Queued' = Queued  BY DEF Queued
<1>7. \A p \in Queued : number'[p] = number[p]  BY DEF Queued
<1>8. QueuedNumbers' = QueuedNumbers  BY <1>6, <1>7 DEF QueuedNumbers
<1> QED  BY <1>2, <1>3, <1>4, <1>5, <1>6, <1>8

\* What getFreePacket hands out is not in use, and the saved packet is in use or it.
LEMMA Handed ==
  ASSUME Inv, pc = "idle", NEW p \in Packets, NEW saved \in Packets, FreePacket(p, saved)
  PROVE  /\ packet = NULL /\ p \notin Queued /\ p # NULL /\ saved # NULL /\ NULL \notin Queued
         /\ live \ {p} = Queued
<1>1. packet = NULL /\ p # NULL /\ saved # NULL  BY ConstantTypes DEF Inv, HandInv
<1>2. NULL \notin Queued  BY Places, ConstantTypes DEF Inv, Queued
<1>3. live = Queued \cup (IF fSavedPacketFree THEN {fSavedPacket} \ {NULL} ELSE {})
  BY <1>1 DEF Inv, PacketsOwned
<1>4. fSavedPacketFree => fSavedPacket \notin Queued  BY DEF Inv, PacketsOwned
<1>5. CASE fSavedPacket = NULL
  <2>1. live = Queued /\ p \notin live  BY <1>3, <1>5 DEF FreePacket
  <2> QED  BY <1>1, <1>2, <2>1
<1>6. CASE fSavedPacket # NULL /\ fSavedPacketFree
  <2>1. p = fSavedPacket  BY <1>6 DEF FreePacket
  <2> QED  BY <1>1, <1>2, <1>3, <1>4, <1>6, <2>1
<1>7. CASE fSavedPacket # NULL /\ ~fSavedPacketFree
  <2>1. live = Queued /\ p \notin live  BY <1>3, <1>7 DEF FreePacket
  <2> QED  BY <1>1, <1>2, <2>1
<1> QED  BY <1>5, <1>6, <1>7

LEMMA ReceiveStep ==
  ASSUME Inv, NEW n \in Numbers, NEW p \in Packets, NEW saved \in Packets, Receive(n, p, saved)
  PROVE  Inv' /\ QueuedNumbers' = QueuedNumbers
<1>1. /\ pc = "idle" /\ Arrives(n) /\ pc' = "store" /\ packet' = p
      /\ number' = [number EXCEPT ![p] = n]
      /\ fSavedPacket' = saved /\ fSavedPacketFree' = FALSE /\ live' = live \cup {p}
      /\ fHaveSeenFirstPacket' = fHaveSeenFirstPacket /\ fNextExpectedSeqNo' = fNextExpectedSeqNo
      /\ expected' = expected /\ pending' = pending /\ queue' = queue /\ fTailPacket' = fTailPacket
  BY DEF Receive, history
<1>2. p \notin Queued /\ p # NULL /\ NULL \notin Queued /\ live \ {p} = Queued
  BY <1>1, Handed DEF Receive
<1>3. number' \in [Packets -> Numbers \cup {0}]  BY <1>1 DEF Inv, TypeOK
<1>4. number'[p] = n /\ \A q \in Packets \ {p} : number'[q] = number[q]  BY <1>1 DEF Inv, TypeOK
<1>5. \A i \in DOMAIN queue : number'[queue[i]] = number[queue[i]]
  BY <1>2, <1>4, Places DEF Inv, Queued
<1>6. /\ WithinReach' /\ Ordered' /\ PositiveInv' /\ TailIsLast'
      /\ Queued' = Queued /\ QueuedNumbers' = QueuedNumbers
  BY <1>1, <1>5, SameQueue
<1>7. TypeOK'  BY <1>1, <1>3, ConstantTypes DEF Inv, TypeOK
<1>8. ExpectedInv'  BY <1>1 DEF Inv, ExpectedInv
<1>9. HandInv'
  <2>1. n > 0  BY ConstantTypes DEF Numbers
  <2> QED  BY <1>1, <1>4, <2>1 DEF HandInv, Arrives
<1>10. PacketsOwned'
  <2>1. live' = Queued \cup {p}  BY <1>1, <1>2
  <2> QED  BY <1>1, <1>2, <1>6, <2>1 DEF Inv, PacketsOwned
<1>11. StoredIsKept'  BY <1>1, <1>6 DEF Inv, StoredIsKept
<1> QED  BY <1>6, <1>7, <1>8, <1>9, <1>10, <1>11 DEF Inv

LEMMA RefuseStep ==
  ASSUME Inv, Refuse
  PROVE  Inv' /\ QueuedNumbers' = QueuedNumbers
<1>1. /\ pc = "store" /\ pc' = "process" /\ packet' = NULL /\ number' = number
      /\ freePacket(packet, fSavedPacket)
      /\ fHaveSeenFirstPacket' = fHaveSeenFirstPacket /\ fNextExpectedSeqNo' = fNextExpectedSeqNo
      /\ expected' = expected /\ pending' = pending /\ queue' = queue /\ fTailPacket' = fTailPacket
  BY DEF Refuse, history
<1>2. /\ WithinReach' /\ Ordered' /\ PositiveInv' /\ TailIsLast'
      /\ Queued' = Queued /\ QueuedNumbers' = QueuedNumbers
  BY <1>1, SameQueue
<1>3. packet \in Packets /\ packet # NULL /\ ~fSavedPacketFree  BY <1>1, ConstantTypes DEF Inv, HandInv
<1>4. TypeOK'  BY <1>1, <1>3 DEF Inv, TypeOK, freePacket
<1>5. ExpectedInv' /\ HandInv'  BY <1>1 DEF Inv, ExpectedInv, HandInv
<1>6. PacketsOwned'
  <2>1. live = Queued \cup {packet} /\ packet \notin Queued  BY <1>3 DEF Inv, PacketsOwned
  <2>2. NULL \notin Queued  BY Places, ConstantTypes DEF Inv, Queued
  <2>3. CASE packet = fSavedPacket  BY <1>1, <1>2, <1>3, <2>1, <2>2, <2>3 DEF Inv, PacketsOwned, freePacket
  <2>4. CASE packet # fSavedPacket  BY <1>1, <1>2, <1>3, <2>1, <2>2, <2>4 DEF Inv, PacketsOwned, freePacket
  <2> QED  BY <2>3, <2>4
<1>7. StoredIsKept'  BY <1>1, <1>2 DEF Inv, StoredIsKept
<1> QED  BY <1>2, <1>4, <1>5, <1>6, <1>7 DEF Inv

LEMMA OtherPayloadStep ==
  ASSUME Inv, NEW p \in Packets, NEW saved \in Packets, OtherPayload(p, saved)
  PROVE  Inv' /\ QueuedNumbers' = QueuedNumbers
<1>1. /\ pc = "idle" /\ pc' = "process" /\ packet' = packet /\ number' = number
      /\ freePacket(p, saved)
      /\ fHaveSeenFirstPacket' = fHaveSeenFirstPacket /\ fNextExpectedSeqNo' = fNextExpectedSeqNo
      /\ expected' = expected /\ pending' = pending /\ queue' = queue /\ fTailPacket' = fTailPacket
  BY DEF OtherPayload, history
<1>2. /\ WithinReach' /\ Ordered' /\ PositiveInv' /\ TailIsLast'
      /\ Queued' = Queued /\ QueuedNumbers' = QueuedNumbers
  BY <1>1, SameQueue
<1>3. packet = NULL /\ p \notin Queued /\ p # NULL /\ NULL \notin Queued /\ live \ {p} = Queued
  BY <1>1, Handed DEF OtherPayload
<1>4. TypeOK'  BY <1>1 DEF Inv, TypeOK, freePacket
<1>5. ExpectedInv' /\ HandInv'  BY <1>1 DEF Inv, ExpectedInv, HandInv
<1>6. PacketsOwned'
  <2>1. CASE p = saved
    <3>1. live' = Queued \cup {p} /\ fSavedPacketFree' /\ fSavedPacket' = p
      BY <1>1, <1>3, <2>1 DEF freePacket
    <3> QED  BY <1>1, <1>2, <1>3, <3>1 DEF Inv, PacketsOwned
  <2>2. CASE p # saved
    <3>1. live' = Queued /\ ~fSavedPacketFree' /\ fSavedPacket' = saved
      BY <1>1, <1>3, <2>2 DEF freePacket
    <3> QED  BY <1>1, <1>2, <1>3, <3>1 DEF Inv, PacketsOwned
  <2> QED  BY <2>1, <2>2
<1>7. StoredIsKept'  BY <1>1, <1>2 DEF Inv, StoredIsKept
<1> QED  BY <1>2, <1>4, <1>5, <1>6, <1>7 DEF Inv

LEMMA InvalidStep ==
  ASSUME Inv, NEW p \in Packets, NEW saved \in Packets, Invalid(p, saved)
  PROVE  Inv' /\ QueuedNumbers' = QueuedNumbers
<1>1. /\ pc = "idle" /\ pc' = pc /\ packet' = packet /\ number' = number
      /\ fSavedPacket' = saved /\ fSavedPacketFree' = FALSE /\ live' = live \ {p}
      /\ fHaveSeenFirstPacket' = fHaveSeenFirstPacket /\ fNextExpectedSeqNo' = fNextExpectedSeqNo
      /\ expected' = expected /\ pending' = pending /\ queue' = queue /\ fTailPacket' = fTailPacket
  BY DEF Invalid, history
<1>2. /\ WithinReach' /\ Ordered' /\ PositiveInv' /\ TailIsLast'
      /\ Queued' = Queued /\ QueuedNumbers' = QueuedNumbers
  BY <1>1, SameQueue
<1>3. packet = NULL /\ p \notin Queued /\ NULL \notin Queued /\ live \ {p} = Queued
  BY <1>1, Handed DEF Invalid
<1>4. TypeOK'  BY <1>1 DEF Inv, TypeOK
<1>5. ExpectedInv' /\ HandInv'  BY <1>1 DEF Inv, ExpectedInv, HandInv
<1>6. PacketsOwned'  BY <1>1, <1>2, <1>3 DEF Inv, PacketsOwned
<1>7. StoredIsKept'  BY <1>1, <1>2 DEF Inv, StoredIsKept
<1> QED  BY <1>2, <1>4, <1>5, <1>6, <1>7 DEF Inv

LEMMA NoneCompletedStep ==
  ASSUME Inv, NoneCompleted
  PROVE  Inv' /\ QueuedNumbers' = QueuedNumbers
<1>1. /\ pc = "process" /\ pc' = "idle"
      /\ UNCHANGED <<queue, fTailPacket, number, live, fSavedPacket, fSavedPacketFree,
                     fHaveSeenFirstPacket, fNextExpectedSeqNo, packet, expected, pending>>
  BY DEF NoneCompleted, pool, history
<1>2. /\ WithinReach' /\ Ordered' /\ PositiveInv' /\ TailIsLast'
      /\ Queued' = Queued /\ QueuedNumbers' = QueuedNumbers
  BY <1>1, SameQueue
<1>3. TypeOK'  BY <1>1 DEF Inv, TypeOK
<1>4. ExpectedInv' /\ HandInv'  BY <1>1 DEF Inv, ExpectedInv, HandInv
<1>5. PacketsOwned'  BY <1>1, <1>2 DEF Inv, PacketsOwned
<1>6. StoredIsKept'  BY <1>1, <1>2 DEF Inv, StoredIsKept
<1> QED  BY <1>2, <1>3, <1>4, <1>5, <1>6 DEF Inv

LEMMA ResetStep ==
  ASSUME Inv, NEW from, NEW to, reset(from, to),
         from \in {"idle", "reset"}, to \in {"reset", "gone"}
  PROVE  Inv' /\ QueuedNumbers' = {} /\ expected' = expected
<1>1. /\ pc = from /\ pc' = to
      /\ live' = (live \ Queued) \ (IF fSavedPacketFree THEN {fSavedPacket} ELSE {})
      /\ fSavedPacket' = (IF fSavedPacketFree THEN NULL ELSE fSavedPacket)
      /\ fSavedPacketFree' = FALSE /\ fHaveSeenFirstPacket' = FALSE
      /\ queue' = <<>> /\ fTailPacket' = NULL
      /\ UNCHANGED <<number, fNextExpectedSeqNo, packet, expected, pending>>
  BY DEF reset, history
<1>2. queue' \in Seq(Packets) /\ DOMAIN queue' = {}
  <2>1. <<>> \in Seq(Packets) /\ Len(<<>>) = 0  BY EmptySeq
  <2>2. DOMAIN <<>> = {}  BY <2>1, LenProperties
  <2> QED  BY <1>1, <2>1, <2>2
<1>3. Queued' = {} /\ QueuedNumbers' = {}  BY <1>2 DEF Queued, QueuedNumbers
<1>4. TypeOK'  BY <1>1, <1>2 DEF Inv, TypeOK
<1>5. packet = NULL  BY <1>1 DEF Inv, HandInv
<1>6. ExpectedInv' /\ HandInv'  BY <1>1, <1>5 DEF ExpectedInv, HandInv
<1>7. WithinReach' /\ Ordered' /\ PositiveInv'  BY <1>2 DEF WithinReach, Ordered, PositiveInv
<1>8. TailIsLast'  BY <1>1 DEF TailIsLast
<1>9. PacketsOwned'
  <2>1. live' = {}  BY <1>1, <1>5 DEF Inv, PacketsOwned
  <2> QED  BY <1>1, <1>2, <1>3, <1>5, <2>1 DEF PacketsOwned
<1>10. StoredIsKept'  BY <1>1 DEF StoredIsKept
<1> QED  BY <1>1, <1>3, <1>4, <1>6, <1>7, <1>8, <1>9, <1>10 DEF Inv

-----------------------------------------------------------------------------
(***************************************************************************)
(* Every step keeps the invariant, and is a step of InOrderDelivery or     *)
(* none.                                                                   *)
(***************************************************************************)
AbstractVars == <<QueuedNumbers, expected>>
AbstractStep == Abstract!Next \/ UNCHANGED AbstractVars

LEMMA InvNext ==
  ASSUME Reach < Half, Inv, [Next]_vars
  PROVE  Inv' /\ AbstractStep
<1>1. ASSUME NEW p \in Packets, NEW saved \in Packets, NEW n \in Numbers, Receive(n, p, saved)
      PROVE  Inv' /\ AbstractStep
  <2>1. expected' = expected  BY <1>1 DEF Receive, history
  <2> QED  BY <1>1, <2>1, ReceiveStep DEF AbstractStep, AbstractVars
<1>2. ASSUME NEW p \in Packets, NEW saved \in Packets, OtherPayload(p, saved)
      PROVE  Inv' /\ AbstractStep
  <2>1. expected' = expected  BY <1>2 DEF OtherPayload, history
  <2> QED  BY <1>2, <2>1, OtherPayloadStep DEF AbstractStep, AbstractVars
<1>3. ASSUME NEW p \in Packets, NEW saved \in Packets, Invalid(p, saved)
      PROVE  Inv' /\ AbstractStep
  <2>1. expected' = expected  BY <1>3 DEF Invalid, history
  <2> QED  BY <1>3, <2>1, InvalidStep DEF AbstractStep, AbstractVars
<1>4. CASE Store
  <2> DEFINE n == number[packet]
  <2>1. Inv' /\ QueuedNumbers' = QueuedNumbers \cup {n}  BY <1>4, StoreStep
  <2>2. n \in Numbers
    <3>1. packet \in Packets /\ n \in Nat /\ n > 0  BY <1>4, Taken
    <3>2. n <= MaxNumber  BY <3>1, Places DEF Inv
    <3> QED  BY <3>1, <3>2, ConstantTypes DEF Numbers
  <2>3. CASE fHaveSeenFirstPacket
    <3>1. n >= expected /\ expected' = expected /\ expected > 0  BY <1>4, <2>3, Taken
    <3>2. CASE n \in QueuedNumbers  BY <2>1, <3>1, <3>2 DEF AbstractStep, AbstractVars
    <3>3. CASE n \notin QueuedNumbers
      <4>1. Abstract!Accept(n)  BY <2>1, <3>1, <3>3 DEF Abstract!Accept
      <4> QED  BY <2>1, <2>2, <4>1 DEF AbstractStep, Abstract!Next
    <3> QED  BY <3>2, <3>3
  <2>4. CASE ~fHaveSeenFirstPacket
    <3>1. queue = <<>> /\ expected = 0 /\ expected' = n  BY <1>4, <2>4, Taken
    <3>2. DOMAIN queue = {}  BY <3>1, Places DEF Inv
    <3>3. QueuedNumbers = {}  BY <3>2 DEF QueuedNumbers, Queued
    <3>4. Abstract!Start(n)  BY <2>1, <3>1, <3>3 DEF Abstract!Start
    <3> QED  BY <2>1, <2>2, <3>4 DEF AbstractStep, Abstract!Next
  <2> QED  BY <2>3, <2>4
<1>5. CASE Refuse
  <2>1. expected' = expected  BY <1>5 DEF Refuse, history
  <2> QED  BY <1>5, <2>1, RefuseStep DEF AbstractStep, AbstractVars
<1>6. CASE Deliver
  <2> DEFINE n == Place(1)
  <2>1. /\ Inv' /\ n \in QueuedNumbers /\ \A m \in QueuedNumbers : n <= m
        /\ n >= expected /\ expected' = n + 1 /\ n \in Numbers
        /\ QueuedNumbers' = QueuedNumbers \ {n}
    BY <1>6, DeliverStep
  <2> HIDE DEF n
  <2>2. Abstract!Release(n)  BY <2>1 DEF Abstract!Release
  <2> QED  BY <2>1, <2>2 DEF AbstractStep, Abstract!Next
<1>7. CASE NoneCompleted
  <2>1. expected' = expected  BY <1>7 DEF NoneCompleted, history
  <2> QED  BY <1>7, <2>1, NoneCompletedStep DEF AbstractStep, AbstractVars
<1>8. CASE reset("idle", "reset") \/ reset("reset", "gone")
  <2>1. Inv' /\ QueuedNumbers' = {} /\ expected' = expected  BY <1>8, ResetStep
  <2> QED  BY <2>1 DEF AbstractStep, Abstract!Next, Abstract!Stop
<1>9. CASE UNCHANGED vars
  <2>1. UNCHANGED <<queue, fTailPacket, number, live, fSavedPacket, fSavedPacketFree,
                    fHaveSeenFirstPacket, fNextExpectedSeqNo, pc, packet, expected, pending>>
    BY <1>9 DEF vars, pool, history
  <2>2. /\ WithinReach' /\ Ordered' /\ PositiveInv' /\ TailIsLast'
        /\ Queued' = Queued /\ QueuedNumbers' = QueuedNumbers
    BY <2>1, SameQueue
  <2>3. TypeOK' /\ ExpectedInv' /\ HandInv'  BY <2>1 DEF Inv, TypeOK, ExpectedInv, HandInv
  <2>4. PacketsOwned' /\ StoredIsKept'  BY <2>1, <2>2 DEF Inv, PacketsOwned, StoredIsKept
  <2> QED  BY <2>1, <2>2, <2>3, <2>4 DEF Inv, AbstractStep, AbstractVars
<1> QED  BY <1>1, <1>2, <1>3, <1>4, <1>5, <1>6, <1>7, <1>8, <1>9 DEF Next

LEMMA Invariance == ASSUME Reach < Half PROVE Spec => []Inv
<1>1. Inv /\ [Next]_vars => Inv'  BY InvNext
<1> QED  BY <1>1, InvInit, PTL DEF Spec

\* Every variable keeps its type; in particular fNextExpectedSeqNo stays within the 16
\* bits of a sequence number.
THEOREM TypeCorrect == ASSUME Reach < Half PROVE Spec => []TypeOK
<1>1. Inv => TypeOK  BY DEF Inv
<1> QED  BY <1>1, Invariance, PTL

\* Every packet object has one owner, and none is left when the buffer is gone.
THEOREM Ownership == ASSUME Reach < Half PROVE Spec => []PacketsOwned
<1>1. Inv => PacketsOwned  BY DEF Inv
<1> QED  BY <1>1, Invariance, PTL

\* What storePacket took is queued until it goes out.
THEOREM Kept == ASSUME Reach < Half PROVE Spec => []StoredIsKept
<1>1. Inv => StoredIsKept  BY DEF Inv
<1> QED  BY <1>1, Invariance, PTL

\* fTailPacket is the last packet of the list whenever storePacket looks at it.
THEOREM TailCorrect == ASSUME Reach < Half PROVE Spec => []TailIsLast
<1>1. Inv => TailIsLast  BY DEF Inv
<1> QED  BY <1>1, Invariance, PTL

\* storePacket refuses what is late or a duplicate, and nothing else.
THEOREM Refusals == ASSUME Reach < Half PROVE Spec => []RefusedRightly
<1>1. Inv => RefusedRightly  BY RefusesRightly DEF RefusedRightly
<1> QED  BY <1>1, Invariance, PTL

\* The commented assertion of getNextCompletedPacket holds.
THEOREM HeadAhead == ASSUME Reach < Half PROVE Spec => []HeadNotBehind
<1>1. Inv => HeadNotBehind
  <2> SUFFICES ASSUME Inv, queue # <<>>  PROVE ~seqNumLT(At(1), fNextExpectedSeqNo)
    BY DEF HeadNotBehind
  <2>1. 1 \in DOMAIN queue  BY Places DEF Inv
  <2>2. expected \in Nat /\ Place(1) \in Nat /\ Place(1) >= expected /\ fNextExpectedSeqNo = seq(expected)
    BY <2>1, Places DEF Inv, WithinReach, ExpectedInv
  <2>3. expected <= expected + Reach /\ expected >= expected  BY <2>2, ConstantTypes
  <2>4. seqNumLT(At(1), seq(expected)) <=> Place(1) < expected  BY <2>1, <2>2, <2>3, Compares
  <2> QED  BY <2>2, <2>4
<1> QED  BY <1>1, Invariance, PTL

\* The reordering buffer implements InOrderDelivery: packets go out in the sender's
\* order, each once, over any number of wraps of the sequence numbers.
THEOREM Delivers == ASSUME Reach < Half PROVE Spec => DeliversInOrder
<1>1. Init => Abstract!Init
  <2> SUFFICES ASSUME Init  PROVE Abstract!Init  OBVIOUS
  <2>1. Inv /\ Len(queue) = 0  BY InvInit, EmptySeq DEF Init
  <2>2. DOMAIN queue = {}  BY <2>1, Places DEF Inv
  <2> QED  BY <2>2 DEF Init, Abstract!Init, QueuedNumbers, Queued
<1>2. Inv /\ [Next]_vars => [Abstract!Next]_(Abstract!vars)
  BY InvNext DEF AbstractStep, AbstractVars, Abstract!vars
<1> QED  BY <1>1, <1>2, Invariance, PTL DEF Spec, DeliversInOrder, Abstract!Spec
=============================================================================
