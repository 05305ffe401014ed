------------------------ MODULE ReorderingPacketBuffer ------------------------
(***************************************************************************)
(* The queue that puts RTP packets back into order                         *)
(* (RTSP/RTSPClient/RTP/RTPPacketBuffer.cpp), as RTPSource uses it: every  *)
(* packet received is stored or freed, then whatever is complete is taken  *)
(* out. Everything runs on the event thread of the session.                *)
(*                                                                         *)
(* A packet carries the low bits of the number the sender gave it; number  *)
(* and expected keep the whole number, which the code does not know. The   *)
(* chain of nextPacket pointers from fHeadPacket is the sequence queue.    *)
(* isFirstPacket and packetLossPreceded, which only a log line reads, and  *)
(* the contents of packets are left out.                                   *)
(***************************************************************************)
EXTENDS Integers, Sequences

CONSTANTS
  Packets,      \* addresses of RTPPacketBuffer objects
  Half,         \* half the number of sequence numbers (0x8000)
  Reach,        \* environment: how far from the number expected a packet may be
  MaxNumber     \* bound: the last number the sender gives

NULL == "NULL"

ASSUME ConstantsAssumption ==
  /\ NULL \notin Packets
  /\ Half \in Nat \ {0} /\ Reach \in Nat /\ MaxNumber \in Nat

Numbers == 1..MaxNumber
SeqNums == 0 .. 2 * Half - 1
seq(n) == n % (2 * Half)

VARIABLES
  queue,                \* fHeadPacket and the packets that follow it
  fTailPacket,
  number,               \* what the packet at an address holds
  live,                 \* the objects that exist
  fSavedPacket, fSavedPacketFree,
  fHaveSeenFirstPacket, fNextExpectedSeqNo,
  pc,                   \* "idle", "store", "process" (in processNextPacket), "reset", "gone"
  packet,               \* the packet rtpReadHandler is about to store
  expected,             \* history: the whole number of fNextExpectedSeqNo, 0 at first
  pending               \* history: numbers that storePacket took and that have not gone out

pool == <<live, fSavedPacket, fSavedPacketFree>>
history == <<expected, pending>>
vars == <<queue, fTailPacket, number, pool, fHaveSeenFirstPacket, fNextExpectedSeqNo, pc, packet, history>>

Queued == {queue[i] : i \in DOMAIN queue}
QueuedNumbers == {number[p] : p \in Queued}

Init ==
  /\ queue = <<>> /\ fTailPacket = NULL
  /\ number = [p \in Packets |-> 0]
  /\ live = {} /\ fSavedPacket = NULL /\ fSavedPacketFree = TRUE
  /\ fHaveSeenFirstPacket = FALSE
  /\ fNextExpectedSeqNo \in SeqNums     \* the constructor does not set it
  /\ pc = "idle" /\ packet = NULL
  /\ expected = 0 /\ pending = {}

seqNumLTPlain(s1, s2) == s1 < s2     \* mutant: without the wrap

seqNumLT(s1, s2) ==
  LET diff == s2 - s1 IN (diff > 0 /\ diff < Half) \/ (diff < 0 /\ diff < -Half)

(***************************************************************************)
(* The pool of one: the saved packet is handed out if it is free.          *)
(***************************************************************************)
FreePacketShared(p, saved) ==     \* mutant: the saved packet is handed out in use
  \/ fSavedPacket = NULL /\ p \in Packets \ live /\ saved = p
  \/ fSavedPacket # NULL /\ saved = fSavedPacket /\ p = fSavedPacket

\* getFreePacket returns p and leaves fSavedPacket = saved; fSavedPacketFree is
\* false then.
FreePacket(p, saved) ==
  \/ fSavedPacket = NULL /\ p \in Packets \ live /\ saved = p
  \/ fSavedPacket # NULL /\ saved = fSavedPacket
     /\ IF fSavedPacketFree THEN p = fSavedPacket ELSE p \in Packets \ live

freePacket(p, saved) ==
  /\ fSavedPacket' = saved
  /\ fSavedPacketFree' = (p = saved)
  /\ live' = IF p = saved THEN live \cup {p} ELSE live \ {p}

(***************************************************************************)
(* storePacket                                                             *)
(***************************************************************************)
At(i) == seq(number[queue[i]])

ComesAfterAll(i, s) == i = Len(queue)     \* mutant: always put at the end

\* The walk from the head stops behind the i-th packet.
ComesAfter(i, s) ==
  /\ \A j \in 1..i : ~seqNumLT(s, At(j))
  /\ i < Len(queue) => seqNumLT(s, At(i + 1))

\* The walk meets a packet of the same number.
IsDuplicate(s) ==
  \E j \in DOMAIN queue : At(j) = s /\ \A k \in 1..j : ~seqNumLT(s, At(k))

Inserted(p, i) ==
  [j \in 1 .. Len(queue) + 1 |-> IF j <= i THEN queue[j] ELSE IF j = i + 1 THEN p ELSE queue[j - 1]]

InOrder(s) == seqNumLT(seq(number[fTailPacket]), s)

\* fTailPacket->nextPacket() = packet: what followed the tail is no longer reached.
Linked(p) ==
  IF fTailPacket \notin Queued THEN queue
  ELSE LET i == CHOOSE j \in DOMAIN queue : queue[j] = fTailPacket
       IN Append(SubSeq(queue, 1, i), p)

\* The packet is the first, or ahead of the tail, or goes in behind the i-th.
Enqueued(p, s) ==
  \/ /\ fTailPacket = NULL
     /\ queue' = <<p>> /\ fTailPacket' = p
  \/ /\ fTailPacket # NULL /\ InOrder(s)
     /\ queue' = Linked(p) /\ fTailPacket' = p
  \/ /\ fTailPacket # NULL /\ ~InOrder(s) /\ s # seq(number[fTailPacket]) /\ ~IsDuplicate(s)
     /\ \E i \in 0..Len(queue) : ComesAfter(i, s) /\ queue' = Inserted(p, i)
     /\ UNCHANGED fTailPacket

Refused(s) ==
  \/ fHaveSeenFirstPacket /\ seqNumLT(s, fNextExpectedSeqNo)
  \/ fTailPacket # NULL /\ ~InOrder(s) /\ (s = seq(number[fTailPacket]) \/ IsDuplicate(s))

(***************************************************************************)
(* RTPSource::rtpReadHandler.                                              *)
(***************************************************************************)
\* What the network may bring: a number not too far from the one expected.
Arrives(n) == fHaveSeenFirstPacket => n >= expected - Reach /\ n <= expected + Reach

Receive(n, p, saved) ==
  /\ pc = "idle" /\ Arrives(n) /\ FreePacket(p, saved)
  /\ number' = [number EXCEPT ![p] = n]
  /\ fSavedPacket' = saved /\ fSavedPacketFree' = FALSE /\ live' = live \cup {p}
  /\ packet' = p /\ pc' = "store"
  /\ UNCHANGED <<queue, fTailPacket, fHaveSeenFirstPacket, fNextExpectedSeqNo, history>>

\* storePacket takes the packet.
Store ==
  LET n == number[packet] IN
  /\ pc = "store" /\ ~Refused(seq(n))
  /\ Enqueued(packet, seq(n))
  /\ fHaveSeenFirstPacket' = TRUE
  /\ fNextExpectedSeqNo' = IF fHaveSeenFirstPacket THEN fNextExpectedSeqNo ELSE seq(n)
  /\ expected' = IF fHaveSeenFirstPacket THEN expected ELSE n
  /\ pending' = pending \cup {n}
  /\ packet' = NULL /\ pc' = "process"
  /\ UNCHANGED <<number, pool>>

\* storePacket returns false; the packet is freed.
Refuse ==
  /\ pc = "store" /\ Refused(seq(number[packet]))
  /\ freePacket(packet, fSavedPacket)
  /\ packet' = NULL /\ pc' = "process"
  /\ UNCHANGED <<queue, fTailPacket, number, fHaveSeenFirstPacket, fNextExpectedSeqNo, history>>

\* Another payload type: the packet is freed without being stored.
OtherPayload(p, saved) ==
  /\ pc = "idle" /\ FreePacket(p, saved)
  /\ freePacket(p, saved)
  /\ pc' = "process"
  /\ UNCHANGED <<queue, fTailPacket, number, fHaveSeenFirstPacket, fNextExpectedSeqNo, packet, history>>

\* The header is invalid: the packet is deleted, the saved one as well.
Invalid(p, saved) ==
  /\ pc = "idle" /\ FreePacket(p, saved)
  /\ fSavedPacket' = saved /\ fSavedPacketFree' = FALSE
  /\ live' = live \ {p}
  /\ UNCHANGED <<queue, fTailPacket, number, fHaveSeenFirstPacket, fNextExpectedSeqNo, pc, packet, history>>

(***************************************************************************)
(* RTPSource::processNextPacket: one round of its loop.                    *)
(***************************************************************************)
TailKept(rest) == fTailPacket     \* mutant: the tail is not reset

\* releaseUsedPacket: the head leaves the queue, which is then rest.
TailOf(rest) == IF rest = <<>> THEN NULL ELSE fTailPacket

NextSeqNo(n) == seq(n + 1)

\* getNextCompletedPacket returns the head, which is handed out and released. If it
\* is not the one expected, its time has been exceeded (the clock decides).
Deliver ==
  /\ pc = "process" /\ queue # <<>>
  /\ LET p == Head(queue) IN
     /\ fNextExpectedSeqNo' = NextSeqNo(number[p])
     /\ expected' = number[p] + 1
     /\ pending' = pending \ {number[p]}
     /\ queue' = Tail(queue)
     /\ fTailPacket' = TailOf(Tail(queue))
     /\ live' = IF p = fSavedPacket THEN live ELSE live \ {p}
     /\ fSavedPacketFree' = (fSavedPacketFree \/ p = fSavedPacket)
  /\ UNCHANGED <<number, fSavedPacket, fHaveSeenFirstPacket, pc, packet>>

\* There is none, or the head is not the one expected and not due.
NoneCompleted ==
  /\ pc = "process"
  /\ queue # <<>> => At(1) # fNextExpectedSeqNo
  /\ pc' = "idle"
  /\ UNCHANGED <<queue, fTailPacket, number, pool, fHaveSeenFirstPacket, fNextExpectedSeqNo,
                 packet, history>>

(***************************************************************************)
(* ~RTPSource: reset() once from stopNetworkReading and once from the      *)
(* destructor of the buffer; the event thread has been joined.             *)
(***************************************************************************)
reset(from, to) ==
  /\ pc = from /\ pc' = to
  /\ live' = (live \ Queued) \ (IF fSavedPacketFree THEN {fSavedPacket} ELSE {})
  /\ fSavedPacket' = IF fSavedPacketFree THEN NULL ELSE fSavedPacket
  /\ fSavedPacketFree' = FALSE
  /\ fHaveSeenFirstPacket' = FALSE
  /\ queue' = <<>> /\ fTailPacket' = NULL
  /\ UNCHANGED <<number, fNextExpectedSeqNo, packet, history>>

Next ==
  \/ \E p \in Packets, saved \in Packets :
       \/ \E n \in Numbers : Receive(n, p, saved)
       \/ OtherPayload(p, saved) \/ Invalid(p, saved)
  \/ Store \/ Refuse \/ Deliver \/ NoneCompleted
  \/ reset("idle", "reset") \/ reset("reset", "gone")

Spec == Init /\ [][Next]_vars

-----------------------------------------------------------------------------
\* Types of the variables.
TypeOK ==
  /\ queue \in Seq(Packets) /\ fTailPacket \in Packets \cup {NULL}
  /\ number \in [Packets -> Numbers \cup {0}]
  /\ live \subseteq Packets
  /\ fSavedPacket \in Packets \cup {NULL} /\ fSavedPacketFree \in BOOLEAN
  /\ fHaveSeenFirstPacket \in BOOLEAN /\ fNextExpectedSeqNo \in SeqNums
  /\ pc \in {"idle", "store", "process", "reset", "gone"} /\ packet \in Packets \cup {NULL}
  /\ expected \in 0 .. MaxNumber + 1
  /\ pending \subseteq Numbers

\* Every object is owned once: it is in the queue, or it is the saved packet and
\* free; the saved packet is never handed out while it is queued (getFreePacket,
\* freePacket), and nothing is left when the buffer is gone.
PacketsOwned ==
  /\ \A i, j \in DOMAIN queue : queue[i] = queue[j] => i = j
  /\ fSavedPacketFree => fSavedPacket \notin Queued
  /\ packet \notin Queued /\ (packet # NULL => ~(fSavedPacketFree /\ packet = fSavedPacket))
  /\ live = Queued \cup ({packet} \ {NULL}) \cup (IF fSavedPacketFree THEN {fSavedPacket} \ {NULL} ELSE {})

\* What storePacket took is still queued or has gone out, until the stream ends.
StoredIsKept ==
  pc \in {"idle", "store", "process"} => pending = QueuedNumbers

\* "Ignore this packet if its sequence number is less than the one that we're looking
\* for" and "this is a duplicate packet - ignore it": storePacket refuses nothing
\* else.
RefusedRightly ==
  pc = "store" /\ Refused(seq(number[packet])) =>
    number[packet] \in QueuedNumbers \/ number[packet] < expected

\* fTailPacket is the last packet of the queue.
TailIsLast == fTailPacket = IF queue = <<>> THEN NULL ELSE queue[Len(queue)]

\* "ASSERT: fHeadPacket->rtpSeqNo() >= fNextExpectedSeqNo" (getNextCompletedPacket).
HeadNotBehind == queue # <<>> => ~seqNumLT(At(1), fNextExpectedSeqNo)

\* The buffer implements InOrderDelivery: however the packets came, and while their
\* numbers wrap around, they go out in the sender's order, none of them twice.
Abstract == INSTANCE InOrderDelivery WITH buffered <- QueuedNumbers
DeliversInOrder == Abstract!Spec
=============================================================================
