---------------------------- MODULE ReceptionProofs ----------------------------
(***************************************************************************)
(* How a client receives.  RTPSource and ReceptionStats: for any stream    *)
(* that is well formed, any range of sequence numbers and any size of the  *)
(* frame buffer, the loss a report gives is the loss there was, and frames *)
(* are cut and put together rightly.  TaskScheduler, the loop that calls   *)
(* the read handlers: for any sockets, event threads and numbers of calls, *)
(* no handler runs that has been turned off, nor any once the loop is      *)
(* stopped.  The two share no variable; each theorem is about one of them. *)
(***************************************************************************)
EXTENDS RTPSource, TaskScheduler, SequenceTheorems, FiniteSetTheorems, TLAPS

LEMMA StatsConstants ==
  /\ MaxNumber \in Nat /\ Half \in Nat /\ Half > 0 /\ Reach \in Nat /\ Reach < Half /\ MaxExtra \in Nat
BY StatsAssumption

-----------------------------------------------------------------------------
(***************************************************************************)
(* Sequence numbers: the low bits of numbers that are near each other.     *)
(***************************************************************************)
LEMMA DivMod ==
  ASSUME NEW n \in Int, NEW m \in Nat, m > 0
  PROVE  n = m * (n \div m) + (n % m) /\ n \div m \in Int /\ n % m \in 0 .. m - 1
<1>1. n = m * (n \div m) + (n % m)  OBVIOUS
<1>2. n \div m \in Int  OBVIOUS
<1>3. n % m \in 0 .. m - 1  OBVIOUS
<1> QED  BY <1>1, <1>2, <1>3

LEMMA Division ==
  ASSUME NEW n \in Int
  PROVE  \E q \in Int : n = 2 * Half * q + seq(n) /\ seq(n) \in SeqNums
<1> DEFINE m == 2 * Half
<1>1. m \in Nat /\ m > 0  BY StatsConstants
<1> HIDE DEF m
<1>2. n = m * (n \div m) + (n % m) /\ n \div m \in Int /\ n % m \in 0 .. m - 1  BY <1>1, DivMod
<1>3. PICK q \in Int : n = m * q + (n % m)  BY <1>2
<1>4. n % m = seq(n) /\ SeqNums = 0 .. m - 1  BY DEF m, seq, SeqNums
<1>5. n = 2 * Half * q + seq(n) /\ seq(n) \in SeqNums  BY <1>2, <1>3, <1>4 DEF m
<1> QED  BY <1>5

\* Numbers less than a whole range apart: their low bits are as far apart, up to one range.
LEMMA Apart ==
  ASSUME NEW a \in Int, NEW b \in Int, a <= b, b - a < 2 * Half
  PROVE  seq(b) - seq(a) \in {b - a, b - a - 2 * Half}
<1>1. PICK p \in Int : a = 2 * Half * p + seq(a) /\ seq(a) \in SeqNums  BY Division
<1>2. PICK q \in Int : b = 2 * Half * q + seq(b) /\ seq(b) \in SeqNums  BY Division
<1> DEFINE m == 2 * Half
           k == q - p
<1>3. m \in Nat /\ m > 0 /\ k \in Int /\ 2 * Half = m  BY StatsConstants
<1>4. m * q - m * p = m * k  BY <1>3
<1>5. seq(a) \in 0 .. m - 1 /\ seq(b) \in 0 .. m - 1  BY <1>1, <1>2, <1>3 DEF SeqNums
<1>5a. a = m * p + seq(a) /\ b = m * q + seq(b)  BY <1>1, <1>2
<1>5b. b - a >= 0 /\ b - a < m  OBVIOUS
<1> HIDE DEF m, k
<1>5c. m * p \in Int /\ m * q \in Int /\ m * k \in Int  BY <1>3
<1>6. b - a = m * k + (seq(b) - seq(a))  BY <1>4, <1>5, <1>5a, <1>5c
<1>7. k >= 2 => m * k >= 2 * m  BY <1>3
<1>8. k <= -1 => m * k <= -m  BY <1>3
<1>9. k \in {0, 1}  BY <1>3, <1>5, <1>5b, <1>6, <1>7, <1>8
<1>10. m * 0 = 0 /\ m * 1 = m  BY <1>3
<1>11. seq(b) - seq(a) \in {b - a, b - a - m}  BY <1>3, <1>5, <1>6, <1>9, <1>10
<1> QED  BY <1>3, <1>11

\* The low bits do not change when whole ranges are added.
LEMMA SameBits ==
  ASSUME NEW a \in Int, NEW b \in Int, NEW q \in Int, b = a + 2 * Half * q
  PROVE  seq(b) = seq(a)
<1>1. PICK u \in Int : a = 2 * Half * u + seq(a) /\ seq(a) \in SeqNums  BY Division
<1>2. PICK v \in Int : b = 2 * Half * v + seq(b) /\ seq(b) \in SeqNums  BY Division
<1> DEFINE m == 2 * Half
           k == v - u - q
<1>3. m \in Nat /\ m > 0 /\ k \in Int /\ 2 * Half = m  BY StatsConstants
<1>4. m * v - m * u - m * q = m * k  BY <1>3
<1>5. seq(a) \in 0 .. m - 1 /\ seq(b) \in 0 .. m - 1  BY <1>1, <1>2, <1>3 DEF SeqNums
<1>5a. a = m * u + seq(a) /\ b = m * v + seq(b) /\ b = a + m * q  BY <1>1, <1>2
<1> HIDE DEF m, k
<1>5b. m * u \in Int /\ m * v \in Int /\ m * q \in Int /\ m * k \in Int  BY <1>3
<1>6. m * k + (seq(b) - seq(a)) = 0  BY <1>4, <1>5, <1>5a, <1>5b
<1>7. k >= 1 => m * k >= m  BY <1>3
<1>8. k <= -1 => m * k <= -m  BY <1>3
<1>9. k = 0  BY <1>3, <1>5, <1>6, <1>7, <1>8
<1>10. m * k = 0  BY <1>3, <1>9
<1>11. seq(a) \in Int /\ seq(b) \in Int  BY <1>3, <1>5
<1>12. seq(b) - seq(a) = 0  BY <1>6, <1>10, <1>11
<1> QED  BY <1>11, <1>12

\* The highest extended number stays as far from the sender's as it was at the start.
LEMMA RaisedFollows ==
  ASSUME NEW t \in Int, NEW n \in Int, NEW h \in Int, NEW q \in Int,
         h = t + 2 * Half * q, n - t < Half, t - n < Half
  PROVE  Raised(h, seq(n)) = (IF n > t THEN n ELSE t) + 2 * Half * q
<1> DEFINE m == 2 * Half
           c == m * q
<1>0. m \in Nat /\ m > 0 /\ c \in Int /\ Half \in Nat /\ Half > 0 /\ m = Half + Half
  BY StatsConstants
<1>1. seq(h) = seq(t)  BY SameBits
<1>2. seq(t) \in 0 .. m - 1 /\ seq(n) \in 0 .. m - 1  BY Division DEF SeqNums
<1>3. h = t + c  OBVIOUS
<1>4. CASE n > t
  <2>1. seq(n) - seq(t) \in {n - t, n - t - m}  BY <1>0, <1>4, Apart
  <2>2. seqNumLT(seq(t), seq(n))
    <3> HIDE DEF m, c
    <3> QED  BY <1>0, <1>2, <1>4, <2>1 DEF seqNumLT
  <2>3. h - seq(t) + (IF seq(n) < seq(t) THEN m ELSE 0) + seq(n) = n + c
    <3>1. h \in Int /\ t \in Int /\ n \in Int  OBVIOUS
    <3> HIDE DEF m, c
    <3>2. CASE seq(n) - seq(t) = n - t
      <4>1. ~(seq(n) < seq(t))  BY <1>2, <1>0, <1>4, <3>1, <3>2
      <4> QED  BY <1>0, <1>2, <1>3, <3>1, <3>2, <4>1
    <3>3. CASE seq(n) - seq(t) = n - t - m
      <4>1. seq(n) < seq(t)  BY <1>2, <1>0, <1>4, <3>1, <3>3
      <4> QED  BY <1>0, <1>2, <1>3, <3>1, <3>3, <4>1
    <3> QED  BY <2>1, <3>2, <3>3
  <2>4. n + c > h  BY <1>0, <1>3, <1>4
  <2>5. Raised(h, seq(n)) = n + c  BY <1>1, <2>2, <2>3, <2>4 DEF Raised
  <2> QED  BY <1>4, <2>5
<1>5. CASE n <= t
  <2>1. seq(t) - seq(n) \in {t - n, t - n - m}  BY <1>0, <1>5, Apart
  <2>2. ~seqNumLT(seq(t), seq(n))
    <3> HIDE DEF m, c
    <3> QED  BY <1>0, <1>2, <1>5, <2>1 DEF seqNumLT
  <2>3. Raised(h, seq(n)) = h  BY <1>1, <2>2 DEF Raised
  <2> QED  BY <1>3, <1>5, <2>3
<1> QED  BY <1>4, <1>5

-----------------------------------------------------------------------------
(***************************************************************************)
(* What is counted.  The extended highest number is the sender's, moved by *)
(* a multiple of the range: by as much as the first number was.            *)
(***************************************************************************)
StatsType ==
  /\ present \in BOOLEAN /\ fHaveSeenInitialSequenceNumber \in BOOLEAN /\ reportFirst \in BOOLEAN
  /\ fBaseExtSeqNumReceived \in Int /\ fHighestExtSeqNumReceived \in Int
  /\ fTotNumPacketsReceived \in Nat /\ fNumPacketsReceivedSinceLastReset \in Nat
  /\ fLastResetExtSeqNumReceived \in Int /\ intervals \in Int
  /\ first \in Nat /\ top \in Nat /\ extra \in Nat
  /\ got \in SUBSET Nat /\ IsFiniteSet(got)

\* Nothing is counted before the first packet, and the record is made by what comes first.
NothingYet ==
  /\ ~fHaveSeenInitialSequenceNumber /\ got = {} /\ extra = 0 /\ top = 0 /\ intervals = 0
  /\ fTotNumPacketsReceived = 0 /\ fNumPacketsReceivedSinceLastReset = 0
  /\ present => reportFirst

Counted ==
  /\ present /\ fHaveSeenInitialSequenceNumber
  /\ top >= first
  /\ \E q \in Int : seq(first) = first + 2 * Half * q /\ fHighestExtSeqNumReceived = top + 2 * Half * q
  /\ fBaseExtSeqNumReceived = seq(first) - 1
  /\ fTotNumPacketsReceived = Cardinality(got) + extra
  /\ ~reportFirst => intervals + numLostSinceLastReset = totNumLost - 1

StatsInv ==
  /\ StatsType
  /\ first = 0 => NothingYet
  /\ first > 0 => Counted

LEMMA StatsInitInv == StatsInit => StatsInv
<1> SUFFICES ASSUME StatsInit PROVE StatsInv  OBVIOUS
<1>1. IsFiniteSet({})  BY FS_EmptySet
<1>2. got \in SUBSET Nat /\ IsFiniteSet(got)
  <2>1. got = {}  BY DEF StatsInit
  <2> QED  BY <1>1, <2>1
<1>3. StatsType
  <2>1. /\ present \in BOOLEAN /\ fHaveSeenInitialSequenceNumber \in BOOLEAN /\ reportFirst \in BOOLEAN
    BY Zenon DEF StatsInit
  <2>2. /\ fBaseExtSeqNumReceived \in Int /\ fHighestExtSeqNumReceived \in Int
        /\ fTotNumPacketsReceived \in Nat /\ fNumPacketsReceivedSinceLastReset \in Nat
        /\ fLastResetExtSeqNumReceived \in Int /\ intervals \in Int
        /\ first \in Nat /\ top \in Nat /\ extra \in Nat
    BY DEF StatsInit
  <2> QED  BY <1>2, <2>1, <2>2 DEF StatsType
<1>4. first = 0 /\ NothingYet  BY DEF StatsInit, NothingYet
<1> QED  BY <1>3, <1>4 DEF StatsInv

LEMMA CountedInv ==
  ASSUME StatsInv, NEW n \in Numbers, noteIncomingPacket(n)
  PROVE  StatsInv'
<1>0. n \in Nat /\ n > 0  BY StatsConstants DEF Numbers
<1>1. StatsType  BY DEF StatsInv
<1>2. seq(n) \in Int  BY <1>0, Division DEF SeqNums
<1>3. counts(seq(n)) /\ MayCome(n) /\ UNCHANGED <<intervals, reportFirst>>
  BY DEF noteIncomingPacket
<1>4. /\ first' = (IF first = 0 THEN n ELSE first)
      /\ top' = Higher(n)
      /\ got' = (IF IsExtra(n) THEN got ELSE got \cup {n})
      /\ extra' = (IF IsExtra(n) THEN extra + 1 ELSE extra)
  BY DEF noteIncomingPacket
<1>5. IsFiniteSet(got') /\ got' \in SUBSET Nat  BY <1>0, <1>1, <1>4, FS_AddElement DEF StatsType
<1>6. /\ fTotNumPacketsReceived' = fTotNumPacketsReceived + 1
      /\ fNumPacketsReceivedSinceLastReset' = fNumPacketsReceivedSinceLastReset + 1
      /\ present' = TRUE /\ fHaveSeenInitialSequenceNumber' = TRUE
  BY <1>3 DEF counts
<1>7. Cardinality(got') + extra' = Cardinality(got) + extra + 1
  <2>1. Cardinality(got) \in Nat  BY <1>1, FS_CardinalityType DEF StatsType
  <2>2. CASE IsExtra(n)  BY <1>1, <1>4, <2>1, <2>2 DEF StatsType
  <2>3. CASE ~IsExtra(n)
    <3>1. n \notin got
      <4>1. CASE first = 0  BY <4>1 DEF StatsInv, NothingYet
      <4>2. CASE first # 0  BY <1>1, <2>3, <4>2 DEF IsExtra, StatsType
      <4> QED  BY <4>1, <4>2
    <3>2. Cardinality(got') = Cardinality(got) + 1
      BY <1>1, <1>4, <2>3, <3>1, FS_AddElement DEF StatsType
    <3> QED  BY <1>1, <1>4, <2>1, <2>3, <3>2 DEF StatsType
  <2> QED  BY <2>2, <2>3
<1>8. first' \in Nat /\ first' > 0 /\ top' \in Nat /\ extra' \in Nat
  BY <1>0, <1>1, <1>4 DEF Higher, StatsType
<1>9. CASE first = 0
  <2>1. NothingYet /\ Starting  BY <1>9 DEF StatsInv, NothingYet, Starting
  <2>2. /\ fBaseExtSeqNumReceived' = seq(n) - 1 /\ fHighestExtSeqNumReceived' = seq(n)
        /\ fLastResetExtSeqNumReceived' = (IF present THEN fLastResetExtSeqNumReceived ELSE seq(n))
    BY <1>3, <2>1 DEF counts, BaseBefore
  <2>3. first' = n /\ top' = n  BY <1>0, <1>4, <1>9, <2>1 DEF Higher, NothingYet
  <2>4. StatsType'  BY <1>1, <1>2, <1>3, <1>5, <1>6, <1>8, <2>2 DEF StatsType
  <2>5. \E q \in Int : seq(n) = n + 2 * Half * q
    <3>1. PICK p \in Int : n = 2 * Half * p + seq(n)  BY <1>0, Division
    <3>2. -p \in Int /\ 2 * Half * p \in Int /\ 2 * Half * (-p) = -(2 * Half * p)  BY StatsConstants
    <3>3. seq(n) = n + 2 * Half * (-p)  BY <1>0, <1>2, <3>1, <3>2
    <3> QED  BY <3>2, <3>3
  <2>6. fTotNumPacketsReceived' = Cardinality(got') + extra'
    <3>1. fTotNumPacketsReceived = 0 /\ got = {} /\ extra = 0  BY <2>1 DEF NothingYet
    <3> QED  BY <1>6, <1>7, <3>1, FS_EmptySet
  <2>7. ~reportFirst' => (intervals + numLostSinceLastReset = totNumLost - 1)'
    <3>1. SUFFICES ASSUME ~reportFirst'
                   PROVE  (intervals + numLostSinceLastReset = totNumLost - 1)'
      OBVIOUS
    <3>2. fLastResetExtSeqNumReceived' = seq(n)  BY <1>3, <2>1, <2>2, <3>1 DEF NothingYet
    <3>3. intervals' = 0 /\ fNumPacketsReceivedSinceLastReset' = 1 /\ fTotNumPacketsReceived' = 1
      BY <1>3, <1>6, <2>1 DEF NothingYet
    <3> QED  BY <1>2, <2>2, <3>2, <3>3 DEF numLostSinceLastReset, totNumLost
  <2>8. Counted'
    <3>1. \E q \in Int : seq(first') = first' + 2 * Half * q
                          /\ fHighestExtSeqNumReceived' = top' + 2 * Half * q
      BY <2>2, <2>3, <2>5
    <3>2. top' >= first'  BY <1>0, <2>3
    <3> QED  BY <1>6, <2>2, <2>3, <2>6, <2>7, <3>1, <3>2 DEF Counted, seq
  <2> QED  BY <1>8, <2>4, <2>8 DEF StatsInv
<1>10. CASE first # 0
  <2>1. Counted /\ ~Starting  BY <1>1, <1>10 DEF StatsInv, StatsType, Counted, Starting
  <2>2. PICK q \in Int : seq(first) = first + 2 * Half * q
                         /\ fHighestExtSeqNumReceived = top + 2 * Half * q
    BY <2>1 DEF Counted
  <2>3. n - top < Half /\ top - n < Half
    BY <1>0, <1>1, <1>3, <1>10, StatsConstants DEF MayCome, StatsType
  <2>4. fHighestExtSeqNumReceived' = Raised(fHighestExtSeqNumReceived, seq(n))
    BY <1>3, <2>1 DEF counts
  <2>5. fHighestExtSeqNumReceived' = top' + 2 * Half * q
    BY <1>0, <1>1, <1>4, <2>2, <2>3, <2>4, RaisedFollows DEF Higher, StatsType
  <2>6. /\ first' = first /\ fBaseExtSeqNumReceived' = fBaseExtSeqNumReceived
        /\ fLastResetExtSeqNumReceived' = fLastResetExtSeqNumReceived
    BY <1>3, <1>4, <1>10, <2>1 DEF counts, Counted
  <2>7. fHighestExtSeqNumReceived' \in Int  BY <1>8, <2>5, StatsConstants
  <2>8. StatsType'  BY <1>1, <1>3, <1>5, <1>6, <1>8, <2>6, <2>7 DEF StatsType
  <2>9. top' >= first'  BY <1>0, <1>1, <1>4, <2>1, <2>6 DEF Higher, Counted, StatsType
  <2>10. fTotNumPacketsReceived' = Cardinality(got') + extra'  BY <1>6, <1>7, <2>1 DEF Counted
  <2>11. ~reportFirst' => (intervals + numLostSinceLastReset = totNumLost - 1)'
    <3>1. SUFFICES ASSUME ~reportFirst'
                   PROVE  (intervals + numLostSinceLastReset = totNumLost - 1)'
      OBVIOUS
    <3>2. intervals + numLostSinceLastReset = totNumLost - 1 /\ intervals' = intervals
      BY <1>3, <2>1, <3>1 DEF Counted
    <3> QED  BY <1>1, <1>6, <2>6, <2>7, <3>2 DEF numLostSinceLastReset, totNumLost, StatsType
  <2>12. Counted'
    BY <1>6, <2>1, <2>2, <2>5, <2>6, <2>9, <2>10, <2>11 DEF Counted, seq
  <2> QED  BY <1>8, <2>8, <2>12 DEF StatsInv
<1> QED  BY <1>9, <1>10

LEMMA SenderReportInv == StatsInv /\ noteIncomingSR => StatsInv'
<1> SUFFICES ASSUME StatsInv, noteIncomingSR PROVE StatsInv'  OBVIOUS
<1>1. first = 0
  <2>1. ~present  BY DEF noteIncomingSR
  <2> QED  BY <2>1 DEF StatsInv, StatsType, Counted
<1>2. StatsType'
  BY StatsConstants DEF StatsInv, StatsType, noteIncomingSR, counters, statsHistory, SeqNums
<1>3. first' = 0 /\ NothingYet'
  BY <1>1 DEF StatsInv, NothingYet, noteIncomingSR, counters, statsHistory
<1> QED  BY <1>2, <1>3 DEF StatsInv

LEMMA ReportInv == StatsInv /\ enqueueReportBlock => StatsInv'
<1> SUFFICES ASSUME StatsInv, enqueueReportBlock PROVE StatsInv'  OBVIOUS
<1> USE DEF enqueueReportBlock, counters, statsHistory
<1>1. first # 0  BY DEF StatsInv, NothingYet, StatsType
<1>2. StatsType'  BY DEF StatsInv, StatsType, numLostSinceLastReset
<1>3. Counted  BY <1>1 DEF StatsInv, StatsType
<1>4. (~reportFirst => intervals + numLostSinceLastReset = totNumLost - 1)'
  BY <1>3 DEF Counted, StatsInv, StatsType, numLostSinceLastReset, totNumLost
<1>5. Counted'  BY <1>3, <1>4 DEF Counted, seq
<1> QED  BY <1>1, <1>2, <1>5 DEF StatsInv

LEMMA SameStats == StatsInv /\ UNCHANGED statsVars => StatsInv'
BY DEF StatsInv, StatsType, NothingYet, Counted, seq, numLostSinceLastReset, totNumLost,
       statsVars, counters, interval, statsHistory

LEMMA StatsStep == StatsInv /\ [Next]_vars => StatsInv'
<1> SUFFICES ASSUME StatsInv, [Next]_vars PROVE StatsInv'  OBVIOUS
<1>1. ASSUME NEW n \in Numbers, Receive(n) PROVE StatsInv'  BY <1>1, CountedInv DEF Receive
<1>2. ASSUME NEW n \in Numbers, Process(n) PROVE StatsInv'  BY <1>2, SameStats DEF Process
<1>3. CASE NoneCompleted  BY <1>3, SameStats DEF NoneCompleted
<1>4. CASE SenderReport  BY <1>4, SenderReportInv DEF SenderReport
<1>5. CASE Report  BY <1>5, ReportInv DEF Report
<1>6. CASE UNCHANGED vars  BY <1>6, SameStats DEF vars
<1> QED  BY <1>1, <1>2, <1>3, <1>4, <1>5, <1>6 DEF Next

LEMMA LossFollows == StatsInv => LossReported
<1> SUFFICES ASSUME StatsInv PROVE LossReported  OBVIOUS
<1>1. CASE first = 0  BY <1>1 DEF LossReported, LossIsTrue, IntervalsAddUp
<1>2. CASE first # 0
  <2>1. StatsType /\ Counted  BY <1>2 DEF StatsInv, StatsType
  <2>2. PICK q \in Int : seq(first) = first + 2 * Half * q
                         /\ fHighestExtSeqNumReceived = top + 2 * Half * q
    BY <2>1 DEF Counted
  <2>3. 2 * Half * q \in Int  BY StatsConstants
  <2>4. Cardinality(got) \in Nat  BY <2>1, FS_CardinalityType DEF StatsType
  <2>5. totNumLost = top - first + 1 - Cardinality(got) - extra
    BY <2>1, <2>2, <2>3, <2>4 DEF Counted, totNumLost, StatsType
  <2> QED  BY <2>1, <2>5 DEF LossReported, LossIsTrue, IntervalsAddUp, Counted
<1> QED  BY <1>1, <1>2

\* What the reports say of the loss is so, however often the 16 bits of the sequence numbers wrap
\* around and whatever comes late or twice (RTPReceptionStats, enqueueReportBlock).
THEOREM Losses == Spec => []LossReported
<1>1. Init => StatsInv  BY StatsInitInv DEF Init
<1>2. StatsInv /\ [Next]_vars => StatsInv'  BY StatsStep
<1>3. StatsInv => LossReported  BY LossFollows
<1> QED  BY <1>1, <1>2, <1>3, PTL DEF Spec

-----------------------------------------------------------------------------
(***************************************************************************)
(* The order in which packets are processed.                               *)
(***************************************************************************)
OrderInv ==
  /\ stream \in Streams
  /\ expected \in Nat /\ processed \in Nat /\ runStart \in Nat
  /\ buffered \subseteq Sent /\ \A k \in buffered : k >= expected
  /\ arrived \in Sent \cup {0}
  /\ processed > 0 => processed \in Sent /\ expected = processed + 1 /\ runStart > 0
  /\ expected = 0 => buffered = {} /\ processed = 0

LEMMA StreamTypes ==
  ASSUME stream \in Streams
  PROVE  /\ Sent = 1 .. Len(stream.packets) /\ Len(stream.packets) \in Nat
         /\ Sent \subseteq Numbers /\ Sent \subseteq Nat \ {0}
         /\ \A n \in Sent : packet(n) \in Packets
         /\ stream.codec \in Codecs /\ stream.ext \in BOOLEAN
         /\ WellFormed(stream.codec, stream.packets)
<1> DEFINE p == stream.packets
<1>1. p \in Seq(Packets) /\ Len(p) <= MaxNumber /\ stream.codec \in Codecs /\ stream.ext \in BOOLEAN
      /\ WellFormed(stream.codec, p)
  BY StreamsAssumption
<1> HIDE DEF p
<1>2. Len(p) \in Nat /\ DOMAIN p = 1..Len(p) /\ \A n \in DOMAIN p : p[n] \in Packets
  BY <1>1, LenProperties, ElementOfSeq
<1>3. 1..Len(p) \subseteq Numbers /\ 1..Len(p) \subseteq Nat \ {0}  BY <1>1, <1>2, StatsConstants DEF Numbers
<1> QED  BY <1>1, <1>2, <1>3 DEF p, Sent, packet

\* What a step does to the order: a packet comes or it is processed, or neither.
LEMMA OrderStep == OrderInv /\ [Next]_vars => OrderInv'
<1> SUFFICES ASSUME OrderInv, [Next]_vars PROVE OrderInv'  OBVIOUS
<1>1. ASSUME NEW n \in Numbers, Receive(n) PROVE OrderInv'
  <2>1. n \in Sent /\ n \in Nat /\ n > 0  BY <1>1, StreamTypes DEF Receive, OrderInv
  <2>2. UNCHANGED <<stream, processed, runStart>> /\ arrived' = n
    BY <1>1 DEF Receive, processVars
  <2>3. \/ Buffer!Start(n) \/ Buffer!Accept(n) \/ UNCHANGED bufferVars
    BY <1>1 DEF Receive
  <2>4. CASE Buffer!Start(n)
    BY <2>1, <2>2, <2>4 DEF Buffer!Start, OrderInv, Sent
  <2>5. CASE Buffer!Accept(n)
    BY <2>1, <2>2, <2>5 DEF Buffer!Accept, OrderInv, Sent
  <2>6. CASE UNCHANGED bufferVars
    BY <2>1, <2>2, <2>6 DEF bufferVars, OrderInv, Sent
  <2> QED  BY <2>3, <2>4, <2>5, <2>6
<1>2. ASSUME NEW n \in Numbers, Process(n) PROVE OrderInv'
  <2>1. n \in buffered /\ (\A k \in buffered : n <= k) /\ expected' = n + 1 /\ buffered' = buffered \ {n}
    BY <1>2 DEF Process, Buffer!Release
  <2>2. n \in Sent /\ n \in Nat /\ n > 0  BY <2>1, StreamTypes DEF OrderInv
  <2>3. /\ processed' = n /\ UNCHANGED <<stream, arrived>>
        /\ runStart' = IF n = processed + 1 /\ runStart > 0 THEN runStart ELSE n
    BY <1>2 DEF Process
  <2>4. \A k \in buffered' : k \in Nat /\ k >= n + 1
    BY <2>1, <2>2, StreamTypes DEF OrderInv
  <2> QED  BY <2>1, <2>2, <2>3, <2>4 DEF OrderInv, Sent
<1>3. CASE NoneCompleted  BY <1>3 DEF NoneCompleted, OrderInv, Sent, bufferVars, processVars
<1>4. CASE SenderReport  BY <1>4 DEF SenderReport, OrderInv, Sent, bufferVars, processVars
<1>5. CASE Report  BY <1>5 DEF Report, OrderInv, Sent, bufferVars, processVars
<1>6. CASE UNCHANGED vars  BY <1>6 DEF vars, OrderInv, Sent, bufferVars, processVars
<1> QED  BY <1>1, <1>2, <1>3, <1>4, <1>5, <1>6 DEF Next

LEMMA OrderInit == Init => OrderInv
BY DEF Init, OrderInv, Sent, Buffer!Init

\* The packet that is processed comes after the one before.
LEMMA Processes ==
  ASSUME OrderInv, NEW n \in Numbers, Process(n)
  PROVE  n \in Sent /\ n \in Nat /\ n > processed /\ processed' = n /\ packet(n) \in Packets
         /\ UNCHANGED <<stream, inSequence, fLastTimestamp, arrived>>
<1>1. n \in buffered /\ n \in Sent /\ n >= expected  BY DEF Process, Buffer!Release, OrderInv
<1>2. n \in Nat /\ n > 0 /\ packet(n) \in Packets  BY <1>1, StreamTypes DEF OrderInv
<1> QED  BY <1>1, <1>2 DEF OrderInv, Process

-----------------------------------------------------------------------------
(***************************************************************************)
(* What processFrame does, whatever the codec: the packet is added to the  *)
(* buffer or not, and the buffer is delivered or not.  A packet that       *)
(* stays in the buffer does not end its timestamp.                         *)
(***************************************************************************)
Goes(n) ==
  LET buf == Before(n)
      with == copyToFrameBuffer(buf, Piece(n))
  IN \/ Result(n) = Kept(buf)
     \/ Result(n) = Delivered(buf)
     \/ Result(n) = Delivered(with)
     \/ Result(n) = Separately(n, buf)
     \/ /\ Result(n) = Kept(with)
        /\ \/ ~TimestampEnds(stream.codec, stream.packets, n)
           \/ stream.codec = "plain" /\ ~packet(n).marker /\ fLastTimestamp = packet(n).ts

LEMMA Handled ==
  ASSUME stream \in Streams, NEW n \in Sent
  PROVE  Goes(n)
<1> DEFINE codec == stream.codec
           buf == Before(n)
           with == copyToFrameBuffer(buf, Piece(n))
<1>1. codec \in Codecs /\ packet(n) \in Packets  BY StreamTypes
<1>2. CASE codec = "plain"
  <2>1. Result(n) = plain(n, buf)  BY <1>2 DEF Result
  <2> QED  BY <1>2, <2>1 DEF plain, Goes
<1>3. CASE codec \in {"H264", "H265"}
  <2>1. Result(n) = NAL(n, buf)  BY <1>3 DEF Result
  <2>2. TimestampEnds(codec, stream.packets, n) <=> packet(n).last /\ packet(n).kind # "param"
    BY <1>3 DEF TimestampEnds, packet
  <2> QED  BY <2>1, <2>2 DEF NAL, Goes
<1>4. CASE codec = "MPEG4ES"
  <2>1. Result(n) = MPEG4ES(n, buf)  BY <1>4 DEF Result
  <2>2. TimestampEnds(codec, stream.packets, n) <=> packet(n).marker  BY <1>4 DEF TimestampEnds, packet
  <2> QED  BY <2>1, <2>2 DEF MPEG4ES, Goes
<1>5. CASE codec = "MPEG4Generic"
  <2>1. Result(n) = MPEG4Generic(n, buf)  BY <1>5 DEF Result
  <2> QED  BY <2>1 DEF MPEG4Generic, Goes
<1>6. CASE codec = "JPEG"
  <2>1. Result(n) = JPEG(n, buf)  BY <1>6 DEF Result
  <2>2. TimestampEnds(codec, stream.packets, n) <=> packet(n).marker  BY <1>6 DEF TimestampEnds, packet
  <2> QED  BY <2>1, <2>2 DEF JPEG, Goes
<1>7. CASE codec = "AC3"
  <2>1. Result(n) = AC3(n, buf)  BY <1>7 DEF Result
  <2>2. TimestampEnds(codec, stream.packets, n) <=> packet(n).marker  BY <1>7 DEF TimestampEnds, packet
  <2> QED  BY <2>1, <2>2 DEF AC3, Goes
<1> QED  BY <1>1, <1>2, <1>3, <1>4, <1>5, <1>6, <1>7 DEF Codecs

-----------------------------------------------------------------------------
(***************************************************************************)
(* Frames.  A frame of packets up to m has its pieces in order, and two    *)
(* timestamps only where it may.                                           *)
(***************************************************************************)
Pieces == Nat \X {1, 2}

FrameOf(frame, m) ==
  /\ frame \in Seq(Pieces)
  /\ \A i \in DOMAIN frame : frame[i][1] <= m
  /\ Ascending(frame)
  /\ Unmixed(frame)

\* The last packet that is in the buffer is followed by one of its timestamp.
Continues(frame, m) ==
  frame # <<>> /\ frame[Len(frame)] # Configuration /\ frame[Len(frame)][1] = m /\ m + 1 \in Sent
    => packet(m).ts = packet(m + 1).ts \/ (stream.codec = "plain" /\ ~inSequence)

Fits(frame) == Len(frame) < FrameSize \/ Len(frame) = 1

\* What is in the buffer after the packet m.
BufferOf(frame, m) == FrameOf(frame, m) /\ Continues(frame, m) /\ Fits(frame)

LEMMA EmptyFrame ==
  ASSUME NEW m \in Nat
  PROVE  BufferOf(<<>>, m)
<1>1. <<>> \in Seq(Pieces) /\ Len(<<>>) = 0 /\ DOMAIN <<>> = {}  BY EmptySeq
<1>2. 0 < FrameSize  BY StreamsAssumption
<1> QED  BY <1>1, <1>2 DEF BufferOf, FrameOf, Ascending, Unmixed, Continues, Fits

LEMMA OnePiece ==
  ASSUME NEW x \in Pieces, NEW m \in Nat, x[1] <= m
  PROVE  FrameOf(<<x>>, m) /\ Fits(<<x>>) /\ <<x>>[Len(<<x>>)] = x /\ <<x>> # <<>>
<1>1. <<x>> \in Seq(Pieces) /\ Len(<<x>>) = 1 /\ DOMAIN <<x>> = {1} /\ <<x>>[1] = x  OBVIOUS
<1> QED  BY <1>1 DEF FrameOf, Ascending, Unmixed, Fits

LEMMA AddedPiece ==
  ASSUME stream \in Streams, NEW m \in Nat, NEW n \in Sent, n > m,
         NEW buf, FrameOf(buf, m), Continues(buf, m)
  PROVE  LET with == Append(buf, Piece(n)) IN
           FrameOf(with, n) /\ with[Len(with)] = Piece(n) /\ with # <<>>
<1> DEFINE with == Append(buf, Piece(n))
           k == Len(buf)
<1>0. n \in Nat /\ n > 0  BY StreamTypes
<1>1. Piece(n) \in Pieces /\ Piece(n)[1] = n  BY <1>0 DEF Piece, Pieces
<1>2. buf \in Seq(Pieces) /\ k \in Nat /\ DOMAIN buf = 1..k /\ \A i \in 1..k : buf[i] \in Pieces
  BY LenProperties, ElementOfSeq DEF FrameOf
<1>3. with \in Seq(Pieces) /\ Len(with) = k + 1 /\ with[k + 1] = Piece(n)
      /\ \A i \in 1..k : with[i] = buf[i]
  BY <1>1, <1>2, AppendProperties
<1> HIDE DEF with, k
<1>4. DOMAIN with = 1 .. k + 1 /\ with # <<>>  BY <1>2, <1>3, LenProperties, EmptySeq
<1>5. \A i \in 1..k : buf[i][1] \in Nat /\ buf[i][1] <= m  BY <1>2 DEF FrameOf, Pieces
<1>6. \A i \in DOMAIN with : with[i][1] <= n  BY <1>0, <1>1, <1>2, <1>3, <1>4, <1>5
<1>7. Ascending(with)
  <2> SUFFICES ASSUME NEW i \in 1 .. k + 1, NEW j \in 1 .. k + 1, i < j
               PROVE  Later(with[i], with[j])
    BY <1>4 DEF Ascending
  <2>1. i \in 1..k  BY <1>2
  <2>2. CASE j \in 1..k  BY <1>2, <1>3, <2>1, <2>2 DEF FrameOf, Ascending
  <2>3. CASE j = k + 1
    <3>1. with[i][1] < with[j][1]  BY <1>0, <1>1, <1>3, <1>5, <2>1, <2>3
    <3> QED  BY <3>1 DEF Later
  <2> QED  BY <1>2, <2>2, <2>3
<1>8. Unmixed(with)
  <2> SUFFICES ASSUME NEW i \in 2 .. k + 1,
                      with[i - 1] # Configuration,
                      packet(with[i - 1][1]).ts # packet(with[i][1]).ts
               PROVE  with[i][1] > with[i - 1][1] + 1 \/ (stream.codec = "plain" /\ ~inSequence)
    <3>1. DOMAIN with \ {1} = 2 .. k + 1  BY <1>2, <1>4
    <3> QED  BY <3>1 DEF Unmixed
  <2>1. i - 1 \in 1..k /\ with[i - 1] = buf[i - 1]  BY <1>2, <1>3
  <2>2. CASE i \in 1..k
    <3>1. with[i] = buf[i] /\ i \in DOMAIN buf \ {1}  BY <1>2, <1>3, <2>2
    <3> QED  BY <2>1, <3>1 DEF FrameOf, Unmixed
  <2>3. CASE i = k + 1
    <3>1. with[i][1] = n /\ with[i - 1] = buf[k] /\ buf # <<>>  BY <1>1, <1>2, <1>3, <2>1, <2>3, EmptySeq
    <3>2. buf[k][1] \in Nat /\ buf[k][1] <= m  BY <1>2, <1>5, <2>1, <2>3
    <3>3. CASE n = buf[k][1] + 1
      <4>1. buf[k][1] = m /\ m + 1 = n  BY <1>0, <3>2, <3>3
      <4> QED  BY <3>1, <4>1 DEF Continues, k
    <3>4. CASE n # buf[k][1] + 1  BY <1>0, <3>1, <3>2, <3>4
    <3> QED  BY <3>3, <3>4
  <2> QED  BY <1>2, <2>2, <2>3
<1>9. FrameOf(with, n)  BY <1>3, <1>6, <1>7, <1>8 DEF FrameOf
<1> QED  BY <1>3, <1>4, <1>9 DEF with

LEMMA Copied ==
  ASSUME stream \in Streams, NEW m \in Nat, NEW n \in Sent, n > m,
         NEW buf, BufferOf(buf, m)
  PROVE  LET with == copyToFrameBuffer(buf, Piece(n)) IN
           FrameOf(with, n) /\ Fits(with) /\ with[Len(with)] = Piece(n) /\ with # <<>>
<1>0. n \in Nat /\ n > 0  BY StreamTypes
<1>1. Piece(n) \in Pieces /\ Piece(n)[1] = n  BY <1>0 DEF Piece, Pieces
<1>2. CASE Overflows(buf)  BY <1>0, <1>1, <1>2, OnePiece DEF copyToFrameBuffer
<1>3. CASE ~Overflows(buf)
  <2>1. copyToFrameBuffer(buf, Piece(n)) = Append(buf, Piece(n))  BY <1>3 DEF copyToFrameBuffer
  <2>2. Len(Append(buf, Piece(n))) = Len(buf) + 1 /\ Len(buf) \in Nat
    BY <1>1, AppendProperties, LenProperties DEF BufferOf, FrameOf
  <2>3. Fits(Append(buf, Piece(n)))  BY <1>3, <2>2, StreamsAssumption DEF Fits, Overflows
  <2> QED  BY <2>1, <2>3, AddedPiece DEF BufferOf
<1> QED  BY <1>2, <1>3

LEMMA LaterFrame ==
  ASSUME NEW m \in Nat, NEW n \in Nat, n > m, NEW buf, BufferOf(buf, m)
  PROVE  BufferOf(buf, n)
<1>1. buf \in Seq(Pieces) /\ \A i \in DOMAIN buf : buf[i] \in Pieces  BY ElementOfSeq DEF BufferOf, FrameOf
<1>2. \A i \in DOMAIN buf : buf[i][1] \in Nat /\ buf[i][1] <= m  BY <1>1 DEF BufferOf, FrameOf, Pieces
<1>3. FrameOf(buf, n)  BY <1>2 DEF BufferOf, FrameOf
<1>4. buf # <<>> => Len(buf) \in DOMAIN buf  BY <1>1, LenProperties, EmptySeq
<1>5. Continues(buf, n)  BY <1>2, <1>4 DEF Continues
<1> QED  BY <1>3, <1>5 DEF BufferOf

-----------------------------------------------------------------------------
(***************************************************************************)
(* As long as packets come one after the other, each is processed before   *)
(* the next one comes, and uses the same packet object.                    *)
(***************************************************************************)
AtHand ==
  \/ buffered = {top} /\ expected = top /\ processed < top /\ saved = top
  \/ buffered = {} /\ expected = top + 1 /\ processed = top /\ saved = 0

InTurn ==
  /\ top \in Sent
  /\ AtHand
  /\ arrived = 0 => buffered = {} /\ fLastTimestamp = packet(top).ts
  /\ arrived # 0 =>
       arrived = top /\ (fLastTimestamp = 0 \/ (top > 1 /\ fLastTimestamp = packet(top - 1).ts))
  /\ savedExt = 0 \/ (stream.ext /\ savedExt = packet(top).ts)
  /\ ext[top] = savedExt
  /\ processed > 0 => MediaTime(processed) = packet(processed).ts

BeforeFirst == arrived = 0 /\ expected = 0 /\ saved = 0 /\ savedExt = 0 /\ fLastTimestamp = 0

SeqInv ==
  /\ ext \in [Numbers -> Nat]
  /\ savedExt \in Nat
  /\ inSequence /\ first = 0 => BeforeFirst
  /\ inSequence /\ first > 0 => InTurn

LEMMA SeqInit == Init => SeqInv
<1> SUFFICES ASSUME Init PROVE SeqInv  OBVIOUS
<1>1. ext \in [Numbers -> Nat] /\ savedExt \in Nat  BY DEF Init
<1>2. first = 0 /\ BeforeFirst  BY DEF Init, StatsInit, Buffer!Init, BeforeFirst
<1> QED  BY <1>1, <1>2 DEF SeqInv

LEMMA SeqReceive ==
  ASSUME StatsInv, OrderInv, SeqInv, NEW n \in Numbers, Receive(n)
  PROVE  SeqInv'
<1>0. n \in Sent /\ n \in Nat /\ n > 0 /\ stream' = stream  BY StreamTypes DEF Receive, OrderInv
<1>1. noteIncomingPacket(n) /\ arrived = 0 /\ arrived' = n /\ UNCHANGED <<fLastTimestamp, processed>>
      /\ inSequence' = (inSequence /\ (first = 0 \/ n = top + 1))
  BY DEF Receive, processVars
<1>2. first \in Nat /\ top \in Nat /\ (first = 0 => top = 0)  BY DEF StatsInv, StatsType, NothingYet
<1>3. first' > 0 /\ top' = (IF n > top THEN n ELSE top)
  BY <1>0, <1>1, <1>2 DEF noteIncomingPacket, Higher
<1> DEFINE object == Extension(n, IF saved = 0 THEN savedExt ELSE 0)
<1>4. /\ savedExt' = IF saved = 0 THEN object ELSE savedExt
      /\ \/ /\ Buffer!Start(n) \/ Buffer!Accept(n)
            /\ saved' = IF saved = 0 THEN n ELSE saved
            /\ ext' = [ext EXCEPT ![n] = object]
         \/ /\ expected > 0 /\ (n < expected \/ n \in buffered)
            /\ UNCHANGED <<bufferVars, saved, ext>>
  BY DEF Receive
<1>5. packet(n).ts \in Nat  BY <1>0, StreamTypes DEF OrderInv, Packets
<1>6. object \in Nat  BY <1>5 DEF Extension, SeqInv
<1>7. ext' \in [Numbers -> Nat] /\ savedExt' \in Nat
  BY <1>4, <1>6 DEF SeqInv
<1>8. ASSUME inSequence' PROVE InTurn'
  <2>1. inSequence /\ (first = 0 \/ n = top + 1)  BY <1>1, <1>8
  <2>2. top' = n /\ n > processed /\ buffered = {} /\ saved = 0
        /\ (first = 0 => expected = 0 /\ savedExt = 0 /\ fLastTimestamp = 0)
        /\ (first > 0 => InTurn /\ expected = top + 1 /\ n = expected)
    <3>1. CASE first = 0
      BY <1>0, <1>2, <1>3, <2>1, <3>1 DEF SeqInv, BeforeFirst, OrderInv
    <3>2. CASE first # 0
      <4>1. InTurn /\ n = top + 1  BY <1>2, <2>1, <3>2 DEF SeqInv
      <4>2. buffered = {}  BY <1>1, <4>1 DEF InTurn
      <4>3. expected = top + 1 /\ processed = top /\ saved = 0  BY <4>1, <4>2 DEF InTurn, AtHand
      <4> QED  BY <1>0, <1>2, <1>3, <3>2, <4>1, <4>2, <4>3
    <3> QED  BY <3>1, <3>2
  <2>3. /\ Buffer!Start(n) \/ Buffer!Accept(n)
        /\ saved' = n /\ ext' = [ext EXCEPT ![n] = object] /\ savedExt' = object
    <3>1. ~(expected > 0 /\ (n < expected \/ n \in buffered))
      BY <1>0, <1>2, <2>2
    <3> QED  BY <1>4, <2>2, <3>1
  <2>4. buffered' = {n} /\ expected' = n
    BY <1>0, <1>2, <2>2, <2>3 DEF Buffer!Start, Buffer!Accept
  <2>5. AtHand'  BY <1>1, <2>2, <2>3, <2>4 DEF AtHand
  <2>6. fLastTimestamp' = 0 \/ (n > 1 /\ fLastTimestamp' = packet(n - 1).ts)
    <3>1. CASE first = 0  BY <1>1, <2>2, <3>1
    <3>2. CASE first # 0
      <4>1. fLastTimestamp = packet(top).ts /\ n = top + 1 /\ top \in Sent
        BY <1>1, <1>2, <2>2, <3>2 DEF InTurn
      <4>2. top > 0 /\ n - 1 = top  BY <1>2, <4>1, StreamTypes DEF OrderInv
      <4> QED  BY <1>0, <1>1, <1>2, <4>1, <4>2
    <3> QED  BY <3>1, <3>2
  <2>7. object = 0 \/ (stream.ext /\ object = packet(n).ts)
    <3>1. object = IF HasExtension(n) THEN packet(n).ts ELSE savedExt
      BY <2>2 DEF Extension
    <3>2. CASE HasExtension(n)  BY <3>1, <3>2 DEF HasExtension
    <3>3. CASE ~HasExtension(n) /\ savedExt # 0
      <4>1. first # 0  BY <2>2, <3>3
      <4>2. stream.ext /\ savedExt = packet(top).ts /\ n = top + 1 /\ top \in Sent
        BY <1>2, <2>2, <3>3, <4>1 DEF InTurn
      <4>3. n # 1 /\ n - 1 = top  BY <1>2, <4>2, StreamTypes DEF OrderInv
      <4>4. packet(n - 1).ts = packet(n).ts  BY <3>3, <4>2, <4>3 DEF HasExtension
      <4> QED  BY <3>1, <3>3, <4>2, <4>3, <4>4
    <3> QED  BY <3>1, <3>2, <3>3
  <2>8. ext'[n] = object  BY <2>3 DEF SeqInv
  <2>9. processed > 0 => MediaTime(processed)' = packet(processed).ts
    <3>1. SUFFICES ASSUME processed > 0 PROVE MediaTime(processed)' = packet(processed).ts  OBVIOUS
    <3>2. first # 0  BY <2>2, <3>1 DEF OrderInv
    <3>3. MediaTime(processed) = packet(processed).ts  BY <1>2, <2>2, <3>1, <3>2 DEF InTurn
    <3>4. ext'[processed] = ext[processed]
      <4>1. processed \in Numbers /\ processed # n  BY <2>2, <3>1, StreamTypes DEF OrderInv
      <4> HIDE DEF object
      <4> QED  BY <2>3, <4>1 DEF SeqInv
    <3> QED  BY <1>0, <1>1, <3>3, <3>4 DEF MediaTime, packet
  <2>10. top' \in Sent'  BY <1>0, <2>2 DEF Sent
  <2> HIDE DEF object
  <2> QED
    BY <1>0, <1>1, <2>2, <2>3, <2>5, <2>6, <2>7, <2>8, <2>9, <2>10 DEF InTurn, packet, MediaTime
<1> QED  BY <1>3, <1>7, <1>8 DEF SeqInv

LEMMA SeqProcess ==
  ASSUME StatsInv, OrderInv, SeqInv, NEW n \in Numbers, Process(n)
  PROVE  SeqInv' /\ (inSequence => n = top /\ arrived = n)
<1>1. /\ n \in buffered /\ expected' = n + 1 /\ buffered' = buffered \ {n} /\ arrived > 0
      /\ processed' = n /\ saved' = IF saved = n THEN 0 ELSE saved
      /\ UNCHANGED <<statsVars, stream, arrived, fLastTimestamp, savedExt, ext, inSequence>>
  BY DEF Process, Buffer!Release
<1>2. UNCHANGED <<first, top>>  BY <1>1 DEF statsVars, statsHistory
<1>3. first \in Nat /\ n \in Nat  BY <1>1, StreamTypes DEF StatsInv, StatsType, OrderInv
<1>4. inSequence => first > 0  BY <1>1, <1>3 DEF SeqInv, BeforeFirst, OrderInv
<1>5. ASSUME inSequence PROVE InTurn' /\ n = top /\ arrived = n
  <2>1. InTurn  BY <1>4, <1>5 DEF SeqInv
  <2>2. n = top /\ buffered = {n} /\ saved = n  BY <1>1, <2>1 DEF InTurn, AtHand
  <2>3. AtHand'  BY <1>1, <1>2, <1>3, <2>2 DEF AtHand
  <2>4. arrived = n  BY <1>1, <2>1, <2>2 DEF InTurn
  <2>5. MediaTime(n) = packet(n).ts  BY <2>1, <2>2 DEF InTurn, MediaTime
  <2> QED  BY <1>1, <1>2, <2>1, <2>2, <2>3, <2>4, <2>5 DEF InTurn, MediaTime, packet, Sent
<1> QED  BY <1>1, <1>2, <1>4, <1>5 DEF SeqInv

LEMMA SeqStep == StatsInv /\ OrderInv /\ SeqInv /\ [Next]_vars => SeqInv'
<1> SUFFICES ASSUME StatsInv, OrderInv, SeqInv, [Next]_vars PROVE SeqInv'  OBVIOUS
<1>1. ASSUME NEW n \in Numbers, Receive(n) PROVE SeqInv'  BY <1>1, SeqReceive
<1>2. ASSUME NEW n \in Numbers, Process(n) PROVE SeqInv'  BY <1>2, SeqProcess
<1>3. CASE NoneCompleted
  <2>1. /\ arrived > 0 /\ expected \notin buffered
        /\ arrived' = 0 /\ fLastTimestamp' = packet(arrived).ts
        /\ UNCHANGED <<first, top, inSequence, buffered, expected, processed, saved, savedExt, ext, stream>>
    BY <1>3 DEF NoneCompleted, statsVars, statsHistory, bufferVars, objectVars, processVars
  <2>2. inSequence /\ first = 0 => BeforeFirst'
    BY <2>1 DEF SeqInv, BeforeFirst, OrderInv
  <2>3. ASSUME inSequence, first > 0 PROVE InTurn'
    <3>1. InTurn  BY <2>3 DEF SeqInv
    <3>2. buffered = {} /\ arrived = top  BY <2>1, <3>1 DEF InTurn, AtHand
    <3> QED  BY <2>1, <3>1, <3>2 DEF InTurn, AtHand, MediaTime, packet, Sent
  <2> QED  BY <2>1, <2>2, <2>3 DEF SeqInv
<1>4. CASE SenderReport \/ Report \/ UNCHANGED vars
  <2>1. UNCHANGED <<first, top, inSequence, buffered, expected, processed, saved, savedExt, ext, stream,
                    arrived, fLastTimestamp>>
    BY <1>4 DEF SenderReport, Report, vars, statsVars, noteIncomingSR, enqueueReportBlock, statsHistory,
                bufferVars, objectVars, processVars
  <2> QED  BY <2>1 DEF SeqInv, BeforeFirst, InTurn, AtHand, MediaTime, packet, Sent
<1> QED  BY <1>1, <1>2, <1>3, <1>4 DEF Next

-----------------------------------------------------------------------------
(***************************************************************************)
(* The frame buffer and the frames of the last packet.                     *)
(***************************************************************************)
OutOf(m) ==
  \/ out = <<>>
  \/ \E frame : out = <<frame>> /\ FrameOf(frame, m) /\ fFrameBuf = <<>>
  \/ \E frame : /\ out = <<frame, << <<m, 2>> >> >> /\ FrameOf(frame, m) /\ fFrameBuf = <<>>
                /\ frame # <<>> /\ frame[Len(frame)] = Piece(m)

\* Nothing is in the buffer before the configuration is.
Unbegun ==
  /\ stream.codec \in {"H264", "MPEG4ES"} /\ ~fIsStartFrame => fFrameBuf = <<>>
  /\ stream.codec = "MPEG4ES" /\ ~fIsStartFrame => ~fBeginFrame

FramesInv ==
  /\ BufferOf(fFrameBuf, processed)
  /\ OutOf(processed)
  /\ Unbegun
  /\ processed = 0 => out = <<>>

LEMMA StillFrame ==
  ASSUME NEW frame, NEW m, FrameOf(frame, m), stream' = stream, inSequence' => inSequence
  PROVE  FrameOf(frame, m)'
BY DEF FrameOf, Unmixed, packet

LEMMA StillBuffer ==
  ASSUME NEW frame, NEW m, BufferOf(frame, m), stream' = stream, inSequence' => inSequence
  PROVE  BufferOf(frame, m)'
BY StillFrame DEF BufferOf, Continues, Fits, packet, Sent

\* The buffer a packet finds: what was in it, or the configuration.
LEMMA Finds ==
  ASSUME OrderInv, FramesInv, NEW n \in Sent
  PROVE  /\ BufferOf(Before(n), processed)
         /\ StartsFrames(n) => fFrameBuf = <<>> /\ Before(n) = <<Configuration>>
         /\ ~StartsFrames(n) => Before(n) = fFrameBuf
<1>1. CASE ~StartsFrames(n)  BY <1>1 DEF Before, FramesInv
<1>2. CASE StartsFrames(n)
  <2>1. fFrameBuf = <<>>  BY <1>2 DEF StartsFrames, FramesInv, Unbegun
  <2>2. Configuration \in Pieces /\ Configuration[1] = 0 /\ Append(<<>>, Configuration) = <<Configuration>>
    BY DEF Configuration, Pieces
  <2>3. Before(n) = <<Configuration>>  BY <1>2, <2>1, <2>2 DEF Before, copyToFrameBuffer
  <2>4. processed \in Nat /\ 0 <= processed  BY DEF OrderInv
  <2>5. BufferOf(<<Configuration>>, processed)
    BY <2>2, <2>4, OnePiece DEF BufferOf, Continues
  <2> QED  BY <1>2, <2>1, <2>3, <2>5
<1> QED  BY <1>1, <1>2

LEMMA StaysContinued ==
  ASSUME StatsInv, OrderInv, SeqInv, NEW n \in Numbers, Process(n),
         \/ ~TimestampEnds(stream.codec, stream.packets, n)
         \/ stream.codec = "plain" /\ ~packet(n).marker /\ fLastTimestamp = packet(n).ts,
         n + 1 \in Sent
  PROVE  packet(n).ts = packet(n + 1).ts \/ (stream.codec = "plain" /\ ~inSequence)
<1>1. n \in Sent /\ n \in Nat /\ packet(n) \in Packets  BY Processes
<1>2. WellFormed(stream.codec, stream.packets)  BY StreamTypes DEF OrderInv
<1>3. CASE ~TimestampEnds(stream.codec, stream.packets, n)
  BY <1>1, <1>2, <1>3 DEF WellFormed, Sent, packet
<1>4. CASE stream.codec = "plain" /\ ~packet(n).marker /\ fLastTimestamp = packet(n).ts /\ inSequence
  <2>1. n = top /\ arrived = n  BY <1>4, SeqProcess
  <2>2. first > 0
    <3>1. first \in Nat /\ arrived # 0  BY <2>1, <1>1, StreamTypes DEF StatsInv, StatsType, OrderInv
    <3> QED  BY <1>4, <3>1 DEF SeqInv, BeforeFirst
  <2>3. InTurn /\ arrived # 0  BY <1>1, <1>4, <2>1, <2>2, StreamTypes DEF SeqInv, OrderInv
  <2>4. fLastTimestamp # 0  BY <1>1, <1>4 DEF Packets
  <2>5. n > 1 /\ packet(n - 1).ts = packet(n).ts  BY <1>4, <2>1, <2>3, <2>4 DEF InTurn
  <2>6. ~TimestampEnds(stream.codec, stream.packets, n)
    BY <1>4, <2>5 DEF TimestampEnds, packet
  <2> QED  BY <1>3, <2>6
<1> QED  BY <1>3, <1>4

LEMMA FramesProcess ==
  ASSUME StatsInv, OrderInv, SeqInv, FramesInv, NEW n \in Numbers, Process(n)
  PROVE  FramesInv'
<1>1. n \in Sent /\ n \in Nat /\ n > processed /\ processed' = n
      /\ UNCHANGED <<stream, inSequence, fLastTimestamp>> /\ processed \in Nat /\ stream \in Streams
  BY Processes DEF OrderInv
<1>2. fFrameBuf' = Result(n).buf /\ out' = Result(n).out
      /\ fIsStartFrame' = (fIsStartFrame \/ StartsFrames(n)) /\ fBeginFrame' = Begins(n)
  BY DEF Process, processFrame
<1>3. PICK buf : buf = Before(n)  OBVIOUS
<1>4. BufferOf(buf, processed)  BY <1>1, <1>3, Finds
<1>5. PICK with : with = copyToFrameBuffer(buf, Piece(n))  OBVIOUS
<1>6. FrameOf(with, n) /\ Fits(with) /\ with[Len(with)] = Piece(n) /\ with # <<>>
  BY <1>1, <1>4, <1>5, Copied
<1>7. \/ fFrameBuf' = buf /\ out' = <<>>
      \/ fFrameBuf' = <<>> /\ out' = <<buf>>
      \/ fFrameBuf' = <<>> /\ out' = <<with>>
      \/ fFrameBuf' = <<>> /\ out' = <<with, << <<n, 2>> >> >>
      \/ fFrameBuf' = with /\ out' = <<>> /\ BufferOf(with, n)
  <2>1. Goes(n)  BY <1>1, Handled
  <2>2. CASE Result(n) = Kept(buf)  BY <1>2, <2>2 DEF Kept
  <2>3. CASE Result(n) = Delivered(buf)  BY <1>2, <2>3 DEF Delivered
  <2>4. CASE Result(n) = Delivered(with)  BY <1>2, <2>4 DEF Delivered
  <2>5. CASE Result(n) = Separately(n, buf)  BY <1>2, <1>5, <2>5 DEF Separately, Piece
  <2>6. CASE /\ Result(n) = Kept(with)
             /\ \/ ~TimestampEnds(stream.codec, stream.packets, n)
                \/ stream.codec = "plain" /\ ~packet(n).marker /\ fLastTimestamp = packet(n).ts
    <3>1. Continues(with, n)  BY <1>6, <2>6, StaysContinued DEF Continues
    <3> QED  BY <1>2, <1>6, <2>6, <3>1 DEF Kept, BufferOf
  <2> QED  BY <1>3, <1>5, <2>1, <2>2, <2>3, <2>4, <2>5, <2>6 DEF Goes
<1>8. BufferOf(buf, n) /\ BufferOf(<<>>, n) /\ FrameOf(buf, n)
  BY <1>1, <1>4, LaterFrame, EmptyFrame DEF BufferOf
<1>9. BufferOf(fFrameBuf, processed)'
  <2>1. PICK kept : kept = fFrameBuf'  OBVIOUS
  <2>2. BufferOf(kept, n)  BY <1>7, <1>8, <2>1
  <2>3. BufferOf(kept, n)'  BY <1>1, <2>2, StillBuffer
  <2> QED  BY <1>1, <2>1, <2>3 DEF BufferOf, FrameOf, Continues, Fits, Unmixed, Ascending
<1>10. OutOf(processed)'
  <2>1. FrameOf(buf, n)' /\ FrameOf(with, n)'  BY <1>1, <1>6, <1>8, StillFrame
  <2>2. FrameOf(buf, processed)' /\ FrameOf(with, processed)'  BY <1>1, <2>1 DEF FrameOf
  <2>3. with[Len(with)] = Piece(processed)'  BY <1>1, <1>6 DEF Piece
  <2>4. OutOf(processed)' <=>
          \/ out' = <<>>
          \/ \E frame : out' = <<frame>> /\ FrameOf(frame, processed)' /\ fFrameBuf' = <<>>
          \/ \E frame : /\ out' = <<frame, << <<processed', 2>> >> >> /\ FrameOf(frame, processed)'
                        /\ fFrameBuf' = <<>>
                        /\ frame # <<>> /\ frame[Len(frame)] = Piece(processed)'
    BY DEF OutOf
  <2> QED  BY <1>1, <1>6, <1>7, <2>2, <2>3, <2>4
<1>11. Unbegun'
  <2>1. SUFFICES ASSUME stream.codec \in {"H264", "MPEG4ES"}, ~fIsStartFrame'
                 PROVE  fFrameBuf' = <<>> /\ (stream.codec = "MPEG4ES" => ~fBeginFrame')
    BY <1>1 DEF Unbegun
  <2>2. ~StartsFrames(n) /\ ~fIsStartFrame  BY <1>2, <2>1
  <2>3. stream.codec = "MPEG4ES" /\ ~packet(n).first  BY <2>1, <2>2 DEF StartsFrames
  <2>4. fFrameBuf = <<>> /\ ~fBeginFrame  BY <2>2, <2>3 DEF FramesInv, Unbegun
  <2>5. Before(n) = <<>>  BY <2>2, <2>4 DEF Before
  <2>6. Result(n) = MPEG4ES(n, Before(n))  BY <2>3 DEF Result
  <2>7. Result(n) = Kept(<<>>) \/ Result(n) = Delivered(<<>>)
    BY <2>3, <2>4, <2>5, <2>6 DEF MPEG4ES
  <2>8. fFrameBuf' = <<>>  BY <1>2, <2>7 DEF Kept, Delivered
  <2> QED  BY <1>2, <2>3, <2>4, <2>8 DEF Begins
<1> QED  BY <1>1, <1>9, <1>10, <1>11 DEF FramesInv

\* The other steps leave the frames alone.
LEMMA FramesKept ==
  ASSUME [Next]_vars
  PROVE  \/ \E n \in Numbers : Process(n)
         \/ /\ UNCHANGED <<stream, frameVars, processVars>>
            /\ inSequence' => inSequence
<1>1. ASSUME NEW n \in Numbers, Receive(n) PROVE UNCHANGED <<stream, frameVars, processVars>> /\ (inSequence' => inSequence)
  BY <1>1 DEF Receive
<1>2. CASE NoneCompleted  BY <1>2 DEF NoneCompleted
<1>3. CASE SenderReport \/ Report  BY <1>3 DEF SenderReport, Report
<1>4. CASE UNCHANGED vars  BY <1>4 DEF vars
<1> QED  BY <1>1, <1>2, <1>3, <1>4 DEF Next

LEMMA FramesStep == StatsInv /\ OrderInv /\ SeqInv /\ FramesInv /\ [Next]_vars => FramesInv'
<1> SUFFICES ASSUME StatsInv, OrderInv, SeqInv, FramesInv, [Next]_vars PROVE FramesInv'  OBVIOUS
<1>1. ASSUME NEW n \in Numbers, Process(n) PROVE FramesInv'  BY <1>1, FramesProcess
<1>2. CASE UNCHANGED <<stream, frameVars, processVars>> /\ (inSequence' => inSequence)
  <2>1. UNCHANGED <<stream, fFrameBuf, out, processed, fIsStartFrame, fBeginFrame>>
    BY <1>2 DEF frameVars, processVars
  <2>2. BufferOf(fFrameBuf, processed)'
    <3>1. PICK kept : kept = fFrameBuf  OBVIOUS
    <3>2. PICK m : m = processed  OBVIOUS
    <3>3. BufferOf(kept, m)'  BY <1>2, <3>1, <3>2, StillBuffer DEF FramesInv
    <3> QED  BY <2>1, <3>1, <3>2, <3>3 DEF BufferOf, FrameOf, Continues, Fits, Unmixed, Ascending
  <2>3. \A frame : FrameOf(frame, processed) => FrameOf(frame, processed)'
    <3>1. PICK m : m = processed  OBVIOUS
    <3>2. \A frame : FrameOf(frame, m) => FrameOf(frame, m)'  BY <1>2, StillFrame
    <3> QED  BY <2>1, <3>1, <3>2 DEF FrameOf
  <2>4. OutOf(processed)'  BY <2>1, <2>3 DEF FramesInv, OutOf, Piece
  <2>5. Unbegun'  BY <2>1 DEF FramesInv, Unbegun
  <2> QED  BY <2>1, <2>2, <2>4, <2>5 DEF FramesInv
<1> QED  BY <1>1, <1>2, FramesKept

LEMMA FramesInit == Init => FramesInv
<1> SUFFICES ASSUME Init PROVE FramesInv  OBVIOUS
<1>1. BufferOf(<<>>, 0)  BY EmptyFrame
<1>2. fFrameBuf = <<>> /\ processed = 0 /\ out = <<>> /\ ~fBeginFrame  BY DEF Init
<1>3. BufferOf(fFrameBuf, processed)  BY <1>1, <1>2
<1> QED  BY <1>2, <1>3 DEF FramesInv, OutOf, Unbegun

LEMMA WithSecond ==
  ASSUME NEW frame, NEW m \in Nat, FrameOf(frame, m), frame # <<>>, frame[Len(frame)] = Piece(m)
  PROVE  Ascending(Append(frame, <<m, 2>>)) /\ frame \o << <<m, 2>> >> = Append(frame, <<m, 2>>)
<1> DEFINE k == Len(frame)
           x == <<m, 2>>
           with == Append(frame, x)
<1>1. frame \in Seq(Pieces) /\ x \in Pieces  BY DEF FrameOf, Pieces
<1>2. k \in Nat /\ k > 0 /\ DOMAIN frame = 1..k /\ \A i \in 1..k : frame[i] \in Pieces
  BY <1>1, LenProperties, ElementOfSeq, EmptySeq
<1>3. with \in Seq(Pieces) /\ Len(with) = k + 1 /\ with[k + 1] = x /\ \A i \in 1..k : with[i] = frame[i]
  BY <1>1, AppendProperties
<1>4. frame \o <<x>> = with  BY <1>1, AppendIsConcat
<1> HIDE DEF with, k, x
<1>5. DOMAIN with = 1 .. k + 1  BY <1>3, LenProperties
<1>6. frame[k] = <<m, 1>>  BY DEF k, Piece
<1>7. Ascending(with)
  <2> SUFFICES ASSUME NEW i \in 1 .. k + 1, NEW j \in 1 .. k + 1, i < j PROVE Later(with[i], with[j])
    BY <1>5 DEF Ascending
  <2>1. i \in 1..k  BY <1>2
  <2>2. CASE j \in 1..k  BY <1>2, <1>3, <2>1, <2>2 DEF FrameOf, Ascending
  <2>3. CASE j = k + 1 /\ i = k  BY <1>3, <1>6, <2>1, <2>3 DEF Later, x
  <2>4. CASE j = k + 1 /\ i # k
    <3>1. Later(frame[i], frame[k])  BY <1>2, <2>1, <2>4 DEF FrameOf, Ascending
    <3>2. frame[i][1] \in Nat /\ frame[i][2] \in {1, 2}  BY <1>2, <2>1 DEF Pieces
    <3>3. frame[i][1] < m \/ (frame[i][1] = m /\ frame[i][2] < 1)  BY <1>6, <3>1 DEF Later
    <3>4. frame[i][1] < m  BY <3>2, <3>3
    <3> QED  BY <1>3, <2>1, <2>4, <3>4 DEF Later, x
  <2> QED  BY <1>2, <2>1, <2>2, <2>3, <2>4
<1> QED  BY <1>4, <1>7 DEF with, x

LEMMA OneTimestamp == ASSUME NEW x PROVE Unmixed(<<x>>)
BY DEF Unmixed

LEMMA FramesFollow == OrderInv /\ FramesInv => FramesRight
<1> SUFFICES ASSUME OrderInv, FramesInv PROVE FramesRight  OBVIOUS
<1>1. FrameOf(fFrameBuf, processed) /\ fFrameBuf \in Seq(Pieces) /\ processed \in Nat
  BY DEF FramesInv, BufferOf, FrameOf, OrderInv
<1>2. <<>> \in Seq(Pieces)  OBVIOUS
<1>3. MixedOnlyAtGap /\ PiecesOnceInOrder
  <2>1. CASE out = <<>>
    <3>1. <<>> \o <<>> \o fFrameBuf = fFrameBuf  BY <1>1, <1>2, ConcatEmptySeq
    <3>2. Len(out) # 2 /\ DOMAIN out = {}  BY <2>1
    <3> QED  BY <1>1, <2>1, <3>1, <3>2 DEF MixedOnlyAtGap, PiecesOnceInOrder, FrameOf
  <2>2. ASSUME NEW frame, out = <<frame>>, FrameOf(frame, processed), fFrameBuf = <<>>
        PROVE  MixedOnlyAtGap /\ PiecesOnceInOrder
    <3>1. out # <<>> /\ Len(out) = 1 /\ DOMAIN out = {1} /\ out[1] = frame  BY <2>2
    <3>2. frame \o <<>> \o <<>> = frame  BY <1>2, <2>2, ConcatEmptySeq DEF FrameOf
    <3>3. PiecesOnceInOrder  BY <2>2, <3>1, <3>2 DEF PiecesOnceInOrder, FrameOf
    <3>4. MixedOnlyAtGap  BY <1>1, <2>2, <3>1 DEF MixedOnlyAtGap, FrameOf
    <3> QED  BY <3>3, <3>4
  <2>3. ASSUME NEW frame, out = <<frame, << <<processed, 2>> >> >>, FrameOf(frame, processed),
               fFrameBuf = <<>>, frame # <<>>, frame[Len(frame)] = Piece(processed)
        PROVE  MixedOnlyAtGap /\ PiecesOnceInOrder
    <3>1. /\ out # <<>> /\ Len(out) = 2 /\ DOMAIN out = {1, 2} /\ out[1] = frame
          /\ out[2] = << <<processed, 2>> >>
      BY <2>3
    <3>2. Ascending(Append(frame, <<processed, 2>>))
          /\ frame \o << <<processed, 2>> >> = Append(frame, <<processed, 2>>)
      BY <1>1, <2>3, WithSecond
    <3>3. Append(frame, <<processed, 2>>) \in Seq(Pieces)
      BY <1>1, <2>3, AppendProperties DEF FrameOf, Pieces
    <3>4. Append(frame, <<processed, 2>>) \o <<>> = Append(frame, <<processed, 2>>)
      BY <3>3, ConcatEmptySeq
    <3>5. PiecesOnceInOrder  BY <2>3, <3>1, <3>2, <3>4 DEF PiecesOnceInOrder
    <3>6. MixedOnlyAtGap  BY <1>1, <2>3, <3>1, OneTimestamp DEF MixedOnlyAtGap, FrameOf
    <3> QED  BY <3>5, <3>6
  <2> QED  BY <2>1, <2>2, <2>3 DEF FramesInv, OutOf
<1> QED  BY <1>3 DEF FramesRight, FramesInv, BufferOf, Fits

SourceInv == StatsInv /\ OrderInv /\ SeqInv /\ FramesInv

LEMMA Invariance == Spec => []SourceInv
<1>1. Init => SourceInv  BY StatsInitInv, OrderInit, SeqInit, FramesInit DEF Init, SourceInv
<1>2. SourceInv /\ [Next]_vars => SourceInv'  BY StatsStep, OrderStep, SeqStep, FramesStep DEF SourceInv
<1> QED  BY <1>1, <1>2, PTL DEF Spec

\* Frames are cut and put together rightly, whatever is lost, late or twice: two timestamps in one
\* only at a gap, every piece once and in order, within the frame buffer (processFrame of each
\* codec, copyToFrameBuffer).
THEOREM Frames == Spec => []FramesRight
<1>1. SourceInv => FramesRight  BY FramesFollow DEF SourceInv
<1> QED  BY <1>1, Invariance, PTL

\* A frame has the time of its own packets as long as packets come in sequence, though the one
\* packet object that is used again and again keeps the extension of an earlier packet
\* (RTPPacketBuffer::reset).
THEOREM Times == Spec => []TimeIsOwn
<1>1. SourceInv => TimeIsOwn
  <2> SUFFICES ASSUME SourceInv, out # <<>>, inSequence PROVE MediaTime(processed) = packet(processed).ts
    BY DEF TimeIsOwn
  <2>1. processed > 0 /\ expected > 0  BY DEF SourceInv, FramesInv, OrderInv
  <2>2. first > 0  BY <2>1 DEF SourceInv, SeqInv, BeforeFirst, StatsInv, StatsType
  <2> QED  BY <2>1, <2>2 DEF SourceInv, SeqInv, InTurn
<1> QED  BY <1>1, Invariance, PTL

-----------------------------------------------------------------------------
(***************************************************************************)
(* Units.  While the packets of a unit are processed one after the other,  *)
(* the buffer ends with those that have been.                              *)
(***************************************************************************)
BeginsUnit(m, n) == m \in 1..n /\ packet(m).first /\ \A k \in m + 1 .. n : ~packet(k).first

LEMMA UnitStarts ==
  ASSUME stream \in Streams, NEW n \in Sent
  PROVE  /\ BeginsUnit(UnitStart(n), n)
         /\ \A m : BeginsUnit(m, n) => m = UnitStart(n)
<1>1. n \in Nat /\ n > 0  BY StreamTypes
<1>2. \E m \in 1..n : packet(m).first /\ \A k \in m + 1 .. n : ~packet(k).first
  <2>1. UnitsFollow(stream.packets)  BY StreamTypes DEF WellFormed
  <2> QED  BY <2>1 DEF UnitsFollow, Sent, packet
<1>3. BeginsUnit(UnitStart(n), n)  BY <1>2 DEF UnitStart, BeginsUnit
<1>4. ASSUME NEW m, NEW l, BeginsUnit(m, n), BeginsUnit(l, n) PROVE ~(m < l)
  <2>1. m \in 1..n /\ l \in 1..n  BY <1>4 DEF BeginsUnit
  <2>2. m < l => l \in m + 1 .. n  BY <1>1, <2>1
  <2> QED  BY <1>4, <2>2 DEF BeginsUnit
<1>5. ASSUME NEW m, BeginsUnit(m, n) PROVE m = UnitStart(n)
  <2>1. m \in 1..n /\ UnitStart(n) \in 1..n  BY <1>3, <1>5 DEF BeginsUnit
  <2> QED  BY <1>1, <1>3, <1>4, <1>5, <2>1
<1> QED  BY <1>3, <1>5

LEMMA UnitOfFirst ==
  ASSUME stream \in Streams, NEW n \in Sent, packet(n).first
  PROVE  UnitStart(n) = n
<1>1. n \in Nat /\ n > 0  BY StreamTypes
<1>2. BeginsUnit(n, n)  BY <1>1 DEF BeginsUnit
<1> QED  BY <1>2, UnitStarts

LEMMA UnitOfNext ==
  ASSUME stream \in Streams, NEW n \in Sent, ~packet(n).first
  PROVE  /\ UnitStart(n) <= n - 1 /\ n - 1 \in Sent /\ UnitStart(n) = UnitStart(n - 1)
         /\ packet(n).kind = "fragment" /\ ~packet(n - 1).last /\ packet(n - 1).kind = "fragment"
<1> DEFINE m == UnitStart(n)
<1>1. n \in Nat /\ n > 0  BY StreamTypes
<1>2. BeginsUnit(m, n)  BY UnitStarts
<1> HIDE DEF m
<1>3. m \in 1..n /\ m # n  BY <1>2 DEF BeginsUnit
<1>4. m <= n - 1 /\ n - 1 \in Nat /\ n - 1 > 0  BY <1>1, <1>3
<1>5. n - 1 \in Sent  BY <1>1, <1>4, StreamTypes
<1>6. BeginsUnit(m, n - 1)  BY <1>1, <1>2, <1>4 DEF BeginsUnit
<1>7. m = UnitStart(n - 1)  BY <1>5, <1>6, UnitStarts
<1>8. UnitsFollow(stream.packets)  BY StreamTypes DEF WellFormed
<1>9. packet(n).kind = "fragment"  BY <1>8 DEF UnitsFollow, packet, Sent
<1>10. (n - 1) + 1 = n  BY <1>1
<1>11. ~packet(n - 1).last  BY <1>5, <1>8, <1>10 DEF UnitsFollow, packet, Sent
<1>12. packet(n - 1).kind = "fragment"  BY <1>5, <1>8, <1>11 DEF UnitsFollow, packet, Sent
<1> QED  BY <1>4, <1>5, <1>7, <1>9, <1>11, <1>12 DEF m

\* The frame ends with the packets from s to n.
EndsAt(frame, s, n) ==
  /\ Len(frame) >= n - s + 1
  /\ \A i \in 1 .. n - s + 1 : frame[Len(frame) - (n - s + 1) + i] = Piece(s + i - 1)

LEMMA UnitEnds ==
  ASSUME stream \in Streams, NEW n \in Sent, NEW frame
  PROVE  EndsWith(frame, Unit(n)) <=> EndsAt(frame, UnitStart(n), n)
<1> DEFINE s == UnitStart(n)
           k == n - s + 1
<1>1. n \in Nat /\ s \in Nat /\ k \in Nat
  BY StreamTypes, UnitStarts DEF BeginsUnit
<1>2. Unit(n) = [i \in 1..k |-> Piece(s + i - 1)]  BY DEF Unit
<1> HIDE DEF s, k
<1>3. Len(Unit(n)) = k /\ DOMAIN Unit(n) = 1..k /\ \A i \in 1..k : Unit(n)[i] = Piece(s + i - 1)
  BY <1>1, <1>2
<1>4. EndsWith(frame, Unit(n)) <=>
        Len(frame) >= k /\ \A i \in 1..k : frame[Len(frame) - k + i] = Piece(s + i - 1)
  BY <1>3 DEF EndsWith
<1> QED  BY <1>4 DEF EndsAt, s, k

LEMMA EndGrows ==
  ASSUME NEW frame \in Seq(Pieces), NEW n \in Nat, NEW s \in Nat, s < n, EndsAt(frame, s, n - 1)
  PROVE  EndsAt(Append(frame, Piece(n)), s, n) /\ frame # <<>>
<1> DEFINE with == Append(frame, Piece(n))
           l == Len(frame)
           k == n - s
<1>1. Piece(n) \in Pieces  BY DEF Piece, Pieces
<1>2. l \in Nat /\ k \in Nat /\ k > 0  BY LenProperties
<1>3. Len(with) = l + 1 /\ with[l + 1] = Piece(n) /\ \A i \in 1..l : with[i] = frame[i]
  BY <1>1, AppendProperties
<1>4. n - 1 - s + 1 = k /\ n - s + 1 = k + 1 /\ s + (k + 1) - 1 = n  OBVIOUS
<1> HIDE DEF with, l, k
<1>5. l >= k /\ \A i \in 1..k : frame[l - k + i] = Piece(s + i - 1)  BY <1>4 DEF EndsAt, l
<1>6. ASSUME NEW i \in 1 .. k + 1 PROVE with[(l + 1) - (k + 1) + i] = Piece(s + i - 1)
  <2>1. (l + 1) - (k + 1) + i = l - k + i  BY <1>2
  <2>2. CASE i \in 1..k
    <3>1. l - k + i \in 1..l  BY <1>2, <1>5, <2>2
    <3> QED  BY <1>3, <1>5, <2>1, <2>2, <3>1
  <2>3. CASE i = k + 1
    <3>1. l - k + i = l + 1  BY <1>2, <2>3
    <3> QED  BY <1>3, <1>4, <2>1, <2>3, <3>1
  <2> QED  BY <1>2, <2>2, <2>3
<1>7. EndsAt(with, s, n)  BY <1>2, <1>3, <1>4, <1>5, <1>6 DEF EndsAt
<1>8. frame # <<>>  BY <1>2, <1>5, EmptySeq DEF l
<1> QED  BY <1>7, <1>8 DEF with

UnitKept ==
  processed > 0 /\ ~packet(processed).last /\ PutTogether(processed)
    /\ UnitStart(processed) >= runStart /\ ~overflowed
  => EndsWith(fFrameBuf, Unit(processed)) /\ (stream.codec = "MPEG4ES" => fBeginFrame)

UnitInv == UnitKept /\ IntactUnitComesOut

\* The packet n, added to the buffer, completes what has come of its unit.
LEMMA Completes ==
  ASSUME SourceInv, UnitKept, NEW n \in Numbers, Process(n), PutTogether(n),
         UnitStart(n) >= runStart', ~overflowed, ~Overflows(fFrameBuf), ~Overflows(Before(n))
  PROVE  /\ EndsWith(copyToFrameBuffer(Before(n), Piece(n)), Unit(n))
         /\ stream.codec = "MPEG4ES" => fBeginFrame \/ packet(n).first
<1>1. n \in Sent /\ n \in Nat /\ n > processed /\ stream \in Streams
  BY Processes DEF SourceInv, OrderInv
<1>2. processed \in Nat /\ runStart' = IF n = processed + 1 /\ runStart > 0 THEN runStart ELSE n
  BY DEF SourceInv, OrderInv, Process
<1> DEFINE with == copyToFrameBuffer(Before(n), Piece(n))
<1>3. with = Append(Before(n), Piece(n))  BY DEF copyToFrameBuffer
<1>4. BufferOf(Before(n), processed)  BY <1>1, Finds DEF SourceInv
<1>5. CASE packet(n).first
  <2>1. UnitStart(n) = n  BY <1>1, <1>5, UnitOfFirst
  <2>2. with[Len(with)] = Piece(n) /\ with # <<>> /\ with \in Seq(Pieces)
    BY <1>1, <1>2, <1>4, Copied DEF FrameOf
  <2> HIDE DEF with
  <2>3. Len(with) \in Nat /\ Len(with) >= 1  BY <2>2, LenProperties, EmptySeq
  <2>4. \A i \in 1..1 : with[Len(with) - 1 + i] = Piece(n + i - 1)
    <3>1. Len(with) - 1 + 1 = Len(with) /\ n + 1 - 1 = n  BY <1>1, <2>3
    <3> QED  BY <2>2, <3>1
  <2>5. n - n + 1 = 1  BY <1>1
  <2>6. EndsAt(with, n, n)  BY <2>3, <2>4, <2>5 DEF EndsAt
  <2> QED  BY <1>1, <1>5, <2>1, <2>6, UnitEnds DEF with
<1>6. CASE ~packet(n).first
  <2>1. /\ UnitStart(n) <= n - 1 /\ n - 1 \in Sent /\ UnitStart(n) = UnitStart(n - 1)
        /\ packet(n).kind = "fragment" /\ ~packet(n - 1).last /\ packet(n - 1).kind = "fragment"
    BY <1>1, <1>6, UnitOfNext
  <2>2. UnitStart(n) \in Nat /\ UnitStart(n) < n
    BY <1>1, <2>1, UnitStarts DEF BeginsUnit
  <2>3. n = processed + 1 /\ runStart > 0 /\ runStart' = runStart  BY <1>1, <1>2, <2>2
  <2>4. processed = n - 1 /\ processed > 0  BY <1>1, <1>2, <2>1, <2>3, StreamTypes
  <2>5. PutTogether(processed)  BY <2>1, <2>4 DEF PutTogether
  <2>6. EndsWith(fFrameBuf, Unit(processed)) /\ (stream.codec = "MPEG4ES" => fBeginFrame)
    BY <2>1, <2>3, <2>4, <2>5 DEF UnitKept
  <2>7. EndsAt(fFrameBuf, UnitStart(n), n - 1)  BY <1>1, <2>1, <2>4, <2>6, UnitEnds
  <2>8. fFrameBuf \in Seq(Pieces)  BY DEF SourceInv, FramesInv, BufferOf, FrameOf
  <2>9. fFrameBuf # <<>> /\ EndsAt(Append(fFrameBuf, Piece(n)), UnitStart(n), n)
    BY <1>1, <2>2, <2>7, <2>8, EndGrows
  <2>10. Before(n) = fFrameBuf  BY <1>1, <2>9, Finds DEF SourceInv
  <2> QED  BY <1>1, <1>3, <2>6, <2>9, <2>10, UnitEnds
<1> QED  BY <1>5, <1>6

\* The last packet of a unit delivers the buffer with it, the others stay there.
LEMMA EndDelivers ==
  ASSUME SourceInv, NEW n \in Numbers, Process(n), PutTogether(n),
         stream.codec = "MPEG4ES" => fBeginFrame \/ packet(n).first
  PROVE  LET with == copyToFrameBuffer(Before(n), Piece(n)) IN
         /\ ~packet(n).last => Result(n) = Kept(with) /\ (stream.codec = "MPEG4ES" => Begins(n))
         /\ packet(n).last /\ (stream.codec = "plain" => packet(n).marker \/ inSequence)
              => Result(n) = Delivered(with)
<1> DEFINE codec == stream.codec
           with == copyToFrameBuffer(Before(n), Piece(n))
<1>1. n \in Sent /\ n \in Nat /\ packet(n) \in Packets /\ stream \in Streams
  BY Processes DEF SourceInv, OrderInv
<1>2. codec \in Codecs /\ WellFormed(codec, stream.packets)  BY <1>1, StreamTypes
<1>3. packet(n).kind # "fragment" => packet(n).first /\ packet(n).last
  BY <1>1, <1>2 DEF WellFormed, UnitsFollow, packet, Sent
<1>4. codec \in {"MPEG4ES", "JPEG"} => packet(n).marker = packet(n).last
  BY <1>1, <1>2 DEF WellFormed, packet, Sent
<1>5. CASE codec \in {"H264", "H265"}
  <2>1. Result(n) = NAL(n, Before(n))  BY <1>5 DEF Result
  <2>2. packet(n).kind \in {"whole", "fragment"}  BY <1>5 DEF PutTogether
  <2> QED  BY <1>5, <2>1, <2>2 DEF NAL
<1>6. CASE codec = "MPEG4ES"
  <2>1. Result(n) = MPEG4ES(n, Before(n))  BY <1>6 DEF Result
  <2>2. fBeginFrame \/ packet(n).first  BY <1>6
  <2>3. ~packet(n).marker => Begins(n)  BY <1>6, <2>2 DEF Begins
  <2> QED  BY <1>4, <1>6, <2>1, <2>2, <2>3 DEF MPEG4ES
<1>7. CASE codec = "JPEG"
  <2>1. Result(n) = JPEG(n, Before(n))  BY <1>7 DEF Result
  <2> QED  BY <1>4, <1>7, <2>1 DEF JPEG
<1>8. CASE codec = "AC3"
  <2>1. Result(n) = AC3(n, Before(n))  BY <1>8 DEF Result
  <2>2. packet(n).kind = "whole"  BY <1>8 DEF PutTogether
  <2> QED  BY <1>3, <1>8, <2>1, <2>2 DEF AC3
<1>9. CASE codec = "MPEG4Generic"
  <2>1. Result(n) = MPEG4Generic(n, Before(n))  BY <1>9 DEF Result
  <2>2. packet(n).kind = "whole"  BY <1>9 DEF PutTogether
  <2> QED  BY <1>3, <1>9, <2>1, <2>2 DEF MPEG4Generic
<1>10. CASE codec = "plain"
  <2>1. Result(n) = plain(n, Before(n))  BY <1>10 DEF Result
  <2>2. packet(n).kind = "whole"  BY <1>10 DEF PutTogether
  <2>3. TimestampEnds(codec, stream.packets, n)  BY <1>1, <1>2, <1>10, <2>2 DEF WellFormed, Sent, packet
  <2>4. ASSUME ~packet(n).marker, inSequence PROVE fLastTimestamp # packet(n).ts
    <3>1. n = top /\ arrived = n  BY <2>4, SeqProcess DEF SourceInv
    <3>2. first > 0 /\ arrived # 0
      <4>1. first \in Nat /\ arrived # 0  BY <1>1, <3>1, StreamTypes DEF SourceInv, StatsInv, StatsType
      <4> QED  BY <2>4, <4>1 DEF SourceInv, SeqInv, BeforeFirst
    <3>3. fLastTimestamp = 0 \/ (n > 1 /\ fLastTimestamp = packet(n - 1).ts)
      BY <2>4, <3>1, <3>2 DEF SourceInv, SeqInv, InTurn
    <3>4. n > 1 => packet(n - 1).ts # packet(n).ts  BY <1>10, <2>3, <2>4 DEF TimestampEnds, packet
    <3>5. packet(n).ts # 0  BY <1>1 DEF Packets
    <3> QED  BY <3>3, <3>4, <3>5
  <2>5. packet(n).last  BY <1>3, <2>2
  <2>6. packet(n).marker \/ inSequence => Result(n) = Delivered(with)  BY <2>1, <2>4 DEF plain
  <2> QED  BY <1>10, <2>5, <2>6
<1> QED  BY <1>2, <1>5, <1>6, <1>7, <1>8, <1>9, <1>10 DEF Codecs

LEMMA UnitProcess ==
  ASSUME SourceInv, UnitKept, NEW n \in Numbers, Process(n)
  PROVE  UnitInv'
<1>1. n \in Sent /\ n \in Nat /\ n > processed /\ processed' = n /\ stream \in Streams
      /\ UNCHANGED <<stream, inSequence>>
  BY Processes DEF SourceInv, OrderInv
<1> DEFINE overflows == overflowed \/ Overflows(fFrameBuf) \/ Overflows(Before(n))
<1>2. /\ fFrameBuf' = Result(n).buf /\ out' = Result(n).out /\ fBeginFrame' = Begins(n)
      /\ cut' = overflows /\ overflowed' = (overflows /\ Result(n).out = <<>>)
  BY DEF Process, processFrame
<1>3. PICK with : with = copyToFrameBuffer(Before(n), Piece(n))  OBVIOUS
<1>4. PICK unit : unit = Unit(n)  OBVIOUS
<1>5. /\ packet(processed)' = packet(n) /\ PutTogether(processed)' = PutTogether(n)
      /\ UnitStart(processed)' = UnitStart(n) /\ Unit(processed)' = unit
  BY <1>1, <1>4 DEF packet, PutTogether, UnitStart, Unit, Piece
<1>6. ASSUME PutTogether(n), UnitStart(n) >= runStart', ~overflows
      PROVE  /\ EndsWith(with, unit)
             /\ ~packet(n).last => fFrameBuf' = with /\ (stream.codec = "MPEG4ES" => fBeginFrame')
             /\ packet(n).last /\ (stream.codec = "plain" => packet(n).marker \/ inSequence)
                  => out' = <<with>>
  <2>1. /\ EndsWith(with, unit)
        /\ stream.codec = "MPEG4ES" => fBeginFrame \/ packet(n).first
    BY <1>3, <1>4, <1>6, Completes
  <2>2. /\ ~packet(n).last => Result(n) = Kept(with) /\ (stream.codec = "MPEG4ES" => Begins(n))
        /\ packet(n).last /\ (stream.codec = "plain" => packet(n).marker \/ inSequence)
              => Result(n) = Delivered(with)
    BY <1>3, <1>6, <2>1, EndDelivers
  <2> QED  BY <1>2, <2>1, <2>2 DEF Kept, Delivered
<1>7. UnitKept'
  <2>1. SUFFICES ASSUME ~packet(n).last, PutTogether(n), UnitStart(n) >= runStart', ~overflowed'
                 PROVE  EndsWith(fFrameBuf', unit) /\ (stream.codec = "MPEG4ES" => fBeginFrame')
    BY <1>1, <1>5 DEF UnitKept, EndsWith
  <2>2. Result(n).out = <<>> => ~overflows  BY <1>2, <2>1
  <2>3. CASE overflows
    <3>1. Result(n).out # <<>>  BY <2>2, <2>3
    <3>2. stream.codec \notin {"plain", "AC3", "MPEG4Generic"}
      <4>1. UnitsFollow(stream.packets)  BY <1>1, StreamTypes DEF WellFormed
      <4>2. packet(n).kind = "fragment"  BY <1>1, <2>1, <4>1 DEF UnitsFollow, packet, Sent
      <4> QED  BY <2>1, <4>2 DEF PutTogether
    <3>3. Result(n).out = <<>>
      <4>1. CASE stream.codec \in {"H264", "H265"}
        <5>1. Result(n) = NAL(n, Before(n)) /\ packet(n).kind # "aggregate"
          BY <2>1, <4>1 DEF Result, PutTogether
        <5> QED  BY <2>1, <5>1 DEF NAL, Kept
      <4>2. CASE stream.codec \in {"JPEG", "MPEG4ES"}
        <5>1. ~packet(n).marker
          BY <1>1, <2>1, <4>2, StreamTypes DEF WellFormed, packet, Sent
        <5>2. Result(n) = JPEG(n, Before(n)) \/ Result(n) = MPEG4ES(n, Before(n))
          BY <4>2 DEF Result
        <5> QED  BY <5>1, <5>2 DEF JPEG, MPEG4ES, Kept
      <4> QED  BY <1>1, <3>2, <4>1, <4>2, StreamTypes DEF Codecs
    <3> QED  BY <3>1, <3>3
  <2> QED  BY <1>6, <2>1, <2>3
<1>8. IntactUnitComesOut'
  <2>1. SUFFICES ASSUME packet(n).last, PutTogether(n), UnitStart(n) >= runStart', ~cut',
                        stream.codec = "plain" => packet(n).marker \/ inSequence
                 PROVE  out' # <<>> /\ EndsWith(out'[Len(out')], unit)
    BY <1>1, <1>5 DEF IntactUnitComesOut, EndsWith
  <2>2. out' = <<with>> /\ EndsWith(with, unit)  BY <1>2, <1>6, <2>1
  <2>3. out' # <<>> /\ out'[Len(out')] = with  BY <2>2
  <2> QED  BY <2>2, <2>3
<1> QED  BY <1>7, <1>8 DEF UnitInv

\* A unit whose packets were all processed comes out whole, with its last packet, at the end of a
\* frame, whatever was lost, late or twice before it (processNextPacket, processFrame).
THEOREM IntactUnits == Spec => []IntactUnitComesOut
<1>1. Init => UnitInv
  <2>1. Init => processed = 0  BY DEF Init
  <2> QED  BY <2>1 DEF UnitInv, UnitKept, IntactUnitComesOut
<1>2. SourceInv /\ UnitInv /\ [Next]_vars => UnitInv'
  <2> SUFFICES ASSUME SourceInv, UnitInv, [Next]_vars PROVE UnitInv'  OBVIOUS
  <2>1. ASSUME NEW n \in Numbers, Process(n) PROVE UnitInv'  BY <2>1, UnitProcess DEF UnitInv
  <2>2. CASE UNCHANGED <<stream, frameVars, processVars>> /\ (inSequence' => inSequence)
    <3>1. UNCHANGED <<stream, fFrameBuf, fBeginFrame, out, processed, runStart, cut, overflowed>>
      BY <2>2 DEF frameVars, processVars
    <3>2. UNCHANGED <<packet(processed), PutTogether(processed), UnitStart(processed), Unit(processed)>>
      BY <3>1 DEF packet, PutTogether, UnitStart, Unit, Piece
    <3>3. UnitKept'  BY <3>1, <3>2 DEF UnitInv, UnitKept, EndsWith
    <3>4. IntactUnitComesOut'  BY <2>2, <3>1, <3>2 DEF UnitInv, IntactUnitComesOut, EndsWith
    <3> QED  BY <3>3, <3>4 DEF UnitInv
  <2> QED  BY <2>1, <2>2, FramesKept
<1>3. UnitInv => IntactUnitComesOut  BY DEF UnitInv
<1> QED  BY <1>1, <1>2, <1>3, Invariance, PTL DEF Spec

-----------------------------------------------------------------------------
(***************************************************************************)
(* The event loop: the list of handlers.                                   *)
(***************************************************************************)
NoDoubles(list) == \A i, j \in DOMAIN list : list[i] = list[j] => i = j

LEMMA WithoutType ==
  ASSUME fReadHandlers \in Seq(Sockets), NoDoubles(fReadHandlers), NEW s \in Installed
  PROVE  Without(s) \in Seq(Sockets) /\ NoDoubles(Without(s))
<1> DEFINE n == Len(fReadHandlers)
           p == Position(s)
<1>1. n \in Nat /\ DOMAIN fReadHandlers = 1..n
  OBVIOUS
<1>2. p \in 1..n
  <2>1. PICK i \in DOMAIN fReadHandlers : fReadHandlers[i] = s
    BY DEF Installed
  <2> QED BY <1>1, <2>1 DEF Position
<1>3. n - 1 \in Nat
  BY <1>1, <1>2
<1> DEFINE at(i) == IF i < p THEN fReadHandlers[i] ELSE fReadHandlers[i + 1]
<1>4. Without(s) = [i \in 1..(n - 1) |-> at(i)]
  BY DEF Without
<1>5. \A i \in 1..(n - 1) : at(i) \in Sockets
  BY <1>1, <1>2
<1>6. Without(s) \in [1..(n - 1) -> Sockets]
  <2> HIDE DEF at, n
  <2> QED BY <1>4, <1>5
<1>7. Without(s) \in Seq(Sockets)
  <2> HIDE DEF n
  <2> QED BY <1>3, <1>6
<1>8. \A i, j \in 1..(n - 1) : at(i) = at(j) => i = j
  BY <1>1, <1>2 DEF NoDoubles
<1>9. NoDoubles(Without(s))
  <2> HIDE DEF at, n
  <2> QED BY <1>4, <1>8 DEF NoDoubles
<1> QED BY <1>7, <1>9

LEMMA RemovedType ==
  ASSUME fReadHandlers \in Seq(Sockets), NoDoubles(fReadHandlers), NEW s, removeHandler(s)
  PROVE  fReadHandlers' \in Seq(Sockets) /\ NoDoubles(fReadHandlers)'
<1>1. CASE s \in Installed
  <2>1. fReadHandlers' = Without(s)
    BY <1>1 DEF removeHandler
  <2> QED BY <1>1, <2>1, WithoutType DEF NoDoubles
<1>2. CASE s \notin Installed
  BY <1>2 DEF removeHandler, NoDoubles
<1> QED BY <1>1, <1>2

LEMMA PrefixedType ==
  ASSUME NEW list \in Seq(Sockets), NoDoubles(list), NEW s \in Sockets,
         \A i \in DOMAIN list : list[i] # s
  PROVE  <<s>> \o list \in Seq(Sockets) /\ NoDoubles(<<s>> \o list)
<1> DEFINE q == <<s>> \o list
           n == Len(list)
<1>1. n \in Nat /\ DOMAIN list = 1..n
  OBVIOUS
<1>2. q \in Seq(Sockets) /\ DOMAIN q = 1..(n + 1)
  OBVIOUS
<1>3. q[1] = s /\ \A i \in 1..(n + 1) : i # 1 => i - 1 \in 1..n /\ q[i] = list[i - 1]
  OBVIOUS
<1> HIDE DEF q, n
<1>4. ASSUME NEW i \in 1..(n + 1), NEW j \in 1..(n + 1), q[i] = q[j]
      PROVE  i = j
  <2>1. CASE i = 1 /\ j # 1
    BY <1>1, <1>3, <1>4, <2>1
  <2>2. CASE j = 1 /\ i # 1
    BY <1>1, <1>3, <1>4, <2>2
  <2>3. CASE i # 1 /\ j # 1
    <3>1. list[i - 1] = list[j - 1] /\ i - 1 \in DOMAIN list /\ j - 1 \in DOMAIN list
      BY <1>1, <1>3, <1>4, <2>3
    <3>2. i - 1 = j - 1
      BY <3>1 DEF NoDoubles
    <3> QED BY <1>1, <3>2
  <2> QED BY <2>1, <2>2, <2>3
<1>5. NoDoubles(q)
  BY <1>2, <1>4 DEF NoDoubles
<1> QED BY <1>2, <1>5 DEF q

LEMMA AssignedType ==
  ASSUME fReadHandlers \in Seq(Sockets), NoDoubles(fReadHandlers), NEW s \in Sockets, assignHandler(s)
  PROVE  /\ fReadHandlers' \in Seq(Sockets) /\ NoDoubles(fReadHandlers)'
         /\ Installed \subseteq Installed'
<1>1. CASE s \in Installed
  BY <1>1 DEF assignHandler, NoDoubles, Installed
<1>2. CASE s \notin Installed
  <2>1. fReadHandlers' = <<s>> \o fReadHandlers
    BY <1>2 DEF assignHandler
  <2>2. \A i \in DOMAIN fReadHandlers : fReadHandlers[i] # s
    BY <1>2 DEF Installed
  <2>3. <<s>> \o fReadHandlers \in Seq(Sockets) /\ NoDoubles(<<s>> \o fReadHandlers)
    BY <2>2, PrefixedType
  <2>4. \A i \in DOMAIN fReadHandlers : i + 1 \in DOMAIN fReadHandlers' /\ fReadHandlers'[i + 1] = fReadHandlers[i]
    BY <2>1
  <2>5. Installed \subseteq Installed'
    BY <2>4 DEF Installed
  <2> QED BY <2>1, <2>3, <2>5 DEF NoDoubles
<1> QED BY <1>1, <1>2

(***************************************************************************)
(* Types.                                                                  *)
(***************************************************************************)
LEMMA LoopInitType == LoopInit => TypeOK
<1> SUFFICES ASSUME LoopInit PROVE TypeOK
  OBVIOUS
<1>1. fReadHandlers \in Seq(Sockets) /\ DOMAIN fReadHandlers = {}
  BY DEF LoopInit
<1>2. pc \in [Workers -> {"none", "check", "lock", "select", "handle", "unlock", "ended"}]
  BY DEF LoopInit
<1>3. handling \in [Workers -> Sockets \cup {NoSocket}]
  BY DEF LoopInit
<1> QED BY <1>1, <1>2, <1>3, ConstantsAssumption DEF LoopInit, TypeOK

LEMMA LoopStepType == TypeOK /\ [LoopNext]_loopVars => TypeOK'
<1> SUFFICES ASSUME TypeOK, [LoopNext]_loopVars
             PROVE  TypeOK'
  OBVIOUS
<1> USE ConstantsAssumption
<1> USE DEF socketVars, eventVars, playVars, closeVars
<1>1. NoDoubles(fReadHandlers) /\ fReadHandlers \in Seq(Sockets)
  BY DEF TypeOK, NoDoubles
<1>2. CASE PlayURL
  BY <1>2 DEF PlayURL, TypeOK
<1>3. CASE TurnOn
  <2>1. PICK s \in turningOn : turnOn(s) /\ turningOn' = turningOn \ {s}
    BY <1>3 DEF TurnOn
  <2>2. s \in Sockets
    BY DEF TypeOK
  <2>3. fReadHandlers' \in Seq(Sockets) /\ NoDoubles(fReadHandlers)'
    BY <1>1, <2>1, <2>2, AssignedType DEF turnOn
  <2> QED BY <1>3, <2>1, <2>2, <2>3 DEF TurnOn, turnOn, TypeOK, NoDoubles
<1>4. CASE StartCheck
  BY <1>4 DEF StartCheck, TypeOK
<1>5. CASE \E w \in Workers : CreateThread(w)
  BY <1>5 DEF CreateThread, TypeOK
<1>6. CASE StoreThread
  BY <1>6 DEF StoreThread, TypeOK
<1>7. CASE CreateFails
  BY <1>7 DEF CreateFails, TypeOK
<1>8. CASE CloseURL
  BY <1>8 DEF CloseURL, StopFlag, TypeOK
<1>9. CASE DestroyClient
  BY <1>9 DEF DestroyClient, StopFlag, TypeOK
<1>10. CASE Join
  BY <1>10 DEF Join, TypeOK
<1>11. CASE DestroyThread
  BY <1>11 DEF DestroyThread, TypeOK
<1>12. CASE TurnOff
  <2>1. PICK s \in turningOff : turnOff(s) /\ turningOff' = turningOff \ {s} /\ readable' = readable \ {s}
    BY <1>12 DEF TurnOff
  <2>2. fReadHandlers' \in Seq(Sockets) /\ NoDoubles(fReadHandlers)'
    BY <1>1, <2>1, RemovedType DEF turnOff, turnOffLocked
  <2> QED BY <1>12, <2>1, <2>2 DEF TurnOff, turnOff, turnOffLocked, TypeOK, NoDoubles
<1>13. CASE ResetReturns
  BY <1>13 DEF ResetReturns, TypeOK
<1>14. CASE DestroyScheduler
  BY <1>14 DEF DestroyScheduler, StopFlag, TypeOK
<1>15. ASSUME NEW w \in Workers, EventStep(w)
       PROVE  TypeOK'
  <2>1. CASE LoopTest(w)
    BY <2>1 DEF LoopTest, Goto, TypeOK
  <2>2. CASE Lock(w)
    BY <2>2 DEF Lock, Goto, TypeOK
  <2>3. CASE SelectReady(w)
    <3>1. PICK s \in Ready : fLastHandledSocketNum' = s /\ handling' = [handling EXCEPT ![w] = s]
      BY <2>3 DEF SelectReady
    <3>2. s \in Sockets
      BY <1>1 DEF Ready, Installed
    <3> QED BY <2>3, <3>1, <3>2 DEF SelectReady, Goto, TypeOK
  <2>4. CASE SelectNone(w)
    BY <2>4 DEF SelectNone, Goto, TypeOK
  <2>5. CASE HandlerReads(w)
    BY <2>5 DEF HandlerReads, Goto, TypeOK
  <2>6. CASE HandlerFails(w)
    <3>1. fReadHandlers' \in Seq(Sockets) /\ NoDoubles(fReadHandlers)'
      BY <1>1, <2>6, RemovedType DEF HandlerFails, turnOffLocked
    <3> QED BY <2>6, <3>1 DEF HandlerFails, turnOffLocked, Goto, TypeOK, NoDoubles
  <2>7. CASE Unlock(w)
    BY <2>7 DEF Unlock, Goto, TypeOK
  <2> QED BY <1>15, <2>1, <2>2, <2>3, <2>4, <2>5, <2>6, <2>7 DEF EventStep
<1>16. CASE Arrive
  BY <1>16 DEF Arrive, TypeOK
<1>17. CASE UNCHANGED loopVars
  BY <1>17 DEF loopVars, TypeOK
<1> QED BY <1>2, <1>3, <1>4, <1>5, <1>6, <1>7, <1>8, <1>9, <1>10, <1>11, <1>12, <1>13, <1>14, <1>15,
           <1>16, <1>17 DEF LoopNext, PlayerStep, CloserStep

\* Every variable of TaskScheduler keeps its type.
THEOREM LoopTypes == LoopSpec => []TypeOK
  BY LoopInitType, LoopStepType, PTL DEF LoopSpec

(***************************************************************************)
(* The mutex: an event thread that selects, or runs a handler, holds it,   *)
(* and so a handler is neither turned off nor moved while it runs.         *)
(***************************************************************************)
MutexInv ==
  \A w \in Workers :
    /\ pc[w] \in {"select", "handle", "unlock"} => fMutex = w
    /\ pc[w] = "handle" => handling[w] \in Installed

LEMMA StepMutex == TypeOK /\ MutexInv /\ [LoopNext]_loopVars => MutexInv'
<1> SUFFICES ASSUME TypeOK, MutexInv, [LoopNext]_loopVars
             PROVE  MutexInv'
  OBVIOUS
<1> USE DEF socketVars, eventVars, playVars, closeVars
<1>1. NoThread \notin Workers
  BY ConstantsAssumption
<1>2. NoDoubles(fReadHandlers) /\ fReadHandlers \in Seq(Sockets)
  BY DEF TypeOK, NoDoubles
<1>3. ASSUME UNCHANGED <<fMutex, eventVars>>, Installed \subseteq Installed'
      PROVE  MutexInv'
  BY <1>3 DEF MutexInv
<1>4. ASSUME UNCHANGED <<fMutex, eventVars>>, fMutex = NoThread
      PROVE  MutexInv'
  BY <1>1, <1>4 DEF MutexInv
<1>5. ASSUME UNCHANGED <<fMutex, socketVars, eventVars>>
      PROVE  MutexInv'
  BY <1>3, <1>5 DEF Installed
<1>6. CASE TurnOn
  BY <1>4, <1>6 DEF TurnOn, turnOn
<1>7. CASE \E w \in Workers : CreateThread(w)
  BY <1>7 DEF CreateThread, MutexInv, TypeOK, Installed
<1>8. CASE TurnOff
  BY <1>4, <1>8 DEF TurnOff, turnOff
<1>9. CASE PlayURL \/ StartCheck \/ StoreThread \/ CreateFails
  BY <1>5, <1>9 DEF PlayURL, StartCheck, StoreThread, CreateFails
<1>10. CASE CloseURL \/ DestroyClient \/ DestroyScheduler
  BY <1>5, <1>10 DEF CloseURL, DestroyClient, DestroyScheduler, StopFlag
<1>11. CASE Join \/ DestroyThread \/ ResetReturns
  BY <1>5, <1>11 DEF Join, DestroyThread, ResetReturns
<1>12. CASE Arrive \/ UNCHANGED loopVars
  BY <1>5, <1>12 DEF Arrive, loopVars
<1>13. ASSUME NEW w \in Workers, EventStep(w)
       PROVE  MutexInv'
  <2>1. CASE LoopTest(w)
    BY <2>1 DEF LoopTest, At, Goto, MutexInv, TypeOK, Installed
  <2>2. CASE Lock(w)
    BY <1>1, <2>2 DEF Lock, At, Goto, MutexInv, TypeOK, Installed
  <2>3. CASE SelectReady(w)
    <3>1. PICK s \in Ready : handling' = [handling EXCEPT ![w] = s]
      BY <2>3 DEF SelectReady
    <3>2. s \in Installed' /\ Installed' = Installed
      BY <2>3 DEF SelectReady, Ready, Installed
    <3> QED BY <2>3, <3>1, <3>2 DEF SelectReady, At, Goto, MutexInv, TypeOK
  <2>4. CASE SelectNone(w)
    BY <2>4 DEF SelectNone, At, Goto, MutexInv, TypeOK, Installed
  <2>5. CASE HandlerReads(w)
    BY <2>5 DEF HandlerReads, At, Goto, MutexInv, TypeOK, Installed
  <2>6. CASE HandlerFails(w)
    <3>1. \A v \in Workers : v # w => pc[v] \notin {"select", "handle", "unlock"}
      BY <2>6 DEF HandlerFails, At, MutexInv
    <3>2. fMutex' = w /\ pc' = [pc EXCEPT ![w] = "unlock"]
      BY <2>6 DEF HandlerFails, At, Goto, MutexInv
    <3> QED BY <3>1, <3>2 DEF MutexInv, TypeOK
  <2>7. CASE Unlock(w)
    <3>1. \A v \in Workers : v # w => pc[v] \notin {"select", "handle", "unlock"}
      BY <2>7 DEF Unlock, At, MutexInv
    <3>2. pc' = [pc EXCEPT ![w] = "check"]
      BY <2>7 DEF Unlock, Goto
    <3> QED BY <3>1, <3>2 DEF MutexInv, TypeOK
  <2> QED BY <1>13, <2>1, <2>2, <2>3, <2>4, <2>5, <2>6, <2>7 DEF EventStep
<1> QED BY <1>6, <1>7, <1>8, <1>9, <1>10, <1>11, <1>12, <1>13 DEF LoopNext, PlayerStep, CloserStep

(***************************************************************************)
(* The stop: as long as no start has run into a stop, a thread is running  *)
(* only while the loop is on or being joined, and then it is the one whose *)
(* handle is stored, or about to be.                                       *)
(***************************************************************************)
NoneRuns == \A w \in Workers : ~Running(w)
BeingStarted == player \in {"create"} \cup Workers

StopInv ==
  ~overlap =>
    /\ BeingStarted => closer = "idle" /\ fTaskLoop
    /\ player = "create" => NoneRuns
    /\ player \in Workers => \A w \in Workers : Running(w) => w = player
    /\ closer = "idle" /\ ~fTaskLoop => NoneRuns
    /\ \A w \in Workers : Running(w) => fThread = w \/ player = w
    /\ closer \in {"destroy", "off", "gone"} => NoneRuns

LEMMA StepStop == TypeOK /\ StopInv /\ [LoopNext]_loopVars => StopInv'
<1> SUFFICES ASSUME TypeOK, StopInv, [LoopNext]_loopVars, ~overlap'
             PROVE  StopInv'
  BY DEF StopInv
<1> USE DEF socketVars, eventVars, playVars, closeVars
<1>1. \A x \in {NoThread, "idle", "on", "create"} : x \notin Workers
  BY ConstantsAssumption
<1>2. ASSUME UNCHANGED <<fTaskLoop, fThread, player, closer, overlap>>,
             \A w \in Workers : Running(w)' => Running(w)
      PROVE  StopInv'
  BY <1>2 DEF StopInv, BeingStarted, NoneRuns
<1>3. ASSUME UNCHANGED pc
      PROVE  /\ \A w \in Workers : Running(w)' <=> Running(w)
             /\ NoneRuns' <=> NoneRuns
  BY <1>3 DEF Running, NoneRuns
<1>4. CASE PlayURL
  BY <1>1, <1>3, <1>4 DEF PlayURL, StopInv, BeingStarted
<1>5. CASE TurnOn
  BY <1>2, <1>3, <1>5 DEF TurnOn
<1>6. CASE StartCheck
  <2>1. closer = "idle" /\ ~overlap
    BY <1>6 DEF StartCheck, TypeOK
  <2>2. CASE fTaskLoop
    BY <1>1, <1>3, <1>6, <2>1, <2>2 DEF StartCheck, StopInv, BeingStarted
  <2>3. CASE ~fTaskLoop
    BY <1>1, <1>3, <1>6, <2>1, <2>3 DEF StartCheck, StopInv, BeingStarted, NoneRuns
  <2> QED BY <2>2, <2>3
<1>7. CASE \E w \in Workers : CreateThread(w)
  <2>1. PICK w \in Workers : CreateThread(w)
    BY <1>7
  <2>2. player = "create" /\ player' = w /\ closer = "idle" /\ fTaskLoop /\ NoneRuns /\ ~overlap
    BY <2>1 DEF CreateThread, StopInv, BeingStarted
  <2>3. \A v \in Workers : Running(v)' => v = w
    BY <2>1, <2>2 DEF CreateThread, NoneRuns, Running, TypeOK
  <2> QED BY <1>1, <2>1, <2>2, <2>3 DEF CreateThread, StopInv, BeingStarted
<1>8. CASE StoreThread
  BY <1>1, <1>3, <1>8 DEF StoreThread, StopInv, BeingStarted
<1>9. CASE CreateFails
  BY <1>1, <1>3, <1>9 DEF CreateFails, StopInv, BeingStarted, NoneRuns
<1>10. ASSUME NEW call, StopFlag(call), closer \in {"idle", "off"}
       PROVE  StopInv'
  <2>1. player \notin {"create"} \cup Workers /\ player' = player /\ closer' = "join" /\ ~overlap
    BY <1>10 DEF StopFlag, TypeOK
  <2> QED BY <1>3, <1>10, <2>1 DEF StopFlag, StopInv, BeingStarted
<1>11. CASE CloseURL \/ DestroyClient \/ DestroyScheduler
  BY <1>10, <1>11 DEF CloseURL, DestroyClient, DestroyScheduler
<1>12. CASE Join
  <2>1. ~overlap /\ player \notin Workers /\ player # "create"
    BY <1>12 DEF Join, StopInv, BeingStarted
  <2>2. NoneRuns
    BY <1>1, <1>12, <2>1 DEF Join, Joined, StopInv, NoneRuns, Running
  <2> QED BY <1>3, <1>12, <2>1, <2>2 DEF Join, StopInv, BeingStarted, NoneRuns
<1>13. CASE DestroyThread
  <2>1. ~overlap /\ player \notin Workers /\ player # "create" /\ NoneRuns
    BY <1>13 DEF DestroyThread, StopInv, BeingStarted
  <2> QED BY <1>3, <1>13, <2>1 DEF DestroyThread, StopInv, BeingStarted, NoneRuns
<1>14. CASE TurnOff
  BY <1>2, <1>3, <1>14 DEF TurnOff
<1>15. CASE ResetReturns
  <2>1. ~overlap /\ player \notin Workers /\ player # "create" /\ NoneRuns
    BY <1>15 DEF ResetReturns, StopInv, BeingStarted
  <2> QED BY <1>3, <1>15, <2>1 DEF ResetReturns, StopInv, BeingStarted, NoneRuns
<1>16. ASSUME NEW w \in Workers, EventStep(w)
       PROVE  StopInv'
  <2>1. UNCHANGED <<fTaskLoop, fThread, player, closer, overlap>>
    BY <1>16 DEF EventStep, LoopTest, Lock, SelectReady, SelectNone, HandlerReads, HandlerFails, Unlock
  <2>2. Running(w)
    BY <1>16 DEF EventStep, LoopTest, Lock, SelectReady, SelectNone, HandlerReads, HandlerFails, Unlock,
                 At, Running
  <2>3. \A v \in Workers : v # w => pc'[v] = pc[v]
    BY <1>16 DEF EventStep, LoopTest, Lock, SelectReady, SelectNone, HandlerReads, HandlerFails, Unlock,
                 Goto, TypeOK
  <2> QED BY <1>2, <2>1, <2>2, <2>3 DEF Running
<1>17. CASE Arrive \/ UNCHANGED loopVars
  BY <1>2, <1>3, <1>17 DEF Arrive, loopVars
<1> QED BY <1>4, <1>5, <1>6, <1>7, <1>8, <1>9, <1>11, <1>12, <1>13, <1>14, <1>15, <1>16, <1>17
        DEF LoopNext, PlayerStep, CloserStep

\* A handler that runs is installed, and once stopEventLoop has joined no event thread runs,
\* unless a start ran into the stop (turnOffBackgroundReadHandling, stopEventLoop).
THEOREM StrayFree == LoopSpec => []NoStrayHandler
<1>1. LoopInit => MutexInv /\ StopInv
  BY ConstantsAssumption DEF LoopInit, MutexInv, StopInv, BeingStarted, NoneRuns, Running
<1>2. TypeOK /\ MutexInv /\ StopInv /\ [LoopNext]_loopVars => (MutexInv /\ StopInv)'
  BY StepMutex, StepStop
<1>3. MutexInv /\ StopInv => NoStrayHandler
  BY DEF NoStrayHandler, QuietAfterStop, HandlerIsInstalled, MutexInv, StopInv, NoneRuns, At
<1> QED BY <1>1, <1>2, <1>3, LoopTypes, PTL DEF LoopSpec
=============================================================================
