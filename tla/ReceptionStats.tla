---------------------------- MODULE ReceptionStats ----------------------------
(***************************************************************************)
(* What an RTP source counts for its receiver reports: RTPReceptionStats   *)
(* (RTSP/RTSPClient/RTCP/RTCP.cpp) of the one SSRC of a stream, and what   *)
(* RTCPInstance::enqueueReportBlock computes from it.  A packet is         *)
(* counted before the reordering buffer sees it, and so are duplicates and *)
(* late ones.  The sender numbers its packets 1, 2, ...; the stream may    *)
(* start anywhere, and a packet carries the low 16 bits of its number.     *)
(* The 32 bits of the extended numbers are not exhausted; jitter, byte     *)
(* counts and clock synchronisation are left out.                          *)
(***************************************************************************)
EXTENDS Integers, FiniteSets

CONSTANTS
  MaxNumber,    \* bound: the last number the sender gives
  Half,         \* half the number of sequence numbers (0x8000)
  Reach,        \* environment: how far a packet may be from the highest one
  MaxExtra      \* bound: duplicates, and packets from before the first one

ASSUME StatsAssumption ==
  /\ MaxNumber \in Nat /\ Half \in Nat \ {0}
  /\ Reach \in Nat /\ Reach < Half /\ MaxExtra \in Nat

Numbers == 1..MaxNumber
SeqNums == 0 .. 2 * Half - 1
seq(n) == n % (2 * Half)

VARIABLES
  present,                           \* the record of the SSRC exists
  fHaveSeenInitialSequenceNumber,
  fBaseExtSeqNumReceived, fHighestExtSeqNumReceived,
  fTotNumPacketsReceived,
  fNumPacketsReceivedSinceLastReset, fLastResetExtSeqNumReceived,
  first, top,                        \* history: first and highest number received, 0 at first
  got,                               \* history: numbers received, from the first on
  extra,                             \* history: duplicates and numbers below the first
  intervals,                         \* history: sum of the losses of the reported intervals
  reportFirst                        \* history: a sender report came before any packet

counters == <<fHaveSeenInitialSequenceNumber, fBaseExtSeqNumReceived, fHighestExtSeqNumReceived,
              fTotNumPacketsReceived>>
interval == <<fNumPacketsReceivedSinceLastReset, fLastResetExtSeqNumReceived>>
statsHistory == <<first, top, got, extra>>
statsVars == <<present, counters, interval, statsHistory, intervals, reportFirst>>

StatsInit ==
  /\ present = FALSE /\ fHaveSeenInitialSequenceNumber = FALSE
  /\ fBaseExtSeqNumReceived = 0 /\ fHighestExtSeqNumReceived = 0 /\ fTotNumPacketsReceived = 0
  /\ fNumPacketsReceivedSinceLastReset = 0 /\ fLastResetExtSeqNumReceived = 0
  /\ first = 0 /\ top = 0 /\ got = {} /\ extra = 0 /\ intervals = 0 /\ reportFirst = FALSE

seqNumLT(s1, s2) ==
  LET diff == s2 - s1 IN (diff > 0 /\ diff < Half) \/ (diff < 0 /\ diff < -Half)

\* mutant: the cycle is not advanced when the low bits wrap around
RaisedInCycle(highest, s) ==
  LET old == seq(highest)
      new == highest - old + s
  IN IF seqNumLT(old, s) /\ new > highest THEN new ELSE highest

\* The highest extended number once a packet with the low bits s has come.
Raised(highest, s) ==
  LET old == seq(highest)
      cycle == highest - old + (IF s < old THEN 2 * Half ELSE 0)
  IN IF seqNumLT(old, s) /\ cycle + s > highest THEN cycle + s ELSE highest

(***************************************************************************)
(* noteIncomingPacket.  The constructor that is given a number calls       *)
(* init() after initSeqNum(), which forgets that it has seen it:           *)
(* noteIncomingPacket initialises once more, with the same number.         *)
(***************************************************************************)
Starting == ~present \/ ~fHaveSeenInitialSequenceNumber

BaseBefore(s) == s - 1

counts(s) ==
  /\ present' = TRUE /\ fHaveSeenInitialSequenceNumber' = TRUE
  /\ fBaseExtSeqNumReceived' = IF Starting THEN BaseBefore(s) ELSE fBaseExtSeqNumReceived
  /\ fHighestExtSeqNumReceived' = IF Starting THEN s ELSE Raised(fHighestExtSeqNumReceived, s)
  /\ fTotNumPacketsReceived' = fTotNumPacketsReceived + 1
  /\ fNumPacketsReceivedSinceLastReset' = fNumPacketsReceivedSinceLastReset + 1
  /\ fLastResetExtSeqNumReceived' = IF present THEN fLastResetExtSeqNumReceived ELSE s

Higher(n) == IF n > top THEN n ELSE top
IsExtra(n) == first > 0 /\ (n < first \/ n \in got)

\* What the network may bring: a number not too far from the highest one.
MayCome(n) ==
  /\ first > 0 => n >= top - Reach /\ n <= top + Reach
  /\ IsExtra(n) => extra < MaxExtra

noteIncomingPacket(n) ==
  /\ MayCome(n)
  /\ counts(seq(n))
  /\ first' = (IF first = 0 THEN n ELSE first) /\ top' = Higher(n)
  /\ got' = (IF IsExtra(n) THEN got ELSE got \cup {n})
  /\ extra' = (IF IsExtra(n) THEN extra + 1 ELSE extra)
  /\ UNCHANGED <<intervals, reportFirst>>

\* A sender report that comes first creates the record, and reset() copies a highest number
\* that nobody has set: any value.
noteIncomingSR ==
  /\ ~present
  /\ present' = TRUE /\ reportFirst' = TRUE
  /\ fLastResetExtSeqNumReceived' \in SeqNums
  /\ UNCHANGED <<counters, fNumPacketsReceivedSinceLastReset, statsHistory, intervals>>

(***************************************************************************)
(* The report block, and the reset that follows it.  A source from which   *)
(* nothing came since the last report has no block and is not reset.       *)
(***************************************************************************)
totNumLost == fHighestExtSeqNumReceived - fBaseExtSeqNumReceived - fTotNumPacketsReceived
numLostSinceLastReset ==
  fHighestExtSeqNumReceived - fLastResetExtSeqNumReceived - fNumPacketsReceivedSinceLastReset

enqueueReportBlock ==
  /\ fNumPacketsReceivedSinceLastReset > 0
  /\ intervals' = intervals + numLostSinceLastReset
  /\ fNumPacketsReceivedSinceLastReset' = 0
  /\ fLastResetExtSeqNumReceived' = fHighestExtSeqNumReceived
  /\ UNCHANGED <<present, counters, statsHistory, reportFirst>>

-----------------------------------------------------------------------------

\* The total a report gives as lost is what is missing between the first and the highest packet,
\* less what came twice or from before the first: the extended highest number follows the
\* sender's, however often the 16 bits wrap around and whatever comes late or twice.
LossIsTrue ==
  first > 0 => totNumLost = top - first + 1 - Cardinality(got) - extra

\* The losses of the intervals add up to the total, but for the first packet, which its interval
\* counts as received and not as expected; nothing is known when a sender report came first.
IntervalsAddUp ==
  first > 0 /\ ~reportFirst => intervals + numLostSinceLastReset = totNumLost - 1

\* What the reports say of the loss is so: both.
LossReported == LossIsTrue /\ IntervalsAddUp
=============================================================================
