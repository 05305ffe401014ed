------------------------------ MODULE RTPSource ------------------------------
(***************************************************************************)
(* How an RTP source turns packets into frames                             *)
(* (RTSP/RTSPClient/RTP/RTPSource.cpp and the processFrame of each codec): *)
(* a packet that has come is counted (ReceptionStats), put into order      *)
(* (what InOrderDelivery promises of the reordering buffer), and the       *)
(* packets that are complete are appended to the frame buffer and handed   *)
(* to the frame handler by the rule of their codec.  Everything runs on    *)
(* the event thread.                                                       *)
(*                                                                         *)
(* The sender's stream is a sequence of packets; a unit is what its codec  *)
(* delivers at once (a NAL unit, a picture, an audio frame).  The contents *)
(* of a frame are the pieces <<number of the packet, index in it>> it was  *)
(* put together from; <<0, 1>> is the configuration that precedes the      *)
(* first frame.  A piece stands for any number of bytes.                   *)
(***************************************************************************)
EXTENDS ReceptionStats, Sequences

CONSTANTS
  Streams,     \* the streams a sender may send: [codec, packets, ext]
  FrameSize    \* FRAME_BUFFER_SIZE, in pieces

\* A packet: what it carries of a unit ("whole", "fragment", "aggregate": two whole units,
\* "param": SPS or PPS), whether it begins and ends the unit, the marker bit, the timestamp.
\* ext: the first packet of every timestamp has a header extension with the time.
Codecs == {"plain", "H264", "H265", "MPEG4ES", "MPEG4Generic", "JPEG", "AC3"}

Kinds == {"whole", "fragment", "aggregate", "param"}
Packets == [kind : Kinds, first : BOOLEAN, last : BOOLEAN, marker : BOOLEAN, ts : Nat \ {0}]

\* Units are sent one after the other: a packet that is not a fragment is all of one, and after the
\* end of one another begins.
UnitsFollow(p) ==
  \A n \in DOMAIN p :
    /\ p[n].kind # "fragment" => p[n].first /\ p[n].last
    /\ \E m \in 1..n : p[m].first /\ \A k \in m + 1 .. n : ~p[k].first
    /\ p[n].last /\ n + 1 \in DOMAIN p => p[n + 1].first

\* The payload format says where a timestamp ends: with a marker, with the end of a NAL unit that
\* is not an SPS or PPS, or with the only packet that has it.
TimestampEnds(codec, p, n) ==
  CASE codec = "plain" -> p[n].marker \/ (n > 1 => p[n - 1].ts # p[n].ts)
    [] codec \in {"H264", "H265"} -> p[n].last /\ p[n].kind # "param"
    [] codec \in {"MPEG4ES", "JPEG", "AC3"} -> p[n].marker
    [] OTHER -> TRUE

WellFormed(codec, p) ==
  /\ UnitsFollow(p)
  /\ \A n \in DOMAIN p :
       /\ n + 1 \in DOMAIN p /\ p[n + 1].ts # p[n].ts => TimestampEnds(codec, p, n)
       /\ codec \in {"MPEG4ES", "JPEG"} => p[n].marker = p[n].last
       /\ codec = "plain" /\ p[n].kind = "whole" => TimestampEnds(codec, p, n)

ASSUME StreamsAssumption ==
  /\ FrameSize \in Nat \ {0}
  /\ \A s \in Streams :
       /\ s.codec \in Codecs /\ s.ext \in BOOLEAN
       /\ s.packets \in Seq(Packets) /\ Len(s.packets) <= MaxNumber
       /\ WellFormed(s.codec, s.packets)

VARIABLES
  stream,                    \* what the sender sends
  buffered, expected,        \* the reordering buffer (InOrderDelivery)
  arrived,                   \* the packet rtpReadHandler works on, 0 between packets
  fLastTimestamp,
  fFrameBuf,                 \* pieces, up to fFrameBufPos
  fIsStartFrame, fBeginFrame,
  saved,                     \* the packet that occupies fSavedPacket, 0 when it is free
  savedExt,                  \* fExtTimestamp of the object fSavedPacket
  ext,                       \* packet -> fExtTimestamp of its object, 0: none
  out,                       \* history: the frames the last packet delivered
  processed,                 \* history: the last packet processed, 0 at first
  runStart,                  \* history: where the packets processed without a gap begin
  cut,                       \* history: the buffer overflowed in the frame of the last packet
  overflowed,                \* history: it overflowed in the frame being put together
  inSequence                 \* history: packets came one after the other so far

bufferVars == <<buffered, expected>>
frameVars == <<fFrameBuf, fIsStartFrame, fBeginFrame>>
objectVars == <<saved, savedExt, ext>>
processVars == <<out, processed, runStart, cut, overflowed>>
vars == <<statsVars, stream, bufferVars, arrived, fLastTimestamp, frameVars, objectVars,
          processVars, inSequence>>

Buffer == INSTANCE InOrderDelivery

Sent == DOMAIN stream.packets
packet(n) == stream.packets[n]
HasExtension(n) == stream.ext /\ (n = 1 \/ packet(n - 1).ts # packet(n).ts)

Init ==
  /\ StatsInit /\ Buffer!Init
  /\ stream \in Streams
  /\ arrived = 0 /\ fLastTimestamp = 0
  /\ fFrameBuf = <<>> /\ fIsStartFrame = FALSE /\ fBeginFrame = FALSE
  /\ saved = 0 /\ savedExt = 0 /\ ext = [n \in Numbers |-> 0]
  /\ out = <<>> /\ processed = 0 /\ runStart = 0 /\ cut = FALSE /\ overflowed = FALSE
  /\ inSequence = TRUE

(***************************************************************************)
(* rtpReadHandler: the packet is counted, stored or freed.                 *)
(***************************************************************************)
\* mutant: the time an object has is not replaced
ExtensionOnce(n, before) == IF HasExtension(n) /\ before = 0 THEN packet(n).ts ELSE before
\* packetHandler sets fExtTimestamp when there is an extension; RTPPacketBuffer::reset keeps it.
Extension(n, before) == IF HasExtension(n) THEN packet(n).ts ELSE before

\* getFreePacket hands out the saved object when it is free, and a new one otherwise.
Receive(n) ==
  /\ arrived = 0 /\ n \in Sent
  /\ noteIncomingPacket(n)
  /\ arrived' = n
  /\ inSequence' = (inSequence /\ (first = 0 \/ n = top + 1))
  /\ LET object == Extension(n, IF saved = 0 THEN savedExt ELSE 0)
     IN /\ savedExt' = IF saved = 0 THEN object ELSE savedExt
        /\ \/ /\ Buffer!Start(n) \/ Buffer!Accept(n)
              /\ saved' = IF saved = 0 THEN n ELSE saved
              /\ ext' = [ext EXCEPT ![n] = object]
           \/ /\ expected > 0 /\ (n < expected \/ n \in buffered)
              /\ UNCHANGED <<bufferVars, saved, ext>>
  /\ UNCHANGED <<stream, fLastTimestamp, frameVars, processVars>>

(***************************************************************************)
(* The frame buffer.                                                       *)
(***************************************************************************)
Overflows(buf) == Len(buf) + 1 >= FrameSize
copyToFrameBuffer(buf, piece) == IF Overflows(buf) THEN <<piece>> ELSE Append(buf, piece)

\* What processFrame does to the buffer and which frames it delivers.
Kept(buf) == [buf |-> buf, out |-> <<>>]
\* mutant: resetFrameBuf is forgotten
DeliveredKept(buf) == [buf |-> buf, out |-> <<buf>>]
Delivered(buf) == [buf |-> <<>>, out |-> <<buf>>]

Piece(n) == <<n, 1>>
Configuration == <<0, 1>>

(***************************************************************************)
(* processFrame of each codec: the packet n, and the buffer.               *)
(***************************************************************************)
\* Every unit of an aggregate is delivered; what was in the buffer goes with the first.
Separately(n, buf) ==
  [buf |-> <<>>, out |-> <<copyToFrameBuffer(buf, <<n, 1>>), <<<<n, 2>>>> >>]

\* RTPSource: a packet with the marker, or with another timestamp than the one that came last.
plain(n, buf) ==
  LET with == copyToFrameBuffer(buf, Piece(n)) IN
  IF packet(n).marker \/ fLastTimestamp # packet(n).ts THEN Delivered(with) ELSE Kept(with)

\* mutant: a fragment is delivered whether it ends the unit or not
NALAtOnce(n, buf) ==
  IF packet(n).kind = "aggregate" THEN Separately(n, buf)
  ELSE LET with == copyToFrameBuffer(buf, Piece(n)) IN
       IF packet(n).kind # "param" THEN Delivered(with) ELSE Kept(with)
\* H264 and H265 (which knows no "param"): fragments until the end bit.
NAL(n, buf) ==
  IF packet(n).kind = "aggregate" THEN Separately(n, buf)
  ELSE LET with == copyToFrameBuffer(buf, Piece(n)) IN
       IF packet(n).last /\ packet(n).kind # "param" THEN Delivered(with) ELSE Kept(with)

JPEG(n, buf) ==
  LET with == copyToFrameBuffer(buf, Piece(n)) IN
  IF packet(n).marker THEN Delivered(with) ELSE Kept(with)

\* Nothing is copied before a packet that begins with a start code; the marker delivers.
MPEG4ES(n, buf) ==
  LET with == IF fBeginFrame \/ packet(n).first THEN copyToFrameBuffer(buf, Piece(n)) ELSE buf IN
  IF packet(n).marker THEN Delivered(with) ELSE Kept(with)

\* Fragments that are not initial (FT = 3) are not copied.
AC3(n, buf) ==
  LET with == IF packet(n).first THEN copyToFrameBuffer(buf, Piece(n)) ELSE buf IN
  IF packet(n).marker \/ packet(n).kind = "whole" THEN Delivered(with) ELSE Kept(with)

MPEG4Generic(n, buf) ==
  IF packet(n).kind = "aggregate" THEN Separately(n, buf)
  ELSE Delivered(copyToFrameBuffer(buf, Piece(n)))

\* The configuration precedes the first packet (H264), the first that begins a picture (MPEG4ES).
StartsFrames(n) ==
  /\ ~fIsStartFrame
  /\ \/ stream.codec = "H264"
     \/ stream.codec = "MPEG4ES" /\ packet(n).first
Before(n) == IF StartsFrames(n) THEN copyToFrameBuffer(fFrameBuf, Configuration) ELSE fFrameBuf

Result(n) ==
  LET buf == Before(n) IN
  CASE stream.codec = "plain" -> plain(n, buf)
    [] stream.codec \in {"H264", "H265"} -> NAL(n, buf)
    [] stream.codec = "MPEG4ES" -> MPEG4ES(n, buf)
    [] stream.codec = "MPEG4Generic" -> MPEG4Generic(n, buf)
    [] stream.codec = "JPEG" -> JPEG(n, buf)
    [] stream.codec = "AC3" -> AC3(n, buf)

Begins(n) ==
  CASE stream.codec = "MPEG4ES" -> (fBeginFrame \/ packet(n).first) /\ ~packet(n).marker
    [] stream.codec = "AC3" -> packet(n).first /\ ~packet(n).marker /\ packet(n).kind # "whole"
    [] OTHER -> fBeginFrame

(***************************************************************************)
(* processNextPacket: a packet that is complete, or given up waiting for,  *)
(* is processed and released.                                              *)
(***************************************************************************)
processFrame(n) ==
  LET result == Result(n)
      overflows == overflowed \/ Overflows(fFrameBuf) \/ Overflows(Before(n))
  IN /\ fFrameBuf' = result.buf /\ out' = result.out
     /\ fIsStartFrame' = (fIsStartFrame \/ StartsFrames(n)) /\ fBeginFrame' = Begins(n)
     /\ cut' = overflows /\ overflowed' = (overflows /\ result.out = <<>>)

Process(n) ==
  /\ arrived > 0 /\ Buffer!Release(n)
  /\ processFrame(n)
  /\ saved' = IF saved = n THEN 0 ELSE saved
  /\ processed' = n /\ runStart' = IF n = processed + 1 /\ runStart > 0 THEN runStart ELSE n
  /\ UNCHANGED <<statsVars, stream, arrived, fLastTimestamp, savedExt, ext, inSequence>>

\* Nothing is complete, or the head is waited for.
NoneCompleted ==
  /\ arrived > 0 /\ expected \notin buffered
  /\ arrived' = 0 /\ fLastTimestamp' = packet(arrived).ts
  /\ UNCHANGED <<statsVars, stream, bufferVars, frameVars, objectVars, processVars, inSequence>>

\* Between packets: the RTCP packets.
SenderReport ==
  /\ arrived = 0 /\ noteIncomingSR
  /\ UNCHANGED <<stream, bufferVars, arrived, fLastTimestamp, frameVars, objectVars,
                 processVars, inSequence>>
Report ==
  /\ arrived = 0 /\ enqueueReportBlock
  /\ UNCHANGED <<stream, bufferVars, arrived, fLastTimestamp, frameVars, objectVars,
                 processVars, inSequence>>

Next ==
  \/ \E n \in Numbers : Receive(n) \/ Process(n)
  \/ NoneCompleted \/ SenderReport \/ Report

Spec == Init /\ [][Next]_vars

-----------------------------------------------------------------------------

UnitStart(n) == CHOOSE m \in 1..n : packet(m).first /\ \A k \in m + 1 .. n : ~packet(k).first
Unit(n) == [i \in 1 .. n - UnitStart(n) + 1 |-> Piece(UnitStart(n) + i - 1)]
EndsWith(frame, tail) ==
  /\ Len(frame) >= Len(tail)
  /\ \A i \in DOMAIN tail : frame[Len(frame) - Len(tail) + i] = tail[i]

\* What the codec's source puts together from several packets at all: RTPSource itself delivers
\* the first packet of a timestamp at once, AC3RTPSource drops all fragments but the first, and
\* MPEG4GenericRTPSource delivers each of them.
PutTogether(n) ==
  CASE stream.codec \in {"plain", "AC3", "MPEG4Generic"} -> packet(n).kind = "whole"
    [] OTHER -> packet(n).kind \in {"whole", "fragment"}

\* A unit whose packets were all processed comes out with its last packet, in one piece and in
\* order, at the end of a frame, whatever was lost, late or twice before it; unless the buffer
\* overflowed.  (Of plain packets without marker: as long as none came out of sequence.)
IntactUnitComesOut ==
  processed > 0 =>
    LET n == processed IN
    packet(n).last /\ PutTogether(n) /\ UnitStart(n) >= runStart /\ ~cut
      /\ (stream.codec = "plain" => packet(n).marker \/ inSequence)
      => out # <<>> /\ EndsWith(out[Len(out)], Unit(n))

\* Two pieces that follow one another have the same timestamp, or a packet between them is missing,
\* or packets came out of sequence and the codec is plain.
Unmixed(frame) ==
  \A i \in DOMAIN frame \ {1} :
    LET x == frame[i - 1]
        y == frame[i]
    IN x # Configuration /\ packet(x[1]).ts # packet(y[1]).ts
         => y[1] > x[1] + 1 \/ (stream.codec = "plain" /\ ~inSequence)

\* A frame, or what is in the buffer, has packets of two timestamps only where a packet between
\* them is missing, or, of plain packets without marker, when packets came out of sequence
\* (processFrame compares with the timestamp of the packet that came last, not of the one it
\* processed last).
MixedOnlyAtGap == Unmixed(fFrameBuf) /\ \A k \in DOMAIN out : Unmixed(out[k])

Later(x, y) == x[1] < y[1] \/ (x[1] = y[1] /\ x[2] < y[2])
Ascending(pieces) == \A i, j \in DOMAIN pieces : i < j => Later(pieces[i], pieces[j])

\* Every piece goes out once, in the sender's order: no frame repeats what an earlier one or
\* the buffer has, and none is put together out of order.
PiecesOnceInOrder ==
  Ascending((IF out = <<>> THEN <<>> ELSE out[1]) \o (IF Len(out) = 2 THEN out[2] ELSE <<>>)
              \o fFrameBuf)

\* Frames are cut and put together rightly: both, and the buffer holds them.
FramesRight == MixedOnlyAtGap /\ PiecesOnceInOrder /\ (Len(fFrameBuf) < FrameSize \/ Len(fFrameBuf) = 1)

\* The time a frame is delivered with.
MediaTime(n) == IF ext[n] = 0 THEN packet(n).ts ELSE ext[n]

\* A frame has the time of its own packets: the extension a packet object keeps from an earlier
\* packet (RTPPacketBuffer::reset) is that of the same frame, unless packets were lost, late or
\* twice.
TimeIsOwn == out # <<>> /\ inSequence => MediaTime(processed) = packet(processed).ts
=============================================================================
