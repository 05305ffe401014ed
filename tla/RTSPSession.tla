------------------------------ MODULE RTSPSession ------------------------------
(***************************************************************************)
(* One RTSP session over one TCP connection                                *)
(* (RTSP/RTSPClient/RTSP/RTSPClient.cpp), as the viewer runs it: a thread  *)
(* of its own opens and plays the session, the event thread then reads the *)
(* connection, and the user interface closes it, at any time.  Requests    *)
(* are answered on the connection the packets come on; the answers are     *)
(* taken in the order they come, whatever their CSeq.                      *)
(*                                                                         *)
(* The wire is a sequence of tokens: an answer is one, a packet is a       *)
(* dollar, a channel, a size and that many pieces of data.  A track has    *)
(* one channel here, for RTP and RTCP.                                     *)
(***************************************************************************)
EXTENDS Integers, Sequences

CONSTANTS
  LastTrack,       \* the subsessions of the description are 1..LastTrack, in its order
  PacketSize,      \* pieces of data in a packet
  MaxPackets, MaxKeepAlives    \* bounds

ASSUME ConstantsAssumption ==
  /\ LastTrack \in Nat \ {0} /\ PacketSize \in Nat \ {0}
  /\ MaxPackets \in Nat /\ MaxKeepAlives \in Nat

Tracks == 1..LastTrack
Channels == {t - 1 : t \in Tracks}
OtherChannel == -1
NoTrack == 0

VARIABLES
  \* the client
  connected, fMediaSession,     \* the socket is open; there is a session object
  fCSeq, fLastSessionId,        \* the number of the last request; there is a session id
  fTCPStreamIdCount,
  channelId,                    \* rtpChannelId of each track, not set by the constructor
  \* openURL and playURL
  call, stage, track, reading,  \* the call, its request, the track set up, whether it waits
  retried, discarded, opened,
  \* the event thread
  running, fTCPReadingState, fNextTCPSource, fTCPReadSize, fRtpBuffer, keepAlives,
  \* closeURL and the destructor: which step of reset, the number TEARDOWN will have
  closer, seen,
  \* the connection and the server
  requests, wire, granted, playing, packets,
  \* history
  sent,         \* requests that were sent: [cseq, what]
  taken,        \* the last answer that was taken: [request, answer], their numbers
  timeouts,     \* requests that were given up
  raced,        \* closeURL found a session while it was being opened or played
  misused,      \* a session object was used after it had been deleted
  lost,         \* the event thread met a channel it does not know
  delivered     \* packets handed to a source: [pieces, source]

clientVars == <<connected, fMediaSession, fCSeq, fLastSessionId, fTCPStreamIdCount, channelId>>
callVars == <<call, stage, track, reading, retried, discarded, opened>>
eventVars == <<running, fTCPReadingState, fNextTCPSource, fTCPReadSize, fRtpBuffer>>
closeVars == <<closer, seen>>
serverVars == <<granted, playing, packets>>
historyVars == <<taken, timeouts, raced, misused, lost, delivered>>
vars == <<clientVars, callVars, eventVars, keepAlives, closeVars, requests, wire, serverVars,
          sent, historyVars>>

NoAnswer == [request |-> 0, answer |-> 0]

Init ==
  /\ connected = FALSE /\ fMediaSession = FALSE /\ fCSeq = 0 /\ fLastSessionId = FALSE
  /\ fTCPStreamIdCount = 0 /\ channelId = [t \in Tracks |-> OtherChannel]
  /\ call = "none" /\ stage = "none" /\ track = NoTrack /\ reading = "no"
  /\ retried = FALSE /\ discarded = FALSE /\ opened = FALSE
  /\ running = FALSE /\ fTCPReadingState = "dollar" /\ fNextTCPSource = NoTrack
  /\ fTCPReadSize = 0 /\ fRtpBuffer = <<>> /\ keepAlives = 0
  /\ closer = "idle" /\ seen = 0
  /\ requests = <<>> /\ wire = <<>>
  /\ granted = {} /\ playing = FALSE /\ packets = <<>>
  /\ sent = <<>> /\ taken = NoAnswer
  /\ timeouts = 0 /\ raced = FALSE /\ misused = FALSE /\ lost = FALSE /\ delivered = <<>>

(***************************************************************************)
(* openURL and playURL: OPTIONS, DESCRIBE (each a second time when the     *)
(* first answer asks for authorization), SETUP for each track, PLAY.       *)
(***************************************************************************)
Goto(next, t) ==
  /\ stage' = next /\ track' = t /\ reading' = "send" /\ retried' = FALSE /\ discarded' = FALSE
Ends == call' = "none" /\ stage' = "none" /\ track' = NoTrack /\ reading' = "no"

\* connectToServer may fail, and openURL then returns.
OpenURL ==
  /\ call = "none" /\ stage = "none" /\ sent = <<>> /\ ~connected /\ closer = "idle"
  /\ connected' = TRUE /\ call' = "open" /\ Goto("OPTIONS", NoTrack)
  /\ UNCHANGED <<fMediaSession, fCSeq, fLastSessionId, fTCPStreamIdCount, channelId, opened,
                 eventVars, keepAlives, closeVars, requests, wire, serverVars, sent, historyVars>>

\* Between the tracks, and when the sources are started, the session object is walked through.
Misuses == (stage = "SETUP" \/ stage = "start") /\ ~fMediaSession
Misuse ==
  /\ Misuses
  /\ misused' = TRUE
  /\ UNCHANGED <<clientVars, callVars, eventVars, keepAlives, closeVars, requests, wire, serverVars,
                 sent, taken, timeouts, raced, lost, delivered>>

Request(number, what, t, channel) ==
  [cseq |-> number, what |-> what, track |-> t, channel |-> channel]
Send(request) ==
  /\ requests' = IF connected THEN Append(requests, request) ELSE requests
  /\ sent' = Append(sent, [cseq |-> request.cseq, what |-> request.what])

\* mutant: every SETUP asks for the same channels
SameCount == fTCPStreamIdCount
\* Every SETUP asks for the next channels.
CountAfterRequest == IF stage = "SETUP" THEN fTCPStreamIdCount + 1 ELSE fTCPStreamIdCount
SendRequest ==
  /\ reading = "send" /\ stage # "start" /\ ~Misuses
  /\ stage = "PLAY" => fMediaSession /\ fLastSessionId
  /\ fCSeq' = fCSeq + 1
  /\ Send(Request(fCSeq + 1, stage, track, fTCPStreamIdCount))
  /\ fTCPStreamIdCount' = CountAfterRequest
  /\ reading' = "wait"
  /\ UNCHANGED <<connected, fMediaSession, fLastSessionId, channelId, call, stage, track, retried,
                 discarded, opened, eventVars, keepAlives, closeVars, wire, serverVars, historyVars>>

\* playURL looks for a session first.
NothingToPlay ==
  /\ stage = "PLAY" /\ reading = "send" /\ ~(fMediaSession /\ fLastSessionId)
  /\ Ends
  /\ UNCHANGED <<clientVars, retried, discarded, opened, eventVars, keepAlives, closeVars, requests,
                 wire, serverVars, sent, historyVars>>

\* A request fails: openURL goes on to the next track and gives up otherwise; after the last
\* track it is over, and playURL follows if a track is set up.
AfterTracks ==
  IF opened' THEN call' = "play" /\ Goto("PLAY", NoTrack)
  ELSE Ends /\ UNCHANGED <<retried, discarded>>
NextTrack ==
  IF track = LastTrack THEN AfterTracks ELSE UNCHANGED call /\ Goto("SETUP", track + 1)
Fails ==
  /\ IF stage = "SETUP" THEN opened' = opened /\ NextTrack
     ELSE Ends /\ UNCHANGED <<retried, discarded, opened>>
  /\ UNCHANGED <<fMediaSession, fLastSessionId, channelId>>

\* mutant: only the first request is waited for with a timeout
FirstTimed == stage = "OPTIONS"
\* The first byte of an answer is waited for with a timeout, unless a packet has been discarded
\* before: then the rest of "the answer" is waited for without one.
Timed == ~discarded
TimesOut ==
  /\ reading = "wait" /\ connected /\ wire = <<>> /\ Timed
  /\ timeouts' = timeouts + 1
  /\ Fails
  /\ UNCHANGED <<connected, fCSeq, fTCPStreamIdCount, eventVars, keepAlives, closeVars, requests,
                 wire, serverVars, sent, taken, raced, misused, lost, delivered>>
StopsTiming ==
  /\ reading = "wait" /\ connected /\ wire = <<>> /\ discarded
  /\ reading' = "rest"
  /\ UNCHANGED <<clientVars, call, stage, track, retried, discarded, opened, eventVars, keepAlives,
                 closeVars, requests, wire, serverVars, sent, historyVars>>

\* The socket was closed under it.
ReadFails ==
  /\ reading \in {"wait", "rest"} /\ ~connected /\ ~Misuses
  /\ Fails
  /\ UNCHANGED <<connected, fCSeq, fTCPStreamIdCount, eventVars, keepAlives, closeVars, requests,
                 wire, serverVars, sent, historyVars>>

\* An interleaved packet before the answer is read and discarded.
DiscardPacket ==
  /\ reading = "wait" /\ wire # <<>> /\ Head(wire).is = "dollar"
  /\ wire' = SubSeq(wire, 4 + wire[3].n, Len(wire))
  /\ discarded' = TRUE
  /\ UNCHANGED <<clientVars, call, stage, track, reading, retried, opened, eventVars, keepAlives,
                 closeVars, requests, serverVars, sent, historyVars>>

\* mutant: an answer that is not 200 is not read to its end
AfterGoodAnswer == IF Head(wire).status = "ok" THEN Tail(wire) ELSE wire
AfterAnswer == Tail(wire)

Succeeds(answer) ==
  CASE stage = "OPTIONS" ->
         Goto("DESCRIBE", NoTrack) /\ UNCHANGED <<call, opened, fMediaSession, fLastSessionId, channelId>>
    [] stage = "DESCRIBE" ->
         /\ fMediaSession' = TRUE
         /\ channelId' \in [Tracks -> Channels \cup {OtherChannel}]
         /\ Goto("SETUP", 1) /\ UNCHANGED <<call, opened, fLastSessionId>>
    [] stage = "SETUP" ->
         /\ channelId' = [channelId EXCEPT ![track] = answer.channel]
         /\ fLastSessionId' = TRUE /\ opened' = TRUE
         /\ NextTrack /\ UNCHANGED fMediaSession
    [] stage = "PLAY" ->
         Goto("start", NoTrack) /\ UNCHANGED <<call, opened, fMediaSession, fLastSessionId, channelId>>

TakeAnswer ==
  /\ reading = "wait" /\ wire # <<>> /\ Head(wire).is = "answer" /\ ~Misuses
  /\ LET answer == Head(wire) IN
       /\ taken' = [request |-> fCSeq, answer |-> answer.n]
       /\ \/ answer.status = "ok" /\ Succeeds(answer)
          \/ /\ answer.status = "unauthorized" /\ ~retried
             /\ reading' = "send" /\ retried' = TRUE /\ discarded' = FALSE
             /\ UNCHANGED <<call, stage, track, opened, fMediaSession, fLastSessionId, channelId>>
          \/ /\ answer.status = "refused" \/ (answer.status = "unauthorized" /\ retried)
             /\ Fails
  /\ wire' = AfterAnswer
  /\ UNCHANGED <<connected, fCSeq, fTCPStreamIdCount, eventVars, keepAlives, closeVars, requests,
                 serverVars, sent, timeouts, raced, misused, lost, delivered>>

\* The first byte of this answer was taken for a zero: it has no status and fails.  What comes
\* before the end of an answer belongs to it.
ReadRest ==
  /\ reading = "rest" /\ wire # <<>> /\ ~Misuses
  /\ wire' = Tail(wire)
  /\ IF Head(wire).is = "answer" THEN Fails
     ELSE UNCHANGED <<call, stage, track, reading, retried, discarded, opened, fMediaSession,
                      fLastSessionId, channelId>>
  /\ UNCHANGED <<connected, fCSeq, fTCPStreamIdCount, eventVars, keepAlives, closeVars, requests,
                 serverVars, sent, historyVars>>

\* The end of playURL: the sources read, the event loop runs.
StartReading ==
  /\ stage = "start" /\ ~Misuses
  /\ fTCPReadingState' = "dollar" /\ running' = TRUE
  /\ Ends
  /\ UNCHANGED <<clientVars, retried, discarded, opened, fNextTCPSource, fTCPReadSize, fRtpBuffer,
                 keepAlives, closeVars, requests, wire, serverVars, sent, historyVars>>

(***************************************************************************)
(* The event thread: tcpReadHandler1, one call per readable piece, which   *)
(* it takes for what its state says.  After an unknown channel the rest of *)
(* the packet is read as if it were text, and any byte of it may be a      *)
(* dollar: nothing is known of the state then.                             *)
(***************************************************************************)
Reads(state) == running /\ connected /\ ~lost /\ wire # <<>> /\ fTCPReadingState = state
ReadUnchanged ==
  UNCHANGED <<clientVars, callVars, closeVars, requests, serverVars, sent, taken, timeouts, raced>>

\* Text is collected until the end of the answer, and forgotten.
ReadText ==
  /\ Reads("dollar") /\ Head(wire).is # "dollar"
  /\ wire' = Tail(wire) /\ lost' = (Head(wire).is # "answer")
  /\ ReadUnchanged /\ UNCHANGED <<eventVars, keepAlives, misused, delivered>>

ReadDollar ==
  /\ Reads("dollar") /\ Head(wire).is = "dollar"
  /\ fTCPReadingState' = "channel" /\ wire' = Tail(wire)
  /\ ReadUnchanged
  /\ UNCHANGED <<running, fNextTCPSource, fTCPReadSize, fRtpBuffer, keepAlives, misused, lost,
                 delivered>>

\* lookupStreamChannelId: the first track that has the channel.
HasChannel(c) == {t \in Tracks : channelId[t] = c}
ReadChannel ==
  /\ Reads("channel")
  /\ LET ts == HasChannel(Head(wire).n) IN
       IF ~fMediaSession
         THEN misused' = TRUE /\ UNCHANGED <<fNextTCPSource, fTCPReadingState, lost>>
       ELSE IF ts = {}
         THEN fTCPReadingState' = "dollar" /\ lost' = TRUE /\ UNCHANGED <<fNextTCPSource, misused>>
       ELSE /\ fNextTCPSource' = CHOOSE t \in ts : \A u \in ts : t <= u
            /\ fTCPReadingState' = "size" /\ UNCHANGED <<lost, misused>>
  /\ wire' = Tail(wire)
  /\ ReadUnchanged /\ UNCHANGED <<running, fTCPReadSize, fRtpBuffer, keepAlives, delivered>>

ReadSize ==
  /\ Reads("size")
  /\ fTCPReadSize' = Head(wire).n /\ fRtpBuffer' = <<>>
  /\ fTCPReadingState' = "data" /\ wire' = Tail(wire)
  /\ ReadUnchanged /\ UNCHANGED <<running, fNextTCPSource, keepAlives, misused, lost, delivered>>

Remaining == fTCPReadSize - Len(fRtpBuffer)

\* mutant: the keep-alive has the number of the last request
sendGetParamSameNumber ==
  \/ UNCHANGED <<fCSeq, requests, sent, keepAlives, misused>>
  \/ /\ keepAlives < MaxKeepAlives /\ keepAlives' = keepAlives + 1
     /\ Send(Request(fCSeq, "GET_PARAMETER", NoTrack, OtherChannel))
     /\ UNCHANGED <<fCSeq, misused>>
\* rtpHandlerCallback, when the time for a keep-alive has come.
sendGetParam ==
  \/ UNCHANGED <<fCSeq, requests, sent, keepAlives, misused>>
  \/ /\ keepAlives < MaxKeepAlives /\ keepAlives' = keepAlives + 1
     /\ IF fMediaSession
          THEN /\ fCSeq' = fCSeq + 1 /\ Send(Request(fCSeq + 1, "GET_PARAMETER", NoTrack, OtherChannel))
               /\ UNCHANGED misused
          ELSE misused' = TRUE /\ UNCHANGED <<fCSeq, requests, sent>>

\* readRTPOverTCP: as much as there is, up to the end of the packet.
readRTPOverTCP(k) ==
  /\ Reads("data") /\ k <= Remaining /\ k <= Len(wire)
  /\ wire' = SubSeq(wire, k + 1, Len(wire))
  /\ LET buffer == fRtpBuffer \o [i \in 1..k |-> wire[i].n] IN
       IF Len(buffer) # fTCPReadSize
         THEN /\ fRtpBuffer' = buffer
              /\ UNCHANGED <<fTCPReadingState, delivered, fCSeq, requests, sent, keepAlives, misused>>
         ELSE /\ fRtpBuffer' = <<>> /\ fTCPReadingState' = "dollar"
              /\ delivered' = Append(delivered, [pieces |-> buffer, source |-> fNextTCPSource])
              /\ sendGetParam
  /\ UNCHANGED <<connected, fMediaSession, fLastSessionId, fTCPStreamIdCount, channelId, callVars,
                 running, fNextTCPSource, fTCPReadSize, closeVars, serverVars, taken, timeouts,
                 raced, lost>>

ReadLost ==
  /\ running /\ connected /\ lost /\ wire # <<>>
  /\ wire' = Tail(wire)
  /\ ReadUnchanged /\ UNCHANGED <<eventVars, keepAlives, misused, lost, delivered>>

EventStep ==
  \/ ReadText \/ ReadDollar \/ ReadChannel \/ ReadSize \/ ReadLost
  \/ \E k \in 1..PacketSize : readRTPOverTCP(k)

(***************************************************************************)
(* closeURL, and the destructor, which resets without a TEARDOWN.          *)
(***************************************************************************)
Underway == call # "none"

\* mutant: the session is deleted before the loop is stopped
DeletingFirst == <<"delete", "stop", "close">>
Reset == <<"stop", "close", "delete">>
After(step) ==
  LET i == CHOOSE j \in 1..3 : Reset[j] = step IN IF i = 3 THEN "idle" ELSE Reset[i + 1]

\* closeURL does nothing when there is no session (yet).
CloseURL ==
  /\ closer = "idle" /\ fMediaSession
  /\ closer' = (IF fLastSessionId THEN "teardown" ELSE Reset[1]) /\ seen' = fCSeq
  /\ raced' = (raced \/ Underway)
  /\ UNCHANGED <<clientVars, callVars, eventVars, keepAlives, requests, wire, serverVars, sent,
                 taken, timeouts, misused, lost, delivered>>

\* "++fCSeq" and the keep-alive's may read the same value.
Teardown ==
  /\ closer = "teardown"
  /\ fCSeq' = seen + 1 /\ Send(Request(seen + 1, "TEARDOWN", NoTrack, OtherChannel))
  /\ closer' = Reset[1]
  /\ UNCHANGED <<connected, fMediaSession, fLastSessionId, fTCPStreamIdCount, channelId, callVars,
                 eventVars, keepAlives, seen, wire, serverVars, historyVars>>

DestroyClient ==
  /\ closer = "idle" /\ ~Underway /\ connected
  /\ closer' = Reset[1]
  /\ UNCHANGED <<clientVars, callVars, eventVars, keepAlives, seen, requests, wire, serverVars, sent,
                 historyVars>>

StopLoop ==
  /\ closer = "stop"
  /\ running' = FALSE /\ closer' = After(closer)
  /\ UNCHANGED <<clientVars, callVars, fTCPReadingState, fNextTCPSource, fTCPReadSize, fRtpBuffer,
                 keepAlives, seen, requests, wire, serverVars, sent, historyVars>>
CloseSocket ==
  /\ closer = "close"
  /\ connected' = FALSE /\ wire' = <<>> /\ requests' = <<>> /\ playing' = FALSE
  /\ closer' = After(closer)
  /\ UNCHANGED <<fMediaSession, fCSeq, fLastSessionId, fTCPStreamIdCount, channelId, callVars,
                 eventVars, keepAlives, seen, granted, packets, sent, historyVars>>
DeleteSession ==
  /\ closer = "delete"
  /\ fMediaSession' = FALSE /\ fLastSessionId' = FALSE /\ fCSeq' = 0 /\ fTCPStreamIdCount' = 0
  /\ fTCPReadingState' = "dollar" /\ fNextTCPSource' = NoTrack
  /\ closer' = After(closer)
  /\ UNCHANGED <<connected, channelId, callVars, running, fTCPReadSize, fRtpBuffer, keepAlives, seen,
                 requests, wire, serverVars, sent, historyVars>>

(***************************************************************************)
(* The server: it answers the requests in their order, or never, and sends *)
(* packets of the tracks it has granted from the moment it has read PLAY.  *)
(***************************************************************************)
Token(is, n) == [is |-> is, n |-> n]
Answer(request, status) ==
  [is |-> "answer", n |-> request.cseq, status |-> status, channel |-> request.channel]

Granted(request) ==
  IF request.what = "SETUP"
    THEN granted' = granted \cup {[track |-> request.track, channel |-> request.channel]}
    ELSE UNCHANGED granted
ServerAnswers ==
  /\ requests # <<>>
  /\ LET request == Head(requests) IN
       \/ /\ wire' = Append(wire, Answer(request, "ok"))
          /\ Granted(request)
          /\ playing' = (request.what # "TEARDOWN" /\ (playing \/ request.what = "PLAY"))
       \/ /\ request.what \in {"OPTIONS", "DESCRIBE"}
          /\ wire' = Append(wire, Answer(request, "unauthorized")) /\ UNCHANGED <<granted, playing>>
       \/ /\ request.what \in {"OPTIONS", "DESCRIBE", "SETUP", "PLAY"} /\ ~playing
          /\ wire' = Append(wire, Answer(request, "refused")) /\ UNCHANGED <<granted, playing>>
  /\ requests' = Tail(requests)
  /\ UNCHANGED <<clientVars, callVars, eventVars, keepAlives, closeVars, packets, sent, historyVars>>

\* It plays before it has answered.
ServerPlays ==
  /\ requests # <<>> /\ Head(requests).what = "PLAY" /\ ~playing
  /\ playing' = TRUE
  /\ UNCHANGED <<clientVars, callVars, eventVars, keepAlives, closeVars, requests, wire, granted,
                 packets, sent, historyVars>>

ServerSends ==
  /\ playing /\ Len(packets) < MaxPackets
  /\ \E g \in granted :
       /\ packets' = Append(packets, g.track)
       /\ wire' = wire \o <<Token("dollar", 0), Token("channel", g.channel), Token("size", PacketSize)>>
                       \o [i \in 1..PacketSize |-> Token("data", Len(packets) + 1)]
  /\ UNCHANGED <<clientVars, callVars, eventVars, keepAlives, closeVars, requests, granted, playing,
                 sent, historyVars>>

OpenerStep ==
  \/ Misuse \/ SendRequest \/ NothingToPlay \/ TimesOut \/ StopsTiming \/ ReadFails \/ DiscardPacket
  \/ TakeAnswer \/ ReadRest \/ StartReading
CloserStep == Teardown \/ StopLoop \/ CloseSocket \/ DeleteSession
ServerStep == ServerAnswers \/ ServerPlays \/ ServerSends

\* What the program does after a use of a deleted object is undefined.
Next ==
  /\ ~misused
  /\ OpenURL \/ OpenerStep \/ EventStep \/ CloseURL \/ DestroyClient \/ CloserStep \/ ServerStep

\* The threads of the client run; nothing is assumed of the server or of the user.
Fairness == WF_vars(~misused /\ OpenerStep) /\ WF_vars(~misused /\ EventStep) /\ WF_vars(~misused /\ CloserStep)

Spec == Init /\ [][Next]_vars /\ Fairness

-----------------------------------------------------------------------------

Commands == {"OPTIONS", "DESCRIBE", "SETUP", "PLAY", "GET_PARAMETER", "TEARDOWN"}
Requests == [cseq : Nat, what : Commands]

\* What the threads hold; what is on the connection comes from the server and has no type here.
TypeOK ==
  /\ {connected, fMediaSession, fLastSessionId, retried, discarded, opened, running, raced, misused,
      lost} \subseteq BOOLEAN
  /\ fCSeq \in Nat /\ seen \in Nat /\ sent \in Seq(Requests)
  /\ call \in {"none", "open", "play"}
  /\ stage \in {"none", "OPTIONS", "DESCRIBE", "SETUP", "PLAY", "start"}
  /\ call = "none" <=> stage = "none"
  /\ track \in Tracks \cup {NoTrack} /\ (stage = "SETUP" <=> track # NoTrack)
  /\ reading \in {"no", "send", "wait", "rest"} /\ (reading = "no" <=> stage = "none")
  /\ stage = "start" => reading = "send"
  /\ fTCPReadingState \in {"dollar", "channel", "size", "data"}
  /\ closer \in {"idle", "teardown", "stop", "close", "delete"}

\* A request takes its own answer, or one that is as many requests late as have been given up:
\* answers are not told apart by their CSeq (getResponse), so that after a SETUP that timed out
\* a track gets the channels of the one before it.
AnswersMatch ==
  taken # NoAnswer /\ ~raced =>
    taken.request - taken.answer \in 0..timeouts

\* The event thread finds the beginning of every packet, whatever answers come between them and
\* however the data is cut: it meets an unknown channel only after a SETUP that timed out.
InSync == lost => timeouts > 0 \/ raced

\* Every track's channel is the one its own SETUP was granted.
AllSetUp == \A t \in Tracks : [track |-> t, channel |-> channelId[t]] \in granted
Whole(packet) == \A i \in DOMAIN packet.pieces : packet.pieces[i] = packet.pieces[1]

\* InSync, and packets are handed over whole, each one after the one before it, and to the source of the
\* track they were sent for, unless some track was refused or timed out: the channel of that
\* one was never set, and lookupStreamChannelId may take it for any.
PacketsReach ==
  /\ InSync
  /\ ~lost =>
       \A i \in DOMAIN delivered :
         LET packet == delivered[i] IN
           /\ Whole(packet) /\ Len(packet.pieces) = PacketSize
           /\ i > 1 => packet.pieces[1] = delivered[i - 1].pieces[1] + 1
           /\ AllSetUp => packets[packet.pieces[1]] = packet.source

\* Neither the event thread nor the opening thread uses a session that reset has deleted, unless
\* closeURL came in the middle of openURL or playURL.
DeletedNotUsed == misused => raced

\* No two requests have the same number, so that an answer names one request; but the TEARDOWN of
\* the thread that closes, and what the event thread sends after it, may have the number of a
\* keep-alive that came in between the reading and the writing of "++fCSeq".
NumbersDistinct ==
  ~raced =>
    \A i, j \in DOMAIN sent :
      i < j /\ sent[i].cseq = sent[j].cseq =>
        sent[i].what = "GET_PARAMETER" /\ \E k \in (i + 1)..j : sent[k].what = "TEARDOWN"

\* openURL and playURL return, whatever the server does, unless it is silent after a packet: then
\* there is no timeout any more.  closeURL returns.
CallsReturn ==
  /\ Underway ~> (~Underway \/ reading = "rest" \/ misused)
  /\ closer # "idle" ~> (closer = "idle" \/ misused)
=============================================================================
