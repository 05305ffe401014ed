-------------------------- MODULE RTSPSessionProofs --------------------------
(***************************************************************************)
(* Theorems about RTSPSession, for any number of tracks, pieces, packets   *)
(* and keep-alives.  Unless closeURL comes in the middle of openURL or     *)
(* playURL, a session that reset has deleted is not used, the numbers of   *)
(* the requests are distinct and answers are taken in their turn; and the  *)
(* event thread finds every packet and hands it over whole, in order and   *)
(* to its source, whatever the threads and the server do.                  *)
(***************************************************************************)
EXTENDS RTSPSession, TLAPS

Stages == {"OPTIONS", "DESCRIBE", "SETUP", "PLAY"}

(***************************************************************************)
(* How a call goes on.                                                     *)
(***************************************************************************)
CallType ==
  /\ retried \in BOOLEAN /\ discarded \in BOOLEAN /\ opened \in BOOLEAN
  /\ call \in {"none", "open", "play"}
  /\ stage \in {"none", "OPTIONS", "DESCRIBE", "SETUP", "PLAY", "start"}
  /\ call = "none" <=> stage = "none"
  /\ track \in Tracks \cup {NoTrack} /\ (stage = "SETUP" <=> track # NoTrack)
  /\ reading \in {"no", "send", "wait", "rest"} /\ (reading = "no" <=> stage = "none")
  /\ stage = "start" => reading = "send"

LEMMA CallTypes == TypeOK => CallType
  BY DEF TypeOK, CallType

LEMMA TrackNumbers ==
  /\ 1 \in Tracks /\ NoTrack \notin Tracks
  /\ \A t \in Tracks : t # LastTrack => t + 1 \in Tracks
  BY ConstantsAssumption DEF Tracks, NoTrack

LEMMA Over ==
  ASSUME Ends, retried' \in BOOLEAN, discarded' \in BOOLEAN, opened' \in BOOLEAN
  PROVE  CallType' /\ stage' = "none"
  BY TrackNumbers DEF Ends, CallType

LEMMA GoesOn ==
  ASSUME CallType, NEW next \in {"DESCRIBE", "PLAY", "start"}, Goto(next, NoTrack),
         call' \in {"open", "play"}, opened' \in BOOLEAN
  PROVE  CallType'
  BY TrackNumbers DEF Goto, CallType

\* What comes after a track: the next one, PLAY, or nothing.
LEMMA TracksGoOn ==
  ASSUME CallType, stage = "SETUP", NextTrack, opened' \in BOOLEAN
  PROVE  CallType' /\ stage' \in {"none", "SETUP", "PLAY"}
<1>1. track \in Tracks /\ call \in {"open", "play"}
  BY DEF CallType
<1>2. CASE track # LastTrack
  <2>1. call' = call /\ Goto("SETUP", track + 1) /\ track + 1 \in Tracks
    BY <1>1, <1>2, TrackNumbers DEF NextTrack
  <2> QED BY <1>1, <2>1, TrackNumbers DEF Goto, CallType
<1>3. CASE track = LastTrack /\ opened'
  <2>1. call' = "play" /\ Goto("PLAY", NoTrack)
    BY <1>3 DEF NextTrack, AfterTracks
  <2> QED BY <2>1, GoesOn DEF Goto
<1>4. CASE track = LastTrack /\ ~opened'
  BY <1>4, TrackNumbers DEF NextTrack, AfterTracks, Ends, CallType
<1> QED BY <1>2, <1>3, <1>4

LEMMA FailsOn ==
  ASSUME CallType, Fails
  PROVE  /\ CallType'
         /\ stage' = "none" \/ (stage = "SETUP" /\ stage' \in {"SETUP", "PLAY"})
<1>1. CASE stage = "SETUP"
  <2>1. opened' = opened /\ NextTrack
    BY <1>1 DEF Fails
  <2>2. opened' \in BOOLEAN
    BY <2>1 DEF CallType
  <2>3. CallType' /\ stage' \in {"none", "SETUP", "PLAY"}
    BY <1>1, <2>1, <2>2, TracksGoOn
  <2> QED BY <1>1, <2>3
<1>2. CASE stage # "SETUP"
  <2>1. Ends /\ retried' = retried /\ discarded' = discarded /\ opened' = opened
    BY <1>2 DEF Fails
  <2>2. retried' \in BOOLEAN /\ discarded' \in BOOLEAN /\ opened' \in BOOLEAN
    BY <2>1 DEF CallType
  <2>3. CallType' /\ stage' = "none"
    BY <2>1, <2>2, Over
  <2> QED BY <2>3
<1> QED BY <1>1, <1>2

LEMMA SucceedsOn ==
  ASSUME CallType, NEW answer, Succeeds(answer), stage \in Stages,
         fMediaSession \in BOOLEAN, fLastSessionId \in BOOLEAN
  PROVE  /\ CallType' /\ call # "none"
         /\ fMediaSession' \in BOOLEAN /\ fLastSessionId' \in BOOLEAN
         /\ stage' \in {"SETUP", "PLAY", "start"} =>
              \/ fMediaSession' /\ stage = "DESCRIBE"
              \/ fMediaSession' = fMediaSession /\ stage \in {"SETUP", "PLAY"}
         /\ fMediaSession => fMediaSession'
<1> call # "none" /\ call \in {"open", "play"}
  BY DEF CallType, Stages
<1>1. CASE stage = "OPTIONS"
  <2>1. /\ Goto("DESCRIBE", NoTrack)
        /\ UNCHANGED <<call, opened, fMediaSession, fLastSessionId>>
    BY <1>1 DEF Succeeds
  <2> QED BY <2>1, GoesOn DEF Goto, CallType
<1>2. CASE stage = "DESCRIBE"
  <2>1. /\ fMediaSession' = TRUE /\ Goto("SETUP", 1)
        /\ UNCHANGED <<call, opened, fLastSessionId>>
    BY <1>2 DEF Succeeds
  <2>2. CallType' /\ stage' = "SETUP"
    <3>1. call' = call /\ opened' = opened
      BY <2>1
    <3>2. opened' \in BOOLEAN /\ call' \in {"open", "play"}
      BY <3>1 DEF CallType
    <3> QED BY <2>1, <3>2, TrackNumbers DEF Goto, CallType
  <2>3. fLastSessionId' \in BOOLEAN
    BY <2>1
  <2> QED BY <1>2, <2>1, <2>2, <2>3
<1>3. CASE stage = "SETUP"
  <2>1. fLastSessionId' = TRUE /\ opened' = TRUE /\ NextTrack /\ UNCHANGED fMediaSession
    BY <1>3 DEF Succeeds
  <2> QED BY <1>3, <2>1, TracksGoOn
<1>4. CASE stage = "PLAY"
  <2>1. /\ Goto("start", NoTrack)
        /\ UNCHANGED <<call, opened, fMediaSession, fLastSessionId>>
    BY <1>4 DEF Succeeds
  <2> QED BY <1>4, <2>1, GoesOn DEF Goto, CallType
<1> QED BY <1>1, <1>2, <1>3, <1>4 DEF Stages

LEMMA Steps ==
  /\ Reset[1] = "stop"
  /\ closer = "stop" => After(closer) = "close"
  /\ closer = "close" => After(closer) = "delete"
  /\ closer = "delete" => After(closer) = "idle"
<1>1. Reset[1] = "stop" /\ Reset[2] = "close" /\ Reset[3] = "delete"
  BY DEF Reset
<1>2. \A n \in 1..3 : (CHOOSE j \in 1..3 : Reset[j] = Reset[n]) = n
  BY <1>1
<1> QED BY <1>1, <1>2 DEF After

(***************************************************************************)
(* Types.                                                                  *)
(***************************************************************************)
ClientType ==
  /\ connected \in BOOLEAN /\ fMediaSession \in BOOLEAN /\ fLastSessionId \in BOOLEAN
  /\ fCSeq \in Nat /\ seen \in Nat /\ sent \in Seq(Requests)
HistoryType == raced \in BOOLEAN /\ misused \in BOOLEAN /\ lost \in BOOLEAN
ThreadType ==
  /\ running \in BOOLEAN /\ fTCPReadingState \in {"dollar", "channel", "size", "data"}
  /\ closer \in {"idle", "teardown", "stop", "close", "delete"}

LEMMA SendType ==
  ASSUME sent \in Seq(Requests), NEW n \in Nat, NEW what \in Commands, NEW t, NEW c,
         Send(Request(n, what, t, c))
  PROVE  sent' = Append(sent, [cseq |-> n, what |-> what]) /\ sent' \in Seq(Requests)
<1>1. sent' = Append(sent, [cseq |-> n, what |-> what])
  BY DEF Send, Request
<1>2. [cseq |-> n, what |-> what] \in Requests
  BY DEF Requests
<1> QED BY <1>1, <1>2

LEMMA StepType == TypeOK /\ [Next]_vars => TypeOK'
<1> SUFFICES ASSUME CallType, ClientType, HistoryType, ThreadType, [Next]_vars
             PROVE  CallType' /\ ClientType' /\ HistoryType' /\ ThreadType'
  BY DEF TypeOK, CallType, ClientType, HistoryType, ThreadType
<1> USE DEF clientVars, callVars, eventVars, closeVars, serverVars, historyVars
<1>1. CASE OpenURL
  BY <1>1, TrackNumbers DEF OpenURL, Goto, CallType, ClientType, HistoryType, ThreadType
<1>2. CASE Misuse
  BY <1>2 DEF Misuse, CallType, ClientType, HistoryType, ThreadType
<1>3. CASE SendRequest
  <2>1. stage \in Stages
    BY <1>3 DEF SendRequest, CallType, Stages
  <2>2. sent' \in Seq(Requests) /\ fCSeq' \in Nat
    <3>1. fCSeq + 1 \in Nat /\ stage \in Commands
      BY <2>1 DEF ClientType, Stages, Commands
    <3> QED BY <1>3, <3>1, SendType DEF SendRequest, ClientType
  <2> QED BY <1>3, <2>1, <2>2 DEF SendRequest, Stages, CallType, ClientType, HistoryType, ThreadType
<1>4. CASE NothingToPlay
  BY <1>4, TrackNumbers DEF NothingToPlay, Ends, CallType, ClientType, HistoryType, ThreadType
<1>5. CASE TimesOut \/ ReadFails
  <2>1. Fails
    BY <1>5 DEF TimesOut, ReadFails
  <2> QED BY <1>5, <2>1, FailsOn DEF TimesOut, ReadFails, Fails, ClientType, HistoryType, ThreadType
<1>6. CASE StopsTiming \/ DiscardPacket
  BY <1>6 DEF StopsTiming, DiscardPacket, CallType, ClientType, HistoryType, ThreadType
<1>7. CASE TakeAnswer
  <2>1. stage \in Stages
    BY <1>7 DEF TakeAnswer, CallType, Stages
  <2>2. UNCHANGED <<connected, fCSeq, seen, sent, raced, misused, lost, running, fTCPReadingState, closer>>
    BY <1>7 DEF TakeAnswer
  <2>3. CallType' /\ fMediaSession' \in BOOLEAN /\ fLastSessionId' \in BOOLEAN
    <3>1. CASE Succeeds(Head(wire))
      BY <2>1, <3>1, SucceedsOn DEF ClientType
    <3>2. CASE /\ reading' = "send" /\ retried' = TRUE /\ discarded' = FALSE
               /\ UNCHANGED <<call, stage, track, opened, fMediaSession, fLastSessionId, channelId>>
      BY <2>1, <3>2 DEF CallType, ClientType, Stages
    <3>3. CASE Fails
      BY <3>3, FailsOn DEF Fails, ClientType
    <3> QED BY <1>7, <3>1, <3>2, <3>3 DEF TakeAnswer
  <2> QED BY <2>2, <2>3 DEF ClientType, HistoryType, ThreadType
<1>8. CASE ReadRest
  <2>1. UNCHANGED <<connected, fCSeq, seen, sent, raced, misused, lost, running, fTCPReadingState, closer>>
    BY <1>8 DEF ReadRest
  <2>2. CallType' /\ fMediaSession' = fMediaSession /\ fLastSessionId' = fLastSessionId
    <3>1. CASE Fails
      BY <3>1, FailsOn DEF Fails
    <3>2. CASE UNCHANGED <<call, stage, track, reading, retried, discarded, opened, fMediaSession,
                           fLastSessionId, channelId>>
      BY <3>2 DEF CallType
    <3> QED BY <1>8, <3>1, <3>2 DEF ReadRest
  <2> QED BY <2>1, <2>2 DEF ClientType, HistoryType, ThreadType
<1>9. CASE StartReading
  BY <1>9, TrackNumbers DEF StartReading, Ends, CallType, ClientType, HistoryType, ThreadType
<1>10. CASE ReadText \/ ReadDollar \/ ReadSize \/ ReadLost \/ ReadChannel
  <2>1. CallType' /\ ClientType' /\ raced' = raced /\ running' = running /\ closer' = closer
    BY <1>10 DEF ReadText, ReadDollar, ReadSize, ReadLost, ReadChannel, ReadUnchanged, CallType, ClientType
  <2>2. lost' \in BOOLEAN /\ misused' \in BOOLEAN
    <3>1. CASE ReadText
      BY <3>1 DEF ReadText, HistoryType
    <3>2. CASE ReadDollar \/ ReadSize \/ ReadLost
      BY <3>2 DEF ReadDollar, ReadSize, ReadLost, HistoryType
    <3>3. CASE ReadChannel
      BY <3>3 DEF ReadChannel, HistoryType
    <3> QED BY <1>10, <3>1, <3>2, <3>3
  <2>3. fTCPReadingState' \in {"dollar", "channel", "size", "data"}
    BY <1>10 DEF ReadText, ReadDollar, ReadSize, ReadLost, ReadChannel, ThreadType
  <2> QED BY <2>1, <2>2, <2>3 DEF HistoryType, ThreadType
<1>11. ASSUME NEW k \in 1..PacketSize, readRTPOverTCP(k)
       PROVE  CallType' /\ ClientType' /\ HistoryType' /\ ThreadType'
  <2>1. /\ fCSeq' \in Nat /\ sent' \in Seq(Requests) /\ misused' \in BOOLEAN
        /\ fTCPReadingState' \in {"dollar", "channel", "size", "data"}
    <3>1. CASE sendGetParam /\ fTCPReadingState' = "dollar"
      <4>1. CASE UNCHANGED <<fCSeq, sent, misused>>
        BY <3>1, <4>1 DEF ClientType, HistoryType
      <4>2. CASE misused' = TRUE /\ UNCHANGED <<fCSeq, sent>>
        BY <3>1, <4>2 DEF ClientType
      <4>3. CASE /\ fCSeq' = fCSeq + 1 /\ UNCHANGED misused
                 /\ Send(Request(fCSeq + 1, "GET_PARAMETER", NoTrack, OtherChannel))
        <5>1. fCSeq + 1 \in Nat /\ "GET_PARAMETER" \in Commands
          BY DEF ClientType, Commands
        <5>2. sent' \in Seq(Requests)
          BY <4>3, <5>1, SendType DEF ClientType
        <5> QED BY <3>1, <4>3, <5>1, <5>2 DEF HistoryType
      <4> QED BY <3>1, <4>1, <4>2, <4>3 DEF sendGetParam
    <3>2. CASE UNCHANGED <<fTCPReadingState, delivered, fCSeq, requests, sent, keepAlives, misused>>
      BY <3>2 DEF ClientType, HistoryType, ThreadType
    <3> QED BY <1>11, <3>1, <3>2 DEF readRTPOverTCP
  <2> QED BY <1>11, <2>1 DEF readRTPOverTCP, CallType, ClientType, HistoryType, ThreadType
<1>12. CASE CloseURL \/ DestroyClient
  BY <1>12, Steps DEF CloseURL, DestroyClient, Underway, CallType, ClientType, HistoryType, ThreadType
<1>13. CASE Teardown
  <2>1. sent' \in Seq(Requests) /\ fCSeq' \in Nat
    <3>1. seen + 1 \in Nat /\ "TEARDOWN" \in Commands
      BY DEF ClientType, Commands
    <3> QED BY <1>13, <3>1, SendType DEF Teardown, ClientType
  <2> QED BY <1>13, <2>1, Steps DEF Teardown, CallType, ClientType, HistoryType, ThreadType
<1>14. CASE StopLoop
  <2>1. closer' = "close"
    BY <1>14, Steps DEF StopLoop
  <2>2. CallType' /\ ClientType'
    BY <1>14 DEF StopLoop, CallType, ClientType
  <2> QED BY <1>14, <2>1, <2>2 DEF StopLoop, HistoryType, ThreadType
<1>15. CASE CloseSocket
  <2>1. closer' = "delete"
    BY <1>15, Steps DEF CloseSocket
  <2>2. CallType' /\ ClientType'
    BY <1>15 DEF CloseSocket, CallType, ClientType
  <2> QED BY <1>15, <2>1, <2>2 DEF CloseSocket, HistoryType, ThreadType
<1>16. CASE DeleteSession
  <2>1. closer' = "idle"
    BY <1>16, Steps DEF DeleteSession
  <2>2. CallType' /\ ClientType'
    BY <1>16 DEF DeleteSession, CallType, ClientType
  <2> QED BY <1>16, <2>1, <2>2 DEF DeleteSession, HistoryType, ThreadType
<1>17. CASE ServerStep \/ UNCHANGED vars
  BY <1>17 DEF ServerStep, ServerAnswers, ServerPlays, ServerSends, vars,
               CallType, ClientType, HistoryType, ThreadType
<1> QED BY <1>1, <1>2, <1>3, <1>4, <1>5, <1>6, <1>7, <1>8, <1>9, <1>10, <1>11, <1>12, <1>13, <1>14,
           <1>15, <1>16, <1>17 DEF Next, OpenerStep, EventStep, CloserStep

LEMMA InitType == Init => TypeOK
<1> SUFFICES ASSUME Init PROVE TypeOK
  OBVIOUS
<1>1. sent \in Seq(Requests)
  BY DEF Init
<1> QED BY <1>1, TrackNumbers DEF Init, TypeOK

\* What the threads of the client hold keeps its type.
THEOREM TypeCorrect == Spec => []TypeOK
  BY InitType, StepType, PTL DEF Spec

(***************************************************************************)
(* The life of the session object: as long as closeURL has not come into a *)
(* call, one call or one reset is under way at a time, there is a session  *)
(* from the answer to DESCRIBE on, and the event loop runs only while it   *)
(* is there.                                                               *)
(***************************************************************************)
LifeInv ==
  ~raced =>
    /\ closer # "idle" => call = "none"
    /\ stage \in {"SETUP", "PLAY", "start"} => fMediaSession
    /\ running \/ closer = "teardown" => fMediaSession
    /\ closer \in {"close", "delete"} => ~running
    /\ ~misused

LEMMA StepLife == TypeOK /\ LifeInv /\ [Next]_vars => LifeInv'
<1> SUFFICES ASSUME TypeOK, LifeInv, [Next]_vars, ~raced'
             PROVE  LifeInv'
  BY DEF LifeInv
<1> USE DEF clientVars, callVars, eventVars, closeVars, serverVars, historyVars
<1>1. CallType /\ ThreadType
  BY DEF TypeOK, CallType, ThreadType
<1>2. ~raced
  BY DEF Next, OpenURL, OpenerStep, Misuse, SendRequest, NothingToPlay, TimesOut, StopsTiming, ReadFails,
         DiscardPacket, TakeAnswer, ReadRest, StartReading, EventStep, ReadText, ReadDollar, ReadChannel,
         ReadSize, ReadLost, readRTPOverTCP, ReadUnchanged, CloseURL, DestroyClient, CloserStep, Teardown,
         StopLoop, CloseSocket, DeleteSession, ServerStep, ServerAnswers, ServerPlays, ServerSends, vars
\* Steps that touch neither the call nor the closing, nor the session.
<1>3. ASSUME UNCHANGED <<closer, call, stage, fMediaSession, running, misused>>
      PROVE  LifeInv'
  BY <1>2, <1>3 DEF LifeInv
\* Steps of the thread that opens, which runs only while nothing is closed.
<1>4. ASSUME UNCHANGED <<closer, running, misused>>, call # "none",
             stage' \in {"SETUP", "PLAY", "start"} => fMediaSession',
             fMediaSession => fMediaSession'
      PROVE  LifeInv'
  BY <1>2, <1>4 DEF LifeInv
<1>5. CASE OpenURL
  BY <1>2, <1>5 DEF OpenURL, Goto, LifeInv
<1>6. CASE Misuse
  BY <1>2, <1>6 DEF Misuse, Misuses, LifeInv
<1>7. CASE SendRequest \/ StopsTiming \/ DiscardPacket
  BY <1>3, <1>7 DEF SendRequest, StopsTiming, DiscardPacket
<1>8. CASE NothingToPlay
  <2>1. call # "none"
    BY <1>1, <1>8 DEF NothingToPlay, CallType
  <2> QED BY <1>4, <1>8, <2>1 DEF NothingToPlay, Ends
<1>9. CASE TimesOut \/ ReadFails \/ (ReadRest /\ Fails)
  <2>1. Fails /\ call # "none" /\ UNCHANGED <<closer, running, misused>>
    BY <1>1, <1>9 DEF TimesOut, ReadFails, ReadRest, CallType
  <2>2. fMediaSession' = fMediaSession
    BY <2>1 DEF Fails
  <2>3. stage' = "none" \/ stage = "SETUP"
    BY <1>1, <2>1, FailsOn
  <2> QED BY <1>2, <1>4, <2>1, <2>2, <2>3 DEF LifeInv
<1>10. CASE ReadRest /\ ~Fails
  BY <1>3, <1>10 DEF ReadRest
<1>11. CASE TakeAnswer
  <2>1. stage \in Stages /\ call # "none" /\ UNCHANGED <<closer, running, misused>>
    BY <1>1, <1>11 DEF TakeAnswer, CallType, Stages
  <2>2. CASE Succeeds(Head(wire))
    <3>1. fMediaSession \in BOOLEAN /\ fLastSessionId \in BOOLEAN
      BY DEF TypeOK
    <3>2. /\ stage' \in {"SETUP", "PLAY", "start"} =>
               fMediaSession' \/ (fMediaSession' = fMediaSession /\ stage \in {"SETUP", "PLAY"})
          /\ fMediaSession => fMediaSession'
      BY <1>1, <2>1, <2>2, <3>1, SucceedsOn
    <3> QED BY <1>2, <1>4, <2>1, <3>2 DEF LifeInv
  <2>3. CASE UNCHANGED <<call, stage, fMediaSession>>
    BY <1>3, <2>1, <2>3
  <2>4. CASE Fails
    <3>1. fMediaSession' = fMediaSession /\ (stage' = "none" \/ stage = "SETUP")
      BY <1>1, <2>4, FailsOn DEF Fails
    <3> QED BY <1>2, <1>4, <2>1, <3>1 DEF LifeInv
  <2> QED BY <1>11, <2>2, <2>3, <2>4 DEF TakeAnswer
<1>12. CASE StartReading
  <2>1. call # "none" /\ fMediaSession /\ stage' = "none"
    BY <1>1, <1>12 DEF StartReading, Misuses, Ends, CallType
  <2> QED BY <1>2, <1>12, <2>1 DEF StartReading, LifeInv
<1>13. CASE ReadText \/ ReadDollar \/ ReadSize \/ ReadLost
  BY <1>3, <1>13 DEF ReadText, ReadDollar, ReadSize, ReadLost, ReadUnchanged
<1>14. CASE ReadChannel
  <2>1. fMediaSession
    BY <1>2, <1>14 DEF ReadChannel, Reads, LifeInv
  <2> QED BY <1>3, <1>14, <2>1 DEF ReadChannel, ReadUnchanged
<1>15. ASSUME NEW k \in 1..PacketSize, readRTPOverTCP(k)
       PROVE  LifeInv'
  <2>1. fMediaSession
    BY <1>2, <1>15 DEF readRTPOverTCP, Reads, LifeInv
  <2>2. misused' = misused
    BY <1>15, <2>1 DEF readRTPOverTCP, sendGetParam
  <2> QED BY <1>3, <1>15, <2>2 DEF readRTPOverTCP
<1>16. CASE CloseURL
  <2>1. call = "none" /\ fMediaSession /\ closer' \in {"teardown", "stop"}
    BY <1>16, Steps DEF CloseURL, Underway
  <2> QED BY <1>2, <1>16, <2>1 DEF CloseURL, LifeInv
<1>17. CASE DestroyClient
  BY <1>2, <1>17, Steps DEF DestroyClient, Underway, LifeInv
<1>18. CASE Teardown
  BY <1>2, <1>18, Steps DEF Teardown, LifeInv
<1>19. CASE StopLoop
  <2>1. closer' = "close"
    BY <1>19, Steps DEF StopLoop
  <2> QED BY <1>2, <1>19, <2>1 DEF StopLoop, LifeInv
<1>20. CASE CloseSocket
  <2>1. closer' = "delete"
    BY <1>20, Steps DEF CloseSocket
  <2> QED BY <1>2, <1>20, <2>1 DEF CloseSocket, LifeInv
<1>21. CASE DeleteSession
  <2>1. closer' = "idle"
    BY <1>21, Steps DEF DeleteSession
  <2>2. stage = "none" /\ ~running /\ call = "none"
    BY <1>1, <1>2, <1>21 DEF DeleteSession, LifeInv, CallType
  <2> QED BY <1>2, <1>21, <2>1, <2>2 DEF DeleteSession, LifeInv
<1>22. CASE ServerStep \/ UNCHANGED vars
  BY <1>3, <1>22 DEF ServerStep, ServerAnswers, ServerPlays, ServerSends, vars
<1> QED BY <1>5, <1>6, <1>7, <1>8, <1>9, <1>10, <1>11, <1>12, <1>13, <1>14, <1>15, <1>16, <1>17, <1>18,
           <1>19, <1>20, <1>21, <1>22 DEF Next, OpenerStep, EventStep, CloserStep

LEMMA InitLife == Init => LifeInv
  BY DEF Init, LifeInv

\* The session object is not used after reset has deleted it, by the event thread or by the
\* thread that opens, unless closeURL came in the middle of openURL or playURL.
THEOREM SessionSafe == Spec => []DeletedNotUsed
<1>1. LifeInv => DeletedNotUsed
  BY DEF LifeInv, DeletedNotUsed
<1> QED BY <1>1, InitLife, StepLife, TypeCorrect, PTL DEF Spec

(***************************************************************************)
(* The numbers of the requests.  While there is a session, or one is being *)
(* opened, fCSeq is the highest of them; but the TEARDOWN takes the one    *)
(* behind the number that was read for it (seen), and only keep-alives can *)
(* have come between.  After a TEARDOWN the session ends.                  *)
(***************************************************************************)
Alive == fMediaSession \/ call # "none"
TornDownAfter(i) == \E k \in (i + 1)..Len(sent) : sent[k].what = "TEARDOWN"
Reached == \A i \in DOMAIN sent :
             sent[i].cseq <= fCSeq \/ (sent[i].what = "GET_PARAMETER" /\ TornDownAfter(i))
SeenReached == \A i \in DOMAIN sent : sent[i].cseq <= seen \/ sent[i].what = "GET_PARAMETER"
TornDown == \E i \in DOMAIN sent : sent[i].what = "TEARDOWN"
Distinct ==
  \A i, j \in DOMAIN sent :
    i < j /\ sent[i].cseq = sent[j].cseq =>
      sent[i].what = "GET_PARAMETER" /\ \E k \in (i + 1)..j : sent[k].what = "TEARDOWN"

NumberInv ==
  ~raced =>
    /\ Alive => Reached
    /\ closer = "teardown" => SeenReached
    /\ TornDown => closer \in {"stop", "close", "delete"} \/ ~Alive
    /\ Distinct

\* What another request changes of the requests before it.
LEMMA SentGrows ==
  ASSUME sent \in Seq(Requests), NEW n \in Nat, NEW what \in Commands,
         sent' = Append(sent, [cseq |-> n, what |-> what])
  PROVE  /\ Len(sent) \in Nat /\ Len(sent') = Len(sent) + 1
         /\ DOMAIN sent = 1..Len(sent) /\ DOMAIN sent' = 1..(Len(sent) + 1)
         /\ \A i \in DOMAIN sent : sent'[i] = sent[i] /\ sent[i].cseq \in Nat
         /\ sent'[Len(sent) + 1].cseq = n /\ sent'[Len(sent) + 1].what = what
<1>1. [cseq |-> n, what |-> what] \in Requests
  BY DEF Requests
<1>2. /\ Len(sent) \in Nat /\ Len(sent') = Len(sent) + 1
      /\ DOMAIN sent = 1..Len(sent) /\ DOMAIN sent' = 1..(Len(sent) + 1)
      /\ \A i \in DOMAIN sent : sent'[i] = sent[i]
      /\ sent'[Len(sent) + 1] = [cseq |-> n, what |-> what]
  BY <1>1
<1>3. \A i \in DOMAIN sent : sent[i].cseq \in Nat
  <2>1. \A i \in DOMAIN sent : sent[i] \in Requests
    OBVIOUS
  <2>2. \A r \in Requests : r.cseq \in Nat
    BY DEF Requests
  <2> QED BY <2>1, <2>2
<1> QED BY <1>2, <1>3

\* A request that is not a TEARDOWN has the next number.
LEMMA NextNumber ==
  ASSUME fCSeq \in Nat, sent \in Seq(Requests), Reached, Distinct,
         NEW what \in Commands \ {"TEARDOWN"},
         sent' = Append(sent, [cseq |-> fCSeq + 1, what |-> what]), fCSeq' = fCSeq + 1
  PROVE  Reached' /\ Distinct' /\ (TornDown' => TornDown)
<1> DEFINE n == Len(sent)
<1>1. /\ n \in Nat /\ Len(sent') = n + 1
      /\ DOMAIN sent = 1..n /\ DOMAIN sent' = 1..(n + 1)
      /\ \A i \in 1..n : sent'[i] = sent[i] /\ sent[i].cseq \in Nat
      /\ sent'[n + 1].cseq = fCSeq + 1 /\ sent'[n + 1].what = what
  <2>1. fCSeq + 1 \in Nat /\ what \in Commands
    OBVIOUS
  <2>2. DOMAIN sent = 1..Len(sent)
    OBVIOUS
  <2> QED BY <2>1, <2>2, SentGrows
<1> HIDE DEF n
<1>2. \A i \in 1..n : TornDownAfter(i) => TornDownAfter(i)'
  BY <1>1 DEF TornDownAfter, n
<1>3. \A i \in 1..n : sent[i].cseq <= fCSeq \/ (sent[i].what = "GET_PARAMETER" /\ TornDownAfter(i))
  BY <1>1 DEF Reached
<1>4. \A i, j \in 1..n : i < j /\ sent[i].cseq = sent[j].cseq =>
        sent[i].what = "GET_PARAMETER" /\ \E k \in (i + 1)..j : sent[k].what = "TEARDOWN"
  BY <1>1 DEF Distinct
<1>5. Reached'
  <2>1. \A i \in 1..n : sent'[i].cseq <= fCSeq' \/ (sent'[i].what = "GET_PARAMETER" /\ TornDownAfter(i)')
    BY <1>1, <1>2, <1>3
  <2>2. sent'[n + 1].cseq <= fCSeq'
    BY <1>1
  <2>3. \A i \in 1..(n + 1) : i \in 1..n \/ i = n + 1
    BY <1>1
  <2> QED BY <1>1, <2>1, <2>2, <2>3 DEF Reached
<1>6. ASSUME NEW i \in 1..(n + 1), NEW j \in 1..(n + 1), i < j, sent'[i].cseq = sent'[j].cseq
      PROVE  sent'[i].what = "GET_PARAMETER" /\ \E k \in (i + 1)..j : sent'[k].what = "TEARDOWN"
  <2>1. i \in 1..n
    BY <1>1, <1>6
  <2>2. CASE j \in 1..n
    <3>1. sent[i].what = "GET_PARAMETER" /\ \E k \in (i + 1)..j : sent[k].what = "TEARDOWN"
      <4>1. sent[i].cseq = sent[j].cseq
        BY <1>1, <1>6, <2>1, <2>2
      <4> QED BY <1>6, <1>4, <2>1, <2>2, <4>1
    <3>2. \A k \in (i + 1)..j : k \in 1..n
      BY <1>1, <2>1, <2>2
    <3> QED BY <1>1, <2>1, <3>1, <3>2
  <2>3. CASE j = n + 1
    <3>1. sent[i].cseq = fCSeq + 1 /\ sent[i].cseq \in Nat
      BY <1>1, <1>6, <2>1, <2>3
    <3>2. sent[i].what = "GET_PARAMETER" /\ TornDownAfter(i)
      BY <1>3, <2>1, <3>1
    <3>3. PICK k \in (i + 1)..n : sent[k].what = "TEARDOWN"
      BY <3>2 DEF TornDownAfter, n
    <3>4. k \in (i + 1)..j /\ k \in 1..n
      BY <1>1, <2>1, <2>3
    <3>5. sent'[i].what = "GET_PARAMETER" /\ sent'[k].what = "TEARDOWN"
      BY <1>1, <2>1, <3>2, <3>3, <3>4
    <3> QED BY ONLY <3>4, <3>5
  <2>4. j \in 1..n \/ j = n + 1
    BY ONLY <1>1, j \in 1..(n + 1)
  <2> QED BY ONLY <2>2, <2>3, <2>4
<1>7. Distinct'
  <2>1. \A i, j \in 1..(n + 1) : i < j /\ sent'[i].cseq = sent'[j].cseq =>
          sent'[i].what = "GET_PARAMETER" /\ \E k \in (i + 1)..j : sent'[k].what = "TEARDOWN"
    <3> TAKE i, j \in 1..(n + 1)
    <3> HAVE i < j /\ sent'[i].cseq = sent'[j].cseq
    <3> QED BY <1>6
  <2>2. DOMAIN sent' = 1..(n + 1)
    BY <1>1
  <2> SUFFICES \A i, j \in DOMAIN sent' : i < j /\ sent'[i].cseq = sent'[j].cseq =>
                 sent'[i].what = "GET_PARAMETER" /\ \E k \in (i + 1)..j : sent'[k].what = "TEARDOWN"
    BY DEF Distinct
  <2> QED BY ONLY <2>1, <2>2
<1>8. TornDown' => TornDown
  BY <1>1 DEF TornDown
<1> QED BY <1>5, <1>7, <1>8

\* The TEARDOWN has the number behind the one that was read.
LEMMA TeardownNumber ==
  ASSUME seen \in Nat, sent \in Seq(Requests), SeenReached, Distinct,
         sent' = Append(sent, [cseq |-> seen + 1, what |-> "TEARDOWN"]), fCSeq' = seen + 1
  PROVE  Reached' /\ Distinct'
<1> DEFINE n == Len(sent)
<1>1. /\ n \in Nat /\ Len(sent') = n + 1
      /\ DOMAIN sent = 1..n /\ DOMAIN sent' = 1..(n + 1)
      /\ \A i \in 1..n : sent'[i] = sent[i] /\ sent[i].cseq \in Nat
      /\ sent'[n + 1].cseq = seen + 1 /\ sent'[n + 1].what = "TEARDOWN"
  <2>1. seen + 1 \in Nat /\ "TEARDOWN" \in Commands
    BY DEF Commands
  <2>2. DOMAIN sent = 1..Len(sent)
    OBVIOUS
  <2> QED BY <2>1, <2>2, SentGrows
<1> HIDE DEF n
<1>2. \A i \in 1..n : TornDownAfter(i)'
  <2> SUFFICES ASSUME NEW i \in 1..n PROVE TornDownAfter(i)'
    OBVIOUS
  <2>1. n + 1 \in (i + 1)..Len(sent')
    BY <1>1
  <2> QED BY <1>1, <2>1 DEF TornDownAfter
<1>3. \A i \in 1..n : sent[i].cseq <= seen \/ sent[i].what = "GET_PARAMETER"
  BY <1>1 DEF SeenReached
<1>4. Reached'
  <2>1. \A i \in 1..n : sent'[i].cseq <= fCSeq' \/ (sent'[i].what = "GET_PARAMETER" /\ TornDownAfter(i)')
    BY <1>1, <1>2, <1>3
  <2>2. sent'[n + 1].cseq <= fCSeq'
    BY <1>1
  <2>3. \A i \in 1..(n + 1) : i \in 1..n \/ i = n + 1
    BY <1>1
  <2> QED BY <1>1, <2>1, <2>2, <2>3 DEF Reached
<1>5. ASSUME NEW i \in 1..(n + 1), NEW j \in 1..(n + 1), i < j, sent'[i].cseq = sent'[j].cseq
      PROVE  sent'[i].what = "GET_PARAMETER" /\ \E k \in (i + 1)..j : sent'[k].what = "TEARDOWN"
  <2>1. i \in 1..n
    BY <1>1, <1>5
  <2>2. CASE j \in 1..n
    <3>1. sent[i].what = "GET_PARAMETER" /\ \E k \in (i + 1)..j : sent[k].what = "TEARDOWN"
      <4>1. sent[i].cseq = sent[j].cseq /\ i \in DOMAIN sent /\ j \in DOMAIN sent
        BY <1>1, <1>5, <2>1, <2>2
      <4> QED BY ONLY <1>5, <4>1, Distinct DEF Distinct
    <3>2. \A k \in (i + 1)..j : k \in 1..n
      BY <1>1, <2>1, <2>2
    <3> QED BY <1>1, <2>1, <3>1, <3>2
  <2>3. CASE j = n + 1
    <3>1. sent[i].cseq = seen + 1 /\ sent[i].cseq \in Nat
      BY <1>1, <1>5, <2>1, <2>3
    <3>2. sent[i].what = "GET_PARAMETER"
      BY <1>3, <2>1, <3>1
    <3>3. j \in (i + 1)..j
      BY <1>1, <2>1, <2>3
    <3> QED BY <1>1, <2>1, <2>3, <3>2, <3>3
  <2> QED BY <1>1, <2>2, <2>3
<1>6. Distinct'
  BY <1>1, <1>5 DEF Distinct
<1> QED BY <1>4, <1>6

LEMMA StepNumbers == TypeOK /\ LifeInv /\ NumberInv /\ [Next]_vars => NumberInv'
<1> SUFFICES ASSUME TypeOK, LifeInv, NumberInv, [Next]_vars, ~raced'
             PROVE  NumberInv'
  BY DEF NumberInv
<1> USE DEF clientVars, callVars, eventVars, closeVars, serverVars, historyVars
<1>1. CallType /\ ClientType
  BY DEF TypeOK, CallType, ClientType
<1>2. ~raced
  BY DEF Next, OpenURL, OpenerStep, Misuse, SendRequest, NothingToPlay, TimesOut, StopsTiming, ReadFails,
         DiscardPacket, TakeAnswer, ReadRest, StartReading, EventStep, ReadText, ReadDollar, ReadChannel,
         ReadSize, ReadLost, readRTPOverTCP, ReadUnchanged, CloseURL, DestroyClient, CloserStep, Teardown,
         StopLoop, CloseSocket, DeleteSession, ServerStep, ServerAnswers, ServerPlays, ServerSends, vars
\* Steps that send nothing, and begin no session.
<1>3. ASSUME UNCHANGED <<sent, fCSeq, seen>>, Alive' => Alive,
             closer' = closer \/ (closer # "idle" /\ closer' \in {"stop", "close", "delete"})
      PROVE  NumberInv'
  <2>1. /\ Reached' <=> Reached
        /\ SeenReached' <=> SeenReached
        /\ TornDown' <=> TornDown
        /\ Distinct' <=> Distinct
    BY <1>3 DEF Reached, SeenReached, TornDown, Distinct, TornDownAfter
  <2> QED BY <1>2, <1>3, <2>1 DEF NumberInv
<1>4. CASE OpenURL
  <2>1. DOMAIN sent' = {} /\ closer' = "idle"
    BY <1>4 DEF OpenURL
  <2> QED BY <2>1 DEF NumberInv, Reached, TornDown, Distinct
<1>5. CASE SendRequest
  <2>1. call # "none" /\ stage \in Commands \ {"TEARDOWN"}
    BY <1>1, <1>5 DEF SendRequest, CallType, Commands
  <2>2. sent' = Append(sent, [cseq |-> fCSeq + 1, what |-> stage]) /\ fCSeq' = fCSeq + 1
    BY <1>5 DEF SendRequest, Send, Request
  <2>3. closer = "idle" /\ closer' = closer /\ Alive /\ Reached /\ Distinct
    BY <1>2, <1>5, <2>1 DEF SendRequest, LifeInv, NumberInv, Alive
  <2>4. Reached' /\ Distinct' /\ (TornDown' => TornDown)
    BY <1>1, <2>1, <2>2, <2>3, NextNumber DEF ClientType
  <2> QED BY <1>2, <2>3, <2>4 DEF NumberInv
<1>6. CASE Misuse \/ NothingToPlay \/ StopsTiming \/ DiscardPacket \/ StartReading
  <2>1. UNCHANGED <<sent, fCSeq, seen, closer, fMediaSession>>
    BY <1>6 DEF Misuse, NothingToPlay, StopsTiming, DiscardPacket, StartReading
  <2>2. call' = call \/ call' = "none"
    BY <1>6 DEF Misuse, NothingToPlay, StopsTiming, DiscardPacket, StartReading, Ends
  <2> QED BY <1>3, <2>1, <2>2 DEF Alive
<1>7. CASE TimesOut \/ ReadFails \/ TakeAnswer \/ ReadRest
  <2>1. UNCHANGED <<sent, fCSeq, seen, closer>>
    BY <1>7 DEF TimesOut, ReadFails, TakeAnswer, ReadRest
  <2>2. Alive
    BY <1>1, <1>7 DEF TimesOut, ReadFails, TakeAnswer, ReadRest, CallType, Alive
  <2> QED BY <1>3, <2>1, <2>2
<1>8. CASE ReadText \/ ReadDollar \/ ReadSize \/ ReadLost \/ ReadChannel
  BY <1>3, <1>8 DEF ReadText, ReadDollar, ReadSize, ReadLost, ReadChannel, ReadUnchanged, Alive
<1>9. ASSUME NEW k \in 1..PacketSize, readRTPOverTCP(k)
      PROVE  NumberInv'
  <2>1. UNCHANGED <<seen, closer, fMediaSession, call>> /\ fMediaSession
    BY <1>2, <1>9 DEF readRTPOverTCP, Reads, LifeInv
  <2>2. CASE UNCHANGED <<fCSeq, sent>>
    BY <1>3, <2>1, <2>2 DEF Alive
  <2>3. CASE /\ fCSeq' = fCSeq + 1
             /\ sent' = Append(sent, [cseq |-> fCSeq + 1, what |-> "GET_PARAMETER"])
    <3>1. Alive /\ Reached /\ Distinct /\ Alive'
      BY <1>2, <2>1 DEF NumberInv, Alive
    <3>2. "GET_PARAMETER" \in Commands \ {"TEARDOWN"}
      BY DEF Commands
    <3>3. Reached' /\ Distinct' /\ (TornDown' => TornDown)
      BY <1>1, <2>3, <3>1, <3>2, NextNumber DEF ClientType
    <3>4. ASSUME SeenReached PROVE SeenReached'
      <4>1. /\ DOMAIN sent = 1..Len(sent) /\ DOMAIN sent' = 1..(Len(sent) + 1) /\ Len(sent) \in Nat
            /\ \A i \in DOMAIN sent : sent'[i] = sent[i]
            /\ sent'[Len(sent) + 1].what = "GET_PARAMETER"
        <5>1. fCSeq + 1 \in Nat
          BY <1>1 DEF ClientType
        <5> QED BY <1>1, <2>3, <3>2, <5>1, SentGrows DEF ClientType
      <4>2. \A i \in DOMAIN sent' : i \in DOMAIN sent \/ i = Len(sent) + 1
        BY <4>1
      <4> QED BY <2>1, <3>4, <4>1, <4>2 DEF SeenReached
    <3> QED BY <1>2, <2>1, <3>1, <3>3, <3>4 DEF NumberInv
  <2> QED BY <1>9, <2>1, <2>2, <2>3 DEF readRTPOverTCP, sendGetParam, Send, Request
<1>10. CASE CloseURL
  <2>1. UNCHANGED <<sent, fCSeq, call, fMediaSession>> /\ closer = "idle" /\ fMediaSession /\ seen' = fCSeq
    BY <1>10 DEF CloseURL
  <2>2. Alive /\ Alive' /\ Reached /\ Distinct /\ ~TornDown
    BY <1>2, <2>1 DEF NumberInv, Alive
  <2>3. Reached' /\ Distinct' /\ ~TornDown'
    BY <2>1, <2>2 DEF Reached, TornDownAfter, Distinct, TornDown
  <2>4. SeenReached'
    BY <2>1, <2>2 DEF Reached, SeenReached
  <2> QED BY <2>3, <2>4 DEF NumberInv
<1>11. CASE DestroyClient
  <2>1. UNCHANGED <<sent, fCSeq, seen, call, fMediaSession>> /\ closer' = "stop"
    BY <1>11, Steps DEF DestroyClient
  <2>2. /\ Reached' <=> Reached
        /\ Distinct' <=> Distinct
    BY <2>1 DEF Reached, Distinct, TornDownAfter
  <2> QED BY <1>2, <2>1, <2>2 DEF NumberInv, Alive
<1>12. CASE Teardown
  <2>1. closer' = "stop" /\ fCSeq' = seen + 1 /\ sent' = Append(sent, [cseq |-> seen + 1, what |-> "TEARDOWN"])
    BY <1>12, Steps DEF Teardown, Send, Request
  <2>2. SeenReached /\ Distinct
    BY <1>2, <1>12 DEF Teardown, NumberInv
  <2>3. Reached' /\ Distinct'
    BY <1>1, <2>1, <2>2, TeardownNumber DEF ClientType
  <2> QED BY <2>1, <2>3 DEF NumberInv
<1>13. CASE StopLoop \/ CloseSocket
  <2>1. UNCHANGED <<sent, fCSeq, seen, call, fMediaSession>> /\ closer # "idle"
    BY <1>13 DEF StopLoop, CloseSocket
  <2>2. closer' \in {"close", "delete"}
    BY <1>13, Steps DEF StopLoop, CloseSocket
  <2> QED BY <1>3, <2>1, <2>2 DEF Alive
<1>14. CASE DeleteSession
  <2>1. closer' = "idle" /\ fMediaSession' = FALSE /\ UNCHANGED <<sent, call>>
    BY <1>14, Steps DEF DeleteSession
  <2>2. call = "none"
    BY <1>2, <1>14 DEF DeleteSession, LifeInv
  <2>3. ~Alive' /\ (Distinct' <=> Distinct)
    BY <2>1, <2>2 DEF Alive, Distinct
  <2> QED BY <1>2, <2>1, <2>3 DEF NumberInv
<1>15. CASE ServerStep \/ UNCHANGED vars
  BY <1>3, <1>15 DEF ServerStep, ServerAnswers, ServerPlays, ServerSends, vars, Alive
<1> QED BY <1>4, <1>5, <1>6, <1>7, <1>8, <1>9, <1>10, <1>11, <1>12, <1>13, <1>14, <1>15
        DEF Next, OpenerStep, EventStep, CloserStep

LEMMA InitNumbers == Init => NumberInv
<1> SUFFICES ASSUME Init PROVE NumberInv
  OBVIOUS
<1>1. DOMAIN sent = {} /\ closer = "idle"
  BY DEF Init
<1> QED BY <1>1 DEF NumberInv, Reached, TornDown, Distinct

\* The requests of a session have numbers of their own, except the TEARDOWN and what is sent
\* after it, which may repeat that of a keep-alive, unless closeURL came in the middle of a call.
THEOREM Numbers == Spec => []NumbersDistinct
<1>1. NumberInv => NumbersDistinct
  BY DEF NumberInv, Distinct, NumbersDistinct
<1> QED BY <1>1, InitLife, InitNumbers, StepLife, StepNumbers, TypeCorrect, PTL DEF Spec

(***************************************************************************)
(* What is on the connection: requests, answers and packets, whole ones    *)
(* but for what is read of the first.                                      *)
(***************************************************************************)
Asked == [cseq : Nat, what : Commands, track : Tracks \cup {NoTrack}, channel : Int]
Answers == [is : {"answer"}, n : Nat, status : {"ok", "unauthorized", "refused"}, channel : Int]
Pieces == [is : {"dollar", "channel", "size", "data"}, n : Int]
Tokens == Pieces \cup Answers
\* What the lookup of a channel gives, for any tracks that have it.
Sources == {NoTrack} \cup {CHOOSE t \in ts : \A u \in ts : t <= u : ts \in SUBSET Tracks}
Deliveries == [pieces : Seq(Int), source : Sources]

WireType == wire \in Seq(Tokens)
RequestType ==
  /\ requests \in Seq(Asked) /\ fTCPStreamIdCount \in Nat
  /\ \A i \in DOMAIN requests : requests[i].what = "SETUP" => requests[i].track \in Tracks
ServerType ==
  /\ granted \subseteq [track : Tracks, channel : Int] /\ packets \in Seq(Tracks)
  /\ playing \in BOOLEAN
ReadType ==
  /\ channelId \in [Tracks -> Int] /\ fNextTCPSource \in Sources
  /\ fTCPReadSize \in Int /\ fRtpBuffer \in Seq(Int) /\ delivered \in Seq(Deliveries)
  /\ timeouts \in Nat

DollarAt(i) == wire[i].is = "dollar"
AnswerAt(i) == wire[i].is = "answer"

\* A packet and its pieces; what follows from position i of the wire on is packet m from its
\* piece o on.
Length == 3 + PacketSize
PieceOf(m, j) ==
  IF j = 0 THEN Token("dollar", 0)
  ELSE IF j = 1 THEN Token("channel", packets[m] - 1)
  ELSE IF j = 2 THEN Token("size", PacketSize) ELSE Token("data", m)
PacketFrom(i, m, o) ==
  \A j \in o..(Length - 1) : i + (j - o) \in DOMAIN wire /\ wire[i + (j - o)] = PieceOf(m, j)
At(i, m) == PacketFrom(i, m, 0)

\* Every packet on the wire is whole.
DollarsWhole == \A i \in DOMAIN wire : DollarAt(i) => \E m \in DOMAIN packets : At(i, m)

Typed == WireType /\ RequestType /\ ServerType /\ ReadType

\* Something is read from the front.
Shifted(d) ==
  /\ Len(wire') = Len(wire) - d
  /\ \A i \in 1..Len(wire') : wire'[i] = wire[i + d]

LEMMA PieceThere == 1 \in 1..PacketSize
  BY ConstantsAssumption

LEMMA TailShifts ==
  ASSUME wire \in Seq(Tokens), wire # <<>>, wire' = Tail(wire)
  PROVE  /\ 1 \in 1..Len(wire) /\ Head(wire) = wire[1] /\ wire[1] \in Tokens
         /\ Shifted(1) /\ wire' \in Seq(Tokens)
  BY DEF Shifted

LEMMA CutShifts ==
  ASSUME wire \in Seq(Tokens), NEW d \in 0..Len(wire), wire' = SubSeq(wire, d + 1, Len(wire))
  PROVE  Shifted(d) /\ wire' \in Seq(Tokens)
<1>1. /\ Len(wire') = Len(wire) - d
      /\ \A i \in 1..(Len(wire) - d) : wire'[i] = wire[i + d] /\ wire[i + d] \in Tokens
  OBVIOUS
<1>2. wire' \in Seq(Tokens)
  BY <1>1
<1> QED BY <1>1, <1>2 DEF Shifted

\* The packet that is discarded is a whole one.
LEMMA DiscardShifts ==
  ASSUME wire \in Seq(Tokens), DollarsWhole, DiscardPacket
  PROVE  /\ Length \in 1..Len(wire) /\ Shifted(Length) /\ wire' \in Seq(Tokens)
         /\ 1 \in DOMAIN wire /\ DollarAt(1)
<1>1. 1 \in DOMAIN wire /\ Head(wire) = wire[1] /\ DollarAt(1)
  BY DEF DiscardPacket, DollarAt
<1>2. PICK m \in DOMAIN packets : At(1, m)
  BY <1>1 DEF DollarsWhole
<1>3. Length \in Nat /\ Length >= 4 /\ 2 \in 0..(Length - 1) /\ Length - 1 \in 0..(Length - 1)
  BY ConstantsAssumption DEF Length
<1>4. wire[3] = Token("size", PacketSize)
  <2>1. wire[1 + (2 - 0)] = PieceOf(m, 2)
    BY <1>2, <1>3 DEF At, PacketFrom
  <2> QED BY <2>1 DEF PieceOf
<1>5. Length \in DOMAIN wire
  <2>1. 1 + ((Length - 1) - 0) \in DOMAIN wire
    BY <1>2, <1>3 DEF At, PacketFrom
  <2> QED BY <1>3, <2>1
<1>6. Length \in 1..Len(wire)
  BY <1>5
<1>7. wire' = SubSeq(wire, Length + 1, Len(wire))
  BY <1>4, ConstantsAssumption DEF DiscardPacket, Token, Length
<1> QED BY <1>1, <1>6, <1>7, CutShifts

LEMMA DataShifts ==
  ASSUME wire \in Seq(Tokens), NEW k \in 1..PacketSize, readRTPOverTCP(k)
  PROVE  k \in 1..Len(wire) /\ Shifted(k) /\ wire' \in Seq(Tokens)
<1>1. k \in 1..Len(wire) /\ wire' = SubSeq(wire, k + 1, Len(wire))
  BY ConstantsAssumption DEF readRTPOverTCP
<1> QED BY <1>1, CutShifts

\* Every read takes something from the front.
LEMMA ReadShifts ==
  ASSUME wire \in Seq(Tokens), DollarsWhole, NEW k \in 1..PacketSize,
         DiscardPacket \/ TakeAnswer \/ ReadRest \/ ReadText \/ ReadDollar \/ ReadChannel \/ ReadSize
           \/ ReadLost \/ readRTPOverTCP(k)
  PROVE  (\E d \in 1..Len(wire) : Shifted(d)) /\ wire' \in Seq(Tokens)
<1>1. CASE DiscardPacket
  BY <1>1, DiscardShifts
<1>2. CASE readRTPOverTCP(k)
  BY <1>2, DataShifts
<1>3. CASE TakeAnswer \/ ReadRest \/ ReadText \/ ReadDollar \/ ReadChannel \/ ReadSize \/ ReadLost
  <2>1. wire # <<>> /\ wire' = Tail(wire)
    BY <1>3 DEF TakeAnswer, AfterAnswer, ReadRest, ReadText, ReadDollar, ReadChannel, ReadSize, ReadLost, Reads
  <2> QED BY <2>1, TailShifts
<1> QED BY <1>1, <1>2, <1>3

\* What a request adds to those the server has not answered.
Asks(r) ==
  /\ requests' \in Seq(Asked)
  /\ Len(requests') \in Len(requests)..(Len(requests) + 1)
  /\ \A i \in DOMAIN requests' :
       \/ i \in DOMAIN requests /\ requests'[i] = requests[i]
       \/ connected /\ i = Len(requests) + 1 /\ requests'[i] = r

LEMMA SendAsks ==
  ASSUME requests \in Seq(Asked), NEW n \in Nat, NEW what \in Commands,
         NEW t \in Tracks \cup {NoTrack}, NEW c \in Int, Send(Request(n, what, t, c))
  PROVE  Asks(Request(n, what, t, c))
<1> DEFINE r == Request(n, what, t, c)
<1>1. r \in Asked
  BY DEF Request, Asked
<1>2. requests' = IF connected THEN Append(requests, r) ELSE requests
  BY DEF Send
<1> HIDE DEF r
<1>3. requests' \in Seq(Asked)
  BY <1>1, <1>2
<1>4. CASE connected
  <2>1. /\ Len(requests') = Len(requests) + 1 /\ Len(requests) \in Nat
        /\ \A i \in DOMAIN requests' :
             (i \in DOMAIN requests /\ requests'[i] = requests[i]) \/ (i = Len(requests) + 1 /\ requests'[i] = r)
    BY <1>1, <1>2, <1>4
  <2> QED BY <1>3, <1>4, <2>1 DEF Asks, r
<1>5. CASE ~connected
  <2>1. requests' = requests /\ Len(requests) \in Nat
    BY <1>2, <1>5
  <2> QED BY <1>3, <2>1 DEF Asks
<1> QED BY <1>4, <1>5

LEMMA NotEmpty ==
  ASSUME NEW S, NEW s \in Seq(S), NEW e \in S
  PROVE  Append(s, e) # <<>>
<1>1. Len(Append(s, e)) = Len(s) + 1 /\ Len(s) \in Nat
  OBVIOUS
<1>2. Len(<<>>) = 0
  OBVIOUS
<1> QED BY <1>1, <1>2

LEMMA SentSome ==
  ASSUME sent \in Seq(Requests), NEW n \in Nat, NEW what \in Commands,
         sent' = Append(sent, [cseq |-> n, what |-> what])
  PROVE  sent' # <<>>
<1>1. [cseq |-> n, what |-> what] \in Requests
  BY DEF Requests
<1> QED BY <1>1, NotEmpty

\* The requests of the program.
LEMMA OpenerAsks ==
  ASSUME TypeOK, Typed, SendRequest
  PROVE  /\ Asks(Request(fCSeq + 1, stage, track, fTCPStreamIdCount))
         /\ sent' # <<>> /\ stage \in Stages /\ fCSeq' = fCSeq + 1 /\ fCSeq + 1 \in Nat
<1>1. stage \in Stages /\ track \in Tracks \cup {NoTrack} /\ fCSeq \in Nat /\ sent \in Seq(Requests)
  BY DEF TypeOK, SendRequest, Stages
<1>2. /\ Send(Request(fCSeq + 1, stage, track, fTCPStreamIdCount)) /\ fCSeq' = fCSeq + 1
      /\ sent' = Append(sent, [cseq |-> fCSeq + 1, what |-> stage])
  BY DEF SendRequest, Send, Request
<1>3. fCSeq + 1 \in Nat /\ stage \in Commands /\ fTCPStreamIdCount \in Int /\ requests \in Seq(Asked)
  BY <1>1 DEF Stages, Commands, Typed, RequestType
<1>4. Asks(Request(fCSeq + 1, stage, track, fTCPStreamIdCount))
  BY <1>1, <1>2, <1>3, SendAsks
<1>5. sent' # <<>>
  BY <1>1, <1>2, <1>3, SentSome
<1> QED BY <1>1, <1>2, <1>3, <1>4, <1>5

LEMMA KeepAliveAsks ==
  ASSUME TypeOK, Typed, Send(Request(fCSeq + 1, "GET_PARAMETER", NoTrack, OtherChannel))
  PROVE  Asks(Request(fCSeq + 1, "GET_PARAMETER", NoTrack, OtherChannel)) /\ sent' # <<>>
<1>1. /\ fCSeq + 1 \in Nat /\ "GET_PARAMETER" \in Commands /\ sent \in Seq(Requests)
      /\ OtherChannel \in Int /\ requests \in Seq(Asked)
  BY DEF TypeOK, Typed, RequestType, Commands, OtherChannel
<1>2. sent' = Append(sent, [cseq |-> fCSeq + 1, what |-> "GET_PARAMETER"])
  BY DEF Send, Request
<1> QED BY <1>1, <1>2, SendAsks, SentSome

LEMMA TeardownAsks ==
  ASSUME TypeOK, Typed, Teardown
  PROVE  Asks(Request(seen + 1, "TEARDOWN", NoTrack, OtherChannel)) /\ sent' # <<>>
<1>1. /\ seen + 1 \in Nat /\ "TEARDOWN" \in Commands /\ sent \in Seq(Requests)
      /\ OtherChannel \in Int /\ requests \in Seq(Asked)
  BY DEF TypeOK, Typed, RequestType, Commands, OtherChannel
<1>2. sent' = Append(sent, [cseq |-> seen + 1, what |-> "TEARDOWN"])
  BY DEF Teardown, Send, Request
<1> QED BY <1>1, <1>2, SendAsks, SentSome DEF Teardown

\* A keep-alive is all that the event thread sends.
LEMMA DataAsks ==
  ASSUME TypeOK, Typed, NEW k \in 1..PacketSize, readRTPOverTCP(k)
  PROVE  \/ UNCHANGED <<requests, fCSeq, sent>>
         \/ /\ Asks(Request(fCSeq + 1, "GET_PARAMETER", NoTrack, OtherChannel))
            /\ sent' # <<>> /\ fCSeq' = fCSeq + 1
<1>1. CASE UNCHANGED <<requests, fCSeq, sent>>
  BY <1>1
<1>2. CASE Send(Request(fCSeq + 1, "GET_PARAMETER", NoTrack, OtherChannel)) /\ fCSeq' = fCSeq + 1
  BY <1>2, KeepAliveAsks
<1> QED BY <1>1, <1>2 DEF readRTPOverTCP, sendGetParam

\* What an answer, and a packet, add to the wire.
Told(r, status) ==
  /\ r = requests[1] /\ r \in Asked /\ requests # <<>>
  /\ requests' \in Seq(Asked) /\ Len(requests') = Len(requests) - 1
  /\ \A i \in DOMAIN requests' : i + 1 \in DOMAIN requests /\ requests'[i] = requests[i + 1]
  /\ wire' \in Seq(Tokens) /\ Len(wire') = Len(wire) + 1
  /\ \A i \in DOMAIN wire : wire'[i] = wire[i]
  /\ wire'[Len(wire) + 1] = Answer(r, status) /\ Answer(r, status) \in Answers

LEMMA ServerTells ==
  ASSUME Typed, ServerAnswers
  PROVE  LET r == Head(requests) IN
         \/ /\ Told(r, "ok") /\ Granted(r)
            /\ playing' = (r.what # "TEARDOWN" /\ (playing \/ r.what = "PLAY"))
         \/ Told(r, "unauthorized") /\ r.what \in {"OPTIONS", "DESCRIBE"} /\ UNCHANGED <<granted, playing>>
         \/ Told(r, "refused") /\ ~playing /\ UNCHANGED <<granted, playing>>
<1> DEFINE r == Head(requests)
<1>1. requests \in Seq(Asked) /\ wire \in Seq(Tokens) /\ requests # <<>> /\ requests' = Tail(requests)
  BY DEF Typed, RequestType, WireType, ServerAnswers
<1>2. /\ r = requests[1] /\ r \in Asked
      /\ requests' \in Seq(Asked) /\ Len(requests') = Len(requests) - 1
      /\ \A i \in DOMAIN requests' : i + 1 \in DOMAIN requests /\ requests'[i] = requests[i + 1]
  BY <1>1
<1>3. ASSUME NEW status \in {"ok", "unauthorized", "refused"}, wire' = Append(wire, Answer(r, status))
      PROVE  Told(r, status)
  <2>1. Answer(r, status) \in Answers /\ Answer(r, status) \in Tokens
    BY <1>2 DEF Answer, Answers, Tokens, Asked
  <2>2. /\ wire' \in Seq(Tokens) /\ Len(wire') = Len(wire) + 1
        /\ \A i \in DOMAIN wire : wire'[i] = wire[i]
        /\ wire'[Len(wire) + 1] = Answer(r, status)
    BY <1>1, <1>3, <2>1
  <2> QED BY <1>1, <1>2, <2>1, <2>2 DEF Told
<1> QED BY <1>3 DEF ServerAnswers

PieceSent(g, m, j) ==
  IF j = 0 THEN Token("dollar", 0)
  ELSE IF j = 1 THEN Token("channel", g.channel)
  ELSE IF j = 2 THEN Token("size", PacketSize) ELSE Token("data", m)
Plays(g) ==
  /\ playing /\ packets' = Append(packets, g.track)
  /\ wire' \in Seq(Tokens) /\ Len(wire') = Len(wire) + Length
  /\ \A i \in DOMAIN wire : wire'[i] = wire[i]
  /\ \A j \in 0..(Length - 1) : wire'[Len(wire) + 1 + j] = PieceSent(g, Len(packets) + 1, j)

LEMMA ServerSendsWhole ==
  ASSUME Typed, ServerSends
  PROVE  \E g \in granted : Plays(g)
<1>1. PICK g \in granted :
         /\ packets' = Append(packets, g.track)
         /\ wire' = wire \o <<Token("dollar", 0), Token("channel", g.channel), Token("size", PacketSize)>>
                         \o [i \in 1..PacketSize |-> Token("data", Len(packets) + 1)]
  BY DEF ServerSends
<1> DEFINE n == Len(packets) + 1
           head == <<Token("dollar", 0), Token("channel", g.channel), Token("size", PacketSize)>>
           data == [i \in 1..PacketSize |-> Token("data", n)]
<1>2. wire \in Seq(Tokens) /\ g.channel \in Int /\ n \in Nat /\ PacketSize \in Nat \ {0}
  BY ConstantsAssumption DEF Typed, WireType, ServerType
<1>3. /\ Token("dollar", 0) \in Tokens /\ Token("channel", g.channel) \in Tokens
      /\ Token("size", PacketSize) \in Tokens /\ Token("data", n) \in Tokens
  BY <1>2 DEF Token, Tokens, Pieces
<1>4. /\ head \in Seq(Tokens) /\ Len(head) = 3
      /\ head[1] = Token("dollar", 0) /\ head[2] = Token("channel", g.channel)
      /\ head[3] = Token("size", PacketSize)
  BY <1>3
<1>5. /\ data \in Seq(Tokens) /\ Len(data) = PacketSize
      /\ \A i \in 1..PacketSize : data[i] = Token("data", n)
  BY <1>2, <1>3
<1>6. wire' = wire \o head \o data
  BY <1>1
<1> HIDE DEF head, data
<1>7. /\ wire' \in Seq(Tokens) /\ Len(wire') = Len(wire) + 3 + PacketSize
      /\ \A i \in 1..Len(wire) : wire'[i] = wire[i]
      /\ \A i \in 1..3 : wire'[Len(wire) + i] = head[i]
      /\ \A i \in 1..PacketSize : wire'[Len(wire) + 3 + i] = data[i]
  <2>1. /\ wire \o head \in Seq(Tokens) /\ Len(wire \o head) = Len(wire) + 3 /\ Len(wire) \in Nat
        /\ \A i \in 1..Len(wire) : (wire \o head)[i] = wire[i]
        /\ \A i \in 1..3 : (wire \o head)[Len(wire) + i] = head[i]
    <3>1. /\ wire \o head \in Seq(Tokens) /\ Len(wire \o head) = Len(wire) + Len(head) /\ Len(wire) \in Nat
          /\ \A i \in 1..Len(wire) : (wire \o head)[i] = wire[i]
          /\ \A i \in 1..Len(head) : (wire \o head)[Len(wire) + i] = head[i]
      <4>1. wire \in Seq(Tokens) /\ head \in Seq(Tokens)
        BY <1>2, <1>4
      <4> QED BY ONLY <4>1
    <3> QED BY <1>2, <1>4, <3>1
  <2> DEFINE w == wire \o head
  <2>2. w \in Seq(Tokens) /\ wire' = w \o data
    BY <1>6, <2>1
  <2>3. /\ Len(w) = Len(wire) + 3 /\ Len(wire) \in Nat
        /\ \A i \in 1..Len(wire) : w[i] = wire[i]
        /\ \A i \in 1..3 : w[Len(wire) + i] = head[i]
    BY <2>1
  <2> HIDE DEF w
  <2>4. /\ wire' \in Seq(Tokens) /\ Len(wire') = Len(w) + PacketSize
        /\ \A i \in 1..Len(w) : wire'[i] = w[i]
        /\ \A i \in 1..PacketSize : wire'[Len(w) + i] = data[i]
    <3>1. /\ w \o data \in Seq(Tokens) /\ Len(w \o data) = Len(w) + Len(data)
          /\ \A i \in 1..Len(w) : (w \o data)[i] = w[i]
          /\ \A i \in 1..Len(data) : (w \o data)[Len(w) + i] = data[i]
      <4>1. w \in Seq(Tokens) /\ data \in Seq(Tokens)
        BY <1>5, <2>2
      <4> QED BY ONLY <4>1
    <3> QED BY <1>5, <2>2, <3>1
  <2> QED BY <1>2, <2>3, <2>4
<1>8. ASSUME NEW j \in 0..(Length - 1)
      PROVE  wire'[Len(wire) + 1 + j] = PieceSent(g, n, j)
  <2>1. Len(wire) \in Nat
    BY <1>2
  <2>2. CASE j \in {0, 1, 2}
    <3>1. wire'[Len(wire) + (j + 1)] = head[j + 1]
      BY <1>7, <2>2
    <3>2. Len(wire) + (j + 1) = Len(wire) + 1 + j
      BY <2>1, <2>2
    <3> QED BY <1>4, <2>2, <3>1, <3>2 DEF PieceSent
  <2>3. CASE j \notin {0, 1, 2}
    <3>1. j - 2 \in 1..PacketSize /\ Len(wire) + 3 + (j - 2) = Len(wire) + 1 + j
      BY <1>2, <2>1, <2>3 DEF Length
    <3>2. wire'[Len(wire) + 3 + (j - 2)] = Token("data", n)
      BY <1>5, <1>7, <3>1
    <3> QED BY <2>3, <3>1, <3>2 DEF PieceSent
  <2> QED BY <2>2, <2>3
<1>9. Len(wire') = Len(wire) + Length
  <2>1. Len(wire) \in Nat
    BY <1>2
  <2> QED BY <1>2, <1>7, <2>1 DEF Length
<1>10. \A i \in DOMAIN wire : wire'[i] = wire[i]
  <2>1. DOMAIN wire = 1..Len(wire)
    BY <1>2
  <2> QED BY <1>7, <2>1
<1>11. playing /\ packets' = Append(packets, g.track)
  BY <1>1 DEF ServerSends
<1>12. Plays(g)
  BY <1>7, <1>8, <1>9, <1>10, <1>11 DEF Plays
<1> QED BY <1>12

LEMMA AnswersOne ==
  ASSUME Typed, ServerAnswers
  PROVE  /\ Head(requests) = requests[1] /\ requests[1] \in Asked /\ 1 \in DOMAIN requests
         /\ \E status \in {"ok", "unauthorized", "refused"} : Told(Head(requests), status)
<1>1. \E status \in {"ok", "unauthorized", "refused"} : Told(Head(requests), status)
  BY ServerTells
<1>2. requests \in Seq(Asked) /\ requests # <<>>
  BY DEF Typed, RequestType, ServerAnswers
<1> QED BY <1>1, <1>2

(***************************************************************************)
(* The types of what is on the connection.                                 *)
(***************************************************************************)
LEMMA StepWire == TypeOK /\ Typed /\ DollarsWhole /\ [Next]_vars => WireType'
<1> SUFFICES ASSUME TypeOK, Typed, DollarsWhole, [Next]_vars
             PROVE  wire' \in Seq(Tokens)
  BY DEF WireType
<1>1. wire \in Seq(Tokens) /\ <<>> \in Seq(Tokens)
  BY DEF Typed, WireType
<1>2. ASSUME NEW k \in 1..PacketSize,
             DiscardPacket \/ TakeAnswer \/ ReadRest \/ ReadText \/ ReadDollar \/ ReadChannel \/ ReadSize
               \/ ReadLost \/ readRTPOverTCP(k)
      PROVE  wire' \in Seq(Tokens)
  BY <1>1, <1>2, ReadShifts
<1>3. 1 \in 1..PacketSize
  BY PieceThere
<1>4. CASE ServerAnswers
  BY <1>4, ServerTells DEF Told
<1>5. CASE ServerSends
  BY <1>5, ServerSendsWhole DEF Plays
<1>6. CASE CloseSocket
  BY <1>1, <1>6 DEF CloseSocket
<1> QED BY <1>1, <1>2, <1>3, <1>4, <1>5, <1>6
        DEF Next, OpenURL, OpenerStep, Misuse, SendRequest, NothingToPlay, TimesOut, StopsTiming, ReadFails,
            StartReading, EventStep, CloseURL, DestroyClient, CloserStep, Teardown, StopLoop, DeleteSession,
            ServerStep, ServerPlays, vars

LEMMA StepRequests == TypeOK /\ Typed /\ [Next]_vars => RequestType'
<1> SUFFICES ASSUME TypeOK, Typed, [Next]_vars
             PROVE  RequestType'
  OBVIOUS
<1> USE DEF clientVars, callVars, eventVars, closeVars, serverVars, historyVars
<1>1. /\ requests \in Seq(Asked) /\ fTCPStreamIdCount \in Nat
      /\ \A i \in DOMAIN requests : requests[i].what = "SETUP" => requests[i].track \in Tracks
  BY DEF Typed, RequestType
<1>2. ASSUME UNCHANGED <<requests, fTCPStreamIdCount>> PROVE RequestType'
  BY <1>1, <1>2 DEF RequestType
<1>3. ASSUME NEW r, Asks(r), r.what = "SETUP" => r.track \in Tracks, fTCPStreamIdCount' \in Nat
      PROVE  RequestType'
  BY <1>1, <1>3 DEF RequestType, Asks
<1>4. CASE SendRequest
  <2>1. fTCPStreamIdCount' \in Nat
    BY <1>1, <1>4 DEF SendRequest, CountAfterRequest
  <2>2. stage = "SETUP" => track \in Tracks
    BY DEF TypeOK
  <2> QED BY <1>3, <1>4, <2>1, <2>2, OpenerAsks DEF Request
<1>5. ASSUME NEW k \in 1..PacketSize, readRTPOverTCP(k)
      PROVE  RequestType'
  <2>1. fTCPStreamIdCount' = fTCPStreamIdCount
    BY <1>5 DEF readRTPOverTCP
  <2> QED BY <1>1, <1>2, <1>3, <1>5, <2>1, DataAsks DEF Request
<1>6. CASE Teardown
  <2>1. fTCPStreamIdCount' = fTCPStreamIdCount
    BY <1>6 DEF Teardown
  <2> QED BY <1>1, <1>3, <1>6, <2>1, TeardownAsks DEF Request
<1>7. CASE CloseSocket
  BY <1>1, <1>7 DEF CloseSocket, RequestType
<1>8. CASE DeleteSession
  BY <1>1, <1>8 DEF DeleteSession, RequestType
<1>9. CASE ServerAnswers
  <2>1. /\ requests' \in Seq(Asked)
        /\ \A i \in DOMAIN requests' : i + 1 \in DOMAIN requests /\ requests'[i] = requests[i + 1]
    BY <1>9, ServerTells DEF Told
  <2>2. fTCPStreamIdCount' = fTCPStreamIdCount
    BY <1>9 DEF ServerAnswers
  <2> QED BY <1>1, <2>1, <2>2 DEF RequestType
<1> QED BY <1>2, <1>4, <1>5, <1>6, <1>7, <1>8, <1>9
        DEF Next, OpenURL, OpenerStep, Misuse, NothingToPlay, TimesOut, StopsTiming, ReadFails, DiscardPacket,
            TakeAnswer, ReadRest, StartReading, EventStep, ReadText, ReadDollar, ReadChannel, ReadSize,
            ReadLost, ReadUnchanged, CloseURL, DestroyClient, CloserStep, StopLoop,
            ServerStep, ServerPlays, ServerSends, vars

LEMMA StepServer == Typed /\ [Next]_vars => ServerType'
<1> SUFFICES ASSUME Typed, [Next]_vars
             PROVE  ServerType'
  OBVIOUS
<1>1. granted \subseteq [track : Tracks, channel : Int] /\ packets \in Seq(Tracks) /\ playing \in BOOLEAN
  BY DEF Typed, ServerType
<1>2. ASSUME UNCHANGED <<granted, packets, playing>> PROVE ServerType'
  BY <1>1, <1>2 DEF ServerType
<1>3. CASE ServerAnswers
  <2> DEFINE r == Head(requests)
  <2>1. r \in Asked /\ (r.what = "SETUP" => r.track \in Tracks)
    <3>1. r = requests[1] /\ r \in Asked /\ 1 \in DOMAIN requests
      BY <1>3 DEF Typed, RequestType, ServerAnswers
    <3> QED BY <3>1 DEF Typed, RequestType
  <2>2. packets' = packets
    BY <1>3 DEF ServerAnswers
  <2>3. playing' \in BOOLEAN
    <3>1. playing' = playing \/ playing' = (r.what # "TEARDOWN" /\ (playing \/ r.what = "PLAY"))
      BY <1>3, ServerTells
    <3> QED BY <1>1, <3>1, ZenonT(30)
  <2>4. CASE granted' = granted
    BY <1>1, <2>2, <2>3, <2>4 DEF ServerType
  <2>5. CASE Granted(r)
    <3>1. granted' \subseteq [track : Tracks, channel : Int]
      BY <1>1, <2>1, <2>5 DEF Granted, Asked
    <3> QED BY <1>1, <2>2, <2>3, <3>1 DEF ServerType
  <2> HIDE DEF r
  <2>6. granted' = granted \/ Granted(r)
    BY <1>3, ServerTells DEF r
  <2> QED BY <2>4, <2>5, <2>6
<1>4. CASE ServerPlays
  BY <1>1, <1>4 DEF ServerPlays, ServerType
<1>5. CASE ServerSends
  <2>1. PICK g \in granted : Plays(g)
    BY <1>5, ServerSendsWhole
  <2>2. packets' \in Seq(Tracks)
    BY <1>1, <2>1 DEF Plays
  <2>3. granted' = granted /\ playing' = playing
    BY <1>5 DEF ServerSends
  <2> QED BY <1>1, <2>2, <2>3 DEF ServerType
<1>6. CASE CloseSocket
  BY <1>1, <1>6 DEF CloseSocket, ServerType
<1> QED BY <1>2, <1>3, <1>4, <1>5, <1>6
        DEF Next, OpenURL, OpenerStep, Misuse, SendRequest, NothingToPlay, TimesOut, StopsTiming, ReadFails,
            DiscardPacket, TakeAnswer, ReadRest, StartReading, EventStep, ReadText, ReadDollar, ReadChannel,
            ReadSize, ReadLost, readRTPOverTCP, ReadUnchanged, CloseURL, DestroyClient, CloserStep, Teardown,
            StopLoop, DeleteSession, ServerStep, serverVars, vars

\* The channels of the tracks change in openURL only.
LEMMA TakesChannel ==
  ASSUME Typed, TypeOK, TakeAnswer
  PROVE  channelId' \in [Tracks -> Int] /\ Head(wire) \in Answers
<1>1. Head(wire) \in Answers
  <2>1. Head(wire) \in Tokens /\ Head(wire).is = "answer"
    BY DEF TakeAnswer, Typed, WireType
  <2> QED BY <2>1 DEF Tokens, Pieces
<1>2. channelId \in [Tracks -> Int]
  BY DEF Typed, ReadType
<1>3. CASE channelId' = channelId
  BY <1>1, <1>2, <1>3
<1>4. CASE channelId' = [channelId EXCEPT ![track] = Head(wire).channel]
  BY <1>1, <1>2, <1>4 DEF Answers
<1>5. CASE channelId' \in [Tracks -> Channels \cup {OtherChannel}]
  <2>1. Channels \cup {OtherChannel} \subseteq Int
    BY DEF Channels, OtherChannel, Tracks
  <2> QED BY <1>1, <1>5, <2>1
<1>6. stage \in Stages
  BY DEF TypeOK, TakeAnswer, Stages
<1> QED BY <1>3, <1>4, <1>5, <1>6 DEF TakeAnswer, Succeeds, Fails, Stages

LEMMA StepRead == TypeOK /\ Typed /\ [Next]_vars => ReadType'
<1> SUFFICES ASSUME TypeOK, Typed, [Next]_vars
             PROVE  ReadType'
  OBVIOUS
<1> USE DEF clientVars, callVars, eventVars, closeVars, serverVars, historyVars
<1>1. /\ channelId \in [Tracks -> Int] /\ fNextTCPSource \in Sources
      /\ fTCPReadSize \in Int /\ fRtpBuffer \in Seq(Int) /\ delivered \in Seq(Deliveries)
      /\ timeouts \in Nat
  BY DEF Typed, ReadType
<1>2. ASSUME UNCHANGED <<channelId, fNextTCPSource, fTCPReadSize, fRtpBuffer, delivered, timeouts>>
      PROVE  ReadType'
  BY <1>1, <1>2 DEF ReadType
<1>3. CASE TimesOut
  BY <1>1, <1>3 DEF TimesOut, Fails, ReadType
<1>4. CASE ReadFails
  BY <1>2, <1>4 DEF ReadFails, Fails
<1>5. CASE ReadRest
  BY <1>2, <1>5 DEF ReadRest, Fails
<1>6. CASE TakeAnswer
  <2>1. UNCHANGED <<fNextTCPSource, fTCPReadSize, fRtpBuffer, delivered, timeouts>>
    BY <1>6 DEF TakeAnswer
  <2> QED BY <1>1, <1>6, <2>1, TakesChannel DEF ReadType
<1>7. CASE ReadChannel
  <2>1. UNCHANGED <<channelId, fTCPReadSize, fRtpBuffer, delivered, timeouts>>
    BY <1>7 DEF ReadChannel, ReadUnchanged
  <2>2. fNextTCPSource' \in Sources
    <3> DEFINE ts == HasChannel(Head(wire).n)
    <3>1. CASE fNextTCPSource' = fNextTCPSource
      BY <1>1, <3>1
    <3>2. CASE ts # {} /\ fNextTCPSource' = CHOOSE t \in ts : \A u \in ts : t <= u
      <4>1. ts \in SUBSET Tracks
        BY DEF HasChannel
      <4> HIDE DEF ts
      <4> QED BY <3>2, <4>1 DEF Sources
    <3> HIDE DEF ts
    <3>3. \/ fNextTCPSource' = fNextTCPSource
          \/ ts # {} /\ fNextTCPSource' = CHOOSE t \in ts : \A u \in ts : t <= u
      BY <1>7 DEF ReadChannel, ts
    <3> QED BY <3>1, <3>2, <3>3
  <2> QED BY <1>1, <2>1, <2>2 DEF ReadType
<1>8. CASE ReadSize
  <2>1. UNCHANGED <<channelId, fNextTCPSource, delivered, timeouts>> /\ fRtpBuffer' = <<>>
    BY <1>8 DEF ReadSize, ReadUnchanged
  <2>2. fTCPReadSize' \in Int
    <3>1. Head(wire) \in Tokens /\ fTCPReadSize' = Head(wire).n
      BY <1>8 DEF ReadSize, Reads, Typed, WireType
    <3> QED BY <3>1 DEF Tokens, Pieces, Answers
  <2>3. fRtpBuffer' \in Seq(Int)
    BY <2>1
  <2> QED BY <1>1, <2>1, <2>2, <2>3 DEF ReadType
<1>9. ASSUME NEW k \in 1..PacketSize, readRTPOverTCP(k)
      PROVE  ReadType'
  <2> DEFINE piece == [i \in 1..k |-> wire[i].n]
             buffer == fRtpBuffer \o piece
  <2>1. UNCHANGED <<channelId, fNextTCPSource, fTCPReadSize, timeouts>>
    BY <1>9 DEF readRTPOverTCP
  <2>2. buffer \in Seq(Int)
    <3>1. k \in 1..Len(wire) /\ wire \in Seq(Tokens)
      BY <1>9, DataShifts DEF Typed, WireType
    <3>2. \A i \in 1..k : wire[i].n \in Int
      <4>1. \A i \in 1..k : wire[i] \in Tokens
        BY <3>1
      <4>2. \A x \in Tokens : x.n \in Int
        BY DEF Tokens, Pieces, Answers
      <4> QED BY <4>1, <4>2
    <3>3. piece \in Seq(Int)
      BY <3>1, <3>2
    <3> HIDE DEF piece
    <3> QED BY <1>1, <3>3
  <2>3. \/ fRtpBuffer' = buffer /\ delivered' = delivered
        \/ fRtpBuffer' = <<>> /\ delivered' = Append(delivered, [pieces |-> buffer, source |-> fNextTCPSource])
    BY <1>9 DEF readRTPOverTCP
  <2> HIDE DEF buffer, piece
  <2>4. fRtpBuffer' \in Seq(Int)
    <3>1. fRtpBuffer' = buffer \/ fRtpBuffer' = <<>>
      BY <2>3
    <3>2. CASE fRtpBuffer' = buffer
      BY <2>2, <3>2
    <3>3. CASE fRtpBuffer' = <<>>
      BY <3>3
    <3> QED BY <3>1, <3>2, <3>3
  <2>5. delivered' \in Seq(Deliveries)
    <3>1. [pieces |-> buffer, source |-> fNextTCPSource] \in Deliveries
      BY <1>1, <2>2 DEF Deliveries
    <3> DEFINE d == [pieces |-> buffer, source |-> fNextTCPSource]
    <3>2. d \in Deliveries
      BY <3>1
    <3>3. delivered' = delivered \/ delivered' = Append(delivered, d)
      BY <2>3
    <3> HIDE DEF d
    <3>4. Append(delivered, d) \in Seq(Deliveries)
      BY <1>1, <3>2
    <3> QED BY <1>1, <3>3, <3>4
  <2> QED BY <1>1, <2>1, <2>4, <2>5 DEF ReadType
<1>10. CASE DeleteSession
  <2>1. NoTrack \in Sources
    BY DEF Sources
  <2> QED BY <1>1, <1>10, <2>1 DEF DeleteSession, ReadType
<1> QED BY <1>2, <1>3, <1>4, <1>5, <1>6, <1>7, <1>8, <1>9, <1>10
        DEF Next, OpenURL, OpenerStep, Misuse, SendRequest, NothingToPlay, StopsTiming,
            DiscardPacket, StartReading, EventStep, ReadText, ReadDollar,
            ReadLost, ReadUnchanged, CloseURL, DestroyClient, CloserStep, Teardown,
            StopLoop, CloseSocket, ServerStep, ServerAnswers, ServerPlays, ServerSends, vars

(***************************************************************************)
(* How a call goes on after an answer.                                     *)
(***************************************************************************)
ToNextTrack ==
  \/ track # LastTrack /\ Goto("SETUP", track + 1) /\ call' = call
  \/ Goto("PLAY", NoTrack) /\ call' = "play"

FailsTo ==
  /\ UNCHANGED <<fMediaSession, channelId>>
  /\ (Ends /\ discarded' = discarded) \/ (stage = "SETUP" /\ ToNextTrack)

SucceedsTo ==
  \/ /\ stage = "OPTIONS" /\ Goto("DESCRIBE", NoTrack)
     /\ UNCHANGED <<call, fMediaSession, channelId>>
  \/ /\ stage = "DESCRIBE" /\ Goto("SETUP", 1) /\ call' = call
  \/ /\ stage = "SETUP" /\ ToNextTrack /\ fMediaSession' = fMediaSession
     /\ channelId' = [channelId EXCEPT ![track] = Head(wire).channel]
  \/ /\ stage = "PLAY" /\ Goto("start", NoTrack)
     /\ UNCHANGED <<call, fMediaSession, channelId>>

Retries ==
  /\ Head(wire).status = "unauthorized" /\ reading' = "send" /\ discarded' = FALSE
  /\ UNCHANGED <<call, stage, track, fMediaSession, channelId>>

LEMMA TracksTo ==
  ASSUME NextTrack
  PROVE  (Ends /\ discarded' = discarded /\ ~opened') \/ ToNextTrack
  BY DEF NextTrack, AfterTracks, ToNextTrack

LEMMA FailsGoesTo ==
  ASSUME Fails
  PROVE  FailsTo
  BY TracksTo DEF Fails, FailsTo

LEMMA TakesTo ==
  ASSUME CallType, TakeAnswer
  PROVE  \/ Head(wire).status = "ok" /\ SucceedsTo
         \/ Retries
         \/ Head(wire).status # "ok" /\ FailsTo
<1>1. stage \in Stages
  BY DEF CallType, TakeAnswer, Stages
<1>2. CASE Succeeds(Head(wire)) /\ Head(wire).status = "ok"
  <2>1. CASE stage = "SETUP"
    <3>1. /\ channelId' = [channelId EXCEPT ![track] = Head(wire).channel] /\ opened' = TRUE
          /\ NextTrack /\ fMediaSession' = fMediaSession
      BY <1>2, <2>1 DEF Succeeds
    <3>2. ToNextTrack
      BY <3>1, TracksTo
    <3> QED BY <1>2, <2>1, <3>1, <3>2 DEF SucceedsTo
  <2>2. CASE stage # "SETUP"
    BY <1>1, <1>2, <2>2 DEF Stages, Succeeds, SucceedsTo
  <2> QED BY <2>1, <2>2
<1>3. CASE /\ Head(wire).status = "unauthorized" /\ reading' = "send" /\ retried' = TRUE /\ discarded' = FALSE
           /\ UNCHANGED <<call, stage, track, opened, fMediaSession, fLastSessionId, channelId>>
  BY <1>3 DEF Retries
<1>4. CASE Fails /\ Head(wire).status # "ok"
  BY <1>4, FailsGoesTo
<1> QED BY <1>2, <1>3, <1>4 DEF TakeAnswer

\* A request that is waited for is given up.
LEMMA GivesUpTo ==
  ASSUME CallType, TimesOut \/ ReadFails
  PROVE  FailsTo /\ call # "none" /\ stage \in Stages
  BY FailsGoesTo DEF TimesOut, ReadFails, CallType, Stages

LEMMA RestTo ==
  ASSUME CallType, ReadRest
  PROVE  /\ call # "none" /\ stage \in Stages
         /\ \/ Head(wire).is = "answer" /\ FailsTo
            \/ Head(wire).is # "answer" /\ UNCHANGED <<callVars, fMediaSession, channelId>>
<1>1. CASE Head(wire).is = "answer"
  BY <1>1, FailsGoesTo DEF ReadRest, CallType, Stages
<1>2. CASE Head(wire).is # "answer"
  BY <1>2 DEF ReadRest, CallType, Stages, callVars
<1> QED BY <1>1, <1>2

(***************************************************************************)
(* The order of things.  Nothing has happened before the first request;    *)
(* the event loop runs after the calls, and nothing is connected once the  *)
(* socket is closed.                                                       *)
(***************************************************************************)
Blank ==
  /\ requests = <<>> /\ wire = <<>> /\ ~playing /\ granted = {} /\ packets = <<>>
  /\ fCSeq = 0 /\ fTCPStreamIdCount = 0 /\ ~fMediaSession /\ ~running /\ delivered = <<>> /\ ~lost
  /\ reading \in {"no", "send"} /\ stage \in {"none", "OPTIONS"}
BeginInv ==
  /\ sent = <<>> => Blank
  /\ call # "none" => ~running /\ delivered = <<>> /\ ~lost
  /\ closer = "delete" => ~connected
  /\ call # "none" /\ ~raced => connected

LEMMA StepBegin == TypeOK /\ LifeInv /\ Typed /\ BeginInv /\ [Next]_vars => BeginInv'
<1> SUFFICES ASSUME TypeOK, LifeInv, Typed, BeginInv, [Next]_vars
             PROVE  BeginInv'
  OBVIOUS
<1> USE DEF clientVars, callVars, eventVars, closeVars, serverVars, historyVars
<1>1. CallType
  BY CallTypes
\* Steps of a call that is under way.
<1>2. ASSUME UNCHANGED <<sent, running, delivered, lost, closer, connected, raced>>,
             call # "none" \/ call' = "none", sent # <<>>
      PROVE  BeginInv'
  BY <1>2 DEF BeginInv
<1>3. CASE OpenURL
  BY <1>3 DEF OpenURL, Goto, BeginInv, Blank
<1>4. CASE Misuse
  BY <1>4 DEF Misuse, BeginInv, Blank
<1>5. CASE SendRequest
  <2>1. sent' # <<>>
    BY <1>5, OpenerAsks
  <2> QED BY <1>5, <2>1 DEF SendRequest, BeginInv
<1>6. CASE NothingToPlay
  <2>1. sent # <<>>
    BY <1>6 DEF NothingToPlay, BeginInv, Blank
  <2> QED BY <1>2, <1>6, <2>1 DEF NothingToPlay, Ends
<1>7. CASE TimesOut \/ ReadFails \/ StopsTiming \/ DiscardPacket \/ TakeAnswer \/ ReadRest
  <2>1. sent # <<>> /\ call # "none"
    BY <1>1, <1>7 DEF TimesOut, ReadFails, StopsTiming, DiscardPacket, TakeAnswer, ReadRest, BeginInv, Blank,
                      CallType
  <2> QED BY <1>2, <1>7, <2>1 DEF TimesOut, ReadFails, StopsTiming, DiscardPacket, TakeAnswer, ReadRest
<1>8. CASE StartReading
  <2>1. sent # <<>> /\ call' = "none"
    BY <1>8 DEF StartReading, BeginInv, Blank, Ends
  <2> QED BY <1>8, <2>1 DEF StartReading, BeginInv
<1>9. ASSUME NEW k \in 1..PacketSize,
             ReadText \/ ReadDollar \/ ReadChannel \/ ReadSize \/ ReadLost \/ readRTPOverTCP(k)
      PROVE  BeginInv'
  <2>1. running /\ UNCHANGED <<call, closer, connected, raced>>
    BY <1>9 DEF ReadText, ReadDollar, ReadChannel, ReadSize, ReadLost, readRTPOverTCP, Reads, ReadUnchanged
  <2>2. sent # <<>> /\ call = "none"
    BY <2>1 DEF BeginInv, Blank
  <2>3. sent' # <<>>
    <3>1. CASE sent' = sent
      BY <2>2, <3>1
    <3>2. CASE readRTPOverTCP(k)
      BY <2>2, <3>2, DataAsks
    <3> QED BY <1>9, <3>1, <3>2 DEF ReadText, ReadDollar, ReadChannel, ReadSize, ReadLost, ReadUnchanged
  <2> QED BY <2>1, <2>2, <2>3 DEF BeginInv
<1>10. CASE CloseURL \/ DestroyClient
  <2>1. closer' \in {"teardown", "stop"}
    BY <1>10, Steps DEF CloseURL, DestroyClient
  <2>2. UNCHANGED <<sent, call, running, delivered, lost, connected>> /\ (raced => raced')
    <3>1. UNCHANGED <<sent, call, running, delivered, lost, connected>>
      BY <1>10 DEF CloseURL, DestroyClient
    <3>2. raced' = raced \/ raced' = (raced \/ Underway)
      BY <1>10 DEF CloseURL, DestroyClient
    <3>3. raced => raced'
      BY <3>2, Zenon
    <3> QED BY <3>1, <3>3
  <2>3. Blank => Blank'
    BY <1>10 DEF CloseURL, DestroyClient, Blank
  <2> QED BY <2>1, <2>2, <2>3 DEF BeginInv
<1>11. CASE Teardown
  <2>1. sent' # <<>> /\ closer' = "stop"
    BY <1>11, TeardownAsks, Steps DEF Teardown
  <2> QED BY <1>11, <2>1 DEF Teardown, BeginInv
<1>12. CASE StopLoop
  <2>1. closer' = "close"
    BY <1>12, Steps DEF StopLoop
  <2> QED BY <1>12, <2>1 DEF StopLoop, BeginInv, Blank
<1>13. CASE CloseSocket
  <2>1. call # "none" => raced
    BY <1>13 DEF CloseSocket, LifeInv
  <2> QED BY <1>13, <2>1 DEF CloseSocket, BeginInv, Blank
<1>14. CASE DeleteSession
  <2>1. closer' = "idle"
    BY <1>14, Steps DEF DeleteSession
  <2> QED BY <1>14, <2>1 DEF DeleteSession, BeginInv, Blank
<1>15. CASE ServerStep
  <2>1. sent # <<>>
    BY <1>15 DEF ServerStep, ServerAnswers, ServerPlays, ServerSends, BeginInv, Blank
  <2> QED BY <1>15, <2>1 DEF ServerStep, ServerAnswers, ServerPlays, ServerSends, BeginInv
<1>16. CASE UNCHANGED vars
  BY <1>16 DEF vars, BeginInv, Blank
<1> QED BY <1>3, <1>4, <1>5, <1>6, <1>7, <1>8, <1>9, <1>10, <1>11, <1>12, <1>13, <1>14, <1>15, <1>16,
           PieceThere DEF Next, OpenerStep, EventStep, CloserStep

(***************************************************************************)
(* The phases of openURL.  Until DESCRIBE is answered at most one request  *)
(* is on the way, so that no answer to it comes later; then, until the     *)
(* last SETUP is over, nothing is played and no authorization is asked     *)
(* for.  So the SETUP of a track is sent once, and asks for the channel    *)
(* of the track's place.                                                   *)
(***************************************************************************)
EarlyInv ==
  stage \in {"OPTIONS", "DESCRIBE"} =>
    /\ closer = "idle" /\ ~fMediaSession /\ connected /\ fTCPStreamIdCount = 0 /\ granted = {}
    /\ reading # "rest" /\ ~discarded /\ ~playing /\ packets = <<>>
    /\ \A i \in DOMAIN wire : AnswerAt(i)
    /\ \A i \in DOMAIN requests : requests[i].what \in {"OPTIONS", "DESCRIBE"}
    /\ Len(wire) + Len(requests) <= IF reading = "wait" THEN 1 ELSE 0
SetupInv ==
  stage = "SETUP" =>
    /\ connected => fTCPStreamIdCount = IF reading = "send" THEN track - 1 ELSE track
    /\ reading # "rest" /\ ~discarded /\ ~playing /\ packets = <<>>
    /\ \A i \in DOMAIN wire : AnswerAt(i) /\ wire[i].status # "unauthorized"
    /\ \A i \in DOMAIN requests : requests[i].what \notin {"OPTIONS", "DESCRIBE", "PLAY"}

LEMMA TakeShifts ==
  ASSUME Typed, TakeAnswer
  PROVE  /\ 1 \in 1..Len(wire) /\ Head(wire) = wire[1] /\ wire[1] \in Answers /\ AnswerAt(1)
         /\ Shifted(1) /\ Len(wire) \in Nat /\ wire' \in Seq(Tokens)
         /\ \A i \in DOMAIN wire' : i + 1 \in DOMAIN wire /\ wire'[i] = wire[i + 1]
<1>1. wire \in Seq(Tokens) /\ wire # <<>> /\ wire' = Tail(wire) /\ Head(wire).is = "answer"
  BY DEF Typed, WireType, TakeAnswer, AfterAnswer
<1>2. 1 \in 1..Len(wire) /\ Head(wire) = wire[1] /\ wire[1] \in Tokens /\ Shifted(1) /\ wire' \in Seq(Tokens)
  BY <1>1, TailShifts
<1>3. wire[1] \in Answers
  BY <1>1, <1>2 DEF Tokens, Pieces
<1>4. DOMAIN wire = 1..Len(wire) /\ DOMAIN wire' = 1..Len(wire') /\ Len(wire) \in Nat
  BY <1>1, <1>2
<1>5. \A i \in DOMAIN wire' : i + 1 \in DOMAIN wire /\ wire'[i] = wire[i + 1]
  BY <1>2, <1>4 DEF Shifted
<1> QED BY <1>1, <1>2, <1>3, <1>4, <1>5 DEF AnswerAt

LEMMA StepPhase ==
  TypeOK /\ Typed /\ BeginInv /\ EarlyInv /\ SetupInv /\ [Next]_vars => EarlyInv' /\ SetupInv'
<1> SUFFICES ASSUME TypeOK, Typed, BeginInv, EarlyInv, SetupInv, [Next]_vars
             PROVE  EarlyInv' /\ SetupInv'
  OBVIOUS
<1> USE DEF clientVars, callVars, eventVars, closeVars, serverVars, historyVars
<1>1. CallType
  BY CallTypes
<1>2. /\ wire \in Seq(Tokens) /\ requests \in Seq(Asked) /\ Len(wire) \in Nat /\ Len(requests) \in Nat
      /\ DOMAIN wire = 1..Len(wire) /\ DOMAIN requests = 1..Len(requests)
      /\ playing \in BOOLEAN /\ fTCPStreamIdCount \in Nat
  BY DEF Typed, WireType, RequestType, ServerType
<1>3. ASSUME stage' \notin {"OPTIONS", "DESCRIBE", "SETUP"}
      PROVE  EarlyInv' /\ SetupInv'
  BY <1>3 DEF EarlyInv, SetupInv
<1>4. CASE OpenURL
  <2>1. Blank /\ stage' = "OPTIONS"
    BY <1>4 DEF OpenURL, Goto, BeginInv
  <2>2. EarlyInv'
    BY <1>4, <2>1 DEF OpenURL, Goto, Blank, EarlyInv
  <2> QED BY <2>1, <2>2 DEF SetupInv
<1>5. CASE Misuse
  BY <1>5 DEF Misuse, EarlyInv, SetupInv, AnswerAt
<1>6. CASE SendRequest
  <2>1. Asks(Request(fCSeq + 1, stage, track, fTCPStreamIdCount))
    BY <1>6, OpenerAsks
  <2>2. /\ reading = "send" /\ reading' = "wait"
        /\ UNCHANGED <<stage, track, closer, fMediaSession, connected, granted, discarded, playing, packets, wire>>
        /\ fTCPStreamIdCount' = IF stage = "SETUP" THEN fTCPStreamIdCount + 1 ELSE fTCPStreamIdCount
    BY <1>6 DEF SendRequest, CountAfterRequest
  <2>3. ASSUME stage \in {"OPTIONS", "DESCRIBE"} PROVE EarlyInv'
    <3>1. \A i \in DOMAIN requests' : requests'[i].what \in {"OPTIONS", "DESCRIBE"}
      BY <2>1, <2>3 DEF Asks, Request, EarlyInv
    <3>2. Len(wire) + Len(requests) = 0 /\ Len(requests') <= Len(requests) + 1 /\ Len(requests') \in Nat
      BY <1>2, <2>1, <2>2, <2>3 DEF Asks, EarlyInv
    <3>3. Len(wire') + Len(requests') <= 1
      BY <1>2, <2>2, <3>2
    <3> QED BY <2>2, <2>3, <3>1, <3>3 DEF EarlyInv, AnswerAt
  <2>4. ASSUME stage = "SETUP" PROVE SetupInv'
    <3>1. \A i \in DOMAIN requests' : requests'[i].what \notin {"OPTIONS", "DESCRIBE", "PLAY"}
      BY <2>1, <2>4 DEF Asks, Request, SetupInv
    <3>2. connected => fTCPStreamIdCount' = track
      <4>1. track \in Int
        BY <1>1, <2>4, TrackNumbers DEF CallType, Tracks
      <4> QED BY <1>2, <2>2, <2>4, <4>1 DEF SetupInv
    <3> QED BY <2>2, <2>4, <3>1, <3>2 DEF SetupInv, AnswerAt
  <2> QED BY <2>2, <2>3, <2>4 DEF EarlyInv, SetupInv
<1>7. CASE NothingToPlay
  BY <1>3, <1>7 DEF NothingToPlay, Ends
<1>8. CASE TimesOut \/ ReadFails
  <2>1. FailsTo
    BY <1>1, <1>8, GivesUpTo
  <2>2. CASE stage' = "SETUP"
    <3>1. stage = "SETUP" /\ track' = track + 1 /\ reading' = "send" /\ discarded' = FALSE
      BY <2>1, <2>2 DEF FailsTo, ToNextTrack, Goto, Ends
    <3>2. track \in Int
      BY <1>1, <3>1 DEF CallType, Tracks, NoTrack
    <3>3. reading = "wait" \/ ~connected
      BY <1>8 DEF TimesOut, ReadFails
    <3>4. UNCHANGED <<connected, fTCPStreamIdCount, playing, packets, wire, requests>>
      BY <1>8 DEF TimesOut, ReadFails
    <3>5. SetupInv'
      BY <3>1, <3>2, <3>3, <3>4 DEF SetupInv, AnswerAt
    <3> QED BY <2>2, <3>5 DEF EarlyInv
  <2>3. stage' \in {"none", "PLAY", "SETUP"}
    BY <2>1 DEF FailsTo, ToNextTrack, Goto, Ends
  <2> QED BY <1>3, <2>2, <2>3
<1>9. CASE DiscardPacket
  <2>1. 1 \in DOMAIN wire /\ ~AnswerAt(1)
    BY <1>2, <1>9 DEF DiscardPacket, AnswerAt
  <2>2. stage \notin {"OPTIONS", "DESCRIBE", "SETUP"} /\ stage' = stage
    BY <1>9, <2>1 DEF DiscardPacket, EarlyInv, SetupInv
  <2> QED BY <1>3, <2>2
<1>10. CASE StopsTiming
  <2>1. stage \notin {"OPTIONS", "DESCRIBE", "SETUP"} /\ stage' = stage
    BY <1>10 DEF StopsTiming, EarlyInv, SetupInv
  <2> QED BY <1>3, <2>1
<1>11. CASE TakeAnswer
  <2>1. /\ 1 \in 1..Len(wire) /\ Head(wire) = wire[1] /\ Len(wire') = Len(wire) - 1
        /\ \A i \in DOMAIN wire' : i + 1 \in DOMAIN wire /\ wire'[i] = wire[i + 1]
    BY <1>11, TakeShifts DEF Shifted
  <2>2. UNCHANGED <<closer, connected, fTCPStreamIdCount, granted, playing, packets, requests>> /\ reading = "wait"
    BY <1>11 DEF TakeAnswer
  <2>3. SucceedsTo \/ Retries \/ FailsTo
    BY <1>1, <1>11, TakesTo
  <2>4. CASE stage' \in {"OPTIONS", "DESCRIBE"}
    <3>1. /\ stage \in {"OPTIONS", "DESCRIBE"} /\ reading' = "send" /\ discarded' = FALSE
          /\ fMediaSession' = fMediaSession
      BY <2>3, <2>4 DEF SucceedsTo, Retries, FailsTo, ToNextTrack, Goto, Ends
    <3>2. Len(wire') + Len(requests') <= 0
      <4>1. Len(wire) + Len(requests) <= 1
        BY <2>2, <3>1 DEF EarlyInv
      <4> QED BY <1>2, <2>1, <2>2, <4>1
    <3>3. EarlyInv'
      BY <2>1, <2>2, <3>1, <3>2 DEF EarlyInv, AnswerAt
    <3> QED BY <2>4, <3>3 DEF SetupInv
  <2>5. CASE stage' = "SETUP" /\ stage = "DESCRIBE"
    <3>1. reading' = "send" /\ discarded' = FALSE /\ track' = 1
      BY <2>3, <2>5 DEF SucceedsTo, Retries, FailsTo, ToNextTrack, Goto, Ends
    <3>2. Len(wire') = 0 /\ Len(requests') = 0 /\ wire' \in Seq(Tokens) /\ requests' \in Seq(Asked)
      <4>1. Len(wire) + Len(requests) <= 1
        BY <2>2, <2>5 DEF EarlyInv
      <4>2. wire' \in Seq(Tokens)
        BY <1>11, TakeShifts
      <4> QED BY <1>2, <2>1, <2>2, <4>1, <4>2
    <3>3. DOMAIN wire' = {} /\ DOMAIN requests' = {}
      BY <3>2
    <3>4. SetupInv'
      BY <2>2, <2>5, <3>1, <3>3 DEF SetupInv, EarlyInv
    <3> QED BY <2>5, <3>4 DEF EarlyInv
  <2>6. CASE stage' = "SETUP" /\ stage = "SETUP"
    <3>1. ~Retries
      BY <1>2, <2>1, <2>6 DEF SetupInv, Retries
    <3>2. track' = track + 1 /\ reading' = "send" /\ discarded' = FALSE
      BY <2>3, <2>6, <3>1 DEF SucceedsTo, FailsTo, ToNextTrack, Goto, Ends
    <3>3. track \in Int
      BY <1>1, <2>6 DEF CallType, Tracks, NoTrack
    <3>4. SetupInv'
      BY <2>1, <2>2, <2>6, <3>2, <3>3 DEF SetupInv, AnswerAt
    <3> QED BY <2>6, <3>4 DEF EarlyInv
  <2>7. stage' = "SETUP" => stage \in {"DESCRIBE", "SETUP"}
    BY <2>3 DEF SucceedsTo, Retries, FailsTo, ToNextTrack, Goto, Ends
  <2> QED BY <1>3, <2>4, <2>5, <2>6, <2>7
<1>12. CASE ReadRest
  <2>1. stage \notin {"OPTIONS", "DESCRIBE", "SETUP"}
    BY <1>12 DEF ReadRest, EarlyInv, SetupInv
  <2>2. FailsTo \/ stage' = stage
    BY <1>1, <1>12, RestTo DEF callVars
  <2>3. stage' \in {"none", stage}
    BY <2>1, <2>2 DEF FailsTo, Ends
  <2> QED BY <1>3, <2>1, <2>3
<1>13. CASE StartReading
  BY <1>3, <1>13 DEF StartReading, Ends
<1>14. ASSUME NEW k \in 1..PacketSize,
              ReadText \/ ReadDollar \/ ReadChannel \/ ReadSize \/ ReadLost \/ readRTPOverTCP(k)
       PROVE  EarlyInv' /\ SetupInv'
  <2>1. running /\ stage' = stage
    BY <1>14 DEF ReadText, ReadDollar, ReadChannel, ReadSize, ReadLost, readRTPOverTCP, Reads, ReadUnchanged
  <2>2. stage = "none"
    BY <1>1, <2>1 DEF BeginInv, CallType
  <2> QED BY <1>3, <2>1, <2>2
<1>15. CASE CloseURL \/ DestroyClient
  <2>1. /\ stage \notin {"OPTIONS", "DESCRIBE"}
        /\ UNCHANGED <<stage, track, reading, discarded, connected, fTCPStreamIdCount, playing, packets, wire, requests>>
    BY <1>1, <1>15 DEF CloseURL, DestroyClient, EarlyInv, Underway, CallType
  <2> QED BY <2>1 DEF EarlyInv, SetupInv, AnswerAt
<1>16. CASE Teardown
  <2>1. Asks(Request(seen + 1, "TEARDOWN", NoTrack, OtherChannel))
    BY <1>16, TeardownAsks
  <2>2. /\ stage \notin {"OPTIONS", "DESCRIBE"}
        /\ UNCHANGED <<stage, track, reading, discarded, connected, fTCPStreamIdCount, playing, packets, wire>>
    BY <1>16 DEF Teardown, EarlyInv
  <2>3. ASSUME stage = "SETUP"
        PROVE  \A i \in DOMAIN requests' : requests'[i].what \notin {"OPTIONS", "DESCRIBE", "PLAY"}
    BY <2>1, <2>3 DEF Asks, Request, SetupInv
  <2> QED BY <2>2, <2>3 DEF EarlyInv, SetupInv, AnswerAt
<1>17. CASE StopLoop \/ DeleteSession
  <2>1. stage \notin {"OPTIONS", "DESCRIBE"} /\ (closer = "delete" => ~connected)
    BY <1>17 DEF StopLoop, DeleteSession, EarlyInv, BeginInv
  <2>2. /\ UNCHANGED <<stage, track, reading, discarded, connected, playing, packets, wire, requests>>
        /\ fTCPStreamIdCount' = fTCPStreamIdCount \/ closer = "delete"
    BY <1>17 DEF StopLoop, DeleteSession
  <2> QED BY <2>1, <2>2 DEF EarlyInv, SetupInv, AnswerAt
<1>18. CASE CloseSocket
  <2>1. stage \notin {"OPTIONS", "DESCRIBE"}
    BY <1>18 DEF CloseSocket, EarlyInv
  <2> QED BY <1>18, <2>1 DEF CloseSocket, EarlyInv, SetupInv
<1>19. CASE ServerAnswers
  <2> DEFINE r == Head(requests)
  <2>1. UNCHANGED <<stage, track, reading, discarded, closer, fMediaSession, connected, fTCPStreamIdCount, packets>>
    BY <1>19 DEF ServerAnswers
  <2>2. /\ r = requests[1] /\ 1 \in DOMAIN requests
        /\ requests' \in Seq(Asked) /\ Len(requests') = Len(requests) - 1
        /\ \A i \in DOMAIN requests' : i + 1 \in DOMAIN requests /\ requests'[i] = requests[i + 1]
        /\ wire' \in Seq(Tokens) /\ Len(wire') = Len(wire) + 1
        /\ \A i \in DOMAIN wire : wire'[i] = wire[i]
    BY <1>2, <1>19, AnswersOne DEF Told
  <2>3. /\ wire'[Len(wire) + 1].is = "answer"
        /\ wire'[Len(wire) + 1].status = "unauthorized" => r.what \in {"OPTIONS", "DESCRIBE"}
    BY <1>19, ServerTells DEF Told, Answer
  <2>4. \A i \in DOMAIN wire' : i \in DOMAIN wire \/ i = Len(wire) + 1
    BY <1>2, <2>2
  <2>5. ASSUME r.what # "PLAY", ~playing PROVE ~playing'
    <3>1. playing' = playing \/ playing' = (r.what # "TEARDOWN" /\ (playing \/ r.what = "PLAY"))
      BY <1>19, ServerTells
    <3> QED BY <2>5, <3>1
  <2>6. ASSUME r.what \in {"OPTIONS", "DESCRIBE"} PROVE granted' = granted
    BY <1>19, <2>6, ServerTells DEF Granted
  <2> HIDE DEF r
  <2>7. ASSUME stage \in {"OPTIONS", "DESCRIBE"} PROVE EarlyInv'
    <3>1. r.what \in {"OPTIONS", "DESCRIBE"}
      BY <2>2, <2>7 DEF EarlyInv
    <3>2. \A i \in DOMAIN wire' : wire'[i].is = "answer"
      BY <2>2, <2>3, <2>4, <2>7 DEF EarlyInv, AnswerAt
    <3>3. \A i \in DOMAIN requests' : requests'[i].what \in {"OPTIONS", "DESCRIBE"}
      BY <2>2, <2>7 DEF EarlyInv
    <3>4. Len(wire') + Len(requests') = Len(wire) + Len(requests)
      BY <1>2, <2>2
    <3> QED BY <2>1, <2>5, <2>6, <2>7, <3>1, <3>2, <3>3, <3>4 DEF EarlyInv, AnswerAt
  <2>8. ASSUME stage = "SETUP" PROVE SetupInv'
    <3>1. r.what \notin {"OPTIONS", "DESCRIBE", "PLAY"}
      BY <2>2, <2>8 DEF SetupInv
    <3>2. \A i \in DOMAIN wire' : wire'[i].is = "answer" /\ wire'[i].status # "unauthorized"
      BY <2>2, <2>3, <2>4, <2>8, <3>1 DEF SetupInv, AnswerAt
    <3>3. \A i \in DOMAIN requests' : requests'[i].what \notin {"OPTIONS", "DESCRIBE", "PLAY"}
      BY <2>2, <2>8 DEF SetupInv
    <3> QED BY <2>1, <2>5, <2>8, <3>1, <3>2, <3>3 DEF SetupInv, AnswerAt
  <2> QED BY <2>1, <2>7, <2>8 DEF EarlyInv, SetupInv
<1>20. CASE ServerPlays
  <2>1. 1 \in DOMAIN requests /\ requests[1].what = "PLAY" /\ stage' = stage
    BY <1>2, <1>20 DEF ServerPlays
  <2> QED BY <1>3, <2>1 DEF EarlyInv, SetupInv
<1>21. CASE ServerSends
  BY <1>3, <1>21 DEF ServerSends, EarlyInv, SetupInv
<1>22. CASE UNCHANGED vars
  BY <1>22 DEF vars, EarlyInv, SetupInv, AnswerAt
<1> QED BY <1>4, <1>5, <1>6, <1>7, <1>8, <1>9, <1>10, <1>11, <1>12, <1>13, <1>14, <1>15, <1>16, <1>17, <1>18,
           <1>19, <1>20, <1>21, <1>22, PieceThere DEF Next, OpenerStep, EventStep, CloserStep, ServerStep

(***************************************************************************)
(* The packets on the wire: they stay whole, whatever is added behind them *)
(* and read before them, and are of tracks that are granted.               *)
(***************************************************************************)
GrantsInv ==
  /\ \A i \in DOMAIN requests :
       requests[i].what = "SETUP" => requests[i].channel = requests[i].track - 1
  /\ \A g \in granted : g.channel = g.track - 1
  /\ \A m \in DOMAIN packets : [track |-> packets[m], channel |-> packets[m] - 1] \in granted

\* What stays when something is added.
Longer ==
  /\ \A i \in DOMAIN wire : i \in DOMAIN wire' /\ wire'[i] = wire[i]
  /\ \A m \in DOMAIN packets : m \in DOMAIN packets' /\ packets'[m] = packets[m]

LEMMA FromStays ==
  ASSUME Longer, NEW i, NEW m \in DOMAIN packets, NEW o, PacketFrom(i, m, o)
  PROVE  PacketFrom(i, m, o)'
<1>1. packets'[m] = packets[m]
  BY DEF Longer
<1>2. \A j : PieceOf(m, j)' = PieceOf(m, j)
  BY <1>1 DEF PieceOf, Token
<1> QED BY <1>2 DEF PacketFrom, Longer

LEMMA FromShifts ==
  ASSUME wire \in Seq(Tokens), wire' \in Seq(Tokens), NEW d \in 0..Len(wire), Shifted(d), packets' = packets,
         NEW i \in DOMAIN wire', NEW m, NEW o \in 0..Length, PacketFrom(i + d, m, o)
  PROVE  PacketFrom(i, m, o)'
<1>1. \A j : PieceOf(m, j)' = PieceOf(m, j)
  BY DEF PieceOf, Token
<1>2. Len(wire) \in Nat /\ DOMAIN wire = 1..Len(wire) /\ DOMAIN wire' = 1..Len(wire') /\ Length \in Nat
  BY ConstantsAssumption DEF Length
<1>3. ASSUME NEW j \in o..(Length - 1)
      PROVE  i + (j - o) \in DOMAIN wire' /\ wire'[i + (j - o)] = PieceOf(m, j)
  <2>1. (i + d) + (j - o) \in DOMAIN wire /\ wire[(i + d) + (j - o)] = PieceOf(m, j)
    BY DEF PacketFrom
  <2>2. i + (j - o) \in 1..Len(wire') /\ (i + (j - o)) + d = (i + d) + (j - o)
    BY <1>2, <2>1 DEF Shifted
  <2> QED BY <1>2, <2>1, <2>2 DEF Shifted
<1> QED BY <1>1, <1>3 DEF PacketFrom

\* A packet that has just been sent.
LEMMA PlaysWhole ==
  ASSUME Typed, GrantsInv, NEW g \in granted, Plays(g),
         NEW p \in Nat, p = Len(wire) + 1, NEW n \in Nat, n = Len(packets) + 1
  PROVE  /\ Longer /\ Len(packets') = n /\ packets'[n] = g.track /\ At(p, n)'
         /\ \A i \in DOMAIN wire' : i \in DOMAIN wire \/
              \E j \in 0..(Length - 1) : i = p + j /\ wire'[i] = PieceSent(g, n, j)
<1>1. /\ wire \in Seq(Tokens) /\ packets \in Seq(Tracks) /\ g.track \in Tracks /\ g.channel = g.track - 1
      /\ packets' = Append(packets, g.track) /\ wire' \in Seq(Tokens) /\ Len(wire') = Len(wire) + Length
      /\ \A i \in DOMAIN wire : wire'[i] = wire[i]
      /\ \A j \in 0..(Length - 1) : wire'[p + j] = PieceSent(g, n, j)
  BY DEF Typed, WireType, ServerType, Plays, GrantsInv
<1>2. /\ Len(wire) \in Nat /\ DOMAIN wire = 1..Len(wire) /\ DOMAIN wire' = 1..(Len(wire) + Length)
      /\ Length \in Nat /\ Length > 3
  BY <1>1, ConstantsAssumption DEF Length
<1>3. /\ Len(packets') = n /\ packets'[n] = g.track
      /\ \A m \in DOMAIN packets : m \in DOMAIN packets' /\ packets'[m] = packets[m]
  BY <1>1
<1>4. Longer
  BY <1>1, <1>2, <1>3 DEF Longer
<1>5. At(p, n)'
  <2>1. \A j : PieceOf(n, j)' = PieceSent(g, n, j)
    BY <1>1, <1>3 DEF PieceOf, PieceSent, Token
  <2>2. ASSUME NEW j \in 0..(Length - 1)
        PROVE  p + (j - 0) \in DOMAIN wire' /\ wire'[p + (j - 0)] = PieceOf(n, j)'
    <3>1. wire'[p + j] = PieceSent(g, n, j)
      BY <1>1
    <3>2. p + (j - 0) = p + j /\ p + j \in DOMAIN wire'
      BY <1>2
    <3> QED BY <2>1, <3>1, <3>2
  <2> QED BY <2>2 DEF At, PacketFrom
<1>6. ASSUME NEW i \in DOMAIN wire', i \notin DOMAIN wire
      PROVE  \E j \in 0..(Length - 1) : i = p + j /\ wire'[i] = PieceSent(g, n, j)
  <2>1. i - p \in 0..(Length - 1) /\ i = p + (i - p)
    BY <1>2, <1>6
  <2> QED BY <1>1, <2>1
<1> QED BY <1>3, <1>4, <1>5, <1>6

\* The number of a packet is in its data.
Number(i) == wire[i + 3].n

LEMMA DollarNumber ==
  ASSUME NEW i, NEW m, At(i, m), i \in Nat
  PROVE  Number(i) = m /\ DollarAt(i) /\ i \in DOMAIN wire /\ i + 3 \in DOMAIN wire
<1>1. 0 \in 0..(Length - 1) /\ 3 \in 0..(Length - 1)
  BY ConstantsAssumption DEF Length
<1>2. i + (3 - 0) \in DOMAIN wire /\ wire[i + (3 - 0)] = PieceOf(m, 3)
  BY <1>1 DEF At, PacketFrom
<1>3. i + (0 - 0) \in DOMAIN wire /\ wire[i + (0 - 0)] = PieceOf(m, 0)
  BY <1>1 DEF At, PacketFrom
<1> QED BY <1>2, <1>3 DEF PieceOf, Token, Number, DollarAt

LEMMA StepDollars == TypeOK /\ Typed /\ DollarsWhole /\ GrantsInv /\ [Next]_vars => DollarsWhole'
<1> SUFFICES ASSUME TypeOK, Typed, DollarsWhole, GrantsInv, [Next]_vars
             PROVE  DollarsWhole'
  OBVIOUS
<1>1. wire \in Seq(Tokens) /\ DOMAIN wire = 1..Len(wire) /\ Len(wire) \in Nat /\ Length \in Nat
  BY ConstantsAssumption DEF Typed, WireType, Length
<1>2. ASSUME UNCHANGED <<wire, packets>> PROVE DollarsWhole'
  <2>1. Longer
    BY <1>2 DEF Longer
  <2> QED BY <1>2, <2>1, FromStays DEF DollarsWhole, DollarAt, At
<1>3. ASSUME NEW d \in 0..Len(wire), Shifted(d), wire' \in Seq(Tokens), packets' = packets
      PROVE  DollarsWhole'
  <2> SUFFICES ASSUME NEW i \in DOMAIN wire', wire'[i].is = "dollar"
               PROVE  \E m \in DOMAIN packets : At(i, m)'
    BY <1>3 DEF DollarsWhole, DollarAt
  <2>1. i + d \in DOMAIN wire /\ DollarAt(i + d)
    <3>1. i \in 1..Len(wire') /\ Len(wire') = Len(wire) - d /\ wire'[i] = wire[i + d]
      <4>1. i \in 1..Len(wire')
        BY <1>3
      <4> QED BY <1>3, <4>1 DEF Shifted
    <3> QED BY <1>1, <3>1 DEF DollarAt
  <2>2. PICK m \in DOMAIN packets : At(i + d, m)
    BY <2>1 DEF DollarsWhole
  <2>3. 0 \in 0..Length
    BY <1>1
  <2>4. PacketFrom(i, m, 0)'
    BY <1>1, <1>3, <2>2, <2>3, FromShifts DEF At
  <2> QED BY <2>4 DEF At
<1>4. ASSUME NEW k \in 1..PacketSize,
             DiscardPacket \/ TakeAnswer \/ ReadRest \/ ReadText \/ ReadDollar \/ ReadChannel \/ ReadSize
               \/ ReadLost \/ readRTPOverTCP(k)
      PROVE  DollarsWhole'
  <2>1. (\E d \in 1..Len(wire) : Shifted(d)) /\ wire' \in Seq(Tokens)
    BY <1>1, <1>4, ReadShifts
  <2>2. packets' = packets
    BY <1>4 DEF DiscardPacket, TakeAnswer, ReadRest, ReadText, ReadDollar, ReadChannel, ReadSize, ReadLost,
                readRTPOverTCP, ReadUnchanged, serverVars
  <2> QED BY <1>1, <1>3, <2>1, <2>2
<1>5. CASE ServerAnswers
  <2>1. PICK status \in {"ok", "unauthorized", "refused"} : Told(Head(requests), status)
    BY <1>5, AnswersOne
  <2>2. /\ wire' \in Seq(Tokens) /\ Len(wire') = Len(wire) + 1
        /\ \A i \in DOMAIN wire : wire'[i] = wire[i]
        /\ wire'[Len(wire) + 1].is = "answer"
    BY <2>1 DEF Told, Answer
  <2>3. packets' = packets
    BY <1>5 DEF ServerAnswers
  <2>4. DOMAIN wire' = 1..(Len(wire) + 1)
    BY <1>1, <2>2
  <2>5. Longer
    BY <1>1, <2>2, <2>3, <2>4 DEF Longer
  <2>6. ASSUME NEW i \in DOMAIN wire', wire'[i].is = "dollar"
        PROVE  \E m \in DOMAIN packets : At(i, m)'
    <3>1. i \in DOMAIN wire /\ wire[i].is = "dollar"
      BY <1>1, <2>2, <2>4, <2>6
    <3>2. PICK m \in DOMAIN packets : At(i, m)
      BY <3>1 DEF DollarsWhole, DollarAt
    <3>3. At(i, m)'
      BY <2>5, <3>2, FromStays DEF At
    <3> QED BY <3>3
  <2> QED BY <2>3, <2>6 DEF DollarsWhole, DollarAt
<1>6. CASE ServerSends
  <2>1. PICK g \in granted : Plays(g)
    BY <1>6, ServerSendsWhole
  <2>2. packets \in Seq(Tracks)
    BY DEF Typed, ServerType
  <2>3. PICK p \in Nat : p = Len(wire) + 1
    BY <1>1
  <2>4. PICK n \in Nat : n = Len(packets) + 1
    BY <2>2
  <2>5. /\ Longer /\ Len(packets') = n /\ At(p, n)'
        /\ \A i \in DOMAIN wire' : i \in DOMAIN wire \/
              \E j \in 0..(Length - 1) : i = p + j /\ wire'[i] = PieceSent(g, n, j)
    BY <2>1, <2>3, <2>4, PlaysWhole
  <2>6. n \in DOMAIN packets'
    <3>1. packets' = Append(packets, g.track)
      BY <2>1 DEF Plays
    <3> QED BY <2>2, <2>4, <3>1
  <2>7. ASSUME NEW i \in DOMAIN wire', wire'[i].is = "dollar"
        PROVE  \E m \in DOMAIN packets' : At(i, m)'
    <3>1. CASE i \in DOMAIN wire
      <4>1. wire'[i] = wire[i]
        BY <2>5, <3>1 DEF Longer
      <4>2. PICK m \in DOMAIN packets : At(i, m)
        BY <2>7, <3>1, <4>1 DEF DollarsWhole, DollarAt
      <4>3. At(i, m)' /\ m \in DOMAIN packets'
        BY <2>5, <4>2, FromStays DEF At, Longer
      <4> QED BY <4>3
    <3>2. CASE \E j \in 0..(Length - 1) : i = p + j /\ wire'[i] = PieceSent(g, n, j)
      <4>1. i = p
        BY <2>7, <3>2 DEF PieceSent, Token
      <4> QED BY <2>5, <2>6, <4>1
    <3> QED BY <2>5, <3>1, <3>2
  <2> QED BY <2>7 DEF DollarsWhole, DollarAt
<1>7. CASE CloseSocket
  <2>1. DOMAIN wire' = {}
    BY <1>7 DEF CloseSocket
  <2> QED BY <2>1 DEF DollarsWhole
<1> QED BY <1>2, <1>4, <1>5, <1>6, <1>7, PieceThere
        DEF Next, OpenURL, OpenerStep, Misuse, SendRequest, NothingToPlay, TimesOut, StopsTiming, ReadFails,
            StartReading, EventStep, CloseURL, DestroyClient, CloserStep, Teardown, StopLoop, DeleteSession,
            ServerStep, ServerPlays, serverVars, vars

LEMMA StepGrants == TypeOK /\ Typed /\ SetupInv /\ GrantsInv /\ [Next]_vars => GrantsInv'
<1> SUFFICES ASSUME TypeOK, Typed, SetupInv, GrantsInv, [Next]_vars
             PROVE  GrantsInv'
  OBVIOUS
<1> USE DEF clientVars, callVars, eventVars, closeVars, serverVars, historyVars
<1>1. /\ requests \in Seq(Asked) /\ fTCPStreamIdCount \in Nat
      /\ granted \subseteq [track : Tracks, channel : Int] /\ packets \in Seq(Tracks)
  BY DEF Typed, RequestType, ServerType
<1>2. ASSUME UNCHANGED <<requests, granted, packets>> PROVE GrantsInv'
  BY <1>2 DEF GrantsInv
<1>3. ASSUME NEW r, Asks(r), r.what = "SETUP" /\ connected => r.channel = r.track - 1,
             UNCHANGED <<granted, packets>>
      PROVE  GrantsInv'
  BY <1>3 DEF Asks, GrantsInv
<1>4. CASE SendRequest
  <2>1. UNCHANGED <<granted, packets>>
    BY <1>4 DEF SendRequest
  <2>2. stage = "SETUP" /\ connected => fTCPStreamIdCount = track - 1
    BY <1>4 DEF SendRequest, SetupInv
  <2> QED BY <1>3, <1>4, <2>1, <2>2, OpenerAsks DEF Request
<1>5. ASSUME NEW k \in 1..PacketSize, readRTPOverTCP(k)
      PROVE  GrantsInv'
  <2>1. UNCHANGED <<granted, packets>>
    BY <1>5 DEF readRTPOverTCP
  <2> QED BY <1>2, <1>3, <1>5, <2>1, DataAsks DEF Request
<1>6. CASE Teardown
  <2>1. UNCHANGED <<granted, packets>>
    BY <1>6 DEF Teardown
  <2> QED BY <1>3, <1>6, <2>1, TeardownAsks DEF Request
<1>7. CASE CloseSocket
  BY <1>7 DEF CloseSocket, GrantsInv
<1>8. CASE ServerAnswers
  <2> DEFINE r == Head(requests)
  <2>1. /\ r = requests[1] /\ r \in Asked /\ 1 \in DOMAIN requests
        /\ \A i \in DOMAIN requests' : i + 1 \in DOMAIN requests /\ requests'[i] = requests[i + 1]
    BY <1>8, AnswersOne DEF Told
  <2>2. packets' = packets
    BY <1>8 DEF ServerAnswers
  <2>3. granted' = granted \/ Granted(r)
    BY <1>8, ServerTells
  <2> HIDE DEF r
  <2>4. granted \subseteq granted' /\ \A g \in granted' : g.channel = g.track - 1
    <3>1. CASE granted' = granted
      BY <3>1 DEF GrantsInv
    <3>2. CASE r.what = "SETUP" /\ granted' = granted \cup {[track |-> r.track, channel |-> r.channel]}
      BY <2>1, <3>2 DEF GrantsInv
    <3> QED BY <2>3, <3>1, <3>2 DEF Granted
  <2> QED BY <2>1, <2>2, <2>4 DEF GrantsInv
<1>9. CASE ServerSends
  <2>1. PICK g \in granted : Plays(g)
    BY <1>9, ServerSendsWhole DEF Typed
  <2>2. packets' = Append(packets, g.track) /\ UNCHANGED <<requests, granted>>
    BY <1>9, <2>1 DEF Plays, ServerSends
  <2>3. g = [track |-> g.track, channel |-> g.track - 1] /\ g.track \in Tracks
    BY <1>1 DEF GrantsInv
  <2>4. \A m \in DOMAIN packets' : (m \in DOMAIN packets /\ packets'[m] = packets[m]) \/ packets'[m] = g.track
    BY <1>1, <2>2, <2>3
  <2> QED BY <2>2, <2>3, <2>4 DEF GrantsInv
<1> QED BY <1>2, <1>4, <1>5, <1>6, <1>7, <1>8, <1>9
        DEF Next, OpenURL, OpenerStep, Misuse, NothingToPlay, TimesOut, StopsTiming, ReadFails, DiscardPacket,
            TakeAnswer, ReadRest, StartReading, EventStep, ReadText, ReadDollar, ReadChannel, ReadSize,
            ReadLost, ReadUnchanged, CloseURL, DestroyClient, CloserStep, StopLoop, DeleteSession,
            ServerStep, ServerPlays, vars

(***************************************************************************)
(* Answers in turn.  While a call is under way, unless closeURL has come   *)
(* into it, the answers and then the requests on the connection are in the *)
(* order of their numbers, and go back no further than as many requests as *)
(* have been given up; the request that is still to be sent, if one is,    *)
(* leaves room for itself.  So the answer that is taken is no later.       *)
(***************************************************************************)
Recent(n) == n \in 1..fCSeq /\ (IF reading = "send" THEN fCSeq - n < timeouts ELSE fCSeq - n <= timeouts)
InTurn ==
  /\ \A i \in DOMAIN wire : AnswerAt(i) => Recent(wire[i].n)
  /\ \A i \in DOMAIN requests : Recent(requests[i].cseq)
  /\ \A i, j \in DOMAIN wire : i < j /\ AnswerAt(i) /\ AnswerAt(j) => wire[i].n < wire[j].n
  /\ \A i, j \in DOMAIN requests : i < j => requests[i].cseq < requests[j].cseq
  /\ \A i \in DOMAIN wire : \A j \in DOMAIN requests : AnswerAt(i) => wire[i].n < requests[j].cseq
TurnInv == ~raced /\ call # "none" => InTurn

LEMMA TurnShifts ==
  ASSUME Typed, fCSeq \in Nat, InTurn, NEW d \in 1..Len(wire), Shifted(d), wire' \in Seq(Tokens),
         UNCHANGED <<requests, fCSeq, timeouts>>,
         reading' = reading \/ (reading # "send" /\ AnswerAt(1))
  PROVE  InTurn'
<1>1. /\ wire \in Seq(Tokens) /\ Len(wire) \in Nat /\ DOMAIN wire = 1..Len(wire)
      /\ DOMAIN wire' = 1..Len(wire') /\ timeouts \in Nat /\ 1 \in DOMAIN wire
  BY DEF Typed, WireType, ReadType
<1>2. \A i \in DOMAIN wire' : i \in Nat /\ i + d \in DOMAIN wire /\ 1 < i + d /\ wire'[i] = wire[i + d]
  BY <1>1 DEF Shifted
<1>3. ASSUME NEW n, Recent(n), reading' = reading \/ \E m \in Int : Recent(m) /\ m < n /\ reading # "send"
      PROVE  Recent(n)'
  BY <1>1, <1>3 DEF Recent
<1>4. ASSUME AnswerAt(1) PROVE Recent(wire[1].n) /\ wire[1].n \in Int
  BY <1>1, <1>4 DEF InTurn, Recent
<1>5. ASSUME NEW i \in DOMAIN wire', wire'[i].is = "answer"
      PROVE  Recent(wire[i].n)'
  <2>1. PICK n : n = wire[i + d].n
    OBVIOUS
  <2>2. Recent(n)
    BY <1>2, <1>5, <2>1 DEF InTurn, AnswerAt
  <2>3. AnswerAt(1) => wire[1].n < n
    BY <1>1, <1>2, <1>5, <2>1 DEF InTurn, AnswerAt
  <2>4. Recent(n)'
    BY <1>3, <1>4, <2>2, <2>3
  <2>5. wire'[i].n = n
    BY <1>2, <2>1
  <2> QED BY <2>4, <2>5 DEF Recent
<1>6. ASSUME NEW i \in DOMAIN requests
      PROVE  Recent(requests[i].cseq)'
  <2>1. PICK n : n = requests[i].cseq
    OBVIOUS
  <2>2. Recent(n) /\ (AnswerAt(1) => wire[1].n < n)
    BY <1>1, <2>1 DEF InTurn
  <2>3. Recent(n)'
    BY <1>3, <1>4, <2>2
  <2>4. requests'[i].cseq = n
    BY <2>1
  <2> QED BY <2>3, <2>4 DEF Recent
<1>7. \A i, j \in DOMAIN wire' : i < j /\ wire'[i].is = "answer" /\ wire'[j].is = "answer" =>
        wire'[i].n < wire'[j].n
  <2>1. \A i, j \in DOMAIN wire' : i < j => i + d < j + d
    BY <1>2
  <2> QED BY <1>2, <2>1 DEF InTurn, AnswerAt
<1>8. \A i \in DOMAIN wire' : \A j \in DOMAIN requests : wire'[i].is = "answer" => wire'[i].n < requests[j].cseq
  BY <1>2 DEF InTurn, AnswerAt
<1> QED BY <1>5, <1>6, <1>7, <1>8 DEF InTurn, AnswerAt

LEMMA StepTurn == TypeOK /\ LifeInv /\ Typed /\ DollarsWhole /\ BeginInv /\ TurnInv /\ [Next]_vars => TurnInv'
<1> SUFFICES ASSUME TypeOK, LifeInv, Typed, DollarsWhole, BeginInv, TurnInv, [Next]_vars, ~raced', call' # "none"
             PROVE  InTurn'
  BY DEF TurnInv
<1> USE DEF clientVars, callVars, eventVars, closeVars, serverVars, historyVars
<1>1. CallType
  BY CallTypes
<1>2. /\ wire \in Seq(Tokens) /\ requests \in Seq(Asked) /\ Len(wire) \in Nat /\ Len(requests) \in Nat
      /\ DOMAIN wire = 1..Len(wire) /\ DOMAIN requests = 1..Len(requests)
      /\ timeouts \in Nat /\ fCSeq \in Nat
  BY DEF TypeOK, Typed, WireType, RequestType, ReadType
<1>3. ~raced
  BY DEF Next, OpenURL, OpenerStep, Misuse, SendRequest, NothingToPlay, TimesOut, StopsTiming, ReadFails,
         DiscardPacket, TakeAnswer, ReadRest, StartReading, EventStep, ReadText, ReadDollar, ReadChannel,
         ReadSize, ReadLost, readRTPOverTCP, ReadUnchanged, CloseURL, DestroyClient, CloserStep, Teardown,
         StopLoop, CloseSocket, DeleteSession, ServerStep, ServerAnswers, ServerPlays, ServerSends, vars
<1>4. ASSUME call # "none" PROVE InTurn
  BY <1>3, <1>4 DEF TurnInv
\* Steps that leave the connection and what is waited for alone.
<1>5. ASSUME UNCHANGED <<wire, requests, fCSeq, timeouts>>, call # "none",
             reading' = reading \/ (reading = "wait" /\ reading' = "rest")
      PROVE  InTurn'
  BY <1>4, <1>5 DEF InTurn, Recent, AnswerAt
<1>6. CASE OpenURL
  <2>1. wire' = <<>> /\ requests' = <<>>
    BY <1>6 DEF OpenURL, BeginInv, Blank
  <2> QED BY <2>1 DEF InTurn
<1>7. CASE Misuse \/ StopsTiming
  <2>1. call # "none"
    BY <1>1, <1>7 DEF Misuse, StopsTiming
  <2> QED BY <1>5, <1>7, <2>1 DEF Misuse, StopsTiming
<1>8. CASE SendRequest
  <2>1. Asks(Request(fCSeq + 1, stage, track, fTCPStreamIdCount)) /\ fCSeq' = fCSeq + 1
    BY <1>8, OpenerAsks
  <2>2. /\ reading = "send" /\ reading' = "wait" /\ UNCHANGED <<wire, timeouts>> /\ InTurn
    BY <1>1, <1>4, <1>8 DEF SendRequest, CallType
  <2>3. \A i \in DOMAIN requests' :
          \/ i \in DOMAIN requests /\ requests'[i] = requests[i]
          \/ i = Len(requests) + 1 /\ requests'[i].cseq = fCSeq + 1
    BY <2>1 DEF Asks, Request
  <2>4. \A i \in DOMAIN wire : AnswerAt(i) => wire[i].n \in 1..fCSeq /\ fCSeq - wire[i].n < timeouts
    BY <2>2 DEF InTurn, Recent
  <2>5. \A i \in DOMAIN requests : requests[i].cseq \in 1..fCSeq /\ fCSeq - requests[i].cseq < timeouts
    BY <2>2 DEF InTurn, Recent
  <2>6. \A i \in DOMAIN wire : AnswerAt(i) => wire[i].n \in 1..fCSeq' /\ fCSeq' - wire[i].n <= timeouts
    BY <1>2, <2>1, <2>4
  <2>7. \A i \in DOMAIN requests' : requests'[i].cseq \in 1..fCSeq' /\ fCSeq' - requests'[i].cseq <= timeouts
    BY <1>2, <2>1, <2>3, <2>5
  <2>8. \A i, j \in DOMAIN requests' : i < j => requests'[i].cseq < requests'[j].cseq
    <3> SUFFICES ASSUME NEW i \in DOMAIN requests', NEW j \in DOMAIN requests', i < j
                 PROVE  requests'[i].cseq < requests'[j].cseq
      OBVIOUS
    <3>1. i \in DOMAIN requests /\ requests'[i] = requests[i]
      <4>1. DOMAIN requests' \subseteq 1..(Len(requests) + 1)
        BY <1>2, <2>3
      <4> QED BY <1>2, <2>3, <4>1
    <3>2. CASE j \in DOMAIN requests /\ requests'[j] = requests[j]
      BY <2>2, <3>1, <3>2 DEF InTurn
    <3>3. CASE requests'[j].cseq = fCSeq + 1
      BY <1>2, <2>5, <3>1, <3>3
    <3> QED BY <2>3, <3>2, <3>3
  <2>9. \A i \in DOMAIN wire : \A j \in DOMAIN requests' : AnswerAt(i) => wire[i].n < requests'[j].cseq
    <3> SUFFICES ASSUME NEW i \in DOMAIN wire, NEW j \in DOMAIN requests', AnswerAt(i)
                 PROVE  wire[i].n < requests'[j].cseq
      OBVIOUS
    <3>1. CASE j \in DOMAIN requests /\ requests'[j] = requests[j]
      BY <2>2, <3>1 DEF InTurn
    <3>2. CASE requests'[j].cseq = fCSeq + 1
      BY <1>2, <2>4, <3>2
    <3> QED BY <2>3, <3>1, <3>2
  <2>10. \A i, j \in DOMAIN wire : i < j /\ AnswerAt(i) /\ AnswerAt(j) => wire[i].n < wire[j].n
    BY <2>2 DEF InTurn
  <2> QED BY <2>2, <2>6, <2>7, <2>8, <2>9, <2>10 DEF InTurn, Recent, AnswerAt
<1>9. CASE TimesOut
  <2>1. /\ call # "none" /\ reading = "wait" /\ wire = <<>> /\ timeouts' = timeouts + 1
        /\ UNCHANGED <<wire, requests, fCSeq>>
    BY <1>1, <1>9 DEF TimesOut, CallType
  <2>2. \A i \in DOMAIN requests : requests[i].cseq \in 1..fCSeq /\ fCSeq - requests[i].cseq < timeouts + 1
    <3>1. \A i \in DOMAIN requests : requests[i].cseq \in 1..fCSeq /\ fCSeq - requests[i].cseq <= timeouts
      BY <1>4, <2>1 DEF InTurn, Recent
    <3> QED BY <1>2, <3>1
  <2>3. \A i \in DOMAIN requests : Recent(requests[i].cseq)'
    <3>1. \A i \in DOMAIN requests : fCSeq - requests[i].cseq <= timeouts + 1
      BY <1>2, <2>2
    <3> QED BY <2>1, <2>2, <3>1 DEF Recent
  <2>4. \A i, j \in DOMAIN requests : i < j => requests[i].cseq < requests[j].cseq
    BY <1>4, <2>1 DEF InTurn
  <2> QED BY <2>1, <2>3, <2>4 DEF InTurn
<1>10. CASE ReadFails
  <2>1. call # "none" /\ ~connected
    BY <1>1, <1>10 DEF ReadFails, CallType
  <2> QED BY <1>3, <2>1 DEF BeginInv
<1>11. CASE DiscardPacket \/ TakeAnswer \/ ReadRest
  <2>1. /\ call # "none" /\ reading # "send"
        /\ UNCHANGED <<requests, fCSeq, timeouts>>
    BY <1>1, <1>11 DEF DiscardPacket, TakeAnswer, ReadRest, CallType
  <2>2. PICK d \in 1..Len(wire) : Shifted(d) /\ wire' \in Seq(Tokens)
    BY <1>2, <1>11, ReadShifts, PieceThere
  <2>3. reading' = reading \/ AnswerAt(1)
    <3>1. CASE DiscardPacket
      BY <3>1 DEF DiscardPacket
    <3>2. CASE TakeAnswer
      BY <3>2, TakeShifts
    <3>3. CASE ReadRest
      <4>1. wire # <<>> /\ Head(wire) = wire[1]
        BY <1>2, <3>3 DEF ReadRest
      <4> QED BY <1>1, <3>3, <4>1, RestTo DEF AnswerAt
    <3> QED BY <1>11, <3>1, <3>2, <3>3
  <2> QED BY <1>2, <1>4, <2>1, <2>2, <2>3, TurnShifts
<1>12. CASE NothingToPlay \/ StartReading
  BY <1>12 DEF NothingToPlay, StartReading, Ends
<1>13. ASSUME NEW k \in 1..PacketSize,
              ReadText \/ ReadDollar \/ ReadChannel \/ ReadSize \/ ReadLost \/ readRTPOverTCP(k)
       PROVE  FALSE
  <2>1. running /\ call' = call
    BY <1>13 DEF ReadText, ReadDollar, ReadChannel, ReadSize, ReadLost, readRTPOverTCP, Reads, ReadUnchanged
  <2> QED BY <2>1 DEF BeginInv
<1>14. CASE CloseURL \/ DestroyClient \/ CloserStep
  <2>1. call' = call
    BY <1>14 DEF CloseURL, DestroyClient, CloserStep, Teardown, StopLoop, CloseSocket, DeleteSession
  <2>2. closer = "idle"
    BY <1>3, <2>1 DEF LifeInv
  <2>3. CloseURL
    BY <1>14, <2>1, <2>2 DEF DestroyClient, Underway, CloserStep, Teardown, StopLoop, CloseSocket, DeleteSession
  <2> QED BY <1>5, <2>1, <2>3 DEF CloseURL
<1>15. CASE ServerAnswers
  <2>1. PICK status \in {"ok", "unauthorized", "refused"} : Told(Head(requests), status)
    BY <1>15, AnswersOne
  <2>2. UNCHANGED <<fCSeq, timeouts, reading, call>> /\ InTurn
    BY <1>4, <1>15 DEF ServerAnswers
  <2>3. /\ 1 \in DOMAIN requests /\ Len(wire') = Len(wire) + 1 /\ DOMAIN wire' = 1..(Len(wire) + 1)
        /\ \A i \in DOMAIN requests' : i \in Nat /\ 1 < i + 1 /\ i + 1 \in DOMAIN requests /\ requests'[i] = requests[i + 1]
        /\ \A i \in DOMAIN wire : wire'[i] = wire[i]
        /\ wire'[Len(wire) + 1].is = "answer" /\ wire'[Len(wire) + 1].n = requests[1].cseq
    <3>1. DOMAIN wire' = 1..(Len(wire) + 1) /\ DOMAIN requests' = 1..(Len(requests) - 1)
      BY <1>2, <2>1 DEF Told
    <3> QED BY <1>2, <2>1, <3>1 DEF Told, Answer
  <2>4. \A i \in DOMAIN wire' : i \in DOMAIN wire \/ i = Len(wire) + 1
    BY <1>2, <2>3
  <2>5. \A n : Recent(n) => Recent(n)'
    BY <2>2 DEF Recent
  <2>6. ASSUME NEW i \in DOMAIN wire', wire'[i].is = "answer" PROVE Recent(wire[i].n)'
    <3>1. PICK n : n = wire'[i].n
      OBVIOUS
    <3>2. Recent(n)
      BY <2>2, <2>3, <2>4, <2>6, <3>1 DEF InTurn, AnswerAt
    <3> QED BY <2>5, <3>1, <3>2 DEF Recent
  <2>7. ASSUME NEW i \in DOMAIN requests' PROVE Recent(requests[i].cseq)'
    <3>1. PICK n : n = requests'[i].cseq
      OBVIOUS
    <3>2. Recent(n)
      BY <2>2, <2>3, <3>1 DEF InTurn
    <3> QED BY <2>5, <3>1, <3>2 DEF Recent
  <2>8. ASSUME NEW i \in DOMAIN wire', NEW j \in DOMAIN wire', i < j,
               wire'[i].is = "answer", wire'[j].is = "answer"
        PROVE  wire'[i].n < wire'[j].n
    <3>1. i \in DOMAIN wire /\ wire'[i] = wire[i]
      BY <1>2, <2>3, <2>4, <2>8
    <3>2. CASE j \in DOMAIN wire
      BY <2>2, <2>3, <2>8, <3>1, <3>2 DEF InTurn, AnswerAt
    <3>3. CASE j = Len(wire) + 1
      BY <2>2, <2>3, <2>8, <3>1, <3>3 DEF InTurn, AnswerAt
    <3> QED BY <2>4, <3>2, <3>3
  <2>9. \A i, j \in DOMAIN requests' : i < j => requests'[i].cseq < requests'[j].cseq
    <3>1. \A i, j \in DOMAIN requests' : i < j => i + 1 < j + 1
      BY <2>3
    <3> QED BY <2>2, <2>3, <3>1 DEF InTurn
  <2>10. ASSUME NEW i \in DOMAIN wire', NEW j \in DOMAIN requests', wire'[i].is = "answer"
         PROVE  wire'[i].n < requests'[j].cseq
    <3>1. CASE i \in DOMAIN wire
      BY <2>2, <2>3, <2>10, <3>1 DEF InTurn, AnswerAt
    <3>2. CASE i = Len(wire) + 1
      BY <2>2, <2>3, <3>2 DEF InTurn
    <3> QED BY <2>4, <3>1, <3>2
  <2> QED BY <2>6, <2>7, <2>8, <2>9, <2>10 DEF InTurn, AnswerAt
<1>16. CASE ServerPlays
  BY <1>5, <1>16 DEF ServerPlays
<1>17. CASE ServerSends
  <2>1. PICK g \in granted : Plays(g)
    BY <1>17, ServerSendsWhole
  <2>2. UNCHANGED <<requests, fCSeq, timeouts, reading, call>> /\ InTurn
    BY <1>4, <1>17 DEF ServerSends
  <2>3. \A i \in DOMAIN wire' : wire'[i].is = "answer" => i \in DOMAIN wire /\ wire'[i] = wire[i]
    <3>1. DOMAIN wire' = 1..(Len(wire) + Length) /\ Length \in Nat
      BY <1>2, <2>1, ConstantsAssumption DEF Plays, Length
    <3>2. ASSUME NEW i \in DOMAIN wire', i \notin DOMAIN wire PROVE wire'[i].is # "answer"
      <4>1. i - (Len(wire) + 1) \in 0..(Length - 1) /\ i = Len(wire) + 1 + (i - (Len(wire) + 1))
        BY <1>2, <3>1, <3>2
      <4>2. PICK j \in 0..(Length - 1) : wire'[i] = PieceSent(g, Len(packets) + 1, j)
        BY <2>1, <4>1 DEF Plays
      <4> QED BY <4>2 DEF PieceSent, Token
    <3> QED BY <2>1, <3>2 DEF Plays
  <2> QED BY <2>2, <2>3 DEF InTurn, AnswerAt, Recent
<1>18. CASE UNCHANGED vars
  BY <1>5, <1>18 DEF vars
<1> QED BY <1>6, <1>7, <1>8, <1>9, <1>10, <1>11, <1>12, <1>13, <1>14, <1>15, <1>16, <1>17, <1>18, PieceThere
        DEF Next, OpenerStep, EventStep, ServerStep

\* What is taken is no later than the bound of the answers on the connection.
LEMMA StepMatch ==
  TypeOK /\ Typed /\ TurnInv /\ AnswersMatch /\ [Next]_vars => AnswersMatch'
<1> SUFFICES ASSUME TypeOK, Typed, TurnInv, AnswersMatch, [Next]_vars, taken' # NoAnswer, ~raced'
             PROVE  (taken.request - taken.answer \in 0..timeouts)'
  BY DEF AnswersMatch, NoAnswer
<1> USE DEF clientVars, callVars, eventVars, closeVars, serverVars, historyVars
<1>1. ~raced
  BY DEF Next, OpenURL, OpenerStep, Misuse, SendRequest, NothingToPlay, TimesOut, StopsTiming, ReadFails,
         DiscardPacket, TakeAnswer, ReadRest, StartReading, EventStep, ReadText, ReadDollar, ReadChannel,
         ReadSize, ReadLost, readRTPOverTCP, ReadUnchanged, CloseURL, DestroyClient, CloserStep, Teardown,
         StopLoop, CloseSocket, DeleteSession, ServerStep, ServerAnswers, ServerPlays, ServerSends, vars
<1>2. timeouts \in Nat /\ fCSeq \in Nat
  BY DEF Typed, ReadType, TypeOK
<1>3. ASSUME taken' = taken, timeouts' \in {timeouts, timeouts + 1}
      PROVE  (taken.request - taken.answer \in 0..timeouts)'
  BY <1>1, <1>2, <1>3 DEF AnswersMatch
<1>4. CASE TakeAnswer
  <2>1. InTurn /\ reading = "wait" /\ timeouts' = timeouts /\ taken' = [request |-> fCSeq, answer |-> Head(wire).n]
    BY <1>1, <1>4, CallTypes DEF TurnInv, TakeAnswer, CallType
  <2>2. Recent(wire[1].n) /\ Head(wire) = wire[1]
    BY <1>4, <2>1, TakeShifts DEF InTurn
  <2>3. fCSeq - wire[1].n \in 0..timeouts
    BY <1>2, <2>1, <2>2 DEF Recent
  <2> QED BY <2>1, <2>2, <2>3
<1>5. CASE TimesOut
  BY <1>3, <1>5 DEF TimesOut
<1> QED BY <1>3, <1>4, <1>5
        DEF Next, OpenURL, OpenerStep, Misuse, SendRequest, NothingToPlay, StopsTiming, ReadFails,
            DiscardPacket, ReadRest, StartReading, EventStep, ReadText, ReadDollar, ReadChannel,
            ReadSize, ReadLost, readRTPOverTCP, ReadUnchanged, CloseURL, DestroyClient, CloserStep, Teardown,
            StopLoop, CloseSocket, DeleteSession, ServerStep, ServerAnswers, ServerPlays, ServerSends, vars

(***************************************************************************)
(* A track's own channel.  While a SETUP is waited for, what has its       *)
(* number is its own; so, when nothing has been given up, every track that *)
(* is granted a channel has it, or the answer that says so is on the wire. *)
(***************************************************************************)
OwnInv ==
  ~raced /\ stage = "SETUP" /\ reading = "wait" =>
    /\ \A i \in DOMAIN requests :
         requests[i].cseq = fCSeq => requests[i].what = "SETUP" /\ requests[i].track = track
    /\ \A i \in DOMAIN wire :
         AnswerAt(i) /\ wire[i].n = fCSeq /\ wire[i].status = "ok" => wire[i].channel = track - 1
Answered == \E i \in DOMAIN wire : AnswerAt(i) /\ wire[i].n = fCSeq /\ wire[i].status = "ok"
SettledInv ==
  ~raced /\ timeouts = 0 =>
    /\ \A i \in DOMAIN requests : requests[i].what = "SETUP" => stage = "SETUP" /\ reading = "wait"
    /\ \A g \in granted :
         \/ channelId[g.track] = g.channel
         \/ stage = "SETUP" /\ reading = "wait" /\ g.track = track /\ Answered

\* When nothing has been given up, what is on the connection is of the last request.
LEMMA OnlyLast ==
  ASSUME InTurn, timeouts = 0, fCSeq \in Nat
  PROVE  /\ reading # "send"
              => /\ \A i \in DOMAIN wire : AnswerAt(i) => wire[i].n = fCSeq
                 /\ \A i \in DOMAIN requests : requests[i].cseq = fCSeq
         /\ reading = "send" => DOMAIN requests = {}
<1>1. ASSUME NEW n, Recent(n) PROVE reading # "send" /\ n = fCSeq
  BY <1>1 DEF Recent
<1> QED BY <1>1 DEF InTurn

LEMMA StepOwn ==
  TypeOK /\ LifeInv /\ Typed /\ BeginInv /\ EarlyInv /\ SetupInv /\ GrantsInv /\ TurnInv
    /\ OwnInv /\ SettledInv /\ [Next]_vars => OwnInv' /\ SettledInv'
<1> SUFFICES ASSUME TypeOK, LifeInv, Typed, BeginInv, EarlyInv, SetupInv, GrantsInv, TurnInv,
                    OwnInv, SettledInv, [Next]_vars, ~raced'
             PROVE  OwnInv' /\ SettledInv'
  BY DEF OwnInv, SettledInv
<1> USE DEF clientVars, callVars, eventVars, closeVars, serverVars, historyVars
<1>1. CallType
  BY CallTypes
<1>2. /\ wire \in Seq(Tokens) /\ requests \in Seq(Asked) /\ Len(wire) \in Nat /\ Len(requests) \in Nat
      /\ DOMAIN wire = 1..Len(wire) /\ DOMAIN requests = 1..Len(requests)
      /\ timeouts \in Nat /\ fCSeq \in Nat /\ channelId \in [Tracks -> Int]
      /\ granted \subseteq [track : Tracks, channel : Int]
  BY DEF TypeOK, Typed, WireType, RequestType, ReadType, ServerType
<1>3. ~raced
  BY DEF Next, OpenURL, OpenerStep, Misuse, SendRequest, NothingToPlay, TimesOut, StopsTiming, ReadFails,
         DiscardPacket, TakeAnswer, ReadRest, StartReading, EventStep, ReadText, ReadDollar, ReadChannel,
         ReadSize, ReadLost, readRTPOverTCP, ReadUnchanged, CloseURL, DestroyClient, CloserStep, Teardown,
         StopLoop, CloseSocket, DeleteSession, ServerStep, ServerAnswers, ServerPlays, ServerSends, vars
\* Steps that have nothing to do with a SETUP.
<1>4. ASSUME stage # "SETUP", stage' # "SETUP", UNCHANGED <<granted, channelId>>, timeouts = timeouts',
             \A i \in DOMAIN requests' : requests'[i].what = "SETUP" =>
               \E j \in DOMAIN requests : requests[j].what = "SETUP"
      PROVE  OwnInv' /\ SettledInv'
  BY <1>3, <1>4 DEF OwnInv, SettledInv
<1>5. ASSUME UNCHANGED <<stage, reading, track, fCSeq, timeouts, granted, channelId, wire, requests>>
      PROVE  OwnInv' /\ SettledInv'
  BY <1>3, <1>5 DEF OwnInv, SettledInv, Answered, AnswerAt
<1>6. CASE OpenURL
  <2>1. granted' = {} /\ requests' = <<>> /\ stage' = "OPTIONS"
    BY <1>6 DEF OpenURL, Goto, BeginInv, Blank
  <2> QED BY <2>1 DEF OwnInv, SettledInv
<1>7. CASE Misuse
  BY <1>5, <1>7 DEF Misuse
<1>8. CASE SendRequest
  <2>1. Asks(Request(fCSeq + 1, stage, track, fTCPStreamIdCount)) /\ fCSeq' = fCSeq + 1
    BY <1>8, OpenerAsks
  <2>2. /\ reading = "send" /\ reading' = "wait" /\ InTurn
        /\ UNCHANGED <<stage, track, timeouts, granted, channelId, wire>>
    BY <1>1, <1>3, <1>8 DEF SendRequest, CallType, TurnInv
  <2>3. \A i \in DOMAIN requests' :
          \/ i \in DOMAIN requests /\ requests'[i] = requests[i]
          \/ /\ requests'[i].cseq = fCSeq + 1 /\ requests'[i].what = stage
             /\ requests'[i].track = track
    BY <2>1 DEF Asks, Request
  <2>4. \A n : Recent(n) => n # fCSeq + 1
    BY <1>2 DEF Recent
  <2>5. OwnInv'
    <3>1. ASSUME stage = "SETUP", NEW i \in DOMAIN requests', requests'[i].cseq = fCSeq + 1
          PROVE  requests'[i].what = "SETUP" /\ requests'[i].track = track
      BY <2>2, <2>3, <2>4, <3>1 DEF InTurn
    <3>2. \A i \in DOMAIN wire : AnswerAt(i) => wire[i].n # fCSeq + 1
      BY <2>2, <2>4 DEF InTurn
    <3> QED BY <2>1, <2>2, <3>1, <3>2 DEF OwnInv, AnswerAt
  <2>6. SettledInv'
    <3> SUFFICES ASSUME timeouts = 0 PROVE SettledInv'
      BY <2>2 DEF SettledInv
    <3>1. DOMAIN requests = {}
      BY <1>2, <2>2, OnlyLast
    <3>2. \A i \in DOMAIN requests' : requests'[i].what = "SETUP" => stage = "SETUP"
      BY <2>3, <3>1
    <3> QED BY <1>3, <2>2, <3>2 DEF SettledInv
  <2> QED BY <2>5, <2>6
<1>9. CASE NothingToPlay
  BY <1>4, <1>9 DEF NothingToPlay, Ends
<1>10. CASE TimesOut
  <2>1. timeouts' # 0
    BY <1>2, <1>10 DEF TimesOut
  <2>2. reading' # "wait"
    BY <1>1, <1>10, GivesUpTo DEF FailsTo, ToNextTrack, Goto, Ends
  <2> QED BY <2>1, <2>2 DEF OwnInv, SettledInv
<1>11. CASE ReadFails
  <2>1. call # "none" /\ ~connected
    BY <1>1, <1>11 DEF ReadFails, CallType
  <2> QED BY <1>3, <2>1 DEF BeginInv
<1>12. CASE DiscardPacket \/ StopsTiming
  <2>1. DiscardPacket => 1 \in DOMAIN wire /\ ~AnswerAt(1)
    BY <1>2 DEF DiscardPacket, AnswerAt
  <2>2. stage # "SETUP" /\ stage' = stage /\ UNCHANGED <<granted, channelId, requests, timeouts>>
    BY <1>12, <2>1 DEF DiscardPacket, StopsTiming, SetupInv
  <2> QED BY <1>4, <2>2
<1>13. CASE TakeAnswer
  <2>1. /\ 1 \in DOMAIN wire /\ AnswerAt(1) /\ Head(wire) = wire[1]
    BY <1>2, <1>13, TakeShifts
  <2>2. UNCHANGED <<timeouts, granted, requests, fCSeq>> /\ reading = "wait" /\ InTurn
    BY <1>1, <1>3, <1>13 DEF TakeAnswer, TurnInv, CallType
  <2>3. (Head(wire).status = "ok" /\ SucceedsTo) \/ Retries \/ (Head(wire).status # "ok" /\ FailsTo)
    BY <1>1, <1>13, TakesTo
  <2>4. reading' # "wait"
    BY <2>3 DEF SucceedsTo, Retries, FailsTo, ToNextTrack, Goto, Ends
  <2>5. SettledInv'
    <3> SUFFICES ASSUME timeouts = 0 PROVE SettledInv'
      BY <2>2 DEF SettledInv
    <3>1. /\ \A i \in DOMAIN wire : AnswerAt(i) => wire[i].n = fCSeq
          /\ \A i \in DOMAIN requests : requests[i].cseq = fCSeq
      BY <1>2, <2>2, OnlyLast
    <3>2. DOMAIN requests = {}
      <4>1. \A j \in DOMAIN requests : wire[1].n < requests[j].cseq
        BY <2>1, <2>2 DEF InTurn
      <4>2. wire[1].n = fCSeq /\ fCSeq \in Nat
        BY <1>2, <2>1, <3>1
      <4>3. ASSUME NEW j \in DOMAIN requests PROVE FALSE
        <5>1. fCSeq < requests[j].cseq /\ requests[j].cseq = fCSeq
          BY <3>1, <4>1, <4>2, <4>3
        <5> QED BY ONLY <4>2, <5>1
      <4> QED BY <4>3
    <3>3. ASSUME Answered PROVE wire[1].status = "ok"
      <4>1. PICK i \in DOMAIN wire : AnswerAt(i) /\ wire[i].status = "ok"
        BY <3>3 DEF Answered
      <4>2. i = 1
        <5>1. 1 < i => wire[1].n < wire[i].n
          BY <2>1, <2>2, <4>1 DEF InTurn
        <5> QED BY <1>2, <2>1, <3>1, <4>1, <5>1
      <4> QED BY <4>1, <4>2
    <3>4. ASSUME NEW g \in granted PROVE channelId'[g.track] = g.channel
      <4>1. g.track \in Tracks /\ g.channel = g.track - 1
        BY <1>2 DEF GrantsInv
      <4>2. channelId[g.track] = g.channel \/ (stage = "SETUP" /\ g.track = track /\ Answered)
        BY <1>3 DEF SettledInv
      <4>3. CASE stage = "SETUP" /\ wire[1].status = "ok"
        <5>1. channelId' = [channelId EXCEPT ![track] = wire[1].channel]
          <6>1. Head(wire).status = "ok" /\ ~Retries
            BY <2>1, <4>3 DEF Retries
          <6> QED BY <2>1, <2>3, <4>3, <6>1 DEF SucceedsTo
        <5>2. wire[1].channel = track - 1
          BY <1>3, <2>1, <2>2, <3>1, <4>3 DEF OwnInv
        <5> QED BY <1>2, <4>1, <4>2, <5>1, <5>2
      <4>4. CASE stage # "SETUP" \/ wire[1].status # "ok"
        <5>1. channelId[g.track] = g.channel
          BY <3>3, <4>2, <4>4
        <5>2. stage # "DESCRIBE"
          BY DEF EarlyInv
        <5>3. channelId' = channelId
          BY <2>1, <2>3, <4>4, <5>2 DEF SucceedsTo, Retries, FailsTo
        <5> QED BY <5>1, <5>3
      <4> QED BY <4>3, <4>4
    <3> QED BY <2>2, <3>2, <3>4 DEF SettledInv
  <2> QED BY <2>4, <2>5 DEF OwnInv
<1>14. CASE ReadRest
  <2>1. stage \notin {"SETUP", "OPTIONS", "DESCRIBE"} /\ UNCHANGED <<granted, requests, timeouts>>
    BY <1>14 DEF ReadRest, SetupInv, EarlyInv
  <2>2. channelId' = channelId /\ stage' # "SETUP"
    BY <1>1, <1>14, <2>1, RestTo DEF FailsTo, ToNextTrack, Ends
  <2> QED BY <1>4, <2>1, <2>2
<1>15. CASE StartReading
  BY <1>4, <1>15 DEF StartReading, Ends
<1>16. ASSUME NEW k \in 1..PacketSize,
              ReadText \/ ReadDollar \/ ReadChannel \/ ReadSize \/ ReadLost \/ readRTPOverTCP(k)
       PROVE  OwnInv' /\ SettledInv'
  <2>1. running /\ UNCHANGED <<stage, granted, channelId, timeouts>>
    BY <1>16 DEF ReadText, ReadDollar, ReadChannel, ReadSize, ReadLost, readRTPOverTCP, Reads, ReadUnchanged
  <2>2. stage = "none"
    BY <1>1, <2>1 DEF BeginInv, CallType
  <2>3. \A i \in DOMAIN requests' : requests'[i].what = "SETUP" =>
               \E j \in DOMAIN requests : requests[j].what = "SETUP"
    <3>1. CASE requests' = requests
      BY <3>1
    <3>2. CASE Asks(Request(fCSeq + 1, "GET_PARAMETER", NoTrack, OtherChannel))
      BY <3>2 DEF Asks, Request
    <3> QED BY <1>16, <3>1, <3>2, DataAsks
            DEF ReadText, ReadDollar, ReadChannel, ReadSize, ReadLost, ReadUnchanged
  <2> QED BY <1>4, <2>1, <2>2, <2>3
<1>17. CASE CloseURL \/ DestroyClient
  BY <1>5, <1>17 DEF CloseURL, DestroyClient
<1>18. CASE CloserStep
  <2>1. stage = "none" /\ UNCHANGED <<stage, granted, channelId, timeouts>>
    BY <1>1, <1>3, <1>18
       DEF CloserStep, Teardown, StopLoop, CloseSocket, DeleteSession, LifeInv, CallType
  <2>2. \A i \in DOMAIN requests' : requests'[i].what = "SETUP" =>
               \E j \in DOMAIN requests : requests[j].what = "SETUP"
    <3>1. CASE requests' = requests \/ requests' = <<>>
      BY <3>1
    <3>2. CASE Asks(Request(seen + 1, "TEARDOWN", NoTrack, OtherChannel))
      BY <3>2 DEF Asks, Request
    <3> QED BY <1>18, <3>1, <3>2, TeardownAsks DEF CloserStep, StopLoop, CloseSocket, DeleteSession
  <2> QED BY <1>4, <2>1, <2>2
<1>19. CASE ServerAnswers
  <2> DEFINE r == Head(requests)
  <2>1. UNCHANGED <<stage, reading, track, fCSeq, timeouts, channelId>>
    BY <1>19 DEF ServerAnswers
  <2>2. /\ r = requests[1] /\ 1 \in DOMAIN requests
        /\ \A i \in DOMAIN requests' : i + 1 \in DOMAIN requests /\ requests'[i] = requests[i + 1]
        /\ \A i \in DOMAIN wire : i \in DOMAIN wire' /\ wire'[i] = wire[i]
        /\ \A i \in DOMAIN wire' : i \in DOMAIN wire \/ i = Len(wire) + 1
        /\ Len(wire) + 1 \in DOMAIN wire' /\ wire'[Len(wire) + 1].is = "answer"
        /\ wire'[Len(wire) + 1].n = r.cseq /\ wire'[Len(wire) + 1].channel = r.channel
    <3>1. PICK status : Told(Head(requests), status)
      BY <1>19, AnswersOne
    <3>2. DOMAIN wire' = 1..(Len(wire) + 1)
      BY <1>2, <3>1 DEF Told
    <3> QED BY <1>2, <1>19, <3>1, <3>2, AnswersOne DEF Told, Answer
  <2>3. \/ /\ wire'[Len(wire) + 1].status = "ok"
           /\ \/ granted' = granted
              \/ r.what = "SETUP" /\ granted' = granted \cup {[track |-> r.track, channel |-> r.channel]}
        \/ granted' = granted
    BY <1>19, ServerTells DEF Told, Answer, Granted
  <2> HIDE DEF r
  <2>4. ASSUME stage = "SETUP", reading = "wait", r.cseq = fCSeq
        PROVE  r.what = "SETUP" /\ r.track = track /\ r.channel = track - 1
    BY <1>3, <2>2, <2>4 DEF OwnInv, GrantsInv
  <2>5. OwnInv'
    <3> SUFFICES ASSUME stage = "SETUP", reading = "wait" PROVE OwnInv'
      BY <2>1 DEF OwnInv
    <3>1. \A i \in DOMAIN requests' :
            requests'[i].cseq = fCSeq => requests'[i].what = "SETUP" /\ requests'[i].track = track
      BY <1>3, <2>2 DEF OwnInv
    <3>2. \A i \in DOMAIN wire' :
            wire'[i].is = "answer" /\ wire'[i].n = fCSeq /\ wire'[i].status = "ok" => wire'[i].channel = track - 1
      BY <1>3, <2>2, <2>4 DEF OwnInv, AnswerAt
    <3> QED BY <2>1, <3>1, <3>2 DEF OwnInv, AnswerAt
  <2>6. SettledInv'
    <3> SUFFICES ASSUME timeouts = 0 PROVE SettledInv'
      BY <2>1 DEF SettledInv
    <3>1. \A i \in DOMAIN requests' : requests'[i].what = "SETUP" => stage = "SETUP" /\ reading = "wait"
      BY <1>3, <2>2 DEF SettledInv
    <3>2. Answered => Answered'
      BY <2>1, <2>2 DEF Answered, AnswerAt
    <3>3. ASSUME NEW g \in granted
          PROVE  channelId[g.track] = g.channel \/
                 (stage = "SETUP" /\ reading = "wait" /\ g.track = track /\ Answered')
      BY <1>3, <3>2 DEF SettledInv
    <3>4. ASSUME r.what = "SETUP", wire'[Len(wire) + 1].status = "ok"
          PROVE  stage = "SETUP" /\ reading = "wait" /\ r.track = track /\ Answered'
      <4>1. stage = "SETUP" /\ reading = "wait"
        BY <1>3, <2>2, <3>4 DEF SettledInv
      <4>2. InTurn
        BY <1>1, <1>3, <4>1 DEF TurnInv, CallType
      <4>3. r.cseq = fCSeq
        BY <1>2, <2>2, <4>1, <4>2, OnlyLast
      <4>4. r.track = track
        BY <2>4, <4>1, <4>3
      <4>5. Answered'
        BY <2>1, <2>2, <3>4, <4>3 DEF Answered, AnswerAt
      <4> QED BY <4>1, <4>4, <4>5
    <3>5. \A g \in granted' : channelId[g.track] = g.channel \/
                 (stage = "SETUP" /\ reading = "wait" /\ g.track = track /\ Answered')
      <4>1. CASE granted' = granted
        BY <3>3, <4>1
      <4>2. CASE /\ r.what = "SETUP" /\ granted' = granted \cup {[track |-> r.track, channel |-> r.channel]}
                 /\ wire'[Len(wire) + 1].status = "ok"
        BY <3>3, <3>4, <4>2
      <4> QED BY <2>3, <4>1, <4>2
    <3> QED BY <2>1, <3>1, <3>5 DEF SettledInv
  <2> QED BY <2>5, <2>6
<1>20. CASE ServerPlays
  BY <1>5, <1>20 DEF ServerPlays
<1>21. CASE ServerSends
  <2>1. stage # "SETUP" /\ UNCHANGED <<stage, granted, channelId, requests, timeouts>>
    BY <1>21 DEF ServerSends, SetupInv
  <2> QED BY <1>4, <2>1
<1>22. CASE UNCHANGED vars
  BY <1>5, <1>22 DEF vars
<1> QED BY <1>6, <1>7, <1>8, <1>9, <1>10, <1>11, <1>12, <1>13, <1>14, <1>15, <1>16, <1>17, <1>18, <1>19, <1>20,
           <1>21, <1>22, PieceThere DEF Next, OpenerStep, EventStep, ServerStep

(***************************************************************************)
(* Where the event thread is.  The packets on the wire are those from e    *)
(* on, in the order of their numbers, and between them there is nothing    *)
(* but answers; of packet e - 1 the pieces before o are read, and the rest *)
(* of it comes first.                                                      *)
(***************************************************************************)
Numbered(e) ==
  /\ \A m \in e..Len(packets) : \E i \in DOMAIN wire : DollarAt(i) /\ Number(i) = m
  /\ \A i \in DOMAIN wire : DollarAt(i) => Number(i) >= e
  /\ \A i, k \in DOMAIN wire : i < k /\ DollarAt(i) /\ DollarAt(k) => Number(i) < Number(k)
Inner(r) ==
  \A i \in DOMAIN wire : i > r /\ ~AnswerAt(i) => \E k \in (r + 1)..i : DollarAt(k) /\ i < k + Length
Offset ==
  IF ~running \/ fTCPReadingState = "dollar" THEN Length
  ELSE IF fTCPReadingState = "channel" THEN 1
  ELSE IF fTCPReadingState = "size" THEN 2 ELSE 3 + Len(fRtpBuffer)
OwnChannels == \A t \in Tracks : channelId[t] = t - 1
LastNumber == delivered[Len(delivered)].pieces[1]
Within(e, o) ==
  /\ Inner(Length - o)
  /\ o < Length => e - 1 \in DOMAIN packets /\ PacketFrom(1, e - 1, o)
  /\ o \in 2..(Length - 1) /\ OwnChannels => fNextTCPSource = packets[e - 1]
  /\ o \in 3..(Length - 1) =>
       fTCPReadSize = PacketSize /\ \A i \in DOMAIN fRtpBuffer : fRtpBuffer[i] = e - 1
  /\ delivered # <<>> => LastNumber = IF o < Length THEN e - 2 ELSE e - 1
Place(e, o) ==
  /\ e \in 1..(Len(packets) + 1) /\ o \in 1..Length /\ o = Offset
  /\ running /\ fTCPReadingState # "dollar" => o < Length
  /\ Numbered(e) /\ Within(e, o)
Framed == \E e, o \in Nat : Place(e, o)
Opening == call # "none" /\ reading # "rest"
Watched == ~misused /\ connected /\ ~lost /\ (running \/ Opening)
FrameInv == Watched => Framed

\* The dollars of the wire, as whole packets.
LEMMA Dollars ==
  ASSUME Typed, DollarsWhole
  PROVE  /\ \A i \in DOMAIN wire : DollarAt(i) =>
              /\ Number(i) \in DOMAIN packets /\ At(i, Number(i)) /\ i + 3 \in DOMAIN wire
              /\ \A k \in (i + 1)..(i + Length - 1) : k \in DOMAIN wire /\ ~DollarAt(k)
         /\ wire \in Seq(Tokens) /\ DOMAIN wire = 1..Len(wire) /\ Len(wire) \in Nat
         /\ packets \in Seq(Tracks) /\ DOMAIN packets = 1..Len(packets) /\ Len(packets) \in Nat
         /\ Length \in Nat /\ Length > 3
<1>1. /\ wire \in Seq(Tokens) /\ DOMAIN wire = 1..Len(wire) /\ Len(wire) \in Nat
      /\ packets \in Seq(Tracks) /\ DOMAIN packets = 1..Len(packets) /\ Len(packets) \in Nat
      /\ Length \in Nat /\ Length > 3
  BY ConstantsAssumption DEF Typed, WireType, ServerType, Length
<1>2. ASSUME NEW i \in DOMAIN wire, DollarAt(i)
      PROVE  /\ Number(i) \in DOMAIN packets /\ At(i, Number(i)) /\ i + 3 \in DOMAIN wire
             /\ \A k \in (i + 1)..(i + Length - 1) : k \in DOMAIN wire /\ ~DollarAt(k)
  <2>1. PICK m \in DOMAIN packets : At(i, m)
    BY <1>2 DEF DollarsWhole
  <2>2. Number(i) = m /\ i + 3 \in DOMAIN wire
    BY <1>1, <2>1, DollarNumber
  <2>3. ASSUME NEW k \in (i + 1)..(i + Length - 1) PROVE k \in DOMAIN wire /\ ~DollarAt(k)
    <3>1. k - i \in 0..(Length - 1) /\ k - i # 0 /\ i + ((k - i) - 0) = k
      BY <1>1
    <3>2. k \in DOMAIN wire /\ wire[k] = PieceOf(m, k - i)
      <4>1. PICK j : j = k - i
        OBVIOUS
      <4>2. i + (j - 0) \in DOMAIN wire /\ wire[i + (j - 0)] = PieceOf(m, j)
        BY <2>1, <3>1, <4>1 DEF At, PacketFrom
      <4> QED BY <3>1, <4>1, <4>2
    <3> QED BY <3>1, <3>2 DEF PieceOf, Token, DollarAt
  <2> QED BY <2>1, <2>2, <2>3
<1> QED BY <1>1, <1>2

\* The first packet on the wire is e.
LEMMA FirstNumber ==
  ASSUME Typed, DollarsWhole, NEW e \in Nat, Numbered(e), 1 \in DOMAIN wire, DollarAt(1)
  PROVE  /\ Number(1) = e /\ e \in DOMAIN packets /\ At(1, e)
         /\ \A i \in DOMAIN wire : DollarAt(i) /\ i > 1 => Number(i) >= e + 1
         /\ Length \in 1..Len(wire)
<1>1. Number(1) \in DOMAIN packets /\ At(1, Number(1)) /\ DOMAIN packets = 1..Len(packets)
  BY Dollars
<1>2. Number(1) >= e
  BY DEF Numbered
<1>3. e \in 1..Len(packets) \/ e = 0
  BY <1>1, <1>2
<1>4. e \in Number(1)..Number(1)
  <2>1. e \in e..Len(packets)
    BY <1>1, <1>2
  <2>2. PICK i \in DOMAIN wire : DollarAt(i) /\ Number(i) = e
    BY <2>1 DEF Numbered
  <2>3. i = 1 \/ 1 < i
    BY Dollars
  <2>4. 1 < i => Number(1) < Number(i)
    BY <2>2 DEF Numbered
  <2> QED BY <1>1, <1>2, <2>2, <2>3, <2>4
<1>5. Number(1) = e
  BY <1>1, <1>4
<1>6. ASSUME NEW i \in DOMAIN wire, DollarAt(i), i > 1 PROVE Number(i) >= e + 1
  <2>1. Number(1) < Number(i) /\ Number(i) \in Int
    BY <1>6, Dollars DEF Numbered
  <2> QED BY <1>5, <2>1
<1>7. Length \in 1..Len(wire)
  <2>1. 1 + Length - 1 \in (1 + 1)..(1 + Length - 1) /\ 1 + Length - 1 = Length
    BY Dollars
  <2>2. Length \in DOMAIN wire
    BY <2>1, Dollars
  <2> QED BY <2>2, Dollars
<1> QED BY <1>1, <1>5, <1>6, <1>7

\* What is read from the front.
LEMMA NumberedShifts ==
  ASSUME Typed, DollarsWhole, NEW e \in Nat, Numbered(e),
         NEW d \in 1..Len(wire), Shifted(d), wire' \in Seq(Tokens), packets' = packets,
         NEW f \in e..(e + 1),
         \A i \in DOMAIN wire : DollarAt(i) => IF i > d THEN Number(i) >= f ELSE Number(i) < f
  PROVE  Numbered(f)'
<1>1. /\ DOMAIN wire = 1..Len(wire) /\ Len(wire) \in Nat /\ DOMAIN wire' = 1..(Len(wire) - d)
      /\ \A i \in DOMAIN wire' : i + d \in DOMAIN wire /\ i + d > d /\ wire'[i] = wire[i + d]
  <2>1. DOMAIN wire' = 1..Len(wire')
    OBVIOUS
  <2> QED BY <2>1, Dollars DEF Shifted
<1>2. ASSUME NEW i \in DOMAIN wire', wire'[i].is = "dollar"
      PROVE  wire[i + d].is = "dollar" /\ wire'[i + 3].n = Number(i + d) /\ Number(i + d) >= f
  <2>1. i + d \in DOMAIN wire /\ DollarAt(i + d) /\ (i + d) + 3 \in DOMAIN wire
    BY <1>1, <1>2, Dollars DEF DollarAt
  <2>2. i + 3 \in DOMAIN wire' /\ (i + 3) + d = (i + d) + 3
    BY <1>1, <2>1
  <2>3. wire'[i + 3] = wire[(i + d) + 3]
    BY <1>1, <2>2
  <2> QED BY <1>1, <2>1, <2>3 DEF Number, DollarAt
<1>3. ASSUME NEW m \in f..Len(packets) PROVE \E i \in DOMAIN wire' : wire'[i].is = "dollar" /\ wire'[i + 3].n = m
  <2>1. m \in e..Len(packets)
    BY Dollars
  <2>2. PICK k \in DOMAIN wire : DollarAt(k) /\ Number(k) = m
    BY <2>1 DEF Numbered
  <2>3. k > d
    BY <2>2
  <2>4. k - d \in DOMAIN wire' /\ (k - d) + d = k
    BY <1>1, <2>3
  <2>5. wire'[k - d].is = "dollar"
    BY <1>1, <2>2, <2>4 DEF DollarAt
  <2> QED BY <1>2, <2>2, <2>4, <2>5
<1>4. \A i, k \in DOMAIN wire' : i < k /\ wire'[i].is = "dollar" /\ wire'[k].is = "dollar" =>
        wire'[i + 3].n < wire'[k + 3].n
  <2> SUFFICES ASSUME NEW i \in DOMAIN wire', NEW k \in DOMAIN wire', i < k,
                      wire'[i].is = "dollar", wire'[k].is = "dollar"
               PROVE  wire'[i + 3].n < wire'[k + 3].n
    OBVIOUS
  <2>1. i + d < k + d /\ i + d \in DOMAIN wire /\ k + d \in DOMAIN wire
    BY <1>1
  <2>2. DollarAt(i + d) /\ DollarAt(k + d) /\ wire'[i + 3].n = Number(i + d) /\ wire'[k + 3].n = Number(k + d)
    BY <1>2 DEF DollarAt
  <2> QED BY <2>1, <2>2 DEF Numbered
<1> QED BY <1>2, <1>3, <1>4 DEF Numbered, Number, DollarAt

LEMMA InnerShifts ==
  ASSUME wire \in Seq(Tokens), wire' \in Seq(Tokens), NEW d \in 0..Len(wire), Shifted(d),
         NEW r \in Nat, NEW s \in Nat, Inner(r), r <= s + d,
         \A k \in DOMAIN wire : k > r /\ k <= s + d /\ DollarAt(k) => k + Length <= s + d + 1
  PROVE  Inner(s)'
<1>1. /\ Len(wire) \in Nat /\ DOMAIN wire = 1..Len(wire) /\ DOMAIN wire' = 1..(Len(wire) - d)
      /\ \A i \in DOMAIN wire' : i + d \in DOMAIN wire /\ wire'[i] = wire[i + d]
      /\ Length \in Nat
  <2>1. DOMAIN wire' = 1..Len(wire') /\ Len(wire) \in Nat /\ DOMAIN wire = 1..Len(wire)
    OBVIOUS
  <2> QED BY <2>1, ConstantsAssumption DEF Shifted, Length
<1>2. ASSUME NEW i \in DOMAIN wire', i > s, wire'[i].is # "answer"
      PROVE  \E k \in (s + 1)..i : wire'[k].is = "dollar" /\ i < k + Length
  <2>1. i + d \in DOMAIN wire /\ ~AnswerAt(i + d) /\ i + d > r /\ i \in Nat
    BY <1>1, <1>2 DEF AnswerAt
  <2>2. PICK k \in (r + 1)..(i + d) : DollarAt(k) /\ i + d < k + Length
    BY <2>1 DEF Inner
  <2>3. k \in DOMAIN wire /\ k > s + d
    <3>1. k \in DOMAIN wire
      BY <1>1, <2>1
    <3>2. k \in Nat /\ k > r
      BY <1>1, <2>2, <3>1
    <3>3. k <= s + d => k + Length <= s + d + 1
      BY <2>2, <3>1, <3>2
    <3> QED BY <1>1, <1>2, <2>1, <2>2, <3>1, <3>2, <3>3
  <2>4. k - d \in (s + 1)..i /\ k - d \in DOMAIN wire' /\ (k - d) + d = k /\ i < (k - d) + Length
    <3>1. k \in Nat /\ d \in Nat /\ Length \in Nat /\ i \in Nat /\ k <= i + d /\ k > s + d /\ i + d < k + Length
      BY <1>1, <2>1, <2>2, <2>3
    <3>2. PICK m \in Nat : m = k - d
      BY ONLY <3>1, s \in Nat
    <3>3. m \in (s + 1)..i /\ m + d = k /\ i < m + Length
      BY ONLY <3>1, <3>2, s \in Nat
    <3>4. m \in DOMAIN wire'
      <4>1. k <= Len(wire) /\ Len(wire) \in Nat /\ DOMAIN wire' = 1..(Len(wire) - d)
        BY <1>1, <2>3
      <4>2. m \in 1..(Len(wire) - d)
        BY ONLY <3>1, <3>3, <4>1, s \in Nat
      <4> QED BY ONLY <4>1, <4>2
    <3> QED BY ONLY <3>2, <3>3, <3>4
  <2> QED BY <1>1, <2>2, <2>4 DEF DollarAt
<1> QED BY <1>2 DEF Inner, AnswerAt, DollarAt

\* What is added at the end.
LEMMA AnswerAdded ==
  ASSUME Typed, DollarsWhole, packets' = packets,
         \A i \in DOMAIN wire : i \in DOMAIN wire' /\ wire'[i] = wire[i],
         \A i \in DOMAIN wire' : i \in DOMAIN wire \/ wire'[i].is = "answer"
  PROVE  /\ \A e \in Nat : Numbered(e) => Numbered(e)'
         /\ \A r \in Nat : Inner(r) => Inner(r)'
<1>1. ASSUME NEW i \in DOMAIN wire', wire'[i].is = "dollar"
      PROVE  i \in DOMAIN wire /\ wire[i].is = "dollar" /\ wire'[i + 3].n = wire[i + 3].n
  BY <1>1, Dollars DEF DollarAt
<1>2. ASSUME NEW e \in Nat, Numbered(e) PROVE Numbered(e)'
  <2>1. ASSUME NEW m \in e..Len(packets) PROVE \E i \in DOMAIN wire' : wire'[i].is = "dollar" /\ wire'[i + 3].n = m
    <3>1. PICK i \in DOMAIN wire : DollarAt(i) /\ Number(i) = m
      BY <1>2 DEF Numbered
    <3>2. i \in DOMAIN wire' /\ wire'[i].is = "dollar"
      BY <3>1 DEF DollarAt
    <3> QED BY <1>1, <3>1, <3>2 DEF Number
  <2> QED BY <1>1, <1>2, <2>1 DEF Numbered, DollarAt, Number
<1>3. ASSUME NEW r \in Nat, Inner(r) PROVE Inner(r)'
  <2>1. ASSUME NEW i \in DOMAIN wire', i > r, wire'[i].is # "answer"
        PROVE  \E k \in (r + 1)..i : wire'[k].is = "dollar" /\ i < k + Length
    <3>1. i \in DOMAIN wire /\ ~AnswerAt(i)
      BY <2>1 DEF AnswerAt
    <3>2. PICK k \in (r + 1)..i : DollarAt(k) /\ i < k + Length
      BY <1>3, <2>1, <3>1 DEF Inner
    <3>3. k \in DOMAIN wire
      BY <3>1, Dollars
    <3> QED BY <3>2, <3>3 DEF DollarAt
  <2> QED BY <2>1 DEF Inner, AnswerAt, DollarAt
<1> QED BY <1>2, <1>3

LEMMA PacketAdded ==
  ASSUME Typed, DollarsWhole, GrantsInv, NEW g \in granted, Plays(g)
  PROVE  /\ Longer /\ Len(packets') = Len(packets) + 1
         /\ \A e \in 1..(Len(packets) + 1) : Numbered(e) => Numbered(e)'
         /\ \A r \in 0..Len(wire) : Inner(r) => Inner(r)'
<1>1. PICK p \in Nat : p = Len(wire) + 1
  BY Dollars
<1>2. PICK n \in Nat : n = Len(packets) + 1
  BY Dollars
<1>3. /\ Longer /\ Len(packets') = n /\ packets'[n] = g.track /\ At(p, n)'
      /\ \A i \in DOMAIN wire' : i \in DOMAIN wire \/
              \E j \in 0..(Length - 1) : i = p + j /\ wire'[i] = PieceSent(g, n, j)
  BY <1>1, <1>2, PlaysWhole
<1>4. wire'[p].is = "dollar" /\ wire'[p + 3].n = n /\ p \in DOMAIN wire'
  <2>1. \A j \in 0..(Length - 1) : p + (j - 0) \in DOMAIN wire' /\ wire'[p + (j - 0)] = PieceOf(n, j)'
    BY <1>3 DEF At, PacketFrom
  <2>2. 0 \in 0..(Length - 1) /\ 3 \in 0..(Length - 1)
    BY Dollars
  <2>3. p + (0 - 0) \in DOMAIN wire' /\ wire'[p + (0 - 0)] = PieceOf(n, 0)' /\ wire'[p + (3 - 0)] = PieceOf(n, 3)'
    BY <2>1, <2>2
  <2> QED BY <2>3 DEF PieceOf, Token
<1>5. ASSUME NEW i \in DOMAIN wire', wire'[i].is = "dollar"
      PROVE  (i \in DOMAIN wire /\ wire[i].is = "dollar" /\ wire'[i + 3].n = Number(i)) \/ i = p
  <2>1. CASE i \in DOMAIN wire
    <3>1. wire[i].is = "dollar"
      BY <1>3, <1>5, <2>1 DEF Longer
    <3>2. wire'[i + 3] = wire[i + 3]
      BY <1>3, <2>1, <3>1, Dollars DEF Longer, DollarAt
    <3> QED BY <2>1, <3>1, <3>2 DEF Number
  <2>2. CASE \E j \in 0..(Length - 1) : i = p + j /\ wire'[i] = PieceSent(g, n, j)
    BY <1>5, <2>2 DEF PieceSent, Token
  <2> QED BY <1>3, <2>1, <2>2
<1>6. ASSUME NEW e \in 1..n, Numbered(e) PROVE Numbered(e)'
  <2>1. ASSUME NEW m \in e..n PROVE \E i \in DOMAIN wire' : wire'[i].is = "dollar" /\ wire'[i + 3].n = m
    <3>1. CASE m = n
      BY <1>4, <3>1
    <3>2. CASE m # n
      <4>1. m \in e..Len(packets)
        BY <1>2, <3>2, Dollars
      <4>2. PICK i \in DOMAIN wire : DollarAt(i) /\ Number(i) = m
        BY <1>6, <4>1 DEF Numbered
      <4>3. i \in DOMAIN wire' /\ wire'[i].is = "dollar" /\ wire'[i + 3] = wire[i + 3]
        BY <1>3, <4>2, Dollars DEF Longer, DollarAt
      <4> QED BY <4>2, <4>3 DEF Number
    <3> QED BY <3>1, <3>2
  <2>2. \A i \in DOMAIN wire' : wire'[i].is = "dollar" => wire'[i + 3].n >= e
    BY <1>4, <1>5, <1>6 DEF Numbered, DollarAt
  <2>3. ASSUME NEW i \in DOMAIN wire', NEW k \in DOMAIN wire', i < k,
               wire'[i].is = "dollar", wire'[k].is = "dollar"
        PROVE  wire'[i + 3].n < wire'[k + 3].n
    <3>1. \A j \in DOMAIN wire : j < p /\ (DollarAt(j) => Number(j) < n)
      BY <1>1, <1>2, Dollars
    <3>2. k \in Nat /\ i # k
      BY <1>1, <1>5, <2>3, Dollars
    <3>3. i \in DOMAIN wire /\ DollarAt(i) /\ wire'[i + 3].n = Number(i)
      <4>1. ~(i = p /\ k \in DOMAIN wire)
        BY <1>1, <2>3, <3>1, <3>2
      <4> QED BY <1>5, <2>3, <3>2, <4>1 DEF DollarAt
    <3>4. CASE k = p
      BY <1>4, <3>1, <3>3, <3>4
    <3>5. CASE k \in DOMAIN wire /\ wire[k].is = "dollar" /\ wire'[k + 3].n = Number(k)
      BY <1>6, <2>3, <3>3, <3>5 DEF Numbered, DollarAt
    <3> QED BY <1>5, <2>3, <3>4, <3>5
  <2> QED BY <1>3, <2>1, <2>2, <2>3 DEF Numbered, DollarAt, Number
<1>7. ASSUME NEW r \in 0..Len(wire), Inner(r) PROVE Inner(r)'
  <2>1. ASSUME NEW i \in DOMAIN wire', i > r, wire'[i].is # "answer"
        PROVE  \E k \in (r + 1)..i : wire'[k].is = "dollar" /\ i < k + Length
    <3>1. CASE i \in DOMAIN wire
      <4>1. ~AnswerAt(i)
        BY <1>3, <2>1, <3>1 DEF AnswerAt, Longer
      <4>2. PICK k \in (r + 1)..i : DollarAt(k) /\ i < k + Length
        BY <1>7, <2>1, <3>1, <4>1 DEF Inner
      <4>3. k \in DOMAIN wire
        BY <3>1, Dollars
      <4> QED BY <1>3, <4>2, <4>3 DEF DollarAt, Longer
    <3>2. CASE \E j \in 0..(Length - 1) : i = p + j
      <4>1. p \in (r + 1)..i /\ i < p + Length
        BY <1>1, <3>2, Dollars
      <4> QED BY <1>4, <4>1
    <3> QED BY <1>3, <3>1, <3>2
  <2> QED BY <2>1 DEF Inner, AnswerAt, DollarAt
<1> QED BY <1>2, <1>3, <1>6, <1>7

\* Nothing of a packet is read, or some of it.
LEMMA PlaceIsClear ==
  ASSUME NEW e \in Nat, NEW o \in Nat, Place(e, o), ~running \/ fTCPReadingState = "dollar"
  PROVE  /\ e \in 1..(Len(packets) + 1) /\ Numbered(e) /\ Inner(0)
         /\ delivered # <<>> => LastNumber = e - 1
<1>1. Length \in Nat /\ o = Length
  BY ConstantsAssumption DEF Length, Place, Offset
<1>2. Length - o = 0
  BY <1>1
<1> QED BY <1>1, <1>2 DEF Place, Within

LEMMA ClearIsPlace ==
  ASSUME NEW e \in Nat, e \in 1..(Len(packets') + 1), Numbered(e)', Inner(0)',
         ~running' \/ fTCPReadingState' = "dollar", delivered' # <<>> => LastNumber' = e - 1
  PROVE  \E f, o \in Nat : Place(f, o)'
<1>1. Length \in Nat /\ Length - Length = 0 /\ Length \in 1..Length
  BY ConstantsAssumption DEF Length
<1>2. Length = Offset'
  BY DEF Offset
<1>3. Inner(Length - Length)'
  BY <1>1 DEF Inner, DollarAt, AnswerAt
<1>4. Within(e, Length)'
  BY <1>1, <1>3 DEF Within
<1>5. Place(e, Length)'
  BY <1>1, <1>2, <1>4 DEF Place
<1> QED BY <1>1, <1>5

LEMMA HeadReads ==
  ASSUME Typed, DollarsWhole, NEW e \in Nat, NEW o \in Nat, Place(e, o), o < Length,
         NEW d \in 1..Len(wire), Shifted(d), wire' \in Seq(Tokens), packets' = packets, o + d <= Length
  PROVE  /\ e \in 1..(Len(packets') + 1) /\ o + d \in 1..Length
         /\ Numbered(e)' /\ Inner(Length - (o + d))' /\ PacketFrom(1, e - 1, o + d)'
         /\ e - 1 \in DOMAIN packets
         /\ \A i \in 1..d : wire[i] = PieceOf(e - 1, o + i - 1)
<1>1. /\ Length \in Nat /\ Len(wire) \in Nat /\ DOMAIN wire = 1..Len(wire) /\ wire \in Seq(Tokens)
      /\ DOMAIN wire' = 1..Len(wire') /\ Len(wire') = Len(wire) - d
      /\ \A i \in 1..Len(wire') : wire'[i] = wire[i + d]
  <2>1. DOMAIN wire' = 1..Len(wire')
    OBVIOUS
  <2> QED BY <2>1, Dollars DEF Shifted
<1>2. /\ e \in 1..(Len(packets) + 1) /\ o \in 1..Length /\ Numbered(e) /\ Inner(Length - o)
      /\ e - 1 \in DOMAIN packets /\ PacketFrom(1, e - 1, o)
  BY DEF Place, Within
<1>3. \A j \in o..(Length - 1) : 1 + (j - o) \in DOMAIN wire /\ wire[1 + (j - o)] = PieceOf(e - 1, j)
  BY <1>2 DEF PacketFrom
<1>4. ASSUME NEW i \in 1..(Length - o) PROVE i \in DOMAIN wire /\ wire[i] = PieceOf(e - 1, o + i - 1)
  <2>1. o + i - 1 \in o..(Length - 1) /\ 1 + ((o + i - 1) - o) = i
    BY <1>1
  <2> QED BY <1>3, <2>1
<1>5. \A i \in 1..d : i \in 1..(Length - o)
  BY <1>1
<1>6. ASSUME NEW i \in 1..d PROVE ~DollarAt(i)
  <2>1. wire[i] = PieceOf(e - 1, o + i - 1) /\ o + i - 1 # 0
    BY <1>1, <1>2, <1>4, <1>5
  <2> QED BY <2>1 DEF PieceOf, Token, DollarAt
<1>7. Numbered(e)'
  <2>1. \A i \in DOMAIN wire : DollarAt(i) => IF i > d THEN Number(i) >= e ELSE Number(i) < e
    <3>1. \A i \in DOMAIN wire : DollarAt(i) => i > d
      BY <1>1, <1>6
    <3> QED BY <1>2, <3>1 DEF Numbered
  <2>2. e \in e..(e + 1)
    OBVIOUS
  <2> QED BY <1>2, <2>1, <2>2, NumberedShifts
<1>8. Inner(Length - (o + d))'
  <2>1. PICK r \in Nat : r = Length - o
    BY <1>1, <1>2
  <2>2. PICK s \in Nat : s = Length - (o + d)
    BY <1>1, <1>2
  <2>3. r = s + d /\ d \in 0..Len(wire) /\ Inner(r)
    BY <1>1, <1>2, <2>1, <2>2
  <2>4. \A k \in DOMAIN wire : k > r /\ k <= s + d /\ DollarAt(k) => k + Length <= s + d + 1
    BY <1>1, <2>3
  <2>5. Inner(s)'
    BY <1>1, <2>3, <2>4, InnerShifts
  <2> QED BY <2>2, <2>5
<1>9. PacketFrom(1, e - 1, o + d)'
  <2>1. \A j : PieceOf(e - 1, j)' = PieceOf(e - 1, j)
    BY DEF PieceOf, Token
  <2>2. ASSUME NEW j \in (o + d)..(Length - 1)
        PROVE  1 + (j - (o + d)) \in DOMAIN wire' /\ wire'[1 + (j - (o + d))] = PieceOf(e - 1, j)
    <3>1. j \in o..(Length - 1) /\ (1 + (j - (o + d))) + d = 1 + (j - o) /\ 1 + (j - (o + d)) >= 1
      <4>1. Length \in Nat /\ o \in Nat /\ d \in Nat /\ j \in (o + d)..(Length - 1)
        BY <1>1
      <4> QED BY ONLY <4>1
    <3>2. 1 + (j - o) \in 1..Len(wire) /\ wire[1 + (j - o)] = PieceOf(e - 1, j)
      BY <1>1, <1>3, <3>1
    <3>3. 1 + (j - (o + d)) \in 1..Len(wire')
      BY <1>1, <3>1, <3>2
    <3> QED BY <1>1, <3>1, <3>2, <3>3
  <2> QED BY <2>1, <2>2 DEF PacketFrom
<1>10. o + d \in 1..Length
  BY <1>1, <1>2
<1> QED BY <1>2, <1>4, <1>5, <1>7, <1>8, <1>9, <1>10

\* The beginning of a packet, or all of it, is read.
LEMMA PacketReads ==
  ASSUME Typed, DollarsWhole, NEW e \in Nat, Numbered(e), Inner(0), 1 \in DOMAIN wire, DollarAt(1),
         NEW d \in {1, Length}, Shifted(d), wire' \in Seq(Tokens), packets' = packets
  PROVE  /\ e \in DOMAIN packets /\ Numbered(e + 1)' /\ Inner(Length - d)' /\ PacketFrom(1, e, d)'
<1>1. /\ Length \in Nat /\ Length > 3 /\ Len(wire) \in Nat /\ DOMAIN wire = 1..Len(wire) /\ wire \in Seq(Tokens)
      /\ DOMAIN wire' = 1..Len(wire') /\ Len(wire') = Len(wire) - d
      /\ \A i \in 1..Len(wire') : wire'[i] = wire[i + d]
  <2>1. DOMAIN wire' = 1..Len(wire')
    OBVIOUS
  <2> QED BY <2>1, Dollars DEF Shifted
<1>2. /\ Number(1) = e /\ e \in DOMAIN packets /\ At(1, e)
      /\ \A i \in DOMAIN wire : DollarAt(i) /\ i > 1 => Number(i) >= e + 1
      /\ Length \in 1..Len(wire)
  BY FirstNumber
<1>3. d \in 1..Len(wire)
  BY <1>1, <1>2
<1>4. \A k \in 2..Length : ~DollarAt(k)
  <2>1. \A k \in (1 + 1)..(1 + Length - 1) : ~DollarAt(k)
    BY <1>1, Dollars
  <2> TAKE k \in 2..Length
  <2>2. k \in (1 + 1)..(1 + Length - 1)
    BY ONLY <1>1, k \in 2..Length
  <2> QED BY <2>1, <2>2
<1>5. \A k \in DOMAIN wire : DollarAt(k) => k = 1 \/ k > Length
  <2> TAKE k \in DOMAIN wire
  <2>1. k \in Nat /\ k >= 1 /\ Length \in Nat
    BY <1>1
  <2>2. k = 1 \/ k > Length \/ k \in 2..Length
    BY ONLY <2>1
  <2> QED BY <1>4, <2>2
<1>6. Numbered(e + 1)'
  <2>1. PICK f \in e..(e + 1) : f = e + 1
    OBVIOUS
  <2>2. \A i \in DOMAIN wire : DollarAt(i) => IF i > d THEN Number(i) >= f ELSE Number(i) < f
    <3> SUFFICES ASSUME NEW i \in DOMAIN wire, DollarAt(i)
                 PROVE  IF i > d THEN Number(i) >= f ELSE Number(i) < f
      OBVIOUS
    <3>1. CASE i = 1
      BY <1>1, <1>2, <2>1, <3>1
    <3>2. CASE i > Length
      BY <1>1, <1>2, <2>1, <3>2
    <3> QED BY <1>5, <3>1, <3>2
  <2>3. Numbered(f)'
    BY <1>3, <2>2, NumberedShifts
  <2> QED BY <2>1, <2>3
<1>7. Inner(Length - d)'
  <2>1. PICK s \in Nat : s = Length - d
    BY <1>1
  <2>2. 0 <= s + d /\ s + d = Length /\ 0 \in Nat /\ d \in 0..Len(wire)
    BY <1>1, <1>3, <2>1
  <2>3. \A k \in DOMAIN wire : k > 0 /\ k <= s + d /\ DollarAt(k) => k + Length <= s + d + 1
    BY <1>1, <1>5, <2>2
  <2>4. Inner(s)'
    BY <1>1, <2>2, <2>3, InnerShifts
  <2> QED BY <2>1, <2>4
<1>8. PacketFrom(1, e, d)'
  <2>1. \A j : PieceOf(e, j)' = PieceOf(e, j)
    BY DEF PieceOf, Token
  <2>2. ASSUME NEW j \in d..(Length - 1)
        PROVE  1 + (j - d) \in DOMAIN wire' /\ wire'[1 + (j - d)] = PieceOf(e, j)
    <3>1. 1 + (j - 0) \in DOMAIN wire /\ wire[1 + (j - 0)] = PieceOf(e, j)
      <4>1. j \in 0..(Length - 1)
        BY <1>1
      <4> QED BY <1>2, <4>1 DEF At, PacketFrom
    <3>2. 1 + (j - d) \in 1..Len(wire') /\ (1 + (j - d)) + d = 1 + (j - 0)
      BY <1>1, <1>3, <3>1
    <3> QED BY <1>1, <3>1, <3>2
  <2> QED BY <2>1, <2>2 DEF PacketFrom
<1> QED BY <1>2, <1>6, <1>7, <1>8

\* An answer at the front is read.
LEMMA AnswerReads ==
  ASSUME Typed, DollarsWhole, NEW e \in Nat, Numbered(e), Inner(0), 1 \in DOMAIN wire, AnswerAt(1),
         Shifted(1), wire' \in Seq(Tokens), packets' = packets
  PROVE  Numbered(e)' /\ Inner(0)'
<1>1. wire \in Seq(Tokens) /\ 1 \in 1..Len(wire) /\ 1 \in 0..Len(wire) /\ ~DollarAt(1)
  BY Dollars DEF DollarAt, AnswerAt
<1>2. \A i \in DOMAIN wire : DollarAt(i) => i > 1
  BY <1>1, Dollars
<1>3. Numbered(e)'
  <2>1. PICK f \in e..(e + 1) : f = e
    OBVIOUS
  <2>2. \A i \in DOMAIN wire : DollarAt(i) => IF i > 1 THEN Number(i) >= f ELSE Number(i) < f
    BY <1>2, <2>1 DEF Numbered
  <2>3. Numbered(f)'
    BY <1>1, <2>2, NumberedShifts
  <2> QED BY <2>1, <2>3
<1>4. Inner(0)'
  <2>1. PICK s \in Nat : s = 0
    OBVIOUS
  <2>2. Inner(s) /\ s <= s + 1
    BY <2>1
  <2>3. \A k \in DOMAIN wire : k > s /\ k <= s + 1 /\ DollarAt(k) => k + Length <= s + 1 + 1
    BY <1>2, <2>1
  <2>4. Inner(s)'
    BY <1>1, <2>2, <2>3, InnerShifts
  <2> QED BY <2>1, <2>4
<1> QED BY <1>3, <1>4

\* The first of the wire is a dollar or an answer when nothing of a packet is read.
LEMMA FrontIsClear ==
  ASSUME Inner(0), 1 \in DOMAIN wire
  PROVE  AnswerAt(1) \/ DollarAt(1)
  BY DEF Inner

\* Nothing changes, or the call goes on while nothing is read.
LEMMA FrameKept ==
  ASSUME Framed, UNCHANGED <<wire, packets, delivered>>,
         \/ UNCHANGED <<running, fTCPReadingState, fRtpBuffer, fNextTCPSource, fTCPReadSize, channelId>>
         \/ ~running /\ (~running' \/ fTCPReadingState' = "dollar")
  PROVE  Framed'
<1>1. PICK e \in Nat, o \in Nat : Place(e, o)
  BY DEF Framed
<1>2. CASE UNCHANGED <<running, fTCPReadingState, fRtpBuffer, fNextTCPSource, fTCPReadSize, channelId>>
  <2>1. /\ e \in 1..(Len(packets') + 1) /\ o \in 1..Length /\ o = Offset'
        /\ running' /\ fTCPReadingState' # "dollar" => o < Length
    BY <1>1, <1>2 DEF Place, Offset
  <2>2. Numbered(e)'
    BY <1>1 DEF Place, Numbered, DollarAt, Number
  <2>3. Within(e, o)'
    BY <1>1, <1>2 DEF Place, Within, Inner, DollarAt, AnswerAt, PacketFrom, PieceOf, OwnChannels, LastNumber
  <2>4. Place(e, o)'
    BY <2>1, <2>2, <2>3 DEF Place
  <2> QED BY <2>4 DEF Framed
<1>3. CASE ~running /\ (~running' \/ fTCPReadingState' = "dollar")
  <2>1. e \in 1..(Len(packets) + 1) /\ Numbered(e) /\ Inner(0) /\ (delivered # <<>> => LastNumber = e - 1)
    BY <1>1, <1>3, PlaceIsClear
  <2>2. Numbered(e)' /\ Inner(0)' /\ (delivered' # <<>> => LastNumber' = e - 1) /\ e \in 1..(Len(packets') + 1)
    BY <2>1 DEF Numbered, Inner, DollarAt, AnswerAt, Number, LastNumber
  <2> QED BY <1>3, <2>2, ClearIsPlace DEF Framed
<1> QED BY <1>2, <1>3

LEMMA FrameAnswered ==
  ASSUME Typed, DollarsWhole, Framed, ~running \/ fTCPReadingState = "dollar",
         1 \in DOMAIN wire, AnswerAt(1), Shifted(1), wire' \in Seq(Tokens),
         UNCHANGED <<packets, delivered>>, ~running' \/ fTCPReadingState' = "dollar"
  PROVE  Framed'
<1>1. PICK e \in Nat, o \in Nat : Place(e, o)
  BY DEF Framed
<1>2. e \in 1..(Len(packets) + 1) /\ Numbered(e) /\ Inner(0) /\ (delivered # <<>> => LastNumber = e - 1)
  BY <1>1, PlaceIsClear
<1>3. Numbered(e)' /\ Inner(0)'
  BY <1>2, AnswerReads
<1>4. (delivered' # <<>> => LastNumber' = e - 1) /\ e \in 1..(Len(packets') + 1)
  BY <1>2 DEF LastNumber
<1> QED BY <1>3, <1>4, ClearIsPlace DEF Framed

LEMMA FrameDiscarded ==
  ASSUME Typed, DollarsWhole, Framed, ~running, ~running', delivered = <<>>, DiscardPacket
  PROVE  Framed'
<1> USE DEF historyVars, serverVars
<1>1. PICK e \in Nat, o \in Nat : Place(e, o)
  BY DEF Framed
<1>2. e \in 1..(Len(packets) + 1) /\ Numbered(e) /\ Inner(0)
  BY <1>1, PlaceIsClear
<1>3. 1 \in DOMAIN wire /\ DollarAt(1) /\ Shifted(Length) /\ wire' \in Seq(Tokens) /\ packets' = packets /\ delivered' = <<>>
  BY DiscardShifts DEF Typed, WireType, DiscardPacket
<1>4. PICK d \in {1, Length} : d = Length
  OBVIOUS
<1>5. e \in DOMAIN packets /\ Numbered(e + 1)' /\ Inner(Length - d)'
  BY <1>2, <1>3, <1>4, PacketReads
<1>6. Length - d = 0
  BY <1>4, ConstantsAssumption DEF Length
<1>7. Inner(0)'
  BY <1>5, <1>6 DEF Inner, DollarAt, AnswerAt
<1>8. PICK f \in Nat : f = e + 1
  OBVIOUS
<1>9. Numbered(f)'
  BY <1>5, <1>8
<1>10. f \in 1..(Len(packets') + 1)
  BY <1>3, <1>5, <1>8, Dollars
<1> QED BY <1>3, <1>7, <1>9, <1>10, ClearIsPlace DEF Framed

\* The dollar of the next packet is read.
LEMMA FrameDollar ==
  ASSUME Typed, DollarsWhole, Framed, running, ReadDollar
  PROVE  Framed'
<1> USE DEF ReadUnchanged, serverVars
<1>1. PICK e \in Nat, o \in Nat : Place(e, o)
  BY DEF Framed
<1>2. /\ e \in 1..(Len(packets) + 1) /\ Numbered(e) /\ Inner(0)
      /\ delivered # <<>> => LastNumber = e - 1
  BY <1>1, PlaceIsClear DEF ReadDollar, Reads
<1>3. /\ wire # <<>> /\ wire' = Tail(wire) /\ Head(wire).is = "dollar"
      /\ running' = running /\ fTCPReadingState' = "channel" /\ packets' = packets /\ delivered' = delivered
  BY DEF ReadDollar, Reads
<1>4. 1 \in DOMAIN wire /\ DollarAt(1) /\ Shifted(1) /\ wire' \in Seq(Tokens)
  BY <1>3, TailShifts, Dollars DEF DollarAt
<1>5. e \in DOMAIN packets /\ Numbered(e + 1)' /\ Inner(Length - 1)' /\ PacketFrom(1, e, 1)'
  BY <1>2, <1>3, <1>4, PacketReads
<1>6. PICK f \in Nat : f = e + 1
  OBVIOUS
<1>7. Numbered(f)' /\ f - 1 = e /\ f - 2 = e - 1
  BY <1>5, <1>6
<1>8. f \in 1..(Len(packets') + 1) /\ 1 \in 1..Length /\ 1 < Length /\ 1 \notin 2..(Length - 1) /\ 1 \notin 3..(Length - 1)
  BY <1>3, <1>5, <1>6, Dollars
<1>9. 1 = Offset'
  BY <1>3 DEF Offset
<1>10. PacketFrom(1, f - 1, 1)'
  BY <1>5, <1>7 DEF PacketFrom, PieceOf
<1>11. delivered' # <<>> => LastNumber' = f - 2
  BY <1>2, <1>3, <1>7 DEF LastNumber
<1>12. Within(f, 1)'
  BY <1>3, <1>5, <1>7, <1>8, <1>10, <1>11 DEF Within
<1>13. Place(f, 1)'
  BY <1>7, <1>8, <1>9, <1>12 DEF Place
<1> QED BY <1>13 DEF Framed

\* The channel names the track of the packet, when every track has its own.
LEMMA FrameChannel ==
  ASSUME Typed, DollarsWhole, Framed, running, ReadChannel, ~misused', ~lost'
  PROVE  Framed'
<1> USE DEF ReadUnchanged, serverVars, clientVars
<1>1. PICK e \in Nat, o \in Nat : Place(e, o)
  BY DEF Framed
<1>2. /\ wire # <<>> /\ wire' = Tail(wire) /\ fTCPReadingState = "channel"
      /\ running' = running /\ packets' = packets /\ delivered' = delivered /\ channelId' = channelId
      /\ HasChannel(Head(wire).n) # {} /\ fTCPReadingState' = "size"
      /\ fNextTCPSource' = CHOOSE t \in HasChannel(Head(wire).n) : \A u \in HasChannel(Head(wire).n) : t <= u
  BY DEF ReadChannel, Reads
<1>3. Length \in Nat /\ Length > 3 /\ DOMAIN wire = 1..Len(wire) /\ packets \in Seq(Tracks)
  BY Dollars
<1>4. o = 1
  BY <1>1, <1>2 DEF Place, Offset
<1>5. 1 \in 1..Len(wire) /\ Head(wire) = wire[1] /\ Shifted(1) /\ wire' \in Seq(Tokens)
  BY <1>2, TailShifts DEF Typed, WireType
<1>6. /\ e \in 1..(Len(packets') + 1) /\ o + 1 \in 1..Length
      /\ Numbered(e)' /\ Inner(Length - (o + 1))' /\ PacketFrom(1, e - 1, o + 1)'
      /\ e - 1 \in DOMAIN packets
      /\ \A i \in 1..1 : wire[i] = PieceOf(e - 1, o + i - 1)
  BY <1>1, <1>2, <1>3, <1>4, <1>5, HeadReads
<1>7. Head(wire).n = packets[e - 1] - 1
  <2>1. wire[1] = PieceOf(e - 1, 1)
    BY <1>4, <1>6
  <2> QED BY <1>5, <2>1 DEF PieceOf, Token
<1>8. ASSUME OwnChannels PROVE fNextTCPSource' = packets[e - 1]
  <2>1. PICK p : p = packets[e - 1]
    OBVIOUS
  <2>2. p \in Tracks
    BY <1>3, <1>6, <2>1
  <2>3. Tracks \subseteq Int
    BY DEF Tracks
  <2>4. PICK c : c = Head(wire).n
    OBVIOUS
  <2>5. \A t \in Tracks : channelId[t] = c <=> t = p
    BY <1>7, <1>8, <2>1, <2>2, <2>3, <2>4 DEF OwnChannels
  <2>6. HasChannel(c) = {p}
    BY <2>2, <2>5 DEF HasChannel
  <2>7. (CHOOSE t \in {p} : \A u \in {p} : t <= u) = p
    BY <2>2, <2>3
  <2> QED BY <1>2, <2>1, <2>4, <2>6, <2>7
<1>9. o + 1 = 2 /\ 2 = Offset' /\ 2 < Length /\ 2 \in 2..(Length - 1) /\ 2 \notin 3..(Length - 1) /\ 2 \in 1..Length
  BY <1>2, <1>3, <1>4 DEF Offset
<1>10. Inner(Length - 2)' /\ PacketFrom(1, e - 1, 2)'
  BY <1>6, <1>9
<1>11. delivered' # <<>> => LastNumber' = e - 2
  <2>1. o < Length
    BY <1>3, <1>4
  <2> QED BY <1>1, <1>2, <2>1 DEF Place, Within, LastNumber
<1>12. OwnChannels' => fNextTCPSource' = packets'[e - 1]
  BY <1>2, <1>8 DEF OwnChannels
<1>13. Within(e, 2)'
  BY <1>2, <1>6, <1>9, <1>10, <1>11, <1>12 DEF Within
<1>14. Place(e, 2)'
  BY <1>6, <1>9, <1>13 DEF Place
<1> QED BY <1>14 DEF Framed

LEMMA FrameSize ==
  ASSUME Typed, DollarsWhole, Framed, running, ReadSize
  PROVE  Framed'
<1> USE DEF ReadUnchanged, serverVars, clientVars
<1>1. PICK e \in Nat, o \in Nat : Place(e, o)
  BY DEF Framed
<1>2. /\ wire # <<>> /\ wire' = Tail(wire) /\ fTCPReadingState = "size"
      /\ running' = running /\ packets' = packets /\ delivered' = delivered /\ channelId' = channelId
      /\ fTCPReadingState' = "data" /\ fRtpBuffer' = <<>> /\ fTCPReadSize' = Head(wire).n
      /\ fNextTCPSource' = fNextTCPSource
  BY DEF ReadSize, Reads
<1>3. Length \in Nat /\ Length > 3 /\ DOMAIN wire = 1..Len(wire) /\ packets \in Seq(Tracks)
  BY Dollars
<1>4. o = 2
  BY <1>1, <1>2 DEF Place, Offset
<1>5. 1 \in 1..Len(wire) /\ Head(wire) = wire[1] /\ Shifted(1) /\ wire' \in Seq(Tokens)
  BY <1>2, TailShifts DEF Typed, WireType
<1>6. /\ e \in 1..(Len(packets') + 1) /\ o + 1 \in 1..Length
      /\ Numbered(e)' /\ Inner(Length - (o + 1))' /\ PacketFrom(1, e - 1, o + 1)'
      /\ e - 1 \in DOMAIN packets
      /\ \A i \in 1..1 : wire[i] = PieceOf(e - 1, o + i - 1)
  BY <1>1, <1>2, <1>3, <1>4, <1>5, HeadReads
<1>7. Head(wire).n = PacketSize
  <2>1. wire[1] = PieceOf(e - 1, 2)
    BY <1>4, <1>6
  <2> QED BY <1>5, <2>1 DEF PieceOf, Token
<1>8. o < Length /\ o \in 2..(Length - 1)
  BY <1>3, <1>4
<1>9. /\ o + 1 = 3 /\ 3 = Offset' /\ 3 < Length /\ 3 \in 1..Length
  BY <1>2, <1>3, <1>4 DEF Offset
<1>10. Inner(Length - 3)' /\ PacketFrom(1, e - 1, 3)'
  BY <1>6, <1>9
<1>11. delivered' # <<>> => LastNumber' = e - 2
  BY <1>1, <1>2, <1>8 DEF Place, Within, LastNumber
<1>12. OwnChannels' => fNextTCPSource' = packets'[e - 1]
  BY <1>1, <1>2, <1>8 DEF Place, Within, OwnChannels
<1>13. Within(e, 3)'
  BY <1>2, <1>6, <1>7, <1>9, <1>10, <1>11, <1>12 DEF Within
<1>14. Place(e, 3)'
  BY <1>6, <1>9, <1>13 DEF Place
<1> QED BY <1>14 DEF Framed

\* The data of the packet is read, up to its end or not.
Buffer(k) == fRtpBuffer \o [i \in 1..k |-> wire[i].n]

LEMMA DataReads ==
  ASSUME Typed, DollarsWhole, NEW e \in Nat, NEW o \in Nat, Place(e, o), running,
         NEW k \in 1..PacketSize, readRTPOverTCP(k)
  PROVE  /\ o \in 3..(Length - 1) /\ o = 3 + Len(fRtpBuffer) /\ fTCPReadSize = PacketSize
         /\ o + k \in 1..Length /\ k \in 1..Len(wire) /\ Shifted(k) /\ wire' \in Seq(Tokens)
         /\ Buffer(k) \in Seq(Int) /\ Len(Buffer(k)) = Len(fRtpBuffer) + k
         /\ \A i \in 1..Len(Buffer(k)) : Buffer(k)[i] = e - 1
         /\ packets' = packets /\ running' = running
         /\ e \in 1..(Len(packets') + 1) /\ Numbered(e)' /\ e - 1 \in DOMAIN packets
         /\ Inner(Length - (o + k))' /\ PacketFrom(1, e - 1, o + k)'
<1>1. /\ packets' = packets /\ running' = running /\ fTCPReadingState = "data"
      /\ k <= fTCPReadSize - Len(fRtpBuffer)
  BY DEF readRTPOverTCP, Reads, serverVars, Remaining
<1>2. /\ wire \in Seq(Tokens) /\ DOMAIN wire = 1..Len(wire) /\ Len(wire) \in Nat
      /\ Length = 3 + PacketSize /\ PacketSize \in Nat
      /\ fRtpBuffer \in Seq(Int) /\ Len(fRtpBuffer) \in Nat /\ DOMAIN fRtpBuffer = 1..Len(fRtpBuffer)
      /\ k \in Nat
  BY ConstantsAssumption, Dollars DEF Length, Typed, ReadType
<1>3. o = 3 + Len(fRtpBuffer) /\ o < Length
  BY <1>1 DEF Place, Offset
<1>4. o \in 3..(Length - 1)
  BY <1>2, <1>3
<1>5. fTCPReadSize = PacketSize /\ \A i \in DOMAIN fRtpBuffer : fRtpBuffer[i] = e - 1
  BY <1>4 DEF Place, Within
<1>6. o + k \in 1..Length /\ o + k <= Length
  BY <1>1, <1>2, <1>3, <1>5
<1>7. k \in 1..Len(wire) /\ Shifted(k) /\ wire' \in Seq(Tokens)
  BY <1>2, DataShifts
<1>8. /\ e \in 1..(Len(packets') + 1)
      /\ Numbered(e)' /\ Inner(Length - (o + k))' /\ PacketFrom(1, e - 1, o + k)'
      /\ e - 1 \in DOMAIN packets
      /\ \A i \in 1..k : wire[i] = PieceOf(e - 1, o + i - 1)
  BY <1>1, <1>3, <1>6, <1>7, HeadReads
<1>9. ASSUME NEW i \in 1..k PROVE wire[i].n = e - 1
  <2>1. o + i - 1 \notin {0, 1, 2}
    BY <1>2, <1>4
  <2> QED BY <1>8, <2>1 DEF PieceOf, Token
<1>10. PICK data : data = [i \in 1..k |-> wire[i].n]
  OBVIOUS
<1>11. e - 1 \in Int
  OBVIOUS
<1>12. data \in Seq(Int) /\ Len(data) = k /\ \A i \in 1..k : data[i] = e - 1
  BY <1>2, <1>9, <1>10, <1>11
<1>13. /\ fRtpBuffer \o data \in Seq(Int) /\ Len(fRtpBuffer \o data) = Len(fRtpBuffer) + Len(data)
       /\ \A i \in 1..Len(fRtpBuffer) : (fRtpBuffer \o data)[i] = fRtpBuffer[i]
       /\ \A i \in 1..Len(data) : (fRtpBuffer \o data)[Len(fRtpBuffer) + i] = data[i]
  <2>1. fRtpBuffer \in Seq(Int) /\ data \in Seq(Int)
    BY <1>2, <1>12
  <2> QED BY ONLY <2>1
<1>14. PICK b : b = fRtpBuffer \o data
  OBVIOUS
<1>15. ASSUME NEW i \in 1..Len(b) PROVE b[i] = e - 1
  <2>1. CASE i \in 1..Len(fRtpBuffer)
    BY <1>2, <1>5, <1>13, <1>14, <2>1
  <2>2. CASE i - Len(fRtpBuffer) \in 1..k
    <3>1. PICK j \in 1..k : i = Len(fRtpBuffer) + j
      BY <1>2, <2>2
    <3> QED BY <1>12, <1>13, <1>14, <3>1
  <2>3. i \in 1..Len(fRtpBuffer) \/ i - Len(fRtpBuffer) \in 1..k
    BY <1>2, <1>12, <1>13, <1>14
  <2> QED BY <2>1, <2>2, <2>3
<1>16. Buffer(k) = b
  BY <1>10, <1>14 DEF Buffer
<1>17. /\ Buffer(k) \in Seq(Int) /\ Len(Buffer(k)) = Len(fRtpBuffer) + k
       /\ \A i \in 1..Len(Buffer(k)) : Buffer(k)[i] = e - 1
  BY <1>12, <1>13, <1>14, <1>15, <1>16
<1> QED BY <1>1, <1>3, <1>4, <1>5, <1>6, <1>7, <1>8, <1>17

\* What a packet that is complete adds to those that were handed over.
LEMMA Completes ==
  ASSUME Typed, NEW k \in 1..PacketSize, readRTPOverTCP(k), Len(Buffer(k)) = fTCPReadSize, Buffer(k) \in Seq(Int),
         NEW n \in Nat, n = Len(delivered) + 1
  PROVE  /\ fTCPReadingState' = "dollar" /\ fRtpBuffer' = <<>>
         /\ delivered' # <<>> /\ Len(delivered') = n /\ DOMAIN delivered' = 1..n
         /\ \A i \in 1..(n - 1) : i \in DOMAIN delivered /\ delivered'[i] = delivered[i]
         /\ delivered'[n].pieces = Buffer(k) /\ delivered'[n].source = fNextTCPSource
<1>1. PICK p : p = [pieces |-> Buffer(k), source |-> fNextTCPSource]
  OBVIOUS
<1>2. delivered \in Seq(Deliveries) /\ p \in Deliveries
  BY <1>1 DEF Typed, ReadType, Deliveries
<1>3. fTCPReadingState' = "dollar" /\ fRtpBuffer' = <<>> /\ delivered' = Append(delivered, p)
  BY <1>1 DEF readRTPOverTCP, Buffer
<1>4. /\ Len(delivered') = n /\ DOMAIN delivered' = 1..n /\ delivered'[n] = p /\ Len(delivered) \in Nat
      /\ \A i \in 1..(n - 1) : i \in DOMAIN delivered /\ delivered'[i] = delivered[i]
  BY <1>2, <1>3
<1>5. delivered' # <<>>
  BY <1>2, <1>3, NotEmpty
<1> QED BY <1>1, <1>3, <1>4, <1>5

LEMMA FrameData ==
  ASSUME Typed, DollarsWhole, Framed, running, NEW k \in 1..PacketSize, readRTPOverTCP(k)
  PROVE  Framed'
<1>1. PICK e \in Nat, o \in Nat : Place(e, o)
  BY DEF Framed
<1>2. /\ o \in 3..(Length - 1) /\ o = 3 + Len(fRtpBuffer) /\ fTCPReadSize = PacketSize
      /\ o + k \in 1..Length
      /\ Buffer(k) \in Seq(Int) /\ Len(Buffer(k)) = Len(fRtpBuffer) + k
      /\ \A i \in 1..Len(Buffer(k)) : Buffer(k)[i] = e - 1
      /\ packets' = packets /\ running' = running
      /\ e \in 1..(Len(packets') + 1) /\ Numbered(e)' /\ e - 1 \in DOMAIN packets
      /\ Inner(Length - (o + k))' /\ PacketFrom(1, e - 1, o + k)'
  BY <1>1, DataReads
<1>3. Length = 3 + PacketSize /\ PacketSize \in Nat /\ PacketSize >= 1 /\ Len(fRtpBuffer) \in Nat /\ k \in Nat
  BY ConstantsAssumption DEF Length, Typed, ReadType
<1>4. CASE Len(Buffer(k)) = fTCPReadSize
  <2>1. PICK n \in Nat : n = Len(delivered) + 1
    BY DEF Typed, ReadType
  <2>2. /\ fTCPReadingState' = "dollar" /\ Len(delivered') = n /\ delivered'[n].pieces = Buffer(k)
    BY <1>2, <1>4, <2>1, Completes
  <2>3. LastNumber' = e - 1
    <3>1. 1 \in 1..Len(Buffer(k))
      BY <1>2, <1>3
    <3> QED BY <1>2, <2>2, <3>1 DEF LastNumber
  <2>4. Length - (o + k) = 0
    <3>1. Len(fRtpBuffer) + k = PacketSize /\ o = 3 + Len(fRtpBuffer)
      BY <1>2, <1>4
    <3> QED BY ONLY <1>3, <3>1
  <2>5. Inner(0)'
    BY <1>2, <2>4 DEF Inner, DollarAt, AnswerAt
  <2> QED BY <1>2, <2>2, <2>3, <2>5, ClearIsPlace DEF Framed
<1>5. CASE Len(Buffer(k)) # fTCPReadSize
  <2>1. /\ fRtpBuffer' = Buffer(k) /\ fTCPReadingState' = "data" /\ delivered' = delivered
        /\ fNextTCPSource' = fNextTCPSource /\ channelId' = channelId /\ fTCPReadSize' = fTCPReadSize
    BY <1>5 DEF readRTPOverTCP, Buffer, Reads
  <2>2. PICK q \in Nat : q = o + k
    BY <1>2, <1>3
  <2>3. q \in 3..(Length - 1) /\ q < Length /\ q \in 1..Length /\ q \in 2..(Length - 1)
    <3>1. Len(fRtpBuffer) + k # PacketSize /\ o = 3 + Len(fRtpBuffer) /\ o + k \in 1..Length
      BY <1>2, <1>5
    <3> QED BY ONLY <1>3, <2>2, <3>1
  <2>4. running
    OBVIOUS
  <2>5. q = Offset'
    BY <1>2, <1>3, <2>1, <2>2 DEF Offset
  <2>6. Inner(Length - q)' /\ PacketFrom(1, e - 1, q)'
    BY <1>2, <2>2
  <2>7. o < Length /\ o \in 2..(Length - 1)
    <3>1. o \in 3..(Length - 1)
      BY <1>2
    <3> QED BY ONLY <1>3, <3>1
  <2>8. delivered' # <<>> => LastNumber' = e - 2
    BY <1>1, <2>1, <2>7 DEF Place, Within, LastNumber
  <2>9. OwnChannels' => fNextTCPSource' = packets'[e - 1]
    <3> SUFFICES ASSUME OwnChannels' PROVE fNextTCPSource' = packets'[e - 1]
      OBVIOUS
    <3>1. OwnChannels
      BY <2>1 DEF OwnChannels
    <3>2. fNextTCPSource = packets[e - 1]
      BY <1>1, <2>7, <3>1 DEF Place, Within
    <3> QED BY <1>2, <2>1, <3>2
  <2>10. \A i \in DOMAIN fRtpBuffer' : fRtpBuffer'[i] = e - 1
    <3>1. DOMAIN Buffer(k) = 1..Len(Buffer(k))
      BY <1>2
    <3> QED BY <1>2, <2>1, <3>1
  <2>11. Within(e, q)'
    BY <1>2, <2>1, <2>3, <2>6, <2>8, <2>9, <2>10 DEF Within
  <2>12. Place(e, q)'
    BY <1>2, <2>3, <2>5, <2>11 DEF Place
  <2> QED BY <2>12 DEF Framed
<1> QED BY <1>4, <1>5

\* The server adds behind what is read.
LEMMA FrameAdds ==
  ASSUME Typed, DollarsWhole, Framed, Longer,
         UNCHANGED <<running, fTCPReadingState, fRtpBuffer, fNextTCPSource, fTCPReadSize, channelId, delivered>>,
         packets' = packets \/ Len(packets') = Len(packets) + 1,
         \A e \in 1..(Len(packets) + 1) : Numbered(e) => Numbered(e)',
         \A r \in 0..Len(wire) : Inner(r) => Inner(r)'
  PROVE  Framed'
<1>1. PICK e \in Nat, o \in Nat : Place(e, o)
  BY DEF Framed
<1>2. /\ Length \in Nat /\ Length > 3 /\ Len(wire) \in Nat /\ DOMAIN wire = 1..Len(wire)
      /\ Len(packets) \in Nat /\ DOMAIN packets = 1..Len(packets)
  BY Dollars
<1>3. /\ e \in 1..(Len(packets') + 1) /\ o \in 1..Length /\ o = Offset'
      /\ running' /\ fTCPReadingState' # "dollar" => o < Length
  <2>1. e \in 1..(Len(packets') + 1)
    BY <1>1, <1>2 DEF Place
  <2>2. /\ o \in 1..Length /\ o = Offset'
        /\ running' /\ fTCPReadingState' # "dollar" => o < Length
    BY <1>1 DEF Place, Offset
  <2> QED BY <2>1, <2>2
<1>4. Numbered(e)'
  BY <1>1 DEF Place
<1>5. Length - o \in 0..Len(wire)
  <2>1. CASE o < Length
    <3>1. PacketFrom(1, e - 1, o) /\ Length - 1 \in o..(Length - 1)
      BY <1>1, <1>2, <1>3, <2>1 DEF Place, Within
    <3>2. 1 + ((Length - 1) - o) \in 1..Len(wire)
      BY <1>2, <3>1 DEF PacketFrom
    <3>3. Length \in Nat /\ Len(wire) \in Nat /\ o \in 1..Length
      BY <1>2, <1>3
    <3> QED BY ONLY <3>2, <3>3
  <2>2. CASE o = Length
    BY <1>2, <2>2
  <2>3. o < Length \/ o = Length
    <3>1. Length \in Nat /\ o \in 1..Length
      BY <1>2, <1>3
    <3> QED BY ONLY <3>1
  <2> QED BY <2>1, <2>2, <2>3
<1>6. PICK r \in 0..Len(wire) : r = Length - o
  BY <1>5
<1>7. Inner(r)'
  BY <1>1, <1>6 DEF Place, Within
<1>8. ASSUME o < Length
      PROVE  /\ e - 1 \in DOMAIN packets' /\ PacketFrom(1, e - 1, o)'
             /\ packets'[e - 1] = packets[e - 1]
  <2>1. PICK m : m = e - 1
    OBVIOUS
  <2>2. m \in DOMAIN packets /\ PacketFrom(1, m, o)
    BY <1>1, <1>8, <2>1 DEF Place, Within
  <2>3. PacketFrom(1, m, o)'
    BY <2>2, FromStays
  <2> QED BY <2>1, <2>2, <2>3 DEF Longer
<1>9. o \in 2..(Length - 1) \/ o \in 3..(Length - 1) => o < Length
  BY <1>2
<1>10. Within(e, o)'
  <2>1. Inner(Length - o)'
    BY <1>6, <1>7
  <2>2. o \in 2..(Length - 1) /\ OwnChannels' => fNextTCPSource' = packets'[e - 1]
    BY <1>1, <1>8, <1>9 DEF Place, Within, OwnChannels
  <2>3. o \in 3..(Length - 1) =>
          fTCPReadSize' = PacketSize /\ \A i \in DOMAIN fRtpBuffer' : fRtpBuffer'[i] = e - 1
    BY <1>1 DEF Place, Within
  <2>4. delivered' # <<>> => LastNumber' = IF o < Length THEN e - 2 ELSE e - 1
    BY <1>1 DEF Place, Within, LastNumber
  <2> QED BY <1>8, <2>1, <2>2, <2>3, <2>4 DEF Within
<1>11. Place(e, o)'
  BY <1>3, <1>4, <1>10 DEF Place
<1> QED BY <1>11 DEF Framed

LEMMA FrameTold ==
  ASSUME Typed, DollarsWhole, Framed, ServerAnswers
  PROVE  Framed'
<1> USE DEF clientVars, eventVars, historyVars
<1>1. /\ UNCHANGED <<running, fTCPReadingState, fRtpBuffer, fNextTCPSource, fTCPReadSize, channelId, delivered>>
      /\ packets' = packets
  BY DEF ServerAnswers
<1>2. PICK status : Told(Head(requests), status)
  BY AnswersOne
<1>3. /\ Len(wire) \in Nat /\ DOMAIN wire = 1..Len(wire)
      /\ Len(packets) \in Nat
  BY Dollars
<1>4. DOMAIN wire' = 1..(Len(wire) + 1) /\ wire'[Len(wire) + 1].is = "answer"
  BY <1>2, <1>3 DEF Told, Answer
<1>5. /\ \A i \in DOMAIN wire : i \in DOMAIN wire' /\ wire'[i] = wire[i]
      /\ \A i \in DOMAIN wire' : i \in DOMAIN wire \/ wire'[i].is = "answer"
  <2>1. \A i \in DOMAIN wire' : i \in DOMAIN wire \/ i = Len(wire) + 1
    BY <1>3, <1>4
  <2> QED BY <1>2, <1>3, <1>4, <2>1 DEF Told
<1>6. Longer
  BY <1>1, <1>5 DEF Longer
<1>7. /\ \A e \in Nat : Numbered(e) => Numbered(e)'
      /\ \A r \in Nat : Inner(r) => Inner(r)'
  BY <1>1, <1>5, AnswerAdded
<1>8. 1..(Len(packets) + 1) \subseteq Nat /\ 0..Len(wire) \subseteq Nat
  BY <1>3
<1> QED BY <1>1, <1>6, <1>7, <1>8, FrameAdds

LEMMA FrameSends ==
  ASSUME Typed, DollarsWhole, GrantsInv, Framed, ServerSends
  PROVE  Framed'
<1> USE DEF clientVars, eventVars, historyVars
<1>1. UNCHANGED <<running, fTCPReadingState, fRtpBuffer, fNextTCPSource, fTCPReadSize, channelId, delivered>>
  BY DEF ServerSends
<1>2. PICK g \in granted : Plays(g)
  BY ServerSendsWhole
<1>3. /\ Longer /\ Len(packets') = Len(packets) + 1
      /\ \A e \in 1..(Len(packets) + 1) : Numbered(e) => Numbered(e)'
      /\ \A r \in 0..Len(wire) : Inner(r) => Inner(r)'
  BY <1>2, PacketAdded
<1> QED BY <1>1, <1>3, FrameAdds

\* Nothing is on the wire when the connection is opened.
LEMMA FrameOpens ==
  ASSUME Typed, BeginInv, OpenURL
  PROVE  Framed'
<1> USE DEF eventVars, serverVars, historyVars
<1>1. wire' = <<>> /\ packets' = <<>> /\ delivered' = <<>> /\ ~running'
  BY DEF OpenURL, BeginInv, Blank
<1>2. PICK e \in Nat : e = 1
  OBVIOUS
<1>3. DOMAIN wire' = {} /\ Len(packets') = 0
  BY <1>1
<1>4. Numbered(e)' /\ Inner(0)'
  <2>1. e..Len(packets') = {}
    BY <1>2, <1>3
  <2> QED BY <1>3, <2>1 DEF Numbered, Inner
<1>5. e \in 1..(Len(packets') + 1)
  BY <1>2, <1>3
<1> QED BY <1>1, <1>4, <1>5, ClearIsPlace DEF Framed

\* ReadText finds an answer: what is read as text is text.
LEMMA TextIsAnswer ==
  ASSUME Typed, DollarsWhole, Framed, ReadText
  PROVE  1 \in DOMAIN wire /\ AnswerAt(1) /\ Shifted(1) /\ wire' \in Seq(Tokens) /\ Head(wire) = wire[1]
<1>1. PICK e \in Nat, o \in Nat : Place(e, o)
  BY DEF Framed
<1>2. Inner(0)
  BY <1>1, PlaceIsClear DEF ReadText, Reads
<1>3. wire # <<>> /\ wire' = Tail(wire) /\ Head(wire).is # "dollar"
  BY DEF ReadText, Reads
<1>4. 1 \in DOMAIN wire /\ Head(wire) = wire[1] /\ Shifted(1) /\ wire' \in Seq(Tokens)
  BY <1>3, TailShifts, Dollars
<1> QED BY <1>2, <1>3, <1>4, FrontIsClear DEF DollarAt

LEMMA StepFrame ==
  TypeOK /\ Typed /\ DollarsWhole /\ BeginInv /\ SetupInv /\ GrantsInv /\ FrameInv /\ [Next]_vars => FrameInv'
<1> SUFFICES ASSUME TypeOK, Typed, DollarsWhole, BeginInv, SetupInv, GrantsInv, FrameInv, [Next]_vars, Watched'
             PROVE  Framed'
  BY DEF FrameInv
<1> USE DEF clientVars, callVars, eventVars, closeVars, serverVars, historyVars
<1>1. CallType
  BY CallTypes
<1>2. ~misused' /\ connected' /\ ~lost' /\ (running' \/ (call' # "none" /\ reading' # "rest"))
  BY DEF Watched, Opening
<1>3. Watched => Framed
  BY DEF FrameInv
<1>4. call # "none" => ~running /\ delivered = <<>> /\ ~lost
  BY DEF BeginInv
<1>5. CASE OpenURL
  BY <1>5, FrameOpens
<1>6. CASE Misuse
  BY <1>2, <1>6 DEF Misuse
<1>7. CASE SendRequest /\ ~misused
  <2>1. Watched
    BY <1>1, <1>2, <1>4, <1>7 DEF SendRequest, CallType, Watched, Opening
  <2>2. UNCHANGED <<wire, packets, delivered, running, fTCPReadingState, fRtpBuffer, fNextTCPSource,
                    fTCPReadSize, channelId>>
    BY <1>7 DEF SendRequest
  <2> QED BY <1>3, <2>1, <2>2, FrameKept
<1>8. CASE NothingToPlay
  <2>1. call # "none" /\ running' = running /\ call' = "none"
    BY <1>1, <1>8 DEF NothingToPlay, CallType, Ends
  <2> QED BY <1>2, <1>4, <2>1
<1>9. CASE TimesOut /\ ~misused
  <2>1. call # "none"
    BY <1>1, <1>9 DEF TimesOut, CallType
  <2>2. Watched
    BY <1>2, <1>4, <1>9, <2>1 DEF TimesOut, Watched, Opening
  <2>3. UNCHANGED <<wire, packets, delivered, running>>
    BY <1>9 DEF TimesOut
  <2> QED BY <1>3, <1>4, <2>1, <2>2, <2>3, FrameKept
<1>10. CASE StopsTiming
  <2>1. call # "none" /\ running' = running /\ reading' = "rest"
    BY <1>1, <1>10 DEF StopsTiming, CallType
  <2> QED BY <1>2, <1>4, <2>1
<1>11. CASE ReadFails
  BY <1>2, <1>11 DEF ReadFails
<1>12. CASE DiscardPacket /\ ~misused
  <2>1. call # "none" /\ running' = running /\ connected' = connected /\ reading = "wait"
    BY <1>1, <1>12 DEF DiscardPacket, CallType
  <2>2. Watched
    BY <1>2, <1>4, <1>12, <2>1 DEF Watched, Opening
  <2> QED BY <1>3, <1>4, <1>12, <2>1, <2>2, FrameDiscarded
<1>13. CASE TakeAnswer /\ ~misused
  <2>1. /\ call # "none" /\ running' = running /\ connected' = connected /\ reading = "wait"
        /\ UNCHANGED <<packets, delivered>>
    BY <1>1, <1>13 DEF TakeAnswer, CallType
  <2>2. Watched
    BY <1>2, <1>4, <1>13, <2>1 DEF Watched, Opening
  <2>3. 1 \in DOMAIN wire /\ AnswerAt(1) /\ Shifted(1) /\ wire' \in Seq(Tokens)
    BY <1>13, TakeShifts, Dollars
  <2> QED BY <1>3, <1>4, <2>1, <2>2, <2>3, FrameAnswered
<1>14. CASE ReadRest
  <2>1. call # "none" /\ running' = running /\ reading = "rest"
    BY <1>1, <1>14 DEF ReadRest, CallType
  <2>2. call' # "none" /\ reading' # "rest"
    BY <1>2, <1>4, <2>1
  <2>3. FailsTo
    BY <1>1, <1>14, <2>1, <2>2, RestTo
  <2>4. stage = "SETUP"
    BY <2>2, <2>3 DEF FailsTo, Ends
  <2> QED BY <2>1, <2>4 DEF SetupInv
<1>15. CASE StartReading /\ ~misused
  <2>1. call # "none" /\ reading = "send" /\ UNCHANGED <<wire, packets, delivered, connected, lost>>
    BY <1>1, <1>15 DEF StartReading, CallType
  <2>2. Watched
    BY <1>2, <1>15, <2>1 DEF Watched, Opening
  <2>3. fTCPReadingState' = "dollar"
    BY <1>15 DEF StartReading
  <2> QED BY <1>3, <1>4, <2>1, <2>2, <2>3, FrameKept
<1>16. ASSUME NEW k \in 1..PacketSize, ~misused,
              ReadText \/ ReadDollar \/ ReadChannel \/ ReadSize \/ readRTPOverTCP(k)
       PROVE  Framed'
  <2>1. running /\ Watched
    BY <1>16 DEF ReadText, ReadDollar, ReadChannel, ReadSize, readRTPOverTCP, Reads, Watched
  <2>2. CASE ReadText
    <3>1. 1 \in DOMAIN wire /\ AnswerAt(1) /\ Shifted(1) /\ wire' \in Seq(Tokens)
      BY <1>3, <2>1, <2>2, TextIsAnswer
    <3>2. UNCHANGED <<packets, delivered>> /\ fTCPReadingState = "dollar" /\ fTCPReadingState' = "dollar"
      BY <2>2 DEF ReadText, Reads, ReadUnchanged
    <3> QED BY <1>3, <2>1, <3>1, <3>2, FrameAnswered
  <2> QED BY <1>2, <1>3, <1>16, <2>1, <2>2, FrameDollar, FrameChannel, FrameSize, FrameData
<1>17. CASE ReadLost
  BY <1>2, <1>17 DEF ReadLost, Reads
<1>18. CASE (CloseURL \/ DestroyClient \/ Teardown \/ ServerPlays) /\ ~misused
  <2>1. UNCHANGED <<wire, packets, delivered, running, fTCPReadingState, fRtpBuffer, fNextTCPSource,
                    fTCPReadSize, channelId, connected, lost, call, reading>>
    BY <1>18 DEF CloseURL, DestroyClient, Teardown, ServerPlays
  <2>2. Watched
    BY <1>2, <1>18, <2>1 DEF Watched, Opening
  <2> QED BY <1>3, <2>1, <2>2, FrameKept
<1>19. CASE StopLoop /\ ~misused
  <2>1. /\ UNCHANGED <<wire, packets, delivered, fTCPReadingState, fRtpBuffer, fNextTCPSource,
                       fTCPReadSize, channelId, connected, lost, call, reading>>
        /\ running' = FALSE
    BY <1>19 DEF StopLoop
  <2>2. call # "none" /\ reading # "rest"
    BY <1>2, <2>1
  <2>3. Watched
    BY <1>2, <1>19, <2>1, <2>2 DEF Watched, Opening
  <2> QED BY <1>3, <1>4, <2>1, <2>2, <2>3, FrameKept
<1>20. CASE CloseSocket \/ DeleteSession
  BY <1>2, <1>20 DEF CloseSocket, DeleteSession, BeginInv
<1>21. CASE (ServerAnswers \/ ServerSends) /\ ~misused
  <2>1. UNCHANGED <<running, connected, lost, call, reading>>
    BY <1>21 DEF ServerAnswers, ServerSends
  <2>2. Watched
    BY <1>2, <1>21, <2>1 DEF Watched, Opening
  <2> QED BY <1>3, <1>21, <2>2, FrameTold, FrameSends
<1>22. CASE UNCHANGED vars
  <2>1. UNCHANGED <<wire, packets, delivered, running, fTCPReadingState, fRtpBuffer, fNextTCPSource,
                    fTCPReadSize, channelId, connected, lost, call, reading, misused>>
    BY <1>22 DEF vars
  <2>2. Watched
    BY <1>2, <2>1 DEF Watched, Opening
  <2> QED BY <1>3, <2>1, <2>2, FrameKept
<1>23. CASE Next
  <2>1. ~misused
    BY <1>23 DEF Next
  <2> QED BY <1>23, <2>1, <1>5, <1>6, <1>7, <1>8, <1>9, <1>10, <1>11, <1>12, <1>13, <1>14, <1>15, <1>16, <1>17,
             <1>18, <1>19, <1>20, <1>21, PieceThere
          DEF Next, OpenerStep, EventStep, CloserStep, ServerStep
<1> QED BY <1>22, <1>23

\* The event thread loses its place only at a channel that no track has; when nothing has been given
\* up and closeURL has not come into a call, there is a track.
LEMMA StepInSync ==
  TypeOK /\ Typed /\ DollarsWhole /\ BeginInv /\ GrantsInv /\ SettledInv /\ FrameInv /\ InSync /\ [Next]_vars
    => InSync'
<1> SUFFICES ASSUME TypeOK, Typed, DollarsWhole, BeginInv, GrantsInv, SettledInv, FrameInv, InSync, [Next]_vars
             PROVE  InSync'
  OBVIOUS
<1> USE DEF clientVars, callVars, eventVars, closeVars, serverVars, historyVars
<1>1. timeouts' = timeouts \/ timeouts' = timeouts + 1
  BY DEF Next, OpenURL, OpenerStep, Misuse, SendRequest, NothingToPlay, TimesOut, StopsTiming, ReadFails,
         DiscardPacket, TakeAnswer, ReadRest, StartReading, EventStep, ReadText, ReadDollar, ReadChannel,
         ReadSize, ReadLost, readRTPOverTCP, ReadUnchanged, CloseURL, DestroyClient, CloserStep, Teardown,
         StopLoop, CloseSocket, DeleteSession, ServerStep, ServerAnswers, ServerPlays, ServerSends, vars
<1>2. ~raced' => ~raced
  BY DEF Next, OpenURL, OpenerStep, Misuse, SendRequest, NothingToPlay, TimesOut, StopsTiming, ReadFails,
         DiscardPacket, TakeAnswer, ReadRest, StartReading, EventStep, ReadText, ReadDollar, ReadChannel,
         ReadSize, ReadLost, readRTPOverTCP, ReadUnchanged, CloseURL, DestroyClient, CloserStep, Teardown,
         StopLoop, CloseSocket, DeleteSession, ServerStep, ServerAnswers, ServerPlays, ServerSends, vars
<1>3. timeouts \in Nat
  BY DEF Typed, ReadType
<1>4. timeouts > 0 \/ raced => InSync'
  BY <1>1, <1>3, <1>2 DEF InSync
<1> SUFFICES ASSUME lost', ~(timeouts > 0 \/ raced)
             PROVE  FALSE
  BY <1>4 DEF InSync
<1>5. ~lost /\ timeouts = 0 /\ ~raced
  BY <1>3 DEF InSync
<1>6. CallType
  BY CallTypes
<1>7. ASSUME ~misused, ReadText \/ ReadChannel
      PROVE  running /\ Framed /\ stage = "none"
  BY <1>6, <1>7 DEF ReadText, ReadChannel, Reads, FrameInv, Watched, BeginInv, CallType
<1>8. CASE ReadText /\ ~misused
  <2>1. 1 \in DOMAIN wire /\ AnswerAt(1) /\ Head(wire) = wire[1]
    BY <1>7, <1>8, TextIsAnswer
  <2> QED BY <1>8, <2>1 DEF ReadText, AnswerAt
<1>9. CASE ReadChannel /\ ~misused
  <2>1. PICK e \in Nat, o \in Nat : Place(e, o)
    BY <1>7, <1>9 DEF Framed
  <2>2. o = 1 /\ e - 1 \in DOMAIN packets /\ PacketFrom(1, e - 1, 1) /\ 1 \in 1..(Length - 1)
    <3>1. o = 1
      BY <1>7, <1>9, <2>1 DEF ReadChannel, Reads, Place, Offset
    <3> QED BY <2>1, <3>1, Dollars DEF Place, Within
  <2>3. wire[1 + (1 - 1)] = PieceOf(e - 1, 1)
    BY <2>2 DEF PacketFrom
  <2>4. wire # <<>> /\ HasChannel(Head(wire).n) = {}
    BY <1>5, <1>9 DEF ReadChannel, Reads
  <2>5. Head(wire).n = packets[e - 1] - 1
    <3>1. Head(wire) = wire[1]
      BY <2>4, Dollars
    <3> QED BY <2>3, <3>1 DEF PieceOf, Token
  <2>6. PICK p : p = packets[e - 1]
    OBVIOUS
  <2>7. p \in Tracks
    BY <2>2, <2>6, Dollars
  <2>8. [track |-> p, channel |-> p - 1] \in granted
    BY <2>2, <2>6 DEF GrantsInv
  <2>9. channelId[p] = p - 1
    BY <1>5, <1>7, <1>9, <2>8 DEF SettledInv
  <2>10. p \in HasChannel(Head(wire).n)
    BY <2>5, <2>6, <2>7, <2>9 DEF HasChannel
  <2> QED BY <2>4, <2>10
<1> QED BY <1>5, <1>8, <1>9
        DEF Next, OpenURL, OpenerStep, Misuse, SendRequest, NothingToPlay, TimesOut, StopsTiming, ReadFails,
            DiscardPacket, TakeAnswer, ReadRest, StartReading, EventStep, ReadDollar, ReadSize, ReadLost,
            readRTPOverTCP, ReadUnchanged, CloseURL, DestroyClient, CloserStep, Teardown, StopLoop, CloseSocket,
            DeleteSession, ServerStep, ServerAnswers, ServerPlays, ServerSends, vars

(***************************************************************************)
(* What was handed over: whole packets, one after the other, each to the   *)
(* source of its track when every track has its own channel.               *)
(***************************************************************************)
HandedOver(i) ==
  LET p == delivered[i] IN
    /\ Len(p.pieces) = PacketSize /\ p.pieces[1] \in DOMAIN packets
    /\ \A k \in 1..PacketSize : p.pieces[k] = p.pieces[1]
    /\ i > 1 => p.pieces[1] = delivered[i - 1].pieces[1] + 1
    /\ OwnChannels => packets[p.pieces[1]] = p.source
DeliveredInv == \A i \in DOMAIN delivered : HandedOver(i)

LEMMA StaysHanded ==
  ASSUME NEW i, HandedOver(i), delivered'[i] = delivered[i], i > 1 => delivered'[i - 1] = delivered[i - 1],
         \A m \in DOMAIN packets : m \in DOMAIN packets' /\ packets'[m] = packets[m],
         OwnChannels' => OwnChannels
  PROVE  HandedOver(i)'
  BY DEF HandedOver

LEMMA DataHanded ==
  ASSUME Typed, DollarsWhole, Framed, running, NEW k \in 1..PacketSize, readRTPOverTCP(k), DeliveredInv
  PROVE  DeliveredInv'
<1>1. /\ packets' = packets /\ (OwnChannels' => OwnChannels)
      /\ delivered \in Seq(Deliveries) /\ DOMAIN delivered = 1..Len(delivered) /\ Len(delivered) \in Nat
  BY DEF readRTPOverTCP, serverVars, OwnChannels, Typed, ReadType
<1>2. PICK e \in Nat, o \in Nat : Place(e, o)
  BY DEF Framed
<1>3. /\ o \in 3..(Length - 1) /\ fTCPReadSize = PacketSize
      /\ Buffer(k) \in Seq(Int) /\ \A i \in 1..Len(Buffer(k)) : Buffer(k)[i] = e - 1
      /\ e - 1 \in DOMAIN packets
  BY <1>2, DataReads
<1>4. CASE Len(Buffer(k)) # fTCPReadSize
  <2>1. delivered' = delivered
    BY <1>4 DEF readRTPOverTCP, Buffer
  <2> QED BY <1>1, <2>1, StaysHanded DEF DeliveredInv
<1>5. CASE Len(Buffer(k)) = fTCPReadSize
  <2>1. PICK n \in Nat : n = Len(delivered) + 1
    BY <1>1
  <2>2. /\ DOMAIN delivered' = 1..n
        /\ \A i \in 1..(n - 1) : i \in DOMAIN delivered /\ delivered'[i] = delivered[i]
        /\ delivered'[n].pieces = Buffer(k) /\ delivered'[n].source = fNextTCPSource
    BY <1>3, <1>5, <2>1, Completes
  <2>3. ASSUME NEW i \in 1..(n - 1) PROVE HandedOver(i)'
    <3>1. i \in DOMAIN delivered /\ delivered'[i] = delivered[i]
      BY <2>2
    <3>2. i > 1 => delivered'[i - 1] = delivered[i - 1]
      BY <2>1, <2>2
    <3>3. HandedOver(i)
      BY <3>1 DEF DeliveredInv
    <3> QED BY <1>1, <3>1, <3>2, <3>3, StaysHanded
  <2>4. HandedOver(n)'
    <3>1. 1 \in 1..Len(Buffer(k)) /\ Len(Buffer(k)) = PacketSize
      BY <1>3, <1>5, ConstantsAssumption
    <3>2. \A j \in 1..PacketSize : delivered'[n].pieces[j] = e - 1
      BY <1>3, <2>2, <3>1
    <3>3. delivered'[n].pieces[1] = e - 1
      BY <3>1, <3>2
    <3>4. o < Length /\ o \in 2..(Length - 1)
      BY <1>3, Dollars
    <3>5. OwnChannels' => packets'[e - 1] = delivered'[n].source
      BY <1>1, <1>2, <2>2, <3>4 DEF Place, Within
    <3>6. n > 1 => e - 1 = delivered'[n - 1].pieces[1] + 1
      <4> SUFFICES ASSUME n > 1 PROVE e - 1 = delivered'[n - 1].pieces[1] + 1
        OBVIOUS
      <4>1. delivered # <<>>
        BY <1>1, <2>1
      <4>2. LastNumber = e - 2
        BY <1>2, <3>4, <4>1 DEF Place, Within
      <4>3. delivered[n - 1].pieces[1] = e - 2
        BY <1>1, <2>1, <4>2 DEF LastNumber
      <4>4. delivered'[n - 1] = delivered[n - 1]
        BY <2>2
      <4> QED BY <4>3, <4>4
    <3> QED BY <1>1, <1>3, <2>2, <3>1, <3>2, <3>3, <3>5, <3>6 DEF HandedOver
  <2>5. \A i \in DOMAIN delivered' : i \in 1..(n - 1) \/ i = n
    BY <2>2
  <2> QED BY <2>3, <2>4, <2>5 DEF DeliveredInv
<1> QED BY <1>4, <1>5

LEMMA StepDelivered ==
  TypeOK /\ Typed /\ DollarsWhole /\ BeginInv /\ GrantsInv /\ FrameInv /\ DeliveredInv /\ [Next]_vars
    => DeliveredInv'
<1> SUFFICES ASSUME TypeOK, Typed, DollarsWhole, BeginInv, GrantsInv, FrameInv, DeliveredInv, [Next]_vars
             PROVE  DeliveredInv'
  OBVIOUS
<1> USE DEF clientVars, callVars, eventVars, closeVars, serverVars, historyVars
<1>1. CallType
  BY CallTypes
<1>2. /\ delivered \in Seq(Deliveries) /\ DOMAIN delivered = 1..Len(delivered) /\ Len(delivered) \in Nat
  BY DEF Typed, ReadType
<1>3. ASSUME delivered' = delivered, channelId' = channelId \/ call # "none",
             \A m \in DOMAIN packets : m \in DOMAIN packets' /\ packets'[m] = packets[m]
      PROVE  DeliveredInv'
  <2>1. CASE call # "none"
    <3>1. DOMAIN delivered' = {}
      BY <1>3, <2>1 DEF BeginInv
    <3> QED BY <3>1 DEF DeliveredInv
  <2>2. CASE channelId' = channelId
    <3>1. OwnChannels' => OwnChannels
      BY <2>2 DEF OwnChannels
    <3> QED BY <1>3, <3>1, StaysHanded DEF DeliveredInv
  <2> QED BY <1>3, <2>1, <2>2
<1>4. CASE ServerSends
  <2>1. UNCHANGED <<delivered, channelId>>
    BY <1>4 DEF ServerSends
  <2>2. PICK g \in granted : Plays(g)
    BY <1>4, ServerSendsWhole
  <2>3. Longer
    BY <2>2, PacketAdded
  <2> QED BY <1>3, <2>1, <2>3 DEF Longer
<1>5. CASE TakeAnswer
  <2>1. UNCHANGED <<delivered, packets>> /\ call # "none"
    BY <1>1, <1>5 DEF TakeAnswer, CallType
  <2> QED BY <1>3, <2>1
<1>6. CASE TimesOut \/ ReadFails \/ ReadRest
  <2>1. UNCHANGED <<delivered, packets, channelId>>
    BY <1>6 DEF TimesOut, ReadFails, ReadRest, Fails
  <2> QED BY <1>3, <2>1
<1>7. CASE ~misused /\ \E k \in 1..PacketSize : readRTPOverTCP(k)
  <2>1. PICK k \in 1..PacketSize : readRTPOverTCP(k)
    BY <1>7
  <2>2. running /\ Framed
    BY <1>7, <2>1 DEF readRTPOverTCP, Reads, FrameInv, Watched
  <2> QED BY <2>1, <2>2, DataHanded
<1>8. ASSUME UNCHANGED <<delivered, packets, channelId>> PROVE DeliveredInv'
  BY <1>3, <1>8
<1> QED BY <1>4, <1>5, <1>6, <1>7, <1>8
        DEF Next, OpenURL, OpenerStep, Misuse, SendRequest, NothingToPlay, StopsTiming,
            DiscardPacket, StartReading, EventStep, ReadText, ReadDollar, ReadChannel, ReadSize, ReadLost,
            ReadUnchanged, CloseURL, DestroyClient, CloserStep, Teardown, StopLoop, CloseSocket,
            DeleteSession, ServerStep, ServerAnswers, ServerPlays, vars

\* When every track has what it was granted, it has its own channel.
LEMMA SetUpIsOwn == GrantsInv /\ AllSetUp => OwnChannels
  BY DEF GrantsInv, AllSetUp, OwnChannels

LEMMA AllReach ==
  ASSUME Typed, GrantsInv, DeliveredInv, InSync
  PROVE  PacketsReach
<1>1. ASSUME NEW i \in DOMAIN delivered
      PROVE  /\ Whole(delivered[i]) /\ Len(delivered[i].pieces) = PacketSize
             /\ i > 1 => delivered[i].pieces[1] = delivered[i - 1].pieces[1] + 1
             /\ AllSetUp => packets[delivered[i].pieces[1]] = delivered[i].source
  <2>1. HandedOver(i) /\ delivered[i].pieces \in Seq(Int)
    <3>1. delivered[i] \in Deliveries
      BY DEF Typed, ReadType
    <3> QED BY <3>1 DEF Deliveries, DeliveredInv
  <2>2. DOMAIN delivered[i].pieces = 1..PacketSize
    BY <2>1 DEF HandedOver
  <2> QED BY <2>1, <2>2, SetUpIsOwn DEF HandedOver, Whole
<1> QED BY <1>1 DEF PacketsReach

(***************************************************************************)
(* The invariant, and what follows from it.                                *)
(***************************************************************************)
WireInv == Typed /\ DollarsWhole /\ BeginInv /\ EarlyInv /\ SetupInv /\ GrantsInv
OrderInv == TurnInv /\ OwnInv /\ SettledInv /\ AnswersMatch
ReachInv == FrameInv /\ DeliveredInv /\ InSync

LEMMA InitSession == Init => WireInv /\ OrderInv /\ ReachInv
<1> SUFFICES ASSUME Init PROVE WireInv /\ OrderInv /\ ReachInv
  OBVIOUS
<1>1. /\ wire = <<>> /\ requests = <<>> /\ packets = <<>> /\ delivered = <<>> /\ fRtpBuffer = <<>> /\ sent = <<>>
      /\ granted = {} /\ fTCPStreamIdCount = 0 /\ fTCPReadSize = 0 /\ timeouts = 0 /\ fCSeq = 0
      /\ call = "none" /\ stage = "none" /\ reading = "no" /\ closer = "idle"
      /\ fNextTCPSource = NoTrack /\ taken = NoAnswer /\ channelId = [t \in Tracks |-> OtherChannel]
  BY DEF Init
<1>2. ~running /\ ~connected /\ ~lost /\ ~playing /\ ~fMediaSession /\ playing \in BOOLEAN
  BY Zenon DEF Init
<1>3. DOMAIN wire = {} /\ DOMAIN requests = {} /\ DOMAIN packets = {} /\ DOMAIN delivered = {}
  BY <1>1
<1>4. Typed
  <2>1. WireType /\ RequestType /\ ServerType
    BY <1>3, <1>1, <1>2 DEF WireType, RequestType, ServerType
  <2>2. ReadType
    <3>1. channelId \in [Tracks -> Int] /\ fNextTCPSource \in Sources
      BY <1>3, <1>1, <1>2 DEF OtherChannel, Sources
    <3> QED BY <1>3, <1>1, <1>2, <3>1 DEF ReadType
  <2> QED BY <2>1, <2>2 DEF Typed
<1>5. DollarsWhole /\ GrantsInv
  BY <1>3, <1>1, <1>2 DEF DollarsWhole, GrantsInv
<1>6. BeginInv /\ EarlyInv /\ SetupInv
  BY <1>3, <1>1, <1>2 DEF BeginInv, Blank, EarlyInv, SetupInv
<1>7. OrderInv
  BY <1>3, <1>1, <1>2 DEF OrderInv, TurnInv, OwnInv, SettledInv, AnswersMatch
<1>8. ReachInv
  BY <1>3, <1>1, <1>2 DEF ReachInv, FrameInv, Watched, DeliveredInv, InSync
<1> QED BY <1>4, <1>5, <1>6, <1>7, <1>8 DEF WireInv

LEMMA StepSession ==
  TypeOK /\ LifeInv /\ WireInv /\ OrderInv /\ ReachInv /\ [Next]_vars => WireInv' /\ OrderInv' /\ ReachInv'
<1> SUFFICES ASSUME TypeOK, LifeInv, WireInv, OrderInv, ReachInv, [Next]_vars
             PROVE  WireInv' /\ OrderInv' /\ ReachInv'
  OBVIOUS
<1>1. Typed /\ DollarsWhole /\ BeginInv /\ EarlyInv /\ SetupInv /\ GrantsInv
  BY DEF WireInv
<1>2. TurnInv /\ OwnInv /\ SettledInv /\ AnswersMatch
  BY DEF OrderInv
<1>3. FrameInv /\ DeliveredInv /\ InSync
  BY DEF ReachInv
<1>4. Typed'
  BY <1>1, StepWire, StepRequests, StepServer, StepRead DEF Typed
<1>5. DollarsWhole' /\ BeginInv' /\ EarlyInv' /\ SetupInv' /\ GrantsInv'
  BY <1>1, StepDollars, StepBegin, StepPhase, StepGrants
<1>6. TurnInv' /\ OwnInv' /\ SettledInv' /\ AnswersMatch'
  BY <1>1, <1>2, StepTurn, StepOwn, StepMatch
<1>7. FrameInv' /\ DeliveredInv' /\ InSync'
  BY <1>1, <1>2, <1>3, StepFrame, StepDelivered, StepInSync
<1> QED BY <1>4, <1>5, <1>6, <1>7 DEF WireInv, OrderInv, ReachInv

LEMMA SessionInv == Spec => [](TypeOK /\ LifeInv /\ WireInv /\ OrderInv /\ ReachInv)
  BY InitLife, InitSession, StepLife, StepSession, TypeCorrect, PTL DEF Spec

\* A request takes its own answer, or one that is no more requests late than have been given up
\* (getResponse does not look at the CSeq), unless closeURL came in the middle of a call.
THEOREM Matching == Spec => []AnswersMatch
<1>1. OrderInv => AnswersMatch
  BY DEF OrderInv
<1> QED BY <1>1, SessionInv, PTL

\* The event thread finds every packet (tcpReadHandler1), and hands each over whole, in order and, when every
\* track has its own channel, to the source of its track; it meets an unknown channel only after a request
\* was given up, or when closeURL came in the middle of a call.
THEOREM Packets == Spec => []PacketsReach
<1>1. WireInv /\ ReachInv => PacketsReach
  BY AllReach DEF WireInv, ReachInv
<1> QED BY <1>1, SessionInv, PTL
=============================================================================
