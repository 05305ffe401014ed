---------------------------- MODULE TaskScheduler ----------------------------
(***************************************************************************)
(* The event loop of an RTSP client (RTSP/Sock/TaskScheduler.cpp): a       *)
(* thread that selects over the registered sockets and calls the handler   *)
(* of one readable socket per step.  Three kinds of threads use it: the    *)
(* one that plays a session registers sockets and starts the loop, the one *)
(* that closes or destroys the client stops it and removes the sockets     *)
(* (RTSPClient.cpp: playURL, reset, ~RTSPClient), and the event threads.   *)
(* Nothing keeps play and close apart: "overlap" records that a start ran  *)
(* into a stop.                                                            *)
(*                                                                         *)
(* fMutex is a recursive Windows mutex.  An event thread holds it from     *)
(* "select" to "unlock", the others within single actions only.            *)
(***************************************************************************)
EXTENDS Integers, Sequences, FiniteSets

CONSTANTS
  Sockets, Workers,
  MaxPlays, MaxCloses    \* bounds: calls of playURL and of closeURL in a behaviour

NoSocket == "no socket"  \* -1
NoThread == "no thread"  \* NULL
Dummy == "dummy"         \* the socket that keeps select from failing on an empty set

ASSUME ConstantsAssumption ==
  /\ MaxPlays \in Nat /\ MaxCloses \in Nat
  /\ NoSocket \notin Sockets /\ Dummy \notin Sockets
  /\ \A x \in {NoThread, "idle", "on", "create"} : x \notin Workers

VARIABLES
  fTaskLoop,
  fThread,
  fMutex,                 \* the event thread that holds it
  fReadHandlers,          \* sockets that have a handler, the newest first
  fReadSet,
  fLastHandledSocketNum,  \* not initialised by the constructor
  pc,                     \* event thread -> where it is
  handling,               \* event thread -> the socket whose handler it runs
  readable,               \* sockets that have something to read
  player, turningOn,      \* playURL: where it is, the sockets it has still to register
  closer, turningOff,     \* reset and the destructors: where, the sockets still to remove
  closing,                \* the call that closes
  plays, closes,
  overlap                 \* history: startEventLoop and stopEventLoop ran at the same time

socketVars == <<fReadHandlers, fReadSet>>
eventVars == <<pc, handling>>
playVars == <<player, turningOn, plays>>
closeVars == <<closer, turningOff, closing, closes>>
loopVars == <<fTaskLoop, fThread, fMutex, socketVars, fLastHandledSocketNum, eventVars, readable,
              playVars, closeVars, overlap>>

Installed == {fReadHandlers[i] : i \in DOMAIN fReadHandlers}
Ready == Installed \cap fReadSet \cap readable

LoopInit ==
  /\ fTaskLoop = FALSE /\ fThread = NoThread /\ fMutex = NoThread
  /\ fReadHandlers = <<>> /\ fReadSet = {}
  /\ fLastHandledSocketNum \in Sockets \cup {NoSocket}
  /\ pc = [w \in Workers |-> "none"] /\ handling = [w \in Workers |-> NoSocket]
  /\ readable = {}
  /\ player = "idle" /\ turningOn = {} /\ plays = 0
  /\ closer = "idle" /\ turningOff = {} /\ closing = "none" /\ closes = 0
  /\ overlap = FALSE

(***************************************************************************)
(* turnOnBackgroundReadHandling and turnOffBackgroundReadHandling.         *)
(***************************************************************************)
assignHandler(s) ==
  fReadHandlers' = IF s \in Installed THEN fReadHandlers ELSE <<s>> \o fReadHandlers

Position(s) == CHOOSE i \in DOMAIN fReadHandlers : fReadHandlers[i] = s
Without(s) ==
  [i \in 1..(Len(fReadHandlers) - 1) |->
     IF i < Position(s) THEN fReadHandlers[i] ELSE fReadHandlers[i + 1]]
removeHandler(s) ==
  fReadHandlers' = IF s \in Installed THEN Without(s) ELSE fReadHandlers

turnOn(s) ==
  /\ fMutex = NoThread
  /\ fReadSet' = fReadSet \cup {s}
  /\ assignHandler(s)

turnOffLocked(s) ==
  /\ fReadSet' = fReadSet \ {s}
  /\ removeHandler(s)
turnOff(s) == fMutex = NoThread /\ turnOffLocked(s)

(***************************************************************************)
(* playURL: the sockets one after the other, then startEventLoop.          *)
(***************************************************************************)
PlayURL ==
  /\ player = "idle" /\ plays < MaxPlays /\ closing \in {"none", "reset"}
  /\ player' = "on" /\ turningOn' = Sockets /\ plays' = plays + 1
  /\ UNCHANGED <<fTaskLoop, fThread, fMutex, socketVars, fLastHandledSocketNum, eventVars,
                 readable, closeVars, overlap>>

TurnOn ==
  /\ player = "on"
  /\ \E s \in turningOn : turnOn(s) /\ turningOn' = turningOn \ {s}
  /\ UNCHANGED <<fTaskLoop, fThread, fMutex, fLastHandledSocketNum, eventVars, readable,
                 player, plays, closeVars, overlap>>

\* mutant: startEventLoop does not look whether the loop runs
StartUnchecked ==
  /\ player = "on" /\ turningOn = {}
  /\ player' = "create"
  /\ fTaskLoop' = TRUE
  /\ overlap' = (overlap \/ closer # "idle")
  /\ UNCHANGED <<fThread, fMutex, socketVars, fLastHandledSocketNum, eventVars, readable,
                 turningOn, plays, closeVars>>
\* startEventLoop up to the creation of the thread: nothing is locked.
StartCheck ==
  /\ player = "on" /\ turningOn = {}
  /\ player' = IF fTaskLoop THEN "idle" ELSE "create"
  /\ fTaskLoop' = TRUE
  /\ overlap' = (overlap \/ closer # "idle")
  /\ UNCHANGED <<fThread, fMutex, socketVars, fLastHandledSocketNum, eventVars, readable,
                 turningOn, plays, closeVars>>

\* The thread may run before its handle is stored.
CreateThread(w) ==
  /\ player = "create" /\ pc[w] = "none"
  /\ pc' = [pc EXCEPT ![w] = "check"]
  /\ player' = w
  /\ UNCHANGED <<fTaskLoop, fThread, fMutex, socketVars, fLastHandledSocketNum, handling,
                 readable, turningOn, plays, closeVars, overlap>>

StoreThread ==
  /\ player \in Workers
  /\ fThread' = player /\ player' = "idle"
  /\ UNCHANGED <<fTaskLoop, fMutex, socketVars, fLastHandledSocketNum, eventVars, readable,
                 turningOn, plays, closeVars, overlap>>

CreateFails ==
  /\ player = "create"
  /\ fThread' = NoThread /\ fTaskLoop' = FALSE /\ player' = "idle"
  /\ UNCHANGED <<fMutex, socketVars, fLastHandledSocketNum, eventVars, readable,
                 turningOn, plays, closeVars, overlap>>

(***************************************************************************)
(* stopEventLoop, and its callers: reset (closeURL), which then removes    *)
(* the sockets, and ~RTSPClient, a reset that deletes the scheduler        *)
(* (~TaskScheduler stops the loop once more).  The client is destroyed     *)
(* when no call of playURL is under way.                                   *)
(***************************************************************************)
\* mutant: stopEventLoop joins before it clears the flag
StopFlagKept(call) ==
  /\ closer' = "join" /\ closing' = call
  /\ overlap' = (overlap \/ player \in {"create"} \cup Workers)
  /\ UNCHANGED <<fTaskLoop, fThread, fMutex, socketVars, fLastHandledSocketNum, eventVars,
                 readable, playVars, turningOff, closes>>
StopFlag(call) ==
  /\ fTaskLoop' = FALSE
  /\ closer' = "join" /\ closing' = call
  /\ overlap' = (overlap \/ player \in {"create"} \cup Workers)
  /\ UNCHANGED <<fThread, fMutex, socketVars, fLastHandledSocketNum, eventVars, readable,
                 playVars, turningOff, closes>>

CloseURL == closer = "idle" /\ closes < MaxCloses /\ StopFlag("reset")
DestroyClient == closer = "idle" /\ player = "idle" /\ StopFlag("~RTSPClient")

\* THREAD_JOIN returns at once when there is no handle.
Joined == fThread # NoThread => pc[fThread] = "ended"
Join ==
  /\ closer = "join" /\ Joined
  /\ closer' = "destroy"
  /\ UNCHANGED <<fTaskLoop, fThread, fMutex, socketVars, fLastHandledSocketNum, eventVars,
                 readable, playVars, turningOff, closing, closes, overlap>>

\* THREAD_DESTROY; then the caller goes on.
DestroyThread ==
  /\ closer = "destroy"
  /\ fThread' = NoThread
  /\ IF closing = "~TaskScheduler"
       THEN closer' = "gone" /\ UNCHANGED turningOff
       ELSE closer' = "off" /\ turningOff' = Sockets
  /\ UNCHANGED <<fTaskLoop, fMutex, socketVars, fLastHandledSocketNum, eventVars, readable,
                 playVars, closing, closes, overlap>>

\* reset, and under it ~RTPSource, turn the sockets off and close them.
TurnOff ==
  /\ closer = "off"
  /\ \E s \in turningOff :
       /\ turnOff(s) /\ turningOff' = turningOff \ {s}
       /\ readable' = readable \ {s}
  /\ UNCHANGED <<fTaskLoop, fThread, fMutex, fLastHandledSocketNum, eventVars, playVars,
                 closer, closing, closes, overlap>>

ResetReturns ==
  /\ closer = "off" /\ turningOff = {} /\ closing = "reset"
  /\ closer' = "idle" /\ closes' = closes + 1
  /\ UNCHANGED <<fTaskLoop, fThread, fMutex, socketVars, fLastHandledSocketNum, eventVars,
                 readable, playVars, turningOff, closing, overlap>>

DestroyScheduler ==
  /\ closer = "off" /\ turningOff = {} /\ closing = "~RTSPClient"
  /\ StopFlag("~TaskScheduler")

(***************************************************************************)
(* An event thread: doEventLoop and SingleStep.                            *)
(***************************************************************************)
At(w, here) == pc[w] = here
Goto(w, there) == pc' = [pc EXCEPT ![w] = there]

LoopTest(w) ==
  /\ At(w, "check")
  /\ Goto(w, IF fTaskLoop THEN "lock" ELSE "ended")
  /\ UNCHANGED <<fTaskLoop, fThread, fMutex, socketVars, fLastHandledSocketNum, handling,
                 readable, playVars, closeVars, overlap>>

Lock(w) ==
  /\ At(w, "lock") /\ fMutex = NoThread
  /\ fMutex' = w /\ Goto(w, "select")
  /\ UNCHANGED <<fTaskLoop, fThread, socketVars, fLastHandledSocketNum, handling,
                 readable, playVars, closeVars, overlap>>

\* How far behind the last handled socket the search meets s: it starts at the beginning when
\* that one is not in the list.
LastPosition ==
  IF fLastHandledSocketNum \in Installed THEN Position(fLastHandledSocketNum) ELSE 0
\* mutant: every search starts at the beginning
DistanceFromStart(s) == Position(s)
Distance(s) == (Position(s) - LastPosition - 1) % Len(fReadHandlers)

\* select returns with the sockets that are readable now, and the search calls the first one.
SelectReady(w) ==
  /\ At(w, "select")
  /\ \E s \in Ready :
       /\ \A t \in Ready : Distance(s) <= Distance(t)
       /\ fLastHandledSocketNum' = s
       /\ handling' = [handling EXCEPT ![w] = s]
  /\ Goto(w, "handle")
  /\ UNCHANGED <<fTaskLoop, fThread, fMutex, socketVars, readable, playVars, closeVars, overlap>>

\* select times out, or fails because its set is empty.
SelectNone(w) ==
  /\ At(w, "select") /\ Ready = {}
  /\ fLastHandledSocketNum' = NoSocket
  /\ fReadSet' = IF fReadSet = {} THEN {Dummy} ELSE fReadSet
  /\ Goto(w, "unlock")
  /\ UNCHANGED <<fTaskLoop, fThread, fMutex, fReadHandlers, handling, readable, playVars,
                 closeVars, overlap>>

\* The handler reads, all there is or a part of it.
HandlerReads(w) ==
  /\ At(w, "handle")
  /\ readable' \in {readable, readable \ {handling[w]}}
  /\ handling' = [handling EXCEPT ![w] = NoSocket]
  /\ Goto(w, "unlock")
  /\ UNCHANGED <<fTaskLoop, fThread, fMutex, socketVars, fLastHandledSocketNum, playVars,
                 closeVars, overlap>>

\* Reading fails: the handler turns its own socket off, under the mutex its thread holds.
HandlerFails(w) ==
  /\ At(w, "handle")
  /\ turnOffLocked(handling[w])
  /\ handling' = [handling EXCEPT ![w] = NoSocket]
  /\ Goto(w, "unlock")
  /\ UNCHANGED <<fTaskLoop, fThread, fMutex, fLastHandledSocketNum, readable, playVars,
                 closeVars, overlap>>

Unlock(w) ==
  /\ At(w, "unlock")
  /\ fMutex' = NoThread /\ Goto(w, "check")
  /\ UNCHANGED <<fTaskLoop, fThread, socketVars, fLastHandledSocketNum, handling, readable,
                 playVars, closeVars, overlap>>

\* The network.
Arrive ==
  /\ \E s \in Sockets : s \notin readable /\ readable' = readable \cup {s}
  /\ closer # "gone"
  /\ UNCHANGED <<fTaskLoop, fThread, fMutex, socketVars, fLastHandledSocketNum, eventVars,
                 playVars, closeVars, overlap>>

PlayerStep == TurnOn \/ StartCheck \/ (\E w \in Workers : CreateThread(w)) \/ StoreThread \/ CreateFails
CloserStep == Join \/ DestroyThread \/ TurnOff \/ ResetReturns \/ DestroyScheduler
EventStep(w) ==
  \/ LoopTest(w) \/ Lock(w) \/ SelectReady(w) \/ SelectNone(w)
  \/ HandlerReads(w) \/ HandlerFails(w) \/ Unlock(w)

LoopNext ==
  \/ PlayURL \/ PlayerStep
  \/ CloseURL \/ DestroyClient \/ CloserStep
  \/ \E w \in Workers : EventStep(w)
  \/ Arrive

\* The threads run, handlers return and select returns (it has a timeout of a second).  Nothing
\* is assumed of the network, nor that anyone plays or closes.
Fairness ==
  /\ WF_loopVars(PlayerStep) /\ WF_loopVars(CloserStep)
  /\ \A w \in Workers : WF_loopVars(EventStep(w))

LoopSpec == LoopInit /\ [][LoopNext]_loopVars /\ Fairness

-----------------------------------------------------------------------------

Running(w) == pc[w] \notin {"none", "ended"}

TypeOK ==
  /\ fTaskLoop \in BOOLEAN /\ fThread \in Workers \cup {NoThread}
  /\ fMutex \in Workers \cup {NoThread}
  /\ fReadHandlers \in Seq(Sockets)
  /\ \A i, j \in DOMAIN fReadHandlers : fReadHandlers[i] = fReadHandlers[j] => i = j
  /\ fReadSet \subseteq Sockets \cup {Dummy}
  /\ fLastHandledSocketNum \in Sockets \cup {NoSocket}
  /\ pc \in [Workers -> {"none", "check", "lock", "select", "handle", "unlock", "ended"}]
  /\ handling \in [Workers -> Sockets \cup {NoSocket}]
  /\ readable \subseteq Sockets
  /\ player \in {"idle", "on", "create"} \cup Workers /\ turningOn \subseteq Sockets
  /\ closer \in {"idle", "join", "destroy", "off", "gone"} /\ turningOff \subseteq Sockets
  /\ closing \in {"none", "reset", "~RTSPClient", "~TaskScheduler"}
  /\ plays \in Nat /\ closes \in Nat
  /\ overlap \in BOOLEAN

\* When stopEventLoop has joined, no event thread runs any more, so that what the handlers use
\* (sockets, the session, in the end the scheduler) can be deleted: unless a start ran into
\* the stop, however often the loop was started, or failed to start, before.
QuietAfterStop ==
  closer \in {"destroy", "off", "gone"} /\ ~overlap => \A w \in Workers : ~Running(w)

\* A handler that runs is installed: turnOffBackgroundReadHandling returns only when the handler
\* of the socket has, and it is not called again.  Holds even when starts and stops overlap.
HandlerIsInstalled == \A w \in Workers : At(w, "handle") => handling[w] \in Installed

\* What a handler uses is there while it runs: both.
NoStrayHandler == QuietAfterStop /\ HandlerIsInstalled

\* closeURL and the destructor come back, even while handlers keep being called: the mutex is
\* not needed to stop, and the thread looks at the flag after every step.
CloseReturns == closer = "join" ~> (closer \in {"idle", "gone"} \/ overlap)

\* A registered socket that is readable is served as long as the loop runs.
ReadableServed ==
  \A s \in Sockets :
    (fTaskLoop /\ s \in Ready)
      ~> (~fTaskLoop \/ s \notin Ready \/ \E w \in Workers : At(w, "handle") /\ handling[w] = s)
=============================================================================
