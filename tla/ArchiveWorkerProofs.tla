-------------------------- MODULE ArchiveWorkerProofs --------------------------
(***************************************************************************)
(* For any drives, streams, clients and calls: the variables of the        *)
(* drives' threads keep their types; no thread works for an IOWorker that  *)
(* DeleteStream has erased, or whose ArchiveWorker is gone, unless it was  *)
(* moved between drives; and a thread that missed a notification finds the *)
(* condition set.                                                          *)
(***************************************************************************)
EXTENDS ArchiveWorker, TLAPS

\* A client inside a call knows its drive and stream; what it moves counts as moved.
ClientInv ==
  \A c \in Clients :
    /\ client[c].pc # "idle" => client[c].drive \in Drives /\ client[c].stream \in Streams
    /\ client[c].pc = "move" => client[c].object \in moved

\* Only a thread that holds mtx_io_delete_ has IOWorkers to process.
ThreadInv ==
  \A d \in Drives : pc[d] # "process" => io_workers_v[d] = {} /\ processing[d] = None

\* The lock excludes the thread of a drive and a client that erases there.
LockInv ==
  \A c \in Clients : client[c].pc = "erase" => pc[client[c].drive] # "process"

\* An IOWorker in use was created.
CreatedInv ==
  /\ \A d \in Drives :
       /\ \A s \in Streams : io_workers_[d][s] <= created
       /\ \A o \in io_workers_v[d] : o <= created
       /\ processing[d] <= created
  /\ \A o \in deleted \cup moved : o <= created

\* One that was never moved is in the map, the copy and the hands of its home alone,
\* under one name, and in no map once it is deleted.
HomeInv ==
  \A d \in Drives :
    /\ \A s \in Streams : io_workers_[d][s] \notin moved \cup {None} =>
         /\ home[io_workers_[d][s]] = d /\ io_workers_[d][s] \notin deleted
         /\ \A t \in Streams : io_workers_[d][t] = io_workers_[d][s] => t = s
    /\ \A o \in io_workers_v[d] \ moved : home[o] = d
    /\ processing[d] \notin moved \cup {None} => home[processing[d]] = d

Inv == TypeOK /\ ClientInv /\ ThreadInv /\ LockInv /\ CreatedInv /\ HomeInv /\ DeletedNotProcessed

-----------------------------------------------------------------------------
\* What Notified does to the position of a thread.
LEMMA NotifiedType ==
  ASSUME TypeOK, NEW d \in Drives
  PROVE  /\ Notified(d) \in [Drives -> {"top", "lock", "process", "check", "block", "blocked", "exited"}]
         /\ \A e \in Drives : Notified(d)[e] = "process" <=> pc[e] = "process"
BY DEF TypeOK, Notified

LEMMA ConstantTypes == MaxObjects \in Nat /\ MaxCalls \in Nat /\ NoDrive \notin Drives
BY ConstantsAssumption

-----------------------------------------------------------------------------
LEMMA TypeInit == Init => TypeOK
BY ConstantTypes DEF Init, TypeOK, Objects, None, ClientType, Idle

\* Where a call goes on, and where it ends.
LEMMA GoesType ==
  ASSUME TypeOK, NEW c \in Clients
  PROVE  /\ Goto(c, "notify") \/ Goto(c, "erase") \/ Goto(c, "push") => client' \in [Clients -> ClientType]
         /\ Return(c) => client' \in [Clients -> ClientType]
<1>1. client \in [Clients -> ClientType]  BY DEF TypeOK
<1>2. ASSUME NEW p \in {"notify", "erase", "push"}, Goto(c, p) PROVE client' \in [Clients -> ClientType]
  BY ONLY <1>1, <1>2, c \in Clients DEF Goto, ClientType
<1>3. ASSUME Return(c) PROVE client' \in [Clients -> ClientType]
  <2>1. Idle \in ClientType  BY DEF Idle, ClientType
  <2> QED  BY ONLY <1>1, <1>3, <2>1, c \in Clients DEF Return
<1> QED  BY <1>2, <1>3

\* Every step of a client keeps the types.
LEMMA TypeClient ==
  ASSUME TypeOK, ClientInv, NEW c \in Clients, Calls(c) \/ InCall(c)
  PROVE  TypeOK'
<1> USE DEF TypeOK, ClientType, Objects, None, threadVars, objectVars, Call, At, Goto, Return
<1>0. created \in Nat /\ calls \in Nat  BY ConstantTypes
<1>1. CASE Calls(c)
  <2>1. PICK d \in Drives, s \in Streams :
          \/ AddStream(c, d, s) \/ PushVideoChunkBuffer(c, d, s) \/ FlushStream(c, d, s)
          \/ DeleteStream(c, d, s)
          \/ \E e \in Drives : RemoveIOWorker(c, d, s, e)
    BY <1>1 DEF Calls
  <2>2. CASE AddStream(c, d, s)
    <3>1. created' \in Objects /\ created' \in 0..MaxObjects /\ calls' \in 0..MaxCalls
      BY <2>2, ConstantTypes DEF AddStream
    <3>2. home' \in [Objects -> Drives \cup {NoDrive}]  BY <2>2, <3>1 DEF AddStream
    <3>3. io_workers_' \in [Drives -> [Streams -> Objects \cup {None}]]  BY <2>2, <3>1 DEF AddStream
    <3> QED  BY <2>2, <3>1, <3>2, <3>3 DEF AddStream
  <2>a. ASSUME NEW n \in {0, 1}, Enqueue(c, d, s, n)
        PROVE  media_buffers' \in [Objects -> Nat] /\ client' \in [Clients -> ClientType]
    <3>1. PICK o \in Objects : o = io_workers_[d][s]  BY <2>a DEF Enqueue
    <3>2. media_buffers' = [media_buffers EXCEPT ![o] = @ + n] /\ media_buffers[o] + n \in Nat
      BY <2>a, <3>1 DEF Enqueue
    <3>3. client' = [client EXCEPT ![c] = [pc |-> "release", drive |-> d, stream |-> s, object |-> o]]
      BY <2>a, <3>1 DEF Enqueue
    <3> QED  BY <3>2, <3>3
  <2>3. CASE PushVideoChunkBuffer(c, d, s)
    <3>1. media_buffers' \in [Objects -> Nat] /\ client' \in [Clients -> ClientType]
      BY <2>3, <2>a DEF PushVideoChunkBuffer
    <3>2. calls' \in 0..MaxCalls  BY <2>3, ConstantTypes DEF PushVideoChunkBuffer
    <3> QED  BY <2>3, <3>1, <3>2 DEF PushVideoChunkBuffer
  <2>4. CASE FlushStream(c, d, s)
    <3>1. media_buffers' \in [Objects -> Nat] /\ client' \in [Clients -> ClientType]
      BY <2>4, <2>a DEF FlushStream
    <3>2. calls' \in 0..MaxCalls  BY <2>4, ConstantTypes DEF FlushStream
    <3> QED  BY <2>4, <3>1, <3>2 DEF FlushStream
  <2>5. CASE DeleteStream(c, d, s)
    <3>1. client' \in [Clients -> ClientType]  BY <2>5 DEF DeleteStream
    <3>2. calls' \in 0..MaxCalls  BY <2>5, ConstantTypes DEF DeleteStream
    <3> QED  BY <2>5, <3>1, <3>2 DEF DeleteStream
  <2>6. ASSUME NEW e \in Drives, RemoveIOWorker(c, d, s, e) PROVE TypeOK'
    <3>1. io_workers_[d][s] \in Objects  BY <2>6 DEF RemoveIOWorker
    <3>2. client' \in [Clients -> ClientType]  BY <2>6, <3>1 DEF RemoveIOWorker
    <3>3. io_workers_' \in [Drives -> [Streams -> Objects \cup {None}]] /\ moved' \subseteq Objects
      BY <2>6, <3>1 DEF RemoveIOWorker
    <3>4. calls' \in 0..MaxCalls  BY <2>6, ConstantTypes DEF RemoveIOWorker
    <3> QED  BY <2>6, <3>2, <3>3, <3>4 DEF RemoveIOWorker
  <2> QED  BY <2>1, <2>2, <2>3, <2>4, <2>5, <2>6
<1>2. CASE InCall(c)
  <2>1. CASE Release(c)
    <3>1. client' \in [Clients -> ClientType]
      <4>1. Goto(c, "notify")  BY <2>1 DEF Release
      <4> QED  BY ONLY TypeOK, c \in Clients, <4>1, GoesType
    <3>2. condition_release_' \in [Drives -> BOOLEAN]  BY <2>1 DEF Release
    <3> QED  BY <2>1, <3>1, <3>2 DEF Release
  <2>2. CASE Notify(c)
    <3>1. client[c].drive \in Drives  BY <2>2 DEF Notify, ClientInv
    <3>2. client' \in [Clients -> ClientType]
      <4>1. Return(c)  BY <2>2 DEF Notify
      <4> QED  BY ONLY TypeOK, c \in Clients, <4>1, GoesType
    <3>3. pc' \in [Drives -> {"top", "lock", "process", "check", "block", "blocked", "exited"}]
      <4>1. pc' = Notified(client[c].drive)  BY <2>2 DEF Notify
      <4> QED  BY ONLY TypeOK, <3>1, <4>1, NotifiedType
    <3> QED  BY <2>2, <3>2, <3>3 DEF Notify
  <2>3. CASE DeleteLock(c)
    <3>1. client' \in [Clients -> ClientType]
      <4>1. Goto(c, "erase")  BY <2>3 DEF DeleteLock
      <4> QED  BY ONLY TypeOK, c \in Clients, <4>1, GoesType
    <3> QED  BY <2>3, <3>1 DEF DeleteLock
  <2>4. CASE DeleteErase(c)
    <3>1. client[c].drive \in Drives /\ client[c].stream \in Streams  BY <2>4 DEF DeleteErase, ClientInv
    <3>2. deleted' \subseteq Objects
      <4>1. io_workers_[client[c].drive][client[c].stream] \in Objects \cup {None}  BY <3>1
      <4>2. deleted' = deleted \cup ({io_workers_[client[c].drive][client[c].stream]} \ {None})
        BY <2>4 DEF DeleteErase
      <4> QED  BY <4>1, <4>2
    <3>3. client' \in [Clients -> ClientType]
      <4>1. Return(c)  BY <2>4 DEF DeleteErase
      <4> QED  BY ONLY TypeOK, c \in Clients, <4>1, GoesType
    <3>4. io_workers_' \in [Drives -> [Streams -> Objects \cup {None}]]  BY <2>4 DEF DeleteErase
    <3> QED  BY <2>4, <3>2, <3>3, <3>4 DEF DeleteErase
  <2>5. CASE PushStream(c)
    <3>1. client[c].object \in Objects  BY <2>5 DEF PushStream, ClientInv
    <3>2. client' \in [Clients -> ClientType]  BY <2>5 DEF PushStream
    <3>3. io_workers_' \in [Drives -> [Streams -> Objects \cup {None}]]  BY <2>5, <3>1 DEF PushStream
    <3> QED  BY <2>5, <3>2, <3>3 DEF PushStream
  <2>6. CASE PushMoved(c)
    <3>1. client[c].drive \in Drives /\ client[c].stream \in Streams  BY <2>6 DEF PushMoved, ClientInv
    <3> QED  BY <2>6, <3>1 DEF PushMoved, Enqueue, Idle
  <2> QED  BY <1>2, <2>1, <2>2, <2>3, <2>4, <2>5, <2>6 DEF InCall
<1> QED  BY <1>1, <1>2

\* Every step of a drive keeps the types.
LEMMA TypeDrive ==
  ASSUME TypeOK, NEW d \in Drives,
         StopThread(d) \/ InDestructor(d) \/ RunWorkThread(d) \/ SpuriousWakeup(d)
  PROVE  TypeOK'
<1> USE DEF TypeOK, Objects, None, threadVars, objectVars
<1>0. calls \in Nat  BY ConstantTypes
<1>1. CASE StopThread(d)  BY <1>1, <1>0, ConstantTypes DEF StopThread, Destructor
<1>2. CASE StopRelease(d)  BY <1>2 DEF StopRelease, Destructor
<1>3. CASE StopNotify(d)  BY <1>3, NotifiedType DEF StopNotify, Destructor
<1>4. CASE Join(d)  BY <1>4, ConstantTypes DEF Join, Destructor
<1>5. CASE Top(d)  BY <1>5 DEF Top, Step
<1>6. CASE Snapshot(d)
  <2>1. InMap(d) \subseteq Objects  BY DEF InMap
  <2> QED  BY <1>6, <2>1 DEF Snapshot, Step
<1>7. ASSUME NEW o \in Objects, ProcessBuffer(d, o) PROVE TypeOK'  BY <1>7 DEF ProcessBuffer
<1>8. CASE PopBuffer(d)
  <2>1. processing[d] \in Objects  BY <1>8 DEF PopBuffer
  <2>2. media_buffers' \in [Objects -> Nat]
    <3>1. media_buffers[processing[d]] - 1 \in Nat  BY <1>8, <2>1 DEF PopBuffer
    <3> QED  BY <1>8, <2>1, <3>1 DEF PopBuffer
  <2>3. processing' \in [Drives -> Objects \cup {None}] /\ failed' \subseteq Objects
    BY <1>8, <2>1 DEF PopBuffer
  <2> QED  BY <1>8, <2>2, <2>3 DEF PopBuffer
<1>9. CASE ProcessedBuffer(d)  BY <1>9 DEF ProcessedBuffer
<1>10. CASE Unlock(d)  BY <1>10 DEF Unlock, Step
<1>11. CASE Check(d)  BY <1>11 DEF Check, Step
<1>12. CASE Block(d)  BY <1>12 DEF Block, Step
<1>13. CASE SpuriousWakeup(d)  BY <1>13 DEF SpuriousWakeup, Step
<1> QED
  BY <1>1, <1>2, <1>3, <1>4, <1>5, <1>6, <1>7, <1>8, <1>9, <1>10, <1>11, <1>12, <1>13
  DEF InDestructor, RunWorkThread

-----------------------------------------------------------------------------
LEMMA InvInit == Init => Inv
<1> SUFFICES ASSUME Init PROVE Inv  OBVIOUS
<1>1. TypeOK  BY TypeInit
<1>2. ClientInv /\ LockInv  BY DEF Init, ClientInv, LockInv, Idle
<1>3. ThreadInv /\ CreatedInv /\ HomeInv /\ DeletedNotProcessed
  BY DEF Init, ThreadInv, CreatedInv, HomeInv, DeletedNotProcessed, None
<1> QED  BY <1>1, <1>2, <1>3 DEF Inv

\* A step keeps the types: of a client, of a drive, or a stutter.
LEMMA TypeStep ==
  ASSUME TypeOK, ClientInv, [Next]_vars
  PROVE  TypeOK'
<1>1. CASE Next
  <2>1. ASSUME NEW c \in Clients, Calls(c) \/ InCall(c) PROVE TypeOK'  BY <2>1, TypeClient
  <2>2. ASSUME NEW d \in Drives, StopThread(d) \/ InDestructor(d) \/ RunWorkThread(d) \/ SpuriousWakeup(d)
        PROVE TypeOK'
    BY <2>2, TypeDrive
  <2> QED  BY <1>1, <2>1, <2>2 DEF Next
<1>2. CASE UNCHANGED vars
  BY <1>2 DEF vars, TypeOK, ClientType, threadVars, objectVars
<1> QED  BY <1>1, <1>2

-----------------------------------------------------------------------------
\* What a step of client c does to the clients.
ClientStep(c) ==
  /\ \A b \in Clients \ {c} : client'[b] = client[b]
  /\ moved \subseteq moved'
  /\ client'[c].pc # "idle" => client'[c].drive \in Drives /\ client'[c].stream \in Streams
  /\ client'[c].pc = "move" => client'[c].object \in moved'

LEMMA ClientSteps ==
  ASSUME TypeOK, ClientInv, NEW c \in Clients, Calls(c) \/ InCall(c)
  PROVE  ClientStep(c)
<1> USE DEF ClientStep, Call, At, Goto, Return, objectVars, TypeOK, ClientType
<1>1. CASE Calls(c)
  <2>1. PICK d \in Drives, s \in Streams :
          \/ AddStream(c, d, s) \/ PushVideoChunkBuffer(c, d, s) \/ FlushStream(c, d, s)
          \/ DeleteStream(c, d, s)
          \/ \E e \in Drives : RemoveIOWorker(c, d, s, e)
    BY <1>1 DEF Calls
  <2>2. CASE AddStream(c, d, s)  BY <2>2 DEF AddStream
  <2>3. CASE PushVideoChunkBuffer(c, d, s)  BY <2>3 DEF PushVideoChunkBuffer, Enqueue
  <2>4. CASE FlushStream(c, d, s)  BY <2>4 DEF FlushStream, Enqueue
  <2>5. CASE DeleteStream(c, d, s)  BY <2>5 DEF DeleteStream
  <2>6. ASSUME NEW e \in Drives, RemoveIOWorker(c, d, s, e) PROVE ClientStep(c)
    BY <2>6 DEF RemoveIOWorker
  <2> QED  BY <2>1, <2>2, <2>3, <2>4, <2>5, <2>6
<1>2. CASE InCall(c)
  <2> USE DEF ClientInv
  <2>1. CASE Release(c)  BY <2>1 DEF Release
  <2>2. CASE Notify(c)  BY <2>2 DEF Notify, Idle
  <2>3. CASE DeleteLock(c)  BY <2>3 DEF DeleteLock
  <2>4. CASE DeleteErase(c)  BY <2>4 DEF DeleteErase, Idle
  <2>5. CASE PushStream(c)  BY <2>5 DEF PushStream
  <2>6. CASE PushMoved(c)  BY <2>6 DEF PushMoved, Enqueue, Idle
  <2> QED  BY <1>2, <2>1, <2>2, <2>3, <2>4, <2>5, <2>6 DEF InCall
<1> QED  BY <1>1, <1>2

\* What a step of drive d does to the clients and the history: nothing.
LEMMA DriveSteps ==
  ASSUME NEW d \in Drives, StopThread(d) \/ InDestructor(d) \/ RunWorkThread(d) \/ SpuriousWakeup(d)
  PROVE  UNCHANGED <<client, objectVars>>
BY DEF StopThread, InDestructor, StopRelease, StopNotify, Join, Destructor, RunWorkThread, Top,
       Snapshot, ProcessBuffer, PopBuffer, ProcessedBuffer, Unlock, Check, Block, SpuriousWakeup, Step

LEMMA ClientInvStep ==
  ASSUME TypeOK, ClientInv, [Next]_vars
  PROVE  ClientInv'
<1>1. ASSUME NEW c \in Clients, Calls(c) \/ InCall(c) PROVE ClientInv'
  BY <1>1, ClientSteps DEF ClientInv, ClientStep
<1>2. ASSUME NEW d \in Drives, StopThread(d) \/ InDestructor(d) \/ RunWorkThread(d) \/ SpuriousWakeup(d)
      PROVE ClientInv'
  BY <1>2, DriveSteps DEF ClientInv, objectVars
<1>3. CASE UNCHANGED vars  BY <1>3 DEF vars, objectVars, ClientInv
<1> QED  BY <1>1, <1>2, <1>3 DEF Next

-----------------------------------------------------------------------------
\* For any constants, the variables of the threads keep their types (ArchiveWorker's
\* and its clients' fields).
THEOREM TypeCorrect == Spec => []TypeOK
<1>1. Init => TypeOK /\ ClientInv
  BY TypeInit DEF Init, ClientInv, Idle
<1>2. TypeOK /\ ClientInv /\ [Next]_vars => (TypeOK /\ ClientInv)'
  BY TypeStep, ClientInvStep
<1> QED  BY <1>1, <1>2, PTL DEF Spec

-----------------------------------------------------------------------------
\* A client leaves the threads alone, but for one that it wakes up.
LEMMA ClientThreads ==
  ASSUME TypeOK, ClientInv, NEW c \in Clients, Calls(c) \/ InCall(c)
  PROVE  /\ UNCHANGED <<io_workers_v, processing>>
         /\ \A d \in Drives : pc'[d] = "process" <=> pc[d] = "process"
<1>1. CASE Notify(c)
  <2>1. client[c].drive \in Drives  BY <1>1 DEF Notify, At, ClientInv
  <2> QED  BY <1>1, <2>1, NotifiedType DEF Notify
<1>2. CASE ~Notify(c)
  BY <1>2 DEF Calls, InCall, AddStream, PushVideoChunkBuffer, FlushStream, DeleteStream,
     RemoveIOWorker, Release, DeleteLock, DeleteErase, PushStream, PushMoved, threadVars
<1> QED  BY <1>1, <1>2

LEMMA ThreadInvStep ==
  ASSUME TypeOK, ClientInv, ThreadInv, [Next]_vars
  PROVE  ThreadInv'
<1> USE DEF ThreadInv, TypeOK
<1>1. ASSUME NEW c \in Clients, Calls(c) \/ InCall(c) PROVE ThreadInv'
  BY <1>1, ClientThreads
<1>2. ASSUME NEW d \in Drives, StopThread(d) \/ InDestructor(d) \/ RunWorkThread(d) \/ SpuriousWakeup(d)
      PROVE ThreadInv'
  <2>1. CASE StopThread(d) \/ StopRelease(d) \/ Join(d)
    BY <2>1 DEF StopThread, StopRelease, Join, Destructor
  <2>2. CASE StopNotify(d)  BY <2>2, NotifiedType DEF StopNotify, Destructor
  <2>3. CASE Top(d) \/ Check(d) \/ Block(d) \/ SpuriousWakeup(d)
    BY <2>3 DEF Top, Check, Block, SpuriousWakeup, Step
  <2>4. CASE Snapshot(d)  BY <2>4 DEF Snapshot, Step
  <2>5. ASSUME NEW o \in Objects, ProcessBuffer(d, o) PROVE ThreadInv'  BY <2>5 DEF ProcessBuffer
  <2>6. CASE PopBuffer(d)  BY <2>6 DEF PopBuffer
  <2>7. CASE ProcessedBuffer(d)  BY <2>7 DEF ProcessedBuffer
  <2>8. CASE Unlock(d)  BY <2>8 DEF Unlock, Step
  <2> QED  BY <1>2, <2>1, <2>2, <2>3, <2>4, <2>5, <2>6, <2>7, <2>8 DEF InDestructor, RunWorkThread
<1>3. CASE UNCHANGED vars  BY <1>3 DEF vars, threadVars
<1> QED  BY <1>1, <1>2, <1>3 DEF Next

\* A client comes to erase when the thread does not hold the lock, and the thread
\* takes the lock when no client erases.
LEMMA LockInvStep ==
  ASSUME TypeOK, ClientInv, LockInv, [Next]_vars
  PROVE  LockInv'
<1> USE DEF LockInv
<1>1. ASSUME NEW c \in Clients, Calls(c) \/ InCall(c) PROVE LockInv'
  <2>1. \A b \in Clients \ {c} : client'[b] = client[b]  BY <1>1, ClientSteps DEF ClientStep
  <2>2. \A d \in Drives : pc'[d] = "process" <=> pc[d] = "process"  BY <1>1, ClientThreads
  <2>3. client'[c].pc = "erase" => client'[c].drive \in Drives /\ pc[client'[c].drive] # "process"
    <3>1. CASE DeleteLock(c)
      <4>1. client'[c].drive = client[c].drive  BY <3>1 DEF DeleteLock, Goto, TypeOK, ClientType
      <4>2. client[c].drive \in Drives  BY <3>1 DEF DeleteLock, At, ClientInv
      <4> QED  BY <3>1, <4>1, <4>2 DEF DeleteLock
    <3>2. CASE ~DeleteLock(c)
      <4>1. client'[c].pc = "erase" => client'[c] = client[c]
        <5>1. CASE Calls(c)
          BY <5>1 DEF TypeOK, ClientType, Calls, AddStream, PushVideoChunkBuffer, FlushStream,
             DeleteStream, RemoveIOWorker, Enqueue
        <5>2. CASE InCall(c)
          BY <3>2, <5>2 DEF TypeOK, ClientType, InCall, Enqueue, Release, Notify, DeleteErase,
             PushStream, PushMoved, Goto, Return, Idle
        <5> QED  BY <1>1, <5>1, <5>2
      <4> QED  BY <4>1 DEF ClientInv
    <3> QED  BY <3>1, <3>2
  <2>4. \A b \in Clients \ {c} : client[b].pc = "erase" => client[b].drive \in Drives  BY DEF ClientInv
  <2> QED  BY <2>1, <2>2, <2>3, <2>4
<1>2. ASSUME NEW d \in Drives, StopThread(d) \/ InDestructor(d) \/ RunWorkThread(d) \/ SpuriousWakeup(d)
      PROVE LockInv'
  <2>1. UNCHANGED client  BY <1>2, DriveSteps
  <2>2. CASE Snapshot(d)
    <3>1. \A c \in Clients : client[c].pc = "erase" => client[c].drive # d
      BY <2>2 DEF Snapshot, Erasing, At
    <3>2. \A e \in Drives \ {d} : pc'[e] = pc[e]  BY <2>2 DEF Snapshot, Step, TypeOK
    <3> QED  BY <2>1, <3>1, <3>2 DEF ClientInv
  <2>3. CASE ~Snapshot(d)
    <3>1. \A e \in Drives : pc'[e] = "process" => pc[e] = "process"
      BY <1>2, <2>3, NotifiedType DEF TypeOK, StopThread, InDestructor, StopRelease, StopNotify, Join,
         Destructor, RunWorkThread, Top, ProcessBuffer, PopBuffer, ProcessedBuffer, Unlock,
         Check, Block, SpuriousWakeup, Step
    <3> QED  BY <2>1, <3>1 DEF ClientInv
  <2> QED  BY <2>2, <2>3
<1>3. CASE UNCHANGED vars  BY <1>3 DEF vars, threadVars
<1> QED  BY <1>1, <1>2, <1>3 DEF Next

-----------------------------------------------------------------------------
Placed == CreatedInv /\ HomeInv /\ DeletedNotProcessed

\* A step that leaves the maps, and gives no thread an IOWorker it had not.
LEMMA PlacedKept ==
  ASSUME TypeOK, Placed,
         UNCHANGED <<io_workers_, objectVars>>,
         \A d \in Drives : /\ io_workers_v'[d] \subseteq io_workers_v[d]
                          /\ processing'[d] \in {processing[d], None} \cup io_workers_v[d]
  PROVE  Placed'
<1> USE DEF objectVars
<1>1. CreatedInv'  BY DEF Placed, CreatedInv, TypeOK, None
<1>2. HomeInv'  BY DEF Placed, HomeInv
<1>3. DeletedNotProcessed'
  <2> SUFFICES ASSUME NEW o \in deleted \ moved, NEW d \in Drives
               PROVE  processing'[d] # o /\ o \notin io_workers_v'[d]
    BY DEF DeletedNotProcessed
  <2>1. processing[d] # o /\ o \notin io_workers_v[d]  BY DEF Placed, DeletedNotProcessed
  <2>2. o # None  BY DEF TypeOK, Objects, None
  <2> QED  BY <2>1, <2>2
<1> QED  BY <1>1, <1>2, <1>3 DEF Placed

\* AddStream: the new IOWorker is in no map, copy or hand, and not deleted.
LEMMA PlacedAdd ==
  ASSUME TypeOK, Placed, NEW c \in Clients, NEW d \in Drives, NEW s \in Streams, AddStream(c, d, s)
  PROVE  Placed'
<1>0. /\ created' = created + 1 /\ created \in Nat /\ created' \in Objects
      /\ home' = [home EXCEPT ![created'] = d]
      /\ io_workers_' = [io_workers_ EXCEPT ![d][s] = created']
      /\ UNCHANGED <<io_workers_v, processing, deleted, moved>>
  BY ConstantTypes DEF AddStream, threadVars, TypeOK, Objects
<1>1. CreatedInv'
  <2>0. \A e \in Drives, t \in Streams : io_workers_[e][t] \in Nat /\ io_workers_[e][t] <= created
    BY DEF Placed, CreatedInv, TypeOK, Objects, None
  <2>1. \A e \in Drives : \A t \in Streams : io_workers_'[e][t] <= created'
    <3>1. \A e \in Drives, t \in Streams : io_workers_'[e][t] \in {created', io_workers_[e][t]}
      BY <1>0 DEF TypeOK
    <3> QED  BY <1>0, <2>0, <3>1
  <2>2. \A e \in Drives : \A o \in io_workers_v[e] : o <= created'
    BY <1>0 DEF Placed, CreatedInv, TypeOK, Objects
  <2>3. \A e \in Drives : processing[e] <= created'
    <3> SUFFICES ASSUME NEW e \in Drives  PROVE processing[e] <= created'  OBVIOUS
    <3>1. processing[e] \in Objects \cup {None}  BY DEF TypeOK
    <3>2. processing[e] \in Nat  BY <3>1 DEF Objects, None
    <3>3. processing[e] <= created  BY DEF Placed, CreatedInv
    <3>4. created' = created + 1 /\ created \in Nat  BY <1>0
    <3> QED  BY <3>2, <3>3, <3>4
  <2>4. \A o \in deleted \cup moved : o <= created'  BY <1>0 DEF Placed, CreatedInv, TypeOK, Objects
  <2> QED  BY <1>0, <2>1, <2>2, <2>3, <2>4 DEF CreatedInv
<1>2. HomeInv'
  <2> SUFFICES ASSUME NEW e \in Drives
               PROVE  /\ \A t \in Streams : io_workers_'[e][t] \notin moved \cup {None} =>
                           /\ home'[io_workers_'[e][t]] = e /\ io_workers_'[e][t] \notin deleted
                           /\ \A u \in Streams : io_workers_'[e][u] = io_workers_'[e][t] => u = t
                      /\ \A o \in io_workers_v[e] \ moved : home'[o] = e
                      /\ processing[e] \notin moved \cup {None} => home'[processing[e]] = e
    BY <1>0 DEF HomeInv
  <2>1. \A o \in Objects : o <= created => home'[o] = home[o]  BY <1>0 DEF TypeOK
  <2>2. created' \notin deleted /\ home'[created'] = d  BY <1>0 DEF Placed, CreatedInv, TypeOK
  <2>3. \A t \in Streams : io_workers_[e][t] <= created /\ io_workers_[e][t] # created'
    BY <1>0 DEF Placed, CreatedInv, TypeOK, Objects, None
  <2>4. \A t \in Streams : io_workers_'[e][t] =
          IF e = d /\ t = s THEN created' ELSE io_workers_[e][t]
    BY <1>0 DEF TypeOK
  <2>5. \A t \in Streams : io_workers_'[e][t] \notin moved \cup {None} =>
          /\ home'[io_workers_'[e][t]] = e /\ io_workers_'[e][t] \notin deleted
          /\ \A u \in Streams : io_workers_'[e][u] = io_workers_'[e][t] => u = t
    <3> TAKE t \in Streams
    <3> HAVE io_workers_'[e][t] \notin moved \cup {None}
    <3>1. CASE e = d /\ t = s  BY <3>1, <2>2, <2>3, <2>4
    <3>2. CASE ~(e = d /\ t = s)
      <4>1. io_workers_'[e][t] = io_workers_[e][t]  BY <3>2, <2>4
      <4>2. io_workers_[e][t] \in Objects  BY <4>1 DEF TypeOK
      <4>3. /\ home[io_workers_[e][t]] = e /\ io_workers_[e][t] \notin deleted
            /\ \A u \in Streams : io_workers_[e][u] = io_workers_[e][t] => u = t
        BY <4>1 DEF Placed, HomeInv
      <4> QED  BY <4>1, <4>2, <4>3, <2>1, <2>3, <2>4
    <3> QED  BY <3>1, <3>2
  <2>6. \A o \in io_workers_v[e] \ moved : home'[o] = e
    BY <2>1 DEF Placed, HomeInv, CreatedInv, TypeOK
  <2>7. processing[e] \notin moved \cup {None} => home'[processing[e]] = e
    BY <2>1 DEF Placed, HomeInv, CreatedInv, TypeOK
  <2> QED  BY <2>5, <2>6, <2>7
<1>3. DeletedNotProcessed'  BY <1>0 DEF Placed, DeletedNotProcessed
<1> QED  BY <1>1, <1>2, <1>3 DEF Placed

\* DeleteErase: under the lock, the thread of the drive has no IOWorker in hand.
LEMMA PlacedErase ==
  ASSUME TypeOK, ClientInv, ThreadInv, LockInv, Placed, NEW c \in Clients, DeleteErase(c)
  PROVE  Placed'
<1> DEFINE d == client[c].drive
           s == client[c].stream
           gone == io_workers_[d][s]
<1>0. /\ d \in Drives /\ s \in Streams
      /\ pc[d] # "process"
      /\ deleted' = deleted \cup ({gone} \ {None})
      /\ io_workers_' = [io_workers_ EXCEPT ![d][s] = None]
      /\ UNCHANGED <<io_workers_v, processing, created, home, moved>>
  BY DEF DeleteErase, At, ClientInv, LockInv, threadVars
<1> HIDE DEF d, s
<1>1. \A e \in Drives, t \in Streams : io_workers_'[e][t] =
        IF e = d /\ t = s THEN None ELSE io_workers_[e][t]
  BY <1>0 DEF TypeOK
<1>2. io_workers_v[d] = {} /\ processing[d] = None  BY <1>0 DEF ThreadInv
<1>3. CreatedInv'
  <2>1. gone <= created /\ 0 <= created  BY <1>0 DEF Placed, CreatedInv, TypeOK
  <2>2. \A o \in deleted' \cup moved : o <= created  BY <1>0, <2>1 DEF Placed, CreatedInv
  <2>3. \A e \in Drives, t \in Streams : io_workers_'[e][t] <= created
    BY <1>0, <1>1, <2>1 DEF Placed, CreatedInv, None
  <2> QED  BY <1>0, <2>2, <2>3 DEF Placed, CreatedInv
<1>4. HomeInv'
  <2>1. ASSUME NEW e \in Drives, NEW t \in Streams, io_workers_'[e][t] \notin moved \cup {None}
        PROVE  /\ home[io_workers_'[e][t]] = e /\ io_workers_'[e][t] \notin deleted'
               /\ \A u \in Streams : io_workers_'[e][u] = io_workers_'[e][t] => u = t
    <3>1. ~(e = d /\ t = s) /\ io_workers_'[e][t] = io_workers_[e][t]  BY <1>1, <2>1
    <3>2. /\ home[io_workers_[e][t]] = e /\ io_workers_[e][t] \notin deleted
          /\ \A u \in Streams : io_workers_[e][u] = io_workers_[e][t] => u = t
      BY <2>1, <3>1 DEF Placed, HomeInv
    <3>3. io_workers_[e][t] # gone
      <4>1. SUFFICES ASSUME io_workers_[e][t] = gone PROVE FALSE  OBVIOUS
      <4>2. home[gone] = d  BY <1>0, <2>1, <3>1, <4>1 DEF Placed, HomeInv
      <4>3. e = d  BY <3>2, <4>1, <4>2
      <4> QED  BY <1>0, <3>1, <3>2, <4>1, <4>3
    <3> QED  BY <1>0, <1>1, <2>1, <3>1, <3>2, <3>3
  <2> QED  BY <1>0, <2>1 DEF Placed, HomeInv
<1>5. DeletedNotProcessed'
  <2> SUFFICES ASSUME NEW o \in deleted' \ moved, NEW e \in Drives
               PROVE  processing[e] # o /\ o \notin io_workers_v[e]
    BY <1>0 DEF DeletedNotProcessed
  <2>1. CASE o \in deleted  BY <2>1 DEF Placed, DeletedNotProcessed
  <2>2. CASE o = gone /\ gone # None
    <3>1. home[gone] = d  BY <1>0, <2>2 DEF Placed, HomeInv
    <3>2. CASE e = d  BY <1>2, <2>2, <3>2
    <3>3. CASE e # d  BY <2>2, <3>1, <3>3 DEF Placed, HomeInv
    <3> QED  BY <3>2, <3>3
  <2> QED  BY <1>0, <2>1, <2>2
<1> QED  BY <1>3, <1>4, <1>5 DEF Placed

\* A map loses or takes IOWorkers that count as moved: RemoveIOWorker, PushStream, Join.
LEMMA PlacedMoved ==
  ASSUME TypeOK, Placed,
         UNCHANGED <<io_workers_v, processing, created, home, deleted>>,
         moved \subseteq moved', moved' \subseteq Objects,
         io_workers_' \in [Drives -> [Streams -> Objects \cup {None}]],
         \A d \in Drives, s \in Streams : io_workers_'[d][s] \in {io_workers_[d][s], None} \cup moved',
         \A o \in moved' : o <= created
  PROVE  Placed'
<1>1. CreatedInv'
  <2>1. 0 <= created  BY DEF TypeOK
  <2>2. \A d \in Drives, s \in Streams : io_workers_'[d][s] <= created
    BY <2>1 DEF Placed, CreatedInv, None
  <2> QED  BY <2>2 DEF Placed, CreatedInv
<1>2. HomeInv'
  <2>1. ASSUME NEW d \in Drives, NEW s \in Streams, io_workers_'[d][s] \notin moved' \cup {None}
        PROVE  /\ home[io_workers_'[d][s]] = d /\ io_workers_'[d][s] \notin deleted
               /\ \A t \in Streams : io_workers_'[d][t] = io_workers_'[d][s] => t = s
    BY <2>1 DEF Placed, HomeInv
  <2> QED  BY <2>1 DEF Placed, HomeInv
<1>3. DeletedNotProcessed'  BY DEF Placed, DeletedNotProcessed
<1> QED  BY <1>1, <1>2, <1>3 DEF Placed

LEMMA PlacedStep ==
  ASSUME Inv, [Next]_vars
  PROVE  Placed'
<1> USE DEF Inv
<1>0. Placed  BY DEF Placed
<1>1. ASSUME NEW c \in Clients, Calls(c) \/ InCall(c) PROVE Placed'
  <2>1. UNCHANGED <<io_workers_v, processing>>  BY <1>1, ClientThreads
  <2>2. ASSUME NEW d \in Drives, NEW s \in Streams, AddStream(c, d, s) PROVE Placed'
    BY <1>0, <2>2, PlacedAdd
  <2>3. CASE DeleteErase(c)  BY <1>0, <2>3, PlacedErase
  <2>4. ASSUME NEW d \in Drives, NEW s \in Streams, NEW e \in Drives, RemoveIOWorker(c, d, s, e)
        PROVE Placed'
    <3>1. /\ io_workers_[d][s] \in Objects /\ moved' = moved \cup {io_workers_[d][s]}
          /\ io_workers_' = [io_workers_ EXCEPT ![d][s] = None]
          /\ UNCHANGED <<created, home, deleted>>
      BY <2>4 DEF RemoveIOWorker, TypeOK
    <3>2. \A o \in moved' : o <= created  BY <3>1 DEF CreatedInv
    <3>3. /\ moved' \subseteq Objects
          /\ io_workers_' \in [Drives -> [Streams -> Objects \cup {None}]]
          /\ \A f \in Drives, t \in Streams : io_workers_'[f][t] \in {io_workers_[f][t], None}
      BY <3>1 DEF TypeOK
    <3> QED  BY <1>0, <2>1, <3>1, <3>2, <3>3, PlacedMoved
  <2>5. CASE PushStream(c)
    <3>1. /\ client[c].object \in moved
          /\ io_workers_' = [io_workers_ EXCEPT ![client[c].drive][client[c].stream] = client[c].object]
          /\ UNCHANGED <<created, home, deleted, moved>>
      BY <2>5 DEF PushStream, At, ClientInv, objectVars
    <3>2. /\ moved \subseteq Objects
          /\ io_workers_' \in [Drives -> [Streams -> Objects \cup {None}]]
          /\ \A f \in Drives, t \in Streams :
               io_workers_'[f][t] \in {io_workers_[f][t], client[c].object}
      BY <3>1 DEF TypeOK
    <3>3. \A o \in moved : o <= created  BY DEF CreatedInv
    <3> QED  BY <1>0, <2>1, <3>1, <3>2, <3>3, PlacedMoved
  <2>6. ASSUME UNCHANGED <<io_workers_, objectVars>> PROVE Placed'
    BY <1>0, <2>1, <2>6, PlacedKept
  <2>7. \/ \E d \in Drives, s \in Streams :
             AddStream(c, d, s) \/ \E e \in Drives : RemoveIOWorker(c, d, s, e)
        \/ DeleteErase(c) \/ PushStream(c)
        \/ UNCHANGED <<io_workers_, objectVars>>
    BY <1>1 DEF Calls, InCall, PushVideoChunkBuffer, FlushStream, DeleteStream, Release, Notify,
       DeleteLock, PushMoved
  <2> QED  BY <2>2, <2>3, <2>4, <2>5, <2>6, <2>7
<1>2. ASSUME NEW d \in Drives, StopThread(d) \/ InDestructor(d) \/ RunWorkThread(d) \/ SpuriousWakeup(d)
      PROVE Placed'
  <2>1. UNCHANGED objectVars  BY <1>2, DriveSteps
  <2>2. CASE Join(d)
    <3>1. /\ io_workers_' = [io_workers_ EXCEPT ![d] = [s \in Streams |-> None]]
          /\ UNCHANGED <<io_workers_v, processing>>
      BY <2>2 DEF Join, Destructor
    <3>2. /\ moved \subseteq Objects
          /\ io_workers_' \in [Drives -> [Streams -> Objects \cup {None}]]
          /\ \A f \in Drives, t \in Streams : io_workers_'[f][t] \in {io_workers_[f][t], None}
      BY <3>1 DEF TypeOK
    <3>3. \A o \in moved : o <= created  BY DEF CreatedInv
    <3> QED  BY <1>0, <2>1, <3>1, <3>2, <3>3, PlacedMoved DEF objectVars
  <2>3. CASE Snapshot(d)
    <3>1. /\ io_workers_v' = [io_workers_v EXCEPT ![d] = InMap(d)]
          /\ UNCHANGED <<io_workers_, processing, created, home, deleted, moved>>
      BY <2>1, <2>3 DEF Snapshot, Step, objectVars
    <3>2. \A o \in InMap(d) \ moved : home[o] = d /\ o \notin deleted
      BY DEF InMap, HomeInv
    <3>3. \A o \in InMap(d) : o <= created  BY DEF InMap, CreatedInv
    <3>4. \A e \in Drives : io_workers_v'[e] = IF e = d THEN InMap(d) ELSE io_workers_v[e]
      BY <3>1 DEF TypeOK
    <3>5. CreatedInv'  BY <3>1, <3>3, <3>4 DEF CreatedInv
    <3>6. HomeInv'  BY <3>1, <3>2, <3>4 DEF HomeInv
    <3>7. DeletedNotProcessed'  BY <3>1, <3>2, <3>4 DEF DeletedNotProcessed
    <3> QED  BY <3>5, <3>6, <3>7 DEF Placed
  <2>4. CASE ~Join(d) /\ ~Snapshot(d)
    <3>1. UNCHANGED io_workers_
      BY <1>2, <2>4 DEF StopThread, InDestructor, StopRelease, StopNotify, RunWorkThread, Top,
         ProcessBuffer, PopBuffer, ProcessedBuffer, Unlock, Check, Block, SpuriousWakeup, Step
    <3>2. \A e \in Drives : /\ io_workers_v'[e] \subseteq io_workers_v[e]
                           /\ processing'[e] \in {processing[e], None} \cup io_workers_v[e]
      <4>1. ASSUME NEW o \in Objects, ProcessBuffer(d, o)
            PROVE  \A e \in Drives : /\ io_workers_v'[e] \subseteq io_workers_v[e]
                                    /\ processing'[e] \in {processing[e], None} \cup io_workers_v[e]
        BY <4>1 DEF ProcessBuffer, TypeOK
      <4>2. CASE PopBuffer(d) \/ ProcessedBuffer(d)
        BY <4>2 DEF PopBuffer, ProcessedBuffer, TypeOK
      <4>3. CASE UNCHANGED <<io_workers_v, processing>>  BY <4>3
      <4> QED
        BY <1>2, <2>4, <4>1, <4>2, <4>3 DEF StopThread, InDestructor, StopRelease, StopNotify,
           Destructor, RunWorkThread, Top, Unlock, Check, Block, SpuriousWakeup, Step
    <3> QED  BY <1>0, <2>1, <3>1, <3>2, PlacedKept
  <2> QED  BY <2>2, <2>3, <2>4
<1>3. CASE UNCHANGED vars
  BY <1>0, <1>3, PlacedKept DEF vars, threadVars
<1> QED  BY <1>1, <1>2, <1>3 DEF Next

-----------------------------------------------------------------------------
LEMMA InvStep ==
  ASSUME Inv, [Next]_vars
  PROVE  Inv'
<1>1. TypeOK' /\ ClientInv'  BY TypeStep, ClientInvStep DEF Inv
<1>2. ThreadInv' /\ LockInv'  BY ThreadInvStep, LockInvStep DEF Inv
<1>3. Placed'  BY PlacedStep
<1> QED  BY <1>1, <1>2, <1>3 DEF Inv, Placed

\* For any drives, streams, clients and calls, an IOWorker that DeleteStream erased is
\* neither being processed nor in a thread's copy, unless it was moved to another
\* drive (mtx_io_delete_).
THEOREM DeletedSafe == Spec => []DeletedNotProcessed
<1>1. Inv => DeletedNotProcessed  BY DEF Inv
<1> QED  BY <1>1, InvInit, InvStep, PTL DEF Spec

-----------------------------------------------------------------------------
\* A drive is gone when its thread has ended, and a thread that has ended stays so.
GoneInv == \A d \in Drives : destructor[d] = "gone" => pc[d] = "exited"

LEMMA GoneStep ==
  ASSUME Inv, GoneInv, [Next]_vars
  PROVE  GoneInv'
<1> USE DEF Inv, TypeOK, GoneInv
<1>1. ASSUME NEW c \in Clients, Calls(c) \/ InCall(c) PROVE GoneInv'
  <2>1. UNCHANGED destructor
    BY <1>1 DEF Calls, InCall, AddStream, PushVideoChunkBuffer, FlushStream, DeleteStream,
       RemoveIOWorker, Release, Notify, DeleteLock, DeleteErase, PushStream, PushMoved
  <2>2. \A d \in Drives : pc[d] = "exited" => pc'[d] = "exited"
    <3>1. CASE Notify(c)  BY <3>1 DEF Notify, Notified
    <3>2. CASE ~Notify(c)
      BY <1>1, <3>2 DEF Calls, InCall, AddStream, PushVideoChunkBuffer, FlushStream, DeleteStream,
         RemoveIOWorker, Release, DeleteLock, DeleteErase, PushStream, PushMoved, threadVars
    <3> QED  BY <3>1, <3>2
  <2> QED  BY <2>1, <2>2
<1>2. ASSUME NEW d \in Drives, StopThread(d) \/ InDestructor(d) \/ RunWorkThread(d) \/ SpuriousWakeup(d)
      PROVE GoneInv'
  <2>1. CASE StopThread(d) \/ StopRelease(d)  BY <2>1 DEF StopThread, StopRelease, Destructor
  <2>2. CASE StopNotify(d)  BY <2>2 DEF StopNotify, Destructor, Notified
  <2>3. CASE Join(d)  BY <2>3 DEF Join, Destructor
  <2>4. CASE RunWorkThread(d) \/ SpuriousWakeup(d)
    BY <2>4 DEF RunWorkThread, Top, Snapshot, ProcessBuffer, PopBuffer, ProcessedBuffer, Unlock,
       Check, Block, SpuriousWakeup, Step
  <2> QED  BY <1>2, <2>1, <2>2, <2>3, <2>4 DEF InDestructor
<1>3. CASE UNCHANGED vars  BY <1>3 DEF vars, threadVars
<1> QED  BY <1>1, <1>2, <1>3 DEF Next

\* For any drives, streams, clients and calls, the ArchiveWorker an IOWorker reports to
\* is there as long as a thread processes it, unless it was moved: the thread that has
\* it in hand is the one of its home, which the destructor waits for.
THEOREM ReporterThere == Spec => []ReporterAlive
<1>1. Init => Inv /\ GoneInv  BY InvInit DEF Init, GoneInv
<1>2. Inv /\ GoneInv /\ [Next]_vars => (Inv /\ GoneInv)'  BY InvStep, GoneStep
<1>3. Inv /\ GoneInv => ReporterAlive
  BY DEF Inv, GoneInv, ReporterAlive, HomeInv, ThreadInv
<1> QED  BY <1>1, <1>2, <1>3, PTL DEF Spec

-----------------------------------------------------------------------------
(***************************************************************************)
(* Why nothing waits unnoticed. What is queued for an IOWorker is known to *)
(* the drive that has it in its map: the condition is set, or a client is  *)
(* about to set it, or the thread still comes to the IOWorker before it    *)
(* looks at the condition. An IOWorker must be in one map only: a push     *)
(* sets the condition of one drive.                                        *)
(***************************************************************************)
OnePlace ==
  /\ \A d, e \in Drives, s, t \in Streams :
       io_workers_[d][s] = io_workers_[e][t] /\ io_workers_[d][s] # None => d = e /\ s = t
  /\ \A c \in Clients : At(c, "move") =>
       /\ \A d \in Drives, s \in Streams : io_workers_[d][s] # client[c].object
       /\ \A b \in Clients : At(b, "move") /\ client[b].object = client[c].object => b = c

Expected(d, s) ==
  \E c \in Clients : client[c].drive = d /\ (At(c, "release") \/ (At(c, "push") /\ client[c].stream = s))

InHand(d, o) ==
  pc[d] \in {"top", "lock", "exited"} \/ o \in io_workers_v[d] \/ processing[d] = o

Known(d, s) ==
  io_workers_[d][s] \notin failed \cup {None} /\ media_buffers[io_workers_[d][s]] > 0 =>
    condition_release_[d] \/ Expected(d, s) \/ InHand(d, io_workers_[d][s])

ServedInv == \A d \in Drives, s \in Streams : Known(d, s)

\* A client's step that touches no map and takes nothing to move.
LEMMA PlaceKept ==
  ASSUME Inv, OnePlace, UNCHANGED io_workers_,
         \A c \in Clients : client'[c].pc = "move" => client'[c] = client[c]
  PROVE  OnePlace'
BY DEF OnePlace, At

LEMMA PlaceStep ==
  ASSUME Inv, OnePlace, [Next]_vars
  PROVE  OnePlace'
<1> USE DEF Inv
<1>1. ASSUME NEW c \in Clients, Calls(c) \/ InCall(c) PROVE OnePlace'
  <2>0. \A b \in Clients \ {c} : client'[b] = client[b]  BY <1>1, ClientSteps DEF ClientStep
  <2>1. ASSUME NEW d \in Drives, NEW s \in Streams, AddStream(c, d, s) PROVE OnePlace'
    <3>1. /\ created' = created + 1 /\ created \in Nat
          /\ io_workers_' = [io_workers_ EXCEPT ![d][s] = created'] /\ UNCHANGED client
      BY <2>1, ConstantTypes DEF AddStream, TypeOK
    <3>2. \A e \in Drives, t \in Streams :
            io_workers_'[e][t] = IF e = d /\ t = s THEN created' ELSE io_workers_[e][t]
      BY <3>1 DEF TypeOK
    <3>3. \A e \in Drives, t \in Streams : io_workers_[e][t] # created'
      BY <3>1 DEF CreatedInv, TypeOK, Objects, None
    <3>4. \A b \in Clients : At(b, "move") => client[b].object # created'
      BY <3>1 DEF At, ClientInv, CreatedInv, TypeOK, Objects
    <3>5. \A e, f \in Drives, t, u \in Streams :
            io_workers_'[e][t] = io_workers_'[f][u] /\ io_workers_'[e][t] # None => e = f /\ t = u
      BY <3>2, <3>3 DEF OnePlace
    <3> QED  BY <3>1, <3>2, <3>4, <3>5 DEF OnePlace, At
  <2>2. CASE DeleteErase(c)
    <3>1. io_workers_' = [io_workers_ EXCEPT ![client[c].drive][client[c].stream] = None]
      BY <2>2 DEF DeleteErase
    <3>2. \A e \in Drives, t \in Streams : io_workers_'[e][t] \in {io_workers_[e][t], None}
      BY <3>1 DEF TypeOK
    <3>3. client'[c].pc = "idle"  BY <2>2 DEF DeleteErase, Return, Idle, TypeOK
    <3>4. \A b \in Clients : At(b, "move")' => At(b, "move") /\ client'[b] = client[b] /\ client[b].object # None
      BY <2>0, <3>3 DEF At, ClientInv, TypeOK, Objects, None
    <3> QED  BY <3>2, <3>4 DEF OnePlace, At
  <2>3. ASSUME NEW d \in Drives, NEW s \in Streams, NEW e \in Drives, RemoveIOWorker(c, d, s, e)
        PROVE OnePlace'
    <3> DEFINE o == io_workers_[d][s]
    <3>1. /\ o # None /\ io_workers_' = [io_workers_ EXCEPT ![d][s] = None]
          /\ client'[c].pc = "move" /\ client'[c].object = o /\ ~At(c, "move")
      BY <2>3 DEF RemoveIOWorker, Call, At, TypeOK
    <3>2. \A f \in Drives, t \in Streams :
            io_workers_'[f][t] = IF f = d /\ t = s THEN None ELSE io_workers_[f][t]
      BY <3>1 DEF TypeOK
    <3>3. \A f \in Drives, t \in Streams : io_workers_'[f][t] # o
      BY <3>1, <3>2 DEF OnePlace
    <3>4. \A b \in Clients \ {c} : At(b, "move")' =>
            At(b, "move") /\ client'[b] = client[b] /\ client[b].object # o /\ client[b].object # None
      BY <2>0 DEF OnePlace, At, ClientInv, TypeOK, Objects, None
    <3>5. \A f, g \in Drives, t, u \in Streams :
            io_workers_'[f][t] = io_workers_'[g][u] /\ io_workers_'[f][t] # None => f = g /\ t = u
      BY <3>2 DEF OnePlace
    <3>6. ASSUME NEW b \in Clients, At(b, "move")'
          PROVE  /\ \A f \in Drives, t \in Streams : io_workers_'[f][t] # client'[b].object
                 /\ \A a \in Clients : At(a, "move")' /\ client'[a].object = client'[b].object => a = b
      <4> HIDE DEF o
      <4>1. CASE b = c  BY <4>1, <3>1, <3>3, <3>4
      <4>2. CASE b # c  BY <4>2, <3>1, <3>2, <3>4, <3>6 DEF OnePlace
      <4> QED  BY <4>1, <4>2
    <3> QED  BY <3>5, <3>6 DEF OnePlace
  <2>4. CASE PushStream(c)
    <3> DEFINE d == client[c].drive
               s == client[c].stream
               o == client[c].object
    <3>1. /\ At(c, "move") /\ client'[c].pc = "push" /\ d \in Drives /\ s \in Streams
          /\ io_workers_' = [io_workers_ EXCEPT ![d][s] = o]
      BY <2>4 DEF PushStream, Goto, At, ClientInv, TypeOK, ClientType
    <3> HIDE DEF d, s, o
    <3>2. \A f \in Drives, t \in Streams :
            io_workers_'[f][t] = IF f = d /\ t = s THEN o ELSE io_workers_[f][t]
      BY <3>1 DEF TypeOK
    <3>3. \A f \in Drives, t \in Streams : io_workers_[f][t] # o  BY <3>1 DEF OnePlace, o
    <3>4. \A b \in Clients : At(b, "move")' => At(b, "move") /\ client'[b] = client[b] /\ client[b].object # o
      BY <2>0, <3>1 DEF OnePlace, At, o
    <3>5. \A f, g \in Drives, t, u \in Streams :
            io_workers_'[f][t] = io_workers_'[g][u] /\ io_workers_'[f][t] # None => f = g /\ t = u
      BY <3>2, <3>3 DEF OnePlace
    <3>6. ASSUME NEW b \in Clients, At(b, "move")'
          PROVE  /\ \A f \in Drives, t \in Streams : io_workers_'[f][t] # client'[b].object
                 /\ \A a \in Clients : At(a, "move")' /\ client'[a].object = client'[b].object => a = b
      BY <3>2, <3>4, <3>6 DEF OnePlace
    <3> QED  BY <3>5, <3>6 DEF OnePlace
  <2>5. ASSUME UNCHANGED io_workers_, client'[c].pc # "move" PROVE OnePlace'
    BY <2>0, <2>5, PlaceKept
  <2>6. \/ \E d \in Drives, s \in Streams :
             AddStream(c, d, s) \/ \E e \in Drives : RemoveIOWorker(c, d, s, e)
        \/ DeleteErase(c) \/ PushStream(c)
        \/ UNCHANGED io_workers_ /\ client'[c].pc # "move"
    <3>1. CASE Calls(c)
      BY <3>1 DEF Calls, PushVideoChunkBuffer, FlushStream, DeleteStream, Enqueue, TypeOK, ClientType
    <3>2. CASE InCall(c)
      BY <3>2 DEF InCall, Enqueue, Release, Notify, DeleteLock, PushMoved, Goto, Return, Idle, TypeOK,
         ClientType, At
    <3> QED  BY <1>1, <3>1, <3>2
  <2> QED  BY <2>1, <2>2, <2>3, <2>4, <2>5, <2>6
<1>2. ASSUME NEW d \in Drives, StopThread(d) \/ InDestructor(d) \/ RunWorkThread(d) \/ SpuriousWakeup(d)
      PROVE OnePlace'
  <2>1. UNCHANGED client  BY <1>2, DriveSteps
  <2>2. CASE Join(d)
    <3>1. io_workers_' = [io_workers_ EXCEPT ![d] = [s \in Streams |-> None]]  BY <2>2 DEF Join
    <3>2. \A e \in Drives, t \in Streams : io_workers_'[e][t] \in {io_workers_[e][t], None}
      BY <3>1 DEF TypeOK
    <3>3. \A b \in Clients : At(b, "move") => client[b].object # None
      BY DEF At, ClientInv, TypeOK, Objects, None
    <3> QED  BY <2>1, <3>2, <3>3 DEF OnePlace, At
  <2>3. CASE ~Join(d)
    <3>1. UNCHANGED io_workers_
      BY <1>2, <2>3 DEF StopThread, InDestructor, StopRelease, StopNotify, RunWorkThread, Top,
         Snapshot, ProcessBuffer, PopBuffer, ProcessedBuffer, Unlock, Check, Block, SpuriousWakeup, Step
    <3> QED  BY <2>1, <3>1, PlaceKept
  <2> QED  BY <2>2, <2>3
<1>3. CASE UNCHANGED vars  BY <1>3, PlaceKept DEF vars
<1> QED  BY <1>1, <1>2, <1>3 DEF Next

-----------------------------------------------------------------------------
\* What is not created has nothing queued.
EmptyInv == \A o \in Objects : o > created => media_buffers[o] = 0

\* A step that leaves the maps and pushes nothing.
LEMMA EmptyKept ==
  ASSUME TypeOK, EmptyInv, created' \in Nat, created <= created',
         \A o \in Objects : media_buffers[o] = 0 => media_buffers'[o] = 0
  PROVE  EmptyInv'
BY DEF EmptyInv, TypeOK, Objects

LEMMA EmptyStep ==
  ASSUME Inv, EmptyInv, [Next]_vars
  PROVE  EmptyInv'
<1> USE DEF Inv
<1>0. created \in Nat /\ created' \in Nat
  <2>1. TypeOK'  BY InvStep
  <2> QED  BY <2>1, ConstantTypes DEF TypeOK
<1>1. ASSUME NEW c \in Clients, Calls(c) \/ InCall(c) PROVE EmptyInv'
  <2>1. ASSUME NEW d \in Drives, NEW s \in Streams, NEW n \in {0, 1}, Enqueue(c, d, s, n), UNCHANGED created
        PROVE  EmptyInv'
    <3>1. io_workers_[d][s] \in Objects /\ io_workers_[d][s] <= created
      BY <2>1 DEF Enqueue, TypeOK, CreatedInv
    <3>2. media_buffers' = [media_buffers EXCEPT ![io_workers_[d][s]] = @ + n]  BY <2>1 DEF Enqueue
    <3>3. \A o \in Objects : o > created => o # io_workers_[d][s]  BY <1>0, <3>1 DEF Objects
    <3> QED  BY <2>1, <3>2, <3>3 DEF EmptyInv, TypeOK
  <2>2. ASSUME NEW d \in Drives, NEW s \in Streams, PushVideoChunkBuffer(c, d, s) \/ FlushStream(c, d, s)
        PROVE  EmptyInv'
    BY <2>1, <2>2 DEF PushVideoChunkBuffer, FlushStream, objectVars
  <2>3. CASE PushMoved(c) /\ ~UNCHANGED media_buffers
    <3>1. client[c].drive \in Drives /\ client[c].stream \in Streams
      BY <2>3 DEF PushMoved, At, ClientInv
    <3> QED  BY <2>1, <2>3, <3>1 DEF PushMoved, objectVars
  <2>4. CASE UNCHANGED media_buffers /\ created <= created'  BY <1>0, <2>4, EmptyKept
  <2>5. \/ \E d \in Drives, s \in Streams : PushVideoChunkBuffer(c, d, s) \/ FlushStream(c, d, s)
        \/ PushMoved(c) /\ ~UNCHANGED media_buffers
        \/ UNCHANGED media_buffers /\ created <= created'
    BY <1>0, <1>1 DEF Calls, InCall, AddStream, DeleteStream, RemoveIOWorker, Release, Notify,
       DeleteLock, DeleteErase, PushStream, PushMoved, objectVars
  <2> QED  BY <2>2, <2>3, <2>4, <2>5
<1>2. ASSUME NEW d \in Drives, StopThread(d) \/ InDestructor(d) \/ RunWorkThread(d) \/ SpuriousWakeup(d)
      PROVE EmptyInv'
  <2>1. UNCHANGED created  BY <1>2, DriveSteps DEF objectVars
  <2>2. \A o \in Objects : media_buffers[o] = 0 => media_buffers'[o] = 0
    <3>1. CASE PopBuffer(d)  BY <3>1 DEF PopBuffer, TypeOK
    <3>2. CASE ~PopBuffer(d)
      <4>1. UNCHANGED media_buffers
        BY <1>2, <3>2 DEF StopThread, InDestructor, StopRelease, StopNotify, Join, Destructor,
           RunWorkThread, Top, Snapshot, ProcessBuffer, ProcessedBuffer, Unlock, Check, Block,
           SpuriousWakeup, Step
      <4> QED  BY <4>1
    <3> QED  BY <3>1, <3>2
  <2> QED  BY <1>0, <2>1, <2>2, EmptyKept
<1>3. CASE UNCHANGED vars  BY <1>0, <1>3, EmptyKept DEF vars, objectVars
<1> QED  BY <1>1, <1>2, <1>3 DEF Next

-----------------------------------------------------------------------------
\* What is queued stays known when what told of it is replaced by something that does.
LEMMA KnownKept ==
  ASSUME NEW d \in Drives, NEW s \in Streams, Known(d, s),
         io_workers_'[d][s] \in {io_workers_[d][s], None},
         NEW o, o = io_workers_[d][s],
         o # None /\ o \notin failed' /\ media_buffers'[o] > 0 => o \notin failed /\ media_buffers[o] > 0,
         condition_release_[d] \/ Expected(d, s) \/ InHand(d, o) =>
           condition_release_'[d] \/ Expected(d, s)' \/ InHand(d, o)'
  PROVE  Known(d, s)'
BY DEF Known

\* What a client other than c is about to do it still is.
LEMMA ExpectedKept ==
  ASSUME NEW c \in Clients, NEW d \in Drives, NEW s \in Streams,
         \A b \in Clients \ {c} : client'[b] = client[b],
         ~(At(c, "release") /\ client[c].drive = d),
         ~(At(c, "push") /\ client[c].drive = d /\ client[c].stream = s),
         Expected(d, s)
  PROVE  Expected(d, s)'
<1>1. PICK b \in Clients : client[b].drive = d /\ (At(b, "release") \/ (At(b, "push") /\ client[b].stream = s))
  BY DEF Expected
<1>2. b # c  BY <1>1
<1>3. client'[b] = client[b]  BY <1>2
<1> QED  BY <1>1, <1>3 DEF Expected, At

\* PushVideoChunkBuffer, Flush, PushMoved: the client goes on to set the condition of
\* the one drive that has the IOWorker.
LEMMA ServedEnqueue ==
  ASSUME Inv, OnePlace, ServedInv, NEW c \in Clients, NEW d \in Drives, NEW s \in Streams,
         NEW n \in {0, 1}, Enqueue(c, d, s, n),
         \A b \in Clients \ {c} : client'[b] = client[b],
         UNCHANGED <<io_workers_, threadVars, condition_release_>>,
         At(c, "idle") \/ (At(c, "push") /\ client[c].drive = d)
  PROVE  ServedInv'
<1> SUFFICES ASSUME NEW e \in Drives, NEW t \in Streams PROVE Known(e, t)'  BY DEF ServedInv
<1>1. /\ client'[c].pc = "release" /\ client'[c].drive = d
      /\ media_buffers' = [media_buffers EXCEPT ![io_workers_[d][s]] = @ + n]
      /\ io_workers_[d][s] # None
  BY DEF Enqueue, Inv, TypeOK
<1>2. CASE e = d
  <2>1. Expected(e, t)'  BY <1>1, <1>2 DEF Expected, At
  <2> QED  BY <2>1 DEF Known
<1>3. CASE e # d
  <2>1. PICK o : o = io_workers_[e][t]  OBVIOUS
  <2>2. o # None => o # io_workers_[d][s]  BY <1>1, <1>3, <2>1 DEF OnePlace
  <2>3. o # None => media_buffers'[o] = media_buffers[o]
    <3>1. o \in Objects \cup {None}  BY <2>1 DEF Inv, TypeOK
    <3> QED  BY <1>1, <2>2, <3>1 DEF Inv, TypeOK
  <2>4. Expected(e, t) => Expected(e, t)'  BY <1>3, ExpectedKept DEF At
  <2>5. InHand(e, o) => InHand(e, o)'  BY DEF InHand, threadVars
  <2>6. Known(e, t)  BY DEF ServedInv
  <2>7. io_workers_'[e][t] = io_workers_[e][t] /\ failed' = failed
        /\ condition_release_'[e] = condition_release_[e]
    BY DEF threadVars
  <2> QED  BY <2>1, <2>3, <2>4, <2>5, <2>6, <2>7, KnownKept
<1> QED  BY <1>2, <1>3

\* The steps of a client that push nothing and give no map an IOWorker.
LEMMA ServedQuiet ==
  ASSUME Inv, ServedInv, NEW c \in Clients,
         \A b \in Clients \ {c} : client'[b] = client[b],
         ~At(c, "release"),
         At(c, "push") => io_workers_[client[c].drive][client[c].stream] = None,
         UNCHANGED <<media_buffers, io_workers_v, processing, failed, condition_release_>>,
         pc' = pc \/ pc' = Notified(client[c].drive),
         \A d \in Drives, s \in Streams : io_workers_'[d][s] \in {io_workers_[d][s], None}
  PROVE  ServedInv'
<1> SUFFICES ASSUME NEW e \in Drives, NEW t \in Streams PROVE Known(e, t)'  BY DEF ServedInv
<1>1. PICK o : o = io_workers_[e][t]  OBVIOUS
<1>2. InHand(e, o) => InHand(e, o)'  BY DEF InHand, Notified, Inv, TypeOK
<1>3. Known(e, t)  BY DEF ServedInv
<1>4. CASE At(c, "push") /\ client[c].drive = e /\ client[c].stream = t
  <2>1. io_workers_'[e][t] = None  BY <1>4
  <2> QED  BY <2>1 DEF Known
<1>5. CASE ~(At(c, "push") /\ client[c].drive = e /\ client[c].stream = t)
  <2>1. Expected(e, t) => Expected(e, t)'  BY <1>5, ExpectedKept
  <2>2. io_workers_'[e][t] \in {io_workers_[e][t], None} /\ failed' = failed
        /\ condition_release_' = condition_release_ /\ media_buffers' = media_buffers
    OBVIOUS
  <2> QED  BY <1>1, <1>2, <1>3, <2>1, <2>2, KnownKept
<1> QED  BY <1>4, <1>5

LEMMA ServedClient ==
  ASSUME Inv, OnePlace, EmptyInv, ServedInv, NEW c \in Clients, Calls(c) \/ InCall(c)
  PROVE  ServedInv'
<1> USE DEF Inv
<1>0. \A b \in Clients \ {c} : client'[b] = client[b]  BY ClientSteps DEF ClientStep
<1>1. ASSUME NEW d \in Drives, NEW s \in Streams, AddStream(c, d, s) PROVE ServedInv'
  <2>1. /\ created' = created + 1 /\ created \in Nat /\ created' \in Objects
        /\ io_workers_' = [io_workers_ EXCEPT ![d][s] = created']
        /\ UNCHANGED <<media_buffers, threadVars, condition_release_, client>>
    BY <1>1, ConstantTypes DEF AddStream, TypeOK, Objects
  <2> SUFFICES ASSUME NEW e \in Drives, NEW t \in Streams PROVE Known(e, t)'  BY DEF ServedInv
  <2>2. CASE e = d /\ t = s
    <3>1. io_workers_'[e][t] = created'  BY <2>1, <2>2 DEF TypeOK
    <3>2. media_buffers[created'] = 0  BY <2>1 DEF EmptyInv
    <3> QED  BY <2>1, <3>1, <3>2 DEF Known
  <2>3. CASE ~(e = d /\ t = s)
    <3>1. io_workers_'[e][t] = io_workers_[e][t]  BY <2>1, <2>3 DEF TypeOK
    <3> QED  BY <2>1, <3>1 DEF ServedInv, Known, Expected, InHand, At, threadVars
  <2> QED  BY <2>2, <2>3
<1>2. ASSUME NEW d \in Drives, NEW s \in Streams, PushVideoChunkBuffer(c, d, s) \/ FlushStream(c, d, s)
      PROVE  ServedInv'
  <2>1. PICK n \in {0, 1} : Enqueue(c, d, s, n)
    BY <1>2 DEF PushVideoChunkBuffer, FlushStream
  <2>2. UNCHANGED <<io_workers_, threadVars, condition_release_>> /\ At(c, "idle")
    BY <1>2 DEF PushVideoChunkBuffer, FlushStream, Call, At
  <2> QED  BY <1>0, <2>1, <2>2, ServedEnqueue
<1>3. CASE Release(c)
  <2> SUFFICES ASSUME NEW e \in Drives, NEW t \in Streams PROVE Known(e, t)'  BY DEF ServedInv
  <2>1. /\ At(c, "release")
        /\ condition_release_' = [condition_release_ EXCEPT ![client[c].drive] = TRUE]
        /\ UNCHANGED <<io_workers_, media_buffers, threadVars>>
    BY <1>3 DEF Release
  <2>2. CASE client[c].drive = e
    <3>1. condition_release_'[e] = TRUE  BY <2>1, <2>2 DEF TypeOK
    <3> QED  BY <3>1 DEF Known
  <2>3. CASE client[c].drive # e
    <3>1. PICK o : o = io_workers_[e][t]  OBVIOUS
    <3>2. Expected(e, t) => Expected(e, t)'  BY <1>0, <2>3, ExpectedKept
    <3>3. InHand(e, o) => InHand(e, o)'  BY <2>1 DEF InHand, threadVars
    <3>4. condition_release_'[e] = condition_release_[e]  BY <2>1, <2>3 DEF TypeOK
    <3>5. Known(e, t) /\ io_workers_'[e][t] = io_workers_[e][t] /\ failed' = failed
          /\ media_buffers' = media_buffers
      BY <2>1 DEF ServedInv, threadVars
    <3> QED  BY <3>1, <3>2, <3>3, <3>4, <3>5, KnownKept
  <2> QED  BY <2>2, <2>3
<1>4. CASE PushStream(c)
  <2> DEFINE d == client[c].drive
             s == client[c].stream
  <2>1. /\ At(c, "move") /\ client'[c].pc = "push" /\ d \in Drives /\ s \in Streams
        /\ client'[c].drive = d /\ client'[c].stream = s
        /\ io_workers_' = [io_workers_ EXCEPT ![d][s] = client[c].object]
        /\ UNCHANGED <<media_buffers, threadVars, condition_release_>>
    BY <1>4 DEF PushStream, Goto, At, ClientInv, TypeOK, ClientType
  <2> HIDE DEF d, s
  <2> SUFFICES ASSUME NEW e \in Drives, NEW t \in Streams PROVE Known(e, t)'  BY DEF ServedInv
  <2>2. CASE e = d /\ t = s
    <3>1. Expected(e, t)'  BY <2>1, <2>2 DEF Expected, At
    <3> QED  BY <3>1 DEF Known
  <2>3. CASE ~(e = d /\ t = s)
    <3>1. io_workers_'[e][t] = io_workers_[e][t]  BY <2>1, <2>3 DEF TypeOK
    <3>2. Expected(e, t) => Expected(e, t)'  BY <1>0, <2>1, ExpectedKept DEF At
    <3>3. PICK o : o = io_workers_[e][t]  OBVIOUS
    <3>4. InHand(e, o) => InHand(e, o)'  BY <2>1 DEF InHand, threadVars
    <3>5. Known(e, t) /\ failed' = failed /\ condition_release_' = condition_release_
          /\ media_buffers' = media_buffers
      BY <2>1 DEF ServedInv, threadVars
    <3> QED  BY <3>1, <3>2, <3>3, <3>4, <3>5, KnownKept
  <2> QED  BY <2>2, <2>3
<1>5. CASE PushMoved(c)
  <2> DEFINE d == client[c].drive
             s == client[c].stream
  <2>1. /\ At(c, "push") /\ d \in Drives /\ s \in Streams
        /\ UNCHANGED <<io_workers_, threadVars, condition_release_>>
    BY <1>5 DEF PushMoved, At, ClientInv
  <2>2. CASE io_workers_[d][s] = None
    <3>1. UNCHANGED media_buffers  BY <1>5, <2>2 DEF PushMoved
    <3>2. ~At(c, "release") /\ pc' = pc /\ UNCHANGED <<io_workers_v, processing, failed>>
      BY <2>1 DEF At, threadVars
    <3> QED  BY <1>0, <2>1, <2>2, <3>1, <3>2, ServedQuiet
  <2>3. CASE io_workers_[d][s] # None
    <3>1. Enqueue(c, d, s, 1)  BY <1>5, <2>3 DEF PushMoved
    <3> QED  BY <1>0, <2>1, <3>1, ServedEnqueue
  <2> QED  BY <2>2, <2>3
<1>6. ASSUME ~At(c, "release"), ~At(c, "push"),
             UNCHANGED <<media_buffers, io_workers_v, processing, failed, condition_release_>>,
             pc' = pc \/ pc' = Notified(client[c].drive),
             \A d \in Drives, s \in Streams : io_workers_'[d][s] \in {io_workers_[d][s], None}
      PROVE  ServedInv'
  BY <1>0, <1>6, ServedQuiet
<1>7. CASE Notify(c) \/ DeleteLock(c) \/ \E d \in Drives, s \in Streams : DeleteStream(c, d, s)
  BY <1>6, <1>7 DEF Notify, DeleteLock, DeleteStream, Call, At, threadVars
<1>8. CASE DeleteErase(c)
  <2>1. io_workers_' = [io_workers_ EXCEPT ![client[c].drive][client[c].stream] = None]
    BY <1>8 DEF DeleteErase
  <2>2. \A d \in Drives, s \in Streams : io_workers_'[d][s] \in {io_workers_[d][s], None}
    BY <2>1 DEF TypeOK
  <2> QED  BY <1>6, <1>8, <2>2 DEF DeleteErase, At, threadVars
<1>9. ASSUME NEW d \in Drives, NEW s \in Streams, NEW e \in Drives, RemoveIOWorker(c, d, s, e)
      PROVE  ServedInv'
  <2>1. io_workers_' = [io_workers_ EXCEPT ![d][s] = None]  BY <1>9 DEF RemoveIOWorker
  <2>2. \A f \in Drives, t \in Streams : io_workers_'[f][t] \in {io_workers_[f][t], None}
    BY <2>1 DEF TypeOK
  <2> QED  BY <1>6, <1>9, <2>2 DEF RemoveIOWorker, Call, At, threadVars
<1> QED  BY <1>1, <1>2, <1>3, <1>4, <1>5, <1>7, <1>8, <1>9 DEF Calls, InCall

\* A step of drive d: the other drives keep what they know, d passes an IOWorker by
\* only when its queue is empty, or a chunk of it failed.
LEMMA ServedDrive ==
  ASSUME Inv, ServedInv, NEW d \in Drives,
         StopThread(d) \/ InDestructor(d) \/ RunWorkThread(d) \/ SpuriousWakeup(d)
  PROVE  ServedInv'
<1> USE DEF Inv
<1>0. UNCHANGED client  BY DriveSteps
<1> SUFFICES ASSUME NEW e \in Drives, NEW t \in Streams PROVE Known(e, t)'  BY DEF ServedInv
<1>1. PICK o : o = io_workers_[e][t]  OBVIOUS
<1>2. Known(e, t)  BY DEF ServedInv
<1>3. Expected(e, t) => Expected(e, t)'  BY <1>0 DEF Expected, At
<1>4. o \in Objects \cup {None}  BY <1>1 DEF TypeOK
<1>5. io_workers_'[e][t] \in {io_workers_[e][t], None}
  <2>1. CASE Join(d)
    <3>1. io_workers_' = [io_workers_ EXCEPT ![d] = [s \in Streams |-> None]]  BY <2>1 DEF Join
    <3> QED  BY <3>1 DEF TypeOK
  <2>2. CASE ~Join(d)
    BY <2>2 DEF StopThread, InDestructor, StopRelease, StopNotify, RunWorkThread, Top,
       Snapshot, ProcessBuffer, PopBuffer, ProcessedBuffer, Unlock, Check, Block, SpuriousWakeup, Step
  <2> QED  BY <2>1, <2>2
<1>6. ASSUME UNCHANGED <<media_buffers, failed>>,
             condition_release_[e] \/ InHand(e, o) => condition_release_'[e] \/ InHand(e, o)'
      PROVE  Known(e, t)'
  BY <1>1, <1>2, <1>3, <1>5, <1>6, KnownKept
<1>7. CASE StopThread(d) \/ StopRelease(d) \/ Join(d)
  <2>1. UNCHANGED <<media_buffers, failed, pc, io_workers_v, processing>>
    BY <1>7 DEF StopThread, StopRelease, Join, Destructor
  <2>2. condition_release_[e] => condition_release_'[e]
    BY <1>7 DEF StopThread, StopRelease, Join, Destructor, TypeOK
  <2> QED  BY <1>6, <2>1, <2>2 DEF InHand
<1>8. CASE StopNotify(d)
  BY <1>6, <1>8 DEF StopNotify, Destructor, Notified, InHand, TypeOK
<1>9. CASE Top(d)
  <2>1. InHand(e, o) => InHand(e, o)'  BY <1>9 DEF Top, Step, InHand, TypeOK
  <2> QED  BY <1>6, <1>9, <2>1 DEF Top, Step
<1>10. CASE Snapshot(d)
  <2>1. CASE o = None
    BY <1>1, <1>5, <2>1 DEF Known
  <2>2. CASE o # None
    <3>1. e = d => o \in InMap(d)  BY <1>1, <2>2 DEF InMap
    <3>2. InHand(e, o) => InHand(e, o)'
      BY <1>10, <3>1 DEF Snapshot, Step, InHand, TypeOK
    <3> QED  BY <1>6, <1>10, <3>2 DEF Snapshot, Step
  <2> QED  BY <2>1, <2>2
<1>11. ASSUME NEW p \in Objects, ProcessBuffer(d, p) PROVE Known(e, t)'
  <2>1. CASE o = None  BY <1>1, <1>5, <2>1 DEF Known
  <2>2. CASE o # None
    <3>1. InHand(e, o) => InHand(e, o)'
      <4>1. CASE e = d  BY <1>11, <2>2, <4>1 DEF ProcessBuffer, InHand, TypeOK
      <4>2. CASE e # d  BY <1>11, <4>2 DEF ProcessBuffer, InHand, TypeOK
      <4> QED  BY <4>1, <4>2
    <3> QED  BY <1>6, <1>11, <3>1 DEF ProcessBuffer
  <2> QED  BY <2>1, <2>2
<1>12. CASE PopBuffer(d)
  <2> DEFINE p == processing[d]
  <2>1. /\ p \in Objects /\ p # None /\ media_buffers[p] > 0
        /\ media_buffers' = [media_buffers EXCEPT ![p] = @ - 1]
        /\ UNCHANGED <<pc, io_workers_v, condition_release_>>
        /\ \/ UNCHANGED <<processing, failed>>
           \/ processing' = [processing EXCEPT ![d] = None] /\ failed' = failed \cup {p}
    BY <1>12 DEF PopBuffer, TypeOK
  <2> HIDE DEF p
  <2>2. o # None /\ media_buffers'[o] > 0 => media_buffers[o] > 0
    BY <1>4, <2>1 DEF TypeOK
  <2>3. o \notin failed' => o \notin failed  BY <2>1
  <2>4. o \notin failed' => (InHand(e, o) => InHand(e, o)')
    <3>1. CASE UNCHANGED <<processing, failed>>  BY <2>1, <3>1 DEF InHand
    <3>2. CASE processing' = [processing EXCEPT ![d] = None] /\ failed' = failed \cup {p}
      BY <2>1, <3>2 DEF InHand, TypeOK, p
    <3> QED  BY <2>1, <3>1, <3>2
  <2>5. CASE o \in failed' \cup {None}  BY <1>1, <1>5, <2>5 DEF Known
  <2>6. CASE o \notin failed' \cup {None}
    BY <1>1, <1>2, <1>3, <1>5, <2>1, <2>2, <2>3, <2>4, <2>6, KnownKept
  <2> QED  BY <2>5, <2>6
<1>13. CASE ProcessedBuffer(d)
  <2> DEFINE p == processing[d]
  <2>1. /\ media_buffers[p] = 0 /\ p # None
        /\ processing' = [processing EXCEPT ![d] = None] /\ failed' = failed \ {p}
        /\ UNCHANGED <<media_buffers, pc, io_workers_v, condition_release_>>
    BY <1>13 DEF ProcessedBuffer
  <2>2. CASE o = p \/ o = None
    <3>1. io_workers_'[e][t] = None \/ media_buffers'[io_workers_'[e][t]] = 0  BY <1>1, <1>5, <2>1, <2>2
    <3> QED  BY <3>1 DEF Known
  <2>3. CASE o # p /\ o # None
    <3>1. o \notin failed' => o \notin failed  BY <2>1, <2>3
    <3>2. InHand(e, o) => InHand(e, o)'  BY <2>1, <2>3 DEF InHand, TypeOK
    <3> QED  BY <1>1, <1>2, <1>3, <1>5, <2>1, <3>1, <3>2, KnownKept
  <2> QED  BY <2>2, <2>3
<1>14. CASE Unlock(d)
  <2>1. CASE o = None  BY <1>1, <1>5, <2>1 DEF Known
  <2>2. CASE o # None
    <3>1. InHand(e, o) => InHand(e, o)'  BY <1>14, <2>2 DEF Unlock, Step, InHand, TypeOK
    <3> QED  BY <1>6, <1>14, <3>1 DEF Unlock, Step
  <2> QED  BY <2>1, <2>2
<1>15. CASE Check(d)
  <2>1. condition_release_[e] \/ InHand(e, o) => condition_release_'[e] \/ InHand(e, o)'
    <3>1. CASE e = d  BY <1>15, <3>1 DEF Check, Step, InHand, TypeOK
    <3>2. CASE e # d  BY <1>15, <3>2 DEF Check, Step, InHand, TypeOK
    <3> QED  BY <3>1, <3>2
  <2> QED  BY <1>6, <1>15, <2>1 DEF Check, Step
<1>16. CASE Block(d) \/ SpuriousWakeup(d)
  <2>1. InHand(e, o) => InHand(e, o)'  BY <1>16 DEF Block, SpuriousWakeup, Step, InHand, TypeOK
  <2> QED  BY <1>6, <1>16, <2>1 DEF Block, SpuriousWakeup, Step
<1> QED
  BY <1>7, <1>8, <1>9, <1>10, <1>11, <1>12, <1>13, <1>14, <1>15, <1>16 DEF InDestructor, RunWorkThread

\* For any drives, streams, clients and calls, a thread that waits while something it
\* should have written is queued, with no notification on its way, finds the condition
\* set when it next looks at it.
THEOREM MissedRemembered == Spec => []MissedIsRemembered
<1> DEFINE All == Inv /\ OnePlace /\ EmptyInv /\ ServedInv
<1>1. Init => All
  <2> SUFFICES ASSUME Init PROVE All  OBVIOUS
  <2>1. Inv  BY InvInit
  <2>2. OnePlace /\ EmptyInv  BY DEF Init, OnePlace, EmptyInv, At, Idle, None
  <2>3. ServedInv  BY DEF Init, ServedInv, Known
  <2> QED  BY <2>1, <2>2, <2>3
<1>2. All /\ [Next]_vars => All'
  <2> SUFFICES ASSUME All, [Next]_vars PROVE All'  OBVIOUS
  <2>1. Inv' /\ OnePlace' /\ EmptyInv'  BY InvStep, PlaceStep, EmptyStep
  <2>2. ASSUME NEW c \in Clients, Calls(c) \/ InCall(c) PROVE ServedInv'  BY <2>2, ServedClient
  <2>3. ASSUME NEW d \in Drives, StopThread(d) \/ InDestructor(d) \/ RunWorkThread(d) \/ SpuriousWakeup(d)
        PROVE ServedInv'
    BY <2>3, ServedDrive
  <2>4. ASSUME UNCHANGED vars PROVE ServedInv'
    BY <2>4 DEF vars, threadVars, ServedInv, Known, Expected, InHand, At
  <2> QED  BY <2>1, <2>2, <2>3, <2>4 DEF Next
<1>3. All => MissedIsRemembered
  <2> SUFFICES ASSUME All, NEW d \in Drives, pc[d] = "blocked", ~Coming(d), Unwritten(d) \ failed # {}
               PROVE  condition_release_[d]
    BY DEF MissedIsRemembered
  <2>1. PICK s \in Streams : /\ io_workers_[d][s] \notin failed \cup {None}
                             /\ media_buffers[io_workers_[d][s]] > 0
    BY DEF Unwritten, InMap
  <2>2. ~Expected(d, s)  BY DEF Coming, Expected, At
  <2>3. ~InHand(d, io_workers_[d][s])  BY <2>1 DEF InHand, Inv, ThreadInv
  <2> QED  BY <2>1, <2>2, <2>3 DEF ServedInv, Known
<1> QED  BY <1>1, <1>2, <1>3, PTL DEF Spec
=============================================================================
