---------------------------- MODULE ArchiveWorker ----------------------------
(***************************************************************************)
(* The threads of the drives (archive_manager/modules/archive_worker.cc).  *)
(* Each drive has a worker thread that lets every IOWorker of its map      *)
(* write what it has queued and then waits for a notification; the         *)
(* application's threads push chunks, flush, add, move and delete streams, *)
(* and take a drive down.  An IOWorker is an object with a number; of its  *)
(* pipeline (module IOWorker) only the length of the queue matters here.   *)
(*                                                                         *)
(* mtx_ioworkers_ is held within single actions only.  mtx_io_delete_ is   *)
(* held shared by the thread in "process", exclusively by a client in      *)
(* "erase"; cv_mtx_ is taken by the thread alone.                          *)
(***************************************************************************)
EXTENDS Naturals, FiniteSets

CONSTANTS
  Drives, Streams, Clients,
  MaxObjects,   \* bound: IOWorkers created in a behaviour
  MaxCalls,     \* bound: calls of the application in a behaviour
  MayFail       \* whether chunks may fail (ProcessBuffer then returns early)

Objects == 1..MaxObjects
None == 0              \* nullptr
NoDrive == "no drive"

ASSUME ConstantsAssumption ==
  /\ MaxObjects \in Nat /\ MaxCalls \in Nat /\ MayFail \in BOOLEAN
  /\ NoDrive \notin Drives

VARIABLES
  io_workers_,         \* drive -> stream -> the IOWorker in its map
  media_buffers,       \* IOWorker -> length of its queue
  pc,                  \* drive -> where its thread is
  io_workers_v,        \* drive -> the part of the thread's copy not yet processed
  processing,          \* drive -> the IOWorker whose write_process_mtx_ it holds
  condition_release_,
  run_thread_,
  destructor,          \* drive -> how far ~ArchiveWorker has come
  client,              \* what each client is doing: [pc, drive, stream, object]
  calls,
  created,             \* number of IOWorkers created
  home,                \* IOWorker -> the drive whose ArchiveWorker it reports to
  deleted, moved,      \* history: objects erased by DeleteStream, taken by RemoveIOWorker
  failed               \* history: IOWorkers whose queue a failed chunk left, not emptied since

threadVars == <<pc, io_workers_v, processing, failed>>
objectVars == <<created, home, deleted, moved>>
vars == <<io_workers_, media_buffers, threadVars, condition_release_, run_thread_,
          destructor, client, calls, objectVars>>

Idle == [pc |-> "idle", drive |-> NoDrive, stream |-> None, object |-> None]

Init ==
  /\ io_workers_ = [d \in Drives |-> [s \in Streams |-> None]]
  /\ media_buffers = [o \in Objects |-> 0]
  /\ pc = [d \in Drives |-> "top"]
  /\ io_workers_v = [d \in Drives |-> {}]
  /\ processing = [d \in Drives |-> None]
  /\ condition_release_ = [d \in Drives |-> FALSE]
  /\ run_thread_ = [d \in Drives |-> TRUE]
  /\ destructor = [d \in Drives |-> "up"]
  /\ client = [c \in Clients |-> Idle]
  /\ calls = 0 /\ created = 0 /\ home = [o \in Objects |-> NoDrive] /\ deleted = {} /\ moved = {}
  /\ failed = {}

InMap(d) == {io_workers_[d][s] : s \in Streams} \ {None}

(***************************************************************************)
(* The application's calls.  ArchiveManager hands out a drive's worker by  *)
(* shared_ptr: the drive is up as long as a call on it is under way.       *)
(***************************************************************************)
Call(c, d) == client[c].pc = "idle" /\ destructor[d] = "up" /\ calls < MaxCalls /\ calls' = calls + 1
At(c, p) == client[c].pc = p
Goto(c, p) == client' = [client EXCEPT ![c].pc = p]
Return(c) == client' = [client EXCEPT ![c] = Idle]

\* AddStream: one IOWorker per stream in the map.
AddStream(c, d, s) ==
  /\ Call(c, d)
  /\ io_workers_[d][s] = None /\ created < MaxObjects
  /\ created' = created + 1
  /\ home' = [home EXCEPT ![created'] = d]
  /\ io_workers_' = [io_workers_ EXCEPT ![d][s] = created']
  /\ UNCHANGED <<media_buffers, threadVars, condition_release_, run_thread_, destructor,
                 client, deleted, moved>>

\* PushVideoChunkBuffer and Flush under mtx_ioworkers_; the IOWorker's Flush adds
\* nothing behind a flush mark. A stream that is not in the map is refused.
Enqueue(c, d, s, n) ==
  /\ io_workers_[d][s] # None
  /\ media_buffers' = [media_buffers EXCEPT ![io_workers_[d][s]] = @ + n]
  /\ client' = [client EXCEPT ![c] = [pc |-> "release", drive |-> d, stream |-> s,
                                      object |-> io_workers_[d][s]]]

PushVideoChunkBuffer(c, d, s) ==
  /\ Call(c, d) /\ Enqueue(c, d, s, 1)
  /\ UNCHANGED <<io_workers_, threadVars, condition_release_, run_thread_, destructor, objectVars>>

FlushStream(c, d, s) ==
  /\ Call(c, d)
  /\ \E n \in {0, 1} : Enqueue(c, d, s, n) /\ (n = 0 => media_buffers[io_workers_[d][s]] > 0)
  /\ UNCHANGED <<io_workers_, threadVars, condition_release_, run_thread_, destructor, objectVars>>

\* Both then set the condition and notify, holding no lock.
Release(c) ==
  /\ At(c, "release")
  /\ condition_release_' = [condition_release_ EXCEPT ![client[c].drive] = TRUE]
  /\ Goto(c, "notify")
  /\ UNCHANGED <<io_workers_, media_buffers, threadVars, run_thread_, destructor, calls, objectVars>>

Notified(d) == IF pc[d] = "blocked" THEN [pc EXCEPT ![d] = "check"] ELSE pc

Notify(c) ==
  /\ At(c, "notify")
  /\ pc' = Notified(client[c].drive)
  /\ Return(c)
  /\ UNCHANGED <<io_workers_, media_buffers, io_workers_v, processing, failed, condition_release_,
                 run_thread_, destructor, calls, objectVars>>

\* DeleteStream: waits for mtx_io_delete_, then erases.
DeleteStream(c, d, s) ==
  /\ Call(c, d)
  /\ client' = [client EXCEPT ![c] = [pc |-> "delete", drive |-> d, stream |-> s, object |-> None]]
  /\ UNCHANGED <<io_workers_, media_buffers, threadVars, condition_release_, run_thread_,
                 destructor, objectVars>>

Erasing(d) == \E c \in Clients : At(c, "erase") /\ client[c].drive = d

DeleteLockUnlocked(c) ==     \* mutant: mtx_io_delete_ is not taken
  /\ At(c, "delete")
  /\ Goto(c, "erase")
  /\ UNCHANGED <<io_workers_, media_buffers, threadVars, condition_release_, run_thread_,
                 destructor, calls, objectVars>>

DeleteLock(c) ==
  /\ At(c, "delete")
  /\ pc[client[c].drive] # "process" /\ ~Erasing(client[c].drive)
  /\ Goto(c, "erase")
  /\ UNCHANGED <<io_workers_, media_buffers, threadVars, condition_release_, run_thread_,
                 destructor, calls, objectVars>>

DeleteEraseFound(c) ==     \* mutant: the lock is kept when there is no such stream
  LET d == client[c].drive
      s == client[c].stream
  IN /\ At(c, "erase") /\ io_workers_[d][s] # None
     /\ deleted' = deleted \cup {io_workers_[d][s]}
     /\ io_workers_' = [io_workers_ EXCEPT ![d][s] = None]
     /\ Return(c)
     /\ UNCHANGED <<media_buffers, threadVars, condition_release_, run_thread_, destructor,
                    calls, created, home, moved>>

DeleteErase(c) ==
  LET d == client[c].drive
      s == client[c].stream
  IN /\ At(c, "erase")
     /\ deleted' = deleted \cup ({io_workers_[d][s]} \ {None})
     /\ io_workers_' = [io_workers_ EXCEPT ![d][s] = None]
     /\ Return(c)
     /\ UNCHANGED <<media_buffers, threadVars, condition_release_, run_thread_, destructor,
                    calls, created, home, moved>>

\* ArchiveManager's CheckWorkerDrive moves a stream to the drive e it now records
\* to: RemoveIOWorker from one map, PushStream into the other (which may replace an
\* IOWorker there); then the chunk is pushed on e.
RemoveIOWorker(c, d, s, e) ==
  /\ Call(c, d)
  /\ d # e /\ destructor[e] = "up"
  /\ io_workers_[d][s] # None
  /\ client' = [client EXCEPT ![c] = [pc |-> "move", drive |-> e, stream |-> s,
                                      object |-> io_workers_[d][s]]]
  /\ io_workers_' = [io_workers_ EXCEPT ![d][s] = None]
  /\ moved' = moved \cup {io_workers_[d][s]}
  /\ UNCHANGED <<media_buffers, threadVars, condition_release_, run_thread_, destructor,
                 created, home, deleted>>

PushStream(c) ==
  /\ At(c, "move")
  /\ io_workers_' = [io_workers_ EXCEPT ![client[c].drive][client[c].stream] = client[c].object]
  /\ Goto(c, "push")
  /\ UNCHANGED <<media_buffers, threadVars, condition_release_, run_thread_, destructor,
                 calls, objectVars>>

PushMoved(c) ==
  /\ At(c, "push")
  /\ IF io_workers_[client[c].drive][client[c].stream] = None
     THEN Return(c) /\ UNCHANGED media_buffers
     ELSE Enqueue(c, client[c].drive, client[c].stream, 1)
  /\ UNCHANGED <<io_workers_, threadVars, condition_release_, run_thread_, destructor,
                 calls, objectVars>>

(***************************************************************************)
(* ~ArchiveWorker, after DeleteDevice: no call on the drive is under way,  *)
(* and no stream is being moved (mtx_worker).                              *)
(***************************************************************************)
Destructor(d, from, to) ==
  /\ destructor[d] = from
  /\ destructor' = [destructor EXCEPT ![d] = to]
  /\ UNCHANGED <<media_buffers, io_workers_v, processing, failed, client, objectVars>>

StopThread(d) ==
  /\ \A c \in Clients : client[c].drive # d /\ ~At(c, "move")
  /\ calls < MaxCalls /\ calls' = calls + 1
  /\ Destructor(d, "up", "stop")
  /\ run_thread_' = [run_thread_ EXCEPT ![d] = FALSE]
  /\ UNCHANGED <<io_workers_, pc, condition_release_>>

StopRelease(d) ==
  /\ Destructor(d, "stop", "release")
  /\ condition_release_' = [condition_release_ EXCEPT ![d] = TRUE]
  /\ UNCHANGED <<io_workers_, pc, run_thread_, calls>>

StopNotify(d) ==
  /\ Destructor(d, "release", "join")
  /\ pc' = Notified(d)
  /\ UNCHANGED <<io_workers_, condition_release_, run_thread_, calls>>

JoinNotWaiting(d) ==     \* mutant: the thread is not waited for
  /\ Destructor(d, "join", "gone")
  /\ io_workers_' = [io_workers_ EXCEPT ![d] = [s \in Streams |-> None]]
  /\ UNCHANGED <<pc, condition_release_, run_thread_, calls>>

Join(d) ==
  /\ pc[d] = "exited"
  /\ Destructor(d, "join", "gone")
  /\ io_workers_' = [io_workers_ EXCEPT ![d] = [s \in Streams |-> None]]
  /\ UNCHANGED <<pc, condition_release_, run_thread_, calls>>

(***************************************************************************)
(* The thread of a drive (RunWorkThread).                                  *)
(***************************************************************************)
Step(d, from, to) ==
  /\ pc[d] = from
  /\ pc' = [pc EXCEPT ![d] = to]
  /\ UNCHANGED <<io_workers_, failed, run_thread_, destructor, client, calls, objectVars>>

Top(d) ==
  /\ Step(d, "top", IF run_thread_[d] THEN "lock" ELSE "exited")
  /\ UNCHANGED <<media_buffers, io_workers_v, processing, condition_release_>>

\* Both locks, and the copy of the map; mtx_io_delete_ stays locked.
Snapshot(d) ==
  /\ ~Erasing(d)
  /\ Step(d, "lock", "process")
  /\ io_workers_v' = [io_workers_v EXCEPT ![d] = InMap(d)]
  /\ UNCHANGED <<media_buffers, processing, condition_release_>>

\* ProcessBuffer locks write_process_mtx_: a moved IOWorker may be in the copies of
\* two threads. (The order of the map is left open.)
ProcessBuffer(d, o) ==
  /\ pc[d] = "process" /\ processing[d] = None /\ o \in io_workers_v[d]
  /\ \A e \in Drives : processing[e] # o
  /\ processing' = [processing EXCEPT ![d] = o]
  /\ io_workers_v' = [io_workers_v EXCEPT ![d] = @ \ {o}]
  /\ UNCHANGED <<io_workers_, media_buffers, pc, failed, condition_release_, run_thread_, destructor,
                 client, calls, objectVars>>

\* It pops until the queue is empty, or until a chunk fails.
PopBufferEmpty(d) ==     \* mutant: the queue may be empty
  /\ processing[d] # None
  /\ media_buffers' = [media_buffers EXCEPT ![processing[d]] = @ - 1]
  /\ UNCHANGED <<io_workers_, threadVars, condition_release_, run_thread_, destructor,
                 client, calls, objectVars>>

PopBuffer(d) ==
  /\ processing[d] # None /\ media_buffers[processing[d]] > 0
  /\ media_buffers' = [media_buffers EXCEPT ![processing[d]] = @ - 1]
  /\ \/ UNCHANGED <<processing, failed>>
     \/ /\ MayFail
        /\ processing' = [processing EXCEPT ![d] = None]
        /\ failed' = failed \cup {processing[d]}
  /\ UNCHANGED <<io_workers_, pc, io_workers_v, condition_release_, run_thread_, destructor,
                 client, calls, objectVars>>

ProcessedBuffer(d) ==
  /\ processing[d] # None /\ media_buffers[processing[d]] = 0
  /\ processing' = [processing EXCEPT ![d] = None]
  /\ failed' = failed \ {processing[d]}
  /\ UNCHANGED <<io_workers_, media_buffers, pc, io_workers_v, condition_release_, run_thread_,
                 destructor, client, calls, objectVars>>

UnlockForgetful(d) ==     \* mutant: what was notified meanwhile is forgotten
  /\ processing[d] = None /\ io_workers_v[d] = {}
  /\ Step(d, "process", "check")
  /\ condition_release_' = [condition_release_ EXCEPT ![d] = FALSE]
  /\ UNCHANGED <<media_buffers, io_workers_v, processing>>

Unlock(d) ==
  /\ processing[d] = None /\ io_workers_v[d] = {}
  /\ Step(d, "process", "check")
  /\ UNCHANGED <<media_buffers, io_workers_v, processing, condition_release_>>

\* cv_.wait: the condition is looked at, and the thread blocks in a later step; the
\* notifiers do not hold cv_mtx_, so one may come in between.
Check(d) ==
  /\ Step(d, "check", IF condition_release_[d] THEN "top" ELSE "block")
  /\ condition_release_' = [condition_release_ EXCEPT ![d] = FALSE]
  /\ UNCHANGED <<media_buffers, io_workers_v, processing>>

Block(d) ==
  /\ Step(d, "block", "blocked")
  /\ UNCHANGED <<media_buffers, io_workers_v, processing, condition_release_>>

SpuriousWakeup(d) ==
  /\ Step(d, "blocked", "check")
  /\ UNCHANGED <<media_buffers, io_workers_v, processing, condition_release_>>

-----------------------------------------------------------------------------
Calls(c) ==
  \E d \in Drives, s \in Streams :
    \/ AddStream(c, d, s) \/ PushVideoChunkBuffer(c, d, s) \/ FlushStream(c, d, s)
    \/ DeleteStream(c, d, s)
    \/ \E e \in Drives : RemoveIOWorker(c, d, s, e)

InCall(c) ==
  Release(c) \/ Notify(c) \/ DeleteLock(c) \/ DeleteErase(c) \/ PushStream(c) \/ PushMoved(c)

InDestructor(d) == StopRelease(d) \/ StopNotify(d) \/ Join(d)

RunWorkThread(d) ==
  \/ Top(d) \/ Snapshot(d)
  \/ \E o \in Objects : ProcessBuffer(d, o)
  \/ PopBuffer(d) \/ ProcessedBuffer(d)
  \/ Unlock(d) \/ Check(d) \/ Block(d)

Next ==
  \/ \E c \in Clients : Calls(c) \/ InCall(c)
  \/ \E d \in Drives : StopThread(d) \/ InDestructor(d) \/ RunWorkThread(d) \/ SpuriousWakeup(d)

\* Every thread that can take a step takes one in the end; calls need not come, and
\* a thread that waits need not wake up of itself.
Fairness ==
  /\ \A c \in Clients : WF_vars(InCall(c))
  /\ \A d \in Drives : WF_vars(InDestructor(d)) /\ WF_vars(RunWorkThread(d))

Spec == Init /\ [][Next]_vars
FairSpec == Spec /\ Fairness

-----------------------------------------------------------------------------
ClientType ==
  [pc : {"idle", "release", "notify", "delete", "erase", "move", "push"},
   drive : Drives \cup {NoDrive}, stream : Streams \cup {None}, object : Objects \cup {None}]

\* Types of the variables.
TypeOK ==
  /\ io_workers_ \in [Drives -> [Streams -> Objects \cup {None}]]
  /\ media_buffers \in [Objects -> Nat]
  /\ pc \in [Drives -> {"top", "lock", "process", "check", "block", "blocked", "exited"}]
  /\ io_workers_v \in [Drives -> SUBSET Objects]
  /\ processing \in [Drives -> Objects \cup {None}]
  /\ condition_release_ \in [Drives -> BOOLEAN] /\ run_thread_ \in [Drives -> BOOLEAN]
  /\ destructor \in [Drives -> {"up", "stop", "release", "join", "gone"}]
  /\ client \in [Clients -> ClientType]
  /\ calls \in 0..MaxCalls /\ created \in 0..MaxObjects
  /\ home \in [Objects -> Drives \cup {NoDrive}]
  /\ deleted \subseteq Objects /\ moved \subseteq Objects /\ failed \subseteq Objects

\* When DeleteStream has erased an IOWorker, no thread writes for it and none will:
\* neither is it being processed nor in the copy a thread works through
\* (mtx_io_delete_). Moving a stream to another drive goes round that lock.
DeletedNotProcessed ==
  \A o \in deleted \ moved : \A d \in Drives : processing[d] # o /\ o \notin io_workers_v[d]

\* A thread processes an IOWorker only while the ArchiveWorker its reports go to (the
\* one that created it: AddStream binds `this`) exists, unless it was moved.
ReporterAlive ==
  \A d \in Drives : processing[d] \notin moved \cup {None} =>
    home[processing[d]] = d /\ destructor[d] # "gone"

Coming(d) ==        \* a notification of the thread of d is on its way
  \/ \E c \in Clients : client[c].drive = d /\ client[c].pc \in {"move", "push", "release", "notify"}
  \/ destructor[d] \in {"stop", "release"}

Unwritten(d) == {o \in InMap(d) : media_buffers[o] > 0}

\* A thread that waits with something to push, which no chunk that failed left
\* behind, has missed a notification and nothing more: the condition is still set,
\* so that the next notification, or a spurious wakeup, serves everything.
MissedIsRemembered ==
  \A d \in Drives :
    pc[d] = "blocked" /\ ~Coming(d) /\ Unwritten(d) \ failed # {} => condition_release_[d]

\* A condition the thread has not yet passed by is served: if it is set while the
\* thread is anywhere but between its look at it and its wait, what a stream has
\* queued is written, unless the stream goes or the drive does.
ReleaseServed ==
  \A d \in Drives, s \in Streams :
    (condition_release_[d] /\ pc[d] \notin {"block", "blocked", "exited"}
       /\ io_workers_[d][s] # None)
    ~> (io_workers_[d][s] = None \/ media_buffers[io_workers_[d][s]] = 0 \/ ~run_thread_[d])

\* A drive that is taken down goes, if its thread is not in that window either.
DestructorEnds ==
  \A d \in Drives :
    (destructor[d] \in {"release", "join"} /\ pc[d] \notin {"block", "blocked"})
    ~> destructor[d] = "gone"

\* DeleteStream returns, however busy the drive is (calls being finite in number).
DeleteReturns == \A c \in Clients : At(c, "delete") ~> At(c, "idle")
=============================================================================
