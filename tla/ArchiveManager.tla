---------------------------- MODULE ArchiveManager ----------------------------
(***************************************************************************)
(* The registry of the archive (archive_manager/archive_manager.cc): the   *)
(* ArchiveWorker of each drive, the drive each stream is looked for on,    *)
(* and the functions that are told of the writes.  The application's       *)
(* threads call it.                                                        *)
(*                                                                         *)
(* mtx_worker is held exclusively by AddDevice, AddSession and             *)
(* DeleteDevice, within one action; it is held shared by the other calls,  *)
(* which change the maps all the same, and given back before the worker is *)
(* called.  A change of a map while another call holds the lock too is a   *)
(* data race: it may go well, or anything may follow ("race").  So may     *)
(* anything when a worker that is not there is used ("null").              *)
(*                                                                         *)
(* Of an ArchiveWorker (module ArchiveWorker) only its map counts here.    *)
(***************************************************************************)
EXTENDS Integers

CONSTANTS
  Drives, Streams, Clients,
  MaxWorkers, MaxObjects, MaxCalls, MaxPaths   \* bounds

EmptyDrive == "no name"     \* the key std::map::operator[] makes up
NoDrive == "none"           \* not in device_session_index
Keys == Drives \cup {EmptyDrive}
Workers == 1..MaxWorkers
Objects == 1..MaxObjects
None == 0
Null == -1                  \* an entry of archive_workers without a worker

ASSUME ConstantsAssumption ==
  /\ MaxWorkers \in Nat /\ MaxObjects \in Nat /\ MaxCalls \in Nat /\ MaxPaths \in Nat
  /\ EmptyDrive \notin Drives /\ NoDrive \notin Drives

VARIABLES
  archive_workers,        \* key -> its entry: None, Null or a worker
  device_session_index,   \* stream -> key
  save_path_,
  io_workers,             \* worker -> stream -> the IOWorker in its map
  workerPath, ioPath,     \* save_path_ of each worker and of each IOWorker
  drives_,                \* drive -> how often the reader's list has it
  callback_writeresults_, \* stream -> the function registered for it
  reporting,              \* stream -> the function that is being called
  client,                 \* what each thread is doing
  workers, objects, functions, calls,   \* how many there are
  undefined,
  \* history
  deletedDrives,  \* drives that have been deleted
  left,           \* streams that were looked for on a drive when it was deleted
  doubled,        \* streams that were in the maps of two drives
  crossed,        \* streams of which a call overlapped a DeleteStream
  overtaken,      \* streams of which two chunks overlapped, one for another drive
  refused,        \* streams of which a chunk was refused though the stream was found
  unsettled       \* IOWorkers on the move while the path was set; all, when two calls set it

registryVars == <<archive_workers, device_session_index>>
pathVars == <<save_path_, workerPath, ioPath>>
callbackVars == <<callback_writeresults_, reporting, functions>>
countVars == <<workers, objects>>
vars == <<registryVars, pathVars, io_workers, drives_, callbackVars, client, countVars, calls,
          undefined, deletedDrives, left, doubled, crossed, overtaken, refused, unsettled>>

Idle == [pc |-> "idle", op |-> "none", stream |-> None, drive |-> NoDrive, worker |-> None,
         object |-> None, path |-> 0, todo |-> {}]

Init ==
  /\ archive_workers = [k \in Keys |-> None] /\ device_session_index = [s \in Streams |-> NoDrive]
  /\ save_path_ = 0 /\ workerPath = [w \in Workers |-> 0] /\ ioPath = [o \in Objects |-> 0]
  /\ io_workers = [w \in Workers |-> [s \in Streams |-> None]]
  /\ drives_ = [d \in Drives |-> 0]
  /\ callback_writeresults_ = [s \in Streams |-> None] /\ reporting = [s \in Streams |-> None]
  /\ client = [c \in Clients |-> Idle]
  /\ workers = 0 /\ objects = 0 /\ functions = 0 /\ calls = 0 /\ undefined = "no"
  /\ deletedDrives = {} /\ left = {} /\ doubled = {} /\ crossed = {} /\ overtaken = {} /\ refused = {}
  /\ unsettled = {}

At(c, pc) == client[c].pc = pc
Call(c) == At(c, "idle") /\ calls < MaxCalls /\ calls' = calls + 1
Return(c) == client' = [client EXCEPT ![c] = Idle]
Goto(c, pc) == client' = [client EXCEPT ![c].pc = pc]

\* The calls that hold mtx_worker shared.
Holding == {c \in Clients : client[c].pc \in {"found", "remove", "push", "index", "visit"}}
Exclusive == Holding = {}
Busy(op, s) == {c \in Clients : client[c].op = op /\ client[c].stream = s}
Setting == {c \in Clients : client[c].op = "path"}

\* A map is changed under the shared lock.
Changes(c) == undefined' \in {"no"} \cup IF Holding \ {c} = {} THEN {} ELSE {"race"}
UsesNull == undefined' = "null"

InMap(w) == {io_workers[w][s] : s \in Streams} \ {None}
Registered == {archive_workers[k] : k \in Keys} \cap Workers
SetPaths(w, o, path) ==
  /\ workerPath' = [workerPath EXCEPT ![w] = path]
  /\ ioPath' = [i \in Objects |-> IF i \in o THEN path ELSE ioPath[i]]

(***************************************************************************)
(* Calls under the exclusive lock.                                         *)
(***************************************************************************)
IsNew(d) == archive_workers[d] = None

AddDevice(c, d) ==
  /\ Call(c) /\ Exclusive
  /\ IsNew(d) /\ workers < MaxWorkers
  /\ workers' = workers + 1
  /\ archive_workers' = [archive_workers EXCEPT ![d] = workers']
  /\ SetPaths(workers', {}, save_path_)
  /\ drives_' = [drives_ EXCEPT ![d] = @ + 1]
  /\ UNCHANGED <<device_session_index, save_path_, io_workers, callbackVars, client, objects,
                 undefined, deletedDrives, left, doubled, crossed, overtaken, refused, unsettled>>

\* The worker's AddStream: it may have the stream already.
AddStream(w, s) ==
  IF io_workers[w][s] # None THEN UNCHANGED <<io_workers, ioPath, objects>>
  ELSE /\ objects < MaxObjects /\ objects' = objects + 1
       /\ io_workers' = [io_workers EXCEPT ![w][s] = objects']
       /\ ioPath' = [ioPath EXCEPT ![objects'] = workerPath[w]]

\* emplace: what the index says of a stream stays.
Emplaced(s, d) ==
  IF device_session_index[s] = NoDrive THEN [device_session_index EXCEPT ![s] = d]
  ELSE device_session_index

\* mutant: the entry is used without being looked for
MayAddUnchecked(d) == TRUE
MayAdd(d) == archive_workers[d] # None

AddSession(c, d, s) ==
  /\ Call(c) /\ Exclusive /\ MayAdd(d)
  /\ IF archive_workers[d] \in Workers
       THEN AddStream(archive_workers[d], s) /\ UNCHANGED undefined
       ELSE UsesNull /\ UNCHANGED <<io_workers, ioPath, objects>>
  /\ device_session_index' = Emplaced(s, d)
  /\ doubled' = doubled \cup {t \in {s} : \E w \in Registered \ {archive_workers[d]} :
                                            io_workers[w][s] # None}
  /\ crossed' = crossed \cup {t \in {s} : Busy("delete", s) # {}}
  /\ UNCHANGED <<archive_workers, save_path_, workerPath, drives_, callbackVars, client, workers,
                 deletedDrives, left, overtaken, refused, unsettled>>

\* The streams of the drive stay in device_session_index, the drive in the reader's list.
DeleteDevice(c, d) ==
  /\ Call(c) /\ Exclusive
  /\ archive_workers[d] # None
  /\ archive_workers' = [archive_workers EXCEPT ![d] = None]
  /\ deletedDrives' = deletedDrives \cup {d}
  /\ left' = left \cup {s \in Streams : device_session_index[s] = d}
  /\ UNCHANGED <<device_session_index, pathVars, io_workers, drives_, callbackVars, client,
                 countVars, undefined, doubled, crossed, overtaken, refused, unsettled>>

(***************************************************************************)
(* DeleteStream, Flush, SetDataEncryption, GetMemoryFrames, PushDataGroup: *)
(* the stream and its worker are looked up; operator[] makes an entry      *)
(* without a worker for a key that is not there.                           *)
(***************************************************************************)
Entry(k) == IF archive_workers[k] = None THEN Null ELSE archive_workers[k]

Lookup(c, op, s, d) ==
  /\ Call(c)
  /\ device_session_index[s] # NoDrive
  /\ LET k == device_session_index[s] IN
       /\ client' = [client EXCEPT ![c] = [Idle EXCEPT !.pc = "found", !.op = op, !.stream = s,
                                                       !.drive = d, !.worker = Entry(k)]]
       /\ archive_workers' = [archive_workers EXCEPT ![k] = Entry(k)]
       /\ IF archive_workers[k] = None THEN Changes(c) ELSE UNCHANGED undefined
  /\ crossed' = crossed \cup {t \in {s} : Busy("delete", s) # {} \/ (op = "delete" /\ Busy("push", s) # {})}
  /\ overtaken' = overtaken \cup
       {t \in {s} : op = "push" /\ \E b \in Busy("push", s) :
                      {d, client[b].drive} # {device_session_index[s]}}
  /\ UNCHANGED <<device_session_index, pathVars, io_workers, drives_, callbackVars, countVars,
                 deletedDrives, left, doubled, refused, unsettled>>

\* The lock is given back; without a worker the call is over.
Unlock(c) == IF client[c].worker = Null THEN Return(c) ELSE Goto(c, "call")
LookupUnchanged ==
  UNCHANGED <<pathVars, drives_, callbackVars, countVars, calls, deletedDrives, left, doubled, crossed,
              overtaken, refused>>

UseFound(c) ==
  /\ At(c, "found") /\ client[c].op = "use"
  /\ Unlock(c)
  /\ LookupUnchanged /\ UNCHANGED <<registryVars, io_workers, undefined, unsettled>>

DeleteFound(c) ==
  /\ At(c, "found") /\ client[c].op = "delete"
  /\ device_session_index' = [device_session_index EXCEPT ![client[c].stream] = NoDrive]
  /\ Changes(c)
  /\ Unlock(c)
  /\ LookupUnchanged /\ UNCHANGED <<archive_workers, io_workers, unsettled>>

\* CheckWorkerDrive: a stream that is to be recorded on another drive is moved there.
SameDrive(c) == device_session_index[client[c].stream] = client[c].drive
PushFound(c) ==
  /\ At(c, "found") /\ client[c].op = "push" /\ SameDrive(c)
  /\ Unlock(c)
  /\ LookupUnchanged /\ UNCHANGED <<registryVars, io_workers, undefined, unsettled>>

CheckWorkerDrive(c) ==
  LET s == client[c].stream IN
  /\ At(c, "found") /\ client[c].op = "push" /\ ~SameDrive(c)
  /\ device_session_index' =
       [device_session_index EXCEPT ![s] = IF @ = NoDrive THEN EmptyDrive ELSE @]
  /\ IF client[c].worker = Null THEN UsesNull /\ UNCHANGED client
     ELSE /\ IF device_session_index[s] = NoDrive THEN Changes(c) ELSE UNCHANGED undefined
          /\ LET object == io_workers[client[c].worker][s] IN
               IF object = None THEN Goto(c, "call")
               ELSE client' = [client EXCEPT ![c].pc = "remove", ![c].object = object]
  /\ LookupUnchanged /\ UNCHANGED <<archive_workers, io_workers, unsettled>>

RemovedFrom(w, s) == [io_workers EXCEPT ![w][s] = None]

RemoveIOWorker(c) ==
  /\ At(c, "remove")
  /\ io_workers' = RemovedFrom(client[c].worker, client[c].stream)
  /\ unsettled' = unsettled \cup {o \in {client[c].object} : \E b \in Clients : At(b, "visit")}
  /\ Goto(c, "push")
  /\ LookupUnchanged /\ UNCHANGED <<registryVars, undefined>>

PushStream(c) ==
  LET d == client[c].drive IN
  /\ At(c, "push")
  /\ IF archive_workers[d] \in Workers
       THEN /\ io_workers' = [io_workers EXCEPT ![archive_workers[d]][client[c].stream] = client[c].object]
            /\ Goto(c, "index") /\ UNCHANGED undefined
       ELSE UsesNull /\ UNCHANGED <<io_workers, client>>
  /\ archive_workers' = [archive_workers EXCEPT ![d] = Entry(d)]
  /\ LookupUnchanged /\ UNCHANGED <<device_session_index, unsettled>>

\* mutant: the stream is still looked for on the drive it was on
NotIndexed(c) == device_session_index
Indexed(c) == [device_session_index EXCEPT ![client[c].stream] = client[c].drive]

SetIndex(c) ==
  /\ At(c, "index")
  /\ device_session_index' = Indexed(c)
  /\ Changes(c)
  /\ client' = [client EXCEPT ![c].pc = "call", ![c].worker = Entry(client[c].drive)]
  /\ LookupUnchanged /\ UNCHANGED <<archive_workers, io_workers, unsettled>>

\* The worker's function, with no lock of the registry held.
CallWorker(c) ==
  LET w == client[c].worker
      s == client[c].stream
      found == io_workers[w][s] # None
  IN /\ At(c, "call")
     /\ io_workers' = IF client[c].op = "delete" THEN [io_workers EXCEPT ![w][s] = None] ELSE io_workers
     /\ refused' = refused \cup {t \in {s} : client[c].op = "push" /\ ~found}
     /\ Return(c)
     /\ UNCHANGED <<registryVars, pathVars, drives_, callbackVars, countVars, calls, undefined,
                    deletedDrives, left, doubled, crossed, overtaken, unsettled>>

(***************************************************************************)
(* SetSavePath and GetSaveStatus, which visit every entry.                 *)
(***************************************************************************)
SetSavePath(c) ==
  /\ Call(c) /\ save_path_ < MaxPaths
  /\ save_path_' = save_path_ + 1
  /\ client' = [client EXCEPT ![c] = [Idle EXCEPT !.pc = "path", !.op = "path", !.path = save_path_']]
  /\ unsettled' = IF Setting = {} THEN unsettled ELSE Objects
  /\ UNCHANGED <<registryVars, workerPath, ioPath, io_workers, drives_, callbackVars, countVars,
                 undefined, deletedDrives, left, doubled, crossed, overtaken, refused>>

LockPath(c) ==
  /\ At(c, "path")
  /\ client' = [client EXCEPT ![c].pc = "visit", ![c].todo = {k \in Keys : archive_workers[k] # None}]
  /\ unsettled' = unsettled \cup {client[b].object : b \in {e \in Clients : At(e, "push")}}
  /\ LookupUnchanged /\ UNCHANGED <<registryVars, io_workers, undefined>>

\* mutant: the IOWorkers of the drive keep the path
VisitedNone(w) == {}
Visited(w) == InMap(w)

VisitWorker(c, k) ==
  /\ At(c, "visit") /\ k \in client[c].todo
  /\ IF archive_workers[k] = Null THEN UsesNull /\ UNCHANGED <<workerPath, ioPath>>
     ELSE /\ SetPaths(archive_workers[k], Visited(archive_workers[k]), client[c].path)
          /\ UNCHANGED undefined
  /\ client' = [client EXCEPT ![c].todo = @ \ {k}]
  /\ UNCHANGED <<registryVars, save_path_, io_workers, drives_, callbackVars, countVars, calls,
                 deletedDrives, left, doubled, crossed, overtaken, refused, unsettled>>

PathSet(c) ==
  /\ At(c, "visit") /\ client[c].todo = {}
  /\ Return(c)
  /\ LookupUnchanged /\ UNCHANGED <<registryVars, io_workers, undefined, unsettled>>

GetSaveStatus(c) ==
  /\ Call(c)
  /\ IF \E k \in Keys : archive_workers[k] = Null THEN UsesNull ELSE UNCHANGED undefined
  /\ UNCHANGED <<registryVars, pathVars, io_workers, drives_, callbackVars, client, countVars,
                 deletedDrives, left, doubled, crossed, overtaken, refused, unsettled>>

(***************************************************************************)
(* The functions told of the writes: callback_mtx is held shared while one *)
(* is called, by the thread of a drive, and exclusively by the others.     *)
(***************************************************************************)
CallbackUnchanged ==
  UNCHANGED <<registryVars, pathVars, io_workers, drives_, client, countVars, undefined,
              deletedDrives, left, doubled, crossed, overtaken, refused, unsettled>>
NotReporting == \A s \in Streams : reporting[s] = None

\* emplace: a function that is registered stays.
CallbackWriteResult(c, s) ==
  /\ Call(c) /\ NotReporting
  /\ functions' = functions + 1
  /\ callback_writeresults_' =
       [callback_writeresults_ EXCEPT ![s] = IF @ = None THEN functions' ELSE @]
  /\ CallbackUnchanged /\ UNCHANGED reporting
DeleteCallbackFunction(c, s) ==
  /\ Call(c) /\ NotReporting
  /\ callback_writeresults_' = [callback_writeresults_ EXCEPT ![s] = None]
  /\ CallbackUnchanged /\ UNCHANGED <<reporting, functions>>

CallbackWirteStatusAWTAM(s) ==
  /\ reporting[s] = None /\ callback_writeresults_[s] # None
  /\ reporting' = [reporting EXCEPT ![s] = callback_writeresults_[s]]
  /\ CallbackUnchanged /\ UNCHANGED <<callback_writeresults_, functions, calls>>
Reported(s) ==
  /\ reporting[s] # None
  /\ reporting' = [reporting EXCEPT ![s] = None]
  /\ CallbackUnchanged /\ UNCHANGED <<callback_writeresults_, functions, calls>>

ExclusiveCall(c) ==
  \E d \in Drives : AddDevice(c, d) \/ DeleteDevice(c, d) \/ \E s \in Streams : AddSession(c, d, s)
LookupCall(c) ==
  \E s \in Streams :
    \/ \E op \in {"use", "delete"} : Lookup(c, op, s, NoDrive)
    \/ \E d \in Drives : Lookup(c, "push", s, d)
InLookup(c) ==
  \/ UseFound(c) \/ DeleteFound(c) \/ PushFound(c) \/ CheckWorkerDrive(c) \/ RemoveIOWorker(c)
  \/ PushStream(c) \/ SetIndex(c) \/ CallWorker(c)
PathStep(c) == LockPath(c) \/ PathSet(c) \/ \E k \in Keys : VisitWorker(c, k)
CallbackCall(c) == \E s \in Streams : CallbackWriteResult(c, s) \/ DeleteCallbackFunction(c, s)
DriveStep == \E s \in Streams : CallbackWirteStatusAWTAM(s) \/ Reported(s)

Next ==
  /\ undefined = "no"
  /\ \/ DriveStep
     \/ \E c \in Clients : ExclusiveCall(c) \/ LookupCall(c) \/ InLookup(c) \/ SetSavePath(c)
                           \/ PathStep(c) \/ GetSaveStatus(c) \/ CallbackCall(c)

Spec == Init /\ [][Next]_vars

-----------------------------------------------------------------------------

ClientType ==
  [pc : {"idle", "found", "call", "remove", "push", "index", "path", "visit"},
   op : {"none", "use", "delete", "push", "path"},
   stream : Streams \cup {None}, drive : Drives \cup {NoDrive}, worker : Workers \cup {None, Null},
   object : Objects \cup {None}, path : 0..MaxPaths, todo : SUBSET Keys]

\* A call knows the worker it is about to use: the one it looked up stays registered as long as
\* the call holds mtx_worker.
ClientHolds(c) ==
  /\ client[c].pc \in {"found", "remove", "push", "index", "call"} => client[c].stream \in Streams
  /\ At(c, "found") => client[c].worker \in Workers \cup {Null}
  /\ client[c].pc \in {"remove", "call"} => client[c].worker \in Workers
  /\ client[c].pc \in {"remove", "push", "index"} => client[c].drive \in Drives
  /\ At(c, "found") /\ client[c].op = "push" => client[c].drive \in Drives
  /\ At(c, "index") => archive_workers[client[c].drive] \in Workers

TypeOK ==
  /\ archive_workers \in [Keys -> Workers \cup {None, Null}]
  /\ device_session_index \in [Streams -> Keys \cup {NoDrive}]
  /\ io_workers \in [Workers -> [Streams -> Objects \cup {None}]]
  /\ save_path_ \in 0..MaxPaths
  /\ workerPath \in [Workers -> 0..MaxPaths] /\ ioPath \in [Objects -> 0..MaxPaths]
  /\ drives_ \in [Drives -> Nat]
  /\ client \in [Clients -> ClientType] /\ \A c \in Clients : ClientHolds(c)
  /\ workers \in 0..MaxWorkers /\ objects \in 0..MaxObjects
  /\ undefined \in {"no", "race", "null"}

Quiet(s) == \A c \in Clients : client[c].stream # s

\* The drive a stream is looked for on holds its IOWorker, so that its chunks are recorded,
\* unless a drive was deleted while the stream was looked for there, or a call on the stream
\* overlapped a DeleteStream of it or a move of it: then the index may lead nowhere.
IndexLeadsHome ==
  undefined = "no" =>
    \A s \in Streams :
      LET k == device_session_index[s] IN
        k # NoDrive /\ s \notin left \cup crossed \cup overtaken /\ Quiet(s) =>
          archive_workers[k] \in Workers /\ io_workers[archive_workers[k]][s] # None

\* No drive keeps an IOWorker of a stream that is not looked for there, unless the stream was
\* added on two drives or its drive was deleted, or calls on it overlapped: it would never be deleted.
NoneForgotten ==
  undefined = "no" =>
    \A s \in Streams, k \in Keys :
      archive_workers[k] \in Workers /\ io_workers[archive_workers[k]][s] # None /\ Quiet(s)
        /\ s \notin doubled \cup crossed \cup left \cup overtaken =>
          device_session_index[s] = k

\* A chunk of a stream that is found is refused only if its drive was deleted, or if it overlapped
\* the deletion of its stream or another chunk while the stream moves to another drive (which
\* takes the IOWorker from the worker that was looked up, before that one is used).
RefusedOnlyIfOvertaken == refused \subseteq left \cup crossed \cup overtaken

\* An entry without a worker appears, and is used, only once a drive has been deleted with streams, a
\* DeleteStream has overlapped a chunk, or a chunk names a drive that was never added.
NullsExplained ==
  undefined = "null" \/ (\E k \in Keys : archive_workers[k] = Null) =>
    \/ left # {} \/ crossed # {}
    \/ \E c \in Clients : At(c, "push") /\ archive_workers[client[c].drive] \notin Workers

\* Once SetSavePath has returned, every IOWorker of a drive records under the new path, unless a
\* chunk moved it to another drive meanwhile, the path was set twice at a time, or a chunk
\* brought its stream back while it was deleted.
PathsAgree ==
  undefined = "no" /\ Setting = {} =>
    \A w \in Registered, s \in Streams \ crossed :
      io_workers[w][s] \notin {None} \cup unsettled => ioPath[io_workers[w][s]] = save_path_

\* The reader looks on every drive once (a file of a drive that is listed twice is played
\* twice), unless it was deleted and added again: DeleteDevice never takes it from the list.
EachDriveOnce ==
  \A d \in Drives : archive_workers[d] \in Workers /\ d \notin deletedDrives => drives_[d] = 1

\* The index, the drives' maps and the reader's list agree, and chunks are recorded: all of these.
RegistryAgrees == IndexLeadsHome /\ NoneForgotten /\ RefusedOnlyIfOvertaken /\ EachDriveOnce
=============================================================================
