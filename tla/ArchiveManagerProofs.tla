------------------------- MODULE ArchiveManagerProofs -------------------------
(***************************************************************************)
(* Theorems about ArchiveManager, for any drives, streams, threads and     *)
(* numbers of calls: the types, among which is that the worker a call has  *)
(* looked up is there as long as the call holds mtx_worker; that the index *)
(* and the drives' maps agree; where an entry without a worker comes from; *)
(* and that the paths agree once SetSavePath has returned.                 *)
(***************************************************************************)
EXTENDS ArchiveManager, TLAPS

RegistryType ==
  /\ archive_workers \in [Keys -> Workers \cup {None, Null}]
  /\ device_session_index \in [Streams -> Keys \cup {NoDrive}]
  /\ io_workers \in [Workers -> [Streams -> Objects \cup {None}]]
  /\ workers \in 0..MaxWorkers /\ objects \in 0..MaxObjects
PathType ==
  /\ save_path_ \in 0..MaxPaths
  /\ workerPath \in [Workers -> 0..MaxPaths] /\ ioPath \in [Objects -> 0..MaxPaths]
  /\ drives_ \in [Drives -> Nat]
  /\ undefined \in {"no", "race", "null"}
ClientsType == client \in [Clients -> ClientType] /\ \A c \in Clients : ClientHolds(c)

LEMMA Constants ==
  /\ None \notin Workers /\ Null \notin Workers /\ None # Null /\ None \notin Objects
  /\ Drives \subseteq Keys /\ EmptyDrive \in Keys /\ NoDrive \notin Drives
<1>1. None \notin Workers /\ Null \notin Workers /\ None # Null /\ None \notin Objects
  BY ConstantsAssumption DEF None, Null, Workers, Objects
<1>2. Drives \subseteq Keys /\ EmptyDrive \in Keys /\ NoDrive \notin Drives
  BY ConstantsAssumption DEF Keys
<1> QED BY <1>1, <1>2

(***************************************************************************)
(* A step of one client.                                                   *)
(***************************************************************************)
\* Workers that are registered stay, or nobody holds the lock.
Stay == \/ \A d \in Drives : archive_workers[d] \in Workers => archive_workers'[d] \in Workers
        \/ \A c \in Clients : ~At(c, "index")

LEMMA OthersHold ==
  ASSUME ClientsType, Stay, NEW c \in Clients, client'[c] = client[c]
  PROVE  ClientHolds(c)'
  BY DEF ClientsType, ClientHolds, At, Stay

LEMMA OneMoves ==
  ASSUME ClientsType, Stay, NEW c \in Clients, NEW r \in ClientType,
         client' = [client EXCEPT ![c] = r], ClientHolds(c)'
  PROVE  ClientsType'
<1>1. client' \in [Clients -> ClientType] /\ \A e \in Clients \ {c} : client'[e] = client[e]
  BY DEF ClientsType
<1>2. \A e \in Clients : ClientHolds(e)'
  BY <1>1, OthersHold
<1> QED BY <1>1, <1>2 DEF ClientsType

LEMMA NoneMoves ==
  ASSUME ClientsType, Stay, client' = client
  PROVE  ClientsType'
<1>1. \A c \in Clients : ClientHolds(c)'
  BY OthersHold
<1> QED BY <1>1 DEF ClientsType

LEMMA IdleType == Idle \in ClientType
<1>1. 0 \in 0..MaxPaths /\ {} \in SUBSET Keys
  BY ConstantsAssumption
<1> QED BY <1>1 DEF Idle, ClientType

LEMMA Returns ==
  ASSUME ClientsType, Stay, NEW c \in Clients, Return(c)
  PROVE  ClientsType'
<1>1. client' = [client EXCEPT ![c] = Idle]
  BY DEF Return
<1>2. client'[c] = Idle
  BY <1>1 DEF ClientsType
<1>3. ClientHolds(c)'
  BY <1>2 DEF ClientHolds, Idle, At
<1> QED BY <1>1, <1>3, IdleType, OneMoves

Places == {"idle", "found", "call", "remove", "push", "index", "path", "visit"}
LEMMA Goes ==
  ASSUME ClientsType, Stay, NEW c \in Clients, NEW pc \in Places, Goto(c, pc), ClientHolds(c)'
  PROVE  ClientsType'
<1>1. client' = [client EXCEPT ![c] = [client[c] EXCEPT !.pc = pc]]
  BY DEF Goto
<1>2. [client[c] EXCEPT !.pc = pc] \in ClientType
  BY DEF ClientsType, ClientType, Places
<1> QED BY <1>1, <1>2, OneMoves

LEMMA GotoFields ==
  ASSUME client \in [Clients -> ClientType], NEW c \in Clients, NEW pc, Goto(c, pc)
  PROVE  /\ client'[c].pc = pc /\ client'[c].op = client[c].op /\ client'[c].stream = client[c].stream
         /\ client'[c].drive = client[c].drive /\ client'[c].worker = client[c].worker
  BY DEF Goto, ClientType

\* The lock is given back by a call that has a worker, or found there was none.
LEMMA Unlocks ==
  ASSUME ClientsType, Stay, NEW c \in Clients, At(c, "found"), Unlock(c)
  PROVE  ClientsType'
<1>1. CASE client[c].worker = Null
  BY <1>1, Returns DEF Unlock
<1>2. CASE client[c].worker # Null
  <2>1. Goto(c, "call")
    BY <1>2 DEF Unlock
  <2>2. client[c].worker \in Workers /\ client[c].stream \in Streams
    BY <1>2 DEF ClientsType, ClientHolds, At
  <2>3. ClientHolds(c)'
    BY <2>1, <2>2, GotoFields DEF ClientsType, ClientHolds, At
  <2> QED BY <2>1, <2>3, Goes DEF Places
<1> QED BY <1>1, <1>2

LEMMA SetPathsType ==
  ASSUME PathType, NEW w, NEW o, NEW path \in 0..MaxPaths, SetPaths(w, o, path)
  PROVE  workerPath' \in [Workers -> 0..MaxPaths] /\ ioPath' \in [Objects -> 0..MaxPaths]
  BY DEF SetPaths, PathType

(***************************************************************************)
(* The steps.                                                              *)
(***************************************************************************)
LEMMA ExclusiveType ==
  ASSUME RegistryType, PathType, ClientsType, NEW c \in Clients, ExclusiveCall(c)
  PROVE  RegistryType' /\ PathType' /\ ClientsType'
<1> USE DEF registryVars, pathVars, callbackVars, countVars
<1>1. PICK d \in Drives : AddDevice(c, d) \/ DeleteDevice(c, d) \/ \E s \in Streams : AddSession(c, d, s)
  BY DEF ExclusiveCall
<1>2. d \in Keys
  BY Constants
<1>3. CASE AddDevice(c, d)
  <2>1. workers' \in Workers /\ workers' \in 0..MaxWorkers
    BY <1>3, ConstantsAssumption DEF AddDevice, RegistryType, Workers
  <2>2. workerPath' \in [Workers -> 0..MaxPaths] /\ ioPath' \in [Objects -> 0..MaxPaths]
    BY <1>3, SetPathsType DEF AddDevice, PathType
  <2>3. drives_' \in [Drives -> Nat]
    BY <1>3 DEF AddDevice, PathType
  <2>4. RegistryType'
    BY <1>2, <1>3, <2>1 DEF AddDevice, RegistryType
  <2>5. Stay
    BY <1>2, <1>3, <2>1 DEF AddDevice, Stay, RegistryType
  <2> QED BY <1>3, <2>2, <2>3, <2>4, <2>5, NoneMoves DEF AddDevice, PathType
<1>4. CASE DeleteDevice(c, d)
  <2>1. RegistryType'
    BY <1>2, <1>4 DEF DeleteDevice, RegistryType
  <2>2. Stay
    BY <1>4 DEF DeleteDevice, Exclusive, Holding, Stay, At
  <2> QED BY <1>4, <2>1, <2>2, NoneMoves DEF DeleteDevice, PathType
<1>5. ASSUME NEW s \in Streams, AddSession(c, d, s)
      PROVE  RegistryType' /\ PathType' /\ ClientsType'
  <2>1. UNCHANGED <<archive_workers, workers, save_path_, workerPath, drives_, client>>
    BY <1>5 DEF AddSession
  <2>2. device_session_index' \in [Streams -> Keys \cup {NoDrive}]
    BY <1>2, <1>5 DEF AddSession, Emplaced, RegistryType
  <2>3. /\ io_workers' \in [Workers -> [Streams -> Objects \cup {None}]]
        /\ ioPath' \in [Objects -> 0..MaxPaths] /\ objects' \in 0..MaxObjects
        /\ undefined' \in {"no", "race", "null"}
    <3>1. CASE UNCHANGED <<io_workers, ioPath, objects>>
      <4>1. undefined' = undefined \/ undefined' = "null"
        BY <1>5 DEF AddSession, UsesNull
      <4> QED BY <3>1, <4>1 DEF RegistryType, PathType
    <3>2. CASE /\ archive_workers[d] \in Workers /\ undefined' = undefined
               /\ objects < MaxObjects /\ objects' = objects + 1
               /\ io_workers' = [io_workers EXCEPT ![archive_workers[d]][s] = objects']
               /\ ioPath' = [ioPath EXCEPT ![objects'] = workerPath[archive_workers[d]]]
      <4>1. objects' \in Objects /\ objects' \in 0..MaxObjects
        BY <3>2, ConstantsAssumption DEF RegistryType, Objects
      <4>2. io_workers' \in [Workers -> [Streams -> Objects \cup {None}]]
        BY <3>2, <4>1 DEF RegistryType
      <4>3. ioPath' \in [Objects -> 0..MaxPaths]
        BY <3>2, <4>1 DEF PathType
      <4> QED BY <3>2, <4>1, <4>2, <4>3 DEF PathType
    <3> QED BY <1>5, <3>1, <3>2 DEF AddSession, AddStream
  <2>4. Stay
    BY <2>1 DEF Stay
  <2> QED BY <2>1, <2>2, <2>3, <2>4, NoneMoves DEF RegistryType, PathType
<1> QED BY <1>1, <1>3, <1>4, <1>5

\* The look-up, and what it makes of a drive that is not there.
LEMMA EntryType ==
  ASSUME RegistryType, NEW k \in Keys
  PROVE  /\ Entry(k) \in Workers \cup {Null}
         /\ [archive_workers EXCEPT ![k] = Entry(k)] \in [Keys -> Workers \cup {None, Null}]
         /\ archive_workers' = [archive_workers EXCEPT ![k] = Entry(k)] => Stay
<1>1. Entry(k) \in Workers \cup {Null} /\ (archive_workers[k] \in Workers => Entry(k) = archive_workers[k])
  BY Constants DEF Entry, RegistryType
<1>2. ASSUME archive_workers' = [archive_workers EXCEPT ![k] = Entry(k)]
      PROVE  Stay
  BY <1>1, <1>2, Constants DEF Stay, RegistryType
<1> QED BY <1>1, <1>2 DEF RegistryType

LEMMA ChangesType ==
  ASSUME NEW c, Changes(c)
  PROVE  undefined' \in {"no", "race", "null"}
  BY DEF Changes

LEMMA LookupType ==
  ASSUME RegistryType, PathType, ClientsType, NEW c \in Clients, NEW op \in {"use", "delete", "push"},
         NEW s \in Streams, NEW d \in Drives \cup {NoDrive}, op = "push" => d \in Drives,
         Lookup(c, op, s, d)
  PROVE  RegistryType' /\ PathType' /\ ClientsType'
<1> USE DEF registryVars, pathVars, callbackVars, countVars
<1> DEFINE k == device_session_index[s]
           r == [Idle EXCEPT !.pc = "found", !.op = op, !.stream = s, !.drive = d, !.worker = Entry(k)]
<1>1. k \in Keys
  BY DEF Lookup, RegistryType
<1>2. /\ archive_workers' = [archive_workers EXCEPT ![k] = Entry(k)]
      /\ client' = [client EXCEPT ![c] = r]
      /\ undefined' = undefined \/ undefined' \in {"no", "race", "null"}
      /\ UNCHANGED <<device_session_index, save_path_, workerPath, ioPath, io_workers, drives_, workers,
                     objects>>
  BY ChangesType DEF Lookup
<1>3. Entry(k) \in Workers \cup {Null}
  BY <1>1, EntryType
<1>4. /\ r \in ClientType /\ r.pc = "found" /\ r.op = op /\ r.stream = s /\ r.drive = d
      /\ r.worker = Entry(k)
  <2> HIDE DEF k
  <2> QED BY <1>3, IdleType DEF ClientType, Idle
<1>5. Stay /\ archive_workers' \in [Keys -> Workers \cup {None, Null}]
  BY <1>1, <1>2, EntryType
<1>6. ClientsType'
  <2> HIDE DEF r
  <2>1. client'[c] = r
    BY <1>2 DEF ClientsType
  <2>2. ClientHolds(c)'
    BY <1>3, <1>4, <2>1 DEF ClientHolds, At
  <2> QED BY <1>2, <1>4, <1>5, <2>2, OneMoves
<1> QED BY <1>2, <1>5, <1>6 DEF RegistryType, PathType

LEMMA InLookupType ==
  ASSUME RegistryType, PathType, ClientsType, NEW c \in Clients, InLookup(c)
  PROVE  RegistryType' /\ PathType' /\ ClientsType'
<1> USE DEF registryVars, pathVars, callbackVars, countVars
<1> DEFINE s == client[c].stream
<1>1. client[c] \in ClientType /\ ClientHolds(c)
  BY DEF ClientsType
<1>2. ASSUME UNCHANGED archive_workers PROVE Stay
  BY <1>2 DEF Stay
<1>3. CASE UseFound(c) \/ PushFound(c)
  <2>1. At(c, "found") /\ Unlock(c) /\ Stay
    BY <1>2, <1>3 DEF UseFound, PushFound
  <2>2. ClientsType'
    BY <2>1, Unlocks
  <2> QED BY <1>3, <2>2 DEF UseFound, PushFound, LookupUnchanged, RegistryType, PathType
<1>4. CASE DeleteFound(c)
  <2>1. At(c, "found") /\ Unlock(c) /\ Stay /\ undefined' \in {"no", "race", "null"}
    BY <1>2, <1>4, ChangesType DEF DeleteFound
  <2>2. ClientsType'
    BY <2>1, Unlocks
  <2>3. device_session_index' \in [Streams -> Keys \cup {NoDrive}]
    BY <1>4 DEF DeleteFound, RegistryType
  <2> QED BY <1>4, <2>1, <2>2, <2>3 DEF DeleteFound, LookupUnchanged, RegistryType, PathType
<1>5. CASE CheckWorkerDrive(c)
  <2>1. /\ At(c, "found") /\ client[c].op = "push" /\ s \in Streams /\ client[c].drive \in Drives
        /\ client[c].worker \in Workers \cup {Null}
    BY <1>1, <1>5 DEF CheckWorkerDrive, ClientHolds, At
  <2>2. device_session_index' \in [Streams -> Keys \cup {NoDrive}]
    BY <1>5, <2>1, Constants DEF CheckWorkerDrive, RegistryType
  <2>3. UNCHANGED <<archive_workers, io_workers, save_path_, workerPath, ioPath, drives_, workers, objects>>
    BY <1>5 DEF CheckWorkerDrive, LookupUnchanged
  <2>4. Stay
    BY <1>2, <2>3
  <2>5. undefined' \in {"no", "race", "null"}
    BY <1>5, ChangesType DEF CheckWorkerDrive, UsesNull, PathType
  <2>6. ClientsType'
    <3>1. CASE client' = client
      BY <2>4, <3>1, NoneMoves
    <3>2. CASE Goto(c, "call") /\ client[c].worker # Null
      <4>1. ClientHolds(c)'
        BY <2>1, <3>2, GotoFields DEF ClientsType, ClientHolds, At
      <4> QED BY <2>4, <3>2, <4>1, Goes DEF Places
    <3>3. ASSUME NEW object \in Objects, client[c].worker # Null,
                 client' = [client EXCEPT ![c].pc = "remove", ![c].object = object]
          PROVE  ClientsType'
      <4> DEFINE r == [client[c] EXCEPT !.pc = "remove", !.object = object]
      <4>1. client' = [client EXCEPT ![c] = r]
        BY <3>3 DEF ClientsType
      <4>2. /\ r \in ClientType /\ r.pc = "remove" /\ r.op = client[c].op /\ r.stream = s
            /\ r.drive = client[c].drive /\ r.worker = client[c].worker
        BY <1>1 DEF ClientType
      <4> HIDE DEF r
      <4>3. client'[c] = r
        BY <4>1 DEF ClientsType
      <4>4. ClientHolds(c)'
        BY <2>1, <3>3, <4>2, <4>3 DEF ClientHolds, At
      <4> QED BY <2>4, <4>1, <4>2, <4>4, OneMoves
    <3>4. client[c].worker # Null => io_workers[client[c].worker][s] \in Objects \cup {None}
      BY <2>1 DEF RegistryType
    <3> QED BY <1>5, <3>1, <3>2, <3>3, <3>4 DEF CheckWorkerDrive
  <2> QED BY <2>2, <2>3, <2>5, <2>6 DEF RegistryType, PathType
<1>6. CASE RemoveIOWorker(c)
  <2>1. At(c, "remove") /\ Goto(c, "push") /\ Stay /\ s \in Streams /\ client[c].drive \in Drives
        /\ client[c].worker \in Workers
    BY <1>1, <1>2, <1>6 DEF RemoveIOWorker, ClientHolds, At
  <2>2. ClientHolds(c)'
    BY <2>1, GotoFields DEF ClientsType, ClientHolds, At
  <2>3. ClientsType'
    BY <2>1, <2>2, Goes DEF Places
  <2>4. io_workers' \in [Workers -> [Streams -> Objects \cup {None}]]
    BY <1>6, <2>1 DEF RemoveIOWorker, RemovedFrom, RegistryType
  <2> QED BY <1>6, <2>3, <2>4 DEF RemoveIOWorker, LookupUnchanged, RegistryType, PathType
<1>7. CASE PushStream(c)
  <2> DEFINE d == client[c].drive
  <2>1. At(c, "push") /\ d \in Drives /\ d \in Keys /\ s \in Streams
    BY <1>1, <1>7, Constants DEF PushStream, ClientHolds, At
  <2>2. archive_workers' = [archive_workers EXCEPT ![d] = Entry(d)]
    BY <1>7 DEF PushStream
  <2>3. Stay /\ archive_workers' \in [Keys -> Workers \cup {None, Null}]
    BY <2>1, <2>2, EntryType
  <2>4. CASE archive_workers[d] \in Workers
    <3>1. /\ io_workers' = [io_workers EXCEPT ![archive_workers[d]][s] = client[c].object]
          /\ Goto(c, "index") /\ undefined' = undefined
      BY <1>7, <2>4 DEF PushStream
    <3>2. client[c].object \in Objects \cup {None}
      BY <1>1 DEF ClientType
    <3>3. io_workers' \in [Workers -> [Streams -> Objects \cup {None}]]
      BY <2>1, <2>4, <3>1, <3>2 DEF RegistryType
    <3>4. archive_workers'[d] \in Workers
      BY <2>1, <2>2, <2>4, Constants DEF Entry, RegistryType
    <3>5. ClientHolds(c)'
      BY <2>1, <3>1, <3>4, GotoFields DEF ClientsType, ClientHolds, At
    <3>6. ClientsType'
      BY <2>3, <3>1, <3>5, Goes DEF Places
    <3> QED BY <1>7, <2>3, <3>1, <3>3, <3>6 DEF PushStream, LookupUnchanged, RegistryType, PathType
  <2>5. CASE archive_workers[d] \notin Workers
    <3>1. undefined' = "null" /\ UNCHANGED <<io_workers, client>>
      BY <1>7, <2>5 DEF PushStream, UsesNull
    <3>2. ClientsType'
      BY <2>3, <3>1, NoneMoves
    <3> QED BY <1>7, <2>3, <3>1, <3>2 DEF PushStream, LookupUnchanged, RegistryType, PathType
  <2> QED BY <2>4, <2>5
<1>8. CASE SetIndex(c)
  <2> DEFINE d == client[c].drive
             r == [client[c] EXCEPT !.pc = "call", !.worker = Entry(d)]
  <2>1. At(c, "index") /\ d \in Drives /\ d \in Keys /\ s \in Streams /\ archive_workers[d] \in Workers
    BY <1>1, <1>8, Constants DEF SetIndex, ClientHolds, At
  <2>2. Entry(d) \in Workers
    BY <2>1, Constants DEF Entry
  <2>3. client' = [client EXCEPT ![c] = r] /\ Stay /\ undefined' \in {"no", "race", "null"}
    BY <1>2, <1>8, ChangesType DEF SetIndex, ClientsType
  <2>4. r \in ClientType /\ r.pc = "call" /\ r.stream = s /\ r.worker = Entry(d)
    BY <1>1, <2>2 DEF ClientType
  <2>5. ClientsType'
    <3> HIDE DEF r
    <3>1. client'[c] = r
      BY <2>3 DEF ClientsType
    <3>2. ClientHolds(c)'
      BY <2>1, <2>2, <2>4, <3>1 DEF ClientHolds, At
    <3> QED BY <2>3, <2>4, <3>2, OneMoves
  <2>6. device_session_index' \in [Streams -> Keys \cup {NoDrive}]
    BY <1>8, <2>1 DEF SetIndex, Indexed, RegistryType
  <2> QED BY <1>8, <2>3, <2>5, <2>6 DEF SetIndex, LookupUnchanged, RegistryType, PathType
<1>9. CASE CallWorker(c)
  <2>1. Return(c) /\ Stay
    BY <1>2, <1>9 DEF CallWorker
  <2>2. ClientsType'
    BY <2>1, Returns
  <2>3. client[c].worker \in Workers /\ s \in Streams
    BY <1>1, <1>9 DEF CallWorker, ClientHolds, At
  <2>4. io_workers' \in [Workers -> [Streams -> Objects \cup {None}]]
    BY <1>9, <2>3 DEF CallWorker, RegistryType
  <2> QED BY <1>9, <2>2, <2>4 DEF CallWorker, RegistryType, PathType
<1> QED BY <1>3, <1>4, <1>5, <1>6, <1>7, <1>8, <1>9 DEF InLookup

LEMMA PathStepType ==
  ASSUME RegistryType, PathType, ClientsType, NEW c \in Clients, SetSavePath(c) \/ PathStep(c)
  PROVE  RegistryType' /\ PathType' /\ ClientsType'
<1> USE DEF registryVars, pathVars, callbackVars, countVars
<1>1. client[c] \in ClientType
  BY DEF ClientsType
<1>2. ASSUME UNCHANGED archive_workers PROVE Stay
  BY <1>2 DEF Stay
<1>3. CASE SetSavePath(c)
  <2> DEFINE r == [Idle EXCEPT !.pc = "path", !.op = "path", !.path = save_path_']
  <2>1. save_path_' \in 0..MaxPaths
    BY <1>3, ConstantsAssumption DEF SetSavePath, PathType
  <2>2. client' = [client EXCEPT ![c] = r] /\ Stay
    BY <1>2, <1>3 DEF SetSavePath
  <2>3. r \in ClientType /\ r.pc = "path"
    BY <2>1, IdleType DEF Idle, ClientType
  <2>4. ClientsType'
    <3> HIDE DEF r
    <3>1. client'[c] = r
      BY <2>2 DEF ClientsType
    <3>2. ClientHolds(c)'
      BY <2>3, <3>1 DEF ClientHolds, At
    <3> QED BY <2>2, <2>3, <3>2, OneMoves
  <2> QED BY <1>3, <2>1, <2>4 DEF SetSavePath, RegistryType, PathType
<1>4. CASE LockPath(c)
  <2> DEFINE keys == {k \in Keys : archive_workers[k] # None}
             r == [client[c] EXCEPT !.pc = "visit", !.todo = keys]
  <2>1. client' = [client EXCEPT ![c] = r] /\ Stay
    BY <1>2, <1>4 DEF LockPath, ClientsType
  <2>2. r \in ClientType /\ r.pc = "visit"
    BY <1>1 DEF ClientType
  <2>3. ClientsType'
    <3> HIDE DEF r
    <3>1. client'[c] = r
      BY <2>1 DEF ClientsType
    <3>2. ClientHolds(c)'
      BY <2>2, <3>1 DEF ClientHolds, At
    <3> QED BY <2>1, <2>2, <3>2, OneMoves
  <2> QED BY <1>4, <2>3 DEF LockPath, LookupUnchanged, RegistryType, PathType
<1>5. ASSUME NEW k \in Keys, VisitWorker(c, k)
      PROVE  RegistryType' /\ PathType' /\ ClientsType'
  <2> DEFINE r == [client[c] EXCEPT !.todo = client[c].todo \ {k}]
  <2>1. client' = [client EXCEPT ![c] = r] /\ Stay /\ At(c, "visit")
    BY <1>2, <1>5 DEF VisitWorker, ClientsType
  <2>2. r \in ClientType /\ r.pc = "visit"
    BY <1>1, <2>1 DEF ClientType, At
  <2>3. ClientsType'
    <3> HIDE DEF r
    <3>1. client'[c] = r
      BY <2>1 DEF ClientsType
    <3>2. ClientHolds(c)'
      BY <2>2, <3>1 DEF ClientHolds, At
    <3> QED BY <2>1, <2>2, <3>2, OneMoves
  <2>4. /\ workerPath' \in [Workers -> 0..MaxPaths] /\ ioPath' \in [Objects -> 0..MaxPaths]
        /\ undefined' \in {"no", "race", "null"}
    <3>1. CASE undefined' = "null" /\ UNCHANGED <<workerPath, ioPath>>
      BY <3>1 DEF PathType
    <3>2. CASE /\ SetPaths(archive_workers[k], Visited(archive_workers[k]), client[c].path)
               /\ undefined' = undefined
      <4>1. client[c].path \in 0..MaxPaths
        BY <1>1 DEF ClientType
      <4> QED BY <3>2, <4>1, SetPathsType DEF PathType
    <3> QED BY <1>5, <3>1, <3>2 DEF VisitWorker, UsesNull
  <2> QED BY <1>5, <2>3, <2>4 DEF VisitWorker, RegistryType, PathType
<1>6. CASE PathSet(c)
  <2>1. ClientsType'
    BY <1>2, <1>6, Returns DEF PathSet
  <2> QED BY <1>6, <2>1 DEF PathSet, LookupUnchanged, RegistryType, PathType
<1> QED BY <1>3, <1>4, <1>5, <1>6 DEF PathStep

LEMMA StepType == TypeOK /\ [Next]_vars => TypeOK'
<1> SUFFICES ASSUME RegistryType, PathType, ClientsType, [Next]_vars
             PROVE  RegistryType' /\ PathType' /\ ClientsType'
  BY DEF TypeOK, RegistryType, PathType, ClientsType
<1> USE DEF registryVars, pathVars, callbackVars, countVars
<1>1. ASSUME CallbackUnchanged
      PROVE  RegistryType' /\ PathType' /\ ClientsType'
  <2>1. ClientsType'
    BY <1>1, NoneMoves DEF CallbackUnchanged, Stay
  <2> QED BY <1>1, <2>1 DEF CallbackUnchanged, RegistryType, PathType
<1>2. CASE DriveStep
  BY <1>1, <1>2 DEF DriveStep, CallbackWirteStatusAWTAM, Reported
<1>3. ASSUME NEW c \in Clients,
             \/ ExclusiveCall(c) \/ LookupCall(c) \/ InLookup(c) \/ SetSavePath(c) \/ PathStep(c)
             \/ GetSaveStatus(c) \/ CallbackCall(c)
      PROVE  RegistryType' /\ PathType' /\ ClientsType'
  <2>1. CASE LookupCall(c)
    BY <2>1, LookupType DEF LookupCall
  <2>2. CASE GetSaveStatus(c)
    <3>1. ClientsType'
      BY <2>2, NoneMoves DEF GetSaveStatus, Stay
    <3>2. undefined' \in {"no", "race", "null"}
      BY <2>2 DEF GetSaveStatus, UsesNull, PathType
    <3> QED BY <2>2, <3>1, <3>2 DEF GetSaveStatus, RegistryType, PathType
  <2>3. CASE CallbackCall(c)
    BY <1>1, <2>3 DEF CallbackCall, CallbackWriteResult, DeleteCallbackFunction
  <2> QED BY <1>3, <2>1, <2>2, <2>3, ExclusiveType, InLookupType, PathStepType
<1>4. CASE UNCHANGED vars
  <2>1. ClientsType'
    BY <1>4, NoneMoves DEF vars, Stay
  <2> QED BY <1>4, <2>1 DEF vars, RegistryType, PathType
<1> QED BY <1>2, <1>3, <1>4 DEF Next

LEMMA InitType == Init => TypeOK
<1> SUFFICES ASSUME Init PROVE RegistryType /\ PathType /\ ClientsType
  BY DEF TypeOK, RegistryType, PathType, ClientsType
<1>1. 0 \in 0..MaxPaths /\ 0 \in 0..MaxWorkers /\ 0 \in 0..MaxObjects
  BY ConstantsAssumption
<1>2. RegistryType
  BY <1>1 DEF Init, RegistryType
<1>3. PathType
  BY <1>1 DEF Init, PathType
<1>4. ClientsType
  BY IdleType DEF Init, ClientsType, ClientHolds, Idle, At
<1> QED BY <1>2, <1>3, <1>4

\* Every variable keeps its type, and a call holds a worker that is registered until it gives
\* mtx_worker back (PushDataGroup, CheckWorkerDrive, DeleteStream).
THEOREM TypeCorrect == Spec => []TypeOK
  BY InitType, StepType, PTL DEF Spec

(***************************************************************************)
(* The calls on a stream.  While a stream has lost no drive and no call on *)
(* it overlapped a deletion or a move of it ("Clean"), a call in flight    *)
(* knows where the IOWorker of its stream is.                              *)
(***************************************************************************)
\* Workers have numbers of their own, and a worker that is not there yet has no stream.
Apart ==
  /\ \A k \in Keys : archive_workers[k] \in Workers => archive_workers[k] <= workers
  /\ \A j, k \in Keys : archive_workers[j] \in Workers /\ archive_workers[j] = archive_workers[k] => j = k
  /\ \A w \in Workers, s \in Streams : w > workers => io_workers[w][s] = None

OpOf(c) ==
  /\ client[c].pc \in {"remove", "push", "index"} => client[c].op = "push"
  /\ client[c].pc \in {"found", "call"} => client[c].op \in {"use", "delete", "push"}
  /\ client[c].pc \in {"path", "visit"} <=> client[c].op = "path"
  /\ At(c, "idle") <=> client[c].op = "none"
Ops == \A c \in Clients : OpOf(c)

Clean(s) == s \notin left \cup crossed \cup overtaken
HomeOf(s) == archive_workers[device_session_index[s]]
Has(w, s) == w \in Workers /\ io_workers[w][s] # None

PushKnows(c, s) ==
  /\ device_session_index[s] # NoDrive /\ HomeOf(s) \in Workers
  /\ client[c].pc \in {"found", "remove", "call"} => client[c].worker = HomeOf(s)
  /\ client[c].pc \in {"remove", "push"} => client[c].object # None
  /\ client[c].pc \in {"remove", "push", "index"} => client[c].drive # device_session_index[s]
  /\ client[c].pc \in {"push", "index"} => io_workers[HomeOf(s)][s] = None
  /\ At(c, "index") => Has(archive_workers[client[c].drive], s)
DeleteKnows(c, s) ==
  /\ At(c, "found") => device_session_index[s] # NoDrive /\ client[c].worker = HomeOf(s)
  /\ At(c, "call") => device_session_index[s] = NoDrive
Pushes(s) ==
  /\ \A c \in Busy("push", s) : PushKnows(c, s)
  /\ \A b, c \in Busy("push", s) :
       b # c => client[c].drive = device_session_index[s] /\ client[c].pc \in {"found", "call"}
Deletes(s) ==
  /\ \A c \in Busy("delete", s) : DeleteKnows(c, s)
  /\ \A c \in Busy("delete", s), b \in Busy("push", s) \cup Busy("delete", s) : b = c
Home(s) ==
  device_session_index[s] # NoDrive /\ (\A c \in Busy("push", s) : client[c].pc \notin {"push", "index"})
    => Has(HomeOf(s), s)
Sole(s) ==
  s \notin doubled =>
    \A k \in Keys :
      Has(archive_workers[k], s) =>
        \/ device_session_index[s] = k
        \/ \E c \in Busy("push", s) : At(c, "index") /\ client[c].drive = k
        \/ \E c \in Busy("delete", s) : At(c, "call") /\ client[c].worker = archive_workers[k]
StreamInv(s) == Pushes(s) /\ Deletes(s) /\ Home(s) /\ Sole(s)
CallsInv == undefined = "no" => \A s \in Streams : Clean(s) => StreamInv(s)

\* No entry without a worker, as long as nothing explains one.
NoNull ==
  /\ undefined # "null" /\ \A k \in Keys : archive_workers[k] # Null
  /\ \A s \in Streams : device_session_index[s] # NoDrive => HomeOf(s) \in Workers
  /\ \A c \in Clients : At(c, "found") => client[c].worker \in Workers
  /\ \A s \in Streams : Busy("push", s) # {} =>
                          device_session_index[s] # NoDrive /\ Busy("delete", s) = {}
Unadded == \E c \in Clients : At(c, "push") /\ archive_workers[client[c].drive] \notin Workers
NullInv == left # {} \/ crossed # {} \/ Unadded \/ NoNull

Listed ==
  \A d \in Drives : d \notin deletedDrives =>
                      drives_[d] = IF archive_workers[d] \in Workers THEN 1 ELSE 0

RegistryInv == Apart /\ Ops /\ CallsInv /\ Listed /\ RefusedOnlyIfOvertaken

-----------------------------------------------------------------------------
(***************************************************************************)
(* What a step does to the client that takes it.                           *)
(***************************************************************************)
Others(c) == \A b \in Clients \ {c} : client'[b] = client[b]
Same(c) ==
  /\ client'[c].op = client[c].op /\ client'[c].stream = client[c].stream
  /\ client'[c].drive = client[c].drive

LEMMA GoesTo ==
  ASSUME client \in [Clients -> ClientType], NEW c \in Clients, NEW pc, Goto(c, pc)
  PROVE  /\ Others(c) /\ Same(c) /\ client'[c].pc = pc /\ client'[c].worker = client[c].worker
         /\ client'[c].object = client[c].object
  BY DEF Goto, ClientType, Others, Same

LEMMA ReturnsIdle ==
  ASSUME client \in [Clients -> ClientType], NEW c \in Clients, Return(c)
  PROVE  Others(c) /\ client'[c].pc = "idle" /\ client'[c].op = "none"
  BY DEF Return, ClientType, Others, Idle

LEMMA UnlocksTo ==
  ASSUME client \in [Clients -> ClientType], NEW c \in Clients, Unlock(c)
  PROVE  /\ Others(c)
         /\ \/ client'[c].pc = "idle" /\ client'[c].op = "none" /\ client[c].worker = Null
            \/ /\ client'[c].pc = "call" /\ Same(c) /\ client'[c].worker = client[c].worker
               /\ client[c].worker # Null
  BY GoesTo, ReturnsIdle DEF Unlock

LEMMA LooksUp ==
  ASSUME client \in [Clients -> ClientType], NEW c \in Clients, NEW op, NEW s \in Streams, NEW d,
         Lookup(c, op, s, d)
  PROVE  /\ At(c, "idle") /\ Others(c) /\ client'[c].pc = "found" /\ client'[c].op = op
         /\ client'[c].stream = s /\ client'[c].drive = d
         /\ client'[c].worker = Entry(device_session_index[s])
  BY DEF Lookup, Call, Others, ClientType, Idle

LEMMA Checks ==
  ASSUME RegistryType, ClientsType, NEW c \in Clients, CheckWorkerDrive(c), client[c].worker # Null
  PROVE  LET s == client[c].stream
             w == client[c].worker IN
         /\ s \in Streams /\ w \in Workers /\ Others(c) /\ Same(c) /\ client'[c].worker = w
         /\ \/ io_workers[w][s] = None /\ client'[c].pc = "call"
            \/ /\ io_workers[w][s] # None /\ client'[c].pc = "remove"
               /\ client'[c].object = io_workers[w][s]
<1> DEFINE s == client[c].stream
           w == client[c].worker
<1>1. client \in [Clients -> ClientType] /\ At(c, "found") /\ s \in Streams /\ w \in Workers
  BY DEF ClientsType, ClientHolds, CheckWorkerDrive, At
<1>2. \/ io_workers[w][s] = None /\ Goto(c, "call")
      \/ /\ io_workers[w][s] # None
         /\ client' = [client EXCEPT ![c].pc = "remove", ![c].object = io_workers[w][s]]
  BY <1>1 DEF CheckWorkerDrive
<1>3. CASE io_workers[w][s] = None /\ Goto(c, "call")
  BY <1>1, <1>3, GoesTo
<1>4. CASE /\ io_workers[w][s] # None
           /\ client' = [client EXCEPT ![c].pc = "remove", ![c].object = io_workers[w][s]]
  <2>1. PICK o : o = io_workers[w][s]
    OBVIOUS
  <2>2. client' = [client EXCEPT ![c].pc = "remove", ![c].object = o]
    BY <1>4, <2>1
  <2> QED BY <1>1, <1>4, <2>1, <2>2 DEF Others, Same, ClientType
<1> QED BY <1>1, <1>2, <1>3, <1>4

LEMMA Indexes ==
  ASSUME client \in [Clients -> ClientType], NEW c \in Clients, SetIndex(c)
  PROVE  /\ Others(c) /\ Same(c) /\ client'[c].pc = "call"
         /\ client'[c].worker = Entry(client[c].drive)
<1>1. PICK w : w = Entry(client[c].drive)
  OBVIOUS
<1> QED BY <1>1 DEF SetIndex, Others, Same, ClientType

LEMMA VisitsPaths ==
  ASSUME client \in [Clients -> ClientType], NEW c \in Clients, SetSavePath(c) \/ PathStep(c)
  PROVE  /\ Others(c)
         /\ client[c].pc \in {"idle", "path", "visit"} /\ client'[c].pc \in {"idle", "path", "visit"}
         /\ client'[c].op = IF client'[c].pc = "idle" THEN "none" ELSE IF At(c, "idle") THEN "path" ELSE client[c].op
<1>1. CASE SetSavePath(c)
  <2>1. PICK path : path = save_path_'
    OBVIOUS
  <2> QED BY <1>1, <2>1 DEF SetSavePath, Call, At, Others, Idle, ClientType
<1>2. CASE LockPath(c)
  <2>1. PICK todo : todo = {k \in Keys : archive_workers[k] # None}
    OBVIOUS
  <2>2. client' = [client EXCEPT ![c].pc = "visit", ![c].todo = todo] /\ At(c, "path")
    BY <1>2, <2>1 DEF LockPath
  <2> QED BY <2>2 DEF At, Others, ClientType
<1>3. ASSUME NEW k \in Keys, VisitWorker(c, k)
      PROVE  /\ Others(c) /\ At(c, "visit") /\ client'[c].pc = "visit" /\ client'[c].op = client[c].op
  <2>1. client' = [client EXCEPT ![c].todo = @ \ {k}] /\ At(c, "visit")
    BY <1>3 DEF VisitWorker
  <2> QED BY <2>1 DEF At, Others, ClientType
<1>4. CASE PathSet(c)
  BY <1>4, ReturnsIdle DEF PathSet, At
<1> QED BY <1>1, <1>2, <1>3, <1>4 DEF PathStep, At

\* A step is a call of the functions, or a step of one client on the registry.
LEMMA Steps ==
  ASSUME Next
  PROVE  /\ undefined = "no"
         /\ \/ CallbackUnchanged
            \/ \E c \in Clients : \/ ExclusiveCall(c) \/ LookupCall(c) \/ InLookup(c)
                                  \/ SetSavePath(c) \/ PathStep(c) \/ GetSaveStatus(c)
  BY DEF Next, DriveStep, CallbackCall, CallbackWirteStatusAWTAM, Reported, CallbackWriteResult,
         DeleteCallbackFunction

(***************************************************************************)
(* The workers apart, and what each thread is at.                          *)
(***************************************************************************)
LEMMA OneOp ==
  ASSUME Ops, NEW c \in Clients, Others(c), OpOf(c)'
  PROVE  Ops'
<1>1. ASSUME NEW b \in Clients, b # c PROVE OpOf(b)'
  BY <1>1 DEF Ops, OpOf, At, Others
<1> QED BY <1>1 DEF Ops

LEMMA StepOps == TypeOK /\ Ops /\ [Next]_vars => Ops'
<1> SUFFICES ASSUME RegistryType, ClientsType, TypeOK, Ops, [Next]_vars PROVE Ops'
  BY DEF TypeOK, RegistryType, ClientsType
<1> USE DEF ClientsType
<1>1. ASSUME UNCHANGED client PROVE Ops'
  BY <1>1 DEF Ops, OpOf, At
<1>2. ASSUME NEW c \in Clients, ExclusiveCall(c) \/ GetSaveStatus(c) PROVE Ops'
  BY <1>1, <1>2 DEF ExclusiveCall, AddDevice, DeleteDevice, AddSession, GetSaveStatus
<1>3. ASSUME NEW c \in Clients, LookupCall(c) PROVE Ops'
  <2>1. PICK s \in Streams, op \in {"use", "delete", "push"}, d \in Drives \cup {NoDrive} : Lookup(c, op, s, d)
    BY <1>3 DEF LookupCall
  <2>2. Others(c) /\ client'[c].pc = "found" /\ client'[c].op = op
    BY <2>1, LooksUp
  <2> QED BY <2>2, OneOp DEF OpOf, At
<1>4. ASSUME NEW c \in Clients, InLookup(c) PROVE Ops'
  <2>1. OpOf(c)
    BY DEF Ops
  <2>2. CASE UseFound(c) \/ PushFound(c) \/ DeleteFound(c)
    <3>1. Unlock(c) /\ At(c, "found")
      BY <2>2 DEF UseFound, PushFound, DeleteFound
    <3> QED BY <2>1, <3>1, UnlocksTo, OneOp DEF OpOf, At, Same
  <2>3. CASE CheckWorkerDrive(c)
    <3>1. CASE client[c].worker = Null
      BY <1>1, <2>3, <3>1 DEF CheckWorkerDrive
    <3>2. CASE client[c].worker # Null
      BY <2>1, <2>3, <3>2, Checks, OneOp DEF OpOf, At, Same, CheckWorkerDrive
    <3> QED BY <3>1, <3>2
  <2>4. CASE RemoveIOWorker(c)
    <3>1. Goto(c, "push") /\ At(c, "remove")
      BY <2>4 DEF RemoveIOWorker
    <3> QED BY <2>1, <3>1, GoesTo, OneOp DEF OpOf, At, Same
  <2>5. CASE PushStream(c)
    <3>1. At(c, "push") /\ (Goto(c, "index") \/ UNCHANGED client)
      BY <2>5 DEF PushStream
    <3> QED BY <1>1, <2>1, <3>1, GoesTo, OneOp DEF OpOf, At, Same
  <2>6. CASE SetIndex(c)
    BY <2>1, <2>6, Indexes, OneOp DEF OpOf, At, Same, SetIndex
  <2>7. CASE CallWorker(c)
    BY <2>7, ReturnsIdle, OneOp DEF OpOf, At, CallWorker
  <2> QED BY <1>4, <2>2, <2>3, <2>4, <2>5, <2>6, <2>7 DEF InLookup
<1>5. ASSUME NEW c \in Clients, SetSavePath(c) \/ PathStep(c) PROVE Ops'
  <2>1. OpOf(c)
    BY DEF Ops
  <2> QED BY <1>5, <2>1, VisitsPaths, OneOp DEF OpOf, At
<1>6. CASE UNCHANGED vars
  BY <1>1, <1>6 DEF vars
<1> QED BY <1>1, <1>2, <1>3, <1>4, <1>5, <1>6, Steps DEF CallbackUnchanged

LEMMA StepApart == TypeOK /\ Apart /\ [Next]_vars => Apart'
<1> SUFFICES ASSUME RegistryType, ClientsType, Apart, [Next]_vars PROVE Apart'
  BY DEF TypeOK, RegistryType, ClientsType
<1> USE DEF registryVars, pathVars, callbackVars, countVars
<1>1. ASSUME UNCHANGED <<archive_workers, workers, io_workers>> PROVE Apart'
  BY <1>1 DEF Apart
<1>2. ASSUME NEW k \in Keys, archive_workers' = [archive_workers EXCEPT ![k] = Entry(k)],
             UNCHANGED workers,
             \A w \in Workers, s \in Streams :
               io_workers'[w][s] # io_workers[w][s] => w <= workers
      PROVE  Apart'
  <2>1. \A j \in Keys : archive_workers'[j] \in Workers => archive_workers'[j] = archive_workers[j]
    BY <1>2, Constants DEF RegistryType, Entry
  <2>2. workers \in Int /\ \A w \in Workers : w \in Int
    BY ConstantsAssumption DEF RegistryType, Workers
  <2> QED BY <1>2, <2>1, <2>2 DEF Apart
<1>3. ASSUME NEW c \in Clients, ExclusiveCall(c) PROVE Apart'
  <2>1. PICK d \in Drives : AddDevice(c, d) \/ DeleteDevice(c, d) \/ \E s \in Streams : AddSession(c, d, s)
    BY <1>3 DEF ExclusiveCall
  <2>2. d \in Keys
    BY Constants
  <2>3. CASE AddDevice(c, d)
    <3>1. /\ workers' = workers + 1 /\ archive_workers' = [archive_workers EXCEPT ![d] = workers + 1]
          /\ io_workers' = io_workers
      BY <2>3 DEF AddDevice
    <3>2. workers \in Int /\ workers >= 0 /\ \A w \in Workers : w \in Int
      BY ConstantsAssumption DEF RegistryType, Workers
    <3> QED BY <2>2, <3>1, <3>2 DEF Apart, RegistryType
  <2>4. CASE DeleteDevice(c, d)
    <3>1. /\ archive_workers' = [archive_workers EXCEPT ![d] = None]
          /\ UNCHANGED <<workers, io_workers>>
      BY <2>4 DEF DeleteDevice
    <3> QED BY <2>2, <3>1, Constants DEF Apart, RegistryType
  <2>5. ASSUME NEW s \in Streams, AddSession(c, d, s) PROVE Apart'
    <3>1. UNCHANGED <<archive_workers, workers>>
      BY <2>5 DEF AddSession
    <3>2. CASE UNCHANGED io_workers
      BY <1>1, <3>1, <3>2
    <3>3. CASE archive_workers[d] \in Workers /\ io_workers' = [io_workers EXCEPT ![archive_workers[d]][s] = objects']
      <4>1. \A w \in Workers, t \in Streams : w # archive_workers[d] => io_workers'[w][t] = io_workers[w][t]
        BY <3>3 DEF RegistryType
      <4>2. workers \in Int /\ \A w \in Workers : w \in Int
        BY ConstantsAssumption DEF RegistryType, Workers
      <4> QED BY <2>2, <3>1, <3>3, <4>1, <4>2 DEF Apart
    <3> QED BY <2>5, <3>2, <3>3 DEF AddSession, AddStream
  <2> QED BY <2>1, <2>3, <2>4, <2>5
<1>4. ASSUME NEW c \in Clients, LookupCall(c) PROVE Apart'
  <2>1. PICK s \in Streams, op \in {"use", "delete", "push"}, d \in Drives \cup {NoDrive} : Lookup(c, op, s, d)
    BY <1>4 DEF LookupCall
  <2>2. device_session_index[s] \in Keys
    BY <2>1 DEF Lookup, RegistryType
  <2> QED BY <1>2, <2>1, <2>2 DEF Lookup
<1>5. ASSUME NEW c \in Clients, InLookup(c) PROVE Apart'
  <2>1. CASE UseFound(c) \/ PushFound(c) \/ DeleteFound(c) \/ CheckWorkerDrive(c) \/ SetIndex(c)
    BY <1>1, <2>1 DEF UseFound, PushFound, DeleteFound, CheckWorkerDrive, SetIndex, LookupUnchanged
  <2>2. CASE RemoveIOWorker(c) \/ CallWorker(c)
    <3> DEFINE s == client[c].stream
               v == client[c].worker
    <3>1. v \in Workers /\ s \in Streams /\ UNCHANGED <<archive_workers, workers>>
      BY <2>2 DEF RemoveIOWorker, CallWorker, ClientsType, ClientHolds, At, LookupUnchanged
    <3>2. io_workers' = [io_workers EXCEPT ![v][s] = None] \/ io_workers' = io_workers
      BY <2>2 DEF RemoveIOWorker, RemovedFrom, CallWorker
    <3>3. \A w \in Workers, t \in Streams : io_workers'[w][t] \in {None, io_workers[w][t]}
      BY <3>1, <3>2 DEF RegistryType
    <3> QED BY <3>1, <3>3 DEF Apart
  <2>3. CASE PushStream(c)
    <3> DEFINE s == client[c].stream
               d == client[c].drive
    <3>1. /\ d \in Keys /\ s \in Streams
          /\ archive_workers' = [archive_workers EXCEPT ![d] = Entry(d)] /\ UNCHANGED workers
      BY <2>3, Constants DEF PushStream, ClientsType, ClientHolds, At, LookupUnchanged
    <3>2. \/ io_workers' = io_workers
          \/ /\ archive_workers[d] \in Workers
             /\ io_workers' = [io_workers EXCEPT ![archive_workers[d]][s] = client[c].object]
      BY <2>3 DEF PushStream
    <3>3. \A w \in Workers, t \in Streams :
            io_workers'[w][t] # io_workers[w][t] => archive_workers[d] \in Workers /\ w = archive_workers[d]
      BY <3>1, <3>2 DEF RegistryType
    <3>4. archive_workers[d] \in Workers => archive_workers[d] <= workers
      BY <3>1 DEF Apart
    <3> QED BY <1>2, <3>1, <3>3, <3>4
  <2> QED BY <1>5, <2>1, <2>2, <2>3 DEF InLookup
<1>6. ASSUME NEW c \in Clients, SetSavePath(c) \/ PathStep(c) \/ GetSaveStatus(c) PROVE Apart'
  BY <1>1, <1>6 DEF SetSavePath, PathStep, LockPath, VisitWorker, PathSet, GetSaveStatus, LookupUnchanged
<1>7. CASE UNCHANGED vars
  BY <1>1, <1>7 DEF vars
<1> QED BY <1>1, <1>3, <1>4, <1>5, <1>6, <1>7, Steps DEF CallbackUnchanged

(***************************************************************************)
(* A clean stream.                                                         *)
(***************************************************************************)
\* What a step may leave alone of a stream.
BusyOn(c, s) == client[c].stream = s /\ client[c].op \in {"push", "delete"}
Calm(s) == \A c \in Clients : client'[c] = client[c] \/ (~BusyOn(c, s) /\ ~BusyOn(c, s)')
SameMaps(s) == \A w \in Workers : io_workers'[w][s] = io_workers[w][s]
SameEntries(s) ==
  /\ device_session_index[s] # NoDrive => HomeOf(s)' = HomeOf(s)
  /\ \A c \in Clients : At(c, "index") => archive_workers'[client[c].drive] = archive_workers[client[c].drive]
  /\ \A k \in Keys : Has(archive_workers[k], s)' => archive_workers'[k] = archive_workers[k]

LEMMA Untouched ==
  ASSUME NEW s \in Streams, StreamInv(s), Calm(s), SameMaps(s), SameEntries(s),
         device_session_index'[s] = device_session_index[s], doubled \subseteq doubled'
  PROVE  StreamInv(s)'
<1> USE DEF BusyOn
<1>1. /\ \A c \in Clients : c \in Busy("push", s)' => c \in Busy("push", s) /\ client'[c] = client[c]
      /\ \A c \in Clients : c \in Busy("push", s) => c \in Busy("push", s)' /\ client'[c] = client[c]
      /\ \A c \in Clients : c \in Busy("delete", s)' => c \in Busy("delete", s) /\ client'[c] = client[c]
      /\ \A c \in Clients : c \in Busy("delete", s) => c \in Busy("delete", s)' /\ client'[c] = client[c]
      /\ \A op : Busy(op, s) \subseteq Clients /\ Busy(op, s)' \subseteq Clients
  BY DEF Calm, Busy
<1>2. Pushes(s)'
  <2>1. ASSUME NEW c \in Clients, c \in Busy("push", s)'
        PROVE  PushKnows(c, s)'
    <3>1. PushKnows(c, s) /\ client'[c] = client[c]
      BY <1>1, <2>1 DEF StreamInv, Pushes
    <3>2. device_session_index[s] # NoDrive /\ HomeOf(s)' = HomeOf(s)
      BY <3>1 DEF PushKnows, SameEntries
    <3>3. At(c, "index") => Has(archive_workers[client[c].drive], s)'
      BY <3>1 DEF PushKnows, SameEntries, SameMaps, Has
    <3> QED BY <3>1, <3>2, <3>3 DEF PushKnows, At, SameMaps, SameEntries
  <2>2. ASSUME NEW b \in Clients, NEW c \in Clients, b \in Busy("push", s)', c \in Busy("push", s)', b # c
        PROVE  client'[c].drive = device_session_index'[s] /\ client'[c].pc \in {"found", "call"}
    BY <1>1, <2>2 DEF StreamInv, Pushes
  <2> QED BY <1>1, <2>1, <2>2 DEF Pushes
<1>3. Deletes(s)'
  <2>1. ASSUME NEW c \in Clients, c \in Busy("delete", s)'
        PROVE  DeleteKnows(c, s)'
    <3>1. DeleteKnows(c, s) /\ client'[c] = client[c]
      BY <1>1, <2>1 DEF StreamInv, Deletes
    <3> QED BY <3>1 DEF DeleteKnows, At, SameEntries
  <2>2. ASSUME NEW b \in Clients, NEW c \in Clients, c \in Busy("delete", s)',
               b \in Busy("push", s)' \cup Busy("delete", s)'
        PROVE  b = c
    BY <1>1, <2>2 DEF StreamInv, Deletes
  <2> QED BY <1>1, <2>1, <2>2 DEF Deletes
<1>4. Home(s)'
  <2> SUFFICES ASSUME device_session_index[s] # NoDrive,
                      \A c \in Busy("push", s)' : client'[c].pc \notin {"push", "index"}
               PROVE  Has(HomeOf(s), s)'
    BY DEF Home
  <2>1. Has(HomeOf(s), s)
    BY <1>1 DEF StreamInv, Home
  <2>2. HomeOf(s)' = HomeOf(s)
    BY DEF SameEntries
  <2> QED BY <2>1, <2>2 DEF Has, SameMaps
<1>5. Sole(s)'
  <2> SUFFICES ASSUME s \notin doubled', NEW k \in Keys, Has(archive_workers[k], s)'
               PROVE  \/ device_session_index'[s] = k
                      \/ \E c \in Busy("push", s)' : At(c, "index")' /\ client'[c].drive = k
                      \/ \E c \in Busy("delete", s)' : At(c, "call")' /\ client'[c].worker = archive_workers'[k]
    BY DEF Sole
  <2>1. Has(archive_workers[k], s) /\ archive_workers'[k] = archive_workers[k]
    BY DEF SameEntries, SameMaps, Has
  <2>2. \/ device_session_index[s] = k
        \/ \E c \in Busy("push", s) : At(c, "index") /\ client[c].drive = k
        \/ \E c \in Busy("delete", s) : At(c, "call") /\ client[c].worker = archive_workers[k]
    BY <2>1 DEF StreamInv, Sole
  <2> QED BY <1>1, <2>1, <2>2 DEF At
<1> QED BY <1>2, <1>3, <1>4, <1>5 DEF StreamInv

LEMMA HomeThere ==
  ASSUME NEW s \in Streams, StreamInv(s), device_session_index[s] # NoDrive
  PROVE  HomeOf(s) \in Workers
  BY DEF StreamInv, Home, Has, Pushes, PushKnows, Busy

\* The entry that operator[] makes is no stream's.
LEMMA EntryStays ==
  ASSUME RegistryType, ClientsType, NEW s \in Streams, StreamInv(s),
         device_session_index'[s] = device_session_index[s],
         NEW k \in Keys, archive_workers' = [archive_workers EXCEPT ![k] = Entry(k)]
  PROVE  SameEntries(s)
<1>1. \A j \in Keys : archive_workers[j] # None => archive_workers'[j] = archive_workers[j]
  BY DEF RegistryType, Entry
<1>2. \A j \in Keys : archive_workers'[j] \in Workers => archive_workers'[j] = archive_workers[j]
  BY Constants DEF RegistryType, Entry
<1>3. device_session_index[s] # NoDrive => device_session_index[s] \in Keys /\ HomeOf(s) # None
  BY HomeThere, Constants DEF RegistryType
<1>4. \A c \in Clients : At(c, "index") => client[c].drive \in Keys /\ archive_workers[client[c].drive] # None
  BY Constants DEF ClientsType, ClientHolds, At
<1> QED BY <1>1, <1>2, <1>3, <1>4 DEF SameEntries, HomeOf, Has

\* A push that moves its stream is the only call on it.
Alone(c, s) == Busy("push", s) = {c} /\ Busy("delete", s) = {}
LEMMA MovesAlone ==
  ASSUME NEW s \in Streams, StreamInv(s), NEW c \in Clients, c \in Busy("push", s),
         client[c].pc \in {"remove", "push", "index"} \/ client[c].drive # device_session_index[s]
  PROVE  Alone(c, s)
<1>1. \A b \in Busy("push", s) : b = c
  BY DEF StreamInv, Pushes
<1>2. \A b \in Busy("delete", s) : b = c
  BY DEF StreamInv, Deletes
<1> QED BY <1>1, <1>2 DEF Alone, Busy

LEMMA StaysAlone ==
  ASSUME NEW s, NEW c \in Clients, Alone(c, s), Others(c), Same(c)
  PROVE  Alone(c, s)'
  BY DEF Alone, Busy, Others, Same

LEMMA AloneInv ==
  ASSUME NEW s, NEW c \in Clients, Alone(c, s)', PushKnows(c, s)', Home(s)', Sole(s)'
  PROVE  StreamInv(s)'
  BY DEF StreamInv, Pushes, Deletes, Alone

LEMMA ExclusiveStream ==
  ASSUME RegistryType, ClientsType, Apart, Ops, NEW s \in Streams, StreamInv(s), Clean(s)',
         NEW c \in Clients, ExclusiveCall(c), undefined' = "no"
  PROVE  StreamInv(s)'
<1> USE DEF registryVars, pathVars, callbackVars, countVars
<1>1. PICK d \in Drives : AddDevice(c, d) \/ DeleteDevice(c, d) \/ \E t \in Streams : AddSession(c, d, t)
  BY DEF ExclusiveCall
<1>2. d \in Keys
  BY Constants
<1>3. UNCHANGED client /\ \A b \in Clients : client[b].pc \notin {"found", "remove", "push", "index", "visit"}
  BY <1>1 DEF AddDevice, DeleteDevice, AddSession, Exclusive, Holding
<1>4. device_session_index[s] # NoDrive => device_session_index[s] \in Keys /\ HomeOf(s) \in Workers
  BY HomeThere DEF RegistryType
<1>5. Calm(s)
  BY <1>3 DEF Calm
<1>6. CASE AddDevice(c, d)
  <2>1. /\ workers' = workers + 1 /\ archive_workers' = [archive_workers EXCEPT ![d] = workers + 1]
        /\ archive_workers[d] = None /\ UNCHANGED <<io_workers, device_session_index, doubled>>
    BY <1>6 DEF AddDevice, IsNew
  <2>2. workers \in Int /\ \A w \in Workers : w \in Int
    BY ConstantsAssumption DEF RegistryType, Workers
  <2>3. \A k \in Keys : Has(archive_workers[k], s)' => k # d
    BY <1>2, <2>1, <2>2 DEF Apart, Has, RegistryType
  <2>4. SameEntries(s)
    BY <1>2, <1>3, <1>4, <2>1, <2>3, Constants DEF SameEntries, RegistryType, At, HomeOf
  <2> QED BY <1>5, <2>1, <2>4, Untouched DEF SameMaps
<1>7. CASE DeleteDevice(c, d)
  <2>1. /\ archive_workers' = [archive_workers EXCEPT ![d] = None]
        /\ UNCHANGED <<io_workers, device_session_index, doubled>>
        /\ device_session_index[s] # d
    BY <1>7 DEF DeleteDevice, Clean
  <2>2. SameEntries(s)
    BY <1>2, <1>3, <1>4, <2>1, Constants DEF SameEntries, RegistryType, At, HomeOf, Has
  <2> QED BY <1>5, <2>1, <2>2, Untouched DEF SameMaps
<1>8. ASSUME NEW t \in Streams, AddSession(c, d, t)
      PROVE  StreamInv(s)'
  <2> DEFINE v == archive_workers[d]
  <2>1. v \in Workers /\ AddStream(v, t) /\ UNCHANGED archive_workers
    BY <1>8 DEF AddSession, UsesNull
  <2>2. /\ \A w \in Workers, u \in Streams : io_workers[w][u] # None \/ w # v \/ u # t => io_workers'[w][u] = io_workers[w][u]
        /\ Has(v, t)'
    <3>1. CASE UNCHANGED io_workers /\ io_workers[v][t] # None
      BY <2>1, <3>1 DEF Has
    <3>2. CASE objects' = objects + 1 /\ io_workers' = [io_workers EXCEPT ![v][t] = objects'] /\ io_workers[v][t] = None
      <4>1. objects' # None
        BY <3>2, ConstantsAssumption DEF RegistryType, None
      <4> QED BY <2>1, <3>2, <4>1 DEF RegistryType, Has
    <3> QED BY <2>1, <3>1, <3>2 DEF AddStream
  <2>3. /\ \A u \in Streams : u # t \/ device_session_index[u] # NoDrive => device_session_index'[u] = device_session_index[u]
        /\ device_session_index[t] = NoDrive => device_session_index'[t] = d
    BY <1>8 DEF AddSession, Emplaced, RegistryType
  <2>4. SameEntries(s) \/ device_session_index[s] = NoDrive
    BY <1>3, <2>1, <2>3 DEF SameEntries, At, HomeOf
  <2>5. CASE t # s
    <3>1. device_session_index'[s] = device_session_index[s] /\ SameMaps(s) /\ doubled \subseteq doubled'
      BY <1>8, <2>2, <2>3, <2>5 DEF SameMaps, AddSession
    <3>2. SameEntries(s)
      BY <1>3, <2>1, <3>1 DEF SameEntries, At, HomeOf
    <3> QED BY <1>5, <3>1, <3>2, Untouched
  <2>6. CASE t = s
    <3>1. Busy("delete", s) = {} /\ Busy("delete", s)' = {} /\ Busy("push", s)' = Busy("push", s)
      BY <1>3, <1>8, <2>6 DEF AddSession, Clean, Busy
    <3>2. /\ Has(HomeOf(s), s)' /\ device_session_index'[s] \in Keys
          /\ device_session_index[s] # NoDrive => HomeOf(s)' = HomeOf(s) /\ device_session_index'[s] = device_session_index[s]
      <4>1. CASE device_session_index[s] = NoDrive
        BY <1>2, <2>1, <2>2, <2>3, <2>6, <4>1 DEF HomeOf
      <4>2. CASE device_session_index[s] # NoDrive
        <5>1. Has(HomeOf(s), s)
          BY <1>3, <4>2 DEF StreamInv, Home, Busy
        <5> QED BY <1>4, <2>1, <2>2, <2>3, <4>2, <5>1 DEF HomeOf, Has
      <4> QED BY <4>1, <4>2
    <3>3. Pushes(s)'
      <4>1. ASSUME NEW b \in Clients, b \in Busy("push", s)
            PROVE  PushKnows(b, s)'
        <5>1. PushKnows(b, s)
          BY <4>1 DEF StreamInv, Pushes
        <5> QED BY <1>3, <3>2, <5>1 DEF PushKnows, At, Has
      <4>2. ASSUME NEW b \in Clients, NEW e \in Clients, b \in Busy("push", s), e \in Busy("push", s), b # e
            PROVE  client'[e].drive = device_session_index'[s] /\ client'[e].pc \in {"found", "call"}
        <5>1. PushKnows(e, s) /\ client[e].drive = device_session_index[s] /\ client[e].pc \in {"found", "call"}
          BY <4>2 DEF StreamInv, Pushes
        <5> QED BY <1>3, <3>2, <5>1 DEF PushKnows
      <4> QED BY <3>1, <4>1, <4>2 DEF Pushes, Busy
    <3>4. Deletes(s)'
      BY <3>1 DEF Deletes
    <3>5. Sole(s)'
      <4> SUFFICES ASSUME s \notin doubled', NEW k \in Keys, Has(archive_workers[k], s)'
                   PROVE  device_session_index'[s] = k
        BY DEF Sole
      <4>1. \A w \in Registered \ {v} : io_workers[w][s] = None
        BY <1>8, <2>6 DEF AddSession
      <4>2. \A j \in Keys : Has(archive_workers[j], s)' => j = d
        <5> SUFFICES ASSUME NEW j \in Keys, Has(archive_workers[j], s)', archive_workers[j] # v PROVE FALSE
          BY <1>2, <2>1 DEF Apart
        <5>1. archive_workers[j] \in Registered /\ io_workers[archive_workers[j]][s] # None
          BY <2>1, <2>2 DEF Has, Registered
        <5> QED BY <4>1, <5>1
      <4> QED BY <3>2, <4>2 DEF HomeOf
    <3> QED BY <3>2, <3>3, <3>4, <3>5 DEF StreamInv, Home
  <2> QED BY <2>5, <2>6
<1> QED BY <1>1, <1>6, <1>7, <1>8

\* A look-up that leaves the stream clean overlaps no deletion of it, and no move.
LEMMA LookupStream ==
  ASSUME RegistryType, ClientsType, Ops, NEW s \in Streams, StreamInv(s), Clean(s)',
         NEW c \in Clients, LookupCall(c)
  PROVE  StreamInv(s)'
<1> USE DEF registryVars, pathVars, callbackVars, countVars
<1>1. PICK t \in Streams, op \in {"use", "delete", "push"}, d \in Drives \cup {NoDrive} : Lookup(c, op, t, d)
  BY DEF LookupCall
<1>2. /\ At(c, "idle") /\ client[c].op = "none" /\ Others(c) /\ client'[c].pc = "found" /\ client'[c].op = op
      /\ client'[c].stream = t /\ client'[c].drive = d
      /\ client'[c].worker = Entry(device_session_index[t])
  BY <1>1, LooksUp DEF Ops, OpOf, ClientsType
<1>3. /\ device_session_index[t] \in Keys /\ device_session_index[t] # NoDrive
      /\ archive_workers' = [archive_workers EXCEPT ![device_session_index[t]] = Entry(device_session_index[t])]
      /\ UNCHANGED <<device_session_index, io_workers, doubled>>
  BY <1>1 DEF Lookup, RegistryType
<1>4. SameEntries(s) /\ SameMaps(s)
  BY <1>3, EntryStays DEF SameMaps
<1>5. CASE t # s \/ op = "use"
  <2>1. Calm(s)
    BY <1>2, <1>5 DEF Calm, BusyOn, Others
  <2> QED BY <1>3, <1>4, <2>1, Untouched
<1>6. CASE t = s /\ op \in {"delete", "push"}
  <2>1. HomeOf(s) \in Workers /\ HomeOf(s)' = HomeOf(s) /\ client'[c].worker = HomeOf(s)'
    BY <1>2, <1>3, <1>4, <1>6, HomeThere, Constants DEF SameEntries, Entry, HomeOf
  <2>2. Busy("delete", s) = {}
    BY <1>1, <1>6 DEF Lookup, Clean
  <2>3. \A k \in Keys : Has(archive_workers[k], s)' => Has(archive_workers[k], s)
    BY <1>3, <1>4 DEF SameEntries, Has
  <2>4. Sole(s)'
    <3> SUFFICES ASSUME s \notin doubled, NEW k \in Keys, Has(archive_workers[k], s)',
                        device_session_index[s] # k
                 PROVE  \E b \in Busy("push", s)' : At(b, "index")' /\ client'[b].drive = k
      BY <1>3 DEF Sole
    <3>1. PICK b \in Busy("push", s) : At(b, "index") /\ client[b].drive = k
      BY <2>2, <2>3 DEF StreamInv, Sole
    <3>2. client'[b] = client[b] /\ b \in Clients
      BY <1>2, <3>1 DEF Others, Busy, At
    <3> QED BY <3>1, <3>2 DEF Busy, At
  <2>5. CASE op = "delete"
    <3>1. Busy("push", s) = {}
      BY <1>1, <1>6, <2>5 DEF Lookup, Clean
    <3>2. Busy("push", s)' = {} /\ Busy("delete", s)' = {c}
      BY <1>2, <1>6, <2>2, <2>5, <3>1 DEF Busy, Others
    <3>3. DeleteKnows(c, s)'
      BY <1>2, <1>3, <1>6, <2>1 DEF DeleteKnows, At
    <3>4. Home(s)'
      <4>1. device_session_index[s] # NoDrive => Has(HomeOf(s), s)
        BY <3>1 DEF StreamInv, Home
      <4> QED BY <1>3, <2>1, <4>1 DEF Home, Has
    <3> QED BY <2>4, <3>2, <3>3, <3>4 DEF StreamInv, Pushes, Deletes
  <2>6. CASE op = "push"
    <3>1. \A b \in Busy("push", s) : d = device_session_index[s] /\ client[b].drive = device_session_index[s]
      BY <1>1, <1>6, <2>6 DEF Lookup, Clean
    <3>2. Busy("push", s)' = Busy("push", s) \cup {c} /\ Busy("delete", s)' = {} /\ c \notin Busy("push", s)
      BY <1>2, <1>6, <2>2, <2>6 DEF Busy, Others
    <3>3. \A b \in Busy("push", s) : client'[b] = client[b] /\ b \in Clients /\ client[b].pc \in {"found", "call"}
      <4>1. ASSUME NEW b \in Busy("push", s) PROVE client[b].pc \in {"found", "call"}
        <5>1. client[b].pc \in {"found", "call", "remove", "push", "index"}
          BY <4>1 DEF Busy, Ops, OpOf, ClientsType, ClientType, At
        <5>2. PushKnows(b, s) /\ client[b].drive = device_session_index[s]
          BY <3>1 DEF StreamInv, Pushes
        <5> QED BY <5>1, <5>2 DEF PushKnows
      <4> QED BY <1>2, <3>2, <4>1 DEF Busy, Others
    <3>4. PushKnows(c, s)'
      BY <1>2, <1>3, <1>6, <2>1 DEF PushKnows, At
    <3>5. \A b \in Busy("push", s) : PushKnows(b, s)'
      <4>1. \A b \in Busy("push", s) : PushKnows(b, s)
        BY DEF StreamInv, Pushes
      <4> QED BY <1>3, <2>1, <3>3, <4>1 DEF PushKnows, At
    <3>6. Pushes(s)'
      BY <1>2, <1>3, <1>6, <3>1, <3>2, <3>3, <3>4, <3>5 DEF Pushes
    <3>7. Home(s)'
      <4>1. Has(HomeOf(s), s)
        BY <1>3, <1>6, <3>3 DEF StreamInv, Home
      <4> QED BY <1>3, <2>1, <4>1 DEF Home, Has
    <3> QED BY <2>4, <3>2, <3>6, <3>7 DEF StreamInv, Deletes
  <2> QED BY <1>6, <2>5, <2>6
<1> QED BY <1>5, <1>6

\* A step of a call on another stream.
LEMMA OtherStream ==
  ASSUME RegistryType, ClientsType, Ops, NEW s \in Streams, StreamInv(s),
         NEW c \in Clients, InLookup(c), client[c].stream # s \/ client[c].op = "use", undefined' = "no"
  PROVE  StreamInv(s)'
<1> USE DEF registryVars, pathVars, callbackVars, countVars
<1> DEFINE t == client[c].stream
<1>1. OpOf(c) /\ ClientHolds(c) /\ client[c] \in ClientType /\ client \in [Clients -> ClientType]
  BY DEF Ops, ClientsType
<1>2. doubled' = doubled
  BY DEF InLookup, UseFound, DeleteFound, PushFound, CheckWorkerDrive, RemoveIOWorker, PushStream,
         SetIndex, CallWorker, LookupUnchanged
<1>3. ASSUME UNCHANGED archive_workers, device_session_index'[s] = device_session_index[s]
      PROVE  SameEntries(s)
  BY <1>3 DEF SameEntries, HomeOf, Has
<1>5. CASE UseFound(c) \/ PushFound(c)
  <2>1. Calm(s)
    BY <1>1, <1>5, UnlocksTo DEF UseFound, PushFound, Calm, BusyOn, Same, Others
  <2> QED BY <1>2, <1>3, <1>5, <2>1, Untouched DEF UseFound, PushFound, LookupUnchanged, SameMaps
<1>6. CASE DeleteFound(c)
  <2>1. Calm(s)
    BY <1>1, <1>6, UnlocksTo DEF DeleteFound, Calm, BusyOn, Same, Others
  <2>2. device_session_index'[s] = device_session_index[s]
    BY <1>6 DEF DeleteFound, RegistryType
  <2> QED BY <1>2, <1>3, <1>6, <2>1, <2>2, Untouched DEF DeleteFound, LookupUnchanged, SameMaps
<1>7. CASE CheckWorkerDrive(c)
  <2>1. client[c].worker # Null
    BY <1>7 DEF CheckWorkerDrive, UsesNull
  <2>2. Calm(s)
    BY <1>7, <2>1, Checks DEF Calm, BusyOn, Same, Others, CheckWorkerDrive
  <2>3. device_session_index'[s] = device_session_index[s]
    BY <1>7 DEF CheckWorkerDrive, RegistryType
  <2> QED BY <1>2, <1>3, <1>7, <2>2, <2>3, Untouched DEF CheckWorkerDrive, LookupUnchanged, SameMaps
<1>8. CASE RemoveIOWorker(c)
  <2>1. Goto(c, "push") /\ UNCHANGED registryVars /\ t # s
        /\ io_workers' = [io_workers EXCEPT ![client[c].worker][t] = None]
    BY <1>1, <1>8 DEF RemoveIOWorker, RemovedFrom, OpOf, At
  <2>2. Calm(s) /\ SameMaps(s)
    BY <1>1, <2>1, GoesTo DEF Calm, BusyOn, Same, Others, SameMaps, RegistryType
  <2> QED BY <1>2, <1>3, <2>1, <2>2, Untouched
<1>9. CASE PushStream(c)
  <2> DEFINE d == client[c].drive
  <2>1. /\ Goto(c, "index") /\ UNCHANGED device_session_index /\ t # s /\ d \in Keys /\ t \in Streams
        /\ io_workers' = [io_workers EXCEPT ![archive_workers[d]][t] = client[c].object]
        /\ archive_workers' = [archive_workers EXCEPT ![d] = Entry(d)]
    BY <1>1, <1>9, Constants DEF PushStream, OpOf, At, UsesNull, ClientHolds
  <2>2. Calm(s) /\ SameMaps(s)
    BY <1>1, <2>1, GoesTo DEF Calm, BusyOn, Same, Others, SameMaps, RegistryType
  <2>3. SameEntries(s)
    BY <2>1, EntryStays
  <2> QED BY <1>2, <2>1, <2>2, <2>3, Untouched
<1>10. CASE SetIndex(c)
  <2>1. Calm(s)
    BY <1>1, <1>10, Indexes DEF Calm, BusyOn, Same, Others, SetIndex, OpOf, At
  <2>2. device_session_index'[s] = device_session_index[s]
    BY <1>1, <1>10 DEF SetIndex, Indexed, RegistryType, OpOf, At
  <2> QED BY <1>2, <1>3, <1>10, <2>1, <2>2, Untouched DEF SetIndex, LookupUnchanged, SameMaps
<1>11. CASE CallWorker(c)
  <2>1. Calm(s)
    BY <1>1, <1>11, ReturnsIdle DEF Calm, BusyOn, Others, CallWorker
  <2>2. SameMaps(s)
    BY <1>1, <1>11 DEF CallWorker, SameMaps, RegistryType
  <2> QED BY <1>2, <1>3, <1>11, <2>1, <2>2, Untouched DEF CallWorker
<1> QED BY <1>5, <1>6, <1>7, <1>8, <1>9, <1>10, <1>11 DEF InLookup

\* A step of the deletion of the stream.
LEMMA DeleteStream ==
  ASSUME RegistryType, ClientsType, Ops, Apart, NEW s \in Streams, StreamInv(s),
         NEW c \in Clients, c \in Busy("delete", s), InLookup(c)
  PROVE  StreamInv(s)'
<1> USE DEF registryVars, pathVars, callbackVars, countVars
<1>1. /\ OpOf(c) /\ ClientHolds(c) /\ client \in [Clients -> ClientType]
      /\ client[c].op = "delete" /\ client[c].stream = s /\ DeleteKnows(c, s)
  BY DEF Ops, ClientsType, Busy, StreamInv, Deletes
<1>2. Busy("delete", s) = {c} /\ Busy("push", s) = {}
  BY DEF StreamInv, Deletes, Busy
<1>3. device_session_index[s] # NoDrive => Has(HomeOf(s), s)
  BY <1>2 DEF StreamInv, Home
<1>4. CASE DeleteFound(c)
  <2>1. /\ device_session_index' = [device_session_index EXCEPT ![s] = NoDrive] /\ Unlock(c) /\ At(c, "found")
        /\ UNCHANGED <<archive_workers, io_workers, doubled>>
    BY <1>1, <1>4 DEF DeleteFound, LookupUnchanged
  <2>2. client[c].worker = HomeOf(s) /\ client[c].worker # Null /\ device_session_index[s] # NoDrive
    BY <1>1, <1>3, <2>1, Constants DEF DeleteKnows, Has
  <2>3. client'[c].pc = "call" /\ client'[c].worker = HomeOf(s) /\ Same(c) /\ Others(c)
    BY <1>1, <2>1, <2>2, UnlocksTo
  <2>4. Busy("delete", s)' = {c} /\ Busy("push", s)' = {}
    BY <1>1, <1>2, <2>3 DEF Busy, Others, Same
  <2>5. Sole(s)'
    <3> SUFFICES ASSUME s \notin doubled, NEW k \in Keys, Has(archive_workers[k], s)
                 PROVE  client'[c].worker = archive_workers[k]
      BY <2>1, <2>3, <2>4 DEF Sole, Has, At
    <3>1. device_session_index[s] = k
      BY <1>2, <2>1 DEF StreamInv, Sole, At
    <3> QED BY <2>3, <3>1 DEF HomeOf
  <2>6. device_session_index'[s] = NoDrive
    BY <2>1 DEF RegistryType
  <2> QED BY <2>3, <2>4, <2>5, <2>6 DEF StreamInv, Pushes, Deletes, DeleteKnows, Home, At
<1>5. CASE CallWorker(c)
  <2> DEFINE w == client[c].worker
  <2>1. /\ At(c, "call") /\ w \in Workers /\ Return(c) /\ io_workers' = [io_workers EXCEPT ![w][s] = None]
        /\ UNCHANGED <<archive_workers, device_session_index, doubled>>
    BY <1>1, <1>5 DEF CallWorker, ClientHolds, At
  <2>2. Busy("delete", s)' = {} /\ Busy("push", s)' = {}
    BY <1>1, <1>2, <2>1, ReturnsIdle DEF Busy, Others
  <2>3. device_session_index[s] = NoDrive /\ NoDrive \notin Keys
    BY <1>1, <2>1, Constants DEF DeleteKnows, Keys, NoDrive, EmptyDrive
  <2>4. ~(\E k \in Keys : s \notin doubled /\ Has(archive_workers[k], s)')
    <3> SUFFICES ASSUME s \notin doubled, NEW k \in Keys, Has(archive_workers[k], s)' PROVE FALSE
      OBVIOUS
    <3>1. Has(archive_workers[k], s) /\ archive_workers[k] # w
      BY <2>1 DEF Has, RegistryType
    <3> QED BY <1>2, <2>3, <3>1 DEF StreamInv, Sole
  <2> QED BY <2>1, <2>2, <2>3, <2>4 DEF StreamInv, Pushes, Deletes, Home, Sole
<1> QED BY <1>1, <1>4, <1>5
        DEF InLookup, UseFound, PushFound, CheckWorkerDrive, RemoveIOWorker, PushStream, SetIndex, OpOf, At

\* A step of a chunk of the stream.
LEMMA PushOfStream ==
  ASSUME RegistryType, ClientsType, Ops, Apart, NEW s \in Streams, StreamInv(s),
         NEW c \in Clients, c \in Busy("push", s), InLookup(c), undefined' = "no"
  PROVE  StreamInv(s)'
<1> USE DEF registryVars, pathVars, callbackVars, countVars
<1> DEFINE k == device_session_index[s]
           d == client[c].drive
           w == client[c].worker
<1>1. /\ OpOf(c) /\ ClientHolds(c) /\ client \in [Clients -> ClientType]
      /\ client[c].op = "push" /\ client[c].stream = s /\ PushKnows(c, s)
  BY DEF Ops, ClientsType, Busy, StreamInv, Pushes
<1>2. k \in Keys /\ HomeOf(s) \in Workers
  BY <1>1 DEF PushKnows, RegistryType
<1>3. doubled' = doubled
  BY DEF InLookup, UseFound, DeleteFound, PushFound, CheckWorkerDrive, RemoveIOWorker, PushStream,
         SetIndex, CallWorker, LookupUnchanged
\* Where nothing moves: the other calls stay as they are.
<1>4. ASSUME UNCHANGED <<archive_workers, device_session_index, io_workers>>, Others(c),
             \/ client'[c].op = "none"
             \/ Same(c) /\ client'[c].pc = "call" /\ client'[c].worker = w,
             client[c].pc \in {"found", "call"}
      PROVE  StreamInv(s)'
  <2>1. Busy("delete", s)' = {}
    <3>1. Busy("delete", s) = {}
      BY <1>1 DEF StreamInv, Deletes, Busy
    <3> QED BY <1>1, <1>4, <3>1 DEF Busy, Others, Same
  <2>2. Busy("push", s)' \subseteq Busy("push", s) /\ Busy("push", s) \subseteq Busy("push", s)' \cup {c}
    BY <1>1, <1>4 DEF Busy, Others, Same
  <2>3. \A b \in Busy("push", s) \ {c} : client'[b] = client[b]
    BY <1>4 DEF Others, Busy
  <2>4. client[c].worker = HomeOf(s)
    BY <1>1, <1>4 DEF PushKnows
  <2>5. \A b \in Busy("push", s)' : PushKnows(b, s)'
    <3>1. ASSUME NEW b \in Busy("push", s), b # c PROVE PushKnows(b, s)'
      BY <1>4, <2>3, <3>1 DEF StreamInv, Pushes, PushKnows, At, HomeOf, Has
    <3>2. c \in Busy("push", s)' => PushKnows(c, s)'
      BY <1>1, <1>2, <1>4, <2>4 DEF Busy, PushKnows, At, HomeOf
    <3> QED BY <2>2, <3>1, <3>2
  <2>6. Pushes(s)'
    <3>1. ASSUME NEW b \in Busy("push", s)', NEW e \in Busy("push", s)', b # e
          PROVE  client'[e].drive = k /\ client'[e].pc \in {"found", "call"}
      <4>1. client[e].drive = k /\ client[e].pc \in {"found", "call"}
        BY <2>2, <3>1 DEF StreamInv, Pushes
      <4>2. client'[e] = client[e] \/ (e = c /\ client'[c].op # "none")
        BY <2>2, <2>3, <3>1 DEF Busy
      <4> QED BY <1>4, <4>1, <4>2 DEF Same
    <3> QED BY <1>4, <2>5, <3>1 DEF Pushes
  <2>7. Home(s)'
    <3> SUFFICES ASSUME \A b \in Busy("push", s)' : client'[b].pc \notin {"push", "index"}
                 PROVE  Has(HomeOf(s), s)
      BY <1>4 DEF Home, Has, HomeOf
    <3>1. \A b \in Busy("push", s) : client[b].pc \notin {"push", "index"}
      BY <1>4, <2>2, <2>3
    <3> QED BY <1>1, <3>1 DEF StreamInv, Home, PushKnows
  <2>8. Sole(s)'
    <3> SUFFICES ASSUME s \notin doubled, NEW j \in Keys, Has(archive_workers[j], s), k # j
                 PROVE  \E b \in Busy("push", s)' : At(b, "index")' /\ client'[b].drive = j
      BY <1>3, <1>4 DEF Sole, Has
    <3>1. PICK b \in Busy("push", s) : At(b, "index") /\ client[b].drive = j
      BY <1>1 DEF StreamInv, Sole, Deletes, Busy
    <3> QED BY <1>4, <2>2, <2>3, <3>1 DEF At
  <2> QED BY <2>1, <2>6, <2>7, <2>8 DEF StreamInv, Deletes
<1>5. CASE PushFound(c)
  <2>1. At(c, "found") /\ Unlock(c) /\ w \in Workers
    BY <1>1, <1>2, <1>5 DEF PushFound, PushKnows, At
  <2> QED BY <1>1, <1>4, <1>5, <2>1, UnlocksTo, Constants DEF PushFound, LookupUnchanged, At
<1>6. CASE CallWorker(c)
  <2>1. At(c, "call") /\ io_workers' = io_workers /\ Return(c)
    BY <1>1, <1>6 DEF CallWorker
  <2> QED BY <1>1, <1>4, <1>6, <2>1, ReturnsIdle DEF CallWorker, At
<1>7. CASE CheckWorkerDrive(c)
  <2>1. At(c, "found") /\ d # k /\ w = HomeOf(s)
    BY <1>1, <1>7 DEF CheckWorkerDrive, SameDrive, PushKnows, At
  <2>2. Alone(c, s)
    BY <2>1, MovesAlone
  <2>3. Has(HomeOf(s), s)
    BY <1>1, <2>1, <2>2 DEF StreamInv, Home, PushKnows, Alone, At
  <2>4. /\ Others(c) /\ Same(c) /\ client'[c].worker = w /\ client'[c].pc = "remove"
        /\ client'[c].object # None
    BY <1>1, <1>2, <1>7, <2>1, <2>3, Checks, Constants DEF Has
  <2>5. UNCHANGED <<archive_workers, io_workers>> /\ device_session_index'[s] = k
    BY <1>1, <1>7 DEF CheckWorkerDrive, LookupUnchanged, RegistryType, PushKnows
  <2>6. Alone(c, s)'
    BY <2>2, <2>4, StaysAlone
  <2>7. PushKnows(c, s)'
    BY <1>1, <2>1, <2>4, <2>5 DEF PushKnows, At, HomeOf, Same
  <2>8. Home(s)'
    BY <2>3, <2>5 DEF Home, HomeOf, Has
  <2>9. Sole(s)'
    <3>1. Sole(s) /\ \A b \in Busy("push", s) : ~At(b, "index")
      BY <2>1, <2>2 DEF StreamInv, Alone, At
    <3> QED BY <1>3, <2>2, <2>5, <3>1 DEF Sole, Has, Alone
  <2> QED BY <2>6, <2>7, <2>8, <2>9, AloneInv
<1>8. CASE RemoveIOWorker(c)
  <2>1. /\ At(c, "remove") /\ Goto(c, "push") /\ w = HomeOf(s) /\ d # k /\ client[c].object # None
        /\ io_workers' = [io_workers EXCEPT ![w][s] = None] /\ UNCHANGED registryVars
    BY <1>1, <1>8 DEF RemoveIOWorker, RemovedFrom, PushKnows, At
  <2>2. Alone(c, s)
    BY <2>1, MovesAlone DEF At
  <2>3. /\ Others(c) /\ Same(c) /\ client'[c].pc = "push" /\ client'[c].object = client[c].object
    BY <1>1, <2>1, GoesTo
  <2>4. Alone(c, s)'
    BY <2>2, <2>3, StaysAlone
  <2>5. io_workers'[HomeOf(s)][s] = None /\ \A v \in Workers \ {w} : io_workers'[v][s] = io_workers[v][s]
    BY <1>2, <2>1 DEF RegistryType
  <2>6. PushKnows(c, s)'
    BY <1>1, <2>1, <2>3, <2>5 DEF PushKnows, At, HomeOf, Same
  <2>7. Home(s)'
    BY <2>3, <2>4 DEF Home, Alone
  <2>8. Sole(s)'
    <3> SUFFICES ASSUME s \notin doubled, NEW j \in Keys, Has(archive_workers[j], s)' PROVE FALSE
      BY <1>3 DEF Sole
    <3>1. Has(archive_workers[j], s) /\ archive_workers[j] # w
      BY <2>1, <2>5 DEF Has
    <3>2. k # j
      BY <2>1, <3>1 DEF HomeOf
    <3> QED BY <2>1, <2>2, <3>1, <3>2 DEF StreamInv, Sole, Alone, At
  <2> QED BY <2>4, <2>6, <2>7, <2>8, AloneInv
<1>9. CASE PushStream(c)
  <2> DEFINE v == archive_workers[d]
  <2>1. /\ At(c, "push") /\ d # k /\ client[c].object # None /\ io_workers[HomeOf(s)][s] = None
        /\ d \in Keys /\ v \in Workers
    BY <1>1, <1>9, Constants DEF PushStream, PushKnows, ClientHolds, At, UsesNull
  <2>2. /\ Goto(c, "index") /\ io_workers' = [io_workers EXCEPT ![v][s] = client[c].object]
        /\ device_session_index' = device_session_index
        /\ archive_workers' = [archive_workers EXCEPT ![d] = Entry(d)]
    BY <1>1, <1>9, <2>1 DEF PushStream
  <2>3. archive_workers' = archive_workers
    BY <2>1, <2>2, Constants DEF Entry, RegistryType
  <2>4. Alone(c, s)
    BY <2>1, MovesAlone DEF At
  <2>5. Others(c) /\ Same(c) /\ client'[c].pc = "index"
    BY <1>1, <2>2, GoesTo
  <2>6. Alone(c, s)'
    BY <2>4, <2>5, StaysAlone
  <2>7. v # HomeOf(s)
    BY <1>2, <2>1 DEF Apart, HomeOf
  <2>8. Has(v, s)' /\ \A u \in Workers \ {v} : io_workers'[u][s] = io_workers[u][s]
    BY <2>1, <2>2, <2>3, <2>5 DEF RegistryType, Has, Same
  <2>9. PushKnows(c, s)'
    BY <1>1, <1>2, <2>1, <2>2, <2>3, <2>5, <2>7, <2>8 DEF PushKnows, At, HomeOf, Same, Has
  <2>10. Home(s)'
    BY <2>5, <2>6 DEF Home, Alone
  <2>11. Sole(s)'
    <3> SUFFICES ASSUME s \notin doubled, NEW j \in Keys, Has(archive_workers[j], s)', d # j PROVE FALSE
      BY <1>3, <2>5, <2>6 DEF Sole, Alone, At, Same
    <3>1. archive_workers[j] # v
      BY <2>1, <2>3 DEF Apart, Has
    <3>2. Has(archive_workers[j], s)
      BY <2>3, <2>8, <3>1 DEF Has
    <3>3. k # j
      BY <2>1, <3>2 DEF HomeOf, Has
    <3> QED BY <2>1, <2>4, <3>2, <3>3 DEF StreamInv, Sole, Alone, At
  <2> QED BY <2>6, <2>9, <2>10, <2>11, AloneInv
<1>10. CASE SetIndex(c)
  <2> DEFINE v == archive_workers[d]
  <2>1. /\ At(c, "index") /\ io_workers[HomeOf(s)][s] = None /\ Has(v, s) /\ d \in Keys
    BY <1>1, <1>10, Constants DEF SetIndex, PushKnows, ClientHolds, At
  <2>2. device_session_index'[s] = d /\ UNCHANGED <<archive_workers, io_workers>>
    BY <1>1, <1>10 DEF SetIndex, Indexed, LookupUnchanged, RegistryType
  <2>3. Alone(c, s)
    BY <2>1, MovesAlone DEF At
  <2>4. Others(c) /\ Same(c) /\ client'[c].pc = "call" /\ client'[c].worker = v
    BY <1>1, <1>10, <2>1, Indexes, Constants DEF Entry, Has
  <2>5. Alone(c, s)'
    BY <2>3, <2>4, StaysAlone
  <2>6. PushKnows(c, s)'
    BY <2>1, <2>2, <2>4, Constants DEF PushKnows, At, HomeOf, Has, Keys, NoDrive, EmptyDrive
  <2>7. Home(s)'
    BY <2>1, <2>2 DEF Home, HomeOf, Has
  <2>8. Sole(s)'
    <3> SUFFICES ASSUME s \notin doubled, NEW j \in Keys, Has(archive_workers[j], s) PROVE d = j
      BY <1>3, <2>2 DEF Sole, Has
    <3>1. k # j
      BY <2>1 DEF HomeOf, Has
    <3> QED BY <2>3, <3>1 DEF StreamInv, Sole, Alone
  <2> QED BY <2>5, <2>6, <2>7, <2>8, AloneInv
<1> QED BY <1>1, <1>5, <1>6, <1>7, <1>8, <1>9, <1>10 DEF InLookup, UseFound, DeleteFound

LEMMA StepCalls == TypeOK /\ Ops /\ Apart /\ CallsInv /\ [Next]_vars => CallsInv'
<1> SUFFICES ASSUME RegistryType, ClientsType, Ops, Apart, CallsInv, [Next]_vars, undefined' = "no",
                    NEW s \in Streams, Clean(s)'
             PROVE  StreamInv(s)'
  BY DEF TypeOK, RegistryType, ClientsType, CallsInv
<1> USE DEF registryVars, pathVars, callbackVars, countVars
<1>1. ASSUME left \subseteq left', crossed \subseteq crossed', overtaken \subseteq overtaken', undefined = "no"
      PROVE  StreamInv(s)
  BY <1>1 DEF CallsInv, Clean
<1>2. ASSUME StreamInv(s),
             UNCHANGED <<archive_workers, device_session_index, io_workers, doubled>>, Calm(s)
      PROVE  StreamInv(s)'
  BY <1>2, Untouched DEF SameMaps, SameEntries, HomeOf, Has
<1>3. CASE UNCHANGED vars
  BY <1>1, <1>2, <1>3 DEF vars, Calm
<1>4. CASE CallbackUnchanged /\ Next
  BY <1>1, <1>2, <1>4, Steps DEF CallbackUnchanged, Calm
<1>5. ASSUME NEW c \in Clients, ExclusiveCall(c), undefined = "no"
      PROVE  StreamInv(s)'
  <2>1. StreamInv(s)
    BY <1>1, <1>5 DEF ExclusiveCall, AddDevice, DeleteDevice, AddSession
  <2> QED BY <1>5, <2>1, ExclusiveStream
<1>6. ASSUME NEW c \in Clients, LookupCall(c), undefined = "no"
      PROVE  StreamInv(s)'
  <2>1. StreamInv(s)
    BY <1>1, <1>6 DEF LookupCall, Lookup
  <2> QED BY <1>6, <2>1, LookupStream
<1>7. ASSUME NEW c \in Clients, InLookup(c), undefined = "no"
      PROVE  StreamInv(s)'
  <2>1. StreamInv(s)
    BY <1>1, <1>7 DEF InLookup, UseFound, DeleteFound, PushFound, CheckWorkerDrive, RemoveIOWorker,
                      PushStream, SetIndex, CallWorker, LookupUnchanged
  <2>2. client[c].op \in {"use", "delete", "push"}
    BY <1>7 DEF Ops, OpOf, At, InLookup, UseFound, DeleteFound, PushFound, CheckWorkerDrive,
                RemoveIOWorker, PushStream, SetIndex, CallWorker
  <2> QED BY <1>7, <2>1, <2>2, OtherStream, DeleteStream, PushOfStream DEF Busy
<1>8. ASSUME NEW c \in Clients, SetSavePath(c) \/ PathStep(c) \/ GetSaveStatus(c), undefined = "no"
      PROVE  StreamInv(s)'
  <2>1. /\ UNCHANGED <<archive_workers, device_session_index, io_workers, doubled, left, crossed, overtaken>>
    BY <1>8 DEF SetSavePath, PathStep, LockPath, VisitWorker, PathSet, GetSaveStatus, LookupUnchanged
  <2>2. Calm(s)
    <3>1. CASE GetSaveStatus(c)
      BY <3>1 DEF GetSaveStatus, Calm
    <3>2. CASE SetSavePath(c) \/ PathStep(c)
      BY <3>2, VisitsPaths DEF Calm, BusyOn, Others, Ops, OpOf, At, ClientsType
    <3> QED BY <1>8, <3>1, <3>2
  <2> QED BY <1>1, <1>2, <1>8, <2>1, <2>2
<1> QED BY <1>3, <1>4, <1>5, <1>6, <1>7, <1>8, Steps

\* A chunk that finds its stream's IOWorker gone.
LEMMA StepRefused ==
  TypeOK /\ Ops /\ CallsInv /\ RefusedOnlyIfOvertaken /\ [Next]_vars => RefusedOnlyIfOvertaken'
<1> SUFFICES ASSUME RegistryType, ClientsType, Ops, CallsInv, RefusedOnlyIfOvertaken, [Next]_vars
             PROVE  RefusedOnlyIfOvertaken'
  BY DEF TypeOK, RegistryType, ClientsType
<1> USE DEF registryVars, pathVars, callbackVars, countVars, RefusedOnlyIfOvertaken
<1>1. ASSUME refused' = refused, left \subseteq left', crossed \subseteq crossed', overtaken \subseteq overtaken'
      PROVE  RefusedOnlyIfOvertaken'
  BY <1>1
<1>2. CASE UNCHANGED vars
  BY <1>2 DEF vars
<1>3. CASE CallbackUnchanged
  BY <1>3 DEF CallbackUnchanged
<1>4. ASSUME NEW c \in Clients,
             ExclusiveCall(c) \/ LookupCall(c) \/ SetSavePath(c) \/ PathStep(c) \/ GetSaveStatus(c)
      PROVE  RefusedOnlyIfOvertaken'
  BY <1>1, <1>4 DEF ExclusiveCall, AddDevice, DeleteDevice, AddSession, LookupCall, Lookup, SetSavePath,
                    PathStep, LockPath, VisitWorker, PathSet, GetSaveStatus, LookupUnchanged
<1>5. ASSUME NEW c \in Clients, InLookup(c), undefined = "no"
      PROVE  RefusedOnlyIfOvertaken'
  <2>1. CASE ~CallWorker(c)
    BY <1>1, <1>5, <2>1 DEF InLookup, UseFound, DeleteFound, PushFound, CheckWorkerDrive, RemoveIOWorker,
                       PushStream, SetIndex, LookupUnchanged
  <2>2. CASE CallWorker(c)
    <3> DEFINE s == client[c].stream
    <3>1. /\ At(c, "call") /\ s \in Streams /\ client[c].worker \in Workers
          /\ UNCHANGED <<left, crossed, overtaken>>
      BY <2>2 DEF CallWorker, ClientsType, ClientHolds, At
    <3>2. CASE refused' = refused
      BY <1>1, <3>1, <3>2
    <3>3. CASE client[c].op = "push" /\ io_workers[client[c].worker][s] = None /\ refused' = refused \cup {s}
      <4>1. SUFFICES ASSUME Clean(s) PROVE FALSE
        BY <3>1, <3>3 DEF Clean
      <4>2. StreamInv(s) /\ c \in Busy("push", s)
        BY <1>5, <3>1, <3>3, <4>1 DEF CallsInv, Busy
      <4>3. PushKnows(c, s)
        BY <4>2 DEF StreamInv, Pushes
      <4>4. \A b \in Busy("push", s) : b # c => client[b].pc \in {"found", "call"}
        BY <4>2 DEF StreamInv, Pushes
      <4>5. Has(HomeOf(s), s)
        BY <3>1, <4>2, <4>3, <4>4 DEF StreamInv, Home, PushKnows, At
      <4> QED BY <3>1, <3>3, <4>3, <4>5 DEF PushKnows, Has, At
    <3> QED BY <2>2, <3>2, <3>3 DEF CallWorker
  <2> QED BY <2>1, <2>2
<1> QED BY <1>2, <1>3, <1>4, <1>5, Steps

LEMMA StepListed == TypeOK /\ Listed /\ [Next]_vars => Listed'
<1> SUFFICES ASSUME RegistryType, PathType, ClientsType, Listed, [Next]_vars PROVE Listed'
  BY DEF TypeOK, RegistryType, PathType, ClientsType
<1> USE DEF registryVars, pathVars, callbackVars, countVars
<1>1. ASSUME UNCHANGED <<drives_, deletedDrives>>,
             \A d \in Drives : archive_workers'[d] \in Workers <=> archive_workers[d] \in Workers
      PROVE  Listed'
  BY <1>1 DEF Listed
<1>2. ASSUME NEW k \in Keys, archive_workers' = [archive_workers EXCEPT ![k] = Entry(k)],
             UNCHANGED <<drives_, deletedDrives>>
      PROVE  Listed'
  BY <1>1, <1>2, Constants DEF Entry, RegistryType
<1>3. CASE UNCHANGED vars
  BY <1>1, <1>3 DEF vars
<1>4. CASE CallbackUnchanged
  BY <1>1, <1>4 DEF CallbackUnchanged
<1>5. ASSUME NEW c \in Clients, ExclusiveCall(c)
      PROVE  Listed'
  <2>1. PICK d \in Drives : AddDevice(c, d) \/ DeleteDevice(c, d) \/ \E s \in Streams : AddSession(c, d, s)
    BY <1>5 DEF ExclusiveCall
  <2>2. CASE AddDevice(c, d)
    <3>1. workers + 1 \in Workers
      BY <2>2, ConstantsAssumption DEF AddDevice, RegistryType, Workers
    <3>2. /\ archive_workers' = [archive_workers EXCEPT ![d] = workers + 1] /\ archive_workers[d] = None
          /\ drives_' = [drives_ EXCEPT ![d] = @ + 1] /\ deletedDrives' = deletedDrives
      BY <2>2 DEF AddDevice, IsNew
    <3> QED BY <3>1, <3>2, Constants DEF Listed, RegistryType, PathType
  <2>3. CASE DeleteDevice(c, d)
    BY <2>3, Constants DEF DeleteDevice, Listed, RegistryType
  <2>4. ASSUME NEW s \in Streams, AddSession(c, d, s) PROVE Listed'
    BY <1>1, <2>4 DEF AddSession
  <2> QED BY <2>1, <2>2, <2>3, <2>4
<1>6. ASSUME NEW c \in Clients, LookupCall(c)
      PROVE  Listed'
  <2>1. PICK s \in Streams, op \in {"use", "delete", "push"}, d \in Drives \cup {NoDrive} : Lookup(c, op, s, d)
    BY <1>6 DEF LookupCall
  <2> QED BY <1>2, <2>1 DEF Lookup, RegistryType
<1>7. ASSUME NEW c \in Clients, InLookup(c)
      PROVE  Listed'
  <2>1. CASE PushStream(c)
    BY <1>2, <2>1, Constants DEF PushStream, LookupUnchanged, ClientsType, ClientHolds, At
  <2> QED BY <1>1, <1>7, <2>1 DEF InLookup, UseFound, DeleteFound, PushFound, CheckWorkerDrive,
                                  RemoveIOWorker, SetIndex, CallWorker, LookupUnchanged
<1>8. ASSUME NEW c \in Clients, SetSavePath(c) \/ PathStep(c) \/ GetSaveStatus(c)
      PROVE  Listed'
  BY <1>1, <1>8 DEF SetSavePath, PathStep, LockPath, VisitWorker, PathSet, GetSaveStatus, LookupUnchanged
<1> QED BY <1>3, <1>4, <1>5, <1>6, <1>7, <1>8, Steps

LEMMA InitRegistry == Init => RegistryInv
<1> SUFFICES ASSUME Init PROVE RegistryInv
  OBVIOUS
<1>1. Apart /\ Ops /\ Listed /\ RefusedOnlyIfOvertaken
  BY Constants DEF Init, Apart, Ops, OpOf, At, Idle, Listed, RefusedOnlyIfOvertaken
<1>2. \A op \in {"push", "delete"} : \A s : Busy(op, s) = {}
  BY DEF Init, Busy, Idle
<1>3. CallsInv
  BY <1>2, Constants DEF Init, CallsInv, StreamInv, Pushes, Deletes, Home, Sole, Has
<1> QED BY <1>1, <1>3 DEF RegistryInv

LEMMA StepRegistry == TypeOK /\ RegistryInv /\ [Next]_vars => RegistryInv'
  BY StepApart, StepOps, StepCalls, StepRefused, StepListed DEF RegistryInv

LEMMA RegistryHolds == TypeOK /\ RegistryInv => RegistryAgrees
<1> SUFFICES ASSUME RegistryType, ClientsType, RegistryInv PROVE RegistryAgrees
  BY DEF TypeOK, RegistryType, ClientsType
<1>1. ASSUME undefined = "no", NEW s \in Streams, Quiet(s), Clean(s)
      PROVE  StreamInv(s) /\ \A op : Busy(op, s) = {}
  BY <1>1 DEF RegistryInv, CallsInv, Quiet, Busy
<1>2. IndexLeadsHome
  <2> SUFFICES ASSUME undefined = "no", NEW s \in Streams, device_session_index[s] # NoDrive, Clean(s), Quiet(s)
               PROVE  HomeOf(s) \in Workers /\ io_workers[HomeOf(s)][s] # None
    BY DEF IndexLeadsHome, HomeOf, Clean
  <2> QED BY <1>1 DEF StreamInv, Home, Has
<1>3. NoneForgotten
  <2> SUFFICES ASSUME undefined = "no", NEW s \in Streams, NEW k \in Keys, Has(archive_workers[k], s),
                      Quiet(s), Clean(s), s \notin doubled
               PROVE  device_session_index[s] = k
    BY DEF NoneForgotten, Has, Clean
  <2> QED BY <1>1 DEF StreamInv, Sole
<1>4. EachDriveOnce
  BY DEF RegistryInv, Listed, EachDriveOnce
<1> QED BY <1>2, <1>3, <1>4 DEF RegistryAgrees, RegistryInv

\* Whatever the drives, streams and threads: the index, the drives' maps and the reader's list
\* agree, and no chunk is refused, except for the streams whose drive was deleted or whose calls
\* overlapped a DeleteStream or a move (AddSession, PushDataGroup, CheckWorkerDrive, DeleteDevice).
THEOREM Registry == Spec => []RegistryAgrees
<1>1. Init => TypeOK /\ RegistryInv
  BY InitType, InitRegistry
<1>2. TypeOK /\ RegistryInv /\ [Next]_vars => (TypeOK /\ RegistryInv)'
  BY StepType, StepRegistry
<1> QED BY <1>1, <1>2, RegistryHolds, PTL DEF Spec

-----------------------------------------------------------------------------
(***************************************************************************)
(* Entries without a worker.                                               *)
(***************************************************************************)
LEMMA StillUnadded ==
  ASSUME RegistryType, ClientsType, Ops, Unadded, [Next]_vars
  PROVE  Unadded'
<1> USE DEF registryVars, pathVars, callbackVars, countVars
<1>1. PICK c \in Clients : At(c, "push") /\ archive_workers[client[c].drive] \notin Workers
  BY DEF Unadded
<1>2. client[c].drive \in Keys /\ ~Exclusive
  BY <1>1, Constants DEF ClientsType, ClientHolds, At, Exclusive, Holding
<1>3. ASSUME client'[c] = client[c],
             \/ UNCHANGED archive_workers
             \/ \E k \in Keys : archive_workers' = [archive_workers EXCEPT ![k] = Entry(k)]
      PROVE  Unadded'
  <2>1. archive_workers'[client[c].drive] \notin Workers
    BY <1>1, <1>2, <1>3, Constants DEF Entry, RegistryType
  <2> QED BY <1>1, <1>3, <2>1 DEF Unadded, At
<1>4. CASE UNCHANGED vars
  BY <1>3, <1>4 DEF vars
<1>5. CASE CallbackUnchanged
  BY <1>3, <1>5 DEF CallbackUnchanged
<1>6. ASSUME NEW b \in Clients, ExclusiveCall(b) PROVE FALSE
  BY <1>2, <1>6 DEF ExclusiveCall, AddDevice, DeleteDevice, AddSession
<1>7. ASSUME NEW b \in Clients, LookupCall(b) PROVE Unadded'
  <2>1. PICK s \in Streams, op \in {"use", "delete", "push"}, d \in Drives \cup {NoDrive} : Lookup(b, op, s, d)
    BY <1>7 DEF LookupCall
  <2>2. Others(b) /\ At(b, "idle")
    BY <2>1, LooksUp DEF ClientsType
  <2>3. b # c /\ device_session_index[s] \in Keys
    BY <1>1, <2>1, <2>2 DEF Lookup, RegistryType, At
  <2> QED BY <1>3, <2>1, <2>2, <2>3 DEF Lookup, Others
<1>8. ASSUME NEW b \in Clients, InLookup(b) PROVE Unadded'
  <2>1. CASE PushStream(b)
    <3>1. archive_workers' = [archive_workers EXCEPT ![client[b].drive] = Entry(client[b].drive)]
          /\ client[b].drive \in Keys
      BY <2>1, Constants DEF PushStream, ClientsType, ClientHolds, At
    <3>2. CASE UNCHANGED client
      BY <1>3, <3>1, <3>2
    <3>3. CASE archive_workers[client[b].drive] \in Workers /\ Goto(b, "index")
      <4>1. b # c /\ Others(b)
        BY <1>1, <3>3, GoesTo DEF ClientsType
      <4> QED BY <1>3, <3>1, <4>1 DEF Others
    <3> QED BY <2>1, <3>2, <3>3 DEF PushStream
  <2>2. CASE ~PushStream(b)
    <3>1. b # c /\ UNCHANGED archive_workers
      BY <1>1, <1>8, <2>2 DEF InLookup, UseFound, DeleteFound, PushFound, CheckWorkerDrive, RemoveIOWorker,
                              SetIndex, CallWorker, LookupUnchanged, At
    <3>2. Others(b) \/ UNCHANGED client
      BY <1>8, <2>2, UnlocksTo, Checks, GoesTo, Indexes, ReturnsIdle
         DEF InLookup, UseFound, DeleteFound, PushFound, CheckWorkerDrive, RemoveIOWorker, CallWorker, ClientsType
    <3> QED BY <1>3, <3>1, <3>2 DEF Others
  <2> QED BY <2>1, <2>2
<1>9. ASSUME NEW b \in Clients, SetSavePath(b) \/ PathStep(b) PROVE Unadded'
  <2>1. b # c /\ Others(b)
    BY <1>1, <1>9, VisitsPaths DEF At, ClientsType
  <2>2. UNCHANGED archive_workers
    BY <1>9 DEF SetSavePath, PathStep, LockPath, VisitWorker, PathSet, LookupUnchanged
  <2> QED BY <1>3, <2>1, <2>2 DEF Others
<1>10. ASSUME NEW b \in Clients, GetSaveStatus(b) PROVE Unadded'
  BY <1>3, <1>10 DEF GetSaveStatus
<1> QED BY <1>4, <1>5, <1>6, <1>7, <1>8, <1>9, <1>10, Steps

\* What a step leaves of NoNull, when it adds no call on a stream.
LEMMA StillNoNull ==
  ASSUME RegistryType, NoNull, undefined' # "null", UNCHANGED <<archive_workers, device_session_index>>,
         \A c \in Clients : \/ client'[c] = client[c]
                            \/ /\ client'[c].pc # "found"
                               /\ client'[c].op = "none" \/ Same(c) \/ client'[c].op \notin {"push", "delete"}
  PROVE  NoNull'
<1>1. \A op \in {"push", "delete"}, s \in Streams : Busy(op, s)' \subseteq Busy(op, s)
  BY DEF Busy, Same
<1>2. \A c \in Clients : At(c, "found")' => client'[c].worker \in Workers
  BY DEF NoNull, At
<1> QED BY <1>1, <1>2 DEF NoNull, HomeOf

LEMMA InLookupNoNull ==
  ASSUME RegistryType, ClientsType, Ops, NoNull, NEW c \in Clients, InLookup(c), undefined = "no",
         ~Unadded
  PROVE  NoNull'
<1> USE DEF registryVars, pathVars, callbackVars, countVars
<1> DEFINE s == client[c].stream
<1>1. OpOf(c) /\ ClientHolds(c) /\ client \in [Clients -> ClientType]
  BY DEF Ops, ClientsType
<1>2. ASSUME undefined' # "null", UNCHANGED registryVars, Others(c), client'[c].pc # "found",
             client'[c].op = "none" \/ Same(c)
      PROVE  NoNull'
  BY <1>2, StillNoNull DEF Others
<1>3. undefined' # "null" \/ UsesNull
  BY <1>1 DEF InLookup, UseFound, DeleteFound, PushFound, CheckWorkerDrive, RemoveIOWorker, PushStream,
              SetIndex, CallWorker, LookupUnchanged, Changes
<1>4. CASE UseFound(c) \/ PushFound(c)
  BY <1>1, <1>2, <1>4, UnlocksTo DEF UseFound, PushFound, LookupUnchanged, NoNull
<1>5. CASE DeleteFound(c)
  <2>1. /\ device_session_index' = [device_session_index EXCEPT ![s] = NoDrive] /\ s \in Streams
        /\ Unlock(c) /\ UNCHANGED archive_workers /\ undefined' # "null" /\ c \in Busy("delete", s)
    BY <1>1, <1>5 DEF DeleteFound, LookupUnchanged, Changes, ClientHolds, At, Busy
  <2>2. Others(c) /\ client'[c].pc # "found" /\ (client'[c].op = "none" \/ Same(c))
    BY <1>1, <2>1, UnlocksTo
  <2>3. \A op \in {"push", "delete"}, t \in Streams : Busy(op, t)' \subseteq Busy(op, t)
    BY <2>2 DEF Busy, Others, Same
  <2>4. Busy("push", s) = {}
    BY <2>1 DEF NoNull
  <2>5. \A t \in Streams : t # s => device_session_index'[t] = device_session_index[t]
    BY <2>1 DEF RegistryType
  <2>6. \A t \in Streams : device_session_index'[t] # NoDrive => HomeOf(t)' \in Workers
    BY <2>1, <2>5 DEF NoNull, HomeOf, RegistryType
  <2>7. \A t \in Streams : Busy("push", t)' # {} => device_session_index'[t] # NoDrive /\ Busy("delete", t)' = {}
    BY <2>3, <2>4, <2>5 DEF NoNull
  <2>8. \A b \in Clients : At(b, "found")' => client'[b].worker \in Workers
    BY <2>2 DEF NoNull, At, Others
  <2> QED BY <2>1, <2>6, <2>7, <2>8 DEF NoNull
<1>6. CASE CheckWorkerDrive(c)
  <2>1. client[c].worker \in Workers /\ c \in Busy("push", s) /\ s \in Streams
    BY <1>1, <1>6 DEF CheckWorkerDrive, NoNull, Busy, ClientHolds, At
  <2>2. device_session_index[s] # NoDrive
    BY <2>1 DEF NoNull
  <2>3. device_session_index' = device_session_index /\ UNCHANGED archive_workers
    BY <1>6, <2>1, <2>2 DEF CheckWorkerDrive, RegistryType, LookupUnchanged
  <2>4. undefined' # "null"
    BY <1>6, <2>1, <2>2, Constants DEF CheckWorkerDrive, NoNull
  <2>5. Others(c) /\ client'[c].pc # "found" /\ Same(c)
    BY <1>6, <2>1, Checks, Constants
  <2> QED BY <1>2, <2>3, <2>4, <2>5
<1>7. CASE RemoveIOWorker(c)
  BY <1>1, <1>2, <1>7, GoesTo DEF RemoveIOWorker, LookupUnchanged, NoNull
<1>8. CASE PushStream(c)
  <2>1. archive_workers[client[c].drive] \in Workers /\ client[c].drive \in Keys
    BY <1>1, <1>8, Constants DEF PushStream, Unadded, ClientHolds, At
  <2>2. archive_workers' = archive_workers /\ Goto(c, "index") /\ undefined' # "null" /\ UNCHANGED device_session_index
    BY <1>8, <2>1, Constants DEF PushStream, Entry, RegistryType, NoNull
  <2> QED BY <1>1, <1>2, <2>2, GoesTo
<1>9. CASE SetIndex(c)
  <2> DEFINE d == client[c].drive
  <2>1. archive_workers[d] \in Workers /\ d \in Keys /\ s \in Streams /\ d # NoDrive /\ c \in Busy("push", s)
    BY <1>1, <1>9, Constants DEF SetIndex, ClientHolds, At, OpOf, Busy
  <2>2. /\ device_session_index' = [device_session_index EXCEPT ![s] = d] /\ UNCHANGED archive_workers
        /\ undefined' # "null"
    BY <1>9 DEF SetIndex, Indexed, LookupUnchanged, Changes
  <2>3. Others(c) /\ client'[c].pc # "found" /\ Same(c)
    BY <1>1, <1>9, Indexes
  <2>4. \A op \in {"push", "delete"}, t \in Streams : Busy(op, t)' \subseteq Busy(op, t)
    BY <2>3 DEF Busy, Others, Same
  <2>5. \A t \in Streams : t # s => device_session_index'[t] = device_session_index[t]
    BY <2>2 DEF RegistryType
  <2>6. device_session_index'[s] = d
    BY <2>1, <2>2 DEF RegistryType
  <2>7. \A t \in Streams : device_session_index'[t] # NoDrive => HomeOf(t)' \in Workers
    BY <2>1, <2>2, <2>5, <2>6 DEF NoNull, HomeOf
  <2>8. \A t \in Streams : Busy("push", t)' # {} => device_session_index'[t] # NoDrive /\ Busy("delete", t)' = {}
    BY <2>1, <2>4, <2>5, <2>6 DEF NoNull
  <2>9. \A b \in Clients : At(b, "found")' => client'[b].worker \in Workers
    BY <2>3 DEF NoNull, At, Others
  <2> QED BY <2>2, <2>7, <2>8, <2>9 DEF NoNull
<1>10. CASE CallWorker(c)
  BY <1>1, <1>2, <1>10, ReturnsIdle DEF CallWorker, NoNull
<1> QED BY <1>4, <1>5, <1>6, <1>7, <1>8, <1>9, <1>10 DEF InLookup

LEMMA StepNull == TypeOK /\ Ops /\ NullInv /\ [Next]_vars => NullInv'
<1> SUFFICES ASSUME RegistryType, ClientsType, Ops, NullInv, [Next]_vars,
                    left' = {}, crossed' = {}, ~Unadded'
             PROVE  NoNull'
  BY DEF TypeOK, RegistryType, ClientsType, NullInv
<1> USE DEF registryVars, pathVars, callbackVars, countVars
<1>1. ~Unadded
  BY StillUnadded
<1>2. ASSUME UNCHANGED <<left, crossed>> PROVE NoNull
  BY <1>1, <1>2 DEF NullInv
<1>3. ASSUME NoNull, UNCHANGED <<archive_workers, device_session_index, client>>, undefined' # "null"
      PROVE  NoNull'
  BY <1>3, StillNoNull
<1>4. CASE UNCHANGED vars
  BY <1>2, <1>3, <1>4 DEF vars, NoNull
<1>5. CASE CallbackUnchanged
  BY <1>2, <1>3, <1>5 DEF CallbackUnchanged, NoNull
<1>6. ASSUME NEW c \in Clients, ExclusiveCall(c)
      PROVE  NoNull'
  <2>1. left \subseteq left' /\ crossed \subseteq crossed' /\ UNCHANGED client
    BY <1>6 DEF ExclusiveCall, AddDevice, DeleteDevice, AddSession
  <2>2. NoNull
    BY <1>1, <2>1 DEF NullInv
  <2>3. PICK d \in Drives : AddDevice(c, d) \/ DeleteDevice(c, d) \/ \E s \in Streams : AddSession(c, d, s)
    BY <1>6 DEF ExclusiveCall
  <2>4. d \in Keys
    BY Constants
  <2>5. CASE AddDevice(c, d)
    <3>1. /\ workers' \in Workers /\ archive_workers' = [archive_workers EXCEPT ![d] = workers']
          /\ UNCHANGED <<device_session_index, undefined>>
      BY <2>5, ConstantsAssumption DEF AddDevice, RegistryType, Workers
    <3>2. \A k \in Keys : archive_workers'[k] # Null /\ (archive_workers[k] \in Workers => archive_workers'[k] \in Workers)
      BY <2>2, <3>1, Constants DEF NoNull, RegistryType
    <3> QED BY <2>1, <2>2, <3>1, <3>2 DEF NoNull, HomeOf, RegistryType, Busy, At
  <2>6. CASE DeleteDevice(c, d)
    <3>1. /\ archive_workers' = [archive_workers EXCEPT ![d] = None]
          /\ UNCHANGED <<device_session_index, undefined>> /\ \A s \in Streams : device_session_index[s] # d
      BY <2>6 DEF DeleteDevice
    <3>2. \A k \in Keys : archive_workers'[k] # Null /\ (k # d => archive_workers'[k] = archive_workers[k])
      BY <2>2, <3>1, Constants DEF NoNull, RegistryType
    <3> QED BY <2>1, <2>2, <3>1, <3>2 DEF NoNull, HomeOf, RegistryType, Busy, At
  <2>7. ASSUME NEW s \in Streams, AddSession(c, d, s) PROVE NoNull'
    <3>1. archive_workers[d] \in Workers
      BY <2>2, <2>4, <2>7 DEF AddSession, MayAdd, NoNull, RegistryType
    <3>2. UNCHANGED <<archive_workers, undefined>> /\ device_session_index' = Emplaced(s, d)
      BY <2>7, <3>1 DEF AddSession
    <3>3. \A t \in Streams : \/ device_session_index'[t] = device_session_index[t]
                             \/ device_session_index'[t] = d
      BY <3>2 DEF Emplaced, RegistryType
    <3>4. d # NoDrive
      BY Constants
    <3>5. \A t \in Streams : device_session_index'[t] # NoDrive => HomeOf(t)' \in Workers
      BY <2>2, <3>1, <3>2, <3>3 DEF NoNull, HomeOf
    <3>6. \A t \in Streams : Busy("push", t)' # {} => device_session_index'[t] # NoDrive /\ Busy("delete", t)' = {}
      BY <2>1, <2>2, <3>3, <3>4 DEF NoNull, Busy
    <3> QED BY <2>1, <2>2, <3>2, <3>5, <3>6 DEF NoNull, At
  <2> QED BY <2>3, <2>5, <2>6, <2>7
<1>7. ASSUME NEW c \in Clients, LookupCall(c)
      PROVE  NoNull'
  <2>1. PICK s \in Streams, op \in {"use", "delete", "push"}, d \in Drives \cup {NoDrive} : Lookup(c, op, s, d)
    BY <1>7 DEF LookupCall
  <2>2. NoNull
    BY <1>1, <2>1 DEF NullInv, Lookup
  <2>3. HomeOf(s) \in Workers /\ device_session_index[s] \in Keys /\ device_session_index[s] # NoDrive
    BY <2>1, <2>2 DEF Lookup, NoNull, RegistryType
  <2>4. UNCHANGED <<archive_workers, device_session_index, undefined>> /\ Entry(device_session_index[s]) = HomeOf(s)
    BY <2>1, <2>3, Constants DEF Lookup, Entry, HomeOf, RegistryType
  <2>5. /\ Others(c) /\ client'[c].op = op /\ client'[c].stream = s /\ client'[c].worker \in Workers
    BY <2>1, <2>3, <2>4, LooksUp DEF ClientsType
  <2>6. \A b \in Clients : At(b, "found")' => client'[b].worker \in Workers
    BY <2>2, <2>5 DEF NoNull, At, Others
  <2>7. /\ op = "push" => Busy("delete", s) = {}
        /\ op = "delete" => Busy("push", s) = {}
    BY <2>1 DEF Lookup
  <2>8. \A t \in Streams : Busy("push", t)' # {} => device_session_index'[t] # NoDrive /\ Busy("delete", t)' = {}
    <3> SUFFICES ASSUME NEW t \in Streams, NEW b \in Busy("push", t)'
                 PROVE  device_session_index[t] # NoDrive /\ Busy("delete", t)' = {}
      BY <2>4
    <3>1. CASE t # s \/ op = "use"
      <4>1. Busy("push", t)' \subseteq Busy("push", t) /\ Busy("delete", t)' \subseteq Busy("delete", t)
        BY <2>5, <3>1 DEF Busy, Others
      <4> QED BY <2>2, <4>1 DEF NoNull
    <3>2. CASE t = s /\ op = "push"
      BY <2>3, <2>5, <2>7, <3>2 DEF Busy, Others
    <3>3. CASE t = s /\ op = "delete"
      BY <2>5, <2>7, <3>3 DEF Busy, Others
    <3> QED BY <3>1, <3>2, <3>3
  <2> QED BY <2>2, <2>4, <2>6, <2>8 DEF NoNull, HomeOf
<1>8. ASSUME NEW c \in Clients, InLookup(c), undefined = "no"
      PROVE  NoNull'
  <2>1. UNCHANGED <<left, crossed>>
    BY <1>8 DEF InLookup, UseFound, DeleteFound, PushFound, CheckWorkerDrive, RemoveIOWorker, PushStream,
                SetIndex, CallWorker, LookupUnchanged
  <2> QED BY <1>1, <1>2, <1>8, <2>1, InLookupNoNull
<1>9. ASSUME NEW c \in Clients, SetSavePath(c) \/ PathStep(c) \/ GetSaveStatus(c)
      PROVE  NoNull'
  <2>1. UNCHANGED <<archive_workers, device_session_index, left, crossed>>
    BY <1>9 DEF SetSavePath, PathStep, LockPath, VisitWorker, PathSet, GetSaveStatus, LookupUnchanged
  <2>2. NoNull
    BY <1>2, <2>1
  <2>3. CASE GetSaveStatus(c)
    BY <1>3, <2>2, <2>3 DEF GetSaveStatus, NoNull
  <2>4. CASE SetSavePath(c) \/ LockPath(c) \/ PathSet(c)
    <3>1. undefined' # "null"
      BY <2>2, <2>4 DEF SetSavePath, LockPath, PathSet, NoNull
    <3> QED BY <2>1, <2>2, <2>4, <3>1, VisitsPaths, StillNoNull DEF PathStep, Others, Ops, OpOf, At, ClientsType
  <2>5. ASSUME NEW k \in Keys, VisitWorker(c, k) PROVE NoNull'
    <3>1. undefined' # "null"
      BY <2>2, <2>5 DEF VisitWorker, NoNull
    <3> QED BY <2>1, <2>2, <2>5, <3>1, VisitsPaths, StillNoNull DEF PathStep, Others, Ops, OpOf, At, ClientsType
  <2> QED BY <1>9, <2>3, <2>4, <2>5 DEF PathStep
<1> QED BY <1>4, <1>5, <1>6, <1>7, <1>8, <1>9, Steps

LEMMA InitNull == Init => NullInv
  BY Constants DEF Init, NullInv, NoNull, At, Busy, Idle

\* Whatever the drives, streams and threads: an entry without a worker appears, and is used, only
\* for a drive deleted with streams, a chunk overlapped by a DeleteStream, or a chunk that names a
\* drive that was never added (operator[] in PushDataGroup, CheckWorkerDrive, GetSaveStatus).
THEOREM Nulls == Spec => []NullsExplained
<1>1. Init => TypeOK /\ Ops /\ NullInv
  BY InitType, InitRegistry, InitNull DEF RegistryInv
<1>2. TypeOK /\ Ops /\ NullInv /\ [Next]_vars => (TypeOK /\ Ops /\ NullInv)'
  BY StepType, StepOps, StepNull
<1>3. NullInv => NullsExplained
  BY DEF NullInv, NoNull, Unadded, NullsExplained
<1> QED BY <1>1, <1>2, <1>3, PTL DEF Spec

-----------------------------------------------------------------------------
(***************************************************************************)
(* The paths.  Chunks may overlap while their stream moves, and each may   *)
(* have taken the IOWorker: it is one and the same, and the drives or a    *)
(* chunk still have it.                                                    *)
(***************************************************************************)
\* What mtx_worker protects: the worker of a call that holds it stays registered.
Kept ==
  /\ archive_workers[EmptyDrive] \notin Workers
  /\ \A c \in Clients : client[c].pc \in {"found", "remove"} /\ client[c].worker \in Workers =>
                          client[c].worker \in Registered
  /\ \A c \in Clients : client[c].pc \in {"remove", "push"} => client[c].object \in Objects
  /\ \A s \in Streams \ crossed : Busy("push", s) # {} => Busy("delete", s) = {}

\* The chunks of a stream may reach the IOWorker.
Reach(s, o) ==
  \/ \E c \in Busy("push", s) :
       \/ /\ client[c].pc \in {"found", "remove"} /\ client[c].worker \in Workers
          /\ io_workers[client[c].worker][s] = o
       \/ At(c, "index") /\ io_workers[archive_workers[client[c].drive]][s] = o
       \/ client[c].pc \in {"remove", "push"} /\ client[c].object = o
  \/ /\ device_session_index[s] # NoDrive /\ HomeOf(s) \in Workers
     /\ io_workers[HomeOf(s)][s] = o
OneObject(s) == \A a, b \in Objects : Reach(s, a) /\ Reach(s, b) => a = b
Live(o, s) ==
  \/ \E k \in Keys : archive_workers[k] \in Workers /\ io_workers[archive_workers[k]][s] = o
  \/ \E c \in Busy("push", s) : At(c, "push") /\ client[c].object = o
Alive(s) ==
  \A o \in Objects, c \in Clients :
    c \in Busy("push", s) /\ At(c, "remove") /\ client[c].object = o => Live(o, s)
Objected == \A s \in Streams \ crossed : OneObject(s) /\ Alive(s)

Visiting == \E c \in Clients : At(c, "visit")
Done(k) == Setting = {} \/ \E c \in Clients : At(c, "visit") /\ k \notin client[c].todo
Settled(o) == o \in {None} \cup unsettled \/ ioPath[o] = save_path_
OneSetting == \A c \in Setting : client[c].path = save_path_ /\ \A b \in Setting : b = c
Mapped ==
  \A k \in Keys : archive_workers[k] \in Workers /\ Done(k) =>
    /\ workerPath[archive_workers[k]] = save_path_
    /\ \A s \in Streams \ crossed : Settled(io_workers[archive_workers[k]][s])
OnTheMove ==
  \A c \in Clients : At(c, "push") /\ client[c].stream \notin crossed /\ client[c].object \notin unsettled =>
    ~Visiting /\ (Setting = {} => ioPath[client[c].object] = save_path_)
PathInv ==
  undefined = "no" =>
    /\ Kept /\ Objected
    /\ ~(Objects \subseteq unsettled) => OneSetting /\ Mapped /\ OnTheMove

\* How a step changes the entries while it is not alone with the lock.
EntriesGrow ==
  /\ \A k \in Keys : archive_workers'[k] \in Workers => archive_workers'[k] = archive_workers[k]
  /\ \A k \in Keys : archive_workers[k] \in Workers => archive_workers'[k] = archive_workers[k]

LEMMA EntryGrows ==
  ASSUME RegistryType,
         \/ UNCHANGED archive_workers
         \/ \E k \in Keys : archive_workers' = [archive_workers EXCEPT ![k] = Entry(k)]
  PROVE  EntriesGrow
  BY Constants DEF EntriesGrow, Entry, RegistryType

LEMMA InLookupGrows ==
  ASSUME RegistryType, ClientsType, NEW c \in Clients, InLookup(c)
  PROVE  EntriesGrow
<1>1. CASE PushStream(c)
  <2>1. client[c].drive \in Keys
    BY <1>1, Constants DEF PushStream, ClientsType, ClientHolds, At
  <2> QED BY <1>1, <2>1, EntryGrows DEF PushStream
<1>2. CASE ~PushStream(c)
  BY <1>2, EntryGrows DEF InLookup, UseFound, DeleteFound, PushFound, CheckWorkerDrive, RemoveIOWorker,
                          SetIndex, CallWorker, LookupUnchanged, registryVars
<1> QED BY <1>1, <1>2

LEMMA LookupGrows ==
  ASSUME RegistryType, NEW c, LookupCall(c)
  PROVE  EntriesGrow
  BY EntryGrows DEF LookupCall, Lookup, RegistryType

\* The client of a step in a look-up: where it goes, with what.
LEMMA InLookupMoves ==
  ASSUME RegistryType, ClientsType, Ops, NEW c \in Clients, InLookup(c), undefined' # "null"
  PROVE  LET s == client[c].stream IN
         /\ Others(c) /\ s \in Streams /\ client[c].pc \in {"found", "call", "remove", "push", "index"}
         /\ \/ client'[c].pc = "idle" /\ client'[c].op = "none"
            \/ client'[c].pc = "call" /\ Same(c)
            \/ /\ CheckWorkerDrive(c) /\ client'[c].pc = "remove" /\ Same(c) /\ client[c].op = "push"
               /\ client[c].worker \in Workers /\ client'[c].worker = client[c].worker
               /\ client'[c].object = io_workers[client[c].worker][s] /\ client'[c].object \in Objects
            \/ /\ RemoveIOWorker(c) /\ client'[c].pc = "push" /\ Same(c) /\ client[c].op = "push"
               /\ client'[c].object = client[c].object
            \/ PushStream(c) /\ client'[c].pc = "index" /\ Same(c) /\ client[c].op = "push"
<1>1. /\ OpOf(c) /\ ClientHolds(c) /\ client \in [Clients -> ClientType]
      /\ client[c].pc \in {"found", "call", "remove", "push", "index"} /\ client[c].stream \in Streams
  BY DEF Ops, ClientsType, ClientHolds, At, InLookup, UseFound, DeleteFound, PushFound, CheckWorkerDrive,
         RemoveIOWorker, PushStream, SetIndex, CallWorker
<1>2. CASE UseFound(c) \/ DeleteFound(c) \/ PushFound(c)
  BY <1>1, <1>2, UnlocksTo DEF UseFound, DeleteFound, PushFound
<1>3. CASE CheckWorkerDrive(c)
  <2>1. client[c].worker # Null /\ client[c].op = "push"
    BY <1>3 DEF CheckWorkerDrive, UsesNull
  <2>2. client[c].worker \in Workers =>
          io_workers[client[c].worker][client[c].stream] \in Objects \cup {None}
    BY <1>1 DEF RegistryType
  <2> QED BY <1>1, <1>3, <2>1, <2>2, Checks
<1>4. CASE RemoveIOWorker(c)
  BY <1>1, <1>4, GoesTo DEF RemoveIOWorker, OpOf, At
<1>5. CASE PushStream(c)
  BY <1>1, <1>5, GoesTo DEF PushStream, UsesNull, OpOf, At
<1>6. CASE SetIndex(c)
  BY <1>1, <1>6, Indexes
<1>7. CASE CallWorker(c)
  BY <1>1, <1>7, ReturnsIdle DEF CallWorker
<1> QED BY <1>1, <1>2, <1>3, <1>4, <1>5, <1>6, <1>7 DEF InLookup

LEMMA StepKept == TypeOK /\ Ops /\ Kept /\ [Next]_vars /\ undefined' # "null" => Kept'
<1> SUFFICES ASSUME RegistryType, ClientsType, Ops, Kept, [Next]_vars, undefined' # "null" PROVE Kept'
  BY DEF TypeOK, RegistryType, ClientsType
<1> USE DEF registryVars, pathVars, callbackVars, countVars
<1>1. ASSUME EntriesGrow PROVE Registered \subseteq Registered'
  BY <1>1 DEF EntriesGrow, Registered
<1>2. ASSUME EntriesGrow, crossed \subseteq crossed',
             \A c \in Clients :
               \/ client'[c] = client[c]
               \/ /\ client'[c].pc \in {"found", "remove"} /\ client'[c].worker \in Workers =>
                       client'[c].worker \in Registered'
                  /\ client'[c].pc \in {"remove", "push"} => client'[c].object \in Objects,
             \A s \in Streams \ crossed' : Busy("push", s)' # {} => Busy("delete", s)' = {}
      PROVE  Kept'
  <2>1. archive_workers'[EmptyDrive] \notin Workers
    BY <1>2, Constants DEF Kept, EntriesGrow
  <2> QED BY <1>1, <1>2, <2>1 DEF Kept
<1>3. ASSUME crossed \subseteq crossed',
             \A c \in Clients : \/ client'[c] = client[c]
                                \/ client'[c].op \notin {"push", "delete"} \/ Same(c)
      PROVE  \A s \in Streams \ crossed' : Busy("push", s)' # {} => Busy("delete", s)' = {}
  <2>1. \A op \in {"push", "delete"}, s \in Streams : Busy(op, s)' \subseteq Busy(op, s)
    BY <1>3 DEF Busy, Same
  <2> QED BY <1>3, <2>1 DEF Kept
<1>4. ASSUME UNCHANGED client, crossed \subseteq crossed', EntriesGrow
      PROVE  Kept'
  BY <1>2, <1>3, <1>4
<1>5. CASE UNCHANGED vars
  BY <1>4, <1>5, EntryGrows DEF vars
<1>6. CASE CallbackUnchanged
  BY <1>4, <1>6, EntryGrows DEF CallbackUnchanged
<1>7. ASSUME NEW c \in Clients, ExclusiveCall(c)
      PROVE  Kept'
  <2>1. UNCHANGED client /\ crossed \subseteq crossed' /\ Exclusive
    BY <1>7 DEF ExclusiveCall, AddDevice, DeleteDevice, AddSession
  <2>2. archive_workers'[EmptyDrive] = archive_workers[EmptyDrive]
    <3>1. PICK d \in Drives : \/ UNCHANGED archive_workers
                            \/ \E w : archive_workers' = [archive_workers EXCEPT ![d] = w]
      BY <1>7 DEF ExclusiveCall, AddDevice, DeleteDevice, AddSession
    <3>2. d # EmptyDrive /\ EmptyDrive \in Keys
      BY ConstantsAssumption, Constants
    <3> QED BY <3>1, <3>2 DEF RegistryType
  <2>3. \A b \in Clients : client[b].pc \notin {"found", "remove", "push"}
    BY <2>1 DEF Exclusive, Holding
  <2> QED BY <1>3, <2>1, <2>2, <2>3 DEF Kept
<1>8. ASSUME NEW c \in Clients, LookupCall(c)
      PROVE  Kept'
  <2>1. PICK s \in Streams, op \in {"use", "delete", "push"}, d \in Drives \cup {NoDrive} : Lookup(c, op, s, d)
    BY <1>8 DEF LookupCall
  <2>2. /\ Others(c) /\ client'[c].pc = "found" /\ client'[c].op = op /\ client'[c].stream = s
        /\ client'[c].worker = Entry(device_session_index[s])
    BY <2>1, LooksUp DEF ClientsType
  <2>3. device_session_index[s] \in Keys /\ archive_workers'[device_session_index[s]] = Entry(device_session_index[s])
    BY <2>1 DEF Lookup, RegistryType
  <2>4. /\ op = "push" => s \in crossed' \/ Busy("delete", s) = {}
        /\ op = "delete" => s \in crossed' \/ Busy("push", s) = {}
        /\ crossed \subseteq crossed'
    BY <2>1 DEF Lookup
  <2>5. \A t \in Streams \ crossed' : Busy("push", t)' # {} => Busy("delete", t)' = {}
    <3> SUFFICES ASSUME NEW t \in Streams \ crossed', NEW b \in Busy("push", t)'
                 PROVE  Busy("delete", t)' = {}
      OBVIOUS
    <3>1. CASE t # s \/ op = "use"
      <4>1. Busy("push", t)' \subseteq Busy("push", t) /\ Busy("delete", t)' \subseteq Busy("delete", t)
        BY <2>2, <3>1 DEF Busy, Others
      <4> QED BY <2>4, <4>1 DEF Kept
    <3>2. CASE t = s /\ op = "push"
      BY <2>2, <2>4, <3>2 DEF Busy, Others
    <3>3. CASE t = s /\ op = "delete"
      BY <2>2, <2>4, <3>3 DEF Busy, Others
    <3> QED BY <3>1, <3>2, <3>3
  <2>6. client'[c].worker \in Workers => client'[c].worker \in Registered'
    BY <2>2, <2>3 DEF Registered
  <2> QED BY <1>2, <1>8, <2>2, <2>4, <2>5, <2>6, LookupGrows DEF Others
<1>9. ASSUME NEW c \in Clients, InLookup(c)
      PROVE  Kept'
  <2>1. /\ EntriesGrow /\ crossed' = crossed /\ Registered \subseteq Registered'
    BY <1>1, <1>9, InLookupGrows
       DEF InLookup, UseFound, DeleteFound, PushFound, CheckWorkerDrive, RemoveIOWorker, PushStream, SetIndex,
           CallWorker, LookupUnchanged
  <2>2. \A s \in Streams \ crossed' : Busy("push", s)' # {} => Busy("delete", s)' = {}
    BY <1>3, <1>9, <2>1, InLookupMoves DEF Others
  <2>3. /\ client'[c].pc \in {"found", "remove"} /\ client'[c].worker \in Workers =>
             client'[c].worker \in Registered'
        /\ client'[c].pc \in {"remove", "push"} => client'[c].object \in Objects
    <3>1. CASE client'[c].pc \in {"idle", "call", "index"}
      BY <3>1
    <3>2. CASE CheckWorkerDrive(c) /\ client'[c].pc = "remove"
      BY <1>9, <2>1, <3>2, InLookupMoves DEF Kept, CheckWorkerDrive, At
    <3>3. CASE RemoveIOWorker(c) /\ client'[c].pc = "push"
      BY <1>9, <3>3, InLookupMoves DEF Kept, RemoveIOWorker, At
    <3> QED BY <1>9, <3>1, <3>2, <3>3, InLookupMoves
  <2> QED BY <1>2, <1>9, <2>1, <2>2, <2>3, InLookupMoves DEF Others
<1>10. ASSUME NEW c \in Clients, SetSavePath(c) \/ PathStep(c)
      PROVE  Kept'
  <2>1. UNCHANGED <<archive_workers, crossed>>
    BY <1>10 DEF SetSavePath, PathStep, LockPath, VisitWorker, PathSet, LookupUnchanged
  <2>2. Others(c) /\ client'[c].pc \in {"idle", "path", "visit"} /\ client'[c].op \in {"none", "path"}
    BY <1>10, VisitsPaths DEF Ops, OpOf, At, ClientsType
  <2> QED BY <1>2, <1>3, <2>1, <2>2, EntryGrows DEF Others
<1>11. ASSUME NEW c \in Clients, GetSaveStatus(c)
      PROVE  Kept'
  BY <1>4, <1>11, EntryGrows DEF GetSaveStatus
<1> QED BY <1>5, <1>6, <1>7, <1>8, <1>9, <1>10, <1>11, Steps

(***************************************************************************)
(* One object.                                                             *)
(***************************************************************************)
Seen(s, x) == x = None \/ Reach(s, x)
OldMaps(s) == \A w \in Workers : io_workers'[w][s] = io_workers[w][s] \/ Seen(s, io_workers'[w][s])
OldHome(s) ==
  device_session_index'[s] # NoDrive /\ HomeOf(s)' \in Workers => Seen(s, io_workers'[archive_workers'[device_session_index'[s]]][s])
OldHands(c, s) ==
  /\ client'[c].pc \in {"found", "remove"} /\ client'[c].worker \in Workers =>
       Seen(s, io_workers'[client'[c].worker][s])
  /\ client'[c].pc = "index" => Seen(s, io_workers'[archive_workers'[client'[c].drive]][s])
  /\ client'[c].pc \in {"remove", "push"} => Seen(s, client'[c].object)

LEMMA ReachesNoMore ==
  ASSUME ClientsType, NEW s, EntriesGrow, OldMaps(s), OldHome(s), OneObject(s),
         \A c \in Clients : c \in Busy("push", s)' => client'[c] = client[c] \/ OldHands(c, s)
  PROVE  OneObject(s)'
<1>1. ASSUME NEW o \in Objects, Reach(s, o)'
      PROVE  Reach(s, o)
  <2>1. o # None
    BY Constants
  <2>2. CASE device_session_index'[s] # NoDrive /\ HomeOf(s)' \in Workers /\ io_workers'[HomeOf(s)'][s] = o
    BY <2>1, <2>2 DEF OldHome, Seen, HomeOf
  <2>3. ASSUME NEW c \in Clients, c \in Busy("push", s)',
               \/ /\ client'[c].pc \in {"found", "remove"} /\ client'[c].worker \in Workers
                  /\ io_workers'[client'[c].worker][s] = o
               \/ client'[c].pc = "index" /\ io_workers'[archive_workers'[client'[c].drive]][s] = o
               \/ client'[c].pc \in {"remove", "push"} /\ client'[c].object = o
        PROVE  Reach(s, o)
    <3>1. CASE OldHands(c, s)
      BY <2>1, <2>3, <3>1 DEF OldHands, Seen
    <3>2. CASE client'[c] = client[c]
      <4>1. c \in Busy("push", s)
        BY <2>3, <3>2 DEF Busy
      <4>2. client[c].pc = "index" => archive_workers[client[c].drive] \in Workers
                                      /\ archive_workers'[client[c].drive] = archive_workers[client[c].drive]
        BY Constants DEF ClientsType, ClientHolds, At, EntriesGrow
      <4> QED BY <2>1, <2>3, <3>2, <4>1, <4>2 DEF OldMaps, Seen, Reach, At
    <3> QED BY <2>3, <3>1, <3>2
  <2> QED BY <1>1, <2>2, <2>3 DEF Reach, At, Busy
<1> QED BY <1>1 DEF OneObject

LEMMA HomeStays ==
  ASSUME RegistryType, NEW s \in Streams, EntriesGrow, OldMaps(s),
         device_session_index'[s] = device_session_index[s]
  PROVE  OldHome(s)
<1> SUFFICES ASSUME device_session_index[s] # NoDrive, HomeOf(s)' \in Workers
             PROVE  Seen(s, io_workers'[HomeOf(s)'][s])
  BY DEF OldHome, HomeOf
<1>1. HomeOf(s)' = HomeOf(s)
  BY DEF HomeOf, EntriesGrow, RegistryType
<1>2. Reach(s, io_workers[HomeOf(s)][s])
  BY <1>1 DEF Reach
<1> QED BY <1>1, <1>2 DEF OldMaps, Seen

\* What the steps leave of the IOWorkers that a stream's chunks are about to use.
LEMMA LiveStays ==
  ASSUME NEW s, NEW o \in Objects, Live(o, s), EntriesGrow,
         \A w \in Workers : io_workers[w][s] = o => io_workers'[w][s] = o,
         \A c \in Busy("push", s) : At(c, "push") => client'[c] = client[c]
  PROVE  Live(o, s)'
<1>1. CASE \E k \in Keys : archive_workers[k] \in Workers /\ io_workers[archive_workers[k]][s] = o
  BY <1>1 DEF Live, EntriesGrow
<1>2. CASE \E c \in Busy("push", s) : At(c, "push") /\ client[c].object = o
  BY <1>2 DEF Live, Busy, At
<1> QED BY <1>1, <1>2 DEF Live

Whole(s) == OneObject(s) /\ Alive(s)

LEMMA LookupWhole ==
  ASSUME RegistryType, ClientsType, Ops, Kept, NEW s \in Streams, Whole(s), NEW c \in Clients, LookupCall(c)
  PROVE  Whole(s)'
<1>1. PICK t \in Streams, op \in {"use", "delete", "push"}, d \in Drives \cup {NoDrive} : Lookup(c, op, t, d)
  BY DEF LookupCall
<1>2. /\ Others(c) /\ client'[c].pc = "found" /\ client'[c].stream = t /\ At(c, "idle")
      /\ client'[c].worker = Entry(device_session_index[t])
  BY <1>1, LooksUp DEF ClientsType
<1>3. /\ EntriesGrow /\ UNCHANGED <<device_session_index, io_workers>>
  BY <1>1, LookupGrows DEF Lookup
<1>4. OldMaps(s) /\ OldHome(s)
  BY <1>3, HomeStays DEF OldMaps
<1>5. t = s => OldHands(c, s)
  <2> SUFFICES ASSUME t = s, Entry(device_session_index[s]) \in Workers
               PROVE  Seen(s, io_workers[Entry(device_session_index[s])][s])
    BY <1>2, <1>3 DEF OldHands
  <2>1. device_session_index[s] # NoDrive /\ Entry(device_session_index[s]) = HomeOf(s)
    BY <1>1, Constants DEF Lookup, Entry, HomeOf
  <2> QED BY <2>1 DEF Seen, Reach
<1>6. OneObject(s)'
  BY <1>2, <1>3, <1>4, <1>5, ReachesNoMore DEF Whole, Others, Busy
<1>7. Alive(s)'
  <2> SUFFICES ASSUME NEW o \in Objects, NEW b \in Clients, b \in Busy("push", s)', At(b, "remove")',
                      client'[b].object = o
               PROVE  Live(o, s)'
    BY DEF Alive
  <2>1. client'[b] = client[b] /\ b \in Busy("push", s)
    BY <1>2 DEF Others, At, Busy
  <2>2. Live(o, s)
    BY <2>1 DEF Whole, Alive, At
  <2>3. \A e \in Busy("push", s) : At(e, "push") => client'[e] = client[e]
    BY <1>2 DEF Others, At, Busy
  <2> QED BY <1>3, <2>2, <2>3, LiveStays
<1> QED BY <1>6, <1>7 DEF Whole

LEMMA ExclusiveWhole ==
  ASSUME RegistryType, ClientsType, NEW s \in Streams, NEW c \in Clients, ExclusiveCall(c)
  PROVE  Whole(s)'
<1>1. UNCHANGED client /\ \A b \in Clients : client[b].pc \notin {"found", "remove", "push", "index"}
  BY DEF ExclusiveCall, AddDevice, DeleteDevice, AddSession, Exclusive, Holding
<1>2. \A o \in Objects : Reach(s, o)' => o = io_workers'[HomeOf(s)'][s]
  BY <1>1 DEF Reach, At, Busy
<1>3. OneObject(s)'
  BY <1>2 DEF OneObject
<1> QED BY <1>1, <1>3 DEF Whole, Alive, At, Busy

LEMMA InLookupWhole ==
  ASSUME RegistryType, ClientsType, Ops, Kept, NEW s \in Streams \ crossed, Whole(s),
         NEW c \in Clients, InLookup(c), undefined' # "null"
  PROVE  Whole(s)'
<1> USE DEF registryVars
<1> DEFINE t == client[c].stream
           d == client[c].drive
           w == client[c].worker
<1>1. /\ EntriesGrow /\ Others(c) /\ t \in Streams /\ ClientHolds(c) /\ OpOf(c)
  BY InLookupGrows, InLookupMoves DEF ClientsType, Ops
\* The maps.
<1>2. CASE PushStream(c)
  <2>1. /\ At(c, "push") /\ archive_workers[d] \in Workers /\ d \in Keys
        /\ io_workers' = [io_workers EXCEPT ![archive_workers[d]][t] = client[c].object]
        /\ client'[c].pc = "index" /\ Same(c) /\ client[c].op = "push" /\ UNCHANGED device_session_index
    BY <1>1, <1>2, GoesTo, Constants DEF PushStream, UsesNull, OpOf, At, ClientHolds, LookupUnchanged, ClientsType
  <2>2. \A v \in Workers : io_workers'[v][s] =
                             IF t = s /\ v = archive_workers[d] THEN client[c].object ELSE io_workers[v][s]
    BY <1>1, <2>1 DEF RegistryType
  <2>3. t = s => c \in Busy("push", s) /\ Reach(s, client[c].object)
    BY <2>1 DEF Reach, Busy, At
  <2>4. OldMaps(s) /\ OldHome(s)
    BY <1>1, <2>1, <2>2, <2>3, HomeStays DEF OldMaps, Seen
  <2>5. t = s => OldHands(c, s)
    BY <1>1, <2>1, <2>2, <2>3 DEF OldHands, Seen, Same, EntriesGrow
  <2>6. OneObject(s)'
    BY <1>1, <2>1, <2>4, <2>5, ReachesNoMore DEF Whole, Others, Busy, Same
  <2>7. ASSUME NEW o \in Objects, NEW b \in Clients, b \in Busy("push", s)', At(b, "remove")', client'[b].object = o
        PROVE  Live(o, s)'
    <3>1. b # c /\ client'[b] = client[b] /\ b \in Busy("push", s)
      BY <1>1, <2>1, <2>7 DEF Others, At, Busy
    <3>2. Live(o, s) /\ Reach(s, o)
      BY <2>7, <3>1 DEF Whole, Alive, At, Reach
    <3>3. CASE t = s
      <4>1. o = client[c].object
        BY <2>1, <2>3, <3>2, <3>3 DEF Whole, OneObject, Kept, At
      <4> QED BY <1>1, <2>1, <2>2, <3>3, <4>1 DEF Live, EntriesGrow
    <3>4. CASE t # s
      BY <1>1, <2>2, <3>2, <3>4, LiveStays DEF Others, Busy
    <3> QED BY <3>3, <3>4
  <2> QED BY <2>6, <2>7 DEF Whole, Alive
<1>3. CASE RemoveIOWorker(c)
  <2>1. /\ At(c, "remove") /\ w \in Workers /\ io_workers' = [io_workers EXCEPT ![w][t] = None]
        /\ client'[c].pc = "push" /\ Same(c) /\ client'[c].object = client[c].object
        /\ client[c].op = "push" /\ UNCHANGED registryVars
    BY <1>1, <1>3, GoesTo DEF RemoveIOWorker, RemovedFrom, OpOf, At, ClientHolds, ClientsType
  <2>2. \A v \in Workers : io_workers'[v][s] = IF t = s /\ v = w THEN None ELSE io_workers[v][s]
    BY <1>1, <2>1 DEF RegistryType
  <2>3. t = s => c \in Busy("push", s) /\ Reach(s, client[c].object)
    BY <2>1 DEF Reach, Busy, At
  <2>4. OldMaps(s) /\ OldHome(s)
    BY <1>1, <2>1, <2>2, HomeStays DEF OldMaps, Seen
  <2>5. t = s => OldHands(c, s)
    BY <2>1, <2>3 DEF OldHands, Seen
  <2>6. OneObject(s)'
    BY <1>1, <2>1, <2>4, <2>5, ReachesNoMore DEF Whole, Others, Busy, Same
  <2>7. ASSUME NEW o \in Objects, NEW b \in Clients, b \in Busy("push", s)', At(b, "remove")', client'[b].object = o
        PROVE  Live(o, s)'
    <3>1. b # c /\ client'[b] = client[b] /\ b \in Busy("push", s)
      BY <1>1, <2>1, <2>7 DEF Others, At, Busy
    <3>2. Live(o, s) /\ Reach(s, o)
      BY <2>7, <3>1 DEF Whole, Alive, At, Reach
    <3>3. CASE t = s
      <4>1. o = client[c].object
        BY <2>1, <2>3, <3>2, <3>3 DEF Whole, OneObject, Kept, At
      <4> QED BY <2>1, <2>3, <3>3, <4>1 DEF Live, Busy, Same, At
    <3>4. CASE t # s
      BY <1>1, <2>2, <3>2, <3>4, LiveStays DEF Others, Busy
    <3> QED BY <3>3, <3>4
  <2> QED BY <2>6, <2>7 DEF Whole, Alive
<1>4. CASE CallWorker(c)
  <2>1. /\ At(c, "call") /\ w \in Workers /\ client'[c].op = "none" /\ UNCHANGED registryVars
        /\ io_workers' = IF client[c].op = "delete" THEN [io_workers EXCEPT ![w][t] = None] ELSE io_workers
    BY <1>1, <1>4, ReturnsIdle DEF CallWorker, At, ClientHolds, ClientsType
  <2>2. \A v \in Workers : io_workers'[v][s] =
                             IF t = s /\ v = w /\ client[c].op = "delete" THEN None ELSE io_workers[v][s]
    BY <1>1, <2>1 DEF RegistryType
  <2>3. OldMaps(s) /\ OldHome(s)
    BY <1>1, <2>1, <2>2, HomeStays DEF OldMaps, Seen
  <2>4. OneObject(s)'
    BY <1>1, <2>1, <2>3, ReachesNoMore DEF Whole, Others, Busy
  <2>5. ASSUME NEW o \in Objects, NEW b \in Clients, b \in Busy("push", s)', At(b, "remove")', client'[b].object = o
        PROVE  Live(o, s)'
    <3>1. b # c /\ client'[b] = client[b] /\ b \in Busy("push", s)
      BY <1>1, <2>1, <2>5 DEF Others, Busy
    <3>2. Live(o, s)
      BY <2>5, <3>1 DEF Whole, Alive, At
    <3>3. ~(t = s /\ client[c].op = "delete")
      BY <3>1 DEF Kept, Busy
    <3> QED BY <1>1, <2>1, <2>2, <3>2, <3>3, LiveStays DEF Others, Busy, At
  <2> QED BY <2>4, <2>5 DEF Whole, Alive
<1>5. CASE CheckWorkerDrive(c)
  <2>1. /\ At(c, "found") /\ w \in Workers /\ client[c].op = "push" /\ Same(c) /\ io_workers' = io_workers
        /\ \/ client'[c].pc = "call"
           \/ client'[c].pc = "remove" /\ client'[c].worker = w /\ client'[c].object = io_workers[w][t]
    <3>1. w # Null
      BY <1>5 DEF CheckWorkerDrive, UsesNull
    <3> QED BY <1>5, <3>1, Checks DEF CheckWorkerDrive, LookupUnchanged
  <2>2. OldMaps(s)
    BY <2>1 DEF OldMaps
  <2>3. OldHome(s)
    <3>1. CASE device_session_index'[s] = device_session_index[s]
      BY <1>1, <2>2, <3>1, HomeStays
    <3>2. CASE device_session_index'[s] = EmptyDrive
      BY <1>1, <3>2, Constants DEF OldHome, HomeOf, EntriesGrow, Kept
    <3> QED BY <1>1, <1>5, <3>1, <3>2 DEF CheckWorkerDrive, RegistryType
  <2>4. t = s => OldHands(c, s)
    BY <2>1 DEF OldHands, Seen, Reach, Busy, At
  <2>5. OneObject(s)'
    BY <1>1, <2>1, <2>2, <2>3, <2>4, ReachesNoMore DEF Whole, Others, Busy, Same
  <2>6. ASSUME NEW o \in Objects, NEW b \in Clients, b \in Busy("push", s)', At(b, "remove")', client'[b].object = o
        PROVE  Live(o, s)'
    <3>1. CASE b = c
      <4>1. t = s /\ o = io_workers[w][s] /\ w \in Registered
        BY <2>1, <2>6, <3>1 DEF Busy, At, Same, Kept
      <4>2. PICK k \in Keys : archive_workers[k] = w
        BY <4>1 DEF Registered
      <4> QED BY <1>1, <2>1, <4>1, <4>2 DEF Live, EntriesGrow
    <3>2. CASE b # c
      <4>1. Live(o, s)
        BY <1>1, <2>6, <3>2 DEF Whole, Alive, At, Others, Busy
      <4> QED BY <1>1, <2>1, <4>1, LiveStays DEF Others, Busy, At
    <3> QED BY <3>1, <3>2
  <2> QED BY <2>5, <2>6 DEF Whole, Alive
<1>6. CASE UseFound(c) \/ PushFound(c) \/ DeleteFound(c) \/ SetIndex(c)
  <2>1. /\ io_workers' = io_workers /\ client[c].pc \in {"found", "index"}
        /\ client'[c].op = "none" \/ (client'[c].pc = "call" /\ Same(c))
    BY <1>1, <1>6, UnlocksTo, Indexes
       DEF UseFound, PushFound, DeleteFound, SetIndex, LookupUnchanged, At, ClientsType
  <2>2. OldMaps(s)
    BY <2>1 DEF OldMaps
  <2>3. OldHome(s)
    <3>1. CASE device_session_index'[s] = device_session_index[s]
      BY <1>1, <2>2, <3>1, HomeStays
    <3>2. CASE DeleteFound(c) /\ t = s
      BY <1>1, <3>2 DEF DeleteFound, OldHome, RegistryType
    <3>3. CASE SetIndex(c) /\ t = s
      <4>1. device_session_index'[s] = d /\ d \in Keys /\ c \in Busy("push", s) /\ At(c, "index")
            /\ archive_workers[d] \in Workers
        BY <1>1, <3>3, Constants DEF SetIndex, Indexed, RegistryType, OpOf, ClientHolds, At, Busy
      <4>2. Reach(s, io_workers[archive_workers[d]][s])
        BY <4>1 DEF Reach
      <4> QED BY <1>1, <2>1, <4>1, <4>2 DEF OldHome, HomeOf, Seen, EntriesGrow
    <3>4. device_session_index'[s] = device_session_index[s] \/ (t = s /\ (DeleteFound(c) \/ SetIndex(c)))
      BY <1>1, <1>6 DEF UseFound, PushFound, DeleteFound, SetIndex, Indexed, RegistryType
    <3> QED BY <3>1, <3>2, <3>3, <3>4
  <2>4. t = s => client'[c].op = "none" \/ OldHands(c, s)
    BY <2>1 DEF OldHands
  <2>5. OneObject(s)'
    BY <1>1, <2>1, <2>2, <2>3, <2>4, ReachesNoMore DEF Whole, Others, Busy, Same
  <2>6. ASSUME NEW o \in Objects, NEW b \in Clients, b \in Busy("push", s)', At(b, "remove")', client'[b].object = o
        PROVE  Live(o, s)'
    <3>1. b # c
      BY <2>1, <2>6 DEF Busy, At
    <3>2. Live(o, s)
      BY <1>1, <2>6, <3>1 DEF Whole, Alive, At, Others, Busy
    <3> QED BY <1>1, <2>1, <3>2, LiveStays DEF Others, Busy, At
  <2> QED BY <2>5, <2>6 DEF Whole, Alive
<1> QED BY <1>2, <1>3, <1>4, <1>5, <1>6 DEF InLookup

LEMMA StepObjected ==
  ASSUME RegistryType, ClientsType, Ops, Kept, Objected, [Next]_vars, undefined' # "null"
  PROVE  Objected'
<1> SUFFICES ASSUME NEW s \in Streams \ crossed' PROVE Whole(s)'
  BY DEF Objected, Whole
<1> USE DEF registryVars
<1>1. ASSUME crossed \subseteq crossed' PROVE Whole(s)
  BY <1>1 DEF Objected, Whole
<1>2. ASSUME Whole(s), UNCHANGED <<archive_workers, device_session_index, io_workers>>,
             \A c \in Clients : client'[c] = client[c] \/ client'[c].op \in {"none", "path"},
             \A c \in Clients : client'[c] = client[c] \/ client[c].op \in {"none", "path"}
      PROVE  Whole(s)'
  <2>1. EntriesGrow /\ OldMaps(s)
    BY <1>2 DEF EntriesGrow, OldMaps
  <2>2. OneObject(s)'
    BY <1>2, <2>1, HomeStays, ReachesNoMore DEF Whole, Busy
  <2>3. ASSUME NEW o \in Objects, NEW b \in Clients, b \in Busy("push", s)', At(b, "remove")', client'[b].object = o
        PROVE  Live(o, s)'
    <3>1. Live(o, s)
      BY <1>2, <2>3 DEF Whole, Alive, At, Busy
    <3> QED BY <1>2, <2>1, <3>1, LiveStays DEF Busy
  <2> QED BY <2>2, <2>3 DEF Whole, Alive
<1>3. CASE UNCHANGED vars
  BY <1>1, <1>2, <1>3 DEF vars
<1>4. CASE CallbackUnchanged
  BY <1>1, <1>2, <1>4 DEF CallbackUnchanged
<1>5. ASSUME NEW c \in Clients, ExclusiveCall(c) PROVE Whole(s)'
  BY <1>5, ExclusiveWhole
<1>6. ASSUME NEW c \in Clients, LookupCall(c) PROVE Whole(s)'
  <2>1. Whole(s)
    BY <1>1, <1>6 DEF LookupCall, Lookup
  <2> QED BY <1>6, <2>1, LookupWhole
<1>7. ASSUME NEW c \in Clients, InLookup(c) PROVE Whole(s)'
  <2>1. crossed' = crossed
    BY <1>7 DEF InLookup, UseFound, DeleteFound, PushFound, CheckWorkerDrive, RemoveIOWorker, PushStream, SetIndex,
                CallWorker, LookupUnchanged
  <2> QED BY <1>1, <1>7, <2>1, InLookupWhole
<1>8. ASSUME NEW c \in Clients, SetSavePath(c) \/ PathStep(c) PROVE Whole(s)'
  <2>1. UNCHANGED <<archive_workers, device_session_index, io_workers, crossed>>
    BY <1>8 DEF SetSavePath, PathStep, LockPath, VisitWorker, PathSet, LookupUnchanged
  <2> QED BY <1>1, <1>2, <1>8, <2>1, VisitsPaths DEF Others, Ops, OpOf, At, ClientsType
<1>9. ASSUME NEW c \in Clients, GetSaveStatus(c) PROVE Whole(s)'
  BY <1>1, <1>2, <1>9 DEF GetSaveStatus
<1> QED BY <1>3, <1>4, <1>5, <1>6, <1>7, <1>8, <1>9, Steps

(***************************************************************************)
(* One path.                                                               *)
(***************************************************************************)
PathsRight == OneSetting /\ Mapped /\ OnTheMove
PathsStill == \A c \in Clients : client'[c] = client[c] \/ ("path" \notin {client[c].op, client'[c].op})

LEMMA StillSetting ==
  ASSUME ClientsType, Ops, Ops', PathsStill, save_path_' = save_path_
  PROVE  /\ Setting' = Setting /\ Visiting' = Visiting /\ \A k \in Keys : Done(k)' = Done(k)
         /\ OneSetting => OneSetting'
<1>1. \A c \in Clients : /\ client[c].op = "path" <=> client'[c].op = "path"
                         /\ client[c].op = "path" => client'[c] = client[c]
                         /\ At(c, "visit") => client[c].op = "path"
                         /\ At(c, "visit")' => client'[c].op = "path"
  BY DEF PathsStill, Ops, OpOf, At
<1>2. Setting' = Setting
  BY <1>1 DEF Setting
<1>3. \A c \in Clients : At(c, "visit")' <=> At(c, "visit")
  BY <1>1 DEF At
<1>4. \A c \in Clients : At(c, "visit") => client'[c] = client[c]
  BY <1>1
<1>5. Visiting' = Visiting
  BY <1>3 DEF Visiting
<1>6. \A k \in Keys : Done(k)' = Done(k)
  BY <1>2, <1>3, <1>4 DEF Done
<1>7. OneSetting => OneSetting'
  BY <1>1, <1>2 DEF OneSetting, Setting
<1> QED BY <1>2, <1>5, <1>6, <1>7

\* A step that sets no path, and moves no IOWorker that is not settled.
LEMMA PathsStay ==
  ASSUME ClientsType, Ops, Ops', PathsRight, PathsStill, EntriesGrow,
         UNCHANGED <<save_path_, workerPath, ioPath>>, unsettled \subseteq unsettled', crossed \subseteq crossed',
         \A k \in Keys, s \in Streams \ crossed' :
           archive_workers[k] \in Workers /\ Done(k) =>
             \/ io_workers'[archive_workers[k]][s] = io_workers[archive_workers[k]][s]
             \/ Settled(io_workers'[archive_workers[k]][s])
             \/ io_workers'[archive_workers[k]][s] \in unsettled',
         \A c \in Clients :
           At(c, "push")' /\ client'[c].stream \notin crossed' /\ client'[c].object \notin unsettled' =>
             \/ client'[c] = client[c]
             \/ ~Visiting /\ (Setting = {} => ioPath[client'[c].object] = save_path_)
  PROVE  PathsRight'
<1>1. /\ Setting' = Setting /\ Visiting' = Visiting /\ (\A k \in Keys : Done(k)' = Done(k)) /\ OneSetting'
  BY StillSetting DEF PathsRight
<1>2. Mapped'
  <2> SUFFICES ASSUME NEW k \in Keys, archive_workers'[k] \in Workers, Done(k)
               PROVE  /\ workerPath[archive_workers'[k]] = save_path_
                      /\ \A s \in Streams \ crossed' :
                           \/ io_workers'[archive_workers'[k]][s] \in {None} \cup unsettled'
                           \/ ioPath[io_workers'[archive_workers'[k]][s]] = save_path_
    BY <1>1 DEF Mapped, Settled
  <2>1. archive_workers'[k] = archive_workers[k]
    BY DEF EntriesGrow
  <2> QED BY <2>1 DEF PathsRight, Mapped, Settled
<1>3. OnTheMove'
  <2> SUFFICES ASSUME NEW c \in Clients, At(c, "push")', client'[c].stream \notin crossed',
                      client'[c].object \notin unsettled'
               PROVE  ~Visiting /\ (Setting = {} => ioPath[client'[c].object] = save_path_)
    BY <1>1 DEF OnTheMove
  <2> QED BY DEF PathsRight, OnTheMove, At
<1> QED BY <1>1, <1>2, <1>3 DEF PathsRight

LEMMA ExclusivePaths ==
  ASSUME RegistryType, PathType, ClientsType, Apart, Ops, PathsRight, NEW c \in Clients, ExclusiveCall(c),
         undefined' # "null"
  PROVE  PathsRight'
<1> USE DEF pathVars
<1>1. PICK d \in Drives : AddDevice(c, d) \/ DeleteDevice(c, d) \/ \E t \in Streams : AddSession(c, d, t)
  BY DEF ExclusiveCall
<1>2. d \in Keys
  BY Constants
<1>3. /\ UNCHANGED <<client, save_path_, unsettled>> /\ crossed \subseteq crossed'
      /\ \A b \in Clients : client[b].pc \notin {"push", "visit"}
  BY <1>1 DEF AddDevice, DeleteDevice, AddSession, Exclusive, Holding
<1>4. Setting' = Setting /\ OneSetting' /\ OnTheMove' /\ \A k \in Keys : Done(k)' = (Setting = {}) /\ Done(k) = (Setting = {})
  <2>1. Setting' = Setting
    BY <1>3 DEF Setting
  <2>2. OneSetting'
    BY <1>3, <2>1 DEF PathsRight, OneSetting
  <2>3. OnTheMove'
    BY <1>3 DEF OnTheMove, At
  <2>4. \A k \in Keys : Done(k)' = (Setting = {}) /\ Done(k) = (Setting = {})
    BY <1>3, <2>1 DEF Done, At
  <2> QED BY <2>1, <2>2, <2>3, <2>4
<1>5. SUFFICES ASSUME Setting = {}, NEW k \in Keys, archive_workers'[k] \in Workers
               PROVE  /\ workerPath'[archive_workers'[k]] = save_path_
                      /\ \A s \in Streams \ crossed' : Settled(io_workers[archive_workers[k]][s])'
  BY <1>3, <1>4 DEF PathsRight, Mapped
<1>6. ASSUME archive_workers[k] \in Workers
      PROVE  /\ workerPath[archive_workers[k]] = save_path_
             /\ \A s \in Streams \ crossed' : Settled(io_workers[archive_workers[k]][s])
  BY <1>3, <1>4, <1>5, <1>6 DEF PathsRight, Mapped
<1>7. CASE AddDevice(c, d)
  <2>1. /\ workers' = workers + 1 /\ archive_workers' = [archive_workers EXCEPT ![d] = workers + 1]
        /\ workerPath' = [workerPath EXCEPT ![workers + 1] = save_path_] /\ io_workers' = io_workers
        /\ ioPath' = [i \in Objects |-> ioPath[i]]
    BY <1>7 DEF AddDevice, SetPaths
  <2>2. ioPath' = ioPath
    BY <2>1 DEF PathType
  <2>3. workers \in Int /\ \A v \in Workers : v \in Int
    BY ConstantsAssumption DEF RegistryType, Workers
  <2>4. CASE k = d
    <3>1. archive_workers'[k] = workers + 1 /\ workers + 1 \in Workers
      BY <1>2, <1>5, <2>1, <2>4 DEF RegistryType
    <3>2. \A s \in Streams : io_workers'[workers + 1][s] = None
      BY <2>1, <2>3, <3>1 DEF Apart
    <3> QED BY <2>1, <3>1, <3>2 DEF Settled, PathType
  <2>5. CASE k # d
    <3>1. archive_workers'[k] = archive_workers[k]
      BY <1>5, <2>1, <2>5 DEF RegistryType
    <3>2. archive_workers[k] # workers + 1
      BY <1>5, <2>3, <3>1 DEF Apart
    <3> QED BY <1>3, <1>5, <1>6, <2>1, <2>2, <3>1, <3>2 DEF Settled, PathType
  <2> QED BY <2>4, <2>5
<1>8. CASE DeleteDevice(c, d)
  <2>1. archive_workers' = [archive_workers EXCEPT ![d] = None] /\ UNCHANGED <<io_workers, workerPath, ioPath>>
    BY <1>8 DEF DeleteDevice
  <2>2. archive_workers'[k] = archive_workers[k]
    BY <1>5, <2>1, Constants DEF RegistryType
  <2> QED BY <1>3, <1>5, <1>6, <2>1, <2>2 DEF Settled
<1>9. ASSUME NEW t \in Streams, AddSession(c, d, t)
      PROVE  /\ workerPath'[archive_workers'[k]] = save_path_
             /\ \A s \in Streams \ crossed' : Settled(io_workers[archive_workers[k]][s])'
  <2> DEFINE v == archive_workers[d]
  <2>1. v \in Workers /\ AddStream(v, t) /\ UNCHANGED <<archive_workers, workerPath>>
    BY <1>9 DEF AddSession, UsesNull
  <2>2. workerPath[v] = save_path_
    BY <1>2, <1>4, <1>5, <2>1 DEF PathsRight, Mapped
  <2>3. \A i \in Objects : ioPath'[i] \in {ioPath[i], save_path_}
    BY <2>1, <2>2 DEF AddStream, PathType
  <2>4. \A w \in Workers, s \in Streams : Settled(io_workers[w][s]) => Settled(io_workers[w][s])'
    <3>1. CASE UNCHANGED <<io_workers, ioPath>>
      BY <1>3, <3>1 DEF Settled
    <3>2. CASE objects < MaxObjects /\ objects' = objects + 1 /\ io_workers' = [io_workers EXCEPT ![v][t] = objects']
               /\ ioPath' = [ioPath EXCEPT ![objects'] = save_path_]
      <4>1. objects' \in Objects
        BY <3>2, ConstantsAssumption DEF RegistryType, Objects
      <4>2. ioPath'[objects'] = save_path_
        BY <3>2, <4>1 DEF PathType
      <4>3. \A w \in Workers, s \in Streams : io_workers'[w][s] = IF w = v /\ s = t THEN objects' ELSE io_workers[w][s]
        BY <2>1, <3>2 DEF RegistryType
      <4>4. \A w \in Workers, s \in Streams : io_workers[w][s] \in Objects \cup {None}
        BY DEF RegistryType
      <4> QED BY <1>3, <2>3, <4>2, <4>3, <4>4 DEF Settled
    <3> QED BY <2>1, <2>2, <3>1, <3>2 DEF AddStream
  <2> QED BY <1>5, <1>6, <2>1, <2>4
<1> QED BY <1>1, <1>7, <1>8, <1>9

LEMMA InLookupPaths ==
  ASSUME RegistryType, ClientsType, Ops, Ops', Kept, Objected, PathsRight, NEW c \in Clients, InLookup(c),
         undefined' # "null"
  PROVE  PathsRight'
<1> USE DEF pathVars, registryVars
<1> DEFINE t == client[c].stream
           d == client[c].drive
           w == client[c].worker
<1>1. EntriesGrow /\ Others(c) /\ t \in Streams /\ ClientHolds(c) /\ OpOf(c)
  BY InLookupGrows, InLookupMoves DEF ClientsType, Ops
<1>2. PathsStill
  <2>1. client[c].op # "path" /\ client'[c].op # "path"
    BY InLookupMoves DEF Ops, OpOf, Same, At
  <2> QED BY <1>1, <2>1 DEF PathsStill, Others
<1>3. UNCHANGED <<save_path_, workerPath, ioPath, crossed>> /\ unsettled \subseteq unsettled'
  BY DEF InLookup, UseFound, DeleteFound, PushFound, CheckWorkerDrive, RemoveIOWorker, PushStream, SetIndex,
         CallWorker, LookupUnchanged
<1>4. CASE RemoveIOWorker(c)
  <2>1. /\ At(c, "remove") /\ w \in Workers /\ io_workers' = [io_workers EXCEPT ![w][t] = None]
        /\ client'[c].pc = "push" /\ Same(c) /\ client'[c].object = client[c].object
        /\ c \in Busy("push", t) /\ client[c].object \in Objects
        /\ Visiting => client[c].object \in unsettled'
    BY <1>1, <1>4, GoesTo DEF RemoveIOWorker, RemovedFrom, OpOf, At, ClientHolds, ClientsType, Kept, Busy, Visiting
  <2>2. \A v \in Workers, s \in Streams : io_workers'[v][s] \in {None, io_workers[v][s]}
    BY <1>1, <2>1 DEF RegistryType
  <2>3. t \notin crossed /\ client[c].object \notin unsettled' =>
          ~Visiting /\ (Setting = {} => ioPath[client[c].object] = save_path_)
    <3> SUFFICES ASSUME t \notin crossed, client[c].object \notin unsettled', Setting = {}
                 PROVE  ioPath[client[c].object] = save_path_
      BY <2>1
    <3>1. Live(client[c].object, t)
      BY <1>1, <2>1 DEF Objected, Alive
    <3>2. CASE \E k \in Keys : archive_workers[k] \in Workers /\ io_workers[archive_workers[k]][t] = client[c].object
      BY <1>1, <1>3, <2>1, <3>2, Constants DEF PathsRight, Mapped, Done, Settled
    <3>3. CASE \E b \in Busy("push", t) : At(b, "push") /\ client[b].object = client[c].object
      BY <1>3, <2>1, <3>3 DEF PathsRight, OnTheMove, Busy
    <3> QED BY <3>1, <3>2, <3>3 DEF Live
  <2>4. \A v \in Workers, s \in Streams : io_workers'[v][s] = io_workers[v][s] \/ Settled(io_workers'[v][s])
    BY <2>2 DEF Settled
  <2> QED BY <1>1, <1>2, <1>3, <2>1, <2>3, <2>4, PathsStay DEF Others, Same
<1>5. CASE PushStream(c)
  <2>1. /\ At(c, "push") /\ archive_workers[d] \in Workers /\ d \in Keys /\ client'[c].pc = "index"
        /\ io_workers' = [io_workers EXCEPT ![archive_workers[d]][t] = client[c].object]
    BY <1>1, <1>5, GoesTo, Constants DEF PushStream, UsesNull, At, ClientHolds, ClientsType
  <2>2. \A v \in Workers, s \in Streams : io_workers'[v][s] =
                                           IF v = archive_workers[d] /\ s = t THEN client[c].object ELSE io_workers[v][s]
    BY <1>1, <2>1 DEF RegistryType
  <2>3. ASSUME NEW k \in Keys, Done(k), t \notin crossed
        PROVE  Settled(client[c].object) \/ client[c].object \in unsettled'
    <3>1. CASE client[c].object \in unsettled
      BY <3>1 DEF Settled
    <3>2. CASE ~Visiting /\ (Setting = {} => ioPath[client[c].object] = save_path_)
      BY <2>3, <3>2 DEF Done, Visiting, Settled
    <3> QED BY <2>1, <2>3, <3>1, <3>2 DEF PathsRight, OnTheMove
  <2>4. \A k \in Keys, s \in Streams \ crossed' :
           archive_workers[k] \in Workers /\ Done(k) =>
             \/ io_workers'[archive_workers[k]][s] = io_workers[archive_workers[k]][s]
             \/ Settled(io_workers'[archive_workers[k]][s])
             \/ io_workers'[archive_workers[k]][s] \in unsettled'
    BY <1>3, <2>2, <2>3
  <2> QED BY <1>1, <1>2, <1>3, <2>1, <2>4, PathsStay DEF Others, At
<1>6. CASE ~RemoveIOWorker(c) /\ ~PushStream(c)
  <2>1. \A v \in Workers, s \in Streams : io_workers'[v][s] \in {None, io_workers[v][s]}
    <3>1. CASE CallWorker(c)
      <4>1. w \in Workers
        BY <1>1, <3>1 DEF CallWorker, ClientHolds, At
      <4> QED BY <1>1, <3>1, <4>1 DEF CallWorker, RegistryType
    <3>2. CASE ~CallWorker(c)
      BY <1>6, <3>2 DEF InLookup, UseFound, DeleteFound, PushFound, CheckWorkerDrive, SetIndex, LookupUnchanged
    <3> QED BY <3>1, <3>2
  <2>2. \A v \in Workers, s \in Streams : io_workers'[v][s] = io_workers[v][s] \/ Settled(io_workers'[v][s])
    BY <2>1 DEF Settled
  <2>3. client'[c].pc # "push"
    BY <1>6, InLookupMoves
  <2> QED BY <1>1, <1>2, <1>3, <2>2, <2>3, PathsStay DEF Others, At
<1> QED BY <1>4, <1>5, <1>6

LEMMA SettingPaths ==
  ASSUME RegistryType, PathType, ClientsType, Ops, Ops', PathsRight, NEW c \in Clients,
         SetSavePath(c) \/ PathStep(c), undefined' # "null", ~(Objects \subseteq unsettled')
  PROVE  PathsRight'
<1> USE DEF pathVars, registryVars
<1>1. /\ Others(c) /\ client \in [Clients -> ClientType] /\ client[c].pc \in {"idle", "path", "visit"}
      /\ UNCHANGED <<archive_workers, io_workers, crossed>>
  BY VisitsPaths DEF ClientsType, SetSavePath, PathStep, LockPath, VisitWorker, PathSet, LookupUnchanged
<1>2. \A b \in Clients : /\ At(b, "visit") => b \in Setting
                         /\ At(b, "visit")' => b \in Setting'
                         /\ At(b, "path") => b \in Setting
                         /\ At(b, "idle") => b \notin Setting
  BY DEF Ops, OpOf, Setting, At
<1>3. CASE SetSavePath(c)
  <2>1. PICK path : path = save_path_'
    OBVIOUS
  <2>2. Setting = {} /\ UNCHANGED <<unsettled, workerPath, ioPath>>
        /\ client' = [client EXCEPT ![c] = [Idle EXCEPT !.pc = "path", !.op = "path", !.path = path]]
    BY <1>3, <2>1 DEF SetSavePath
  <2>3. client'[c].op = "path" /\ client'[c].pc = "path" /\ client'[c].path = path
    BY <1>1, <2>2 DEF Idle
  <2>4. Setting' = {c}
    BY <1>1, <2>2, <2>3 DEF Setting, Others
  <2>5. ~Visiting'
    BY <1>2, <2>3, <2>4 DEF Visiting, At
  <2>6. \A k \in Keys : ~Done(k)'
    BY <2>4, <2>5 DEF Done, Visiting
  <2> QED BY <2>1, <2>3, <2>4, <2>5, <2>6 DEF PathsRight, OneSetting, Mapped, OnTheMove
<1>4. ASSUME PathStep(c)
      PROVE  Setting = {c} /\ client[c].path = save_path_ /\ save_path_' = save_path_ /\ unsettled \subseteq unsettled'
  BY <1>2, <1>4 DEF PathStep, LockPath, VisitWorker, PathSet, LookupUnchanged, PathsRight, OneSetting
<1>5. CASE LockPath(c)
  <2>1. PICK todo : todo = {k \in Keys : archive_workers[k] # None}
    OBVIOUS
  <2>2. client' = [client EXCEPT ![c].pc = "visit", ![c].todo = todo] /\ At(c, "path")
        /\ unsettled' = unsettled \cup {client[b].object : b \in {e \in Clients : At(e, "push")}}
        /\ UNCHANGED <<workerPath, ioPath>>
    BY <1>5, <2>1 DEF LockPath, LookupUnchanged
  <2>3. /\ client'[c].op = client[c].op /\ client'[c].path = client[c].path /\ client'[c].todo = todo
        /\ client'[c].pc = "visit"
    BY <1>1, <2>2 DEF ClientType
  <2>4. Setting' = {c} /\ OneSetting'
    <3>1. PathStep(c)
      BY <1>5 DEF PathStep
    <3>2. Setting' = {c}
      BY <1>1, <1>4, <2>3, <3>1 DEF Setting, Others
    <3> QED BY <1>4, <2>3, <3>1, <3>2 DEF OneSetting
  <2>5. Mapped'
    <3>1. \A k \in Keys : Done(k)' => archive_workers'[k] \notin Workers
      BY <1>1, <1>2, <2>1, <2>3, <2>4, Constants DEF Done, At
    <3> QED BY <3>1 DEF Mapped
  <2>6. OnTheMove'
    BY <1>1, <2>2, <2>3 DEF OnTheMove, At, Others
  <2> QED BY <2>4, <2>5, <2>6 DEF PathsRight
<1>6. ASSUME NEW k \in Keys, VisitWorker(c, k)
      PROVE  PathsRight'
  <2> DEFINE v == archive_workers[k]
  <2>1. /\ client' = [client EXCEPT ![c].todo = @ \ {k}] /\ At(c, "visit") /\ unsettled' = unsettled
        /\ SetPaths(v, Visited(v), client[c].path) /\ Setting = {c} /\ client[c].path = save_path_
        /\ save_path_' = save_path_
    BY <1>4, <1>6 DEF VisitWorker, UsesNull, PathStep
  <2>2. /\ client'[c].op = client[c].op /\ client'[c].path = client[c].path /\ client'[c].pc = "visit"
        /\ client'[c].todo = client[c].todo \ {k}
    BY <1>1, <2>1 DEF ClientType, At
  <2>3. Setting' = {c} /\ OneSetting'
    <3>1. Setting' = {c}
      BY <1>1, <2>1, <2>2 DEF Setting, Others
    <3> QED BY <2>1, <2>2, <3>1 DEF OneSetting
  <2>4. /\ \A u \in Workers : workerPath'[u] = IF u = v THEN save_path_ ELSE workerPath[u]
        /\ \A o \in Objects : ioPath'[o] = IF o \in InMap(v) THEN save_path_ ELSE ioPath[o]
    BY <2>1 DEF SetPaths, Visited, PathType
  <2>5. \A w \in Workers, s \in Streams : io_workers[w][s] \in Objects \cup {None}
    BY DEF RegistryType
  <2>6. Mapped'
    <3> SUFFICES ASSUME NEW j \in Keys, archive_workers[j] \in Workers, Done(j)'
                 PROVE  /\ workerPath'[archive_workers[j]] = save_path_
                        /\ \A s \in Streams \ crossed : Settled(io_workers[archive_workers[j]][s])'
      BY <1>1, <2>1 DEF Mapped
    <3>1. j = k \/ Done(j)
      BY <1>2, <2>1, <2>2, <2>3 DEF Done, At
    <3>2. CASE j = k
      <4>1. \A s \in Streams : io_workers[v][s] # None => io_workers[v][s] \in InMap(v)
        BY DEF InMap
      <4> QED BY <1>1, <2>1, <2>4, <2>5, <3>2, <4>1 DEF Settled
    <3>3. CASE Done(j)
      <4>1. workerPath[archive_workers[j]] = save_path_
            /\ \A s \in Streams \ crossed : Settled(io_workers[archive_workers[j]][s])
        BY <3>3 DEF PathsRight, Mapped
      <4> QED BY <1>1, <2>1, <2>4, <2>5, <4>1 DEF Settled
    <3> QED BY <3>1, <3>2, <3>3
  <2>7. OnTheMove'
    <3>1. Visiting
      BY <2>1 DEF Visiting
    <3> QED BY <1>1, <2>1, <2>2, <3>1 DEF PathsRight, OnTheMove, At, Others
  <2> QED BY <2>3, <2>6, <2>7 DEF PathsRight
<1>7. CASE PathSet(c)
  <2>1. /\ At(c, "visit") /\ client[c].todo = {} /\ client'[c].op = "none" /\ client'[c].pc = "idle"
        /\ UNCHANGED <<unsettled, workerPath, ioPath>> /\ Setting = {c} /\ save_path_' = save_path_
    BY <1>1, <1>4, <1>7, ReturnsIdle DEF PathSet, LookupUnchanged, PathStep
  <2>2. Setting' = {}
    BY <1>1, <2>1 DEF Setting, Others
  <2>3. Mapped'
    <3>1. \A k \in Keys : Done(k)
      BY <2>1 DEF Done
    <3> QED BY <1>1, <2>1, <3>1 DEF PathsRight, Mapped, Settled
  <2>4. OnTheMove'
    <3>1. Visiting
      BY <2>1 DEF Visiting
    <3> QED BY <1>1, <2>1, <3>1 DEF PathsRight, OnTheMove, At, Others
  <2> QED BY <2>2, <2>3, <2>4 DEF PathsRight, OneSetting
<1> QED BY <1>3, <1>5, <1>6, <1>7 DEF PathStep

LEMMA StepPaths == TypeOK /\ Ops /\ Apart /\ PathInv /\ [Next]_vars => PathInv'
<1> SUFFICES ASSUME TypeOK, RegistryType, PathType, ClientsType, Ops, Ops', Apart, PathInv, [Next]_vars,
                    undefined' = "no"
             PROVE  /\ Kept' /\ Objected'
                    /\ ~(Objects \subseteq unsettled') => PathsRight'
  BY StepOps DEF TypeOK, RegistryType, PathType, ClientsType, PathInv, PathsRight
<1> USE DEF registryVars, pathVars, callbackVars, countVars
<1>1. undefined = "no"
  BY Steps DEF vars
<1>2. Kept /\ Objected
  BY <1>1 DEF PathInv
<1>3. Kept' /\ Objected'
  BY <1>2, StepKept, StepObjected
<1>4. ASSUME ~(Objects \subseteq unsettled')
      PROVE  PathsRight'
  <2>1. unsettled \subseteq unsettled' => PathsRight
    BY <1>1, <1>4 DEF PathInv, PathsRight
  <2>2. ASSUME UNCHANGED <<archive_workers, save_path_, workerPath, ioPath, unsettled, io_workers, client>>,
               crossed \subseteq crossed'
        PROVE  PathsRight'
    BY <2>1, <2>2, EntryGrows, PathsStay DEF PathsStill
  <2>3. CASE UNCHANGED vars
    BY <2>2, <2>3 DEF vars
  <2>4. CASE CallbackUnchanged
    BY <2>2, <2>4 DEF CallbackUnchanged
  <2>5. ASSUME NEW c \in Clients, ExclusiveCall(c) PROVE PathsRight'
    <3>1. unsettled' = unsettled
      BY <2>5 DEF ExclusiveCall, AddDevice, DeleteDevice, AddSession
    <3> QED BY <2>1, <2>5, <3>1, ExclusivePaths
  <2>6. ASSUME NEW c \in Clients, LookupCall(c) PROVE PathsRight'
    <3>1. PICK s \in Streams, op \in {"use", "delete", "push"}, d \in Drives \cup {NoDrive} : Lookup(c, op, s, d)
      BY <2>6 DEF LookupCall
    <3>2. Others(c) /\ client'[c].pc = "found" /\ client'[c].op = op /\ At(c, "idle")
      BY <3>1, LooksUp DEF ClientsType
    <3>3. PathsStill
      BY <3>2 DEF PathsStill, Ops, OpOf, Others, At
    <3>4. UNCHANGED <<save_path_, workerPath, ioPath, unsettled, io_workers>> /\ crossed \subseteq crossed'
      BY <3>1 DEF Lookup
    <3> QED BY <2>1, <2>6, <3>2, <3>3, <3>4, LookupGrows, PathsStay DEF Others, At
  <2>7. ASSUME NEW c \in Clients, InLookup(c) PROVE PathsRight'
    <3>1. unsettled \subseteq unsettled'
      BY <2>7 DEF InLookup, UseFound, DeleteFound, PushFound, CheckWorkerDrive, RemoveIOWorker, PushStream, SetIndex,
                  CallWorker, LookupUnchanged
    <3> QED BY <1>2, <2>1, <2>7, <3>1, InLookupPaths
  <2>8. ASSUME NEW c \in Clients, SetSavePath(c) \/ PathStep(c) PROVE PathsRight'
    <3>1. unsettled \subseteq unsettled'
      BY <1>4, <2>8 DEF SetSavePath, PathStep, LockPath, VisitWorker, PathSet, LookupUnchanged
    <3> QED BY <1>4, <2>1, <2>8, <3>1, SettingPaths
  <2>9. ASSUME NEW c \in Clients, GetSaveStatus(c) PROVE PathsRight'
    BY <2>2, <2>9 DEF GetSaveStatus
  <2> QED BY <2>3, <2>4, <2>5, <2>6, <2>7, <2>8, <2>9, Steps
<1> QED BY <1>3, <1>4

LEMMA InitPaths == Init => PathInv
<1> SUFFICES ASSUME Init PROVE PathInv
  OBVIOUS
<1>1. \A c \in Clients : client[c] = Idle /\ Idle.pc = "idle" /\ Idle.op = "none"
  BY DEF Init, Idle
<1>2. \A op \in {"push", "delete"} : \A s \in Streams : Busy(op, s) = {}
  BY <1>1 DEF Busy
<1>3. Setting = {}
  BY <1>1 DEF Setting
<1>4. \A k \in Keys : archive_workers[k] \notin Workers
  BY Constants DEF Init
<1>5. Kept
  BY <1>1, <1>2, <1>4, Constants DEF Kept
<1>6. Objected
  BY <1>2, Constants DEF Init, Objected, OneObject, Alive, Reach
<1>7. OneSetting /\ Mapped /\ OnTheMove
  BY <1>1, <1>3, <1>4 DEF OneSetting, Mapped, OnTheMove, At
<1> QED BY <1>5, <1>6, <1>7 DEF PathInv

LEMMA PathsHold == TypeOK /\ PathInv => PathsAgree
<1> SUFFICES ASSUME RegistryType, PathInv, undefined = "no", Setting = {}, NEW w \in Registered,
                    NEW s \in Streams \ crossed, io_workers[w][s] \notin {None} \cup unsettled
             PROVE  ioPath[io_workers[w][s]] = save_path_
  BY DEF TypeOK, RegistryType, PathsAgree
<1>1. PICK k \in Keys : archive_workers[k] = w /\ w \in Workers
  BY DEF Registered
<1>2. io_workers[w][s] \in Objects
  BY <1>1 DEF RegistryType
<1>3. Mapped /\ Done(k)
  BY <1>2 DEF PathInv, Done
<1> QED BY <1>1, <1>3 DEF Mapped, Settled

\* Whatever the drives, streams and threads: once SetSavePath has returned, every IOWorker of a
\* drive records under the new path, unless it was on the move meanwhile, two calls set the path
\* at a time, or its stream was deleted under a chunk (SetSavePath, AddDevice, AddStream).
THEOREM Paths == Spec => []PathsAgree
<1>1. Init => TypeOK /\ Ops /\ Apart /\ PathInv
  BY InitType, InitRegistry, InitPaths DEF RegistryInv
<1>2. TypeOK /\ Ops /\ Apart /\ PathInv /\ [Next]_vars => (TypeOK /\ Ops /\ Apart /\ PathInv)'
  BY StepType, StepOps, StepApart, StepPaths
<1> QED BY <1>1, <1>2, PathsHold, PTL DEF Spec
=============================================================================
