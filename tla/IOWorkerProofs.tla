--------------------------- MODULE IOWorkerProofs ---------------------------
(***************************************************************************)
(* What holds of the write pipeline for every value of its constants: the  *)
(* types, the bound of the queue, that a failure report is final, that     *)
(* every frame gets a verdict, that the file follows the drive, and that   *)
(* what was reported saved can be found: index entries lead to blocks.     *)
(***************************************************************************)
EXTENDS IOWorker, SequenceTheorems, WellFoundedInduction, TLAPS

(***************************************************************************)
(* The inductive invariant.                                                *)
(***************************************************************************)
Writing == {"write", "spill", "frame"}
Naming == {"name", "close", "open", "index"}

\* The first chunk number PushVideoChunkBuffer has not enqueued yet.
Coming == Len(pushed) + (IF push_pc \in {"driver", "push"} THEN 0 ELSE 1)

\* The chunk whose push is under way was counted when the push began.
PushInv == push_pc \in {"driver", "push"} => Len(pushed) > 0

\* The queue holds enqueued chunks, each once.
QueueInv ==
  /\ \A i \in 1..Len(media_buffers) : media_buffers[i] < Coming
  /\ \A i, j \in 1..Len(media_buffers) :
       media_buffers[i] = media_buffers[j] /\ media_buffers[i] # Flush => i = j

\* The chunk in hand is no longer queued, and the worker is inside it.
HandInv ==
  /\ cur < Coming
  /\ cur # 0 => \A i \in 1..Len(media_buffers) : media_buffers[i] # cur
  /\ pc \in Writing \cup Naming <=> cur # 0
  /\ pc \in Writing => next <= Len(pushed[cur])

\* The frames whose turn to be pending has not come.
Ahead(f) ==
  \/ f[1] >= Coming
  \/ \E i \in 1..Len(media_buffers) : media_buffers[i] = f[1]
  \/ f[1] = cur /\ (pc \in Naming \/ (pc \in Writing /\ f[2] > next))

\* They have no verdict, nobody holds them, and what is pending is not lost.
FrameInv ==
  /\ \A f \in Frames : Ahead(f) => status[f] # "lost" /\ f \notin frameInfos_ \cup overflow
  /\ \A f \in frameInfos_ : status[f] # "lost"
  /\ push_pc # "report" => overflow = {}

Inv == TypeOK /\ PushInv /\ QueueInv /\ HandInv /\ FrameInv

\* QueueBounded at every step of the pusher from the check of the queue on.
BoundInv ==
  push_pc \notin {"memory", "dio", "busy", "nomal", "check"} =>
    \/ Len(media_buffers) <= buffer_size_
    \/ /\ Len(media_buffers) = buffer_size_ + 1
       /\ media_buffers[Len(media_buffers)] = Flush

-----------------------------------------------------------------------------
\* A chunk's shape is a sequence of frames with kinds and sizes.
LEMMA ShapeType ==
  ASSUME TypeOK, NEW c \in 1..Len(pushed)
  PROVE  /\ pushed[c] \in Seq([kind : Kinds, size : Nat \ {0}])
         /\ Len(pushed[c]) \in 1..MaxFrames
         /\ c \in Chunks
<1>1. pushed \in Seq(Shapes) /\ Len(pushed) <= MaxChunks  BY DEF TypeOK, PusherType
<1>2. pushed[c] \in Shapes  BY <1>1, ElementOfSeq
<1>3. /\ pushed[c] \in Seq([kind : Kinds, size : Nat \ {0}])
      /\ Len(pushed[c]) \in 1..MaxFrames
  BY <1>2, ConstantsAssumption
<1>4. c \in Chunks
  <2>1. Len(pushed) \in Nat  BY <1>1, LenProperties
  <2> QED  BY <1>1, <2>1, ConstantsAssumption DEF Chunks
<1> QED  BY <1>3, <1>4

\* The cells of an item of a chunk form a sequence of cells, never empty.
LEMMA CellsType ==
  ASSUME TypeOK, NEW c \in 1..Len(pushed), NEW i \in 0..Len(pushed[c])
  PROVE  /\ Cells(c, i) \in Seq(Cell)
         /\ Len(Cells(c, i)) \in Nat \ {0}
<1> DEFINE n == IF i = 0 THEN 1 ELSE pushed[c][i].size
<1>1. pushed[c] \in Seq([kind : Kinds, size : Nat \ {0}])
      /\ Len(pushed[c]) \in 1..MaxFrames /\ c \in Chunks
  BY ShapeType
<1>2. n \in Nat \ {0}
  <2>1. CASE i = 0  BY <2>1
  <2>2. CASE i # 0
    <3>1. i \in 1..Len(pushed[c])  BY <1>1, <2>2
    <3>2. pushed[c][i] \in [kind : Kinds, size : Nat \ {0}]  BY <1>1, <3>1, ElementOfSeq
    <3> QED  BY <3>2, <2>2
  <2> QED  BY <2>1, <2>2
<1>3. <<c, i>> \in Cell  BY <1>1, ConstantsAssumption DEF Cell, Chunks
<1>4. Cells(c, i) = [k \in 1..n |-> <<c, i>>]  BY DEF Cells
<1> HIDE DEF n
<1>5. \A k \in 1..n : <<c, i>> \in Cell  BY <1>3
<1>6. [k \in 1..n |-> <<c, i>>] \in Seq(Cell)  BY <1>2, <1>5, IsASeq
<1>7. Len(Cells(c, i)) = n  BY <1>2, <1>4, <1>6, LenProperties
<1> QED  BY <1>2, <1>4, <1>6, <1>7

\* The chunks that stay in memory are chunks, and no more than were asked for.
LEMMA KeptType ==
  ASSUME memory_buffer_frames \in Seq(Chunks), NEW n \in Nat
  PROVE  Kept(n) \in Seq(Chunks) /\ Len(Kept(n)) <= n
<1> DEFINE len == Len(memory_buffer_frames)
<1>1. len \in Nat  BY LenProperties
<1>2. CASE len > n
  <2>1. \A i \in len - n + 1 .. len : memory_buffer_frames[i] \in Chunks
    BY <1>1, <1>2, ElementOfSeq
  <2>2. /\ SubSeq(memory_buffer_frames, len - n + 1, len) \in Seq(Chunks)
        /\ Len(SubSeq(memory_buffer_frames, len - n + 1, len)) =
             IF len - n + 1 <= len THEN len - (len - n + 1) + 1 ELSE 0
    <3> HIDE DEF len
    <3> QED  BY <1>1, <2>1, SubSeqProperties
  <2> QED  BY <1>1, <1>2, <2>2 DEF Kept
<1>3. CASE ~(len > n)  BY <1>1, <1>3 DEF Kept
<1> QED  BY <1>2, <1>3

-----------------------------------------------------------------------------
(***************************************************************************)
(* What the steps of one thread leave alone, and what they do to the       *)
(* reports.                                                                *)
(***************************************************************************)

\* The worker leaves the pusher's variables alone, and only takes change_file_ back.
LEMMA WorkerFrame ==
  ASSUME Worker
  PROVE  /\ UNCHANGED <<pushed, push_pc, pushing, overflow, save_driver_, dio_buffer_size_,
                        buffer_size_, flushes>>
         /\ change_file_' \in {change_file_, FALSE}
BY DEF Worker, ProcessBuffer, CloseSavedFile, PopBuffer, UpdateFileName, WriteFileClose,
       FileDirectOpen, WriteIndexInfo, AddFrameInfo, ChunkDone, WriteBufferToDisk, Spill,
       ProcessFlush, ProcessFlushClear, pusherVars, queueVars

\* The application's threads leave the worker and its files alone.
LEMMA PusherFrame ==
  ASSUME Pusher \/ PushFlush
  PROVE  UNCHANGED <<pc, cur, next, fail, room, writebuffer, memory_buffer_frames>>
BY DEF Pusher, PushBegin, PushDriver, PushEnqueue, MemoryCheck, MemoryCheckDio,
       SetDioBufferSize, QueueCheck, QueueCheckReport, PushFlush, workerVars, fileVars

\* A step that writes to the disk, with or without success.
DiskStep ==
  \E outcome \in Outcomes : WriteFileClose(outcome) \/ Spill(outcome) \/ ProcessFlush(outcome)

\* What WriteDiskSuccess and WriteDiskFail tell of the pending frames.
Saved == Report(frameInfos_, "saved") /\ frameInfos_' \subseteq frameInfos_
Lost == Report(frameInfos_, "lost") /\ frameInfos_' = {}

LEMMA DiskEffect ==
  ASSUME DiskStep
  PROVE  /\ UNCHANGED <<media_buffers, forgotten, cur, next>>
         /\ UNCHANGED <<status, frameInfos_>> \/ Saved \/ Lost
<1> PICK outcome \in Outcomes :
      WriteFileClose(outcome) \/ Spill(outcome) \/ ProcessFlush(outcome)
  BY DEF DiskStep
<1>1. FromLastVideo(frameInfos_) \subseteq frameInfos_  BY DEF FromLastVideo
<1>2. ASSUME NEW o, NEW written, WriteDisk(o, written)
      PROVE  UNCHANGED forgotten /\ (Saved \/ Lost)
  BY <1>1, <1>2 DEF WriteDisk, WriteDiskSuccess, WriteDiskFail, Saved, Lost
<1>3. ASSUME FileClose(outcome)
      PROVE  UNCHANGED forgotten /\ (UNCHANGED <<status, frameInfos_>> \/ Saved \/ Lost)
  BY <1>2, <1>3 DEF FileClose, reportVars
<1>4. CASE WriteFileClose(outcome)
  BY <1>3, <1>4 DEF WriteFileClose, queueVars
<1>5. CASE ProcessFlush(outcome)
  BY <1>3, <1>5 DEF ProcessFlush, queueVars
<1>6. CASE Spill(outcome)
  <2>1. UNCHANGED <<media_buffers, cur, next>>  BY <1>6 DEF Spill, queueVars
  <2>2. UNCHANGED forgotten /\ (Saved \/ Lost)
    <3> PICK cells \in 0..Roof :
          IF outcome = "ok" /\ cells < Roof
          THEN WriteDiskSuccess(Appended(DiskBlock \o SubSeq(Rest, 1, cells)))
          ELSE WriteDisk(outcome, Appended(DiskBlock \o SubSeq(Rest, 1, cells)))
      BY <1>6 DEF Spill
    <3>1. CASE outcome = "ok" /\ cells < Roof
      BY <3>1, <1>1 DEF WriteDiskSuccess, Saved
    <3>2. CASE ~(outcome = "ok" /\ cells < Roof)
      BY <3>2, <1>2
    <3> QED  BY <3>1, <3>2
  <2> QED  BY <2>1, <2>2
<1> QED  BY <1>4, <1>5, <1>6

\* A step in which the worker gives its chunk up.
LEMMA FailureEffect ==
  ASSUME NEW ok \in BOOLEAN, FileDirectOpen(ok) \/ WriteIndexInfo(ok)
  PROVE  /\ UNCHANGED media_buffers
         /\ \/ ChunkFailed /\ next' = next
            \/ /\ UNCHANGED <<status, frameInfos_, forgotten, cur>>
               /\ (pc' = "index" /\ next' = next) \/ (pc' = "write" /\ next' = 0)
<1>1. CASE FileDirectOpen(ok)
  BY <1>1 DEF FileDirectOpen, queueVars, reportVars
<1>2. CASE WriteIndexInfo(ok)
  <2>1. UNCHANGED media_buffers  BY <1>2 DEF WriteIndexInfo, queueVars
  <2>2. CASE indexer.pos + EntrySize > IndexSize
    BY <1>2, <2>1, <2>2 DEF WriteIndexInfo
  <2>3. CASE ~(indexer.pos + EntrySize > IndexSize) /\ ok
    BY <1>2, <2>1, <2>3 DEF WriteIndexInfo, reportVars
  <2>4. CASE ~(indexer.pos + EntrySize > IndexSize) /\ ~ok
    BY <1>2, <2>1, <2>4 DEF WriteIndexInfo
  <2> QED  BY <2>1, <2>2, <2>3, <2>4
<1> QED  BY <1>1, <1>2

\* PopBuffer alone takes elements off the queue on the worker's side.
LEMMA OthersKeepQueue ==
  ASSUME Worker
  PROVE  PopBuffer \/ UNCHANGED media_buffers
<1>1. ASSUME NEW ok \in BOOLEAN, FileDirectOpen(ok) \/ WriteIndexInfo(ok)
      PROVE  UNCHANGED media_buffers
  BY <1>1, FailureEffect
<1>2. CASE DiskStep  BY <1>2, DiskEffect
<1> QED
  BY <1>1, <1>2 DEF Worker, DiskStep, ProcessBuffer, CloseSavedFile, UpdateFileName, AddFrameInfo,
     ChunkDone, WriteBufferToDisk, ProcessFlushClear, queueVars

-----------------------------------------------------------------------------
(***************************************************************************)
(* Type correctness, one group of variables at a time.                     *)
(***************************************************************************)
LEMMA PusherTypeStep ==
  ASSUME Inv, [Next]_vars
  PROVE  PusherType'
<1> USE DEF Inv, TypeOK
<1>1. ASSUME NEW shape \in Shapes, NEW drive \in Drives, PushBegin(shape, drive)
      PROVE  PusherType'
  <2>1. /\ pushed' \in Seq(Shapes) /\ Len(pushed') = Len(pushed) + 1
    BY <1>1, AppendProperties DEF PushBegin, PusherType
  <2>2. Len(pushed) \in Nat  BY LenProperties DEF PusherType
  <2> QED  BY <1>1, <2>1, <2>2, ConstantsAssumption DEF PushBegin, PusherType
<1>2. CASE PushDriver  BY <1>2 DEF PushDriver, PusherType
<1>3. CASE PushEnqueue  BY <1>3 DEF PushEnqueue, PusherType
<1>4. ASSUME NEW memory \in Memory, MemoryCheck(memory) PROVE PusherType'
  BY <1>4 DEF MemoryCheck, PusherType
<1>5. CASE MemoryCheckDio  BY <1>5 DEF MemoryCheckDio, PusherType
<1>6. CASE SetDioBufferSize  BY <1>6 DEF SetDioBufferSize, PusherType
<1>7. CASE QueueCheck  BY <1>7 DEF QueueCheck, PusherType
<1>8. CASE QueueCheckReport  BY <1>8 DEF QueueCheckReport, PusherType
<1>9. CASE PushFlush  BY <1>9 DEF PushFlush, PusherType, pusherVars
<1>10. CASE Worker  BY <1>10, WorkerFrame DEF PusherType
<1>11. CASE UNCHANGED vars  BY <1>11 DEF vars, pusherVars, PusherType
<1> QED
  BY <1>1, <1>2, <1>3, <1>4, <1>5, <1>6, <1>7, <1>8, <1>9, <1>10, <1>11 DEF Next, Pusher

LEMMA QueueTypeStep ==
  ASSUME Inv, [Next]_vars
  PROVE  QueueType'
<1> USE DEF Inv, TypeOK
<1>0. Len(media_buffers) \in Nat /\ Len(pushed) \in 0..MaxChunks
  BY LenProperties, ConstantsAssumption DEF QueueType, PusherType
<1>1. ASSUME NEW shape \in Shapes, NEW drive \in Drives, PushBegin(shape, drive)
      PROVE  QueueType'
  BY <1>1 DEF PushBegin, QueueType, queueVars
<1>2. CASE PushDriver \/ MemoryCheckDio \/ SetDioBufferSize \/ QueueCheckReport
  BY <1>2 DEF PushDriver, MemoryCheckDio, SetDioBufferSize, QueueCheckReport, QueueType, queueVars
<1>3. CASE PushEnqueue
  <2>1. media_buffers' \in Seq(0..MaxChunks)
    BY <1>0, <1>3, AppendProperties DEF PushEnqueue, QueueType
  <2> QED  BY <2>1, <1>3 DEF PushEnqueue, QueueType
<1>4. ASSUME NEW memory \in Memory, MemoryCheck(memory) PROVE QueueType'
  BY <1>0, <1>4, ConstantsAssumption DEF MemoryCheck, QueueType, Resized, Inclease
<1>5. CASE QueueCheck
  <2>1. CASE Excess > 0
    <3>1. Excess \in Int  BY <1>0, ConstantsAssumption DEF Excess, QueueType
    <3>2. \A i \in Excess + 1 .. Len(media_buffers) : media_buffers[i] \in 0..MaxChunks
      <4> TAKE i \in Excess + 1 .. Len(media_buffers)
      <4>1. i \in 1..Len(media_buffers)  BY <1>0, <2>1, <3>1
      <4> QED  BY <4>1, ElementOfSeq DEF QueueType
    <3>3. SubSeq(media_buffers, Excess + 1, Len(media_buffers)) \in Seq(0..MaxChunks)
      BY <1>0, <3>1, <3>2, SubSeqProperties
    <3> QED  BY <1>5, <2>1, <3>3 DEF QueueCheck, QueueType
  <2>2. CASE ~(Excess > 0)  BY <1>5, <2>2 DEF QueueCheck, QueueType
  <2> QED  BY <2>1, <2>2
<1>6. CASE PushFlush
  <2>1. media_buffers' \in Seq(0..MaxChunks)
    BY <1>0, <1>6, AppendProperties, ConstantsAssumption DEF PushFlush, QueueType, Flush
  <2>2. flushes' \in 0..MaxFlushes
    BY <1>6, ConstantsAssumption DEF PushFlush, QueueType
  <2> QED  BY <2>1, <2>2, <1>6 DEF PushFlush, QueueType
<1>7. CASE PopBuffer
  BY <1>7, HeadTailProperties DEF PopBuffer, QueueType
<1>8. CASE Worker /\ UNCHANGED media_buffers
  BY <1>8, WorkerFrame DEF QueueType
<1>9. CASE UNCHANGED vars  BY <1>9 DEF vars, queueVars, QueueType
<1> QED
  BY <1>1, <1>2, <1>3, <1>4, <1>5, <1>6, <1>7, <1>8, <1>9, OthersKeepQueue DEF Next, Pusher

LEMMA WorkerTypeStep ==
  ASSUME Inv, [Next]_vars
  PROVE  WorkerType'
<1> USE DEF Inv, TypeOK
<1>1. CASE Pusher \/ PushFlush  BY <1>1, PusherFrame DEF WorkerType
<1>2. CASE ProcessBuffer  BY <1>2 DEF ProcessBuffer, WorkerType
<1>3. CASE CloseSavedFile  BY <1>3 DEF CloseSavedFile, workerVars, WorkerType
<1>4. CASE PopBuffer
  BY <1>4, HeadTailProperties DEF PopBuffer, QueueType, WorkerType
<1>5. ASSUME NEW rolled \in BOOLEAN, UpdateFileName(rolled) PROVE WorkerType'
  BY <1>5 DEF UpdateFileName, WorkerType
<1>6. ASSUME NEW outcome \in Outcomes, WriteFileClose(outcome) PROVE WorkerType'
  BY <1>6 DEF WriteFileClose, WorkerType
<1>7. ASSUME NEW ok \in BOOLEAN, FileDirectOpen(ok) PROVE WorkerType'
  BY <1>7, ConstantsAssumption DEF FileDirectOpen, ChunkFailed, WorkerType
<1>8. ASSUME NEW ok \in BOOLEAN, WriteIndexInfo(ok) PROVE WorkerType'
  <2>1. UNCHANGED room  BY <1>8 DEF WriteIndexInfo
  <2>2. fail' \in BOOLEAN  BY <1>8 DEF WriteIndexInfo, WorkerType
  <2>3. pc' \in {"idle", "write"} /\ cur' \in {0, cur} /\ next' \in {0, next}
    BY <1>8, FailureEffect DEF WriteIndexInfo, ChunkFailed
  <2> QED  BY <2>1, <2>2, <2>3, ConstantsAssumption DEF WorkerType
<1>9. CASE AddFrameInfo
  <2>1. cur \in 1..Len(pushed)
    BY <1>9, LenProperties DEF AddFrameInfo, HandInv, Writing, WorkerType, Coming, PusherType
  <2>2. next + 1 \in 0..MaxFrames
    BY <1>9, <2>1, ShapeType, ConstantsAssumption DEF AddFrameInfo, WorkerType
  <2> QED  BY <1>9, <2>2 DEF AddFrameInfo, WorkerType
<1>10. CASE ChunkDone  BY <1>10, ConstantsAssumption DEF ChunkDone, WorkerType
<1>11. CASE WriteBufferToDisk
  <2>1. dio_buffer_size_ - Len(writebuffer) \in Int
    BY LenProperties, ConstantsAssumption DEF PusherType, BufferType
  <2> QED  BY <1>11, <2>1 DEF WriteBufferToDisk, WorkerType
<1>12. ASSUME NEW outcome \in Outcomes, Spill(outcome) PROVE WorkerType'
  <2>1. pc' = "frame" /\ room' = 0 /\ UNCHANGED <<cur, next>>  BY <1>12 DEF Spill
  <2>2. UNCHANGED fail \/ fail' = (next > 0)  BY <1>12 DEF Spill
  <2>3. (next > 0) \in BOOLEAN  OBVIOUS
  <2>4. fail' \in BOOLEAN  BY <2>2, <2>3 DEF WorkerType
  <2> QED  BY <2>1, <2>4 DEF WorkerType
<1>13. ASSUME NEW outcome \in Outcomes, ProcessFlush(outcome) PROVE WorkerType'
  BY <1>13 DEF ProcessFlush, WorkerType
<1>14. CASE ProcessFlushClear  BY <1>14 DEF ProcessFlushClear, WorkerType
<1>15. CASE UNCHANGED vars  BY <1>15 DEF vars, workerVars, WorkerType
<1> QED
  BY <1>1, <1>2, <1>3, <1>4, <1>5, <1>6, <1>7, <1>8, <1>9, <1>10, <1>11, <1>12, <1>13, <1>14,
     <1>15 DEF Next, Worker

\* A chunk in hand has been pushed, and the worker's place in it exists.
LEMMA InHand ==
  ASSUME Inv, pc \in Writing \cup Naming
  PROVE  /\ cur \in 1..Len(pushed) /\ cur \in Chunks
         /\ pc \in Writing => next \in 0..Len(pushed[cur])
<1>1. cur \in 1..Len(pushed)
  BY LenProperties DEF Inv, TypeOK, PusherType, WorkerType, HandInv, Coming
<1> QED  BY <1>1, ShapeType DEF Inv, TypeOK, WorkerType, HandInv

LEMMA BufferTypeStep ==
  ASSUME Inv, [Next]_vars
  PROVE  BufferType'
<1> USE DEF Inv, TypeOK
<1> DEFINE Same == UNCHANGED <<writebuffer, memory_buffer_frames>>
<1>1. Same => BufferType'  BY DEF BufferType
<1>2. <<>> \in Seq(Cell)  BY EmptySeq
<1>3. CASE Pusher \/ PushFlush  BY <1>1, <1>3, PusherFrame
<1>4. ASSUME NEW outcome \in Outcomes, WriteFileClose(outcome) PROVE BufferType'
  BY <1>2, <1>4 DEF WriteFileClose, FileClose, BufferType
<1>5. CASE ChunkDone
  <2>1. cur \in Chunks  BY <1>5, InHand DEF ChunkDone, Writing
  <2>2. MemoryMax \in Nat /\ Kept(MemoryMax) \in Seq(Chunks) /\ Len(Kept(MemoryMax)) <= MemoryMax
    BY KeptType, ConstantsAssumption DEF BufferType
  <2>3. /\ Append(Kept(MemoryMax), cur) \in Seq(Chunks)
        /\ Len(Append(Kept(MemoryMax), cur)) = Len(Kept(MemoryMax)) + 1
        /\ Len(Kept(MemoryMax)) \in Nat
    BY <2>1, <2>2, AppendProperties, LenProperties
  <2> QED  BY <1>5, <2>2, <2>3 DEF ChunkDone, BufferType
<1>6. CASE WriteBufferToDisk
  <2>1. Cells(cur, next) \in Seq(Cell)  BY <1>6, InHand, CellsType DEF WriteBufferToDisk, Writing
  <2>2. writebuffer \o Cells(cur, next) \in Seq(Cell)  BY <2>1, ConcatProperties DEF BufferType
  <2> QED  BY <1>6, <2>2 DEF WriteBufferToDisk, BufferType
<1>7. ASSUME NEW outcome \in Outcomes, Spill(outcome) PROVE BufferType'
  <2>1. Cells(cur, next) \in Seq(Cell) /\ Len(Cells(cur, next)) \in Nat
    BY <1>7, InHand, CellsType DEF Spill, Writing
  <2>2. Rest \in Seq(Cell)
    <3>1. \A i \in room + 1 .. Len(Cells(cur, next)) : Cells(cur, next)[i] \in Cell
      BY <2>1, ElementOfSeq DEF WorkerType
    <3> QED  BY <2>1, <3>1, SubSeqProperties DEF WorkerType, Rest
  <2>3. Len(Rest) \in Nat  BY <2>2, LenProperties
  <2>4. Roof \in Nat
    <3>1. dio_buffer_size_ \in Nat \ {0}  BY ConstantsAssumption DEF PusherType
    <3>2. Len(Rest) \div dio_buffer_size_ \in Nat  BY <2>3, <3>1
    <3> HIDE DEF Inv, TypeOK
    <3>3. \A q \in Nat, d \in Nat : q * d \in Nat  OBVIOUS
    <3> QED  BY <3>1, <3>2, <3>3 DEF Roof
  <2>5. SubSeq(Rest, Roof + 1, Len(Rest)) \in Seq(Cell)
    <3>1. \A i \in Roof + 1 .. Len(Rest) : Rest[i] \in Cell  BY <2>2, <2>3, <2>4, ElementOfSeq
    <3> QED  BY <2>3, <2>4, <3>1, SubSeqProperties
  <2>6. Kept(1) \in Seq(Chunks) /\ Len(Kept(1)) <= 1  BY KeptType DEF BufferType
  <2>7. writebuffer' \in Seq(Cell)  BY <1>2, <1>7, <2>5 DEF Spill
  <2>8. memory_buffer_frames' \in {Kept(1), memory_buffer_frames}  BY <1>7 DEF Spill
  <2> QED  BY <2>6, <2>7, <2>8, ConstantsAssumption DEF BufferType
<1>8. ASSUME NEW outcome \in Outcomes, ProcessFlush(outcome) PROVE BufferType'
  <2>1. Kept(1) \in Seq(Chunks) /\ Len(Kept(1)) <= 1  BY KeptType DEF BufferType
  <2>2. writebuffer' \in Seq(Cell)  BY <1>2, <1>8 DEF ProcessFlush, FileClose, BufferType
  <2>3. memory_buffer_frames' = Kept(1)  BY <1>8 DEF ProcessFlush
  <2> QED  BY <2>1, <2>2, <2>3, ConstantsAssumption DEF BufferType
<1>9. ASSUME NEW ok \in BOOLEAN, FileDirectOpen(ok) \/ WriteIndexInfo(ok) PROVE BufferType'
  BY <1>1, <1>9 DEF FileDirectOpen, WriteIndexInfo
<1>10. CASE ProcessBuffer \/ PopBuffer \/ AddFrameInfo \/ ProcessFlushClear
  BY <1>1, <1>10 DEF ProcessBuffer, PopBuffer, AddFrameInfo, ProcessFlushClear, fileVars
<1>11. CASE CloseSavedFile  BY <1>1, <1>11 DEF CloseSavedFile
<1>12. ASSUME NEW rolled \in BOOLEAN, UpdateFileName(rolled) PROVE BufferType'
  BY <1>1, <1>12 DEF UpdateFileName, fileVars
<1>13. CASE UNCHANGED vars  BY <1>1, <1>13 DEF vars, fileVars
<1> QED
  BY <1>3, <1>4, <1>5, <1>6, <1>7, <1>8, <1>9, <1>10, <1>11, <1>12, <1>13 DEF Next, Worker

\* Reporting keeps the verdicts well-typed, and changes those of S only.
LEMMA ReportEffect ==
  ASSUME TypeOK, NEW S, NEW verdict \in {"saved", "lost"}, Report(S, verdict)
  PROVE  /\ status' \in [Frames -> {"none", "saved", "lost"}]
         /\ \A f \in Frames : status'[f] = IF f \in S THEN verdict ELSE status[f]
BY DEF TypeOK, ReportType, Report

\* The frames of a sequence of chunks are frames, those with the number of one of them.
LEMMA FramesInType ==
  ASSUME NEW q
  PROVE  /\ FramesIn(q) \subseteq Frames
         /\ \A f \in FramesIn(q) : \E i \in 1..Len(q) : q[i] = f[1]
BY DEF FramesIn, FramesOf, Elems

\* What the steps of the worker do to the reports.
LEMMA WorkerReports ==
  ASSUME Worker
  PROVE  \/ UNCHANGED <<frameInfos_, status, forgotten>>
         \/ AddFrameInfo
         \/ DiskStep
         \/ ChunkFailed /\ pc \in Naming
         \/ ProcessFlushClear
<1>1. ASSUME NEW ok \in BOOLEAN, FileDirectOpen(ok) \/ WriteIndexInfo(ok)
      PROVE  UNCHANGED <<frameInfos_, status, forgotten>> \/ (ChunkFailed /\ pc \in Naming)
  <2>1. pc \in Naming  BY <1>1 DEF FileDirectOpen, WriteIndexInfo, Naming
  <2> QED  BY <1>1, <2>1, FailureEffect
<1> QED
  BY <1>1 DEF Worker, DiskStep, ProcessBuffer, CloseSavedFile, PopBuffer, UpdateFileName,
     ChunkDone, WriteBufferToDisk, reportVars

LEMMA ReportTypeStep ==
  ASSUME Inv, [Next]_vars
  PROVE  ReportType'
<1>0. TypeOK /\ ReportType  BY DEF Inv, TypeOK
<1> DEFINE Same == UNCHANGED <<frameInfos_, status, forgotten, overflow>>
<1>1. Same => ReportType'  BY <1>0 DEF ReportType
<1>2. CASE QueueCheck
  <2>1. overflow' \subseteq Frames
    BY <1>0, <1>2, FramesInType DEF QueueCheck, ReportType
  <2> QED  BY <1>0, <1>2, <2>1 DEF QueueCheck, ReportType, reportVars
<1>3. CASE QueueCheckReport
  <2>1. status' \in [Frames -> {"none", "saved", "lost"}]
    BY <1>0, <1>3, ReportEffect DEF QueueCheckReport, reportVars, ReportType
  <2>2. frameInfos_' \subseteq Frames /\ forgotten' \subseteq Frames /\ overflow' = {}
    BY <1>0, <1>3 DEF QueueCheckReport, ClearInfos, reportVars, ReportType
  <2> QED  BY <2>1, <2>2 DEF ReportType
<1>4. CASE Worker
  <2>0. overflow' = overflow  BY <1>4, WorkerFrame
  <2>1. CASE AddFrameInfo
    <3>1. <<cur, next + 1>> \in Frames
      <4>1. cur \in 1..Len(pushed) /\ cur \in Chunks  BY <2>1, InHand DEF AddFrameInfo, Writing
      <4>2. Len(pushed[cur]) \in 1..MaxFrames  BY <1>0, <4>1, ShapeType
      <4>3. next + 1 \in 1..MaxFrames
        BY <1>0, <2>1, <4>2, ConstantsAssumption DEF AddFrameInfo, TypeOK, WorkerType
      <4> QED  BY <4>1, <4>3 DEF Frames
    <3> QED  BY <1>0, <2>0, <2>1, <3>1 DEF AddFrameInfo, ReportType
  <2>2. CASE DiskStep
    <3>1. Saved \/ Lost => status' \in [Frames -> {"none", "saved", "lost"}]
      BY <1>0, ReportEffect DEF Saved, Lost
    <3>2. Saved \/ Lost => frameInfos_' \subseteq frameInfos_  BY DEF Saved, Lost
    <3> QED  BY <1>0, <1>1, <2>0, <2>2, <3>1, <3>2, DiskEffect DEF ReportType
  <2>3. CASE ChunkFailed
    <3>1. status' \in [Frames -> {"none", "saved", "lost"}]
      BY <1>0, <2>3, ReportEffect DEF ChunkFailed
    <3> QED  BY <1>0, <2>0, <2>3, <3>1 DEF ChunkFailed, ClearInfos, ReportType
  <2>4. CASE ProcessFlushClear
    BY <1>0, <2>0, <2>4 DEF ProcessFlushClear, ClearInfos, ReportType
  <2> QED  BY <1>1, <1>4, <2>0, <2>1, <2>2, <2>3, <2>4, WorkerReports
<1>5. CASE Pusher /\ ~QueueCheck /\ ~QueueCheckReport
  BY <1>1, <1>5 DEF Pusher, PushBegin, PushDriver, PushEnqueue, MemoryCheck, MemoryCheckDio,
     SetDioBufferSize, reportVars
<1>6. CASE PushFlush \/ UNCHANGED vars
  BY <1>1, <1>6 DEF PushFlush, vars, pusherVars, reportVars
<1> QED  BY <1>2, <1>3, <1>4, <1>5, <1>6 DEF Next

-----------------------------------------------------------------------------
(***************************************************************************)
(* The queue: which chunks are in it, and where the worker is.             *)
(***************************************************************************)

\* A step that leaves the queue and the number of the coming chunk alone.
Quiet == media_buffers' = media_buffers /\ Coming' = Coming

\* Everything else moves a chunk or a mark in or out of the queue.
LEMMA QueueSteps ==
  ASSUME Inv, [Next]_vars
  PROVE  /\ PushEnqueue \/ PushFlush \/ QueueCheck \/ PopBuffer \/ Quiet
         /\ ~PushEnqueue => Coming' = Coming
         /\ push_pc' \in {"driver", "push"} => Len(pushed') > 0
<1>0. /\ Len(pushed) \in Nat /\ PushInv
      /\ pushed \in Seq(Shapes)
  BY LenProperties DEF Inv, TypeOK, PusherType
<1>1. ASSUME NEW shape \in Shapes, NEW drive \in Drives, PushBegin(shape, drive)
      PROVE  Quiet /\ Len(pushed') > 0
  <2>1. Len(pushed') = Len(pushed) + 1
    BY <1>0, <1>1, AppendProperties DEF PushBegin
  <2>2. push_pc = "idle" /\ push_pc' \in {"driver", "push"} /\ media_buffers' = media_buffers
    BY <1>1 DEF PushBegin, queueVars
  <2> QED  BY <1>0, <2>1, <2>2 DEF Quiet, Coming
<1>2. CASE PushDriver
  BY <1>0, <1>2 DEF PushDriver, queueVars, Quiet, Coming, PushInv
<1>3. CASE PushEnqueue
  BY <1>3 DEF PushEnqueue
<1>4. ASSUME NEW memory \in Memory, MemoryCheck(memory) PROVE Quiet /\ push_pc' = "dio"
  BY <1>4 DEF MemoryCheck, Quiet, Coming
<1>5. CASE MemoryCheckDio  BY <1>5 DEF MemoryCheckDio, queueVars, Quiet, Coming
<1>6. CASE SetDioBufferSize  BY <1>6 DEF SetDioBufferSize, queueVars, Quiet, Coming
<1>7. CASE QueueCheck  BY <1>7 DEF QueueCheck, Coming
<1>8. CASE QueueCheckReport  BY <1>8 DEF QueueCheckReport, queueVars, Quiet, Coming
<1>9. CASE PushFlush  BY <1>0, <1>9 DEF PushFlush, pusherVars, Coming, PushInv
<1>10. CASE Worker
  BY <1>0, <1>10, WorkerFrame, OthersKeepQueue DEF Quiet, Coming, PushInv
<1>11. CASE UNCHANGED vars
  BY <1>0, <1>11 DEF vars, pusherVars, queueVars, Quiet, Coming, PushInv
<1> QED
  BY <1>1, <1>2, <1>3, <1>4, <1>5, <1>6, <1>7, <1>8, <1>9, <1>10, <1>11 DEF Next, Pusher,
     Quiet

\* Elements of the queue after a step: enqueued, a mark, or queued before.
LEMMA QueueElements ==
  ASSUME Inv
  PROVE  /\ Len(media_buffers) \in Nat
         /\ Coming \in Nat \ {0}
         /\ \A i \in 1..Len(media_buffers) : media_buffers[i] \in 0..MaxChunks
         /\ PushEnqueue =>
              /\ Coming = Len(pushed) /\ Coming' = Coming + 1
              /\ Len(media_buffers') = Len(media_buffers) + 1
              /\ \A i \in 1..Len(media_buffers) : media_buffers'[i] = media_buffers[i]
              /\ media_buffers'[Len(media_buffers) + 1] = Coming
         /\ PushFlush =>
              /\ Len(media_buffers') = Len(media_buffers) + 1
              /\ \A i \in 1..Len(media_buffers) : media_buffers'[i] = media_buffers[i]
              /\ media_buffers'[Len(media_buffers) + 1] = Flush
         /\ PopBuffer /\ media_buffers # <<>> =>
              /\ Len(media_buffers) > 0 /\ cur' = media_buffers[1]
              /\ Len(media_buffers') = Len(media_buffers) - 1
              /\ \A i \in 1..Len(media_buffers') : media_buffers'[i] = media_buffers[i + 1]
         /\ QueueCheck /\ Excess > 0 =>
              /\ Excess \in 1..Len(media_buffers)
              /\ Len(media_buffers') = Len(media_buffers) - Excess
              /\ \A i \in 1..Len(media_buffers') : media_buffers'[i] = media_buffers[i + Excess]
              /\ \A f \in overflow' : \E i \in 1..Excess : media_buffers[i] = f[1]
<1>0. /\ media_buffers \in Seq(0..MaxChunks) /\ Len(media_buffers) \in Nat
      /\ Len(pushed) \in Nat /\ buffer_size_ \in Nat /\ PushInv
  BY LenProperties, ConstantsAssumption DEF Inv, TypeOK, PusherType, QueueType
<1>1. \A i \in 1..Len(media_buffers) : media_buffers[i] \in 0..MaxChunks
  BY <1>0, ElementOfSeq
<1>2. Coming \in Nat \ {0}  BY <1>0 DEF Coming, PushInv
<1>3. ASSUME PushEnqueue
      PROVE  /\ Coming = Len(pushed) /\ Coming' = Coming + 1
             /\ Len(media_buffers') = Len(media_buffers) + 1
             /\ \A i \in 1..Len(media_buffers) : media_buffers'[i] = media_buffers[i]
             /\ media_buffers'[Len(media_buffers) + 1] = Coming
  <2>1. /\ push_pc = "push" /\ push_pc' = "memory" /\ pushed' = pushed
        /\ media_buffers' = Append(media_buffers, Len(pushed))
    BY <1>3 DEF PushEnqueue
  <2>2. Coming = Len(pushed) /\ Coming' = Coming + 1  BY <1>0, <2>1 DEF Coming
  <2>3. Len(pushed) \in 0..MaxChunks
    BY <1>0 DEF Inv, TypeOK, PusherType
  <2> QED  BY <1>0, <2>1, <2>2, <2>3, AppendProperties
<1>4. ASSUME PushFlush
      PROVE  /\ Len(media_buffers') = Len(media_buffers) + 1
             /\ \A i \in 1..Len(media_buffers) : media_buffers'[i] = media_buffers[i]
             /\ media_buffers'[Len(media_buffers) + 1] = Flush
  <2>1. media_buffers' = Append(media_buffers, Flush)  BY <1>4 DEF PushFlush
  <2>2. Flush \in 0..MaxChunks  BY ConstantsAssumption DEF Flush
  <2> QED  BY <1>0, <2>1, <2>2, AppendProperties
<1>5. ASSUME PopBuffer, media_buffers # <<>>
      PROVE  /\ Len(media_buffers) > 0 /\ cur' = media_buffers[1]
             /\ Len(media_buffers') = Len(media_buffers) - 1
             /\ \A i \in 1..Len(media_buffers') : media_buffers'[i] = media_buffers[i + 1]
  <2>1. media_buffers' = Tail(media_buffers) /\ cur' = Head(media_buffers)
    BY <1>5 DEF PopBuffer
  <2>2. Len(media_buffers) > 0  BY <1>0, <1>5, EmptySeq
  <2> QED  BY <1>0, <1>5, <2>1, <2>2, HeadTailProperties
<1>6. ASSUME QueueCheck, Excess > 0
      PROVE  /\ Excess \in 1..Len(media_buffers)
             /\ Len(media_buffers') = Len(media_buffers) - Excess
             /\ \A i \in 1..Len(media_buffers') : media_buffers'[i] = media_buffers[i + Excess]
             /\ \A f \in overflow' : \E i \in 1..Excess : media_buffers[i] = f[1]
  <2>1. Excess \in 1..Len(media_buffers)  BY <1>0, <1>6 DEF Excess
  <2>2. /\ media_buffers' = SubSeq(media_buffers, Excess + 1, Len(media_buffers))
        /\ overflow' = FramesIn(SubSeq(media_buffers, 1, Excess))
    BY <1>6 DEF QueueCheck
  <2>3. /\ \A i \in Excess + 1 .. Len(media_buffers) : media_buffers[i] \in 0..MaxChunks
        /\ \A i \in 1..Excess : media_buffers[i] \in 0..MaxChunks
    BY <1>0, <1>1, <2>1
  <2>4. /\ Len(media_buffers') = Len(media_buffers) - Excess
        /\ \A i \in 1..Len(media_buffers') : media_buffers'[i] = media_buffers[i + Excess]
    <3> DEFINE m == Excess + 1
               n == Len(media_buffers)
    <3>1. m \in Int /\ n \in Int /\ media_buffers' = SubSeq(media_buffers, m, n)
      BY <1>0, <2>1, <2>2
    <3>2. \A i \in m .. n : media_buffers[i] \in 0..MaxChunks  BY <2>3
    <3>3. n - m + 1 = n - Excess /\ m <= n + 1 /\ \A i \in Int : m + i - 1 = i + Excess
      BY <1>0, <2>1
    <3> HIDE DEF m, n
    <3>4. /\ Len(media_buffers') = IF m <= n THEN n - m + 1 ELSE 0
          /\ \A i \in 1 .. n - m + 1 : media_buffers'[i] = media_buffers[m + i - 1]
      BY <3>1, <3>2, SubSeqProperties
    <3>5. Len(media_buffers') = n - m + 1  BY <3>1, <3>3, <3>4
    <3>6. Len(media_buffers') = Len(media_buffers) - Excess  BY <3>3, <3>5 DEF n
    <3>7. Len(media_buffers') = n - m + 1 /\ n - m + 1 \in Int  BY <3>1, <3>5
    <3>8. ASSUME NEW i \in 1..Len(media_buffers')
          PROVE  media_buffers'[i] = media_buffers[i + Excess]
      <4>1. i \in 1 .. n - m + 1 /\ i \in Int  BY <3>7
      <4>2. media_buffers'[i] = media_buffers[m + i - 1]  BY <3>4, <4>1
      <4> QED  BY <3>3, <4>1, <4>2
    <3> QED  BY <3>6, <3>8
  <2>5. \A f \in overflow' : \E i \in 1..Excess : media_buffers[i] = f[1]
    <3> DEFINE q == SubSeq(media_buffers, 1, Excess)
    <3>1. /\ Len(q) = Excess
          /\ \A i \in 1..Excess : q[i] = media_buffers[i]
      <4>1. /\ Len(q) = IF 1 <= Excess THEN Excess - 1 + 1 ELSE 0
            /\ \A i \in 1 .. Excess - 1 + 1 : q[i] = media_buffers[1 + i - 1]
        BY <2>1, <2>3, SubSeqProperties
      <4> QED  BY <2>1, <4>1
    <3> HIDE DEF q
    <3>2. overflow' = FramesIn(q)  BY <2>2 DEF q
    <3> QED  BY <3>1, <3>2, FramesInType
  <2> QED  BY <2>1, <2>4, <2>5
<1> QED  BY <1>0, <1>1, <1>2, <1>3, <1>4, <1>5, <1>6

LEMMA QueueInvStep ==
  ASSUME Inv, [Next]_vars
  PROVE  QueueInv'
<1> DEFINE q == media_buffers
<1>0. /\ QueueInv /\ Len(q) \in Nat /\ Coming \in Nat \ {0}
      /\ \A i \in 1..Len(q) : q[i] \in 0..MaxChunks
  BY QueueElements DEF Inv
<1>1. CASE Quiet  BY <1>0, <1>1 DEF Quiet, QueueInv
<1>2. CASE PushEnqueue
  <2>1. /\ Coming' = Coming + 1 /\ Len(q') = Len(q) + 1
        /\ \A i \in 1..Len(q) : q'[i] = q[i]
        /\ q'[Len(q) + 1] = Coming
    BY <1>2, QueueElements
  <2>2. \A i \in 1..Len(q') : q'[i] < Coming'
    BY <1>0, <2>1 DEF QueueInv
  <2>3. ASSUME NEW i \in 1..Len(q'), NEW j \in 1..Len(q'), q'[i] = q'[j], q'[i] # Flush
        PROVE  i = j
    BY <1>0, <2>1, <2>3 DEF QueueInv
  <2> QED  BY <2>2, <2>3 DEF QueueInv
<1>3. CASE PushFlush
  <2>1. /\ Coming' = Coming /\ Len(q') = Len(q) + 1
        /\ \A i \in 1..Len(q) : q'[i] = q[i]
        /\ q'[Len(q) + 1] = Flush
    <3>1. Coming' = Coming  BY <1>3 DEF PushFlush, pusherVars, Coming
    <3> QED  BY <1>3, <3>1, QueueElements
  <2>2. \A i \in 1..Len(q') : q'[i] < Coming'
    BY <1>0, <2>1 DEF QueueInv, Flush
  <2>3. ASSUME NEW i \in 1..Len(q'), NEW j \in 1..Len(q'), q'[i] = q'[j], q'[i] # Flush
        PROVE  i = j
    BY <1>0, <2>1, <2>3 DEF QueueInv
  <2> QED  BY <2>2, <2>3 DEF QueueInv
<1>4. ASSUME NEW n \in 0..Len(q), Coming' = Coming, Len(q') = Len(q) - n,
             \A i \in 1..Len(q') : q'[i] = q[i + n]
      PROVE  QueueInv'
  <2>1. \A i \in 1..Len(q') : i + n \in 1..Len(q)  BY <1>0, <1>4
  <2>2. \A i \in 1..Len(q') : q'[i] < Coming'
    BY <1>0, <1>4, <2>1 DEF QueueInv
  <2>3. ASSUME NEW i \in 1..Len(q'), NEW j \in 1..Len(q'), q'[i] = q'[j], q'[i] # Flush
        PROVE  i = j
    <3>1. q[i + n] = q[j + n] /\ q[i + n] # Flush  BY <1>4, <2>3
    <3>2. i + n = j + n  BY <1>0, <2>1, <3>1 DEF QueueInv
    <3> QED  BY <3>2
  <2> QED  BY <2>2, <2>3 DEF QueueInv
<1>5. CASE PopBuffer
  <2>1. Coming' = Coming  BY <1>5 DEF PopBuffer, pusherVars, Coming
  <2>2. CASE q # <<>>
    <3>1. /\ Len(q) > 0 /\ Len(q') = Len(q) - 1
          /\ \A i \in 1..Len(q') : q'[i] = q[i + 1]
      BY <1>5, <2>2, QueueElements
    <3> QED  BY <1>0, <1>4, <2>1, <3>1
  <2>3. CASE q = <<>>
    <3>1. Quiet  BY <1>5, <2>1, <2>3 DEF PopBuffer, Quiet
    <3> QED  BY <1>1, <3>1
  <2> QED  BY <2>2, <2>3
<1>6. CASE QueueCheck
  <2>1. Coming' = Coming  BY <1>6 DEF QueueCheck, Coming
  <2>2. CASE Excess > 0
    <3>1. /\ Excess \in 1..Len(q) /\ Len(q') = Len(q) - Excess
          /\ \A i \in 1..Len(q') : q'[i] = q[i + Excess]
      BY <1>6, <2>2, QueueElements
    <3>2. Excess \in 0..Len(q)  BY <1>0, <3>1
    <3> QED  BY <1>4, <2>1, <3>1, <3>2
  <2>3. CASE ~(Excess > 0)
    <3>1. Quiet  BY <1>6, <2>1, <2>3 DEF QueueCheck, Quiet
    <3> QED  BY <1>1, <3>1
  <2> QED  BY <2>2, <2>3
<1> QED  BY <1>1, <1>2, <1>3, <1>5, <1>6, QueueSteps

\* Where a step of the worker may lead it; PopBuffer is the step that takes a
\* new chunk in hand.
Dropped == cur' = 0 /\ pc' \notin Writing \cup Naming
Named == cur' = cur /\ pc \in Naming /\ (pc' \in Naming \/ (pc' \in Writing /\ next' = 0))
Written ==
  /\ cur' = cur /\ pc \in Writing /\ pc' \in Writing
  /\ next' = next \/ (next' = next + 1 /\ next < Len(pushed[cur]))

LEMMA WorkerAdvance ==
  ASSUME Inv, Worker
  PROVE  PopBuffer \/ Dropped \/ Named \/ Written
<1>0. pc \in Writing \cup Naming <=> cur # 0  BY DEF Inv, HandInv
<1> USE DEF Writing, Naming, Dropped, Named, Written
<1>1. CASE ProcessBuffer \/ CloseSavedFile
  BY <1>0, <1>1 DEF ProcessBuffer, CloseSavedFile, workerVars
<1>2. ASSUME NEW rolled \in BOOLEAN, UpdateFileName(rolled) PROVE Named
  BY <1>2 DEF UpdateFileName
<1>3. ASSUME NEW outcome \in Outcomes, WriteFileClose(outcome) PROVE Named
  BY <1>3 DEF WriteFileClose
<1>4. ASSUME NEW outcome \in Outcomes, ProcessFlush(outcome) PROVE Dropped
  BY <1>0, <1>4 DEF ProcessFlush
<1>5. ASSUME NEW outcome \in Outcomes, Spill(outcome) PROVE Written
  BY <1>5 DEF Spill
<1>6. ASSUME NEW ok \in BOOLEAN, FileDirectOpen(ok) \/ WriteIndexInfo(ok)
      PROVE  Dropped \/ Named
  <2>1. pc \in Naming  BY <1>6 DEF FileDirectOpen, WriteIndexInfo
  <2> QED  BY <1>6, <2>1, FailureEffect DEF ChunkFailed
<1>7. CASE AddFrameInfo
  <2>1. /\ pc = "frame" /\ next < Len(pushed[cur]) /\ next' = next + 1 /\ cur' = cur
        /\ pc' \in {"frame", "write"}
    BY <1>7 DEF AddFrameInfo
  <2> QED  BY <2>1
<1>8. CASE ChunkDone  BY <1>8 DEF ChunkDone
<1>9. CASE WriteBufferToDisk
  <2>1. pc = "write" /\ pc' \in {"spill", "frame"} /\ UNCHANGED <<cur, next>>
    BY <1>9 DEF WriteBufferToDisk
  <2> QED  BY <2>1
<1>10. CASE ProcessFlushClear  BY <1>0, <1>10 DEF ProcessFlushClear
<1> QED
  BY <1>1, <1>2, <1>3, <1>4, <1>5, <1>6, <1>7, <1>8, <1>9, <1>10 DEF Worker

LEMMA HandInvStep ==
  ASSUME Inv, [Next]_vars
  PROVE  HandInv'
<1> DEFINE q == media_buffers
<1>0. /\ QueueInv /\ HandInv /\ Len(q) \in Nat /\ Coming \in Nat \ {0}
      /\ cur \in Nat /\ next \in Nat
      /\ \A i \in 1..Len(q) : q[i] \in 0..MaxChunks
  BY QueueElements DEF Inv, TypeOK, WorkerType
<1>1. CASE PopBuffer
  <2>1. Coming' = Coming  BY <1>1 DEF PopBuffer, pusherVars, Coming
  <2>2. CASE q # <<>>
    <3>1. /\ Len(q) > 0 /\ cur' = q[1] /\ Len(q') = Len(q) - 1
          /\ \A i \in 1..Len(q') : q'[i] = q[i + 1]
      BY <1>1, <2>2, QueueElements
    <3>2. cur' < Coming'  BY <1>0, <2>1, <3>1 DEF QueueInv
    <3>3. ASSUME cur' # 0, NEW i \in 1..Len(q') PROVE q'[i] # cur'
      <4>1. i + 1 \in 1..Len(q) /\ i + 1 # 1 /\ 1 \in 1..Len(q)  BY <1>0, <3>1
      <4>2. q[i + 1] # q[1]  BY <1>0, <3>1, <3>3, <4>1 DEF QueueInv, Flush
      <4> QED  BY <3>1, <4>2
    <3>4. /\ pc' \in Writing \cup Naming <=> cur' # 0
          /\ pc' \notin Writing
      BY <1>1, <2>2 DEF PopBuffer, Writing, Naming, Flush
    <3> QED  BY <3>2, <3>3, <3>4 DEF HandInv
  <2>3. CASE q = <<>>
    BY <1>0, <1>1, <2>1, <2>3 DEF PopBuffer, HandInv, Writing, Naming
  <2> QED  BY <2>2, <2>3
<1>2. CASE Worker /\ ~PopBuffer
  <2>1. /\ Coming' = Coming /\ q' = q /\ pushed' = pushed
    BY <1>2, WorkerFrame, OthersKeepQueue DEF Coming
  <2>2. CASE Dropped  BY <1>0, <2>1, <2>2 DEF Dropped, HandInv
  <2>3. CASE Named
    <3>1. /\ cur' = cur /\ cur # 0 /\ pc' \in Writing \cup Naming
          /\ pc' \in Writing => next' = 0
      BY <1>0, <2>3 DEF Named, HandInv, Writing, Naming
    <3>2. Len(pushed[cur]) \in Nat
      BY <2>3, InHand, ShapeType DEF Named, Inv
    <3> QED  BY <1>0, <2>1, <3>1, <3>2 DEF HandInv
  <2>4. CASE Written
    <3>1. Len(pushed[cur]) \in Nat
      BY <2>4, InHand, ShapeType DEF Written, Inv
    <3>2. next' <= Len(pushed[cur])  BY <1>0, <2>4, <3>1 DEF Written, HandInv
    <3> QED  BY <1>0, <2>1, <2>4, <3>2 DEF Written, HandInv
  <2> QED  BY <1>2, <2>2, <2>3, <2>4, WorkerAdvance
<1>3. CASE Pusher \/ PushFlush \/ UNCHANGED vars
  <2>1. UNCHANGED <<pc, cur, next>>  BY <1>3, PusherFrame DEF vars, workerVars
  <2>2. pc \in Writing => pushed'[cur] = pushed[cur]
    <3>1. pushed' = pushed \/ \E shape \in Shapes : pushed' = Append(pushed, shape)
      BY <1>3 DEF Pusher, PushBegin, PushDriver, PushEnqueue, MemoryCheck, MemoryCheckDio,
         SetDioBufferSize, QueueCheck, QueueCheckReport, PushFlush, vars, pusherVars
    <3>2. ASSUME pc \in Writing PROVE cur \in 1..Len(pushed)  BY <3>2, InHand
    <3>3. pushed \in Seq(Shapes)  BY DEF Inv, TypeOK, PusherType
    <3> QED  BY <3>1, <3>2, <3>3, AppendProperties
  <2>3. cur < Coming'
    BY <1>0, QueueElements, QueueSteps DEF HandInv
  <2>4. ASSUME cur # 0, NEW i \in 1..Len(q') PROVE q'[i] # cur
    <3>1. CASE PushEnqueue
      BY <1>0, <2>4, <3>1, QueueElements DEF HandInv
    <3>2. CASE PushFlush
      BY <1>0, <2>4, <3>2, QueueElements DEF HandInv, Flush
    <3>3. CASE QueueCheck /\ Excess > 0
      <4>1. /\ Excess \in 1..Len(q) /\ Len(q') = Len(q) - Excess
            /\ q'[i] = q[i + Excess]
        BY <2>4, <3>3, QueueElements
      <4>2. i + Excess \in 1..Len(q)  BY <1>0, <2>4, <4>1
      <4> QED  BY <1>0, <2>4, <4>1, <4>2 DEF HandInv
    <3>4. CASE q' = q  BY <1>0, <2>4, <3>4 DEF HandInv
    <3> QED
      BY <1>3, <3>1, <3>2, <3>3, <3>4 DEF Pusher, PushBegin, PushDriver, MemoryCheck,
         MemoryCheckDio, SetDioBufferSize, QueueCheck, QueueCheckReport, vars, queueVars
  <2> QED  BY <1>0, <2>1, <2>2, <2>3, <2>4 DEF HandInv
<1> QED  BY <1>1, <1>2, <1>3 DEF Next

-----------------------------------------------------------------------------
(***************************************************************************)
(* The frames: none gets a verdict before its turn, and no pending frame   *)
(* is lost.                                                                *)
(***************************************************************************)

\* A frame whose turn has come never becomes one whose turn is to come.
LEMMA AheadStep ==
  ASSUME Inv, [Next]_vars, NEW f \in Frames \cup (Chunks \X {0}), Ahead(f)'
  PROVE  Ahead(f)
<1> DEFINE q == media_buffers
<1>0. /\ Len(q) \in Nat /\ Coming \in Nat \ {0} /\ HandInv
      /\ next \in Nat /\ f[1] \in Nat \ {0} /\ f[2] \in Nat
  BY QueueElements, ConstantsAssumption DEF Inv, TypeOK, WorkerType, Frames, Chunks
<1>1. CASE f[1] >= Coming'
  <2>1. Coming' = Coming \/ Coming' = Coming + 1  BY QueueElements, QueueSteps
  <2> QED  BY <1>0, <1>1, <2>1 DEF Ahead
<1>2. ASSUME NEW i \in 1..Len(q'), q'[i] = f[1]
      PROVE  Ahead(f)
  <2>1. CASE PushEnqueue  BY <1>0, <1>2, <2>1, QueueElements DEF Ahead
  <2>2. CASE PushFlush  BY <1>0, <1>2, <2>2, QueueElements DEF Ahead, Flush
  <2>3. CASE PopBuffer
    <3>1. CASE q # <<>>
      <4>1. Len(q') = Len(q) - 1 /\ q'[i] = q[i + 1]
        BY <1>2, <2>3, <3>1, QueueElements
      <4>2. i + 1 \in 1..Len(q)  BY <1>0, <1>2, <4>1
      <4> QED  BY <1>2, <4>1, <4>2 DEF Ahead
    <3>2. CASE q = <<>>  BY <1>2, <2>3, <3>2 DEF PopBuffer, Ahead
    <3> QED  BY <3>1, <3>2
  <2>4. CASE QueueCheck
    <3>1. CASE Excess > 0
      <4>1. /\ Excess \in 1..Len(q) /\ Len(q') = Len(q) - Excess
            /\ q'[i] = q[i + Excess]
        BY <1>2, <2>4, <3>1, QueueElements
      <4>2. i + Excess \in 1..Len(q)  BY <1>0, <1>2, <4>1
      <4> QED  BY <1>2, <4>1, <4>2 DEF Ahead
    <3>2. CASE ~(Excess > 0)  BY <1>2, <2>4, <3>2 DEF QueueCheck, Ahead
    <3> QED  BY <3>1, <3>2
  <2>5. CASE Quiet  BY <1>2, <2>5 DEF Quiet, Ahead
  <2> QED  BY <2>1, <2>2, <2>3, <2>4, <2>5, QueueSteps
<1>3. CASE f[1] = cur' /\ (pc' \in Naming \/ (pc' \in Writing /\ f[2] > next'))
  <2>1. CASE PopBuffer
    <3>1. q # <<>>
      BY <1>0, <1>3, <2>1 DEF PopBuffer, HandInv, Writing, Naming
    <3>2. Len(q) > 0 /\ q[1] = f[1]  BY <1>3, <2>1, <3>1, QueueElements
    <3> QED  BY <1>0, <3>2 DEF Ahead
  <2>2. CASE Worker /\ ~PopBuffer
    <3>1. ~Dropped  BY <1>0, <1>3 DEF Dropped
    <3>2. CASE Named  BY <1>3, <3>2 DEF Named, Ahead
    <3>3. CASE Written
      <4>1. pc' \notin Naming  BY <3>3 DEF Written, Writing, Naming
      <4> QED  BY <1>0, <1>3, <3>3, <4>1 DEF Written, Ahead
    <3> QED  BY <2>2, <3>1, <3>2, <3>3, WorkerAdvance
  <2>3. CASE Pusher \/ PushFlush \/ UNCHANGED vars
    <3>1. UNCHANGED <<pc, cur, next>>  BY <2>3, PusherFrame DEF vars, workerVars
    <3> QED  BY <1>3, <3>1 DEF Ahead
  <2> QED  BY <2>1, <2>2, <2>3 DEF Next
<1> QED  BY <1>1, <1>2, <1>3 DEF Ahead

\* A frame that gets its turn or a verdict in a step is not ahead after it.
LEMMA FrameInvStep ==
  ASSUME Inv, [Next]_vars
  PROVE  FrameInv'
<1>0. /\ TypeOK /\ FrameInv /\ HandInv
      /\ status \in [Frames -> {"none", "saved", "lost"}]
      /\ frameInfos_ \subseteq Frames /\ overflow \subseteq Frames
  BY DEF Inv, TypeOK, ReportType
<1>1. ASSUME UNCHANGED <<status, frameInfos_, overflow>>, push_pc = "report" => push_pc' = "report"
      PROVE  FrameInv'
  BY <1>0, <1>1, AheadStep DEF FrameInv
<1>2. CASE QueueCheck
  <2>1. UNCHANGED <<status, frameInfos_>> /\ push_pc' = "report" /\ push_pc = "check"
    BY <1>2 DEF QueueCheck, reportVars
  <2>2. ASSUME NEW f \in Frames, Ahead(f)' PROVE f \notin overflow'
    <3>1. CASE Excess > 0
      <4>1. /\ Excess \in 1..Len(media_buffers) /\ Len(media_buffers) \in Nat
            /\ Len(media_buffers') = Len(media_buffers) - Excess
            /\ \A i \in 1..Len(media_buffers') : media_buffers'[i] = media_buffers[i + Excess]
            /\ \A g \in overflow' : \E i \in 1..Excess : media_buffers[i] = g[1]
        BY <1>2, <3>1, QueueElements
      <4>2. SUFFICES ASSUME NEW i \in 1..Excess, media_buffers[i] = f[1] PROVE FALSE
        BY <4>1
      <4>3. f[1] # 0  BY DEF Frames, Chunks
      <4>4. i \in 1..Len(media_buffers)  BY <4>1, <4>2
      <4>5. Coming' = Coming /\ UNCHANGED <<pc, cur, next>>
        BY <1>2, PusherFrame DEF QueueCheck, Coming, workerVars
      <4>6. ~(f[1] >= Coming')
        <5>1. Coming \in Nat /\ media_buffers[i] \in 0..MaxChunks  BY <4>4, QueueElements
        <5>2. media_buffers[i] < Coming  BY <4>4 DEF Inv, QueueInv
        <5> QED  BY <4>2, <4>5, <5>1, <5>2, ConstantsAssumption
      <4>7. f[1] # cur'  BY <1>0, <4>2, <4>3, <4>4, <4>5 DEF HandInv
      <4>8. PICK j \in 1..Len(media_buffers') : media_buffers'[j] = f[1]
        BY <2>2, <4>6, <4>7 DEF Ahead
      <4>9. /\ j + Excess \in 1..Len(media_buffers) /\ j + Excess # i
            /\ media_buffers[j + Excess] = f[1]
        BY <4>1, <4>2, <4>8
      <4> QED  BY <4>2, <4>3, <4>4, <4>9 DEF Inv, QueueInv, Flush
    <3>2. CASE ~(Excess > 0)
      BY <1>0, <1>2, <2>1, <2>2, <3>2 DEF QueueCheck, FrameInv
    <3> QED  BY <3>1, <3>2
  <2> QED  BY <1>0, <2>1, <2>2, AheadStep DEF FrameInv
<1>3. CASE QueueCheckReport
  <2>1. overflow' = {}  BY <1>3 DEF QueueCheckReport
  <2>2. CASE overflow = {}
    BY <1>0, <1>3, <2>1, <2>2, AheadStep DEF QueueCheckReport, reportVars, FrameInv
  <2>3. CASE overflow # {}
    <3>1. frameInfos_' = {}  BY <1>3, <2>3 DEF QueueCheckReport, ClearInfos
    <3>2. \A f \in Frames : status'[f] = IF f \in overflow THEN "lost" ELSE status[f]
      BY <1>0, <1>3, <2>3, ReportEffect DEF QueueCheckReport
    <3> QED  BY <1>0, <2>1, <3>1, <3>2, AheadStep DEF FrameInv
  <2> QED  BY <2>2, <2>3
<1>4. CASE Worker
  <2>0. UNCHANGED <<overflow, push_pc>>  BY <1>4, WorkerFrame
  <2>1. CASE UNCHANGED <<frameInfos_, status, forgotten>>  BY <1>1, <2>0, <2>1
  <2>2. CASE AddFrameInfo
    <3> DEFINE g == <<cur, next + 1>>
    <3>1. /\ frameInfos_' = frameInfos_ \cup {g} /\ UNCHANGED <<status, media_buffers>>
          /\ pc = "frame" /\ next < Len(pushed[cur])
          /\ cur' = cur /\ next' = next + 1 /\ pc' \in Writing
      BY <2>2 DEF AddFrameInfo, queueVars, Writing
    <3>2. cur \in Chunks /\ Len(pushed[cur]) \in Nat /\ next \in Nat
      <4>1. cur \in 1..Len(pushed) /\ cur \in Chunks  BY <3>1, InHand DEF Writing
      <4> QED  BY <1>0, <4>1, ShapeType DEF TypeOK, WorkerType
    <3>3. Coming' = Coming /\ Coming \in Nat  BY <1>4, WorkerFrame, QueueElements DEF Coming
    <3>4. ASSUME NEW f \in Frames, f = g PROVE ~Ahead(f)' /\ Ahead(f)
      <4>1. f[1] = cur /\ f[2] = next + 1  BY <3>4
      <4>2. Ahead(f)  BY <3>1, <3>2, <4>1 DEF Ahead, Writing
      <4>3. /\ cur < Coming /\ cur # 0
            /\ \A i \in 1..Len(media_buffers) : media_buffers[i] # cur
        BY <1>0, <3>2 DEF HandInv, Chunks
      <4>4. pc' \notin Naming /\ ~(f[2] > next')
        BY <3>1, <3>2, <4>1 DEF Writing, Naming
      <4>5. ~(f[1] >= Coming')  BY <3>2, <3>3, <4>1, <4>3 DEF Chunks
      <4>6. ~Ahead(f)'  BY <3>1, <4>1, <4>3, <4>4, <4>5 DEF Ahead
      <4> QED  BY <4>2, <4>6
    <3>5. frameInfos_' \subseteq Frames
      BY <1>0, ReportTypeStep DEF ReportType
    <3> QED  BY <1>0, <2>0, <3>1, <3>4, <3>5, AheadStep DEF FrameInv
  <2>3. CASE Saved
    <3>1. \A f \in Frames : status'[f] = IF f \in frameInfos_ THEN "saved" ELSE status[f]
      BY <1>0, <2>3, ReportEffect DEF Saved
    <3>2. frameInfos_' \subseteq frameInfos_  BY <2>3 DEF Saved
    <3> QED  BY <1>0, <2>0, <3>1, <3>2, AheadStep DEF FrameInv
  <2>4. CASE Lost
    <3>1. \A f \in Frames : status'[f] = IF f \in frameInfos_ THEN "lost" ELSE status[f]
      BY <1>0, <2>4, ReportEffect DEF Lost
    <3>2. frameInfos_' = {}  BY <2>4 DEF Lost
    <3> QED  BY <1>0, <2>0, <3>1, <3>2, AheadStep DEF FrameInv
  <2>5. CASE ChunkFailed /\ pc \in Naming
    <3>1. \A f \in Frames : status'[f] = IF f \in FramesOf(cur) THEN "lost" ELSE status[f]
      BY <1>0, <2>5, ReportEffect DEF ChunkFailed
    <3>2. frameInfos_' = {} /\ cur' = 0 /\ pc' = "idle"  BY <2>5 DEF ChunkFailed, ClearInfos
    <3>3. UNCHANGED media_buffers /\ Coming' = Coming
      <4>1. ~PopBuffer  BY <2>5 DEF PopBuffer, Naming
      <4> QED  BY <1>4, <4>1, WorkerFrame, OthersKeepQueue DEF Coming
    <3>4. ASSUME NEW f \in Frames, f \in FramesOf(cur) PROVE ~Ahead(f)'
      <4>1. f[1] = cur /\ f[1] # 0  BY <3>4 DEF FramesOf, Frames, Chunks
      <4>2. /\ cur < Coming /\ \A i \in 1..Len(media_buffers) : media_buffers[i] # cur
        BY <1>0, <4>1 DEF HandInv
      <4>3. Coming \in Nat /\ cur \in Nat  BY <1>0, QueueElements DEF TypeOK, WorkerType
      <4> QED  BY <3>2, <3>3, <4>1, <4>2, <4>3 DEF Ahead
    <3> QED  BY <1>0, <2>0, <3>1, <3>2, <3>4, AheadStep DEF FrameInv
  <2>6. CASE ProcessFlushClear
    <3>1. frameInfos_' = {} /\ UNCHANGED status  BY <2>6 DEF ProcessFlushClear, ClearInfos
    <3> QED  BY <1>0, <2>0, <3>1, AheadStep DEF FrameInv
  <2>7. CASE DiskStep
    BY <1>1, <2>0, <2>3, <2>4, <2>7, DiskEffect
  <2> QED  BY <1>4, <2>1, <2>2, <2>5, <2>6, <2>7, WorkerReports
<1>5. CASE Pusher /\ ~QueueCheck /\ ~QueueCheckReport
  BY <1>1, <1>5 DEF Pusher, PushBegin, PushDriver, PushEnqueue, MemoryCheck, MemoryCheckDio,
     SetDioBufferSize, reportVars
<1>6. CASE PushFlush \/ UNCHANGED vars
  BY <1>1, <1>6 DEF PushFlush, vars, pusherVars, reportVars
<1> QED  BY <1>2, <1>3, <1>4, <1>5, <1>6 DEF Next

-----------------------------------------------------------------------------
(***************************************************************************)
(* The theorems.                                                           *)
(***************************************************************************)
LEMMA InitInv == Init => Inv
<1> SUFFICES ASSUME Init PROVE Inv  OBVIOUS
<1> USE DEF Init
<1>0. \A S : <<>> \in Seq(S) /\ Len(<<>>) = 0  BY EmptySeq
<1>c. MaxChunks \in Nat /\ MaxFrames \in Nat  BY ConstantsAssumption
<1>1. PusherType
  <2>1. pushed \in Seq(Shapes) /\ Len(pushed) <= MaxChunks  BY <1>0, <1>c
  <2>2. push_pc = "idle" /\ change_file_ \in BOOLEAN  OBVIOUS
  <2> QED  BY <2>1, <2>2 DEF PusherType
<1>2. QueueType  BY <1>0, ConstantsAssumption DEF QueueType
<1>3. WorkerType
  <2>1. pc = "idle" /\ fail \in BOOLEAN  OBVIOUS
  <2>2. cur = 0 /\ next = 0 /\ room = 0  OBVIOUS
  <2> HIDE DEF Init
  <2> QED  BY <1>c, <2>1, <2>2 DEF WorkerType
<1>4. BufferType  BY <1>0, ConstantsAssumption DEF BufferType
<1>5. ReportType  BY DEF ReportType
<1>6. Coming = 1  BY <1>0 DEF Coming
<1>7. PushInv /\ QueueInv  BY <1>0 DEF PushInv, QueueInv
<1>8. HandInv  BY <1>0, <1>6 DEF HandInv, Writing, Naming
<1>9. FrameInv  BY DEF FrameInv
<1> QED  BY <1>1, <1>2, <1>3, <1>4, <1>5, <1>7, <1>8, <1>9 DEF Inv, TypeOK

LEMMA InvStep == Inv /\ [Next]_vars => Inv'
<1> SUFFICES ASSUME Inv, [Next]_vars PROVE Inv'  OBVIOUS
<1>1. TypeOK'
  BY PusherTypeStep, QueueTypeStep, WorkerTypeStep, BufferTypeStep, ReportTypeStep DEF TypeOK
<1>2. PushInv'  BY QueueSteps DEF PushInv
<1> QED  BY <1>1, <1>2, QueueInvStep, HandInvStep, FrameInvStep DEF Inv

LEMMA Invariance == Spec => []Inv
BY InitInv, InvStep, PTL DEF Spec

\* Every variable of the pipeline keeps its type; the worker never leaves the
\* chunk it has in hand (`next` stays within it), which is why each frame it
\* writes or reports exists.
THEOREM TypeCorrect == Spec => []TypeOK
<1>1. Inv => TypeOK  BY DEF Inv
<1> QED  BY <1>1, Invariance, PTL

\* The queue between two pushes: at most buffer_size_ elements and one flush mark,
\* for every growth of buffer_size_ MemoryCheck may choose.
LEMMA BoundStep == Inv /\ BoundInv /\ [Next]_vars => BoundInv'
<1> SUFFICES ASSUME Inv, BoundInv, [Next]_vars PROVE BoundInv'  OBVIOUS
<1> DEFINE q == media_buffers
           Check == {"memory", "dio", "busy", "nomal", "check"}
<1>0. Len(q) \in Nat /\ buffer_size_ \in Nat
  BY QueueElements, ConstantsAssumption DEF Inv, TypeOK, QueueType
<1>1. ASSUME UNCHANGED <<media_buffers, buffer_size_>>, push_pc \in Check => push_pc' \in Check
      PROVE  BoundInv'
  BY <1>1 DEF BoundInv
<1>2. ASSUME NEW shape \in Shapes, NEW drive \in Drives, PushBegin(shape, drive)
      PROVE  BoundInv'
  BY <1>1, <1>2 DEF PushBegin, queueVars
<1>3. CASE PushEnqueue \/ MemoryCheckDio \/ SetDioBufferSize
  BY <1>3 DEF PushEnqueue, MemoryCheckDio, SetDioBufferSize, BoundInv
<1>4. ASSUME NEW memory \in Memory, MemoryCheck(memory) PROVE BoundInv'
  BY <1>4 DEF MemoryCheck, BoundInv
<1>5. CASE QueueCheck
  <2>1. buffer_size_' = buffer_size_  BY <1>5 DEF QueueCheck
  <2>2. CASE Excess > 0
    <3>1. Len(q') = Len(q) - Excess  BY <1>5, <2>2, QueueElements
    <3>2. Len(q') = buffer_size_  BY <1>0, <3>1 DEF Excess
    <3> QED  BY <1>0, <2>1, <3>2 DEF BoundInv
  <2>3. CASE ~(Excess > 0)
    <3>1. Len(q) <= buffer_size_  BY <1>0, <2>3 DEF Excess
    <3> QED  BY <1>5, <2>1, <2>3, <3>1 DEF QueueCheck, BoundInv
  <2> QED  BY <2>2, <2>3
<1>6. CASE QueueCheckReport \/ PushDriver
  BY <1>1, <1>6 DEF QueueCheckReport, PushDriver, queueVars
<1>7. CASE PushFlush
  <2>1. /\ Len(q') = Len(q) + 1 /\ q'[Len(q) + 1] = Flush
        /\ UNCHANGED <<push_pc, buffer_size_>>
    BY <1>7, QueueElements DEF PushFlush, pusherVars
  <2>2. q # <<>> => q[Len(q)] # Flush  BY <1>7 DEF PushFlush
  <2>3. q = <<>> => Len(q) = 0  BY EmptySeq
  <2>4. push_pc \notin Check => Len(q) <= buffer_size_
    BY <1>0, <2>2, <2>3 DEF BoundInv
  <2> QED  BY <1>0, <2>1, <2>4 DEF BoundInv
<1>8. CASE PopBuffer
  <2>1. UNCHANGED <<push_pc, buffer_size_>>  BY <1>8 DEF PopBuffer, pusherVars
  <2>2. CASE q # <<>>
    <3>1. Len(q') = Len(q) - 1  BY <1>8, <2>2, QueueElements
    <3> QED  BY <1>0, <2>1, <3>1 DEF BoundInv
  <2>3. CASE q = <<>>  BY <1>1, <1>8, <2>1, <2>3 DEF PopBuffer
  <2> QED  BY <2>2, <2>3
<1>9. CASE Worker /\ ~PopBuffer
  BY <1>1, <1>9, WorkerFrame, OthersKeepQueue
<1>10. CASE UNCHANGED vars  BY <1>1, <1>10 DEF vars, pusherVars, queueVars
<1> QED
  BY <1>2, <1>3, <1>4, <1>5, <1>6, <1>7, <1>8, <1>9, <1>10 DEF Next, Pusher

\* The queue of a stream stays within buffer_size_ and one flush mark between two
\* pushes (MemoryCheck, QueueCheck and Flush, with the worker popping at any time):
\* a stalled disk cannot make the recording take ever more memory.
THEOREM QueueBound == Spec => []QueueBounded
<1>1. Init => BoundInv
  <2>1. ASSUME Init PROVE Len(media_buffers) <= buffer_size_
    BY <2>1, EmptySeq, ConstantsAssumption DEF Init
  <2> QED  BY <2>1 DEF BoundInv
<1>2. BoundInv => QueueBounded  BY DEF BoundInv, QueueBounded
<1> QED  BY <1>1, <1>2, Invariance, BoundStep, PTL DEF Spec

\* No step reports a frame saved that has been reported lost: the application may
\* act on a failure report at once. The three callers of the report (QueueCheck,
\* the failures of a chunk, WriteDisk) never meet on one frame in that order.
THEOREM LostIsFinal == Spec => FailureIsFinal
<1> DEFINE Final == \A f \in Frames : status[f] = "lost" => status'[f] = "lost"
<1>1. ASSUME Inv, [Next]_vars PROVE Final
  <2>0. TypeOK  BY <1>1 DEF Inv
  <2>1. CASE UNCHANGED status  BY <2>1
  <2>2. ASSUME NEW S, Report(S, "lost") PROVE Final  BY <2>0, <2>2, ReportEffect
  <2>3. CASE Saved
    <3>1. \A f \in frameInfos_ : status[f] # "lost"  BY <1>1 DEF Inv, FrameInv
    <3> QED  BY <2>0, <2>3, <3>1, ReportEffect DEF Saved
  <2>4. CASE DiskStep  BY <2>1, <2>2, <2>3, <2>4, DiskEffect DEF Lost
  <2>5. CASE Worker
    <3>1. CASE ChunkFailed  BY <2>2, <3>1 DEF ChunkFailed
    <3>2. AddFrameInfo \/ ProcessFlushClear => UNCHANGED status
      BY DEF AddFrameInfo, ProcessFlushClear
    <3> QED  BY <2>1, <2>4, <2>5, <3>1, <3>2, WorkerReports
  <2>6. CASE QueueCheckReport
    BY <2>1, <2>2, <2>6 DEF QueueCheckReport, reportVars
  <2>7. CASE (Pusher /\ ~QueueCheckReport) \/ PushFlush \/ UNCHANGED vars
    BY <2>1, <2>7 DEF Pusher, PushBegin, PushDriver, PushEnqueue, MemoryCheck, MemoryCheckDio,
       SetDioBufferSize, QueueCheck, PushFlush, vars, pusherVars, reportVars
  <2> QED  BY <1>1, <2>5, <2>6, <2>7 DEF Next
<1>2. Inv /\ [Next]_vars => [Final]_vars  BY <1>1
<1> QED  BY <1>2, Invariance, PTL DEF Spec, FailureIsFinal

-----------------------------------------------------------------------------
(***************************************************************************)
(* No frame leaves in silence.                                             *)
(***************************************************************************)

\* A frame of a chunk whose push has begun.
IsPushed(f) == f \in Frames /\ f[1] <= Len(pushed) /\ f[2] <= Len(pushed[f[1]])

\* Where the pipeline has it, until the application hears of it.
Held(f) == Ahead(f) \/ f \in overflow \cup frameInfos_ \cup forgotten

AccountInv == \A f \in Frames : IsPushed(f) => status[f] # "none" \/ Held(f)

LEMMA PushedFrames ==
  ASSUME NEW f
  PROVE  /\ IsPushed(f) <=> f \in FramesOf(f[1])
         /\ f \in AllPushed => IsPushed(f)
BY DEF IsPushed, FramesOf, AllPushed

\* What is ahead is queued, in the worker's hand or in the pusher's.
LEMMA AheadIsHeld ==
  ASSUME Inv, NEW f, IsPushed(f), Ahead(f)
  PROVE  f \in FramesIn(media_buffers) \cup Unprocessed \cup Unqueued
<1>0. f \in FramesOf(f[1]) /\ f \in Frames /\ f[1] \in Nat /\ Len(pushed) \in Nat
  <2>1. f \in FramesOf(f[1])  BY PushedFrames
  <2>2. f \in Frames /\ f[1] \in Nat  BY ConstantsAssumption DEF IsPushed, Frames, Chunks
  <2>3. pushed \in Seq(Shapes)  BY DEF Inv, TypeOK, PusherType
  <2> QED  BY <2>1, <2>2, <2>3, LenProperties
<1>1. CASE f[1] >= Coming
  BY <1>0, <1>1 DEF Coming, Unqueued, IsPushed
<1>2. CASE \E i \in 1..Len(media_buffers) : media_buffers[i] = f[1]
  BY <1>0, <1>2 DEF FramesIn, Elems
<1>3. CASE f[1] = cur /\ pc \in Naming
  BY <1>0, <1>3 DEF Unprocessed, Naming
<1>4. CASE f[1] = cur /\ pc \in Writing /\ f[2] > next
  BY <1>0, <1>4 DEF Unprocessed, Writing
<1> QED  BY <1>1, <1>2, <1>3, <1>4 DEF Ahead

\* The worker lets a chunk go when it has given it up or written its last frame,
\* and leaves a frame behind when it adds it to the pending ones.
LEMMA LetsGo ==
  ASSUME Inv, Worker, ~PopBuffer, cur # 0
  PROVE  /\ Dropped => ChunkFailed \/ (pc \in Writing /\ next = Len(pushed[cur]))
         /\ pc \in Writing /\ next' # next /\ cur' = cur => <<cur, next + 1>> \in frameInfos_'
<1>0. pc \in Writing \cup Naming  BY DEF Inv, HandInv
<1> USE DEF Writing, Naming, Dropped
<1>1. CASE ProcessBuffer \/ CloseSavedFile \/ ProcessFlushClear
  BY <1>0, <1>1 DEF ProcessBuffer, CloseSavedFile, ProcessFlushClear
<1>2. ASSUME NEW rolled \in BOOLEAN, UpdateFileName(rolled)
      PROVE  cur' = cur /\ next' = next
  BY <1>2 DEF UpdateFileName
<1>3. ASSUME NEW outcome \in Outcomes,
             WriteFileClose(outcome) \/ Spill(outcome) \/ ProcessFlush(outcome)
      PROVE  cur' = cur /\ next' = next
  BY <1>3 DEF WriteFileClose, Spill, ProcessFlush
<1>4. ASSUME NEW ok \in BOOLEAN, FileDirectOpen(ok) \/ WriteIndexInfo(ok)
      PROVE  pc \notin Writing /\ (ChunkFailed \/ cur' = cur)
  BY <1>4, FailureEffect DEF FileDirectOpen, WriteIndexInfo
<1>5. CASE AddFrameInfo  BY <1>0, <1>5 DEF AddFrameInfo
<1>6. CASE ChunkDone  BY <1>6 DEF ChunkDone
<1>7. CASE WriteBufferToDisk  BY <1>0, <1>7 DEF WriteBufferToDisk
<1> QED  BY <1>1, <1>2, <1>3, <1>4, <1>5, <1>6, <1>7 DEF Worker

\* A frame that was ahead stays ahead, is dropped into overflow, becomes pending,
\* or is reported.
LEMMA AheadLeaves ==
  ASSUME Inv, [Next]_vars, NEW f, IsPushed(f), Ahead(f), status[f] = "none"
  PROVE  Ahead(f)' \/ f \in overflow' \cup frameInfos_' \/ status'[f] # "none"
<1> DEFINE q == media_buffers
<1>0. /\ Len(q) \in Nat /\ Coming \in Nat \ {0} /\ HandInv /\ QueueInv /\ TypeOK
      /\ next \in Nat /\ f \in Frames /\ f[1] \in Nat \ {0} /\ f[2] \in Nat \ {0}
      /\ f \in FramesOf(f[1])
  <2>1. Len(q) \in Nat /\ Coming \in Nat \ {0}  BY QueueElements
  <2>2. HandInv /\ QueueInv /\ TypeOK  BY DEF Inv
  <2>3. next \in Nat  BY <2>2 DEF TypeOK, WorkerType
  <2>4. f \in Frames /\ f[1] \in Nat \ {0} /\ f[2] \in Nat \ {0}
    BY ConstantsAssumption DEF IsPushed, Frames, Chunks
  <2>5. f \in FramesOf(f[1])  BY PushedFrames
  <2> QED  BY <2>1, <2>2, <2>3, <2>4, <2>5
<1>1. CASE f[1] >= Coming
  <2>1. CASE PushEnqueue
    <3>1. /\ Coming' = Coming + 1 /\ Len(q') = Len(q) + 1
          /\ q'[Len(q) + 1] = Coming
      BY <2>1, QueueElements
    <3>2. CASE f[1] = Coming  BY <1>0, <3>1, <3>2 DEF Ahead
    <3>3. CASE f[1] # Coming  BY <1>0, <1>1, <3>1, <3>3 DEF Ahead
    <3> QED  BY <3>2, <3>3
  <2>2. CASE ~PushEnqueue
    <3>1. Coming' = Coming  BY <2>2, QueueSteps
    <3> QED  BY <1>1, <3>1 DEF Ahead
  <2> QED  BY <2>1, <2>2
<1>2. ASSUME NEW i \in 1..Len(q), q[i] = f[1]
      PROVE  Ahead(f)' \/ f \in overflow'
  <2>1. CASE PushEnqueue \/ PushFlush
    <3>1. Len(q') = Len(q) + 1 /\ q'[i] = q[i]  BY <1>2, <2>1, QueueElements
    <3> QED  BY <1>0, <1>2, <3>1 DEF Ahead
  <2>2. CASE PopBuffer
    <3>1. q # <<>>  BY <1>2, EmptySeq
    <3>2. /\ Len(q) > 0 /\ cur' = q[1] /\ Len(q') = Len(q) - 1
          /\ \A k \in 1..Len(q') : q'[k] = q[k + 1]
      BY <2>2, <3>1, QueueElements
    <3>3. CASE i = 1
      <4>1. cur' = f[1] /\ cur' # Flush  BY <1>0, <1>2, <3>2, <3>3 DEF Flush
      <4>2. pc' = "name"  BY <2>2, <3>1, <4>1 DEF PopBuffer
      <4> QED  BY <4>1, <4>2 DEF Ahead, Naming
    <3>4. CASE i # 1
      <4> DEFINE k == i - 1
      <4>1. k \in 1..Len(q') /\ k + 1 = i  BY <1>0, <3>2, <3>4
      <4>2. q'[k] = f[1]  BY <1>2, <3>2, <4>1
      <4> QED  BY <4>1, <4>2 DEF Ahead
    <3> QED  BY <3>3, <3>4
  <2>3. CASE QueueCheck
    <3>1. CASE Excess > 0
      <4>1. /\ Excess \in 1..Len(q) /\ Len(q') = Len(q) - Excess
            /\ \A k \in 1..Len(q') : q'[k] = q[k + Excess]
        BY <2>3, <3>1, QueueElements
      <4>2. CASE i > Excess
        <5> DEFINE k == i - Excess
        <5>1. k \in 1..Len(q') /\ k + Excess = i  BY <1>0, <4>1, <4>2
        <5>2. q'[k] = f[1]  BY <1>2, <4>1, <5>1
        <5> QED  BY <5>1, <5>2 DEF Ahead
      <4>3. CASE ~(i > Excess)
        <5> DEFINE s == SubSeq(q, 1, Excess)
        <5>1. \A k \in 1..Excess : q[k] \in 0..MaxChunks
          BY <1>0, <4>1, QueueElements
        <5>2. Len(s) = Excess /\ s[i] = q[i]
          <6>1. /\ Len(s) = IF 1 <= Excess THEN Excess - 1 + 1 ELSE 0
                /\ \A k \in 1 .. Excess - 1 + 1 : s[k] = q[1 + k - 1]
            BY <4>1, <5>1, SubSeqProperties
          <6>2. i \in 1 .. Excess - 1 + 1 /\ 1 + i - 1 = i  BY <1>0, <4>1, <4>3
          <6> QED  BY <4>1, <6>1, <6>2
        <5>3. overflow' = FramesIn(s)  BY <2>3, <3>1 DEF QueueCheck
        <5> HIDE DEF s
        <5>4. i \in 1..Len(s)  BY <1>0, <4>1, <4>3, <5>2
        <5> QED  BY <1>0, <1>2, <5>2, <5>3, <5>4 DEF FramesIn, Elems
      <4> QED  BY <4>2, <4>3
    <3>2. CASE ~(Excess > 0)
      <4>1. q' = q  BY <2>3, <3>2 DEF QueueCheck
      <4> QED  BY <1>2, <4>1 DEF Ahead
    <3> QED  BY <3>1, <3>2
  <2>4. CASE Quiet  BY <1>2, <2>4 DEF Quiet, Ahead
  <2> QED  BY <2>1, <2>2, <2>3, <2>4, QueueSteps
<1>3. CASE f[1] = cur /\ (pc \in Naming \/ (pc \in Writing /\ f[2] > next))
  <2>1. CASE PopBuffer  BY <1>3, <2>1 DEF PopBuffer, Naming, Writing
  <2>2. CASE Worker /\ ~PopBuffer
    <3>0. cur # 0  BY <1>0, <1>3
    <3>1. CASE Dropped
      <4>1. CASE ChunkFailed
        <5>1. status'[f] = "lost"
          BY <1>0, <1>3, <4>1, ReportEffect DEF ChunkFailed
        <5> QED  BY <5>1
      <4>2. CASE pc \in Writing /\ next = Len(pushed[cur])
        <5>1. f[2] > next  BY <1>3, <4>2 DEF Naming, Writing
        <5>2. f[2] <= next  BY <1>3, <4>2 DEF IsPushed
        <5> QED  BY <1>0, <5>1, <5>2
      <4> QED  BY <2>2, <3>0, <3>1, <4>1, <4>2, LetsGo
    <3>2. CASE Named
      <4>1. next' = 0 => f[2] > next'  BY <1>0
      <4> QED  BY <1>3, <3>2, <4>1 DEF Named, Ahead
    <3>3. CASE Written
      <4>1. f[2] > next /\ cur' = cur /\ pc' \in Writing /\ pc \in Writing
        BY <1>3, <3>3 DEF Written, Naming, Writing
      <4>2. CASE next' = next  BY <1>3, <4>1, <4>2 DEF Ahead
      <4>3. CASE next' # next /\ f[2] = next + 1
        <5>1. f = <<cur, next + 1>>  BY <1>0, <1>3, <4>3 DEF Frames
        <5> QED  BY <2>2, <3>0, <4>1, <4>3, <5>1, LetsGo
      <4>4. CASE next' # next /\ f[2] # next + 1
        <5>1. next' = next + 1  BY <3>3, <4>4 DEF Written
        <5>2. f[2] > next'  BY <1>0, <4>1, <4>4, <5>1
        <5> QED  BY <1>3, <4>1, <5>2 DEF Ahead
      <4> QED  BY <4>2, <4>3, <4>4
    <3> QED  BY <2>2, <3>1, <3>2, <3>3, WorkerAdvance
  <2>3. CASE Pusher \/ PushFlush \/ UNCHANGED vars
    <3>1. UNCHANGED <<pc, cur, next>>  BY <2>3, PusherFrame DEF vars, workerVars
    <3> QED  BY <1>3, <3>1 DEF Ahead
  <2> QED  BY <2>1, <2>2, <2>3 DEF Next
<1> QED  BY <1>1, <1>2, <1>3 DEF Ahead

\* What is waiting for a report gets one, or is forgotten.
LEMMA PendingLeaves ==
  ASSUME Inv, [Next]_vars, NEW f \in Frames
  PROVE  /\ status[f] # "none" => status'[f] # "none"
         /\ f \in overflow \cup frameInfos_ \cup forgotten =>
              f \in overflow' \cup frameInfos_' \cup forgotten' \/ status'[f] # "none"
<1> DEFINE Goal ==
      /\ status[f] # "none" => status'[f] # "none"
      /\ f \in overflow \cup frameInfos_ \cup forgotten =>
           f \in overflow' \cup frameInfos_' \cup forgotten' \/ status'[f] # "none"
<1>0. TypeOK /\ FrameInv  BY DEF Inv
<1>1. ASSUME UNCHANGED <<status, frameInfos_, forgotten>>, overflow \subseteq overflow' PROVE Goal
  BY <1>1
<1>2. CASE QueueCheck
  BY <1>0, <1>1, <1>2 DEF QueueCheck, reportVars, FrameInv
<1>3. CASE QueueCheckReport
  <2>1. CASE overflow = {}  BY <1>1, <1>3, <2>1 DEF QueueCheckReport, reportVars
  <2>2. CASE overflow # {}
    <3>1. status'[f] = IF f \in overflow THEN "lost" ELSE status[f]
      BY <1>0, <1>3, <2>2, ReportEffect DEF QueueCheckReport
    <3> QED  BY <1>3, <2>2, <3>1 DEF QueueCheckReport, ClearInfos
  <2> QED  BY <2>1, <2>2
<1>4. CASE Worker
  <2>0. overflow' = overflow  BY <1>4, WorkerFrame
  <2>1. CASE UNCHANGED <<frameInfos_, status, forgotten>>  BY <1>1, <2>0, <2>1
  <2>2. CASE AddFrameInfo  BY <2>0, <2>2 DEF AddFrameInfo
  <2>3. CASE UNCHANGED forgotten /\ (Saved \/ Lost)
    <3>1. \E v \in {"saved", "lost"} :
            status'[f] = IF f \in frameInfos_ THEN v ELSE status[f]
      BY <1>0, <2>3, ReportEffect DEF Saved, Lost
    <3> QED  BY <2>0, <2>3, <3>1
  <2>4. CASE ChunkFailed
    <3>1. status'[f] = IF f \in FramesOf(cur) THEN "lost" ELSE status[f]
      BY <1>0, <2>4, ReportEffect DEF ChunkFailed
    <3> QED  BY <2>0, <2>4, <3>1 DEF ChunkFailed, ClearInfos
  <2>5. CASE ProcessFlushClear  BY <2>0, <2>5 DEF ProcessFlushClear, ClearInfos
  <2>6. CASE DiskStep  BY <2>1, <2>3, <2>6, DiskEffect
  <2> QED  BY <1>4, <2>1, <2>2, <2>4, <2>5, <2>6, WorkerReports
<1>5. CASE Pusher /\ ~QueueCheck /\ ~QueueCheckReport
  BY <1>1, <1>5 DEF Pusher, PushBegin, PushDriver, PushEnqueue, MemoryCheck, MemoryCheckDio,
     SetDioBufferSize, reportVars
<1>6. CASE PushFlush \/ UNCHANGED vars
  BY <1>1, <1>6 DEF PushFlush, vars, pusherVars, reportVars
<1> QED  BY <1>2, <1>3, <1>4, <1>5, <1>6 DEF Next

\* A frame becomes a pushed one when its chunk's push begins, and is ahead then.
LEMMA NewlyPushed ==
  ASSUME Inv, [Next]_vars, NEW f, IsPushed(f)', ~IsPushed(f)
  PROVE  Ahead(f)'
<1>1. pushed' = pushed \/ \E shape \in Shapes, drive \in Drives : PushBegin(shape, drive)
  BY WorkerFrame DEF Next, Pusher, PushDriver, PushEnqueue, MemoryCheck, MemoryCheckDio,
     SetDioBufferSize, QueueCheck, QueueCheckReport, PushFlush, vars, pusherVars
<1>2. pushed' # pushed  BY DEF IsPushed
<1>3. PICK shape \in Shapes, drive \in Drives : PushBegin(shape, drive)  BY <1>1, <1>2
<1>4. /\ pushed \in Seq(Shapes) /\ Len(pushed) \in Nat
      /\ pushed' = Append(pushed, shape)
      /\ push_pc' \in {"driver", "push"}
  BY <1>3, LenProperties DEF Inv, TypeOK, PusherType, PushBegin
<1>5. /\ Len(pushed') = Len(pushed) + 1
      /\ \A i \in 1..Len(pushed) : pushed'[i] = pushed[i]
  BY <1>4, AppendProperties
<1>6. f \in Frames /\ f[1] \in Nat \ {0} /\ f[1] <= Len(pushed')
  BY ConstantsAssumption DEF IsPushed, Frames, Chunks
<1>7. f[1] = Len(pushed')
  <2>1. CASE f[1] \in 1..Len(pushed)
    BY <1>5, <1>6, <2>1 DEF IsPushed
  <2> QED  BY <1>4, <1>5, <1>6, <2>1
<1>8. Coming' = Len(pushed')  BY <1>4, <1>5 DEF Coming
<1> QED  BY <1>4, <1>5, <1>7, <1>8 DEF Ahead

LEMMA AccountStep == Inv /\ AccountInv /\ [Next]_vars => AccountInv'
<1> SUFFICES ASSUME Inv, AccountInv, [Next]_vars, NEW f \in Frames, IsPushed(f)'
             PROVE  status'[f] # "none" \/ Held(f)'
  BY DEF AccountInv
<1>1. CASE ~IsPushed(f)  BY <1>1, NewlyPushed DEF Held
<1>2. CASE IsPushed(f)
  <2>1. CASE status[f] # "none"  BY <2>1, PendingLeaves
  <2>2. CASE f \in overflow \cup frameInfos_ \cup forgotten  BY <2>2, PendingLeaves DEF Held
  <2>3. CASE Ahead(f) /\ status[f] = "none"  BY <1>2, <2>3, AheadLeaves DEF Held
  <2> QED  BY <1>2, <2>1, <2>2, <2>3 DEF AccountInv, Held
<1> QED  BY <1>1, <1>2

\* No frame leaves the pipeline in silence: whatever the worker, the pusher and
\* the flusher do in which order, a frame that was pushed and of which the
\* application has heard nothing is queued, in hand or pending, or one of the
\* Clear calls (QueueCheck, the failures of a chunk, ProcessFlush) forgot it.
THEOREM Accounted == Spec => []FramesAccounted
<1>1. Init => AccountInv
  <2>1. ASSUME Init, NEW f \in Frames PROVE ~IsPushed(f)
    <3>1. Len(pushed) = 0  BY <2>1, EmptySeq DEF Init
    <3>2. f[1] \in Nat \ {0}  BY ConstantsAssumption DEF Frames, Chunks
    <3> QED  BY <3>1, <3>2 DEF IsPushed
  <2> QED  BY <2>1 DEF AccountInv
<1>2. Inv /\ AccountInv => FramesAccounted
  <2> SUFFICES ASSUME Inv, AccountInv, NEW f \in AllPushed
               PROVE  \/ status[f] # "none"
                      \/ f \in FramesIn(media_buffers) \cup Unprocessed \cup Unqueued
                      \/ f \in overflow \cup frameInfos_ \cup forgotten
    BY DEF FramesAccounted
  <2>1. IsPushed(f)  BY PushedFrames
  <2>2. f \in Frames  BY <2>1 DEF IsPushed
  <2> QED  BY <2>1, <2>2, AheadIsHeld DEF AccountInv, Held
<1> QED  BY <1>1, <1>2, Invariance, AccountStep, PTL DEF Spec

-----------------------------------------------------------------------------
(***************************************************************************)
(* The files: their types, and when one is open.                           *)
(***************************************************************************)
EntrySet == [at : Nat, chunk : Chunks, file : Nat, offset : Nat]
IndexSet == [magic : BOOLEAN, entries : SUBSET EntrySet]
FileSet == [drive : Drives \cup {NoDrive}, index : IndexSet, data : Seq(Cell),
            seek_lost : BOOLEAN]

FileType ==
  /\ files \in Seq(FileSet)
  /\ file_handle \in 0..Len(files)
  /\ indexer \in [pos : Nat, magic : BOOLEAN, entries : SUBSET EntrySet]
  /\ file_index_last_pos_ \in Nat
  /\ faults \in Nat

\* The worker names a file before it opens one, and enters a chunk in an open file;
\* the handle is lost in the middle of a chunk to a failed write only.  What fills a
\* buffer up is the beginning of the item in hand.
HandleInv ==
  /\ pc = "open" => file_handle = NoFile
  /\ pc = "index" => file_handle # NoFile
  /\ pc \in Writing /\ faults = 0 => file_handle # NoFile
  /\ pc = "spill" => room \in 1..Len(Cells(cur, next))

FileInv == FileType /\ HandleInv

\* A step that has nothing to do with the files.
Untouched ==
  UNCHANGED <<file_handle, writebuffer, indexer, file_index_last_pos_, files, faults, damage>>

\* It keeps the worker's place, or moves it where no other file is needed.
Elsewhere ==
  \/ UNCHANGED <<pc, cur, next, room>>
  \/ /\ pc' \notin {"open", "spill"}
     /\ pc' = "index" => file_handle # NoFile
     /\ pc' \in Writing => pc \in Writing

LEMMA FileSteps ==
  ASSUME [Next]_vars
  PROVE  \/ Untouched /\ Elsewhere
         \/ CloseSavedFile \/ DiskStep \/ WriteBufferToDisk
         \/ \E ok \in BOOLEAN : FileDirectOpen(ok) \/ WriteIndexInfo(ok)
<1>1. CASE Pusher \/ PushFlush \/ UNCHANGED vars
  BY <1>1 DEF Pusher, PushBegin, PushDriver, PushEnqueue, MemoryCheck, MemoryCheckDio,
     SetDioBufferSize, QueueCheck, QueueCheckReport, PushFlush, Untouched, Elsewhere, vars,
     fileVars, workerVars
<1>2. CASE ProcessBuffer  BY <1>2 DEF ProcessBuffer, Untouched, Elsewhere, fileVars, Writing
<1>3. CASE PopBuffer  BY <1>3 DEF PopBuffer, Untouched, Elsewhere, fileVars, Writing
<1>4. ASSUME NEW rolled \in BOOLEAN, UpdateFileName(rolled) PROVE Untouched /\ Elsewhere
  BY <1>4 DEF UpdateFileName, Untouched, Elsewhere, fileVars, Writing
<1>5. CASE AddFrameInfo  BY <1>5 DEF AddFrameInfo, Untouched, Elsewhere, fileVars, Writing
<1>6. CASE ChunkDone  BY <1>6 DEF ChunkDone, Untouched, Elsewhere, Writing
<1>7. CASE ProcessFlushClear
  BY <1>7 DEF ProcessFlushClear, Untouched, Elsewhere, fileVars, Writing
<1> QED
  BY <1>1, <1>2, <1>3, <1>4, <1>5, <1>6, <1>7 DEF Next, Worker, DiskStep

\* A write changes the file that is open, and never its drive.
Touched ==
  /\ Len(files') = Len(files)
  /\ \A h \in 1..Len(files) :
       files'[h].drive = files[h].drive /\ (h # file_handle => files'[h] = files[h])

LEMMA UntouchedFiles ==
  ASSUME files' = files
  PROVE  Touched
BY DEF Touched

\* Replacing the open file by one of the same drive.
LEMMA Replaced ==
  ASSUME FileType, file_handle # NoFile, NEW r \in FileSet, r.drive = files[file_handle].drive
  PROVE  LET new == [files EXCEPT ![file_handle] = r] IN
         /\ new \in Seq(FileSet) /\ Len(new) = Len(files)
         /\ new[file_handle] = r
         /\ files' = new => Touched
<1>1. file_handle \in 1..Len(files) /\ files \in Seq(FileSet)
  BY LenProperties DEF FileType, NoFile
<1>2. /\ [files EXCEPT ![file_handle] = r] \in Seq(FileSet)
      /\ Len([files EXCEPT ![file_handle] = r]) = Len(files)
      /\ \A j \in 1..Len(files) :
           [files EXCEPT ![file_handle] = r][j] = IF j = file_handle THEN r ELSE files[j]
  BY <1>1, ExceptSeq
<1> QED  BY <1>1, <1>2 DEF Touched

\* The open file, and the three ways it is replaced.
LEMMA OpenFile ==
  ASSUME FileType, file_handle # NoFile
  PROVE  /\ file_handle \in 1..Len(files)
         /\ files[file_handle] \in FileSet
         /\ \A i \in IndexSet :
              /\ [files[file_handle] EXCEPT !.index = i] \in FileSet
              /\ [files[file_handle] EXCEPT !.index = i].drive = files[file_handle].drive
              /\ [files EXCEPT ![file_handle].index = i] =
                   [files EXCEPT ![file_handle] = [files[file_handle] EXCEPT !.index = i]]
         /\ \A cells \in Seq(Cell) :
              /\ [files[file_handle] EXCEPT !.data = @ \o cells] \in FileSet
              /\ [files[file_handle] EXCEPT !.data = @ \o cells].drive = files[file_handle].drive
              /\ [files EXCEPT ![file_handle].data = @ \o cells] =
                   [files EXCEPT ![file_handle] = [files[file_handle] EXCEPT !.data = @ \o cells]]
         /\ /\ [files[file_handle] EXCEPT !.seek_lost = TRUE] \in FileSet
            /\ [files[file_handle] EXCEPT !.seek_lost = TRUE].drive = files[file_handle].drive
            /\ [files EXCEPT ![file_handle].seek_lost = TRUE] =
                 [files EXCEPT ![file_handle] = [files[file_handle] EXCEPT !.seek_lost = TRUE]]
<1>1. file_handle \in 1..Len(files) /\ files \in Seq(FileSet)
  BY LenProperties DEF FileType, NoFile
<1>2. files[file_handle] \in FileSet  BY <1>1, ElementOfSeq
<1>3. ASSUME NEW i \in IndexSet
      PROVE  /\ [files[file_handle] EXCEPT !.index = i] \in FileSet
             /\ [files[file_handle] EXCEPT !.index = i].drive = files[file_handle].drive
             /\ [files EXCEPT ![file_handle].index = i] =
                  [files EXCEPT ![file_handle] = [files[file_handle] EXCEPT !.index = i]]
  BY <1>2 DEF FileSet
<1>4. ASSUME NEW cells \in Seq(Cell)
      PROVE  /\ [files[file_handle] EXCEPT !.data = @ \o cells] \in FileSet
             /\ [files[file_handle] EXCEPT !.data = @ \o cells].drive = files[file_handle].drive
             /\ [files EXCEPT ![file_handle].data = @ \o cells] =
                  [files EXCEPT ![file_handle] = [files[file_handle] EXCEPT !.data = @ \o cells]]
  <2>1. files[file_handle].data \o cells \in Seq(Cell)
    BY <1>2, ConcatProperties DEF FileSet
  <2> QED  BY <1>2, <2>1 DEF FileSet
<1>5. /\ [files[file_handle] EXCEPT !.seek_lost = TRUE] \in FileSet
      /\ [files[file_handle] EXCEPT !.seek_lost = TRUE].drive = files[file_handle].drive
      /\ [files EXCEPT ![file_handle].seek_lost = TRUE] =
           [files EXCEPT ![file_handle] = [files[file_handle] EXCEPT !.seek_lost = TRUE]]
  BY <1>2 DEF FileSet
<1> QED  BY <1>1, <1>2, <1>3, <1>4, <1>5

LEMMA AppendedFile ==
  ASSUME FileType, file_handle # NoFile, NEW cells \in Seq(Cell)
  PROVE  /\ Appended(cells) \in Seq(FileSet) /\ Len(Appended(cells)) = Len(files)
         /\ files' = Appended(cells) => Touched
         /\ ~files[file_handle].seek_lost =>
              Appended(cells)[file_handle] = [files[file_handle] EXCEPT !.data = @ \o cells]
         /\ files[file_handle].seek_lost =>
              Appended(cells)[file_handle].index.entries = {}
<1> DEFINE none == [magic |-> FALSE, entries |-> {}]
<1>1. none \in IndexSet  BY DEF IndexSet
<1>2. CASE files[file_handle].seek_lost
  <2> DEFINE r == [files[file_handle] EXCEPT !.index = none]
  <2>1. Appended(cells) = [files EXCEPT ![file_handle].index = none]
    BY <1>2 DEF Appended
  <2>2. r \in FileSet /\ r.drive = files[file_handle].drive
        /\ Appended(cells) = [files EXCEPT ![file_handle] = r]
    BY <1>1, <2>1, OpenFile
  <2>3. r.index = none  BY OpenFile DEF FileSet
  <2> HIDE DEF r
  <2> QED  BY <1>2, <2>2, <2>3, Replaced
<1>3. CASE ~files[file_handle].seek_lost
  <2> DEFINE r == [files[file_handle] EXCEPT !.data = @ \o cells]
  <2>1. Appended(cells) = [files EXCEPT ![file_handle].data = @ \o cells]
    BY <1>3 DEF Appended
  <2>2. r \in FileSet /\ r.drive = files[file_handle].drive
        /\ Appended(cells) = [files EXCEPT ![file_handle] = r]
    BY <2>1, OpenFile
  <2>3. PICK s : s = r  OBVIOUS
  <2>4. /\ s \in FileSet /\ s.drive = files[file_handle].drive
        /\ Appended(cells) = [files EXCEPT ![file_handle] = s]
    BY <2>2, <2>3
  <2>5. /\ Appended(cells) \in Seq(FileSet) /\ Len(Appended(cells)) = Len(files)
        /\ Appended(cells)[file_handle] = s
        /\ files' = Appended(cells) => Touched
    <3> HIDE DEF r
    <3> QED  BY <2>4, Replaced
  <2> QED  BY <1>3, <2>3, <2>5
<1> QED  BY <1>2, <1>3

\* The cells that a full buffer brings to the disk.
LEMMA SpillTypes ==
  ASSUME Inv, FileInv, pc = "spill"
  PROVE  /\ Cells(cur, next) \in Seq(Cell) /\ Len(Cells(cur, next)) \in Nat \ {0}
         /\ FilledBuffer \in Seq(Cell) /\ Len(FilledBuffer) = Len(writebuffer) + room
         /\ DiskBlock \in Seq(Cell)
         /\ Rest \in Seq(Cell) /\ Roof \in Nat /\ Roof <= Len(Rest)
         /\ \A cells \in 0..Roof : SubSeq(Rest, 1, cells) \in Seq(Cell)
         /\ SubSeq(Rest, Roof + 1, Len(Rest)) \in Seq(Cell)
         /\ dio_buffer_size_ \in Nat \ {0}
<1> USE DEF Inv, TypeOK
<1>1. Cells(cur, next) \in Seq(Cell) /\ Len(Cells(cur, next)) \in Nat \ {0}
  BY InHand, CellsType DEF Writing
<1>2. room \in Nat /\ writebuffer \in Seq(Cell) /\ dio_buffer_size_ \in Nat \ {0}
  BY ConstantsAssumption DEF WorkerType, BufferType, PusherType
<1> DEFINE item == Cells(cur, next)
<1>3. Rest \in Seq(Cell) /\ Len(Rest) \in Nat
  <2>1. \A i \in room + 1 .. Len(item) : item[i] \in Cell
    BY <1>1, <1>2, ElementOfSeq
  <2>2. Rest = SubSeq(item, room + 1, Len(item))  BY DEF Rest
  <2> HIDE DEF item
  <2>3. Len(item) \in Int /\ room + 1 \in Int  BY <1>1, <1>2 DEF item
  <2>4. Rest \in Seq(Cell)  BY <2>1, <2>2, <2>3, SubSeqProperties
  <2> QED  BY <2>4, LenProperties
<1>4. Roof \in Nat /\ Roof <= Len(Rest)
  <2> DEFINE l == Len(Rest)
             d == dio_buffer_size_
  <2>0. l \in Nat /\ d \in Nat \ {0}  BY <1>2, <1>3
  <2>1. Roof = IF l > d THEN (l \div d) * d ELSE 0  BY DEF Roof
  <2> HIDE DEF l, d, Inv, TypeOK
  <2>2. l \div d \in Nat /\ (l % d) \in Nat /\ l = (d * (l \div d)) + (l % d)  BY ONLY <2>0
  <2>3. (l \div d) * d = d * (l \div d) /\ (l \div d) * d \in Nat  BY ONLY <2>2, <2>0
  <2>4. (l \div d) * d <= l  BY ONLY <2>0, <2>2, <2>3
  <2> QED  BY <2>0, <2>1, <2>3, <2>4 DEF l
<1>5. SubSeq(item, 1, room) \in Seq(Cell) /\ Len(SubSeq(item, 1, room)) = room
  <2>1. room \in 1..Len(item)  BY DEF FileInv, HandleInv
  <2>2. \A i \in 1 .. room : item[i] \in Cell  BY <1>1, <1>2, <2>1, ElementOfSeq
  <2> HIDE DEF item
  <2> QED  BY <2>1, <2>2, SubSeqProperties
<1>6. FilledBuffer \in Seq(Cell) /\ Len(FilledBuffer) = Len(writebuffer) + room
  BY <1>2, <1>5, ConcatProperties DEF FilledBuffer
<1>7. DiskBlock \in Seq(Cell)
  <2> DEFINE d == dio_buffer_size_
             b(k) == IF k <= Len(FilledBuffer) THEN FilledBuffer[k] ELSE Junk
  <2>1. Junk \in Cell  BY ConstantsAssumption DEF Junk, Cell
  <2>2. \A k \in 1..d : b(k) \in Cell
    <3> TAKE k \in 1..d
    <3>1. Len(FilledBuffer) \in Nat  BY <1>6, LenProperties
    <3>2. CASE k <= Len(FilledBuffer)
      BY <1>6, <3>1, <3>2, ElementOfSeq
    <3> QED  BY <2>1, <3>2
  <2>3. DiskBlock = [k \in 1..d |-> b(k)]  BY DEF DiskBlock
  <2> HIDE DEF b
  <2>4. [k \in 1..d |-> b(k)] \in Seq(Cell)  BY <1>2, <2>2, IsASeq
  <2> QED  BY <2>3, <2>4
<1>8. ASSUME NEW cells \in 0..Roof PROVE SubSeq(Rest, 1, cells) \in Seq(Cell)
  <2>1. \A i \in 1 .. cells : Rest[i] \in Cell  BY <1>3, <1>4, ElementOfSeq
  <2> QED  BY <1>4, <2>1, SubSeqProperties
<1>9. SubSeq(Rest, Roof + 1, Len(Rest)) \in Seq(Cell)
  <2>1. \A i \in Roof + 1 .. Len(Rest) : Rest[i] \in Cell  BY <1>3, <1>4, ElementOfSeq
  <2> QED  BY <1>3, <1>4, <2>1, SubSeqProperties
<1> QED  BY <1>1, <1>2, <1>3, <1>4, <1>6, <1>7, <1>8, <1>9

\* The position and the entries of an index that was rewound, of a new one, and of
\* one with the entry of the chunk in hand.
LEMMA IndexTypes ==
  ASSUME Inv, FileInv
  PROVE  /\ OnDiskIndex(Rewound) \in IndexSet
         /\ Rewound \in [pos : Nat, magic : BOOLEAN, entries : SUBSET EntrySet]
         /\ [Rewound EXCEPT !.pos = IndexSize]
              \in [pos : Nat, magic : BOOLEAN, entries : SUBSET EntrySet]
         /\ OnDiskIndex(InitBuffer) \in IndexSet
         /\ InitBuffer \in [pos : Nat, magic : BOOLEAN, entries : SUBSET EntrySet]
         /\ pc = "index" =>
              /\ OnDiskIndex(Entered) \in IndexSet /\ Entry \in EntrySet
              /\ Entered \in [pos : Nat, magic : BOOLEAN, entries : SUBSET EntrySet]
              /\ [Entered EXCEPT !.pos = IndexSize]
                   \in [pos : Nat, magic : BOOLEAN, entries : SUBSET EntrySet]
<1> DEFINE Idx == [pos : Nat, magic : BOOLEAN, entries : SUBSET EntrySet]
<1>0. /\ indexer \in Idx /\ file_index_last_pos_ \in Nat /\ IndexSize \in Nat
      /\ MagicSize \in Nat /\ EntrySize \in Nat
  BY ConstantsAssumption DEF FileInv, FileType, MagicSize, EntrySize
<1>1. ASSUME NEW i \in Idx PROVE OnDiskIndex(i) \in IndexSet /\ [i EXCEPT !.pos = IndexSize] \in Idx
  BY <1>0, <1>1 DEF OnDiskIndex, IndexSet
<1>2. Rewound \in Idx
  <2>1. {e \in indexer.entries : e.at + EntrySize <= file_index_last_pos_} \in SUBSET EntrySet
    BY <1>0
  <2>2. (indexer.magic /\ file_index_last_pos_ >= MagicSize) \in BOOLEAN  OBVIOUS
  <2> QED  BY <1>0, <2>1, <2>2 DEF Rewound
<1>3. InitBuffer \in Idx  BY <1>0 DEF InitBuffer
<1>4. ASSUME pc = "index" PROVE Entry \in EntrySet /\ Entered \in Idx
  <2>1. cur \in Chunks  BY <1>4, InHand DEF Naming
  <2>2. Len(writebuffer) \in Nat /\ file_handle \in Nat
    BY LenProperties DEF Inv, TypeOK, BufferType, FileInv, FileType
  <2>3. Len(files[file_handle].data) \in Nat
    <3>1. file_handle # NoFile  BY <1>4 DEF FileInv, HandleInv
    <3>2. files[file_handle] \in FileSet  BY <3>1, OpenFile DEF FileInv
    <3>3. files[file_handle].data \in Seq(Cell)  BY <3>2 DEF FileSet
    <3> QED  BY <3>3, LenProperties
  <2>4. Entry \in EntrySet  BY <1>0, <2>1, <2>2, <2>3 DEF Entry, EntrySet
  <2>5. PICK E : E = {e \in indexer.entries : e.at + EntrySize <= indexer.pos
                                               \/ e.at >= indexer.pos + EntrySize} \cup {Entry}
    OBVIOUS
  <2>6. E \in SUBSET EntrySet /\ indexer.pos + EntrySize \in Nat  BY <1>0, <2>4, <2>5
  <2>7. Entered = [indexer EXCEPT !.pos = indexer.pos + EntrySize, !.entries = E]
    BY <2>5 DEF Entered
  <2> QED  BY <1>0, <2>4, <2>6, <2>7
<1> QED  BY <1>1, <1>2, <1>3, <1>4

\* What a write to the disk, with or without success, leaves of the files.
LEMMA WriteDiskFiles ==
  ASSUME Inv, FileInv, NEW outcome \in Outcomes, NEW cells \in Seq(Cell),
         WriteDisk(outcome, Appended(cells))
  PROVE  /\ files' \in Seq(FileSet) /\ Len(files') = Len(files) /\ Touched
         /\ indexer' \in [pos : Nat, magic : BOOLEAN, entries : SUBSET EntrySet]
         /\ file_index_last_pos_' \in Nat
         /\ faults' \in Nat
         /\ faults' = 0 /\ file_handle # NoFile => outcome = "ok" /\ faults = 0
<1>0. /\ FileType /\ files \in Seq(FileSet) /\ file_index_last_pos_ \in Nat /\ faults \in Nat
      /\ indexer \in [pos : Nat, magic : BOOLEAN, entries : SUBSET EntrySet]
  BY DEF FileInv, FileType
<1>1. faults' \in Nat /\ (faults' = 0 /\ file_handle # NoFile => outcome = "ok" /\ faults = 0)
  BY <1>0 DEF WriteDisk, Writes
<1>2. CASE outcome = "ok"
  <2>1. file_handle # NoFile /\ WriteDiskSuccess(Appended(cells))
    BY <1>2 DEF WriteDisk, Writes
  <2>2. files' = Appended(cells) /\ indexer' = indexer  BY <2>1 DEF WriteDiskSuccess
  <2>3. file_index_last_pos_' \in Nat
    BY <1>0, <2>1 DEF WriteDiskSuccess, EntrySize
  <2> QED  BY <1>0, <1>1, <2>1, <2>2, <2>3, AppendedFile
<1>3. CASE outcome # "ok"
  <2>1. WriteDiskFail(outcome = "dead")  BY <1>3 DEF WriteDisk
  <2>2. /\ indexer' \in [pos : Nat, magic : BOOLEAN, entries : SUBSET EntrySet]
        /\ file_index_last_pos_' = file_index_last_pos_
    BY <2>1, IndexTypes DEF WriteDiskFail
  <2>3. CASE IndexReachable /\ outcome # "dead"
    <3> DEFINE r == [files[file_handle] EXCEPT !.index = OnDiskIndex(Rewound)]
    <3>1. files' = [files EXCEPT ![file_handle].index = OnDiskIndex(Rewound)]
      BY <2>1, <2>3 DEF WriteDiskFail
    <3>2. file_handle # NoFile  BY <2>3 DEF IndexReachable
    <3>3. /\ r \in FileSet /\ r.drive = files[file_handle].drive
          /\ files' = [files EXCEPT ![file_handle] = r]
      BY <1>0, <3>1, <3>2, OpenFile, IndexTypes
    <3> HIDE DEF r
    <3> QED  BY <1>0, <1>1, <2>2, <3>2, <3>3, Replaced
  <2>4. CASE ~(IndexReachable /\ outcome # "dead")
    <3>1. files' = files  BY <2>1, <2>4 DEF WriteDiskFail
    <3> QED  BY <1>0, <1>1, <2>2, <3>1, UntouchedFiles
  <2> QED  BY <2>3, <2>4
<1> QED  BY <1>2, <1>3

\* A step of the disk leaves the files well-typed, and no handle after a failure.
LEMMA DiskFiles ==
  ASSUME Inv, FileInv, DiskStep
  PROVE  FileType' /\ HandleInv' /\ Touched
<1> DEFINE Idx == [pos : Nat, magic : BOOLEAN, entries : SUBSET EntrySet]
           Fine == /\ files' \in Seq(FileSet) /\ Len(files') = Len(files) /\ Touched
                   /\ indexer' \in Idx /\ file_index_last_pos_' \in Nat /\ faults' \in Nat
<1>0. /\ FileType /\ files \in Seq(FileSet) /\ file_index_last_pos_ \in Nat /\ faults \in Nat
      /\ indexer \in Idx /\ file_handle \in 0..Len(files) /\ Len(files) \in Nat
  BY LenProperties DEF FileInv, FileType
<1>1. PICK outcome \in Outcomes :
        WriteFileClose(outcome) \/ Spill(outcome) \/ ProcessFlush(outcome)
  BY DEF DiskStep
<1>2. ASSUME FileClose(outcome) PROVE Fine /\ file_handle' = NoFile
  <2>1. CASE file_handle = NoFile
    BY <1>0, <1>2, <2>1, UntouchedFiles DEF FileClose
  <2>2. CASE file_handle # NoFile
    <3>1. Append(writebuffer, Junk) \in Seq(Cell)
      <4>1. Junk \in Cell  BY ConstantsAssumption DEF Junk, Cell
      <4> QED  BY <4>1, AppendProperties DEF Inv, TypeOK, BufferType
    <3>2. WriteDisk(outcome, Appended(Append(writebuffer, Junk))) /\ file_handle' = NoFile
      BY <1>2, <2>2 DEF FileClose
    <3> QED  BY <3>1, <3>2, WriteDiskFiles
  <2> QED  BY <2>1, <2>2
<1>3. CASE WriteFileClose(outcome)
  <2>1. FileClose(outcome) /\ pc' = "open"  BY <1>3 DEF WriteFileClose
  <2> QED  BY <1>0, <1>2, <2>1 DEF FileType, HandleInv, NoFile, Writing
<1>4. CASE ProcessFlush(outcome)
  <2>1. FileClose(outcome) /\ pc' = "clear"  BY <1>4 DEF ProcessFlush
  <2> QED  BY <1>0, <1>2, <2>1 DEF FileType, HandleInv, NoFile, Writing
<1>5. CASE Spill(outcome)
  <2>0. pc = "spill" /\ pc' = "frame"  BY <1>5 DEF Spill
  <2>1. PICK cells \in 0..Roof :
          IF outcome = "ok" /\ cells < Roof
          THEN /\ file_handle # NoFile
               /\ WriteDiskSuccess(Appended(DiskBlock \o SubSeq(Rest, 1, cells)))
               /\ faults' = faults + 1
               /\ file_handle' = NoFile
          ELSE /\ WriteDisk(outcome, Appended(DiskBlock \o SubSeq(Rest, 1, cells)))
               /\ file_handle' = IF outcome = "dead" THEN NoFile ELSE file_handle
    BY <1>5 DEF Spill
  <2>2. DiskBlock \o SubSeq(Rest, 1, cells) \in Seq(Cell)
    BY <2>0, SpillTypes, ConcatProperties
  <2>3. CASE outcome = "ok" /\ cells < Roof
    <3>1. /\ file_handle # NoFile /\ file_handle' = NoFile /\ faults' = faults + 1
          /\ WriteDiskSuccess(Appended(DiskBlock \o SubSeq(Rest, 1, cells)))
      BY <2>1, <2>3
    <3>2. PICK data : data = DiskBlock \o SubSeq(Rest, 1, cells)  OBVIOUS
    <3>3. /\ Appended(data) \in Seq(FileSet) /\ Len(Appended(data)) = Len(files)
          /\ files' = Appended(data) => Touched
      BY <1>0, <2>2, <3>1, <3>2, AppendedFile
    <3>4. files' = Appended(data) /\ indexer' = indexer  BY <3>1, <3>2 DEF WriteDiskSuccess
    <3>5. file_index_last_pos_' \in Nat  BY <1>0, <3>1 DEF WriteDiskSuccess, EntrySize
    <3>6. Fine  BY <1>0, <3>1, <3>3, <3>4, <3>5
    <3> QED  BY <1>0, <2>0, <3>1, <3>6 DEF FileType, HandleInv, NoFile, Writing
  <2>4. CASE ~(outcome = "ok" /\ cells < Roof)
    <3>1. /\ WriteDisk(outcome, Appended(DiskBlock \o SubSeq(Rest, 1, cells)))
          /\ file_handle' = IF outcome = "dead" THEN NoFile ELSE file_handle
      BY <2>1, <2>4
    <3>2. Fine /\ (faults' = 0 /\ file_handle # NoFile => outcome = "ok" /\ faults = 0)
      BY <2>2, <3>1, WriteDiskFiles
    <3>3. faults' = 0 => file_handle' # NoFile
      <4>1. faults' >= faults  BY <1>0, <3>1 DEF WriteDisk, Writes
      <4>2. ASSUME faults' = 0 PROVE faults = 0  BY <1>0, <4>1, <4>2
      <4>3. faults = 0 => file_handle # NoFile
        BY <2>0 DEF FileInv, HandleInv, Writing
      <4> QED  BY <3>1, <3>2, <4>2, <4>3
    <3>4. file_handle' \in 0..Len(files')  BY <1>0, <3>1, <3>2 DEF NoFile
    <3> QED  BY <2>0, <3>2, <3>3, <3>4 DEF FileType, HandleInv
  <2> QED  BY <2>3, <2>4
<1> QED  BY <1>1, <1>3, <1>4, <1>5

\* A new file: it is the last one, on the drive of the moment, and it is open.
LEMMA OpenStep ==
  ASSUME Inv, FileInv, FileDirectOpen(TRUE)
  PROVE  /\ files' \in Seq(FileSet) /\ Len(files') = Len(files) + 1
         /\ \A h \in 1..Len(files) : files'[h] = files[h]
         /\ files'[Len(files) + 1] =
              [drive |-> save_driver_, index |-> OnDiskIndex(InitBuffer),
               data |-> <<>>, seek_lost |-> FALSE]
         /\ file_handle' = Len(files) + 1 /\ file_handle = NoFile /\ indexer' = InitBuffer
<1> DEFINE new == [drive |-> save_driver_, index |-> OnDiskIndex(InitBuffer),
                   data |-> <<>>, seek_lost |-> FALSE]
<1>1. save_driver_ \in Drives \cup {NoDrive}  BY DEF Inv, TypeOK, PusherType
<1>2. new \in FileSet  BY <1>1, IndexTypes, EmptySeq DEF FileSet
<1>3. /\ files' = Append(files, new) /\ file_handle' = Len(files) + 1
      /\ indexer' = InitBuffer /\ pc = "open"
  BY DEF FileDirectOpen
<1>4. files \in Seq(FileSet) /\ (pc = "open" => file_handle = NoFile)
  BY DEF FileInv, FileType, HandleInv
<1> HIDE DEF new
<1>5. /\ files' \in Seq(FileSet) /\ Len(files') = Len(files) + 1
      /\ \A h \in 1..Len(files) : files'[h] = files[h]
      /\ files'[Len(files) + 1] = new
  BY <1>2, <1>3, <1>4, AppendProperties
<1> QED  BY <1>3, <1>4, <1>5 DEF new

\* The entry of the chunk in hand is written, the file is left where it is, or it
\* is given up with the handle.
LEMMA IndexStep ==
  ASSUME Inv, FileInv, NEW ok \in BOOLEAN, WriteIndexInfo(ok)
  PROVE  /\ pc = "index" /\ file_handle # NoFile
         /\ Touched /\ files' \in Seq(FileSet)
         /\ \/ /\ indexer.pos + EntrySize > IndexSize
               /\ files'[file_handle] = [files[file_handle] EXCEPT !.seek_lost = TRUE]
               /\ UNCHANGED <<indexer, file_handle, faults>> /\ ChunkFailed
            \/ /\ ~(indexer.pos + EntrySize > IndexSize) /\ ok
               /\ files'[file_handle] =
                    [files[file_handle] EXCEPT !.index = OnDiskIndex(Entered)]
               /\ indexer' = Entered /\ UNCHANGED <<file_handle, faults, cur, frameInfos_, status>>
               /\ pc' = "write" /\ next' = 0 /\ fail' = FALSE
            \/ /\ ~ok /\ files' = files /\ file_handle' = NoFile /\ ChunkFailed
               /\ indexer' = [Entered EXCEPT !.pos = IndexSize] /\ faults' = faults + 1
<1>1. pc = "index" /\ file_handle # NoFile /\ FileType /\ files \in Seq(FileSet)
  BY DEF WriteIndexInfo, FileInv, HandleInv, FileType
<1>2. CASE indexer.pos + EntrySize > IndexSize
  <2> DEFINE r == [files[file_handle] EXCEPT !.seek_lost = TRUE]
  <2>1. /\ files' = [files EXCEPT ![file_handle].seek_lost = TRUE]
        /\ UNCHANGED <<indexer, file_handle, faults>> /\ ChunkFailed
    BY <1>2 DEF WriteIndexInfo
  <2>2. r \in FileSet /\ r.drive = files[file_handle].drive
        /\ files' = [files EXCEPT ![file_handle] = r]
    BY <1>1, <2>1, OpenFile
  <2>3. PICK s : s = r  OBVIOUS
  <2>4. files' \in Seq(FileSet) /\ files'[file_handle] = s /\ Touched
    <3>1. /\ s \in FileSet /\ s.drive = files[file_handle].drive
          /\ files' = [files EXCEPT ![file_handle] = s]
      BY <2>2, <2>3
    <3> QED  BY <1>1, <3>1, Replaced
  <2> QED  BY <1>1, <1>2, <2>1, <2>3, <2>4
<1>3. CASE ~(indexer.pos + EntrySize > IndexSize) /\ ok
  <2> DEFINE r == [files[file_handle] EXCEPT !.index = OnDiskIndex(Entered)]
  <2>1. /\ files' = [files EXCEPT ![file_handle].index = OnDiskIndex(Entered)]
        /\ indexer' = Entered /\ UNCHANGED <<file_handle, faults, cur, frameInfos_, status>>
        /\ pc' = "write" /\ next' = 0 /\ fail' = FALSE
    BY <1>1, <1>3 DEF WriteIndexInfo, Writes, reportVars
  <2>2. r \in FileSet /\ r.drive = files[file_handle].drive
        /\ files' = [files EXCEPT ![file_handle] = r]
    BY <1>1, <2>1, OpenFile, IndexTypes
  <2>3. PICK s : s = r  OBVIOUS
  <2>4. files' \in Seq(FileSet) /\ files'[file_handle] = s /\ Touched
    <3>1. /\ s \in FileSet /\ s.drive = files[file_handle].drive
          /\ files' = [files EXCEPT ![file_handle] = s]
      BY <2>2, <2>3
    <3> QED  BY <1>1, <3>1, Replaced
  <2> QED  BY <1>1, <1>3, <2>1, <2>3, <2>4
<1>4. CASE ~(indexer.pos + EntrySize > IndexSize) /\ ~ok
  <2>1. /\ files' = files /\ file_handle' = NoFile /\ ChunkFailed
        /\ indexer' = [Entered EXCEPT !.pos = IndexSize] /\ faults' = faults + 1
    BY <1>1, <1>4 DEF WriteIndexInfo, Writes
  <2> QED  BY <1>1, <1>4, <2>1, UntouchedFiles
<1> QED  BY <1>2, <1>3, <1>4

\* The place of the worker in a chunk, seen from the item in hand: the pusher leaves
\* the chunks that are pushed as they are.
LEMMA CellsStay ==
  ASSUME Inv, [Next]_vars
  PROVE  /\ pushed' \in Seq(Shapes) /\ Len(pushed) \in Nat
         /\ Len(pushed') >= Len(pushed)
         /\ \A c \in 1..Len(pushed) :
              pushed'[c] = pushed[c] /\ \A i : Cells(c, i)' = Cells(c, i)
<1>1. pushed \in Seq(Shapes) /\ Len(pushed) \in Nat
  BY LenProperties DEF Inv, TypeOK, PusherType
<1>2. pushed' = pushed \/ \E shape \in Shapes : pushed' = Append(pushed, shape)
  BY WorkerFrame DEF Next, Pusher, PushBegin, PushDriver, PushEnqueue, MemoryCheck,
     MemoryCheckDio, SetDioBufferSize, QueueCheck, QueueCheckReport, PushFlush, vars, pusherVars
<1>3. /\ pushed' \in Seq(Shapes) /\ Len(pushed') >= Len(pushed)
      /\ \A c \in 1..Len(pushed) : pushed'[c] = pushed[c]
  <2>1. CASE pushed' = pushed  BY <1>1, <2>1
  <2>2. ASSUME NEW shape \in Shapes, pushed' = Append(pushed, shape)
        PROVE  /\ pushed' \in Seq(Shapes) /\ Len(pushed') >= Len(pushed)
               /\ \A c \in 1..Len(pushed) : pushed'[c] = pushed[c]
    BY <1>1, <2>2, AppendProperties
  <2> QED  BY <1>2, <2>1, <2>2
<1> QED  BY <1>1, <1>3 DEF Cells

LEMMA FileInvStep ==
  ASSUME Inv, FileInv, [Next]_vars
  PROVE  FileInv'
<1>0. /\ FileType /\ HandleInv /\ files \in Seq(FileSet) /\ Len(files) \in Nat
      /\ faults \in Nat /\ file_handle \in 0..Len(files)
  BY LenProperties DEF FileInv, FileType
<1>1. CASE DiskStep  BY <1>1, DiskFiles DEF FileInv
<1>2. CASE CloseSavedFile
  <2>1. pc = "loop" /\ pc' = pc  BY <1>2 DEF CloseSavedFile, workerVars
  <2>2. FileType'  BY <1>0, <1>2 DEF CloseSavedFile, FileType, NoFile
  <2> QED  BY <2>1, <2>2 DEF FileInv, HandleInv, Writing
<1>3. ASSUME NEW ok \in BOOLEAN, FileDirectOpen(ok) PROVE FileInv'
  <2>1. CASE ok = TRUE
    <3>1. /\ files' \in Seq(FileSet) /\ Len(files') = Len(files) + 1
          /\ file_handle' = Len(files) + 1 /\ indexer' = InitBuffer
      BY <1>3, <2>1, OpenStep
    <3>2. pc' = "index" /\ UNCHANGED <<file_index_last_pos_, faults>>
      BY <1>3, <2>1 DEF FileDirectOpen
    <3>3. FileType'  BY <1>0, <3>1, <3>2, IndexTypes DEF FileType
    <3>4. HandleInv'  BY <1>0, <3>1, <3>2 DEF HandleInv, Writing, NoFile
    <3> QED  BY <3>3, <3>4 DEF FileInv
  <2>2. CASE ok = FALSE
    <3>1. /\ pc' = "idle" /\ UNCHANGED <<files, file_handle, file_index_last_pos_>>
          /\ indexer' \in {indexer, InitBuffer} /\ faults' = faults + 1
      BY <1>3, <2>2 DEF FileDirectOpen, ChunkFailed
    <3>2. FileType'  BY <1>0, <3>1, IndexTypes DEF FileType
    <3> QED  BY <3>1, <3>2 DEF FileInv, HandleInv, Writing
  <2> QED  BY <1>3, <2>1, <2>2
<1>4. ASSUME NEW ok \in BOOLEAN, WriteIndexInfo(ok) PROVE FileInv'
  <2>0. /\ pc = "index" /\ file_handle # NoFile /\ Len(files') = Len(files)
        /\ files' \in Seq(FileSet) /\ file_index_last_pos_' = file_index_last_pos_
    BY <1>4, IndexStep DEF Touched, WriteIndexInfo
  <2>1. /\ indexer' \in {indexer, Entered, [Entered EXCEPT !.pos = IndexSize]}
        /\ file_handle' \in {NoFile, file_handle} /\ faults' \in {faults, faults + 1}
        /\ pc' \in {"idle", "write"}
        /\ pc' = "write" => file_handle' = file_handle
    BY <1>4, IndexStep DEF ChunkFailed
  <2>2. indexer' \in [pos : Nat, magic : BOOLEAN, entries : SUBSET EntrySet]
    BY <2>0, <2>1, IndexTypes DEF FileInv, FileType
  <2>3. FileType'
    BY <1>0, <2>0, <2>1, <2>2 DEF FileType, NoFile
  <2> QED  BY <1>0, <2>0, <2>1, <2>3 DEF FileInv, HandleInv, Writing
<1>5. CASE WriteBufferToDisk
  <2>1. UNCHANGED <<files, file_handle, indexer, file_index_last_pos_, faults, cur, next, pushed>>
    BY <1>5 DEF WriteBufferToDisk, pusherVars
  <2>2. pc = "write" /\ pc' \in {"spill", "frame"}  BY <1>5 DEF WriteBufferToDisk
  <2>3. ASSUME pc' = "spill" PROVE room' \in 1..Len(Cells(cur, next))
    <3> DEFINE len == Len(Cells(cur, next))
               space == dio_buffer_size_ - Len(writebuffer)
    <3>1. len \in Nat /\ space \in Int
      BY <2>2, InHand, CellsType, LenProperties, ConstantsAssumption
         DEF Writing, Inv, TypeOK, PusherType, BufferType
    <3>2. space > 0 /\ ~(space > len) /\ room' = space
      BY <1>5, <2>3 DEF WriteBufferToDisk
    <3> HIDE DEF len, space
    <3>3. room' \in 1..len  BY <3>1, <3>2
    <3> QED  BY <3>3 DEF len
  <2>4. Cells(cur, next)' = Cells(cur, next)  BY <2>1 DEF Cells
  <2> QED  BY <1>0, <2>1, <2>2, <2>3, <2>4 DEF FileInv, FileType, HandleInv, Writing
<1>6. CASE Untouched /\ Elsewhere
  <2>1. FileType'  BY <1>0, <1>6 DEF FileType, Untouched
  <2>2. CASE UNCHANGED <<pc, cur, next, room>>
    <3>1. pc = "spill" => Cells(cur, next)' = Cells(cur, next)
      BY <2>2, InHand, CellsStay DEF Writing, Cells
    <3> QED  BY <1>0, <1>6, <2>1, <2>2, <3>1 DEF FileInv, HandleInv, Untouched
  <2>3. CASE ~UNCHANGED <<pc, cur, next, room>>
    BY <1>0, <1>6, <2>1, <2>3 DEF FileInv, HandleInv, Untouched, Elsewhere
  <2> QED  BY <2>2, <2>3
<1> QED  BY <1>1, <1>2, <1>3, <1>4, <1>5, <1>6, FileSteps

-----------------------------------------------------------------------------
(***************************************************************************)
(* The recording follows the drive the application names.                  *)
(***************************************************************************)

\* No file is opened before a drive is named.  Between the two assignments of
\* PushVideoChunkBuffer the request for a new file is pending; after them the open
\* file is on the drive, or the request is.
DriveInv ==
  /\ save_driver_ = NoDrive => Coming = 1 /\ file_handle = NoFile /\ push_pc # "push"
  /\ push_pc = "driver" => pushing # NoDrive
  /\ "drive" \notin damage /\ file_handle # NoFile /\ pc \notin {"close", "open"} =>
       \/ change_file_
       \/ push_pc # "driver" /\ files[file_handle].drive = save_driver_

\* The worker takes the request back on its way to close the file.
LEMMA RequestTaken ==
  ASSUME Worker, change_file_' # change_file_
  PROVE  pc' = "close"
BY DEF Worker, ProcessBuffer, CloseSavedFile, PopBuffer, UpdateFileName, WriteFileClose,
   FileDirectOpen, WriteIndexInfo, AddFrameInfo, ChunkDone, WriteBufferToDisk, Spill,
   ProcessFlush, ProcessFlushClear

\* It leaves the change of files with a new one or none, and keeps what is open.
LEMMA HandleSteps ==
  ASSUME Inv, FileInv, [Next]_vars, file_handle' # NoFile
  PROVE  \/ FileDirectOpen(TRUE)
         \/ /\ file_handle' = file_handle /\ Touched
            /\ pc \in {"close", "open"} => pc' \in {"close", "open"}
<1>0. pc = "open" => file_handle = NoFile  BY DEF FileInv, HandleInv
<1>1. ASSUME NEW ok \in BOOLEAN, FileDirectOpen(ok) PROVE FileDirectOpen(TRUE)
  <2>1. CASE ok = TRUE  BY <1>1, <2>1
  <2>2. CASE ok = FALSE  BY <1>0, <1>1, <2>2 DEF FileDirectOpen
  <2> QED  BY <2>1, <2>2
<1>2. ASSUME NEW ok \in BOOLEAN, WriteIndexInfo(ok)
      PROVE  file_handle' = file_handle /\ Touched /\ pc = "index"
  BY <1>2, IndexStep
<1>3. CASE CloseSavedFile  BY <1>3 DEF CloseSavedFile
<1>4. CASE WriteBufferToDisk
  BY <1>4, UntouchedFiles DEF WriteBufferToDisk
<1>5. CASE DiskStep
  <2>1. Touched  BY <1>5, DiskFiles
  <2>2. PICK outcome \in Outcomes :
          WriteFileClose(outcome) \/ Spill(outcome) \/ ProcessFlush(outcome)
    BY <1>5 DEF DiskStep
  <2>3. FileClose(outcome) => file_handle' = NoFile  BY DEF FileClose
  <2>4. Spill(outcome)  BY <2>2, <2>3 DEF WriteFileClose, ProcessFlush
  <2>5. file_handle' \in {NoFile, file_handle} /\ pc = "spill"
    BY <2>4 DEF Spill
  <2> QED  BY <2>1, <2>5
<1>6. CASE Untouched /\ Elsewhere
  <2>1. file_handle' = file_handle /\ Touched  BY <1>6, UntouchedFiles DEF Untouched
  <2>2. ASSUME pc \in {"close", "open"} PROVE pc' = pc
    <3>1. CASE Worker
      BY <1>0, <1>6, <2>1, <2>2, <3>1 DEF Worker, ProcessBuffer, CloseSavedFile, PopBuffer,
         UpdateFileName, WriteFileClose, FileClose, FileDirectOpen, WriteIndexInfo, AddFrameInfo,
         ChunkDone, WriteBufferToDisk, Spill, ProcessFlush, ProcessFlushClear, Untouched
    <3>2. CASE Pusher \/ PushFlush \/ UNCHANGED vars
      BY <3>2, PusherFrame DEF vars, workerVars
    <3> QED  BY <3>1, <3>2 DEF Next
  <2> QED  BY <2>1, <2>2
<1> QED  BY <1>1, <1>2, <1>3, <1>4, <1>5, <1>6, FileSteps

\* What has gone wrong with a stream is not forgotten.
LEMMA DamageStays ==
  ASSUME [Next]_vars
  PROVE  damage \subseteq damage'
BY DEF Next, Pusher, PushBegin, PushDriver, PushEnqueue, MemoryCheck, MemoryCheckDio,
   SetDioBufferSize, QueueCheck, QueueCheckReport, PushFlush, Worker, ProcessBuffer, PopBuffer,
   UpdateFileName, CloseSavedFile, WriteFileClose, FileClose, FileDirectOpen, WriteIndexInfo,
   AddFrameInfo, ChunkDone, WriteBufferToDisk, Spill, ProcessFlush, ProcessFlushClear, vars

LEMMA DriveStep == Inv /\ FileInv /\ DriveInv /\ [Next]_vars => DriveInv'
<1> SUFFICES ASSUME Inv, FileInv, DriveInv, [Next]_vars PROVE DriveInv'  OBVIOUS
<1>0. /\ file_handle \in 0..Len(files) /\ Len(files) \in Nat /\ damage \subseteq damage'
      /\ save_driver_ \in Drives \cup {NoDrive} /\ NoDrive \notin Drives
      /\ Coming \in Nat \ {0}
  BY LenProperties, DamageStays, QueueElements, ConstantsAssumption
     DEF FileInv, FileType, Inv, TypeOK, PusherType
<1>1. ASSUME NEW shape \in Shapes, NEW drive \in Drives, PushBegin(shape, drive) PROVE DriveInv'
  <2>1. UNCHANGED <<file_handle, files, damage, pc, save_driver_>> /\ push_pc = "idle"
    BY <1>1 DEF PushBegin, fileVars, workerVars
  <2>2. Coming' = Coming
    <3>1. ~PushEnqueue  BY <2>1 DEF PushEnqueue
    <3> QED  BY <3>1, QueueSteps
  <2>3. /\ drive = save_driver_ => push_pc' = "push"
        /\ change_file_ => change_file_'
    BY <1>1 DEF PushBegin, Switches
  <2>4. drive # save_driver_ => push_pc' = "driver" /\ (save_driver_ # NoDrive => change_file_')
    BY <1>1 DEF PushBegin, Switches
  <2>5. pushing' = drive  BY <1>1 DEF PushBegin
  <2> QED  BY <1>0, <2>1, <2>2, <2>3, <2>4, <2>5 DEF DriveInv
<1>2. CASE PushDriver
  <2>1. /\ UNCHANGED <<file_handle, files, damage, pc, change_file_>> /\ push_pc = "driver"
        /\ push_pc' = "push" /\ save_driver_' = pushing
    BY <1>2 DEF PushDriver, fileVars, workerVars
  <2> QED  BY <2>1 DEF DriveInv
<1>3. CASE PushEnqueue
  <2>1. /\ UNCHANGED <<file_handle, files, damage, pc, change_file_, save_driver_>>
        /\ push_pc = "push" /\ push_pc' = "memory"
    BY <1>3 DEF PushEnqueue, fileVars, workerVars
  <2> QED  BY <2>1 DEF DriveInv
<1>4. CASE UNCHANGED <<save_driver_, push_pc, change_file_, pushing, file_handle, files, damage,
                       pc, Coming>>
  BY <1>4 DEF DriveInv
<1>5. CASE (Pusher /\ push_pc \notin {"idle", "driver", "push"}) \/ PushFlush
  <2>1. UNCHANGED <<file_handle, files, damage, pc, change_file_, save_driver_>>
    BY <1>5 DEF Pusher, PushBegin, PushDriver, PushEnqueue, MemoryCheck, MemoryCheckDio,
       SetDioBufferSize, QueueCheck, QueueCheckReport, PushFlush, fileVars, workerVars
  <2>2. \/ push_pc' = push_pc /\ pushing' = pushing
        \/ push_pc \notin {"driver", "push"} /\ push_pc' \notin {"driver", "push"}
    BY <1>5 DEF Pusher, PushBegin, PushDriver, PushEnqueue, MemoryCheck, MemoryCheckDio,
       SetDioBufferSize, QueueCheck, QueueCheckReport, PushFlush, pusherVars
  <2>3. Coming' = Coming
    <3>1. ~PushEnqueue  BY <1>5 DEF PushFlush, PushEnqueue, pusherVars
    <3> QED  BY <3>1, QueueSteps
  <2> QED  BY <2>1, <2>2, <2>3 DEF DriveInv
<1>6. CASE Worker
  <2>0. UNCHANGED <<save_driver_, push_pc, pushing, Coming>>
    BY <1>6, WorkerFrame DEF Coming
  <2>1. CASE FileDirectOpen(TRUE)
    <3>1. /\ files'[file_handle'].drive = save_driver_
      BY <2>1, OpenStep
    <3>2. push_pc = "driver" => "drive" \in damage'  BY <2>1 DEF FileDirectOpen
    <3>3. save_driver_ # NoDrive
      <4>1. cur # 0 /\ cur < Coming /\ cur \in Nat
        BY <2>1 DEF FileDirectOpen, Inv, HandInv, Naming, TypeOK, WorkerType
      <4> QED  BY <1>0, <4>1 DEF DriveInv
    <3> QED  BY <2>0, <3>1, <3>2, <3>3 DEF DriveInv
  <2>2. CASE file_handle' = NoFile  BY <2>0, <2>2 DEF DriveInv
  <2>3. CASE /\ file_handle' # NoFile /\ file_handle' = file_handle /\ Touched
             /\ pc \in {"close", "open"} => pc' \in {"close", "open"}
    <3>1. files'[file_handle].drive = files[file_handle].drive
      BY <1>0, <2>3 DEF Touched, NoFile
    <3>2. pc' # "close" => change_file_' = change_file_  BY <1>6, RequestTaken
    <3> QED  BY <1>0, <2>0, <2>3, <3>1, <3>2 DEF DriveInv
  <2> QED  BY <2>1, <2>2, <2>3, HandleSteps
<1>7. CASE UNCHANGED vars
  BY <1>4, <1>7 DEF vars, pusherVars, fileVars, workerVars, Coming
<1> QED
  BY <1>1, <1>2, <1>3, <1>5, <1>6, <1>7 DEF Next, Pusher, MemoryCheck, MemoryCheckDio,
     SetDioBufferSize, QueueCheck, QueueCheckReport

LEMMA InitFileInv == Init => FileInv /\ DriveInv
<1> SUFFICES ASSUME Init PROVE FileInv /\ DriveInv  OBVIOUS
<1>1. /\ files = <<>> /\ file_handle = 0 /\ faults = 0 /\ file_index_last_pos_ = 0
      /\ indexer = [pos |-> 0, magic |-> FALSE, entries |-> {}] /\ pc = "idle"
      /\ push_pc = "idle" /\ pushed = <<>>
  BY DEF Init, NoFile
<1>2. files \in Seq(FileSet) /\ Len(files) = 0 /\ Len(pushed) = 0  BY <1>1, EmptySeq
<1>3. FileType  BY <1>1, <1>2 DEF FileType
<1>4. HandleInv  BY <1>1 DEF HandleInv, Writing
<1>5. DriveInv  BY <1>1, <1>2 DEF DriveInv, NoFile, Coming
<1> QED  BY <1>3, <1>4, <1>5 DEF FileInv

\* The open file is on the drive the application named last, or the next chunk
\* opens another one, whatever steps of the worker fall between the question
\* whether the drive changed, change_file_ and save_driver_ of PushVideoChunkBuffer;
\* the only exception is a file opened exactly between the two assignments.
THEOREM Followed == Spec => []DriveFollowed
<1>1. FileInv /\ Inv /\ [Next]_vars => FileInv'  BY FileInvStep
<1>2. DriveInv => DriveFollowed  BY DEF DriveInv, DriveFollowed
<1> QED  BY <1>1, <1>2, Invariance, InitFileInv, DriveStep, PTL DEF Spec

-----------------------------------------------------------------------------
(***************************************************************************)
(* Where the items of a block are.  The offsets are a sum over the items;  *)
(* what holds of it is proved from the smallest counterexample.            *)
(***************************************************************************)

LEMMA Smallest ==
  ASSUME NEW T, T \subseteq Nat, T # {}
  PROVE  \E x \in T : \A y \in T : x <= y
<1> DEFINE R == OpToRel(<, Nat)
<1>1. IsWellFoundedOn(R, Nat)  BY NatLessThanWellFounded
<1>2. \A x, y \in Nat : y < x => <<y, x>> \in R  BY DEF OpToRel
<1> HIDE DEF R
<1>3. PICK x \in T : \A y \in T : ~(<<y, x>> \in R)  BY <1>1, WFMin
<1>4. \A y \in T : ~(y < x)  BY <1>2, <1>3
<1>5. \A y \in T : y \in Int /\ x \in Int  OBVIOUS
<1>6. ASSUME NEW y \in T PROVE x <= y
  <2>1. ~(y < x) /\ x \in Int /\ y \in Int  BY <1>4, <1>5
  <2> QED  BY ONLY <2>1
<1> QED  BY <1>6

\* A set with 0 and the successor of each of its numbers holds every number.
LEMMA Induction ==
  ASSUME NEW S, 0 \in S, \A n \in Nat : n \in S => n + 1 \in S
  PROVE  Nat \subseteq S
<1> DEFINE T == Nat \ S
<1>1. SUFFICES ASSUME T # {} PROVE FALSE  OBVIOUS
<1>2. PICK x \in T : \A y \in T : x <= y  BY <1>1, Smallest
<1>3. x # 0 /\ x \in Nat  OBVIOUS
<1>4. x - 1 \in Nat /\ x - 1 \notin T  BY <1>2, <1>3
<1>5. x - 1 + 1 = x  BY <1>3
<1> QED  BY <1>4, <1>5

ShapeSet == {s \in Seq([kind : Kinds, size : Nat \ {0}]) : Len(s) \in Nat \ {0}}
Size(shape, i) == IF i = 0 THEN 1 ELSE shape[i].size

\* The offsets of the items of a block at o, and its end.
Sums(w, shape, o, n) == w[0] = o /\ \A i \in 1..n : w[i] = w[i - 1] + Size(shape, i - 1)
Offsets(shape, o) ==
  CHOOSE w : w \in [0..Len(shape) + 1 -> Nat] /\ Sums(w, shape, o, Len(shape) + 1)

LEMMA SizeType ==
  ASSUME NEW shape \in ShapeSet, NEW i \in 0..Len(shape)
  PROVE  Size(shape, i) \in Nat \ {0}
<1>1. CASE i = 0  BY <1>1 DEF Size
<1>2. CASE i # 0
  <2>1. shape \in Seq([kind : Kinds, size : Nat \ {0}]) /\ i \in 1..Len(shape)
    BY <1>2 DEF ShapeSet
  <2>2. shape[i] \in [kind : Kinds, size : Nat \ {0}]  BY <2>1, ElementOfSeq
  <2> QED  BY <1>2, <2>2 DEF Size
<1> QED  BY <1>1, <1>2

LEMMA OffsetsExist ==
  ASSUME NEW shape \in ShapeSet, NEW o \in Nat
  PROVE  /\ Offsets(shape, o) \in [0..Len(shape) + 1 -> Nat]
         /\ Sums(Offsets(shape, o), shape, o, Len(shape) + 1)
<1> DEFINE L == Len(shape) + 1
           S == {n \in Nat : n <= L => \E w \in [0..n -> Nat] : Sums(w, shape, o, n)}
<1>0. L \in Nat /\ L = Len(shape) + 1 /\ Len(shape) \in Nat  BY DEF ShapeSet
<1>1. 0 \in S
  <2> DEFINE w == [i \in 0..0 |-> o]
  <2>1. w \in [0..0 -> Nat] /\ Sums(w, shape, o, 0)  BY DEF Sums
  <2> HIDE DEF w
  <2> QED  BY <2>1
<1>2. ASSUME NEW n \in Nat, n \in S PROVE n + 1 \in S
  <2>1. SUFFICES ASSUME n + 1 <= L
                 PROVE  \E w \in [0..n + 1 -> Nat] : Sums(w, shape, o, n + 1)
    OBVIOUS
  <2>2. n <= L /\ n \in 0..Len(shape)  BY <1>0, <2>1
  <2>3. PICK v \in [0..n -> Nat] : Sums(v, shape, o, n)  BY <1>2, <2>2
  <2>4. Size(shape, n) \in Nat  BY <2>2, SizeType
  <2> DEFINE w == [i \in 0..n + 1 |-> IF i <= n THEN v[i] ELSE v[n] + Size(shape, n)]
  <2>5. w \in [0..n + 1 -> Nat]  BY <2>4
  <2>6. w[0] = o  BY <2>3 DEF Sums
  <2>7. ASSUME NEW i \in 1..n + 1 PROVE w[i] = w[i - 1] + Size(shape, i - 1)
    <3>1. CASE i <= n
      <4>1. i \in 1..n /\ i \in 0..n + 1 /\ i - 1 \in 0..n + 1 /\ i - 1 <= n  BY <3>1
      <4>2. w[i] = v[i] /\ w[i - 1] = v[i - 1]  BY <3>1, <4>1
      <4> QED  BY <2>3, <4>1, <4>2 DEF Sums
    <3>2. CASE ~(i <= n)
      <4>1. i = n + 1 /\ i - 1 = n /\ n \in 0..n + 1  BY <3>2
      <4>2. w[i] = v[n] + Size(shape, n) /\ w[n] = v[n]  BY <3>2, <4>1
      <4> QED  BY <4>1, <4>2
    <3> QED  BY <3>1, <3>2
  <2> HIDE DEF w
  <2> QED  BY <2>5, <2>6, <2>7 DEF Sums
<1> HIDE DEF S
<1>3. Nat \subseteq S  BY <1>1, <1>2, Induction
<1>4. PICK n : n = L  OBVIOUS
<1> HIDE DEF L
<1>5. n \in S /\ n <= L  BY <1>0, <1>3, <1>4
<1>6. \E w \in [0..n -> Nat] : Sums(w, shape, o, n)  BY <1>5 DEF S
<1> USE DEF L
<1> QED  BY <1>4, <1>6 DEF Offsets

\* The offsets are the only ones with these sums.
LEMMA OffsetsUnique ==
  ASSUME NEW shape \in ShapeSet, NEW o \in Nat, NEW w, NEW m \in 0..Len(shape) + 1,
         Sums(w, shape, o, m)
  PROVE  \A i \in 0..m : w[i] = Offsets(shape, o)[i]
<1> DEFINE v == Offsets(shape, o)
           S == {n \in Nat : n <= m => w[n] = v[n]}
<1>0. /\ v[0] = o /\ \A i \in 1..Len(shape) + 1 : v[i] = v[i - 1] + Size(shape, i - 1)
      /\ w[0] = o /\ \A i \in 1..m : w[i] = w[i - 1] + Size(shape, i - 1)
      /\ Len(shape) \in Nat /\ m \in Nat
  <2>1. Sums(v, shape, o, Len(shape) + 1)  BY OffsetsExist
  <2>2. Len(shape) \in Nat  BY DEF ShapeSet
  <2> HIDE DEF v
  <2> QED  BY <2>1, <2>2 DEF Sums
<1> HIDE DEF v
<1>1. 0 \in S  BY <1>0
<1>2. ASSUME NEW n \in Nat, n \in S PROVE n + 1 \in S
  <2>1. SUFFICES ASSUME n + 1 <= m PROVE w[n + 1] = v[n + 1]  OBVIOUS
  <2>2. n <= m /\ n + 1 \in 1..m /\ n + 1 \in 1..Len(shape) + 1 /\ n + 1 - 1 = n
    BY <1>0, <2>1
  <2>3. w[n] = v[n]  BY <1>2, <2>2
  <2>4. w[n + 1] = w[n] + Size(shape, n) /\ v[n + 1] = v[n] + Size(shape, n)
    BY <1>0, <2>2
  <2> QED  BY <2>3, <2>4
<1> HIDE DEF S
<1>3. Nat \subseteq S  BY <1>1, <1>2, Induction
<1> QED  BY <1>0, <1>3 DEF S, v

\* The items 0..n of the block of chunk c are at o in s.
BlockUpTo(s, shape, c, o, n) ==
  \A i \in 0..n : \A k \in 1..Size(shape, i) :
    /\ Offsets(shape, o)[i] + k <= Len(s)
    /\ s[Offsets(shape, o)[i] + k] = <<c, i>>

\* What is appended to a stream leaves its blocks where they are...
LEMMA BlockStays ==
  ASSUME NEW s \in Seq(Cell), NEW t \in Seq(Cell), NEW shape \in ShapeSet, NEW c,
         NEW o \in Nat, NEW n \in Int, n <= Len(shape), BlockUpTo(s, shape, c, o, n)
  PROVE  BlockUpTo(s \o t, shape, c, o, n)
<1> SUFFICES ASSUME NEW i \in 0..n, NEW k \in 1..Size(shape, i)
             PROVE  /\ Offsets(shape, o)[i] + k <= Len(s \o t)
                    /\ (s \o t)[Offsets(shape, o)[i] + k] = <<c, i>>
  BY DEF BlockUpTo
<1>1. /\ Offsets(shape, o)[i] + k <= Len(s)
      /\ s[Offsets(shape, o)[i] + k] = <<c, i>>
  BY DEF BlockUpTo
<1>2. Offsets(shape, o)[i] \in Nat /\ k \in Nat \ {0}
  <2>1. i \in 0..Len(shape) /\ i \in 0..Len(shape) + 1  BY DEF ShapeSet
  <2> QED  BY <2>1, OffsetsExist, SizeType
<1>3. /\ Len(s) \in Nat /\ Len(t) \in Nat /\ Len(s \o t) = Len(s) + Len(t)
      /\ \A j \in 1..Len(s) + Len(t) : (s \o t)[j] = IF j <= Len(s) THEN s[j] ELSE t[j - Len(s)]
  BY LenProperties, ConcatProperties
<1> DEFINE j == Offsets(shape, o)[i] + k
<1>4. j \in 1..Len(s) + Len(t) /\ j <= Len(s)  BY <1>1, <1>2, <1>3
<1> HIDE DEF j
<1> QED  BY <1>1, <1>3, <1>4 DEF j

\* ... and the next item comes to lie where the block goes on.
EndsBlock(s, shape, c, o, n) == BlockUpTo(s, shape, c, o, n - 1) /\ Len(s) = Offsets(shape, o)[n]
IsItem(t, shape, c, n) == Len(t) = Size(shape, n) /\ \A k \in 1..Len(t) : t[k] = <<c, n>>

LEMMA BlockGrows ==
  ASSUME NEW s \in Seq(Cell), NEW t \in Seq(Cell), NEW shape \in ShapeSet, NEW c,
         NEW o \in Nat, NEW n \in 0..Len(shape),
         EndsBlock(s, shape, c, o, n), IsItem(t, shape, c, n)
  PROVE  EndsBlock(s \o t, shape, c, o, n + 1)
<1>a. BlockUpTo(s, shape, c, o, n - 1) /\ Len(s) = Offsets(shape, o)[n]  BY DEF EndsBlock
<1>b. Len(t) = Size(shape, n) /\ \A k \in 1..Len(t) : t[k] = <<c, n>>  BY DEF IsItem
<1>0. /\ Len(s) \in Nat /\ Len(t) \in Nat /\ Len(s \o t) = Len(s) + Len(t)
      /\ \A j \in 1..Len(s) + Len(t) : (s \o t)[j] = IF j <= Len(s) THEN s[j] ELSE t[j - Len(s)]
      /\ Len(shape) \in Nat
  BY LenProperties, ConcatProperties DEF ShapeSet
<1>1. Len(s \o t) = Offsets(shape, o)[n + 1]
  <2>1. n + 1 \in 1..Len(shape) + 1 /\ n + 1 - 1 = n  BY <1>0
  <2>2. PICK w : w = Offsets(shape, o)  OBVIOUS
  <2>3. Sums(w, shape, o, Len(shape) + 1)  BY <2>2, OffsetsExist
  <2>4. w[n + 1] = w[n] + Size(shape, n)  BY ONLY <2>1, <2>3 DEF Sums
  <2> QED  BY <1>0, <1>a, <1>b, <2>2, <2>4
<1>2. ASSUME NEW i \in 0..n, NEW k \in 1..Size(shape, i)
      PROVE  /\ Offsets(shape, o)[i] + k <= Len(s \o t)
             /\ (s \o t)[Offsets(shape, o)[i] + k] = <<c, i>>
  <2>1. CASE i # n
    <3>0. PICK m \in Int : m = n - 1 /\ m <= Len(shape)  BY <1>0
    <3>1. BlockUpTo(s, shape, c, o, m)  BY <1>a, <3>0
    <3>2. BlockUpTo(s \o t, shape, c, o, m)
      BY ONLY <3>0, <3>1, s \in Seq(Cell), t \in Seq(Cell), shape \in ShapeSet, o \in Nat, BlockStays
    <3>3. i \in 0..m  BY <2>1, <3>0
    <3> QED  BY <3>2, <3>3 DEF BlockUpTo
  <2>2. CASE i = n
    <3> DEFINE j == Len(s) + k
    <3>1. k \in 1..Len(t)  BY <1>b, <2>2
    <3>2. Len(s) \in Nat /\ Len(t) \in Nat /\ k \in Nat /\ k \in 1..Len(t)  BY <1>0, <3>1
    <3>3. j \in 1..Len(s) + Len(t) /\ ~(j <= Len(s)) /\ j - Len(s) = k /\ j <= Len(s) + Len(t)
      BY ONLY <3>2
    <3> HIDE DEF j
    <3>4. (s \o t)[j] = IF j <= Len(s) THEN s[j] ELSE t[j - Len(s)]  BY <1>0, <3>3
    <3>5. (s \o t)[j] = t[k]  BY ONLY <3>3, <3>4
    <3>6. j <= Len(s \o t)  BY <1>0, <3>3
    <3> QED  BY <1>a, <1>b, <2>2, <3>1, <3>5, <3>6 DEF j
  <2> QED  BY <2>1, <2>2
<1>3. BlockUpTo(s \o t, shape, c, o, n)  BY <1>2 DEF BlockUpTo
<1>4. n + 1 - 1 = n  BY <1>0
<1> QED  BY <1>1, <1>3, <1>4 DEF EndsBlock

LEMMA ItemType ==
  ASSUME TypeOK, NEW c \in 1..Len(pushed)
  PROVE  /\ pushed[c] \in ShapeSet
         /\ \A i \in 0..Len(pushed[c]) :
              /\ Cells(c, i) \in Seq(Cell) /\ Len(Cells(c, i)) = Size(pushed[c], i)
              /\ \A k \in 1..Len(Cells(c, i)) : Cells(c, i)[k] = <<c, i>>
<1>1. /\ pushed[c] \in Seq([kind : Kinds, size : Nat \ {0}])
      /\ Len(pushed[c]) \in 1..MaxFrames /\ MaxFrames \in Nat
  BY ShapeType, ConstantsAssumption
<1>2. pushed[c] \in ShapeSet  BY <1>1 DEF ShapeSet
<1>3. ASSUME NEW i \in 0..Len(pushed[c])
      PROVE  /\ Cells(c, i) \in Seq(Cell) /\ Len(Cells(c, i)) = Size(pushed[c], i)
             /\ \A k \in 1..Len(Cells(c, i)) : Cells(c, i)[k] = <<c, i>>
  <2>1. Size(pushed[c], i) \in Nat /\ Cells(c, i) \in Seq(Cell)
    BY <1>2, CellsType, SizeType
  <2>2. Cells(c, i) = [k \in 1..Size(pushed[c], i) |-> <<c, i>>]  BY DEF Cells, Size
  <2>3. DOMAIN Cells(c, i) = 1..Size(pushed[c], i)  BY <2>2
  <2>4. DOMAIN Cells(c, i) = 1..Len(Cells(c, i)) /\ Len(Cells(c, i)) \in Nat
    BY <2>1, LenProperties
  <2>5. Len(Cells(c, i)) = Size(pushed[c], i)
    BY <2>1, <2>3, <2>4
  <2> QED  BY <2>1, <2>2, <2>5
<1> QED  BY <1>2, <1>3

\* A whole block is what an index entry should lead to.
LEMMA WholeBlock ==
  ASSUME TypeOK, NEW c \in 1..Len(pushed), NEW o \in Nat, NEW s,
         BlockUpTo(s, pushed[c], c, o, Len(pushed[c]))
  PROVE  IsBlockAt(s, c, o)
<1> DEFINE shape == pushed[c]
           L == Len(pushed[c])
           size == [i \in 0..L |-> Len(Cells(c, i))]
           Eq(g) == g = [i \in 0..L |-> IF i = 0 THEN o ELSE g[i - 1] + size[i - 1]]
           start == CHOOSE g : Eq(g)
<1>0. shape \in ShapeSet /\ L \in Nat /\ L = Len(shape)  BY ItemType DEF ShapeSet
<1>1. \A i \in 0..L : size[i] = Size(shape, i)  BY ItemType
<1>2. PICK w : w = [i \in 0..L |-> Offsets(shape, o)[i]]  OBVIOUS
<1>3. Sums(Offsets(shape, o), shape, o, L + 1)  BY <1>0, OffsetsExist
<1>4. Eq(w)
  <2>1. w[0] = o /\ \A i \in 1..L : w[i] = w[i - 1] + size[i - 1]
    <3>1. w[0] = o  BY <1>0, <1>2, <1>3 DEF Sums
    <3>2. ASSUME NEW i \in 1..L PROVE w[i] = w[i - 1] + size[i - 1]
      <4>1. i \in 0..L /\ i - 1 \in 0..L /\ i \in 1..L + 1  BY <1>0
      <4>2. Offsets(shape, o)[i] = Offsets(shape, o)[i - 1] + Size(shape, i - 1)
        BY <1>3, <4>1 DEF Sums
      <4>3. w[i] = Offsets(shape, o)[i] /\ w[i - 1] = Offsets(shape, o)[i - 1]
        BY <1>2, <4>1
      <4>4. size[i - 1] = Size(shape, i - 1)  BY <1>1, <4>1
      <4> QED  BY <4>2, <4>3, <4>4
    <3> QED  BY <3>1, <3>2
  <2> HIDE DEF shape, L, size
  <2>2. \A i \in 0..L : w[i] = IF i = 0 THEN o ELSE w[i - 1] + size[i - 1]
    <3> TAKE i \in 0..L
    <3>1. i = 0 \/ i \in 1..L  BY <1>0
    <3> QED  BY <2>1, <3>1
  <2>3. DOMAIN w = 0..L /\ w = [i \in 0..L |-> w[i]]  BY <1>2
  <2> QED  BY <2>2, <2>3
<1>5. Eq(start)  BY <1>4
<1>6. \A i \in 0..L : start[i] = Offsets(shape, o)[i]
  <2>1. Sums(start, shape, o, L)
    <3>1. start[0] = o /\ \A i \in 1..L : start[i] = start[i - 1] + size[i - 1]
      <4> HIDE DEF start, size, shape, L
      <4> QED  BY <1>0, <1>5
    <3>2. \A i \in 1..L : i - 1 \in 0..L  BY <1>0
    <3> HIDE DEF start, size, shape, L
    <3> QED  BY <1>1, <3>1, <3>2 DEF Sums
  <2> HIDE DEF start
  <2> QED  BY <1>0, <2>1, OffsetsUnique
<1>7. \A i \in 0..L : \A k \in 1..size[i] :
        start[i] + k <= Len(s) /\ s[start[i] + k] = <<c, i>>
  <2> HIDE DEF start, size
  <2> QED  BY <1>1, <1>6 DEF BlockUpTo
<1> QED  BY <1>7 DEF IsBlockAt

-----------------------------------------------------------------------------
(***************************************************************************)
(* The entries of the index, in memory and on disk.                        *)
(***************************************************************************)

\* An entry is of a chunk whose turn has come, for a file that exists.
Due(e) == ~Ahead(<<e.chunk, 0>>) /\ e.file \in 1..Len(files)

EntryInv ==
  /\ \A e \in indexer.entries : Due(e)
  /\ \A h \in 1..Len(files) : \A e \in files[h].index.entries : Due(e)

\* A step enters the chunk in hand; every other entry it leaves was one before.
Entering(e) == \E ok \in BOOLEAN : WriteIndexInfo(ok) /\ e = Entry
Known(e) ==
  e \in indexer.entries \/ \E h \in 1..Len(files) : e \in files[h].index.entries

LEMMA NoNewEntries ==
  ASSUME Inv, FileInv, NEW outcome \in Outcomes, NEW cells \in Seq(Cell),
         IF outcome = "ok" THEN file_handle # NoFile /\ WriteDiskSuccess(Appended(cells))
                           ELSE WriteDiskFail(outcome = "dead")
  PROVE  /\ \A e \in indexer'.entries : e \in indexer.entries
         /\ \A h \in 1..Len(files) : \A e \in files'[h].index.entries : Known(e)
<1>0. /\ FileType /\ files \in Seq(FileSet)
      /\ indexer \in [pos : Nat, magic : BOOLEAN, entries : SUBSET EntrySet]
  BY DEF FileInv, FileType
<1>1. CASE outcome = "ok"
  <2>1. /\ files' = Appended(cells) /\ indexer' = indexer /\ file_handle # NoFile
    BY <1>1 DEF WriteDiskSuccess
  <2>2. files[file_handle] \in FileSet  BY <1>0, <2>1, OpenFile
  <2>3. files'[file_handle].index.entries \subseteq files[file_handle].index.entries
    <3>1. CASE files[file_handle].seek_lost  BY <1>0, <2>1, <3>1, AppendedFile
    <3>2. CASE ~files[file_handle].seek_lost
      <4>1. files'[file_handle] = [files[file_handle] EXCEPT !.data = @ \o cells]
        BY <1>0, <2>1, <3>2, AppendedFile
      <4> QED  BY <2>2, <4>1 DEF FileSet
    <3> QED  BY <3>1, <3>2
  <2>4. Touched  BY <1>0, <2>1, AppendedFile
  <2> QED  BY <2>1, <2>3, <2>4 DEF Touched, Known
<1>2. CASE outcome # "ok"
  <2>1. /\ indexer' = IF outcome = "dead" THEN [Rewound EXCEPT !.pos = IndexSize] ELSE Rewound
        /\ files' = IF IndexReachable /\ outcome # "dead"
                    THEN [files EXCEPT ![file_handle].index = OnDiskIndex(Rewound)] ELSE files
    BY <1>2 DEF WriteDiskFail
  <2>2. Rewound.entries \subseteq indexer.entries  BY DEF Rewound
  <2>3. indexer'.entries = Rewound.entries
    <3>1. Rewound \in [pos : Nat, magic : BOOLEAN, entries : SUBSET EntrySet]  BY IndexTypes
    <3> QED  BY <2>1, <3>1
  <2>4. CASE IndexReachable /\ outcome # "dead"
    <3> DEFINE r == [files[file_handle] EXCEPT !.index = OnDiskIndex(Rewound)]
    <3>1. file_handle # NoFile  BY <2>4 DEF IndexReachable
    <3>2. /\ r \in FileSet /\ r.drive = files[file_handle].drive
          /\ files' = [files EXCEPT ![file_handle] = r]
          /\ files[file_handle] \in FileSet
      BY <1>0, <2>1, <2>4, <3>1, OpenFile, IndexTypes
    <3>3. PICK s : s = r  OBVIOUS
    <3>4. s.index.entries = Rewound.entries  BY <3>2, <3>3 DEF FileSet, OnDiskIndex
    <3>5. files'[file_handle] = s /\ Touched
      <4>1. s \in FileSet /\ s.drive = files[file_handle].drive
            /\ files' = [files EXCEPT ![file_handle] = s]
        BY <3>2, <3>3
      <4> QED  BY <1>0, <3>1, <4>1, Replaced
    <3> QED  BY <2>2, <2>3, <3>4, <3>5 DEF Touched, Known
  <2>5. CASE ~(IndexReachable /\ outcome # "dead")
    <3>1. files' = files  BY <2>1, <2>5
    <3> QED  BY <2>2, <2>3, <3>1 DEF Known
  <2> QED  BY <2>4, <2>5
<1> QED  BY <1>1, <1>2

LEMMA NewEntries ==
  ASSUME Inv, FileInv, [Next]_vars
  PROVE  /\ \A e \in indexer'.entries : Known(e) \/ Entering(e)
         /\ \A h \in 1..Len(files') : \A e \in files'[h].index.entries : Known(e) \/ Entering(e)
<1>0. /\ FileType /\ files \in Seq(FileSet) /\ Len(files) \in Nat
      /\ indexer \in [pos : Nat, magic : BOOLEAN, entries : SUBSET EntrySet]
  BY LenProperties DEF FileInv, FileType
<1> DEFINE Goal == /\ \A e \in indexer'.entries : Known(e) \/ Entering(e)
                   /\ \A h \in 1..Len(files') :
                        \A e \in files'[h].index.entries : Known(e) \/ Entering(e)
<1>1. ASSUME UNCHANGED <<files, indexer>> PROVE Goal
  BY <1>1 DEF Known
<1>2. CASE DiskStep
  <2>1. PICK outcome \in Outcomes :
          WriteFileClose(outcome) \/ Spill(outcome) \/ ProcessFlush(outcome)
    BY <1>2 DEF DiskStep
  <2>2. Len(files') = Len(files)  BY <1>2, DiskFiles DEF Touched
  <2>3. ASSUME FileClose(outcome) PROVE Goal
    <3>1. CASE file_handle = NoFile  BY <1>1, <2>3, <3>1 DEF FileClose
    <3>2. CASE file_handle # NoFile
      <4>1. Append(writebuffer, Junk) \in Seq(Cell)
        <5>1. Junk \in Cell  BY ConstantsAssumption DEF Junk, Cell
        <5> QED  BY <5>1, AppendProperties DEF Inv, TypeOK, BufferType
      <4>2. WriteDisk(outcome, Appended(Append(writebuffer, Junk)))
        BY <2>3, <3>2 DEF FileClose
      <4> QED  BY <2>2, <3>2, <4>1, <4>2, NoNewEntries DEF WriteDisk, Known
    <3> QED  BY <3>1, <3>2
  <2>4. ASSUME Spill(outcome) PROVE Goal
    <3>1. PICK cells \in 0..Roof :
            IF outcome = "ok" /\ cells < Roof
            THEN /\ file_handle # NoFile
                 /\ WriteDiskSuccess(Appended(DiskBlock \o SubSeq(Rest, 1, cells)))
            ELSE WriteDisk(outcome, Appended(DiskBlock \o SubSeq(Rest, 1, cells)))
      BY <2>4 DEF Spill
    <3>2. DiskBlock \o SubSeq(Rest, 1, cells) \in Seq(Cell)
      BY <2>4, SpillTypes, ConcatProperties DEF Spill
    <3>3. IF outcome = "ok"
          THEN /\ file_handle # NoFile
               /\ WriteDiskSuccess(Appended(DiskBlock \o SubSeq(Rest, 1, cells)))
          ELSE WriteDiskFail(outcome = "dead")
      BY <3>1 DEF WriteDisk, Writes
    <3> QED  BY <2>2, <3>2, <3>3, NoNewEntries DEF Known
  <2> QED  BY <2>1, <2>3, <2>4 DEF WriteFileClose, ProcessFlush
<1>3. CASE CloseSavedFile  BY <1>1, <1>3 DEF CloseSavedFile
<1>4. CASE WriteBufferToDisk  BY <1>1, <1>4 DEF WriteBufferToDisk
<1>5. ASSUME NEW ok \in BOOLEAN, FileDirectOpen(ok) PROVE Goal
  <2>0. InitBuffer.entries = indexer.entries  BY <1>0 DEF InitBuffer
  <2>1. CASE ok = TRUE
    <3>1. /\ Len(files') = Len(files) + 1 /\ indexer' = InitBuffer
          /\ \A h \in 1..Len(files) : files'[h] = files[h]
          /\ files'[Len(files) + 1].index.entries = InitBuffer.entries
      BY <1>5, <2>1, OpenStep DEF OnDiskIndex
    <3>2. \A h \in 1..Len(files') : h \in 1..Len(files) \/ h = Len(files) + 1
      BY <1>0, <3>1
    <3> QED  BY <2>0, <3>1, <3>2 DEF Known
  <2>2. CASE ok = FALSE
    <3>1. files' = files /\ indexer' \in {indexer, InitBuffer}
      BY <1>5, <2>2 DEF FileDirectOpen
    <3> QED  BY <2>0, <3>1 DEF Known
  <2> QED  BY <2>1, <2>2
<1>6. ASSUME NEW ok \in BOOLEAN, WriteIndexInfo(ok) PROVE Goal
  <2>1. Len(files') = Len(files) /\ Touched /\ file_handle # NoFile /\ pc = "index"
    BY <1>6, IndexStep DEF Touched
  <2>2. files[file_handle] \in FileSet  BY <1>0, <2>1, OpenFile
  <2>3. Entered.entries \subseteq indexer.entries \cup {Entry}
        /\ [Entered EXCEPT !.pos = IndexSize].entries = Entered.entries
    <3>1. Entered \in [pos : Nat, magic : BOOLEAN, entries : SUBSET EntrySet]
      BY <2>1, IndexTypes
    <3>2. Entered.entries \subseteq indexer.entries \cup {Entry}  BY <1>0 DEF Entered
    <3> QED  BY <3>1, <3>2
  <2>4. indexer'.entries \subseteq indexer.entries \cup {Entry}
    BY <1>6, <2>3, IndexStep
  <2>5. files'[file_handle].index.entries
          \subseteq files[file_handle].index.entries \cup indexer.entries \cup {Entry}
    <3>1. \/ files'[file_handle] = [files[file_handle] EXCEPT !.seek_lost = TRUE]
          \/ files'[file_handle] = [files[file_handle] EXCEPT !.index = OnDiskIndex(Entered)]
          \/ files'[file_handle] = files[file_handle]
      BY <1>6, IndexStep
    <3> QED  BY <2>2, <2>3, <3>1 DEF FileSet, OnDiskIndex
  <2>6. Entering(Entry)  BY <1>6 DEF Entering
  <2>7. \A h \in 1..Len(files) : h # file_handle => files'[h] = files[h]
    BY <2>1 DEF Touched
  <2> QED  BY <2>1, <2>4, <2>5, <2>6, <2>7 DEF Known
<1>7. CASE Untouched  BY <1>1, <1>7 DEF Untouched
<1> QED  BY <1>2, <1>3, <1>4, <1>5, <1>6, <1>7, FileSteps

\* No file goes away.
LEMMA FilesStay ==
  ASSUME Inv, FileInv, [Next]_vars
  PROVE  /\ Len(files) \in Nat /\ Len(files') \in Nat /\ Len(files') >= Len(files)
         /\ Len(files') # Len(files) => FileDirectOpen(TRUE)
<1>0. Len(files) \in Nat  BY LenProperties DEF FileInv, FileType
<1>1. ASSUME NEW ok \in BOOLEAN, FileDirectOpen(ok), Len(files') # Len(files)
      PROVE  FileDirectOpen(TRUE) /\ Len(files') = Len(files) + 1
  <2>1. ok = TRUE  BY <1>1 DEF FileDirectOpen
  <2> QED  BY <1>1, <2>1, OpenStep
<1>2. ASSUME NEW ok \in BOOLEAN, WriteIndexInfo(ok) PROVE Len(files') = Len(files)
  BY <1>2, IndexStep DEF Touched
<1>3. DiskStep => Len(files') = Len(files)  BY DiskFiles DEF Touched
<1>4. Untouched \/ CloseSavedFile \/ WriteBufferToDisk => Len(files') = Len(files)
  BY DEF Untouched, CloseSavedFile, WriteBufferToDisk
<1>5. ~(\E ok \in BOOLEAN : FileDirectOpen(ok)) => Len(files') = Len(files)
  BY <1>2, <1>3, <1>4, FileSteps
<1>6. Len(files') # Len(files) => FileDirectOpen(TRUE) /\ Len(files') = Len(files) + 1
  BY <1>1, <1>5
<1>7. Len(files') \in Nat /\ Len(files') >= Len(files)
  <2>1. CASE Len(files') = Len(files)  BY <1>0, <2>1
  <2>2. CASE Len(files') = Len(files) + 1  BY <1>0, <2>2
  <2> QED  BY <1>6, <2>1, <2>2
<1> QED  BY <1>0, <1>6, <1>7

LEMMA EntryStep == Inv /\ FileInv /\ EntryInv /\ [Next]_vars => EntryInv'
<1> SUFFICES ASSUME Inv, FileInv, EntryInv, [Next]_vars PROVE EntryInv'  OBVIOUS
<1>0. Len(files) \in Nat /\ Len(files') \in Nat /\ Len(files') >= Len(files) /\ FileType
      /\ Inv' /\ FileInv'
  BY FilesStay, InvStep, FileInvStep DEF FileInv
<1>1. ASSUME NEW e, Known(e) \/ Entering(e), e \in EntrySet PROVE Due(e)'
  <2>0. e.chunk \in Chunks  BY <1>1 DEF EntrySet
  <2>1. CASE Known(e)
    <3>1. Due(e)  BY <2>1 DEF Known, EntryInv
    <3>2. <<e.chunk, 0>> \in Frames \cup (Chunks \X {0})  BY <2>0
    <3>3. ~Ahead(<<e.chunk, 0>>)'  BY <3>1, <3>2, AheadStep DEF Due
    <3>4. e.file \in 1..Len(files')  BY <1>0, <3>1 DEF Due
    <3> QED  BY <3>3, <3>4 DEF Due
  <2>2. ASSUME NEW ok \in BOOLEAN, WriteIndexInfo(ok), e = Entry PROVE Due(e)'
    <3>1. /\ e.chunk = cur /\ e.file = file_handle /\ pc = "index" /\ file_handle # NoFile
      BY <2>2, IndexStep DEF Entry
    <3>2. file_handle \in 1..Len(files)  BY <1>0, <3>1, OpenFile
    <3>3. /\ cur < Coming /\ cur # 0 /\ cur \in Nat /\ Coming \in Nat
          /\ \A i \in 1..Len(media_buffers) : media_buffers[i] # cur
      BY <3>1, QueueElements DEF Inv, HandInv, Naming, TypeOK, WorkerType
    <3>4. UNCHANGED <<media_buffers, push_pc, pushed>>
      BY <2>2 DEF WriteIndexInfo, pusherVars, queueVars
    <3>5. \/ cur' = 0
          \/ pc' = "write" /\ next' = 0
      BY <2>2, IndexStep DEF ChunkFailed
    <3>6. ~(cur >= Coming)  BY <3>3
    <3>7. ~(cur = cur' /\ (pc' \in Naming \/ (pc' \in Writing /\ 0 > next')))
      BY <3>3, <3>5 DEF Naming
    <3>8. ~Ahead(<<e.chunk, 0>>)'
      <4>1. Coming' = Coming  BY <3>4 DEF Coming
      <4>2. PICK c : c = cur  OBVIOUS
      <4>3. ~Ahead(<<c, 0>>)'  BY <3>3, <3>4, <3>6, <3>7, <4>1, <4>2 DEF Ahead
      <4> QED  BY <3>1, <4>2, <4>3
    <3>9. e.chunk = cur /\ e.file \in 1..Len(files')  BY <1>0, <3>1, <3>2
    <3> QED  BY <3>8, <3>9 DEF Due
  <2> QED  BY <1>1, <2>1, <2>2 DEF Entering
<1>2. /\ \A e \in indexer'.entries : e \in EntrySet
      /\ \A h \in 1..Len(files') : \A e \in files'[h].index.entries : e \in EntrySet
  <2>1. indexer'.entries \in SUBSET EntrySet /\ files' \in Seq(FileSet)
    BY <1>0 DEF FileInv, FileType
  <2>2. \A h \in 1..Len(files') : files'[h] \in FileSet  BY <2>1, ElementOfSeq
  <2> QED  BY <2>1, <2>2 DEF FileSet, IndexSet
<1> QED  BY <1>1, <1>2, NewEntries DEF EntryInv

-----------------------------------------------------------------------------
(***************************************************************************)
(* The steps of a stream with which nothing has gone wrong.                *)
(***************************************************************************)
Good == faults = 0 /\ damage \cap {"torn", "tail", "full"} = {}

\* The file is closed with what was in the buffer...
Closed ==
  /\ pc \in {"close", "flush"} /\ pc' \notin Writing /\ UNCHANGED <<cur, next>>
  /\ file_handle # NoFile /\ file_handle' = NoFile /\ writebuffer' = <<>>
  /\ WriteDiskSuccess(Appended(Append(writebuffer, Junk)))
  /\ files[file_handle].seek_lost => "index" \in damage'

\* ... a full buffer is written and the rest of the item opens the next one...
Spilled ==
  /\ pc = "spill" /\ pc' = "frame" /\ UNCHANGED <<cur, next, fail>>
  /\ file_handle # NoFile /\ file_handle' = file_handle
  /\ WriteDiskSuccess(Appended(FilledBuffer \o SubSeq(Rest, 1, Roof)))
  /\ writebuffer' = SubSeq(Rest, Roof + 1, Len(Rest))

\* ... an item is appended, or found to fill the buffer up.
Buffered ==
  /\ pc = "write" /\ UNCHANGED <<cur, next, fail, files, file_handle, indexer>>
  /\ UNCHANGED reportVars
  /\ \/ pc' = "frame" /\ writebuffer' = writebuffer \o Cells(cur, next)
     \/ pc' = "spill" /\ writebuffer' = writebuffer

LEMMA FaultsStay ==
  ASSUME [Next]_vars
  PROVE  faults' = faults \/ faults' = faults + 1
BY DEF Next, Pusher, PushBegin, PushDriver, PushEnqueue, MemoryCheck, MemoryCheckDio,
   SetDioBufferSize, QueueCheck, QueueCheckReport, PushFlush, Worker, ProcessBuffer, PopBuffer,
   UpdateFileName, CloseSavedFile, WriteFileClose, FileClose, FileDirectOpen, WriteIndexInfo,
   AddFrameInfo, ChunkDone, WriteBufferToDisk, Spill, ProcessFlush, ProcessFlushClear, vars,
   fileVars, WriteDisk, Writes

LEMMA GoodBefore ==
  ASSUME FileInv, [Next]_vars, Good'
  PROVE  Good
<1>1. faults \in Nat  BY DEF FileInv, FileType
<1>2. faults = 0  BY <1>1, FaultsStay DEF Good
<1> QED  BY <1>2, DamageStays DEF Good

LEMMA GoodDisk ==
  ASSUME Inv, FileInv, DiskStep, Good', Good
  PROVE  \/ UNCHANGED <<file_handle, writebuffer, indexer, files, frameInfos_, status, forgotten>>
            /\ pc' \notin Writing /\ pc \notin Writing /\ damage' = damage
         \/ Closed \/ Spilled
<1> PICK outcome \in Outcomes :
      WriteFileClose(outcome) \/ Spill(outcome) \/ ProcessFlush(outcome)
  BY DEF DiskStep
<1>0. faults = 0 /\ faults' = 0 /\ file_handle \in 0..Len(files)
  BY DEF Good, FileInv, FileType
<1>1. ASSUME NEW written, WriteDisk(outcome, written), file_handle # NoFile
      PROVE  WriteDiskSuccess(written) /\ outcome = "ok"
  <2>1. outcome = "ok"  BY <1>0, <1>1 DEF WriteDisk, Writes
  <2> QED  BY <1>1, <2>1 DEF WriteDisk
<1>2. ASSUME FileClose(outcome), pc \in {"close", "flush"}, pc' \in {"open", "clear"},
             UNCHANGED <<cur, next>>
      PROVE  \/ UNCHANGED <<file_handle, writebuffer, indexer, files, frameInfos_, status,
                            forgotten>>
                /\ pc' \notin Writing /\ pc \notin Writing /\ damage' = damage
             \/ Closed
  <2>1. CASE file_handle = NoFile
    BY <1>2, <2>1 DEF FileClose, reportVars, Writing
  <2>2. CASE file_handle # NoFile
    <3>1. /\ WriteDisk(outcome, Appended(Append(writebuffer, Junk)))
          /\ file_handle' = NoFile /\ writebuffer' = <<>>
          /\ files[file_handle].seek_lost => "index" \in damage'
      BY <1>2, <2>2 DEF FileClose
    <3> QED  BY <1>1, <1>2, <2>2, <3>1 DEF Closed, Writing
  <2> QED  BY <2>1, <2>2
<1>3. CASE WriteFileClose(outcome)
  BY <1>2, <1>3 DEF WriteFileClose
<1>4. CASE ProcessFlush(outcome)
  BY <1>2, <1>4 DEF ProcessFlush
<1>5. CASE Spill(outcome)
  <2>0. /\ pc = "spill" /\ pc' = "frame" /\ UNCHANGED <<cur, next>>
        /\ file_handle # NoFile
    BY <1>0, <1>5 DEF Spill, FileInv, HandleInv, Writing
  <2>1. PICK cells \in 0..Roof :
          /\ IF outcome = "ok" THEN Fired(cells) ELSE cells = 0
          /\ IF outcome = "ok" /\ cells < Roof
             THEN /\ file_handle # NoFile
                  /\ WriteDiskSuccess(Appended(DiskBlock \o SubSeq(Rest, 1, cells)))
                  /\ faults' = faults + 1
                  /\ file_handle' = NoFile
             ELSE /\ WriteDisk(outcome, Appended(DiskBlock \o SubSeq(Rest, 1, cells)))
                  /\ file_handle' = IF outcome = "dead" THEN NoFile ELSE file_handle
    BY <1>5 DEF Spill
  <2>2. ~(outcome = "ok" /\ cells < Roof)  BY <1>0, <2>1
  <2>3. /\ WriteDiskSuccess(Appended(DiskBlock \o SubSeq(Rest, 1, cells))) /\ outcome = "ok"
        /\ file_handle' = file_handle
    BY <1>1, <2>0, <2>1, <2>2
  <2>4. cells = Roof  BY <2>1, <2>2, <2>3 DEF Fired
  <2>5. /\ writebuffer' = SubSeq(Rest, Roof + 1, Len(Rest)) /\ fail' = fail
    BY <1>5, <2>3 DEF Spill
  <2>6. dio_buffer_size_ = Len(FilledBuffer)
    <3>1. "torn" \notin damage'  BY DEF Good
    <3> QED  BY <1>5, <3>1 DEF Spill
  <2>7. DiskBlock = FilledBuffer
    <3>1. FilledBuffer \in Seq(Cell)  BY <2>0, SpillTypes
    <3>2. PICK f \in Seq(Cell) : f = FilledBuffer  BY <3>1
    <3>3. f = [k \in 1..Len(f) |-> f[k]]  BY LenProperties
    <3>4. DiskBlock = [k \in 1..Len(f) |-> IF k <= Len(f) THEN f[k] ELSE Junk]
      BY <2>6, <3>2 DEF DiskBlock
    <3>5. DiskBlock = [k \in 1..Len(f) |-> f[k]]
      <4>1. Len(f) \in Nat  BY LenProperties
      <4> QED  BY <3>4, <4>1
    <3> QED  BY <3>2, <3>3, <3>5
  <2> QED  BY <2>0, <2>3, <2>4, <2>5, <2>7 DEF Spilled
<1> QED  BY <1>3, <1>4, <1>5

LEMMA GoodBuffer ==
  ASSUME Inv, WriteBufferToDisk, Good'
  PROVE  Buffered
<1> DEFINE item == Cells(cur, next)
           space == dio_buffer_size_ - Len(writebuffer)
<1>1. space \in Int
  BY LenProperties, ConstantsAssumption DEF Inv, TypeOK, PusherType, BufferType
<1>2. "full" \notin damage'  BY DEF Good
<1>3. ~(space <= 0)  BY <1>2 DEF WriteBufferToDisk
<1>4. space > 0  BY <1>1, <1>3
<1>5. /\ pc = "write" /\ UNCHANGED <<cur, next, files, file_handle, indexer>>
      /\ UNCHANGED reportVars
      /\ fail' = (fail \/ (space <= 0 /\ next > 0))
  BY DEF WriteBufferToDisk
<1>6. fail' = fail
  <2>1. fail \in BOOLEAN  BY DEF Inv, TypeOK, WorkerType
  <2>2. ~(space <= 0 /\ next > 0)  BY <1>3
  <2> HIDE DEF space
  <2> QED  BY <1>5, <2>1, <2>2
<1>7. CASE space > Len(item)
  <2>1. pc' = "frame" /\ writebuffer' = writebuffer \o item
    BY <1>7 DEF WriteBufferToDisk
  <2> QED  BY <1>5, <1>6, <2>1 DEF Buffered
<1>8. CASE ~(space > Len(item))
  <2>1. pc' = "spill" /\ writebuffer' = writebuffer
    BY <1>4, <1>8 DEF WriteBufferToDisk
  <2> QED  BY <1>5, <1>6, <2>1 DEF Buffered
<1> QED  BY <1>7, <1>8

LEMMA GoodSteps ==
  ASSUME Inv, FileInv, [Next]_vars, Good'
  PROVE  \/ Untouched /\ Elsewhere
         \/ /\ UNCHANGED <<file_handle, writebuffer, indexer, files, frameInfos_, status, forgotten>>
            /\ pc' \notin Writing /\ pc \notin Writing /\ damage' = damage
         \/ Closed \/ Spilled \/ Buffered
         \/ CloseSavedFile /\ writebuffer = <<>>
         \/ FileDirectOpen(TRUE)
         \/ WriteIndexInfo(TRUE) /\ UNCHANGED file_handle
<1>0. Good /\ faults = 0 /\ faults' = 0  BY GoodBefore DEF Good
<1>1. ASSUME NEW ok \in BOOLEAN, FileDirectOpen(ok) PROVE FileDirectOpen(TRUE)
  <2>1. CASE ok = TRUE  BY <1>1, <2>1
  <2>2. CASE ok = FALSE  BY <1>0, <1>1, <2>2 DEF FileDirectOpen
  <2> QED  BY <2>1, <2>2
<1>2. ASSUME NEW ok \in BOOLEAN, WriteIndexInfo(ok)
      PROVE  WriteIndexInfo(TRUE) /\ UNCHANGED file_handle
  <2>1. CASE ok = TRUE
    <3>1. WriteIndexInfo(TRUE)  BY <1>2, <2>1
    <3>2. file_handle' = file_handle  BY <3>1, IndexStep
    <3> QED  BY <3>1, <3>2
  <2>2. CASE ok = FALSE
    <3>1. file_handle # NoFile  BY <1>2, IndexStep
    <3> QED  BY <1>0, <1>2, <2>2, <3>1 DEF WriteIndexInfo, Writes
  <2> QED  BY <2>1, <2>2
<1>3. CASE CloseSavedFile
  <2>1. "tail" \notin damage'  BY DEF Good
  <2> QED  BY <1>3, <2>1 DEF CloseSavedFile
<1> QED  BY <1>0, <1>1, <1>2, <1>3, FileSteps, GoodDisk, GoodBuffer

-----------------------------------------------------------------------------
(***************************************************************************)
(* What such a step makes of the streams and of the entries of the files.  *)
(***************************************************************************)
Grown(h) == \E t \in Seq(Cell) : Stream(h)' = Stream(h) \o t

Regroups(s, t, u) == (s \o t) \o u = s \o (t \o u)

LEMMA Associative == \A s, t, u \in Seq(Cell) : Regroups(s, t, u)
<1> TAKE s, t, u \in Seq(Cell)
<1> QED  BY ConcatAssociative DEF Regroups

\* What is written of a buffer, with what stays in it, is the buffer and the item.
SpillsAll(d, w, one, two, three) ==
  /\ d \o ((w \o one) \o two) = (d \o (w \o one)) \o two
  /\ (d \o ((w \o one) \o two)) \o three = (d \o w) \o (one \o (two \o three))

LEMMA Regrouped ==
  \A d, w, one, two, three \in Seq(Cell) : SpillsAll(d, w, one, two, three)
<1> TAKE d, w, one, two, three \in Seq(Cell)
<1>1. w \o one \in Seq(Cell) /\ two \o three \in Seq(Cell)  BY ConcatProperties
<1>2. d \o (w \o one) \in Seq(Cell) /\ d \o w \in Seq(Cell)  BY <1>1, ConcatProperties
<1>3. Regroups(d, w \o one, two)  BY <1>1, Associative
<1>4. Regroups(d \o (w \o one), two, three)  BY <1>2, Associative
<1>5. Regroups(d, w, one)  BY Associative
<1>6. Regroups(d \o w, one, two \o three)  BY <1>1, <1>2, Associative
<1> QED  BY ONLY <1>3, <1>4, <1>5, <1>6 DEF Regroups, SpillsAll

LEMMA StreamType ==
  ASSUME Inv, FileInv, NEW h \in 1..Len(files)
  PROVE  /\ files[h] \in FileSet /\ files[h].data \in Seq(Cell) /\ writebuffer \in Seq(Cell)
         /\ Stream(h) \in Seq(Cell) /\ Len(Stream(h)) \in Nat
         /\ OwnEntries(h) \subseteq EntrySet
         /\ h = file_handle => Len(Stream(h)) = Len(files[h].data) + Len(writebuffer)
<1>1. files[h] \in FileSet  BY ElementOfSeq DEF FileInv, FileType
<1>2. files[h].data \in Seq(Cell) /\ writebuffer \in Seq(Cell) /\ <<>> \in Seq(Cell)
  BY <1>1, EmptySeq DEF FileSet, Inv, TypeOK, BufferType
<1>3. Stream(h) \in Seq(Cell)  BY <1>2, ConcatProperties DEF Stream
<1>4. Len(Stream(h)) \in Nat  BY <1>3, LenProperties
<1>5. OwnEntries(h) \subseteq EntrySet  BY <1>1 DEF FileSet, IndexSet, OwnEntries
<1>6. h = file_handle => Len(Stream(h)) = Len(files[h].data) + Len(writebuffer)
  BY <1>2, ConcatProperties DEF Stream
<1> QED  BY <1>1, <1>2, <1>3, <1>4, <1>5, <1>6

LEMMA SameStream ==
  ASSUME Inv, FileInv, NEW h \in 1..Len(files), files'[h].data = files[h].data,
         \/ h = file_handle /\ h = file_handle' /\ writebuffer' = writebuffer
         \/ h # file_handle /\ h # file_handle'
         \/ h = file_handle /\ h # file_handle' /\ writebuffer = <<>>
  PROVE  Stream(h)' = Stream(h) /\ Grown(h)
<1>1. Stream(h)' = Stream(h)  BY DEF Stream
<1>2. Stream(h) \o <<>> = Stream(h) /\ <<>> \in Seq(Cell)
  BY StreamType, ConcatEmptySeq, EmptySeq
<1> QED  BY <1>1, <1>2 DEF Grown

\* A file that is closed gets the rest of its stream and a padding, unless the
\* write goes over its index.
LEMMA ClosedStream ==
  ASSUME Inv, FileInv, Closed
  PROVE  /\ Touched /\ file_handle \in 1..Len(files) /\ indexer' = indexer
         /\ IF files[file_handle].seek_lost
            THEN files'[file_handle].index.entries = {} /\ "index" \in damage'
            ELSE /\ files'[file_handle].index = files[file_handle].index
                 /\ files'[file_handle].data = Stream(file_handle) \o <<Junk>>
                 /\ \A h \in 1..Len(files) :
                      h = file_handle => Stream(h)' = Stream(h) \o <<Junk>>
<1> DEFINE cells == Append(writebuffer, Junk)
<1>0. FileType /\ file_handle # NoFile /\ file_handle \in 1..Len(files)
  BY OpenFile DEF Closed, FileInv
<1>1. /\ files[file_handle] \in FileSet /\ files[file_handle].data \in Seq(Cell)
      /\ writebuffer \in Seq(Cell)
  BY <1>0, StreamType
<1>2. Junk \in Cell  BY ConstantsAssumption DEF Junk, Cell
<1>3. cells \in Seq(Cell) /\ cells = writebuffer \o <<Junk>> /\ <<Junk>> \in Seq(Cell)
  <2>1. <<Junk>> = Append(<<>>, Junk) /\ <<>> \in Seq(Cell)  BY EmptySeq
  <2> QED  BY <1>1, <1>2, <2>1, AppendProperties, AppendIsConcat
<1>4. /\ files' = Appended(cells) /\ indexer' = indexer /\ file_handle' = NoFile
      /\ files[file_handle].seek_lost => "index" \in damage'
  BY DEF Closed, WriteDiskSuccess
<1> HIDE DEF cells
<1>5. Touched  BY <1>0, <1>3, <1>4, AppendedFile
<1>6. CASE files[file_handle].seek_lost
  <2>1. files'[file_handle].index.entries = {}  BY <1>0, <1>3, <1>4, <1>6, AppendedFile
  <2> QED  BY <1>0, <1>4, <1>5, <1>6, <2>1
<1>7. CASE ~files[file_handle].seek_lost
  <2>1. files'[file_handle] = [files[file_handle] EXCEPT !.data = @ \o cells]
    BY <1>0, <1>3, <1>4, <1>7, AppendedFile
  <2>2. /\ files'[file_handle].index = files[file_handle].index
        /\ files'[file_handle].data = files[file_handle].data \o cells
    BY <1>1, <2>1 DEF FileSet
  <2>3. files[file_handle].data \o cells = Stream(file_handle) \o <<Junk>>
    <3>1. Regroups(files[file_handle].data, writebuffer, <<Junk>>)  BY <1>1, <1>3, Associative
    <3> QED  BY <1>3, <3>1 DEF Regroups, Stream
  <2>4. ASSUME NEW h \in 1..Len(files), h = file_handle PROVE Stream(h)' = Stream(h) \o <<Junk>>
    <3>1. h # file_handle'  BY <1>4 DEF NoFile
    <3>2. Stream(h)' = files'[h].data \o <<>>  BY <3>1 DEF Stream
    <3>3. files'[h].data = Stream(h) \o <<Junk>>  BY <2>2, <2>3, <2>4
    <3>4. Stream(h) \o <<Junk>> \in Seq(Cell)  BY <1>3, StreamType, ConcatProperties
    <3> QED  BY <3>2, <3>3, <3>4, ConcatEmptySeq
  <2> QED  BY <1>0, <1>4, <1>5, <1>7, <2>2, <2>3, <2>4
<1> QED  BY <1>6, <1>7

\* A full buffer, and the rest of the item in the next one, carry the stream on.
LEMMA SpilledStream ==
  ASSUME Inv, FileInv, Spilled, ~files[file_handle].seek_lost
  PROVE  /\ Touched /\ file_handle \in 1..Len(files) /\ indexer' = indexer
         /\ files'[file_handle].index = files[file_handle].index
         /\ files'[file_handle].seek_lost = files[file_handle].seek_lost
         /\ \E t \in Seq(Cell) : files'[file_handle].data =
              (files[file_handle].data \o FilledBuffer) \o t
         /\ \A h \in 1..Len(files) :
              h = file_handle => Stream(h)' = Stream(h) \o Cells(cur, next)
<1> DEFINE item == Cells(cur, next)
           one == SubSeq(item, 1, room)
           two == SubSeq(Rest, 1, Roof)
           three == SubSeq(Rest, Roof + 1, Len(Rest))
           cells == FilledBuffer \o two
           d == files[file_handle].data
<1>0. FileType /\ file_handle # NoFile /\ file_handle \in 1..Len(files) /\ pc = "spill"
  BY OpenFile DEF Spilled, FileInv
<1>1. files[file_handle] \in FileSet /\ d \in Seq(Cell) /\ writebuffer \in Seq(Cell)
  BY <1>0, StreamType
<1>2. /\ item \in Seq(Cell) /\ FilledBuffer \in Seq(Cell) /\ Rest \in Seq(Cell)
      /\ Roof \in Nat /\ Roof <= Len(Rest) /\ two \in Seq(Cell) /\ three \in Seq(Cell)
      /\ Len(item) \in Nat \ {0} /\ room \in 1..Len(item) /\ Len(Rest) \in Nat
  BY <1>0, SpillTypes, LenProperties DEF FileInv, HandleInv
<1>3. FilledBuffer = writebuffer \o one /\ Rest = SubSeq(item, room + 1, Len(item))
  BY DEF FilledBuffer, Rest
<1>4. one \in Seq(Cell)
  <2> HIDE DEF item
  <2>1. \A i \in 1 .. room : item[i] \in Cell  BY <1>2, ElementOfSeq
  <2> QED  BY <1>2, <2>1, SubSeqProperties
<1>5. two \o three = Rest
  <2>1. two \o three = SubSeq(Rest, 1, Len(Rest))
    <3>1. 1 \in 1..Len(Rest) + 1 /\ Roof \in 1 - 1 .. Len(Rest) /\ Len(Rest) \in Roof .. Len(Rest)
      BY <1>2
    <3> QED  BY <1>2, <3>1, ConcatAdjacentSubSeq
  <2> QED  BY <1>2, <2>1, SubSeqFull
<1>6. one \o Rest = item
  <2> HIDE DEF item
  <2>1. one \o Rest = SubSeq(item, 1, Len(item))
    <3>1. /\ 1 \in 1..Len(item) + 1 /\ room \in 1 - 1 .. Len(item)
          /\ Len(item) \in room .. Len(item)
      BY <1>2
    <3> QED  BY <1>2, <1>3, <3>1, ConcatAdjacentSubSeq
  <2> QED  BY <1>2, <2>1, SubSeqFull
<1>7. /\ files' = Appended(cells) /\ indexer' = indexer /\ file_handle' = file_handle
      /\ writebuffer' = three
  BY DEF Spilled, WriteDiskSuccess
<1> HIDE DEF item, one, two, three
<1>8. cells \in Seq(Cell)  BY <1>2, ConcatProperties
<1>9. Touched /\ files'[file_handle] = [files[file_handle] EXCEPT !.data = @ \o cells]
  BY <1>0, <1>7, <1>8, AppendedFile
<1>10. /\ files'[file_handle].index = files[file_handle].index
       /\ files'[file_handle].seek_lost = files[file_handle].seek_lost
       /\ files'[file_handle].data = d \o cells
  BY <1>1, <1>9 DEF FileSet
<1>11. d \o cells = (d \o FilledBuffer) \o two /\ (d \o cells) \o three = (d \o writebuffer) \o item
  <2>1. SpillsAll(d, writebuffer, one, two, three)  BY <1>1, <1>2, <1>4, Regrouped
  <2>2. cells = (writebuffer \o one) \o two /\ FilledBuffer = writebuffer \o one  BY <1>3
  <2>3. one \o (two \o three) = item  BY <1>5, <1>6
  <2> QED  BY ONLY <2>1, <2>2, <2>3 DEF SpillsAll
<1>12. ASSUME NEW h \in 1..Len(files), h = file_handle PROVE Stream(h)' = Stream(h) \o item
  <2>1. Stream(h)' = files'[h].data \o writebuffer'  BY <1>7, <1>12 DEF Stream
  <2>2. Stream(h) = d \o writebuffer  BY <1>12 DEF Stream
  <2>3. files'[h].data = d \o cells  BY <1>10, <1>12
  <2> QED  BY <1>7, <1>11, <2>1, <2>2, <2>3
<1> QED  BY <1>0, <1>2, <1>7, <1>9, <1>10, <1>11, <1>12 DEF item

LEMMA BufferedStream ==
  ASSUME Inv, FileInv, Buffered, file_handle # NoFile
  PROVE  /\ file_handle \in 1..Len(files)
         /\ \A h \in 1..Len(files) : h = file_handle =>
              \/ pc' = "frame" /\ Stream(h)' = Stream(h) \o Cells(cur, next)
              \/ pc' = "spill" /\ Stream(h)' = Stream(h)
<1>0. file_handle \in 1..Len(files)  BY OpenFile DEF FileInv
<1>1. /\ files[file_handle].data \in Seq(Cell) /\ writebuffer \in Seq(Cell)
  BY <1>0, StreamType
<1>2. Cells(cur, next) \in Seq(Cell)
  BY InHand, CellsType DEF Inv, Writing, Buffered
<1>3. ASSUME NEW h \in 1..Len(files), h = file_handle
      PROVE  \/ pc' = "frame" /\ Stream(h)' = Stream(h) \o Cells(cur, next)
             \/ pc' = "spill" /\ Stream(h)' = Stream(h)
  <2>1. Stream(h)' = files[h].data \o writebuffer' /\ Stream(h) = files[h].data \o writebuffer
    BY <1>3 DEF Stream, Buffered
  <2>2. CASE pc' = "frame" /\ writebuffer' = writebuffer \o Cells(cur, next)
    <3>1. (files[file_handle].data \o writebuffer) \o Cells(cur, next) =
             files[file_handle].data \o (writebuffer \o Cells(cur, next))
      <4>1. Regroups(files[file_handle].data, writebuffer, Cells(cur, next))
        BY <1>1, <1>2, Associative
      <4> QED  BY <4>1 DEF Regroups
    <3> QED  BY <1>3, <2>1, <2>2, <3>1
  <2>3. CASE pc' = "spill" /\ writebuffer' = writebuffer
    BY <2>1, <2>3
  <2> QED  BY <2>2, <2>3 DEF Buffered
<1> QED  BY <1>0, <1>3

-----------------------------------------------------------------------------
(***************************************************************************)
(* Where the blocks are while nothing goes wrong.                          *)
(***************************************************************************)

\* The index on disk is the one in memory, its own entries are below the position,
\* and a file whose index ran over takes no more chunks.
IndexInv == \A h \in 1..Len(files) : h = file_handle =>
  /\ files[h].index = OnDiskIndex(indexer) /\ indexer.magic = TRUE
  /\ \A e \in OwnEntries(h) : e.at + EntrySize <= indexer.pos
  /\ files[h].seek_lost => indexer.pos + EntrySize > IndexSize
  /\ pc \in Writing => ~files[h].seek_lost

\* The chunk in hand has no entry but in the open file, once it is being written.
TurnInv == \A h \in 1..Len(files) : \A e \in OwnEntries(h) :
  e.chunk = cur => h = file_handle /\ pc \in Writing

\* The first n items of its block are the end of the stream of the open file.
Partial(h, c, o, n) ==
  /\ BlockUpTo(Stream(h), pushed[c], c, o, n - 1)
  /\ Len(Stream(h)) = Offsets(pushed[c], o)[n]
Done == IF pc = "frame" THEN next + 1 ELSE next
PartInv == pc \in Writing =>
  /\ fail = FALSE
  /\ \A h \in 1..Len(files) : h = file_handle =>
       /\ \E e \in OwnEntries(h) : e.chunk = cur
       /\ \A e \in OwnEntries(h) : e.chunk = cur => Partial(h, cur, e.offset, Done)

\* Every other entry leads to a whole block.
LocateInv == \A h \in 1..Len(files) : \A e \in OwnEntries(h) :
  e.chunk # cur =>
    BlockUpTo(Stream(h), pushed[e.chunk], e.chunk, e.offset, Len(pushed[e.chunk]))

GoodInv == Good => IndexInv /\ TurnInv /\ PartInv /\ LocateInv

\* What the worker does inside a chunk, and how it leaves it.
LEMMA WritingSteps ==
  ASSUME Inv, [Next]_vars, pc \in Writing
  PROVE  \/ UNCHANGED workerVars
         \/ AddFrameInfo \/ ChunkDone \/ WriteBufferToDisk
         \/ \E outcome \in Outcomes : Spill(outcome)
<1>1. CASE Worker
  BY <1>1 DEF Worker, ProcessBuffer, CloseSavedFile, PopBuffer, UpdateFileName,
     WriteFileClose, ProcessFlush, FileDirectOpen, WriteIndexInfo, ProcessFlushClear, Writing
<1>2. CASE Pusher \/ PushFlush \/ UNCHANGED vars
  <2>1. UNCHANGED workerVars  BY <1>2, PusherFrame DEF vars, workerVars
  <2> QED  BY <2>1
<1> QED  BY <1>1, <1>2 DEF Next

LEMMA StaysInHand ==
  ASSUME Inv, [Next]_vars, pc' \in Writing
  PROVE  cur' = cur
<1>1. CASE Worker
  BY <1>1, WorkerAdvance DEF PopBuffer, Dropped, Named, Written, Writing
<1>2. CASE Pusher \/ PushFlush \/ UNCHANGED vars
  BY <1>2, PusherFrame DEF vars, workerVars
<1> QED  BY <1>1, <1>2 DEF Next

\* A new file has no entry of its own.
LEMMA NewFile ==
  ASSUME Inv, FileInv, EntryInv, FileDirectOpen(TRUE), NEW h, h = Len(files) + 1
  PROVE  OwnEntries(h)' = {} /\ files'[h].index = OnDiskIndex(indexer') /\ indexer'.magic = TRUE
         /\ files'[h].seek_lost = FALSE
<1>0. /\ indexer \in [pos : Nat, magic : BOOLEAN, entries : SUBSET EntrySet]
      /\ Len(files) \in Nat
  BY LenProperties DEF FileInv, FileType
<1>1. /\ files'[h] = [drive |-> save_driver_, index |-> OnDiskIndex(InitBuffer),
                      data |-> <<>>, seek_lost |-> FALSE]
      /\ indexer' = InitBuffer
  BY OpenStep
<1>2. InitBuffer.entries = indexer.entries /\ InitBuffer.magic = TRUE
  BY <1>0 DEF InitBuffer
<1>3. files'[h].index.entries = indexer.entries  BY <1>1, <1>2 DEF OnDiskIndex
<1>4. \A e \in indexer.entries : e.file # h
  <2> TAKE e \in indexer.entries
  <2>1. e.file \in 1..Len(files)  BY DEF EntryInv, Due
  <2> QED  BY <1>0, <2>1
<1> QED  BY <1>1, <1>2, <1>3, <1>4 DEF OwnEntries

\* While nothing goes wrong a stream grows at its end, and nothing is entered but
\* the chunk in hand.
LEMMA EntriesFollow ==
  ASSUME Inv, FileInv, IndexInv, Good', [Next]_vars, NEW h \in 1..Len(files)
  PROVE  /\ OwnEntries(h)' = {} \/ Grown(h)
         /\ \/ OwnEntries(h)' \subseteq OwnEntries(h)
            \/ /\ WriteIndexInfo(TRUE) /\ h = file_handle /\ file_handle' = file_handle
               /\ pc' = "write" /\ OwnEntries(h)' = OwnEntries(h) \cup {Entry}
<1>0. FileType /\ files[h] \in FileSet  BY StreamType DEF FileInv
<1>1. ASSUME files'[h] = files[h],
             \/ h = file_handle /\ h = file_handle' /\ writebuffer' = writebuffer
             \/ h # file_handle /\ h # file_handle'
             \/ h = file_handle /\ h # file_handle' /\ writebuffer = <<>>
      PROVE  Grown(h) /\ OwnEntries(h)' \subseteq OwnEntries(h)
  BY <1>1, SameStream DEF OwnEntries
<1>2. CASE Untouched \/ UNCHANGED <<file_handle, writebuffer, indexer, files, frameInfos_, status,
                                    forgotten>>
  BY <1>1, <1>2 DEF Untouched
<1>3. CASE Closed
  <2>1. CASE h # file_handle
    <3>1. files'[h] = files[h] /\ h # file_handle'
      BY <1>3, <2>1, ClosedStream DEF Touched, Closed, NoFile
    <3> QED  BY <1>1, <2>1, <3>1
  <2>2. CASE h = file_handle
    <3>1. CASE files[h].seek_lost
      <4>1. OwnEntries(h)' = {}  BY <1>3, <2>2, <3>1, ClosedStream DEF OwnEntries
      <4> QED  BY <4>1
    <3>2. CASE ~files[h].seek_lost
      <4>1. Stream(h)' = Stream(h) \o <<Junk>> /\ files'[h].index = files[h].index
        BY <1>3, <2>2, <3>2, ClosedStream
      <4>2. <<Junk>> \in Seq(Cell)
        <5>1. Junk \in Cell  BY ConstantsAssumption DEF Junk, Cell
        <5> QED  BY <5>1
      <4> QED  BY <4>1, <4>2 DEF OwnEntries, Grown
    <3> QED  BY <3>1, <3>2
  <2> QED  BY <2>1, <2>2
<1>4. CASE Spilled
  <2>1. ~files[file_handle].seek_lost /\ file_handle' = file_handle
    BY <1>4, OpenFile DEF Spilled, IndexInv, Writing, FileInv
  <2>2. CASE h # file_handle
    <3>1. files'[h] = files[h]  BY <1>4, <2>1, <2>2, SpilledStream DEF Touched
    <3> QED  BY <1>1, <2>1, <2>2, <3>1
  <2>3. CASE h = file_handle
    <3>1. Stream(h)' = Stream(h) \o Cells(cur, next) /\ files'[h].index = files[h].index
      BY <1>4, <2>1, <2>3, SpilledStream
    <3>2. Cells(cur, next) \in Seq(Cell)  BY <1>4, SpillTypes DEF Spilled
    <3> QED  BY <3>1, <3>2 DEF OwnEntries, Grown
  <2> QED  BY <2>2, <2>3
<1>5. CASE Buffered
  <2>1. files' = files /\ file_handle' = file_handle  BY <1>5 DEF Buffered
  <2>2. CASE h # file_handle  BY <1>1, <2>1, <2>2
  <2>3. CASE h = file_handle
    <3>1. \/ Stream(h)' = Stream(h) \o Cells(cur, next)
          \/ Stream(h)' = Stream(h) \o <<>>
      BY <1>5, <2>3, BufferedStream, StreamType, ConcatEmptySeq DEF NoFile
    <3>2. Cells(cur, next) \in Seq(Cell) /\ <<>> \in Seq(Cell)
      BY <1>5, InHand, CellsType, EmptySeq DEF Buffered, Writing, Inv
    <3> QED  BY <2>1, <3>1, <3>2 DEF OwnEntries, Grown
  <2> QED  BY <2>2, <2>3
<1>6. CASE CloseSavedFile /\ writebuffer = <<>>
  <2>1. files' = files /\ file_handle' = NoFile  BY <1>6 DEF CloseSavedFile
  <2>2. h # file_handle' /\ files'[h] = files[h]  BY <2>1 DEF NoFile
  <2> QED  BY <1>1, <1>6, <2>2
<1>7. CASE FileDirectOpen(TRUE)
  <2>1. /\ files'[h] = files[h] /\ h # file_handle /\ file_handle' = Len(files) + 1
        /\ Len(files) \in Nat
    BY <1>7, OpenStep, LenProperties DEF NoFile, FileInv, FileType
  <2>2. h # file_handle'  BY <2>1
  <2> QED  BY <1>1, <2>1, <2>2
<1>8. CASE WriteIndexInfo(TRUE) /\ UNCHANGED file_handle
  <2>1. /\ Touched /\ writebuffer' = writebuffer
        /\ indexer \in [pos : Nat, magic : BOOLEAN, entries : SUBSET EntrySet]
    BY <1>8, IndexStep DEF WriteIndexInfo, FileInv, FileType
  <2>2. CASE h # file_handle
    <3>1. files'[h] = files[h]  BY <2>1, <2>2 DEF Touched
    <3> QED  BY <1>1, <1>8, <2>2, <3>1
  <2>3. CASE h = file_handle
    <3>1. CASE files'[h] = [files[h] EXCEPT !.seek_lost = TRUE]
      <4>1. files'[h].data = files[h].data /\ files'[h].index = files[h].index
        BY <1>0, <3>1 DEF FileSet
      <4> QED  BY <1>8, <2>1, <2>3, <4>1, SameStream DEF OwnEntries
    <3>2. CASE /\ files'[h] = [files[h] EXCEPT !.index = OnDiskIndex(Entered)]
               /\ pc' = "write"
      <4>1. files'[h].data = files[h].data /\ files'[h].index = OnDiskIndex(Entered)
        BY <1>0, <3>2 DEF FileSet
      <4>2. OwnEntries(h)' = OwnEntries(h) \cup {Entry}
        <5>1. PICK E : E = {e \in indexer.entries : e.at + EntrySize <= indexer.pos
                                 \/ e.at >= indexer.pos + EntrySize} \cup {Entry}
          OBVIOUS
        <5>2. Entered = [indexer EXCEPT !.pos = indexer.pos + EntrySize, !.entries = E]
          BY <5>1 DEF Entered
        <5>3. files'[h].index.entries = E  BY <2>1, <4>1, <5>2 DEF OnDiskIndex
        <5>4. files[h].index.entries = indexer.entries
          BY <2>3 DEF IndexInv, OnDiskIndex
        <5>5. Entry.file = h  BY <2>3 DEF Entry
        <5>6. \A e \in OwnEntries(h) : e.at + EntrySize <= indexer.pos  BY <2>3 DEF IndexInv
        <5> QED  BY <5>1, <5>3, <5>4, <5>5, <5>6 DEF OwnEntries
      <4> QED  BY <1>8, <2>1, <2>3, <3>2, <4>1, <4>2, SameStream
    <3>3. \/ files'[h] = [files[h] EXCEPT !.seek_lost = TRUE]
          \/ files'[h] = [files[h] EXCEPT !.index = OnDiskIndex(Entered)] /\ pc' = "write"
      BY <1>8, <2>3, IndexStep
    <3> QED  BY <3>1, <3>2, <3>3
  <2> QED  BY <2>2, <2>3
<1> QED  BY <1>2, <1>3, <1>4, <1>5, <1>6, <1>7, <1>8, GoodSteps

LEMMA IndexInvStep ==
  ASSUME Inv, FileInv, EntryInv, IndexInv, Good', [Next]_vars
  PROVE  IndexInv'
<1> SUFFICES ASSUME NEW h \in 1..Len(files'), h = file_handle'
             PROVE  /\ files'[h].index = OnDiskIndex(indexer') /\ indexer'.magic = TRUE
                    /\ \A e \in OwnEntries(h)' : e.at + EntrySize <= indexer'.pos
                    /\ files'[h].seek_lost => indexer'.pos + EntrySize > IndexSize
                    /\ pc' \in Writing => ~files'[h].seek_lost
  BY DEF IndexInv, OnDiskIndex
<1> DEFINE Goal == /\ files'[h].index = OnDiskIndex(indexer') /\ indexer'.magic = TRUE
                   /\ \A e \in OwnEntries(h)' : e.at + EntrySize <= indexer'.pos
                   /\ files'[h].seek_lost => indexer'.pos + EntrySize > IndexSize
                   /\ pc' \in Writing => ~files'[h].seek_lost
<1>0. /\ FileType /\ h # NoFile /\ Len(files) \in Nat
      /\ indexer \in [pos : Nat, magic : BOOLEAN, entries : SUBSET EntrySet]
  BY LenProperties DEF FileInv, FileType, NoFile
<1>1. CASE /\ UNCHANGED <<file_handle, indexer, files>>
           /\ pc' \in Writing => pc \in Writing
  BY <1>1 DEF IndexInv, OwnEntries
<1>2. CASE Untouched /\ Elsewhere  BY <1>1, <1>2 DEF Untouched, Elsewhere
<1>3. CASE Closed \/ CloseSavedFile  BY <1>0, <1>3 DEF Closed, CloseSavedFile
<1>4. CASE Spilled
  <2>1. /\ h = file_handle /\ pc \in Writing /\ file_handle \in 1..Len(files)
        /\ h \in 1..Len(files)
    BY <1>4, OpenFile DEF Spilled, Writing, FileInv
  <2>2. ~files[file_handle].seek_lost  BY <2>1 DEF IndexInv
  <2>3. /\ indexer' = indexer /\ files'[h].index = files[h].index
        /\ files'[h].seek_lost = files[h].seek_lost
    BY <1>4, <2>1, <2>2, SpilledStream
  <2> QED  BY <2>1, <2>2, <2>3 DEF IndexInv, OwnEntries, OnDiskIndex
<1>5. CASE Buffered  BY <1>1, <1>5 DEF Buffered, Writing
<1>6. CASE FileDirectOpen(TRUE)
  <2>1. h = Len(files) + 1 /\ pc' = "index"  BY <1>6, OpenStep DEF FileDirectOpen
  <2> QED  BY <1>6, <2>1, NewFile DEF Writing
<1>7. CASE WriteIndexInfo(TRUE) /\ UNCHANGED file_handle
  <2>1. /\ h = file_handle /\ h \in 1..Len(files) /\ files[h] \in FileSet
    BY <1>0, <1>7, OpenFile
  <2>2. CASE /\ indexer.pos + EntrySize > IndexSize
             /\ files'[h] = [files[h] EXCEPT !.seek_lost = TRUE]
             /\ indexer' = indexer /\ pc' = "idle"
    <3>1. files'[h].index = files[h].index /\ files'[h].seek_lost = TRUE
      BY <2>1, <2>2 DEF FileSet
    <3> QED  BY <2>1, <2>2, <3>1 DEF IndexInv, OwnEntries, Writing, OnDiskIndex
  <2>3. CASE /\ ~(indexer.pos + EntrySize > IndexSize) /\ indexer' = Entered /\ pc' = "write"
             /\ files'[h] = [files[h] EXCEPT !.index = OnDiskIndex(Entered)]
    <3>1. files'[h].index = OnDiskIndex(Entered) /\ files'[h].seek_lost = files[h].seek_lost
      BY <2>1, <2>3 DEF FileSet
    <3>2. ~files[h].seek_lost /\ indexer.magic = TRUE  BY <2>1, <2>3 DEF IndexInv
    <3>3. PICK E : E = {e \in indexer.entries : e.at + EntrySize <= indexer.pos
                             \/ e.at >= indexer.pos + EntrySize} \cup {Entry}
      OBVIOUS
    <3>4. Entered = [indexer EXCEPT !.pos = indexer.pos + EntrySize, !.entries = E]
      BY <3>3 DEF Entered
    <3>5. indexer'.pos = indexer.pos + EntrySize /\ indexer'.magic = TRUE
      BY <1>0, <2>3, <3>2, <3>4
    <3>6. \A e \in OwnEntries(h)' : e.at + EntrySize <= indexer'.pos
      <4> TAKE e \in OwnEntries(h)'
      <4>1. e \in OwnEntries(h) \/ e = Entry  BY <2>1, EntriesFollow, OpenFile, <3>1, <3>3, <3>4, <1>0 DEF OwnEntries, OnDiskIndex, IndexInv
      <4>2. CASE e \in OwnEntries(h)
        <5>1. e.at + EntrySize <= indexer.pos /\ e.at \in Nat
          BY <2>1, <4>2, StreamType DEF IndexInv, EntrySet
        <5>2. indexer.pos \in Nat  BY <1>0
        <5> QED  BY <3>5, <5>1, <5>2 DEF EntrySize
      <4>3. CASE e = Entry  BY <1>0, <3>5, <4>3 DEF Entry, EntrySize
      <4> QED  BY <4>1, <4>2, <4>3
    <3> QED  BY <2>3, <3>1, <3>2, <3>5, <3>6
  <2>4. \/ /\ indexer.pos + EntrySize > IndexSize
           /\ files'[h] = [files[h] EXCEPT !.seek_lost = TRUE]
           /\ indexer' = indexer /\ pc' = "idle"
        \/ /\ ~(indexer.pos + EntrySize > IndexSize) /\ indexer' = Entered /\ pc' = "write"
           /\ files'[h] = [files[h] EXCEPT !.index = OnDiskIndex(Entered)]
    BY <1>7, <2>1, IndexStep DEF ChunkFailed
  <2> QED  BY <2>2, <2>3, <2>4
<1>8. CASE /\ UNCHANGED <<file_handle, writebuffer, indexer, files, frameInfos_, status,
                          forgotten>>
           /\ pc' \notin Writing /\ pc \notin Writing
  BY <1>1, <1>8
<1> QED  BY <1>2, <1>3, <1>4, <1>5, <1>6, <1>7, <1>8, GoodSteps

\* An entry is of a chunk that was pushed and whose turn has come.
LEMMA EntryOfChunk ==
  ASSUME Inv, FileInv, EntryInv, NEW h \in 1..Len(files), NEW e \in OwnEntries(h)
  PROVE  /\ e.chunk \in 1..Len(pushed) /\ e \in EntrySet /\ e.offset \in Nat /\ e.chunk # 0
         /\ e.chunk = cur => pc \in Writing
<1>1. e \in EntrySet  BY StreamType
<1>2. ~Ahead(<<e.chunk, 0>>)  BY DEF EntryInv, OwnEntries, Due
<1>3. e.chunk \in Nat \ {0} /\ e.offset \in Nat  BY <1>1, ConstantsAssumption DEF EntrySet, Chunks
<1>4. e.chunk \in 1..Len(pushed)
  <2>1. Len(pushed) \in Nat  BY LenProperties DEF Inv, TypeOK, PusherType
  <2>2. ~(e.chunk >= Coming)  BY <1>2 DEF Ahead
  <2> QED  BY <1>3, <2>1, <2>2 DEF Coming
<1>5. ASSUME e.chunk = cur PROVE pc \in Writing
  <2>1. pc \notin Naming  BY <1>2, <1>5 DEF Ahead
  <2> QED  BY <1>3, <1>5, <2>1 DEF Inv, HandInv
<1> QED  BY <1>1, <1>3, <1>4, <1>5

\* The file stays open inside a chunk.
LEMMA StaysOpen ==
  ASSUME Inv, FileInv, Good', [Next]_vars, pc \in Writing, pc' \in Writing
  PROVE  file_handle' = file_handle
<1>1. file_handle' # NoFile
  BY FileInvStep DEF FileInv, HandleInv, Good
<1> QED  BY <1>1, HandleSteps DEF FileDirectOpen, Writing

LEMMA TurnStep ==
  ASSUME Inv, FileInv, EntryInv, IndexInv, TurnInv, Good', [Next]_vars
  PROVE  TurnInv'
<1>0. Inv' /\ FileInv' /\ EntryInv'  BY InvStep, FileInvStep, EntryStep
<1> SUFFICES ASSUME NEW h \in 1..Len(files'), NEW e \in OwnEntries(h)', e.chunk = cur'
             PROVE  h = file_handle' /\ pc' \in Writing
  BY DEF TurnInv
<1>1. pc' \in Writing
  <2>1. e.chunk \in Nat \ {0}
    <3>1. files' \in Seq(FileSet) /\ e \in files'[h].index.entries
      BY <1>0 DEF FileInv, FileType, OwnEntries
    <3>2. files'[h] \in FileSet  BY <3>1, ElementOfSeq
    <3> QED  BY <3>1, <3>2, ConstantsAssumption DEF FileSet, IndexSet, EntrySet, Chunks
  <2>2. ~Ahead(<<e.chunk, 0>>)'  BY <1>0 DEF EntryInv, OwnEntries, Due
  <2>3. pc' \notin Naming  BY <2>2 DEF Ahead
  <2> QED  BY <1>0, <2>1, <2>3 DEF Inv, HandInv
<1>2. cur' = cur  BY <1>1, StaysInHand
<1>3. h \in 1..Len(files)
  <2>1. FileDirectOpen(TRUE) => pc' = "index"  BY DEF FileDirectOpen
  <2> QED  BY <1>1, <2>1, FilesStay DEF Writing
<1>4. CASE e \in OwnEntries(h)
  <2>1. h = file_handle /\ pc \in Writing  BY <1>2, <1>3, <1>4 DEF TurnInv
  <2> QED  BY <1>1, <2>1, StaysOpen
<1>5. CASE e \notin OwnEntries(h)
  BY <1>1, <1>3, <1>5, EntriesFollow
<1> QED  BY <1>4, <1>5

LEMMA LocateStep ==
  ASSUME Inv, FileInv, EntryInv, IndexInv, TurnInv, PartInv, LocateInv, Good', [Next]_vars
  PROVE  LocateInv'
<1>0. Inv' /\ FileInv' /\ EntryInv'  BY InvStep, FileInvStep, EntryStep
<1> SUFFICES ASSUME NEW h \in 1..Len(files'), NEW e \in OwnEntries(h)', e.chunk # cur'
             PROVE  BlockUpTo(Stream(h), pushed[e.chunk], e.chunk, e.offset,
                              Len(pushed[e.chunk]))'
  BY DEF LocateInv
<1>1. h \in 1..Len(files) /\ OwnEntries(h)' # {}
  <2>1. Len(files) \in Nat  BY LenProperties DEF FileInv, FileType
  <2>2. FileDirectOpen(TRUE) /\ h = Len(files) + 1 => OwnEntries(h)' = {}  BY NewFile
  <2>3. OwnEntries(h)' # {}  OBVIOUS
  <2>4. CASE Len(files') # Len(files)
    <3>1. FileDirectOpen(TRUE)  BY <2>4, FilesStay
    <3>2. Len(files') = Len(files) + 1  BY <3>1, OpenStep
    <3>3. h # Len(files) + 1  BY <2>2, <2>3, <3>1
    <3>4. h \in 1..Len(files)  BY <2>1, <3>2, <3>3
    <3> QED  BY <2>3, <3>4
  <2>5. CASE Len(files') = Len(files)  BY <2>3, <2>5
  <2> QED  BY <2>4, <2>5
<1>2. e \in OwnEntries(h)
  <2>1. ASSUME e = Entry, WriteIndexInfo(TRUE), pc' = "write" PROVE FALSE
    <3>1. cur' = cur  BY <2>1, StaysInHand DEF Writing
    <3> QED  BY <2>1, <3>1 DEF Entry
  <2>2. \/ OwnEntries(h)' \subseteq OwnEntries(h)
        \/ /\ WriteIndexInfo(TRUE) /\ pc' = "write"
           /\ OwnEntries(h)' = OwnEntries(h) \cup {Entry}
    BY <1>1, EntriesFollow
  <2> QED  BY <2>1, <2>2
<1>3. e.chunk \in 1..Len(pushed) /\ e.offset \in Nat  BY <1>1, <1>2, EntryOfChunk
<1>4. PICK c \in 1..Len(pushed) : c = e.chunk  BY <1>3
<1>5. pushed'[c] = pushed[c] /\ pushed[c] \in ShapeSet /\ Len(pushed[c]) \in Nat
  BY <1>4, CellsStay, ItemType DEF ShapeSet, Inv
<1>6. BlockUpTo(Stream(h), pushed[c], c, e.offset, Len(pushed[c]))
  <2>1. CASE c # cur  BY <1>1, <1>2, <1>4, <2>1 DEF LocateInv
  <2>2. CASE c = cur
    <3>1. h = file_handle /\ pc \in Writing  BY <1>1, <1>2, <1>4, <2>2 DEF TurnInv
    <3>2. cur' # cur  BY <1>4, <2>2
    <3>3. ChunkDone
      BY <3>1, <3>2, WritingSteps DEF workerVars, AddFrameInfo, WriteBufferToDisk, Spill
    <3>4. Done - 1 = Len(pushed[c])
      BY <1>5, <2>2, <3>3 DEF ChunkDone, Done
    <3>5. Partial(h, cur, e.offset, Done)
      BY <1>1, <1>2, <1>4, <2>2, <3>1 DEF PartInv
    <3> QED  BY <2>2, <3>4, <3>5 DEF Partial
  <2> QED  BY <2>1, <2>2
<1>7. PICK t \in Seq(Cell) : Stream(h)' = Stream(h) \o t
  BY <1>1, EntriesFollow DEF Grown
<1>8. BlockUpTo(Stream(h) \o t, pushed[c], c, e.offset, Len(pushed[c]))
  BY <1>1, <1>3, <1>5, <1>6, StreamType, BlockStays
<1> QED  BY <1>4, <1>5, <1>7, <1>8

\* The item that is written comes behind the ones before it.
LEMMA ItemGrows ==
  ASSUME Inv, FileInv, [Next]_vars, NEW h \in 1..Len(files), NEW o \in Nat,
         pc \in Writing, pc # "frame", Partial(h, cur, o, Done), UNCHANGED <<cur, next>>,
         \/ pc' = "frame" /\ Stream(h)' = Stream(h) \o Cells(cur, next)
         \/ pc' = "spill" /\ Stream(h)' = Stream(h)
  PROVE  Partial(h, cur, o, Done)'
<1>0. cur \in 1..Len(pushed) /\ next \in 0..Len(pushed[cur])  BY InHand
<1>1. PICK c \in 1..Len(pushed) : c = cur  BY <1>0
<1>2. PICK n \in 0..Len(pushed[c]) : n = next  BY <1>0, <1>1
<1>3. /\ pushed'[c] = pushed[c] /\ pushed[c] \in ShapeSet
      /\ Cells(c, n) \in Seq(Cell) /\ Len(Cells(c, n)) = Size(pushed[c], n)
      /\ \A k \in 1..Len(Cells(c, n)) : Cells(c, n)[k] = <<c, n>>
  BY <1>1, CellsStay, ItemType DEF Inv
<1>4. BlockUpTo(Stream(h), pushed[c], c, o, n - 1) /\ Len(Stream(h)) = Offsets(pushed[c], o)[n]
  BY <1>1, <1>2 DEF Partial, Done
<1>5. CASE pc' = "frame" /\ Stream(h)' = Stream(h) \o Cells(c, n)
  <2>1. /\ BlockUpTo(Stream(h) \o Cells(c, n), pushed[c], c, o, n)
        /\ Len(Stream(h) \o Cells(c, n)) = Offsets(pushed[c], o)[n + 1]
    <3>1. Stream(h) \in Seq(Cell)  BY StreamType
    <3>2. PICK s \in Seq(Cell), t \in Seq(Cell), shape \in ShapeSet :
            s = Stream(h) /\ t = Cells(c, n) /\ shape = pushed[c]
      BY <1>3, <3>1
    <3>3. n \in 0..Len(shape) /\ Len(t) = Size(shape, n) /\ \A k \in 1..Len(t) : t[k] = <<c, n>>
      BY <1>3, <3>2
    <3>4. BlockUpTo(s, shape, c, o, n - 1) /\ Len(s) = Offsets(shape, o)[n]
      BY <1>4, <3>2
    <3>5. BlockUpTo(s \o t, shape, c, o, n) /\ Len(s \o t) = Offsets(shape, o)[n + 1]
      <4>1. EndsBlock(s, shape, c, o, n) /\ IsItem(t, shape, c, n)  BY <3>3, <3>4 DEF EndsBlock, IsItem
      <4>2. EndsBlock(s \o t, shape, c, o, n + 1)  BY ONLY <3>2, <3>3, <4>1, o \in Nat, BlockGrows
      <4>3. n + 1 - 1 = n  BY <1>2
      <4> QED  BY <4>2, <4>3 DEF EndsBlock
    <3> QED  BY <3>2, <3>5
  <2>2. Done' = n + 1 /\ n + 1 - 1 = n /\ cur' = c  BY <1>1, <1>2, <1>5 DEF Done
  <2> QED  BY <1>3, <1>5, <2>1, <2>2 DEF Partial
<1>6. CASE pc' = "spill" /\ Stream(h)' = Stream(h)
  <2>1. Done' = n /\ cur' = c  BY <1>1, <1>2, <1>6 DEF Done
  <2> QED  BY <1>3, <1>4, <1>6, <2>1 DEF Partial
<1> QED  BY <1>1, <1>2, <1>5, <1>6

LEMMA PartStep ==
  ASSUME Inv, FileInv, EntryInv, IndexInv, TurnInv, PartInv, Good', [Next]_vars
  PROVE  PartInv'
<1> SUFFICES ASSUME pc' \in Writing PROVE PartInv'  BY DEF PartInv
<1>0. cur' = cur  BY StaysInHand
<1>1. ASSUME pc \in Writing, fail' = FALSE, Touched,
             \A h \in 1..Len(files) : h = file_handle => files'[h].index = files[h].index,
             \A h \in 1..Len(files) : \A e \in OwnEntries(h) :
               h = file_handle /\ e.chunk = cur => Partial(h, cur, e.offset, Done)'
      PROVE  PartInv'
  <2>1. file_handle' = file_handle /\ Len(files') = Len(files)  BY <1>1, StaysOpen DEF Touched
  <2>2. ASSUME NEW h \in 1..Len(files'), h = file_handle'
        PROVE  /\ \E e \in OwnEntries(h)' : e.chunk = cur'
               /\ \A e \in OwnEntries(h)' : e.chunk = cur' => Partial(h, cur, e.offset, Done)'
    <3>1. OwnEntries(h)' = OwnEntries(h)  BY <1>1, <2>1, <2>2 DEF OwnEntries
    <3>2. h \in 1..Len(files) /\ h = file_handle  BY <2>1, <2>2
    <3> QED  BY <1>0, <1>1, <3>1, <3>2 DEF PartInv
  <2> QED  BY <1>1, <2>2 DEF PartInv
<1>2. ASSUME pc \in Writing, fail' = FALSE, Untouched, Done' = Done PROVE PartInv'
  <2>1. ASSUME NEW h \in 1..Len(files), NEW e \in OwnEntries(h), h = file_handle, e.chunk = cur
        PROVE  Partial(h, cur, e.offset, Done)'
    <3>1. Partial(h, cur, e.offset, Done)  BY <1>2, <2>1 DEF PartInv
    <3>2. Stream(h)' = Stream(h)  BY <1>2 DEF Untouched, Stream
    <3>3. cur \in 1..Len(pushed) /\ pushed'[cur] = pushed[cur]  BY <1>2, InHand, CellsStay
    <3> QED  BY <1>0, <1>2, <3>1, <3>2, <3>3 DEF Partial
  <2>2. Touched /\ files' = files  BY <1>2, UntouchedFiles DEF Untouched
  <2> QED  BY <1>1, <1>2, <2>1, <2>2
<1>3. CASE pc \in Writing
  <2>0. fail = FALSE  BY <1>3 DEF PartInv
  <2>1. CASE UNCHANGED workerVars
    <3>1. UNCHANGED <<pc, cur, next, fail>>  BY <2>1 DEF workerVars
    <3>2. Untouched
      BY <1>3, <3>1, GoodSteps DEF Closed, Spilled, Buffered, CloseSavedFile, FileDirectOpen,
         WriteIndexInfo, Writing
    <3> QED  BY <1>2, <1>3, <2>0, <3>1, <3>2 DEF Done
  <2>2. CASE AddFrameInfo
    <3>1. /\ pc = "frame" /\ next' = next + 1 /\ pc' = "write" /\ fail' = FALSE /\ Untouched
      BY <2>0, <2>2 DEF AddFrameInfo, Untouched, fileVars
    <3> QED  BY <1>2, <1>3, <3>1 DEF Done
  <2>3. CASE ChunkDone  BY <2>3 DEF ChunkDone, Writing
  <2>4. CASE WriteBufferToDisk
    <3>1. Buffered  BY <2>4, GoodBuffer
    <3>2. /\ fail' = FALSE /\ files' = files /\ pc = "write" /\ UNCHANGED <<cur, next>>
      BY <2>0, <3>1 DEF Buffered
    <3>3. ASSUME NEW h \in 1..Len(files), NEW e \in OwnEntries(h), h = file_handle, e.chunk = cur
          PROVE  Partial(h, cur, e.offset, Done)'
      <4>1. Partial(h, cur, e.offset, Done) /\ e.offset \in Nat
        BY <1>3, <3>3, EntryOfChunk DEF PartInv
      <4>2. \/ pc' = "frame" /\ Stream(h)' = Stream(h) \o Cells(cur, next)
            \/ pc' = "spill" /\ Stream(h)' = Stream(h)
        BY <3>1, <3>3, BufferedStream DEF NoFile
      <4> QED  BY <1>3, <3>2, <4>1, <4>2, ItemGrows
    <3> QED  BY <1>1, <1>3, <3>2, <3>3, UntouchedFiles
  <2>5. ASSUME NEW outcome \in Outcomes, Spill(outcome) PROVE PartInv'
    <3>1. DiskStep /\ pc = "spill"  BY <2>5 DEF DiskStep, Spill
    <3>2. Good  BY GoodBefore
    <3>3. Spilled  BY <3>1, <3>2, GoodDisk DEF Closed, Writing
    <3>4. ~files[file_handle].seek_lost
      BY <1>3, <3>3, OpenFile DEF IndexInv, Spilled, FileInv
    <3>5. /\ Touched /\ files'[file_handle].index = files[file_handle].index
          /\ \A h \in 1..Len(files) :
               h = file_handle => Stream(h)' = Stream(h) \o Cells(cur, next)
      BY <3>3, <3>4, SpilledStream
    <3>6. fail' = FALSE /\ UNCHANGED <<cur, next>> /\ pc' = "frame"
      BY <2>0, <3>3 DEF Spilled
    <3>7. ASSUME NEW h \in 1..Len(files), NEW e \in OwnEntries(h), h = file_handle, e.chunk = cur
          PROVE  Partial(h, cur, e.offset, Done)'
      <4>1. Partial(h, cur, e.offset, Done) /\ e.offset \in Nat
        BY <1>3, <3>7, EntryOfChunk DEF PartInv
      <4> QED  BY <1>3, <3>1, <3>5, <3>6, <3>7, <4>1, ItemGrows
    <3> QED  BY <1>1, <1>3, <3>5, <3>6, <3>7
  <2> QED  BY <1>3, <2>1, <2>2, <2>3, <2>4, <2>5, WritingSteps
<1>4. CASE pc \notin Writing
  <2>1. WriteIndexInfo(TRUE) /\ UNCHANGED file_handle
    BY <1>4, GoodSteps DEF Closed, Spilled, Buffered, CloseSavedFile, FileDirectOpen,
       Elsewhere, Writing, workerVars
  <2>2. /\ pc' = "write" /\ next' = 0 /\ fail' = FALSE /\ Len(files') = Len(files)
        /\ file_handle # NoFile /\ pc = "index" /\ UNCHANGED <<writebuffer, pushed>>
        /\ files'[file_handle] = [files[file_handle] EXCEPT !.index = OnDiskIndex(Entered)]
    BY <2>1, IndexStep DEF ChunkFailed, Writing, Touched, WriteIndexInfo, pusherVars
  <2>3. ASSUME NEW h \in 1..Len(files'), h = file_handle'
        PROVE  /\ \E e \in OwnEntries(h)' : e.chunk = cur'
               /\ \A e \in OwnEntries(h)' : e.chunk = cur' => Partial(h, cur, e.offset, Done)'
    <3>0. h \in 1..Len(files) /\ h = file_handle  BY <2>1, <2>2, <2>3
    <3>1. files'[h].data = files[h].data /\ files'[h].index = OnDiskIndex(Entered)
      BY <2>2, <3>0, StreamType DEF FileSet
    <3>2. Stream(h)' = Stream(h)  BY <2>1, <2>2, <3>0, <3>1 DEF Stream
    <3>9. PICK en : en = Entry  OBVIOUS
    <3>3. OwnEntries(h)' \subseteq OwnEntries(h) \cup {en}  BY <3>0, <3>9, EntriesFollow
    <3>4. en \in OwnEntries(h)'
      <4>1. PICK E : E = {e \in indexer.entries : e.at + EntrySize <= indexer.pos
                             \/ e.at >= indexer.pos + EntrySize} \cup {Entry}
        OBVIOUS
      <4>2. Entered = [indexer EXCEPT !.pos = indexer.pos + EntrySize, !.entries = E]
        BY <4>1 DEF Entered
      <4>3. indexer \in [pos : Nat, magic : BOOLEAN, entries : SUBSET EntrySet]
        BY DEF FileInv, FileType
      <4>4. files'[h].index.entries = E  BY <3>1, <4>2, <4>3 DEF OnDiskIndex
      <4> QED  BY <3>0, <3>9, <4>1, <4>4 DEF OwnEntries, Entry
    <3>5. \A e \in OwnEntries(h) : e.chunk # cur
      BY <1>4, <3>0 DEF TurnInv
    <3>6. Partial(h, cur, en.offset, Done)'
      <4>1. PICK o : o = en.offset  OBVIOUS
      <4>2. o \in Nat /\ o = Len(Stream(h))
        BY <2>2, <3>0, <3>9, <4>1, IndexTypes, StreamType DEF Entry, EntrySet
      <4>3. cur \in 1..Len(pushed) /\ pushed[cur] \in ShapeSet
        BY <2>2, InHand, ItemType DEF Naming, Inv
      <4>4. Offsets(pushed[cur], o)[0] = o  BY <4>2, <4>3, OffsetsExist DEF Sums
      <4>5. BlockUpTo(Stream(h), pushed[cur], cur, o, 0 - 1)  BY DEF BlockUpTo
      <4>6. Done' = 0  BY <2>2 DEF Done
      <4>7. Partial(h, cur, o, Done)'
        BY <1>0, <2>2, <3>2, <4>2, <4>4, <4>5, <4>6 DEF Partial
      <4> QED  BY <4>1, <4>7
    <3>7. en.chunk = cur'  BY <1>0, <3>9 DEF Entry
    <3> QED  BY <1>0, <3>3, <3>4, <3>5, <3>6, <3>7
  <2> QED  BY <2>2, <2>3 DEF PartInv
<1> QED  BY <1>3, <1>4

LEMMA GoodInvStep == Inv /\ FileInv /\ EntryInv /\ GoodInv /\ [Next]_vars => GoodInv'
<1> SUFFICES ASSUME Inv, FileInv, EntryInv, GoodInv, [Next]_vars, Good'
             PROVE  IndexInv' /\ TurnInv' /\ PartInv' /\ LocateInv'
  BY DEF GoodInv
<1>1. Good  BY GoodBefore
<1>2. IndexInv /\ TurnInv /\ PartInv /\ LocateInv  BY <1>1 DEF GoodInv
<1> QED  BY <1>2, IndexInvStep, TurnStep, PartStep, LocateStep

LEMMA InitGoodInv == Init => EntryInv /\ GoodInv
<1> SUFFICES ASSUME Init PROVE EntryInv /\ GoodInv  OBVIOUS
<1>1. files = <<>> /\ pc = "idle" /\ indexer.entries = {} /\ 1..Len(files) = {}
  BY DEF Init
<1> QED  BY <1>1 DEF EntryInv, GoodInv, IndexInv, TurnInv, PartInv, LocateInv, Writing

\* While no write fails, and no buffer is closed unwritten, torn or found full, an
\* entry of the index leads to the whole block of its chunk, on disk or in the buffer
\* (EntriesLocateBlocks: WriteIndexInfo, WriteBlockInfo, WriteBufferToDisk, FileClose).
THEOREM Located == Spec => []EntriesLocateBlocks
<1>1. Inv /\ FileInv /\ EntryInv /\ GoodInv => EntriesLocateBlocks
  <2> SUFFICES ASSUME Inv, FileInv, EntryInv, GoodInv, Good,
                      NEW h \in 1..Len(files), NEW e \in OwnEntries(h), e.chunk # cur
               PROVE  IsBlockAt(Stream(h), e.chunk, e.offset)
    BY DEF EntriesLocateBlocks, Good
  <2>1. e.chunk \in 1..Len(pushed) /\ e.offset \in Nat  BY EntryOfChunk
  <2>2. BlockUpTo(Stream(h), pushed[e.chunk], e.chunk, e.offset, Len(pushed[e.chunk]))
    BY DEF GoodInv, LocateInv
  <2> QED  BY <2>1, <2>2, WholeBlock DEF Inv
<1>2. Init => Inv /\ FileInv /\ EntryInv /\ GoodInv  BY InitInv, InitFileInv, InitGoodInv
<1>3. Inv /\ FileInv /\ EntryInv /\ GoodInv /\ [Next]_vars
        => (Inv /\ FileInv /\ EntryInv /\ GoodInv)'
  BY InvStep, FileInvStep, EntryStep, GoodInvStep
<1> QED  BY <1>1, <1>2, <1>3, PTL DEF Spec

-----------------------------------------------------------------------------
(***************************************************************************)
(* What is reported saved can be found.                                    *)
(***************************************************************************)
Clean == faults = 0 /\ damage = {}
InIndex(f, h) == \E e \in OwnEntries(h) : e.chunk = f[1]
Findable(f) ==
  \E h \in 1..Len(files) : InFile(f, h) /\ files[h].index.magic = TRUE /\ InIndex(f, h)
InBuffer(f) ==
  \E h \in 1..Len(files) : h = file_handle /\ f \in Elems(writebuffer) /\ InIndex(f, h)
AtHand(f) == pc \in {"write", "spill"} /\ f = <<cur, next>>

\* A frame that waits for its verdict is on its way into a file with an entry for it.
FindInv == Clean =>
  /\ \A f \in Frames : status[f] = "saved" => Findable(f)
  /\ \A f \in frameInfos_ : Findable(f) \/ InBuffer(f) \/ AtHand(f)

LEMMA ElemsConcat ==
  ASSUME NEW s \in Seq(Cell), NEW t \in Seq(Cell)
  PROVE  Elems(s) \subseteq Elems(s \o t) /\ Elems(t) \subseteq Elems(s \o t)
<1>0. /\ Len(s) \in Nat /\ Len(t) \in Nat /\ Len(s \o t) = Len(s) + Len(t)
      /\ \A i \in 1..Len(s) + Len(t) : (s \o t)[i] = IF i <= Len(s) THEN s[i] ELSE t[i - Len(s)]
  BY LenProperties, ConcatProperties
<1>1. ASSUME NEW i \in 1..Len(s) PROVE i \in 1..Len(s \o t) /\ (s \o t)[i] = s[i]
  BY <1>0
<1>2. ASSUME NEW i \in 1..Len(t)
      PROVE  Len(s) + i \in 1..Len(s \o t) /\ (s \o t)[Len(s) + i] = t[i]
  <2>1. PICK j : j = Len(s) + i  OBVIOUS
  <2>2. j \in 1..Len(s) + Len(t) /\ ~(j <= Len(s)) /\ j - Len(s) = i  BY <1>0, <2>1
  <2>3. (s \o t)[j] = t[i]  BY <1>0, <2>2
  <2> QED  BY <1>0, <2>1, <2>2, <2>3
<1> QED  BY <1>1, <1>2 DEF Elems

LEMMA CleanIsGood ==
  ASSUME Clean'
  PROVE  Good'
BY DEF Clean, Good

LEMMA CleanBefore ==
  ASSUME FileInv, [Next]_vars, Clean'
  PROVE  Clean
BY CleanIsGood, GoodBefore, DamageStays DEF Good, Clean

\* Nothing is taken from a file.
LEMMA FilesKept ==
  ASSUME Inv, FileInv, IndexInv, Clean', [Next]_vars, NEW h \in 1..Len(files)
  PROVE  /\ h \in 1..Len(files')
         /\ \E t \in Seq(Cell) : files'[h].data = files[h].data \o t
         /\ files'[h].index.magic = files[h].index.magic
         /\ OwnEntries(h) \subseteq OwnEntries(h)'
<1>0. /\ Good' /\ "index" \notin damage' /\ files[h] \in FileSet /\ FileType
      /\ h \in 1..Len(files') /\ indexer \in [pos : Nat, magic : BOOLEAN, entries : SUBSET EntrySet]
  <2>1. Good' /\ "index" \notin damage'  BY CleanIsGood DEF Clean
  <2>2. h \in 1..Len(files')
    <3>1. Len(files) \in Nat /\ Len(files') \in Nat /\ Len(files') >= Len(files)  BY FilesStay
    <3> QED  BY <3>1
  <2> QED  BY <2>1, <2>2, StreamType DEF FileInv, FileType
<1>1. ASSUME files'[h].data = files[h].data
      PROVE  \E t \in Seq(Cell) : files'[h].data = files[h].data \o t
  <2>1. files[h].data \o <<>> = files[h].data /\ <<>> \in Seq(Cell)
    BY StreamType, ConcatEmptySeq, EmptySeq
  <2> QED  BY <1>1, <2>1
<1>2. CASE files'[h] = files[h]
  BY <1>0, <1>1, <1>2 DEF OwnEntries
<1>3. CASE \/ Untouched \/ Buffered \/ CloseSavedFile
           \/ UNCHANGED <<file_handle, writebuffer, indexer, files, frameInfos_, status,
                          forgotten>>
  BY <1>2, <1>3 DEF Untouched, Buffered, CloseSavedFile
<1>4. CASE FileDirectOpen(TRUE)  BY <1>2, <1>4, OpenStep
<1>5. CASE Closed
  <2>1. CASE h # file_handle  BY <1>2, <1>5, <2>1, ClosedStream DEF Touched
  <2>2. CASE h = file_handle
    <3>1. /\ files'[h].index = files[h].index
          /\ files'[h].data = Stream(h) \o <<Junk>>
      BY <1>0, <1>5, <2>2, ClosedStream
    <3>2. writebuffer \o <<Junk>> \in Seq(Cell)
      <4>1. <<Junk>> \in Seq(Cell)
        <5>1. Junk \in Cell  BY ConstantsAssumption DEF Junk, Cell
        <5> QED  BY <5>1
      <4> QED  BY <4>1, StreamType, ConcatProperties
    <3>3. Stream(h) \o <<Junk>> = files[h].data \o (writebuffer \o <<Junk>>)
      <4>1. <<Junk>> \in Seq(Cell)
        <5>1. Junk \in Cell  BY ConstantsAssumption DEF Junk, Cell
        <5> QED  BY <5>1
      <4>2. Stream(h) = files[h].data \o writebuffer  BY <2>2 DEF Stream
      <4>3. files[h].data \in Seq(Cell) /\ writebuffer \in Seq(Cell)  BY StreamType
      <4>4. PICK j \in Seq(Cell) : j = <<Junk>>  BY <4>1
      <4>5. Regroups(files[h].data, writebuffer, j)  BY <4>3, Associative
      <4> QED  BY <4>2, <4>4, <4>5 DEF Regroups
    <3> QED  BY <1>0, <3>1, <3>2, <3>3 DEF OwnEntries
  <2> QED  BY <2>1, <2>2
<1>6. CASE Spilled
  <2>1. ~files[file_handle].seek_lost
    BY <1>6, OpenFile DEF Spilled, IndexInv, Writing, FileInv
  <2>2. CASE h # file_handle  BY <1>2, <1>6, <2>1, <2>2, SpilledStream DEF Touched
  <2>3. CASE h = file_handle
    <3>1. files'[h].index = files[h].index
      BY <1>6, <2>1, <2>3, SpilledStream
    <3>2. PICK t \in Seq(Cell) : files'[h].data = (files[h].data \o FilledBuffer) \o t
      BY <1>6, <2>1, <2>3, SpilledStream
    <3>3. FilledBuffer \in Seq(Cell)  BY <1>6, SpillTypes DEF Spilled
    <3>4. /\ (files[h].data \o FilledBuffer) \o t = files[h].data \o (FilledBuffer \o t)
          /\ FilledBuffer \o t \in Seq(Cell)
      <4>1. PICK a \in Seq(Cell), b \in Seq(Cell) : a = files[h].data /\ b = FilledBuffer
        BY <3>3, StreamType
      <4>2. Regroups(a, b, t) /\ b \o t \in Seq(Cell)  BY Associative, ConcatProperties
      <4> QED  BY ONLY <4>1, <4>2 DEF Regroups
    <3> QED  BY <1>0, <3>1, <3>2, <3>4 DEF OwnEntries
  <2> QED  BY <2>2, <2>3
<1>7. CASE WriteIndexInfo(TRUE) /\ UNCHANGED file_handle
  <2>1. CASE h # file_handle  BY <1>2, <1>7, <2>1, IndexStep DEF Touched
  <2>2. CASE h = file_handle
    <3>1. CASE files'[h] = [files[h] EXCEPT !.seek_lost = TRUE]
      <4>1. files'[h].data = files[h].data /\ files'[h].index = files[h].index
        BY <1>0, <3>1 DEF FileSet
      <4> QED  BY <1>0, <1>1, <4>1 DEF OwnEntries
    <3>2. CASE files'[h] = [files[h] EXCEPT !.index = OnDiskIndex(Entered)]
      <4>1. files'[h].data = files[h].data /\ files'[h].index = OnDiskIndex(Entered)
        BY <1>0, <3>2 DEF FileSet
      <4>2. PICK E : E = {e \in indexer.entries : e.at + EntrySize <= indexer.pos
                               \/ e.at >= indexer.pos + EntrySize} \cup {Entry}
        OBVIOUS
      <4>3. Entered = [indexer EXCEPT !.pos = indexer.pos + EntrySize, !.entries = E]
        BY <4>2 DEF Entered
      <4>4. files'[h].index.entries = E /\ files'[h].index.magic = indexer.magic
        BY <1>0, <4>1, <4>3 DEF OnDiskIndex
      <4>5. /\ files[h].index.entries = indexer.entries
            /\ files[h].index.magic = indexer.magic
            /\ \A e \in OwnEntries(h) : e.at + EntrySize <= indexer.pos
        BY <2>2 DEF IndexInv, OnDiskIndex
      <4>6. OwnEntries(h) \subseteq OwnEntries(h)'  BY <4>2, <4>4, <4>5 DEF OwnEntries
      <4> QED  BY <1>0, <1>1, <4>1, <4>4, <4>5, <4>6
    <3>3. \/ files'[h] = [files[h] EXCEPT !.seek_lost = TRUE]
          \/ files'[h] = [files[h] EXCEPT !.index = OnDiskIndex(Entered)]
      BY <1>7, <2>2, IndexStep
    <3> QED  BY <3>1, <3>2, <3>3
  <2> QED  BY <2>1, <2>2
<1> QED  BY <1>0, <1>3, <1>4, <1>5, <1>6, <1>7, GoodSteps

LEMMA FindableStays ==
  ASSUME Inv, FileInv, IndexInv, Clean', [Next]_vars, NEW f, Findable(f)
  PROVE  Findable(f)'
<1>1. PICK h \in 1..Len(files) :
        InFile(f, h) /\ files[h].index.magic = TRUE /\ InIndex(f, h)
  BY DEF Findable
<1>2. PICK t \in Seq(Cell) : files'[h].data = files[h].data \o t  BY FilesKept
<1>3. InFile(f, h)'
  <2>1. f \in Elems(files[h].data \o t)  BY <1>1, StreamType, ElemsConcat DEF InFile
  <2>2. PICK s : s = files[h].data \o t  OBVIOUS
  <2> QED  BY <1>2, <2>1 DEF InFile, Elems
<1>4. /\ h \in 1..Len(files') /\ files'[h].index.magic = TRUE
      /\ OwnEntries(h) \subseteq OwnEntries(h)'
  BY <1>1, FilesKept
<1>5. InIndex(f, h)'  BY <1>1, <1>4 DEF InIndex
<1> QED  BY <1>3, <1>4, <1>5 DEF Findable

\* What waits in the buffer stays there, or goes into the file that is open.
LEMMA BufferStays ==
  ASSUME Inv, FileInv, IndexInv, Clean', [Next]_vars, NEW f, InBuffer(f)
  PROVE  Findable(f)' \/ (InBuffer(f)' /\ ~Closed /\ ~Spilled)
<1>0. PICK h \in 1..Len(files) : h = file_handle /\ f \in Elems(writebuffer) /\ InIndex(f, h)
  BY DEF InBuffer
<1>1. /\ h \in 1..Len(files') /\ OwnEntries(h) \subseteq OwnEntries(h)' /\ h # NoFile
      /\ files'[h].index.magic = TRUE /\ Good' /\ InIndex(f, h)'
      /\ files[h].data \in Seq(Cell) /\ writebuffer \in Seq(Cell)
  <2>1. h # NoFile  BY DEF NoFile
  <2>2. files[h].index.magic = TRUE  BY <1>0 DEF IndexInv, OnDiskIndex
  <2>3. OwnEntries(h) \subseteq OwnEntries(h)'  BY FilesKept
  <2>4. InIndex(f, h)'  BY <1>0, <2>3 DEF InIndex
  <2> QED  BY <2>1, <2>2, <2>3, <2>4, FilesKept, CleanIsGood, StreamType
<1>2. ASSUME file_handle' = file_handle, f \in Elems(writebuffer'), ~Closed, ~Spilled
      PROVE  InBuffer(f)' /\ ~Closed /\ ~Spilled
  <2>1. f \in Elems(writebuffer)'  BY <1>2 DEF Elems
  <2> QED  BY <1>0, <1>1, <1>2, <2>1 DEF InBuffer
<1>3. ASSUME f \in Elems(files'[h].data) PROVE Findable(f)'
  BY <1>1, <1>3 DEF Findable, InFile, Elems
<1>4. CASE Closed
  <2>1. files'[h].data = Stream(h) \o <<Junk>>
    BY <1>0, <1>4, ClosedStream DEF Clean
  <2>2. <<Junk>> \in Seq(Cell)
    <3>1. Junk \in Cell  BY ConstantsAssumption DEF Junk, Cell
    <3> QED  BY <3>1
  <2>3. Stream(h) = files[h].data \o writebuffer  BY <1>0 DEF Stream
  <2>4. f \in Elems(Stream(h))  BY <1>0, <1>1, <2>3, ElemsConcat
  <2>5. f \in Elems(Stream(h) \o <<Junk>>)  BY <2>2, <2>4, StreamType, ElemsConcat
  <2> QED  BY <1>3, <2>1, <2>5
<1>5. CASE Spilled
  <2>1. ~files[file_handle].seek_lost  BY <1>0, <1>5 DEF Spilled, IndexInv, Writing
  <2>2. PICK t \in Seq(Cell) : files'[h].data = (files[h].data \o FilledBuffer) \o t
    BY <1>0, <1>5, <2>1, SpilledStream
  <2>3. /\ FilledBuffer \in Seq(Cell) /\ FilledBuffer = writebuffer \o SubSeq(Cells(cur, next), 1, room)
        /\ SubSeq(Cells(cur, next), 1, room) \in Seq(Cell)
    <3>1. /\ Cells(cur, next) \in Seq(Cell) /\ FilledBuffer \in Seq(Cell)
          /\ room \in 1..Len(Cells(cur, next))
      BY <1>5, SpillTypes DEF Spilled, FileInv, HandleInv
    <3>2. PICK item \in Seq(Cell) : item = Cells(cur, next)  BY <3>1
    <3>3. \A i \in 1 .. room : item[i] \in Cell  BY <3>1, <3>2, ElementOfSeq
    <3>4. SubSeq(item, 1, room) \in Seq(Cell)  BY <3>1, <3>3, SubSeqProperties
    <3> QED  BY <3>1, <3>2, <3>4 DEF FilledBuffer
  <2>4. f \in Elems(FilledBuffer)  BY <1>0, <1>1, <2>3, ElemsConcat
  <2>5. f \in Elems(files[h].data \o FilledBuffer)  BY <1>1, <2>3, <2>4, ElemsConcat
  <2>6. files[h].data \o FilledBuffer \in Seq(Cell)  BY <1>1, <2>3, ConcatProperties
  <2>7. f \in Elems((files[h].data \o FilledBuffer) \o t)  BY <2>5, <2>6, ElemsConcat
  <2> QED  BY <1>3, <2>2, <2>7
<1>6. CASE Buffered /\ ~Closed /\ ~Spilled
  <2>1. file_handle' = file_handle  BY <1>6 DEF Buffered
  <2>2. CASE writebuffer' = writebuffer  BY <1>0, <1>2, <1>6, <2>1, <2>2
  <2>3. CASE writebuffer' = writebuffer \o Cells(cur, next)
    <3>1. Cells(cur, next) \in Seq(Cell)  BY <1>6, InHand, CellsType DEF Buffered, Writing, Inv
    <3>2. f \in Elems(writebuffer \o Cells(cur, next))  BY <1>0, <1>1, <3>1, ElemsConcat
    <3> QED  BY <1>2, <1>6, <2>1, <2>3, <3>2
  <2> QED  BY <1>6, <2>2, <2>3 DEF Buffered
<1>7. CASE /\ file_handle' = file_handle /\ writebuffer' = writebuffer /\ ~Closed /\ ~Spilled
  BY <1>0, <1>2, <1>7
<1>8. CASE WriteIndexInfo(TRUE) /\ UNCHANGED file_handle
  <2>1. ~Closed /\ ~Spilled /\ writebuffer' = writebuffer
    BY <1>8 DEF WriteIndexInfo, Closed, Spilled
  <2> QED  BY <1>7, <1>8, <2>1
<1>9. ~FileDirectOpen(TRUE)
  <2>1. FileDirectOpen(TRUE) => file_handle = NoFile  BY OpenStep
  <2> QED  BY <1>0, <1>1, <2>1
<1>10. ~(CloseSavedFile /\ writebuffer = <<>>)
  <2>1. writebuffer = <<>> => Elems(writebuffer) = {}  BY DEF Elems
  <2> QED  BY <1>0, <2>1
<1>11. Untouched => file_handle' = file_handle /\ writebuffer' = writebuffer  BY DEF Untouched
<1> QED  BY <1>1, <1>4, <1>5, <1>6, <1>7, <1>8, <1>9, <1>10, <1>11, GoodSteps

\* The frame that is being written reaches the buffer or the file.
LEMMA AtHandStays ==
  ASSUME Inv, FileInv, IndexInv, PartInv, Clean', [Next]_vars, NEW f, AtHand(f)
  PROVE  \/ Findable(f)'
         \/ (InBuffer(f)' \/ AtHand(f)') /\ ~Closed /\ ~Spilled
<1>0. /\ pc \in Writing /\ f = <<cur, next>> /\ Good' /\ Good
  BY CleanIsGood, GoodBefore DEF AtHand, Writing
<1>1. file_handle # NoFile  BY <1>0 DEF FileInv, HandleInv, Good
<1>2. PICK h \in 1..Len(files) : h = file_handle  BY <1>1, OpenFile DEF FileInv
<1>3. /\ cur \in 1..Len(pushed) /\ next \in 0..Len(pushed[cur])
      /\ Cells(cur, next) \in Seq(Cell) /\ Len(Cells(cur, next)) \in Nat \ {0}
      /\ \A k \in 1..Len(Cells(cur, next)) : Cells(cur, next)[k] = f
  <2>1. cur \in 1..Len(pushed) /\ next \in 0..Len(pushed[cur])  BY <1>0, InHand
  <2> QED  BY <1>0, <2>1, ItemType, CellsType DEF Inv
<1>4. InIndex(f, h)' /\ h \in 1..Len(files') /\ files'[h].index.magic = TRUE
  <2>1. InIndex(f, h)  BY <1>0, <1>2 DEF PartInv, InIndex
  <2>2. OwnEntries(h) \subseteq OwnEntries(h)'  BY FilesKept
  <2>3. files[h].index.magic = TRUE  BY <1>2 DEF IndexInv, OnDiskIndex
  <2>4. InIndex(f, h)'  BY <2>1, <2>2 DEF InIndex
  <2> QED  BY <2>3, <2>4, FilesKept
<1>5. writebuffer \in Seq(Cell) /\ files[h].data \in Seq(Cell)  BY StreamType
<1>6. CASE UNCHANGED workerVars
  <2>1. ~Closed /\ ~Spilled  BY <1>0, <1>6 DEF workerVars, Closed, Spilled, Writing
  <2> QED  BY <1>6, <2>1 DEF workerVars, AtHand
<1>7. CASE AddFrameInfo \/ ChunkDone  BY <1>7 DEF AddFrameInfo, ChunkDone, AtHand
<1>8. CASE WriteBufferToDisk
  <2>1. Buffered  BY <1>0, <1>8, GoodBuffer
  <2>2. /\ ~Closed /\ ~Spilled /\ file_handle' = file_handle
    BY <2>1 DEF Buffered, Closed, Spilled
  <2>3. CASE pc' = "spill"
    <3>1. AtHand(f)'  BY <1>0, <2>1, <2>3 DEF Buffered, AtHand
    <3> QED  BY <2>2, <3>1
  <2>4. CASE writebuffer' = writebuffer \o Cells(cur, next)
    <3>1. f \in Elems(Cells(cur, next))
      <4>1. PICK item \in Seq(Cell) : item = Cells(cur, next)  BY <1>3
      <4>2. 1 \in 1..Len(item) /\ item[1] = f  BY <1>3, <4>1
      <4>3. f \in Elems(item)  BY <4>2 DEF Elems
      <4> QED  BY <4>1, <4>3
    <3>2. f \in Elems(writebuffer \o Cells(cur, next))  BY <1>3, <1>5, <3>1, ElemsConcat
    <3>3. f \in Elems(writebuffer)'  BY <2>4, <3>2 DEF Elems
    <3>4. InBuffer(f)'  BY <1>2, <1>4, <2>2, <3>3 DEF InBuffer
    <3> QED  BY <2>2, <3>4
  <2> QED  BY <2>1, <2>3, <2>4 DEF Buffered
<1>9. ASSUME NEW outcome \in Outcomes, Spill(outcome) PROVE Findable(f)'
  <2>1. DiskStep /\ pc = "spill"  BY <1>9 DEF DiskStep, Spill
  <2>2. Spilled  BY <1>0, <2>1, GoodDisk DEF Closed, Writing
  <2>3. ~files[file_handle].seek_lost  BY <1>0, <1>2 DEF IndexInv
  <2>4. PICK t \in Seq(Cell) : files'[h].data = (files[h].data \o FilledBuffer) \o t
    BY <1>2, <2>2, <2>3, SpilledStream
  <2>5. PICK item \in Seq(Cell) : item = Cells(cur, next)  BY <1>3
  <2>6. room \in 1..Len(item) /\ room \in Int
    BY <2>1, <2>5 DEF FileInv, HandleInv, Inv, TypeOK, WorkerType
  <2>7. \A i \in 1 .. room : item[i] \in Cell  BY <2>5, <2>6, ElementOfSeq
  <2>8. PICK one \in Seq(Cell) : one = SubSeq(item, 1, room)
    <3>1. SubSeq(item, 1, room) \in Seq(Cell)  BY <2>6, <2>7, SubSeqProperties
    <3> QED  BY <3>1
  <2>9. f \in Elems(one)
    <3>1. Len(one) = room - 1 + 1 /\ \A i \in 1 .. room - 1 + 1 : one[i] = item[1 + i - 1]
      BY <2>6, <2>7, <2>8, SubSeqProperties
    <3>2. 1 \in 1..Len(one) /\ one[1] = item[1] /\ 1 \in 1..Len(item)  BY <2>6, <3>1
    <3> QED  BY <1>3, <2>5, <3>2 DEF Elems
  <2>10. FilledBuffer = writebuffer \o one  BY <2>5, <2>8 DEF FilledBuffer
  <2>11. f \in Elems(FilledBuffer) /\ FilledBuffer \in Seq(Cell)
    BY <1>5, <2>9, <2>10, ElemsConcat, ConcatProperties
  <2>12. /\ f \in Elems(files[h].data \o FilledBuffer)
         /\ files[h].data \o FilledBuffer \in Seq(Cell)
    BY <1>5, <2>11, ElemsConcat, ConcatProperties
  <2>13. f \in Elems((files[h].data \o FilledBuffer) \o t)  BY <2>12, ElemsConcat
  <2>14. InFile(f, h)'  BY <2>4, <2>13 DEF InFile, Elems
  <2> QED  BY <1>4, <2>14 DEF Findable
<1> QED  BY <1>0, <1>6, <1>7, <1>8, <1>9, WritingSteps

\* Only a write that succeeds reports frames saved; only the loop of
\* ProcessChunkBuffers makes one pending.
LEMMA SavedByDisk ==
  ASSUME Inv, [Next]_vars, ~DiskStep
  PROVE  /\ \A f \in Frames : status'[f] = "saved" => status[f] = "saved"
         /\ frameInfos_' \subseteq frameInfos_ \/ AddFrameInfo
<1>0. TypeOK  BY DEF Inv
<1>1. ASSUME NEW S, Report(S, "lost")
      PROVE  \A f \in Frames : status'[f] = "saved" => status[f] = "saved"
  BY <1>0, <1>1, ReportEffect
<1>2. ASSUME NEW S, ClearInfos(S) PROVE frameInfos_' \subseteq frameInfos_
  BY <1>2 DEF ClearInfos
<1>3. CASE UNCHANGED <<frameInfos_, status>>  BY <1>3
<1>4. CASE Worker
  <2>1. CASE AddFrameInfo  BY <2>1 DEF AddFrameInfo
  <2>2. CASE ChunkFailed  BY <1>1, <1>2, <2>2 DEF ChunkFailed
  <2>3. CASE ProcessFlushClear  BY <1>2, <2>3 DEF ProcessFlushClear
  <2> QED  BY <1>3, <1>4, <2>1, <2>2, <2>3, WorkerReports
<1>5. CASE QueueCheckReport
  BY <1>1, <1>2, <1>3, <1>5 DEF QueueCheckReport, reportVars
<1>6. CASE (Pusher /\ ~QueueCheckReport) \/ PushFlush \/ UNCHANGED vars
  <2>1. UNCHANGED <<frameInfos_, status>>
    BY <1>6 DEF Pusher, PushBegin, PushDriver, PushEnqueue, MemoryCheck, MemoryCheckDio,
       SetDioBufferSize, QueueCheck, PushFlush, vars, reportVars
  <2> QED  BY <1>3, <2>1
<1> QED  BY <1>4, <1>5, <1>6 DEF Next

LEMMA FindStep ==
  Inv /\ FileInv /\ EntryInv /\ GoodInv /\ FindInv /\ [Next]_vars => FindInv'
<1> SUFFICES ASSUME Inv, FileInv, EntryInv, GoodInv, FindInv, [Next]_vars, Clean'
             PROVE  /\ \A f \in Frames : status'[f] = "saved" => Findable(f)'
                    /\ \A f \in frameInfos_' : (Findable(f) \/ InBuffer(f) \/ AtHand(f))'
  BY DEF FindInv
<1>0. Good' /\ Good /\ Clean /\ IndexInv /\ PartInv
  BY CleanIsGood, GoodBefore, CleanBefore DEF GoodInv
<1>1. ASSUME NEW f \in Frames, status[f] = "saved" PROVE Findable(f)'
  BY <1>0, <1>1, FindableStays DEF FindInv
<1>2. ASSUME NEW f \in frameInfos_
      PROVE  Findable(f)' \/ ((InBuffer(f)' \/ AtHand(f)') /\ ~Closed /\ ~Spilled)
  BY <1>0, FindableStays, BufferStays, AtHandStays DEF FindInv
<1>3. CASE Closed \/ Spilled
  <2>1. Report(frameInfos_, "saved") /\ frameInfos_' \subseteq frameInfos_
    BY <1>3 DEF Closed, Spilled, WriteDiskSuccess, FromLastVideo
  <2>2. \A f \in Frames : status'[f] = "saved" => f \in frameInfos_ \/ status[f] = "saved"
    BY <2>1, ReportEffect DEF Inv
  <2> QED  BY <1>1, <1>2, <1>3, <2>1, <2>2
<1>4. CASE ~(Closed \/ Spilled)
  <2>1. /\ \A f \in Frames : status'[f] = "saved" => status[f] = "saved"
        /\ frameInfos_' \subseteq frameInfos_ \/ AddFrameInfo
    <3>1. CASE DiskStep  BY <1>0, <1>4, <3>1, GoodDisk
    <3>2. CASE ~DiskStep  BY <3>2, SavedByDisk
    <3> QED  BY <3>1, <3>2
  <2>2. ASSUME AddFrameInfo, NEW f \in frameInfos_'
        PROVE  f \in frameInfos_ \/ AtHand(f)'
    <3>1. fail = FALSE  BY <1>0, <2>2 DEF PartInv, AddFrameInfo, Writing
    <3>2. pc' = "write" /\ next' = next + 1 /\ cur' = cur
          /\ frameInfos_' = frameInfos_ \cup {<<cur, next + 1>>}
      BY <2>2, <3>1 DEF AddFrameInfo
    <3> QED  BY <3>2 DEF AtHand
  <2> QED  BY <1>1, <1>2, <2>1, <2>2
<1> QED  BY <1>3, <1>4

\* While no write fails and nothing else goes wrong, a frame that was reported saved
\* is in a file whose index is valid and has an entry for its chunk
\* (SavedIsFindable: WriteIndexInfo before the data, WriteDisk before the report).
THEOREM Findables == Spec => []SavedIsFindable
<1>1. FileInv /\ FindInv => SavedIsFindable
  <2> SUFFICES ASSUME FileInv, FindInv, Clean, NEW f \in Frames, status[f] = "saved"
               PROVE  \E h \in 1..Len(files) :
                        /\ InFile(f, h)
                        /\ files[h].index.magic
                        /\ \E e \in OwnEntries(h) : e.chunk = f[1]
    BY DEF SavedIsFindable, Clean
  <2> QED  BY DEF FindInv, Findable, InIndex
<1>2. Init => Inv /\ FileInv /\ EntryInv /\ GoodInv /\ FindInv
  <2>1. Init => FindInv
    <3> SUFFICES ASSUME Init PROVE FindInv  OBVIOUS
    <3>1. frameInfos_ = {} /\ \A f \in Frames : status[f] = "none"  BY DEF Init
    <3> QED  BY <3>1 DEF FindInv
  <2> QED  BY <2>1, InitInv, InitFileInv, InitGoodInv
<1>3. Inv /\ FileInv /\ EntryInv /\ GoodInv /\ FindInv /\ [Next]_vars
        => (Inv /\ FileInv /\ EntryInv /\ GoodInv /\ FindInv)'
  BY InvStep, FileInvStep, EntryStep, GoodInvStep, FindStep
<1> QED  BY <1>1, <1>2, <1>3, PTL DEF Spec
=============================================================================
