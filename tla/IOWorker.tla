------------------------------ MODULE IOWorker ------------------------------
(***************************************************************************)
(* The write pipeline of one recorded stream (archive_manager/modules/     *)
(* io_worker.cc).  The application's thread pushes chunks (groups of       *)
(* pictures) and flush marks into media_buffers; the drive's thread runs   *)
(* ProcessBuffer, which pops them, keeps the index and the data buffer of  *)
(* the open file, and reports to the application which frames are saved.   *)
(*                                                                         *)
(* A chunk is the number of its push, a frame <<chunk, position>>.  Data is *)
(* counted in cells: the block header of chunk c is the cell <<c, 0>>, its *)
(* frame i is `size` cells <<c, i>>.  Sizes, disks and clocks are inputs.  *)
(***************************************************************************)
EXTENDS Integers, Sequences, FiniteSets

CONSTANTS
  Shapes,       \* the chunks that may be pushed: sequences of [kind, size]
  MaxFrames,    \* no chunk has more frames
  MaxChunks,    \* bound: chunks pushed in a behaviour
  MaxFlushes,   \* bound: flush marks pushed in a behaviour
  MaxFaults,    \* bound: writes that fail on a valid handle
  Drives,       \* the drives the stream is recorded to
  QueueMax,     \* IOWORKER_QUEUE_MAX_COUNT
  MaxBufferSize,\* bound on the growth of buffer_size_
  MemoryMax,    \* IOWORKER_MEMORY_BUFFER_QUEUE_MAX_COUNT
  InitSize, NomalSize, BusySize,  \* cells of dio_buffer_size_
  IndexSize     \* g_dio_indexer_size_

NoDrive == "no drive"
NoFile == 0           \* InvalidHandle
Flush == 0            \* the flush mark among the chunks of media_buffers
Junk == <<0, 0>>      \* a cell of no frame: padding, or stale buffer memory
MagicSize == 6        \* "PFFT" and the version
EntrySize == 32       \* sizeof(ArchiveIndexHeader)
Inclease == 2         \* inclease_size
Memory == {"low", "mid", "high"}   \* the reading of PercentAvailableMemorySize
Kinds == {"video", "audio"}

ASSUME ConstantsAssumption ==
  /\ MaxFrames \in Nat /\ MaxChunks \in Nat /\ MaxFlushes \in Nat /\ MaxFaults \in Nat
  /\ Shapes \subseteq Seq([kind : Kinds, size : Nat \ {0}])
  /\ \A s \in Shapes : Len(s) \in 1..MaxFrames
  /\ NoDrive \notin Drives
  /\ QueueMax \in Nat /\ QueueMax >= 3
  /\ MaxBufferSize \in Nat /\ MaxBufferSize >= QueueMax
  /\ MemoryMax \in Nat \ {0}
  /\ InitSize \in Nat \ {0} /\ NomalSize \in Nat \ {0} /\ BusySize \in Nat \ {0}
  /\ IndexSize \in Nat /\ IndexSize >= MagicSize

VARIABLES
  \* shared by the pusher, the flusher and the worker
  pushed,          \* the shapes of the chunks pushed so far
  media_buffers, buffer_size_, save_driver_, change_file_, flushes,
  dio_buffer_size_, frameInfos_,
  \* the pusher: its position, what it has in hand
  push_pc, pushing, overflow,
  \* the worker: its position in ProcessBuffer, its locals
  pc, cur, next, fail, room,
  \* the worker's view of the open file
  file_handle, file_write_timestamp_, writebuffer, indexer, file_index_last_pos_,
  memory_buffer_frames,
  \* outside: the files, the last verdict reported on each frame, failed writes
  files, status, faults,
  \* history, read by properties only
  damage, forgotten

pusherVars == <<push_pc, pushing, overflow, pushed>>
workerVars == <<pc, cur, next, fail, room>>
fileVars == <<file_handle, file_write_timestamp_, writebuffer, indexer,
              file_index_last_pos_, memory_buffer_frames, files, faults>>
queueVars == <<media_buffers, buffer_size_, flushes>>
reportVars == <<frameInfos_, status, forgotten>>
vars == <<pusherVars, workerVars, fileVars, queueVars, reportVars,
          save_driver_, change_file_, dio_buffer_size_, damage>>

(***************************************************************************)
(* Frames, cells and reports.                                              *)
(***************************************************************************)
Chunks == 1..MaxChunks
Frames == Chunks \X (1..MaxFrames)
Elems(s) == {s[i] : i \in 1..Len(s)}
FramesOf(c) == {f \in Frames : f[1] = c /\ c <= Len(pushed) /\ f[2] <= Len(pushed[c])}
FramesIn(q) == UNION {FramesOf(c) : c \in Elems(q)}
Cells(c, i) == [k \in 1..(IF i = 0 THEN 1 ELSE pushed[c][i].size) |-> <<c, i>>]

\* CallbackWirteStatusIWTAW: the verdict the application last heard of a frame.
Report(S, verdict) ==
  status' = [f \in Frames |-> IF f \in S THEN verdict ELSE status[f]]

\* ResetInfo: what is left is the last video frame and everything after it (the
\* frames of frameInfos_ were added in the order of their numbers).
Later(f, g) == f[1] > g[1] \/ (f[1] = g[1] /\ f[2] > g[2])
Videos(S) == {f \in S : pushed[f[1]][f[2]].kind = "video"}
FromLastVideo(S) ==
  {f \in S : /\ \E v \in Videos(S) : ~Later(v, f)
             /\ \A v \in Videos(S) : ~Later(v, f)}

\* Clear: frames still waiting for their first verdict are forgotten (history).
ClearInfos(reported) ==
  /\ frameInfos_' = {}
  /\ forgotten' = forgotten \cup
       {f \in frameInfos_ : status[f] = "none" /\ f \notin reported}

-----------------------------------------------------------------------------
Init ==
  /\ pushed = <<>> /\ push_pc = "idle" /\ pushing = NoDrive /\ overflow = {}
  /\ media_buffers = <<>> /\ buffer_size_ = QueueMax /\ flushes = 0
  /\ save_driver_ = NoDrive /\ change_file_ = FALSE
  /\ dio_buffer_size_ = InitSize /\ frameInfos_ = {}
  /\ pc = "idle" /\ cur = 0 /\ next = 0 /\ fail = FALSE /\ room = 0
  /\ file_handle = NoFile /\ file_write_timestamp_ = FALSE
  /\ writebuffer = <<>>
  /\ indexer = [pos |-> 0, magic |-> FALSE, entries |-> {}]
  /\ file_index_last_pos_ = 0
  /\ memory_buffer_frames = <<>>
  /\ files = <<>> /\ faults = 0
  /\ status = [f \in Frames |-> "none"]
  /\ damage = {} /\ forgotten = {}

(***************************************************************************)
(* A definition marked `mutant` is a broken version of the one that        *)
(* follows it; nothing uses it, it is put in its place to see that a       *)
(* property notices.                                                       *)
(***************************************************************************)

(***************************************************************************)
(* The pusher: PushVideoChunkBuffer and what it calls, cut at every point  *)
(* where the worker, which shares no lock with most of it, may step in.    *)
(***************************************************************************)

\* A drive other than save_driver_ first asks for a new file...
SwitchesFirst(drive) == drive # save_driver_ /\ save_driver_ = NoDrive     \* mutant
Switches(drive) == drive # save_driver_ /\ save_driver_ # NoDrive

PushBegin(shape, drive) ==
  /\ push_pc = "idle" /\ Len(pushed) < MaxChunks
  /\ pushed' = Append(pushed, shape)
  /\ pushing' = drive
  /\ change_file_' = (change_file_ \/ Switches(drive))
  /\ push_pc' = IF drive # save_driver_ THEN "driver" ELSE "push"
  /\ UNCHANGED <<overflow, workerVars, fileVars, queueVars, reportVars,
                 save_driver_, dio_buffer_size_, damage>>

\* ... and only then becomes save_driver_.
PushDriver ==
  /\ push_pc = "driver"
  /\ save_driver_' = pushing
  /\ push_pc' = "push"
  /\ UNCHANGED <<pushed, pushing, overflow, workerVars, fileVars, queueVars,
                 reportVars, change_file_, dio_buffer_size_, damage>>

PushEnqueue ==
  /\ push_pc = "push"
  /\ media_buffers' = Append(media_buffers, Len(pushed))
  /\ push_pc' = "memory"
  /\ UNCHANGED <<pushed, pushing, overflow, workerVars, fileVars, buffer_size_, flushes,
                 reportVars, save_driver_, change_file_, dio_buffer_size_, damage>>

\* MemoryCheck, first half: the bound of the queue follows the memory in use.
ResizedBelow(memory) ==     \* mutant: shrinks below IOWORKER_QUEUE_MAX_COUNT
  IF memory = "high" THEN buffer_size_ - Inclease ELSE buffer_size_

Resized(memory) ==
  LET size == Len(media_buffers) IN
  IF size > buffer_size_ - 3
  THEN IF memory = "low" THEN buffer_size_ + Inclease
       ELSE IF memory = "high" /\ buffer_size_ > QueueMax + Inclease
            THEN buffer_size_ - Inclease
       ELSE buffer_size_
  ELSE IF size < Inclease THEN QueueMax ELSE buffer_size_

MemoryCheck(memory) ==
  /\ push_pc = "memory"
  /\ Resized(memory) <= MaxBufferSize
  /\ buffer_size_' = Resized(memory)
  /\ push_pc' = "dio"
  /\ UNCHANGED <<pushed, pushing, overflow, workerVars, fileVars, media_buffers, flushes,
                 reportVars, save_driver_, change_file_, dio_buffer_size_, damage>>

\* MemoryCheck, second half: the size of the data buffer is chosen from the
\* worker's buffer position with no lock held, and stored in a later step.
MemoryCheckDio ==
  /\ push_pc = "dio"
  /\ push_pc' =
       IF buffer_size_ > QueueMax /\ writebuffer = <<>> /\ dio_buffer_size_ # BusySize
       THEN "busy"
       ELSE IF buffer_size_ <= QueueMax /\ Len(writebuffer) < NomalSize
                 /\ dio_buffer_size_ # NomalSize
       THEN "nomal" ELSE "check"
  /\ UNCHANGED <<pushed, pushing, overflow, workerVars, fileVars, queueVars, reportVars,
                 save_driver_, change_file_, dio_buffer_size_, damage>>

SetDioBufferSize ==
  /\ push_pc \in {"busy", "nomal"}
  /\ dio_buffer_size_' = IF push_pc = "busy" THEN BusySize ELSE NomalSize
  /\ push_pc' = "check"
  /\ UNCHANGED <<pushed, pushing, overflow, workerVars, fileVars, queueVars, reportVars,
                 save_driver_, change_file_, damage>>

\* QueueCheck under the lock: the oldest elements go, flush marks included.
ExcessLess == Len(media_buffers) - buffer_size_ - 1     \* mutant
Excess == Len(media_buffers) - buffer_size_

\* Mutant: the newest chunks are reported for the oldest that are dropped.
QueueCheckNewest ==
  /\ push_pc = "check"
  /\ IF Excess > 0
     THEN /\ media_buffers' = SubSeq(media_buffers, Excess + 1, Len(media_buffers))
          /\ overflow' = FramesIn(SubSeq(media_buffers, buffer_size_ + 1, Len(media_buffers)))
     ELSE UNCHANGED <<media_buffers, overflow>>
  /\ push_pc' = "report"
  /\ UNCHANGED <<pushed, pushing, workerVars, fileVars, buffer_size_, flushes, reportVars,
                 save_driver_, change_file_, dio_buffer_size_, damage>>

QueueCheck ==
  /\ push_pc = "check"
  /\ IF Excess > 0
     THEN /\ media_buffers' = SubSeq(media_buffers, Excess + 1, Len(media_buffers))
          /\ overflow' = FramesIn(SubSeq(media_buffers, 1, Excess))
     ELSE UNCHANGED <<media_buffers, overflow>>
  /\ push_pc' = "report"
  /\ UNCHANGED <<pushed, pushing, workerVars, fileVars, buffer_size_, flushes, reportVars,
                 save_driver_, change_file_, dio_buffer_size_, damage>>

\* QueueCheck after the unlock: the dropped frames are reported lost, and the
\* frames waiting in the data buffer lose their report.
QueueCheckReport ==
  /\ push_pc = "report"
  /\ IF overflow # {}
     THEN Report(overflow, "lost") /\ ClearInfos(overflow)
     ELSE UNCHANGED reportVars
  /\ overflow' = {}
  /\ push_pc' = "idle"
  /\ UNCHANGED <<pushed, pushing, workerVars, fileVars, queueVars,
                 save_driver_, change_file_, dio_buffer_size_, damage>>

\* Flush: a mark behind the last chunk, unless the last element is one.
PushFlush ==
  /\ flushes < MaxFlushes
  /\ media_buffers # <<>> => media_buffers[Len(media_buffers)] # Flush
  /\ media_buffers' = Append(media_buffers, Flush)
  /\ flushes' = flushes + 1
  /\ UNCHANGED <<pusherVars, workerVars, fileVars, buffer_size_, reportVars,
                 save_driver_, change_file_, dio_buffer_size_, damage>>

(***************************************************************************)
(* The disk.  A write on an invalid handle fails; one on a valid handle    *)
(* may fail, up to MaxFaults times.  WriteDisk passes the handle by value, *)
(* every other caller loses it to FileWrite's `hFile = InvalidHandle`.     *)
(***************************************************************************)
Writes(ok) ==
  /\ ok => file_handle # NoFile
  /\ ~ok => (file_handle = NoFile \/ faults < MaxFaults)
  /\ faults' = IF ~ok /\ file_handle # NoFile THEN faults + 1 ELSE faults

\* A write after an index overflow starts at position 0: it overwrites the index.
Appended(cells) ==
  IF files[file_handle].seek_lost
  THEN [files EXCEPT ![file_handle].index = [magic |-> FALSE, entries |-> {}]]
  ELSE [files EXCEPT ![file_handle].data = @ \o cells]

OnDiskIndex(idx) == [magic |-> idx.magic, entries |-> idx.entries]

\* SetZeroAfter in the index buffer; the position becomes the last one.
Rewound ==
  [pos |-> file_index_last_pos_,
   magic |-> indexer.magic /\ file_index_last_pos_ >= MagicSize,
   entries |-> {e \in indexer.entries : e.at + EntrySize <= file_index_last_pos_}]

\* WriteDisk: the write succeeds ("ok"), or it fails and the rewound index is
\* written back ("rewound"), or that write fails as well ("dead").
Outcomes == {"ok", "rewound", "dead"}
IndexReachable == file_handle # NoFile /\ ~files[file_handle].seek_lost

WriteDiskSuccess(written) ==
  /\ files' = written
  /\ Report(frameInfos_, "saved")
  /\ frameInfos_' = FromLastVideo(frameInfos_)
  /\ file_index_last_pos_' =
       IF indexer.pos >= EntrySize THEN indexer.pos - EntrySize ELSE file_index_last_pos_
  /\ UNCHANGED <<indexer, forgotten>>

\* Mutant: the frames reported lost stay pending.
WriteDiskFailPending(dead) ==
  /\ dead => IndexReachable
  /\ indexer' = IF dead THEN [Rewound EXCEPT !.pos = IndexSize] ELSE Rewound
  /\ files' = IF IndexReachable /\ ~dead
              THEN [files EXCEPT ![file_handle].index = OnDiskIndex(Rewound)] ELSE files
  /\ Report(frameInfos_, "lost")
  /\ UNCHANGED <<frameInfos_, file_index_last_pos_, forgotten>>

WriteDiskFail(dead) ==
  /\ dead => IndexReachable
  /\ indexer' = IF dead THEN [Rewound EXCEPT !.pos = IndexSize] ELSE Rewound
  /\ files' = IF IndexReachable /\ ~dead
              THEN [files EXCEPT ![file_handle].index = OnDiskIndex(Rewound)] ELSE files
  /\ Report(frameInfos_, "lost")
  /\ frameInfos_' = {}
  /\ UNCHANGED <<file_index_last_pos_, forgotten>>

WriteDisk(outcome, written) ==
  /\ Writes(outcome = "ok")
  /\ IF outcome = "ok" THEN WriteDiskSuccess(written) ELSE WriteDiskFail(outcome = "dead")

\* CheckMemoryBufferSize: the last n chunks stay.
Kept(n) ==
  LET len == Len(memory_buffer_frames) IN
  IF len > n THEN SubSeq(memory_buffer_frames, len - n + 1, len) ELSE memory_buffer_frames

\* The exits of ProcessChunkBuffers that give the chunk up: its frames are
\* reported lost, whatever was waiting for a report is dropped.
ChunkFailedSilently == UNCHANGED reportVars /\ pc' = "idle" /\ cur' = 0     \* mutant

ChunkFailed ==
  /\ Report(FramesOf(cur), "lost")
  /\ ClearInfos(FramesOf(cur))
  /\ pc' = "idle" /\ cur' = 0

(***************************************************************************)
(* The worker.                                                             *)
(***************************************************************************)

\* ArchiveWorker's thread calls ProcessBuffer.
ProcessBuffer ==
  /\ pc = "idle"
  /\ pc' = "loop"
  /\ UNCHANGED <<pusherVars, cur, next, fail, room, fileVars, queueVars, reportVars,
                 save_driver_, change_file_, dio_buffer_size_, damage>>

\* Nothing written for SAVED_TIME: CloseSavedFile leaves the buffer unwritten.
CloseSavedFile ==
  /\ pc = "loop" /\ file_handle # NoFile /\ file_write_timestamp_
  /\ file_handle' = NoFile
  /\ file_write_timestamp_' = FALSE
  /\ damage' = damage \cup (IF writebuffer # <<>> THEN {"tail"} ELSE {})
  /\ UNCHANGED <<pusherVars, workerVars, writebuffer, indexer, file_index_last_pos_,
                 memory_buffer_frames, files, faults, queueVars, reportVars,
                 save_driver_, change_file_, dio_buffer_size_>>

PopBuffer ==
  /\ pc = "loop"
  /\ IF media_buffers = <<>>
     THEN pc' = "idle" /\ UNCHANGED <<media_buffers, cur>>
     ELSE /\ media_buffers' = Tail(media_buffers)
          /\ cur' = Head(media_buffers)
          /\ pc' = IF Head(media_buffers) = Flush THEN "flush" ELSE "name"
  /\ UNCHANGED <<pusherVars, next, fail, room, fileVars, buffer_size_, flushes, reportVars,
                 save_driver_, change_file_, dio_buffer_size_, damage>>

\* UpdateFileNameByCondition: rolled stands for the hour folder and the age of
\* the file, which depend on the chunk's time and on a random number only.
UpdateFileName(rolled) ==
  /\ pc = "name"
  /\ IF file_handle = NoFile \/ change_file_ \/ rolled
     THEN change_file_' = FALSE /\ pc' = "close"
     ELSE pc' = "index" /\ UNCHANGED change_file_
  /\ UNCHANGED <<pusherVars, cur, next, fail, room, fileVars, queueVars, reportVars,
                 save_driver_, dio_buffer_size_, damage>>

\* FileClose: WriteRemain pads to the next sector and never fails; whatever
\* happens the handle is invalid afterwards.
FileClose(outcome) ==
  IF file_handle = NoFile
  THEN /\ outcome = "ok"
       /\ UNCHANGED <<file_handle, writebuffer, indexer, file_index_last_pos_, files, faults,
                      reportVars, damage>>
  ELSE /\ WriteDisk(outcome, Appended(Append(writebuffer, Junk)))
       /\ file_handle' = NoFile
       /\ writebuffer' = <<>>
       /\ damage' = damage \cup (IF files[file_handle].seek_lost THEN {"index"} ELSE {})

\* WriteFileChange: the old file is closed...
WriteFileClose(outcome) ==
  /\ pc = "close"
  /\ FileClose(outcome)
  /\ pc' = "open"
  /\ UNCHANGED <<pusherVars, cur, next, fail, room, file_write_timestamp_,
                 memory_buffer_frames, queueVars, save_driver_, change_file_, dio_buffer_size_>>

InitBuffer == [indexer EXCEPT !.pos = MagicSize, !.magic = TRUE]

\* ... and a file of the drive of the moment opened.  InitBuffer writes the
\* whole index buffer: entries of the previous file are still in it.
FileDirectOpen(ok) ==
  /\ pc = "open"
  /\ ~ok => faults < MaxFaults
  /\ faults' = IF ok THEN faults ELSE faults + 1
  /\ IF ok
     THEN /\ indexer' = InitBuffer
          /\ files' = Append(files, [drive |-> save_driver_, index |-> OnDiskIndex(InitBuffer),
                                     data |-> <<>>, seek_lost |-> FALSE])
          /\ file_handle' = Len(files) + 1
          /\ pc' = "index"
          /\ UNCHANGED <<cur, reportVars>>
     ELSE /\ indexer' \in {indexer, InitBuffer}
          /\ UNCHANGED <<files, file_handle>> /\ ChunkFailed
  /\ damage' = damage \cup (IF push_pc = "driver" THEN {"drive"} ELSE {})
  /\ UNCHANGED <<pusherVars, next, fail, room, file_write_timestamp_, writebuffer,
                 file_index_last_pos_, memory_buffer_frames, queueVars,
                 save_driver_, change_file_, dio_buffer_size_>>

\* WriteIndexInfo: the chunk's entry, where its block will start.  An index
\* that is full leaves the position of the file at 0.
EntryUnbuffered ==     \* mutant: the data still in the buffer is not counted
  [at |-> indexer.pos, chunk |-> cur, file |-> file_handle,
   offset |-> Len(files[file_handle].data)]
Entry == [at |-> indexer.pos, chunk |-> cur, file |-> file_handle,
          offset |-> Len(files[file_handle].data) + Len(writebuffer)]
EnteredInPlace ==     \* mutant: the position stays
  [indexer EXCEPT !.entries = {e \in @ : e.at + EntrySize <= indexer.pos} \cup {Entry}]
Entered ==
  [indexer EXCEPT !.pos = @ + EntrySize,
                  !.entries = {e \in @ : e.at + EntrySize <= indexer.pos
                                          \/ e.at >= indexer.pos + EntrySize} \cup {Entry}]

WriteIndexInfo(ok) ==
  /\ pc = "index"
  /\ IF indexer.pos + EntrySize > IndexSize
     THEN /\ ok
          /\ files' = [files EXCEPT ![file_handle].seek_lost = TRUE]
          /\ UNCHANGED <<indexer, file_handle, faults>>
          /\ ChunkFailed /\ UNCHANGED <<next, fail>>
     ELSE /\ Writes(ok)
          /\ IF ok
             THEN /\ indexer' = Entered
                  /\ files' = [files EXCEPT ![file_handle].index = OnDiskIndex(Entered)]
                  /\ pc' = "write" /\ next' = 0 /\ fail' = FALSE
                  /\ UNCHANGED <<file_handle, cur, reportVars>>
             ELSE /\ indexer' = [Entered EXCEPT !.pos = IndexSize]
                  /\ file_handle' = NoFile
                  /\ UNCHANGED files
                  /\ ChunkFailed /\ UNCHANGED <<next, fail>>
  /\ UNCHANGED <<pusherVars, room, file_write_timestamp_, writebuffer, file_index_last_pos_,
                 memory_buffer_frames, queueVars, save_driver_, change_file_,
                 dio_buffer_size_, damage>>

(***************************************************************************)
(* The loop of ProcessChunkBuffers: item 0 is the block header             *)
(* (WriteBlockInfo, whose result is ignored), item i the i-th frame.       *)
(***************************************************************************)
AddFrameInfo ==
  /\ pc = "frame" /\ next < Len(pushed[cur])
  /\ next' = next + 1
  /\ frameInfos_' = frameInfos_ \cup {<<cur, next + 1>>}
  /\ pc' = IF fail THEN "frame" ELSE "write"
  /\ UNCHANGED <<pusherVars, cur, fail, room, fileVars, queueVars, status, forgotten,
                 save_driver_, change_file_, dio_buffer_size_, damage>>

ChunkDone ==
  /\ pc = "frame" /\ next = Len(pushed[cur])
  /\ memory_buffer_frames' = Append(Kept(MemoryMax), cur)
  /\ pc' = "loop" /\ cur' = 0
  /\ UNCHANGED <<pusherVars, next, fail, room, file_handle, file_write_timestamp_,
                 writebuffer, indexer, file_index_last_pos_, files, faults, queueVars,
                 reportVars, save_driver_, change_file_, dio_buffer_size_, damage>>

\* WriteBufferToDisk: the item is appended while it leaves room in the buffer,
\* refused when there is none, and else fills the buffer up.
WriteBufferToDisk ==
  /\ pc = "write"
  /\ LET item == Cells(cur, next)
         space == dio_buffer_size_ - Len(writebuffer)
         stored == space > Len(item)
     IN /\ pc' = IF space > 0 /\ ~stored THEN "spill" ELSE "frame"
        /\ room' = IF space > 0 /\ ~stored THEN space ELSE 0
        /\ fail' = (fail \/ (space <= 0 /\ next > 0))
        /\ writebuffer' = IF stored THEN writebuffer \o item ELSE writebuffer
        /\ file_write_timestamp_' = (file_write_timestamp_ \/ (stored /\ next > 0))
        /\ damage' = damage \cup (IF space <= 0 THEN {"full"} ELSE {})
  /\ UNCHANGED <<pusherVars, cur, next, file_handle, indexer, file_index_last_pos_,
                 memory_buffer_frames, files, faults, queueVars, reportVars,
                 save_driver_, change_file_, dio_buffer_size_>>

\* WriteDisk of the full buffer, with the size dio_buffer_size_ has by now; the
\* rest of the item opens the next buffer, and FireBuffer writes what exceeds it.
FilledBuffer == writebuffer \o SubSeq(Cells(cur, next), 1, room)
DiskBlock ==
  [k \in 1..dio_buffer_size_ |-> IF k <= Len(FilledBuffer) THEN FilledBuffer[k] ELSE Junk]
Rest == SubSeq(Cells(cur, next), room + 1, Len(Cells(cur, next)))
Roof == IF Len(Rest) > dio_buffer_size_
        THEN (Len(Rest) \div dio_buffer_size_) * dio_buffer_size_ ELSE 0

\* FireBuffer stops being heard of by the disk at its first failed write (cells
\* is what it got out); nobody reports that.
Fired(cells) == cells = Roof \/ (cells < Roof /\ faults < MaxFaults)

Spill(outcome) ==
  /\ pc = "spill"
  /\ \E cells \in 0..Roof :
       /\ IF outcome = "ok" THEN Fired(cells) ELSE cells = 0
       /\ IF outcome = "ok" /\ cells < Roof
          THEN /\ file_handle # NoFile
               /\ WriteDiskSuccess(Appended(DiskBlock \o SubSeq(Rest, 1, cells)))
               /\ faults' = faults + 1
               /\ file_handle' = NoFile
          ELSE /\ WriteDisk(outcome, Appended(DiskBlock \o SubSeq(Rest, 1, cells)))
               /\ file_handle' = IF outcome = "dead" THEN NoFile ELSE file_handle
  /\ IF outcome = "ok"
     THEN /\ writebuffer' = SubSeq(Rest, Roof + 1, Len(Rest))
          /\ memory_buffer_frames' = Kept(1)
          /\ file_write_timestamp_' = (file_write_timestamp_ \/ next > 0)
          /\ UNCHANGED fail
     ELSE /\ writebuffer' = <<>>
          /\ fail' = (next > 0)
          /\ UNCHANGED <<memory_buffer_frames, file_write_timestamp_>>
  /\ damage' = damage \cup (IF dio_buffer_size_ # Len(FilledBuffer) THEN {"torn"} ELSE {})
  /\ pc' = "frame" /\ room' = 0
  /\ UNCHANGED <<pusherVars, cur, next, queueVars, save_driver_, change_file_,
                 dio_buffer_size_>>

\* ProcessFlush closes the file; the list of pending frames is cleared after.
ProcessFlush(outcome) ==
  /\ pc = "flush"
  /\ FileClose(outcome)
  /\ memory_buffer_frames' = Kept(1)
  /\ pc' = "clear"
  /\ UNCHANGED <<pusherVars, cur, next, fail, room, file_write_timestamp_, queueVars,
                 save_driver_, change_file_, dio_buffer_size_>>

ProcessFlushClear ==
  /\ pc = "clear"
  /\ ClearInfos({})
  /\ pc' = "loop"
  /\ UNCHANGED <<pusherVars, cur, next, fail, room, fileVars, queueVars, status,
                 save_driver_, change_file_, dio_buffer_size_, damage>>

-----------------------------------------------------------------------------
Pusher ==
  \/ \E shape \in Shapes, drive \in Drives : PushBegin(shape, drive)
  \/ PushDriver \/ PushEnqueue
  \/ \E memory \in Memory : MemoryCheck(memory)
  \/ MemoryCheckDio \/ SetDioBufferSize \/ QueueCheck \/ QueueCheckReport

Worker ==
  \/ ProcessBuffer \/ CloseSavedFile \/ PopBuffer
  \/ \E rolled \in BOOLEAN : UpdateFileName(rolled)
  \/ \E outcome \in Outcomes : WriteFileClose(outcome) \/ Spill(outcome) \/ ProcessFlush(outcome)
  \/ \E ok \in BOOLEAN : FileDirectOpen(ok) \/ WriteIndexInfo(ok)
  \/ AddFrameInfo \/ ChunkDone \/ WriteBufferToDisk
  \/ ProcessFlushClear

Next == Pusher \/ PushFlush \/ Worker

Spec == Init /\ [][Next]_vars

-----------------------------------------------------------------------------
Cell == (0..MaxChunks) \X (0..MaxFrames)

PusherType ==
  /\ pushed \in Seq(Shapes) /\ Len(pushed) <= MaxChunks
  /\ push_pc \in {"idle", "driver", "push", "memory", "dio", "busy", "nomal", "check", "report"}
  /\ pushing \in Drives \cup {NoDrive}
  /\ save_driver_ \in Drives \cup {NoDrive}
  /\ change_file_ \in BOOLEAN
  /\ dio_buffer_size_ \in {InitSize, NomalSize, BusySize}

QueueType ==
  /\ media_buffers \in Seq(0..MaxChunks)
  /\ buffer_size_ \in QueueMax..MaxBufferSize
  /\ flushes \in 0..MaxFlushes

WorkerType ==
  /\ pc \in {"idle", "loop", "name", "close", "open", "index", "frame", "write", "spill",
             "flush", "clear"}
  /\ cur \in 0..MaxChunks /\ next \in 0..MaxFrames /\ fail \in BOOLEAN /\ room \in Nat

BufferType ==
  /\ writebuffer \in Seq(Cell)
  /\ memory_buffer_frames \in Seq(Chunks) /\ Len(memory_buffer_frames) <= MemoryMax + 1

ReportType ==
  /\ frameInfos_ \subseteq Frames /\ overflow \subseteq Frames /\ forgotten \subseteq Frames
  /\ status \in [Frames -> {"none", "saved", "lost"}]

\* Types of the variables of the pipeline; at most MemoryMax + 1 chunks stay in
\* memory, because ProcessChunkBuffers trims the list before it adds to it.
TypeOK == PusherType /\ QueueType /\ WorkerType /\ BufferType /\ ReportType

(***************************************************************************)
(* Where a frame is on its way to a verdict.                               *)
(***************************************************************************)
Unprocessed ==      \* the frames of the chunk in hand that are not yet pending
  IF pc \in {"name", "close", "open", "index"} THEN FramesOf(cur)
  ELSE IF pc \in {"write", "spill", "frame"} THEN {f \in FramesOf(cur) : f[2] > next}
  ELSE {}

Unqueued ==         \* the frames of a chunk the pusher has not enqueued yet
  IF push_pc \in {"driver", "push"} THEN FramesOf(Len(pushed)) ELSE {}

AllPushed == UNION {FramesOf(c) : c \in 1..Len(pushed)}

\* Between two pushes the queue never holds more than buffer_size_ elements and
\* one flush mark at its end, whatever MemoryCheck does to buffer_size_ while
\* marks arrive and the worker pops (MemoryCheck, QueueCheck, Flush).
QueueBounded ==
  push_pc = "idle" =>
    \/ Len(media_buffers) <= buffer_size_
    \/ /\ Len(media_buffers) = buffer_size_ + 1
       /\ media_buffers[Len(media_buffers)] = Flush

\* No frame leaves the pipeline in silence: until it has a verdict it is queued,
\* in hand, or pending, and it can only be forgotten by one of the Clear calls
\* (QueueCheck, the failures of a chunk, ProcessFlush).
FramesAccounted ==
  \A f \in AllPushed :
    \/ status[f] # "none"
    \/ f \in FramesIn(media_buffers) \cup Unprocessed \cup Unqueued
    \/ f \in overflow \cup frameInfos_ \cup forgotten

\* A frame reported lost is never reported saved afterwards: the application may
\* act on a failure report at once (CallbackWirteStatusIWTAW in all its callers).
FailureIsFinal ==
  [][\A f \in Frames : status[f] = "lost" => status'[f] = "lost"]_vars

\* The cells of the file on disk, with those waiting in the buffer if it is open.
Stream(h) == files[h].data \o (IF h = file_handle THEN writebuffer ELSE <<>>)
IsBlockAt(s, c, offset) ==
  LET size == [i \in 0..Len(pushed[c]) |-> Len(Cells(c, i))]
      start[i \in 0..Len(pushed[c])] == IF i = 0 THEN offset ELSE start[i - 1] + size[i - 1]
  IN \A i \in 0..Len(pushed[c]) : \A k \in 1..size[i] :
       /\ start[i] + k <= Len(s)
       /\ s[start[i] + k] = <<c, i>>
OwnEntries(h) == {e \in files[h].index.entries : e.file = h}

\* Where nothing went wrong, an index entry of a file leads to the whole block of
\* its chunk: header and every frame, in order, at the offset the entry says, in
\* the file or still in the buffer (WriteIndexInfo against WriteBufferToDisk).
\* What goes wrong is a failed write, a buffer closed without being written, one
\* whose size the pusher changed under a write, or one found full.
EntriesLocateBlocks ==
  faults = 0 /\ damage \cap {"torn", "tail", "full"} = {} =>
    \A h \in 1..Len(files) : \A e \in OwnEntries(h) :
      e.chunk # cur => IsBlockAt(Stream(h), e.chunk, e.offset)

InFile(f, h) == f \in Elems(files[h].data)

\* Where nothing went wrong, a frame reported saved can be found: a file holds its
\* first byte at least, and the index of that file an entry for its chunk.
SavedIsFindable ==
  faults = 0 /\ damage = {} =>
    \A f \in Frames : status[f] = "saved" =>
      \E h \in 1..Len(files) :
        /\ InFile(f, h)
        /\ files[h].index.magic
        /\ \E e \in OwnEntries(h) : e.chunk = f[1]

\* The open file is on save_driver_, or the next chunk opens another one: unless
\* a file was opened between the two assignments of PushVideoChunkBuffer, the
\* recording follows the drive the application names.
DriveFollowed ==
  /\ "drive" \notin damage
  /\ file_handle # NoFile /\ pc \notin {"close", "open"} /\ push_pc # "driver"
  => files[file_handle].drive = save_driver_ \/ change_file_

\* A frame no byte of which was written is not reported saved: frameInfos_ is there
\* to pass on what failed (io_worker.h, index_buffer_info_).
UnwrittenNotSaved ==
  damage = {} =>
    \A f \in Frames : status[f] = "saved" => \E h \in 1..Len(files) : InFile(f, h)
=============================================================================
