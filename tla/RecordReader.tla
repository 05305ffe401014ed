---------------------------- MODULE RecordReader ----------------------------
(***************************************************************************)
(* Reading a recording while it is written (archive_manager/modules:       *)
(* reader_worker.cc, reader_object.cc, reader_stream_chunk.cc,             *)
(* file_indexer.cc, data_loader.cc, file_searcher.cc; Seek and the reading *)
(* calls of archive_manager.cc).  The writer, of which module IOWorker     *)
(* has the details, leaves files: an index area of entries, then the       *)
(* chunks' data, which reaches the disk later than the entries.  A client  *)
(* with one ReaderObject seeks, takes the group of pictures it landed in,  *)
(* and goes on frame by frame, or chunk by chunk backwards.                *)
(*                                                                         *)
(* One drive and one stream.  A chunk takes two cells of its file.  The    *)
(* reader is cut at every look at the disk that the writer may overtake.   *)
(***************************************************************************)
EXTENDS Integers, Sequences, FiniteSets

CONSTANTS
  Content,      \* the chunks recorded: each a sequence of items [time, kind]
  Targets,      \* the times the client seeks
  Hour,         \* length of the hours that name the folders
  Width,        \* opened_file_timestamp_ is kept modulo Width
  Duration,     \* of a frame (GetFrameDuration)
  MaxCalls      \* bound: calls of the client other than GetNextData

Chunks == 1..Len(Content)
Items(c) == IF c = 0 THEN <<>> ELSE Content[c]     \* datas_; 0: nothing loaded
IsVideo(item) == item.kind # "audio"
Videos(items) == {i \in 1..Len(items) : IsVideo(items[i])}

Least(S) == CHOOSE x \in S : \A y \in S : x <= y
Greatest(S) == CHOOSE x \in S : \A y \in S : x >= y
\* The first one met in a direction, if there is any.
First(S, dir, none) == IF S = {} THEN none ELSE IF dir = "Next" THEN Least(S) ELSE Greatest(S)

Begin(c) == Content[c][Least(Videos(Content[c]))].time
End(c) == Content[c][Greatest(Videos(Content[c]))].time
HourOf(t) == t \div Hour
Frames(S) == UNION {{Content[c][i].time : i \in Videos(Content[c])} : c \in S}

\* Real times are later than 2^32 milliseconds, and frames are in the order of time.  No
\* file begins at a multiple of Width (opened_file_timestamp_ would be 0, and 0 - 1 wrap).
ASSUME ConstantsAssumption ==
  /\ Hour \in Nat \ {0} /\ Width \in Nat \ {0} /\ Duration \in Nat \ {0} /\ MaxCalls \in Nat
  /\ Targets \subseteq Nat
  /\ Content \in Seq(Seq([time : Nat, kind : {"I", "P", "audio"}]))
  /\ \A c \in Chunks : /\ Content[c] # <<>> /\ Content[c][1].kind = "I"
                       /\ Begin(c) > Width + Hour /\ Begin(c) % Width # 0
                       /\ c > 1 => Begin(c) > Content[c - 1][Len(Content[c - 1])].time
                       /\ \A i \in 2..Len(Content[c]) : Content[c][i].time > Content[c][i - 1].time

VARIABLES
  files,        \* the files of the stream, oldest first
  written,      \* number of chunks that have an entry
  open,         \* whether the writer has the last one open
  reader,       \* the ReaderObject
  pc, call,     \* where the client's call is, and what it was called with
  calls,
  status,       \* "none"; "sought" after a good Seek; "playing" after it was handed data
  handed,       \* history: the items handed out last, and by what
  before,       \* history: the time of the last video frame handed out before those
  astray,       \* history: since the last Seek forwards a call went backwards, or the position
                \* became that of an audio item; or that Seek landed in what another had loaded
  seen,         \* history: chunks that were on the disk when this call began
  passed        \* history: chunks the reader went past before they were on the disk

writerVars == <<files, written, open>>
historyVars == <<handed, before, astray, seen>>
vars == <<writerVars, reader, pc, call, calls, status, historyVars, passed>>

-----------------------------------------------------------------------------
\* The writer.  The index area on the disk holds the entries of this file and, behind
\* them, what the previous file left in the buffer (InitBuffer does not clear it).

Last == Len(files)
Finished == ~open /\ written = Len(Content)

Entries(f) ==
  LET own == files[f].own
      left == files[f].left
      entries == IF Len(left) > Len(own) THEN Len(left) ELSE Len(own)
  IN  [i \in 1..entries |-> [chunk |-> IF i <= Len(own) THEN own[i] ELSE left[i],
                             own |-> i <= Len(own)]]

FileSize(f) == IF files[f].headed THEN files[f].cells + 1 ELSE 0

\* WriteFileChange, in three steps: the file is created, then the index area written.
Create ==
  /\ ~open /\ written < Len(Content)
  /\ files' = Append(files,
       [stamp |-> Begin(written + 1), headed |-> FALSE, own |-> <<>>,
        left |-> IF Last = 0 THEN <<>> ELSE [i \in 1..Len(Entries(Last)) |-> Entries(Last)[i].chunk],
        cells |-> 0])
  /\ open' = TRUE
  /\ UNCHANGED <<written, reader, pc, call, calls, status, historyVars, passed>>

InitBuffer ==
  /\ open /\ ~files[Last].headed
  /\ files' = [files EXCEPT ![Last].headed = TRUE]
  /\ UNCHANGED <<written, open, reader, pc, call, calls, status, historyVars, passed>>

\* The entry is on the disk before the data is (WriteIndexInfo); the data waits in
\* the buffer.  The file is the one of the chunk's hour (UpdateFileNameByCondition).
WriteIndexInfo ==
  /\ open /\ files[Last].headed /\ written < Len(Content)
  /\ HourOf(Begin(written + 1)) = HourOf(files[Last].stamp)
  /\ files' = [files EXCEPT ![Last].own = Append(@, written + 1)]
  /\ written' = written + 1
  /\ UNCHANGED <<open, reader, pc, call, calls, status, historyVars, passed>>

\* A full buffer is written, wherever in the chunks it ends (WriteDisk).
WriteDisk ==
  /\ open
  /\ \E cells \in (files[Last].cells + 1)..(2 * Len(files[Last].own)) :
       files' = [files EXCEPT ![Last].cells = cells]
  /\ UNCHANGED <<written, open, reader, pc, call, calls, status, historyVars, passed>>

\* The file's time is over, or the stream was flushed: what is in the buffer is written,
\* filled up to a whole sector (WriteRemain).
FileClose ==
  /\ open /\ files[Last].own # <<>>
  /\ files' = [files EXCEPT ![Last].cells = 2 * Len(files[Last].own) + 1]
  /\ open' = FALSE
  /\ UNCHANGED <<written, reader, pc, call, calls, status, historyVars, passed>>

\* DataLoader::LoadData of entry i (from 1) as it was parsed: refused while the block
\* does not end before the end of the file.
Readable(f, i, entry) == entry.own /\ 2 * i < files[f].cells
OnDisk == {c \in Chunks : \E f \in 1..Last, i \in Chunks :
             i <= Len(files[f].own) /\ files[f].own[i] = c /\ 2 * i < files[f].cells}

-----------------------------------------------------------------------------
\* The files the reader chooses (FileSearcher::GetNearestFileNames and
\* ReaderWorker::GetNearestFile), oldest first; <<>> where the code has nullptr.

Stamp(f) == files[f].stamp
InHours(lo, hi) == {f \in 1..Last : HourOf(Stamp(f)) \in lo..hi}
FilesOf(S) == [i \in 1..Cardinality(S) |->
                 CHOOSE f \in S : Cardinality({g \in S : g <= f}) = i]

\* The files of the hour of t and of the next one (of the previous one, backwards), on
\* the right side of t; forwards the last one before t too, if asked to.
NearHour(t, dir, include) ==
  IF dir = "Next"
    THEN LET near == InHours(HourOf(t), HourOf(t) + 1)
             older == {f \in near : Stamp(f) < t}
         IN  (near \ older) \cup (IF include /\ older # {} THEN {Greatest(older)} ELSE {})
    ELSE {f \in InHours(HourOf(t) - 1, HourOf(t)) : Stamp(f) <= t}

\* Those of the nearest hour that has any, beyond the hour of t (GetNearestFolder).
NearFolder(t, dir) ==
  LET beyond == {f \in 1..Last : IF dir = "Next" THEN HourOf(Stamp(f)) > HourOf(t)
                                                 ELSE HourOf(Stamp(f)) < HourOf(t)}
      nearest == First(beyond, dir, 0)
  IN  {f \in beyond : HourOf(Stamp(f)) = HourOf(Stamp(nearest))}

Either(S, T) == IF S # {} THEN S ELSE T
GetNearestFileNamesNearby(t, dir, include) == NearHour(t, dir, include)   \* mutant: no folder beyond
GetNearestFileNames(t, dir, include) == Either(NearHour(t, dir, include), NearFolder(t, dir))

\* Of several files up to t one is kept.
OneUpTo(t, S) == {f \in S : \A g \in S : g > f => Stamp(g) > t}

\* Nothing more than an hour away from the hour of t is kept, or, if all are further, from
\* the first one.
Within(hour, S, dir) == {f \in S : IF dir = "Next" THEN HourOf(Stamp(f)) <= hour
                                                   ELSE HourOf(Stamp(f)) >= hour}
In2Hours(t, S, dir) ==
  Either(Within(IF dir = "Next" THEN HourOf(t) + 1 ELSE HourOf(t) - 1, S, dir),
         Within(HourOf(Stamp(Least(S))), S, dir))

GetNearestFile(t, dir, include) ==
  LET found == GetNearestFileNames(t, dir, include)
      kept == IF include /\ dir = "Next" THEN OneUpTo(t, found) ELSE found
  IN  IF found = {} THEN <<>> ELSE FilesOf(In2Hours(t, kept, dir))

-----------------------------------------------------------------------------
\* ReaderObject.  data_index_ counts from 0 and is -1 before the first entry; next is the
\* data_index_ of the ReaderStreamChunk: how many items of datas_ have gone out.

NewReader ==
  [file |-> 0, size |-> 0, headers |-> <<>>, data_index |-> -1, datas |-> 0, next |-> 0,
   position |-> 0, file_list |-> <<>>, opened |-> 0]

\* FileOpen and ParseMainHeader; they fail if the index area is not written yet.
Parsed(f) == files[f].headed
ParseHeaderFromZero(r, f) ==                             \* mutant: counted from 0, not -1
  LET headers == IF Parsed(f) THEN Entries(f) ELSE <<>>
  IN  [r EXCEPT !.file = f, !.size = FileSize(f), !.headers = headers,
                !.data_index = Len(headers)]

ParseHeader(r, f) ==
  LET headers == IF Parsed(f) THEN Entries(f) ELSE <<>>
  IN  [r EXCEPT !.file = f, !.size = FileSize(f), !.headers = headers,
                !.data_index = Len(headers) - 1]

\* GetNextFile and GetPrevFile take a file from the list.
Pop(r, dir) ==
  LET f == IF dir = "Next" THEN Head(r.file_list) ELSE r.file_list[Len(r.file_list)]
      rest == IF dir = "Next" THEN Tail(r.file_list)
                              ELSE SubSeq(r.file_list, 1, Len(r.file_list) - 1)
  IN  [file |-> f, r |-> [r EXCEPT !.file_list = rest, !.opened = Stamp(f) % Width]]

SetIndexPosition(headers, t, dir) ==
  LET Above(i) == dir = "Prev" /\ Begin(headers[i].chunk) > t
      stops == {i \in 1..Len(headers) : Above(i) \/ End(headers[i].chunk) >= t}
      stop == First(stops, "Next", Len(headers))
  IN  IF headers # <<>> /\ Above(stop) THEN stop - 2 ELSE stop - 1

\* The video frame at or after t, or at or before it; 0 if there is none.
SeekToTimeBefore(c, t, dir) ==                           \* mutant: never the frame at the time
  First({i \in Videos(Items(c)) : IF dir = "Next" THEN Items(c)[i].time > t
                                                  ELSE Items(c)[i].time < t}, dir, 0)

SeekToTime(c, t, dir) ==
  First({i \in Videos(Items(c)) : IF dir = "Next" THEN Items(c)[i].time >= t
                                                  ELSE Items(c)[i].time <= t}, dir, 0)

\* From the entry for t on, forwards or backwards, the first chunk that can be read and
\* has a frame on the right side of t.  If there is none, the last chunk read stays.
Tried(last, start, dir) ==
  IF start < 0 THEN {} ELSE IF dir = "Next" THEN start..last ELSE 0..start

Loaded(r, item, i) == [r EXCEPT !.data_index = i, !.datas = r.headers[i + 1].chunk,
                                !.next = item - 1, !.position = Items(r.headers[i + 1].chunk)[item].time]

NotLoaded(r, tried, loaded, dir) ==
  LET back == IF dir = "Next" THEN "Prev" ELSE "Next"
  IN  [r EXCEPT !.data_index = First(tried, back, -1),
                !.datas = IF loaded = {} THEN @ ELSE r.headers[First(loaded, back, 0) + 1].chunk,
                !.next = IF loaded = {} THEN @ ELSE 0]

LoadDataByIndex(r, t, dir) ==
  LET Item(i) == SeekToTime(r.headers[i + 1].chunk, t, dir)
      tried == Tried(Len(r.headers) - 1, SetIndexPosition(r.headers, t, dir), dir)
      loaded == {i \in tried : Readable(r.file, i + 1, r.headers[i + 1])}
      hit == First({i \in loaded : Item(i) # 0}, dir, -1)
  IN  IF hit >= 0 THEN [ok |-> TRUE, r |-> Loaded(r, Item(hit), hit)]
                  ELSE [ok |-> FALSE, r |-> NotLoaded(r, tried, loaded, dir)]

NextVideo(items, next) ==      \* everything up to the next video frame goes with this one
  LET rest == {i \in Videos(items) : i > next}
  IN  IF rest = {} THEN Len(items) ELSE Least(rest) - 1

GetForwardDataUntimed(r) ==                              \* mutant: the position is not moved
  LET upto == NextVideo(Items(r.datas), r.next + 1)
  IN  IF r.next >= Len(Items(r.datas)) THEN [got |-> <<>>, r |-> r]
      ELSE [got |-> SubSeq(Items(r.datas), r.next + 1, upto), r |-> [r EXCEPT !.next = upto]]

GetForwardData(r) ==
  LET items == Items(r.datas)
      upto == NextVideo(items, r.next + 1)
      got == SubSeq(items, r.next + 1, upto)
  IN  IF r.next >= Len(items) THEN [got |-> <<>>, r |-> r]
      ELSE [got |-> got,
            r |-> [r EXCEPT !.next = upto,
                            !.position = IF IsVideo(got[1]) THEN got[1].time ELSE @]]

\* ReaderObject::GetNextData.  The position in the index moves on even if the chunk there
\* cannot be read.
GetNextData(r) ==
  LET advanced == [r EXCEPT !.data_index = @ + 1]
      i == r.data_index + 2
  IN  IF GetForwardData(r).got # <<>> THEN GetForwardData(r)
      ELSE IF Len(r.headers) < i THEN [got |-> <<>>, r |-> r]
      ELSE IF ~Readable(r.file, i, r.headers[i]) THEN [got |-> <<>>, r |-> advanced]
      ELSE GetForwardData([advanced EXCEPT !.datas = r.headers[i].chunk, !.next = 0])

\* ReaderStreamChunk::GetStreamChunk: from the start of the chunk to its end, or to the
\* first item at or after the position.
GetStreamChunk(r, target) ==
  LET items == Items(r.datas)
      hits == {i \in 1..Len(items) : target /\ items[i].time >= r.position}
      upto == IF hits = {} THEN Len(items) ELSE Least(hits)
  IN  IF items = <<>> THEN [got |-> <<>>, r |-> r]
      ELSE [got |-> SubSeq(items, 1, upto),
            r |-> [r EXCEPT !.next = NextVideo(items, upto), !.position = items[upto].time]]

\* Where GetStreamGop starts again, or ends.
RestartsAnywhere(items) == {i \in 2..Len(items) : IsVideo(items[i])}   \* mutant: any video frame
Restarts(items) == {i \in 2..Len(items) : items[i].kind = "I"}

\* GetStreamGop: the same, from the last I frame at or before the position on, and only to
\* the I frame after it.
GetStreamGop(r, target) ==
  LET items == Items(r.datas)
      iframes == Restarts(items)
      hits == {i \in 1..Len(items) : target /\ items[i].time >= r.position}
      cuts == {i \in iframes : items[i].time > r.position}
      iscut == cuts # {} /\ \A i \in hits : Least(cuts) <= i
      upto == IF iscut THEN Least(cuts) - 1 ELSE IF hits = {} THEN Len(items) ELSE Least(hits)
      starts == {i \in iframes \ cuts : i <= upto}
      start == IF starts = {} THEN 1 ELSE Greatest(starts)
  IN  IF items = <<>> THEN [got |-> <<>>, r |-> r]
      ELSE [got |-> SubSeq(items, start, upto),
            r |-> [r EXCEPT !.next = NextVideo(items, upto),
                            !.position = items[IF iscut THEN upto + 1 ELSE upto].time]]

\* ReaderObject::GetPrevData: the whole chunk of the entry before.
GetPrevData(r) ==
  LET back == [r EXCEPT !.data_index = @ - 1]
      i == r.data_index
  IN  IF i <= 0 THEN [got |-> <<>>, r |-> r]
      ELSE IF ~Readable(r.file, i, r.headers[i]) THEN [got |-> <<>>, r |-> back]
      ELSE GetStreamChunk([back EXCEPT !.datas = r.headers[i].chunk, !.next = 0], FALSE)

IsInGOP(r, t) ==
  LET items == Items(r.datas)
  IN  /\ items # <<>>
      /\ t >= items[1].time - Duration
      /\ t <= End(r.datas) + Duration

GetChunkEndTime(r) == r.position + IF r.datas = 0 THEN 0 ELSE Duration

-----------------------------------------------------------------------------
\* The client's calls.  call.dir is what the ReaderWorker::Seek under way looks for,
\* call.found whether the one before it (Seek forwards first seeks backwards) found it.

NoCall == [op |-> "none", time |-> 0, type |-> "Next", dir |-> "Next", found |-> FALSE,
           file |-> 0, missing |-> {}]
NoItems == [by |-> "none", items |-> <<>>]

LastVideo(items, else) ==
  IF Videos(items) = {} THEN else ELSE items[Greatest(Videos(items))].time

Begins(op, at) ==
  /\ pc = "idle" /\ pc' = at
  /\ call' = [NoCall EXCEPT !.op = op]
  /\ seen' = OnDisk
  /\ UNCHANGED <<writerVars, reader, handed, before, passed>>

\* The call returns with items, which the history keeps, or with none.
Returns(by, items) ==
  /\ pc' = "idle" /\ call' = NoCall
  /\ IF items = <<>>
       THEN UNCHANGED <<status, handed, before>>
       ELSE /\ status' = "playing"
            /\ handed' = [by |-> by, items |-> items]
            /\ before' = LastVideo(handed.items, before)
  /\ UNCHANGED <<astray, seen>>

Goes(at) ==
  /\ pc' = at
  /\ UNCHANGED <<call, status, historyVars>>

\* ArchiveManager::Seek.  It looks for a file backwards first, in either case.
Seek ==
  /\ pc = "idle" /\ calls < MaxCalls
  /\ \E t \in Targets, type \in {"Next", "Prev"} :
       /\ call' = [NoCall EXCEPT !.op = "seek", !.time = t, !.type = type, !.dir = "Prev"]
       /\ astray' = (type = "Prev")
  /\ pc' = "list" /\ calls' = calls + 1
  /\ status' = "none" /\ handed' = NoItems /\ before' = 0
  /\ seen' = OnDisk /\ passed' = {}
  /\ UNCHANGED <<writerVars, reader>>

\* What the manager makes of the result of ReaderWorker::Seek.
SeekReturns(found, r) ==
  /\ UNCHANGED <<calls, historyVars>>
  /\ IF call.type = "Next" /\ call.dir = "Prev"
       THEN IF IsInGOP(r, call.time)
              THEN /\ reader' = [r EXCEPT !.file_list = <<>>]
                   /\ pc' = "skip" /\ call' = [call EXCEPT !.found = found]
                   /\ UNCHANGED status
              ELSE /\ reader' = r
                   /\ pc' = "list" /\ call' = [call EXCEPT !.dir = "Next"]
                   /\ UNCHANGED status
       ELSE /\ reader' = r
            /\ pc' = "idle" /\ call' = NoCall
            /\ status' = IF found THEN "sought" ELSE status

SeekList ==
  /\ pc = "list"
  /\ LET list == GetNearestFile(call.time, call.dir, TRUE)
     IN  IF list = <<>> THEN SeekReturns(FALSE, reader)
         ELSE /\ reader' = [reader EXCEPT !.file_list = list]
              /\ Goes("open") /\ UNCHANGED calls
  /\ UNCHANGED <<writerVars, passed>>

\* One file of the list after the other, until one can be parsed and has a frame.
SeekOpen ==
  /\ pc = "open"
  /\ IF reader.file_list = <<>> THEN SeekReturns(FALSE, reader)
     ELSE LET taken == Pop(reader, call.dir)
          IN  /\ reader' = ParseHeader(taken.r, taken.file)
              /\ Goes(IF Parsed(taken.file) THEN "load" ELSE "open") /\ UNCHANGED calls
  /\ UNCHANGED <<writerVars, passed>>

SeekLoad ==
  /\ pc = "load"
  /\ LET loaded == LoadDataByIndex(reader, call.time, call.dir)
     IN  IF loaded.ok THEN SeekReturns(TRUE, loaded.r)
         ELSE reader' = loaded.r /\ Goes("open") /\ UNCHANGED calls
  /\ UNCHANGED <<writerVars, passed>>

\* The time is in the chunk, or near it: frames are dropped until it is reached.
SeekSkip ==
  /\ pc = "skip"
  /\ IF GetChunkEndTime(reader) < call.time
       THEN Goes("next")
       ELSE /\ pc' = "idle" /\ call' = NoCall /\ status' = "sought"
            /\ astray' = ~call.found
            /\ UNCHANGED <<handed, before, seen>>
  /\ UNCHANGED <<writerVars, reader, calls, passed>>

\* ReaderWorker::GetNextData, on behalf of Seek or of the client.
NextCall ==
  /\ status = "playing"
  /\ Begins("next", "next")
  /\ UNCHANGED <<calls, status, astray>>

\* A result goes to the client, or is dropped by Seek, which fails if there is none.
NextReturns(by, items) ==
  IF call.op = "next" THEN Returns(by, items)
  ELSE IF items # <<>> THEN Goes("skip")
  ELSE pc' = "idle" /\ call' = NoCall /\ UNCHANGED <<status, historyVars>>

NextInFile ==
  /\ pc = "next"
  /\ LET found == GetNextData(reader)
     IN  /\ reader' = found.r
         /\ IF found.got # <<>> THEN NextReturns("next", found.got)
            ELSE Goes("grown")
         /\ passed' = IF found.got = <<>> /\ found.r.data_index # reader.data_index
                        THEN passed \cup {reader.headers[found.r.data_index + 1].chunk}
                        ELSE passed
  /\ UNCHANGED <<writerVars, calls>>

\* The file is longer than when it was opened: it is parsed again, and read from the
\* current position (GetNextFrameIfFileUpdated).
NextIfGrownNever ==                                      \* mutant: the size is not looked at
  /\ pc = "grown" /\ pc' = "nextfile" /\ call' = [call EXCEPT !.missing = Chunks \ OnDisk]
  /\ UNCHANGED <<reader, writerVars, calls, status, historyVars, passed>>

NextIfGrown ==
  /\ pc = "grown"
  /\ IF FileSize(reader.file) <= reader.size
       THEN /\ pc' = "nextfile" /\ call' = [call EXCEPT !.missing = Chunks \ OnDisk]
            /\ UNCHANGED <<reader, status, historyVars, passed>>
       ELSE /\ reader' = ParseHeader(reader, reader.file)
            /\ IF Parsed(reader.file) THEN Goes("reload") ELSE NextReturns("again", <<>>)
            /\ passed' = {c \in passed : Begin(c) < Greatest({Stamp(reader.file), reader.position + 1})}
  /\ UNCHANGED <<writerVars, calls>>

\* What both ways to a file end in: a frame is looked for, then taken.
NextLoad(at, time, then) ==
  /\ pc = at
  /\ LET loaded == LoadDataByIndex(reader, time, "Next")
     IN  /\ reader' = loaded.r
         /\ IF loaded.ok THEN Goes(then) ELSE NextReturns("next", <<>>)
  /\ UNCHANGED <<writerVars, calls, passed>>

NextTake(at, by) ==
  /\ pc = at
  /\ reader' = GetNextData(reader).r /\ NextReturns(by, GetNextData(reader).got)
  /\ UNCHANGED <<writerVars, calls, passed>>

NextReload == NextLoad("reload", reader.position, "retake")
NextRetake == NextTake("retake", "again")

\* No more in this file: the next of the list, or of a new list of what begins at or after
\* the position.
NextFile ==
  /\ pc = "nextfile"
  /\ LET list == IF reader.file_list # <<>> THEN reader.file_list
                 ELSE GetNearestFile(reader.position, "Next", FALSE)
         taken == Pop([reader EXCEPT !.file_list = list], "Next")
     IN  IF list = <<>> THEN NextReturns("next", <<>>) /\ UNCHANGED <<reader, passed>>
         ELSE /\ reader' = taken.r
              /\ pc' = "opennext" /\ call' = [call EXCEPT !.file = taken.file]
              /\ passed' = passed \cup {c \in call.missing : Begin(c) < Stamp(taken.file)}
              /\ UNCHANGED <<status, historyVars>>
  /\ UNCHANGED <<writerVars, calls>>

NextOpen ==
  /\ pc = "opennext"
  /\ reader' = ParseHeader(reader, call.file)
  /\ IF Parsed(call.file) THEN Goes("loadnext") ELSE NextReturns("next", <<>>)
  /\ UNCHANGED <<writerVars, calls, passed>>

NextFileLoad == NextLoad("loadnext", Stamp(call.file), "take")
NextFileTake == NextTake("take", "next")

\* ReaderWorker::GetPrevData.
PrevCall ==
  /\ status # "none" /\ calls < MaxCalls
  /\ Begins("prev", "prev")
  /\ calls' = calls + 1 /\ astray' = TRUE
  /\ UNCHANGED status

PrevInFile ==
  /\ pc = "prev"
  /\ LET found == GetPrevData(reader)
     IN  /\ reader' = found.r
         /\ IF found.got # <<>> THEN Returns("prev", found.got) ELSE Goes("prevfile")
  /\ UNCHANGED <<writerVars, calls, passed>>

\* The time it looks before is the opened file's, as far as that was kept.
PrevFile ==
  /\ pc = "prevfile"
  /\ LET time == reader.opened - 1
         list == IF reader.file_list # <<>> THEN reader.file_list
                 ELSE GetNearestFile(time, "Prev", FALSE)
         taken == Pop([reader EXCEPT !.file_list = list], "Prev")
     IN  IF list = <<>> THEN Returns("prev", <<>>) /\ UNCHANGED reader
         ELSE /\ reader' = taken.r
              /\ pc' = "openprev" /\ call' = [call EXCEPT !.file = taken.file, !.time = time]
              /\ UNCHANGED <<status, historyVars>>
  /\ UNCHANGED <<writerVars, calls, passed>>

PrevOpen ==
  /\ pc = "openprev"
  /\ reader' = ParseHeader(reader, call.file)
  /\ IF Parsed(call.file) THEN Goes("loadprev") ELSE Returns("prev", <<>>)
  /\ UNCHANGED <<writerVars, calls, passed>>

PrevLoad ==
  /\ pc = "loadprev"
  /\ LET loaded == LoadDataByIndex(reader, call.time, "Prev")
         found == GetStreamChunk(loaded.r, FALSE)
     IN  IF loaded.ok THEN reader' = found.r /\ Returns("prev", found.got)
         ELSE reader' = loaded.r /\ Returns("prev", <<>>)
  /\ UNCHANGED <<writerVars, calls, passed>>

\* GetStreamGop and GetStreamChunk look at what is loaded and not at the disk.
Stream(by, found) ==
  /\ pc = "idle" /\ status # "none" /\ calls < MaxCalls
  /\ reader' = found.r
  /\ handed' = [by |-> by, items |-> found.got] /\ before' = LastVideo(handed.items, before)
  /\ status' = "playing" /\ calls' = calls + 1
  /\ seen' = OnDisk
  /\ astray' = (astray \/ found.r.position \notin Frames({reader.datas} \ {0}))
  /\ UNCHANGED <<writerVars, pc, call, passed>>

StreamGop == \E target \in BOOLEAN :
               Stream(IF target THEN "gop to target" ELSE "gop", GetStreamGop(reader, target))
StreamChunk == \E target \in BOOLEAN : Stream("chunk", GetStreamChunk(reader, target))

-----------------------------------------------------------------------------
Init ==
  /\ files = <<>> /\ written = 0 /\ open = FALSE
  /\ reader = NewReader /\ pc = "idle" /\ call = NoCall /\ calls = 0 /\ status = "none"
  /\ handed = NoItems /\ before = 0 /\ astray = FALSE /\ seen = {} /\ passed = {}

Writer == Create \/ InitBuffer \/ WriteIndexInfo \/ WriteDisk \/ FileClose
Continues ==
  \/ SeekList \/ SeekOpen \/ SeekLoad \/ SeekSkip
  \/ NextInFile \/ NextIfGrown \/ NextReload \/ NextRetake
  \/ NextFile \/ NextOpen \/ NextFileLoad \/ NextFileTake
  \/ PrevInFile \/ PrevFile \/ PrevOpen \/ PrevLoad
Next == Writer \/ Seek \/ NextCall \/ PrevCall \/ StreamGop \/ StreamChunk \/ Continues

Spec == Init /\ [][Next]_vars

\* A call under way goes on (the disjunction is WF_vars(Continues), which is enabled
\* exactly inside a call), and a client that plays asks for more.
FairSpec == Spec /\ ([]<>(pc = "idle") \/ []<><<Continues>>_vars) /\ WF_vars(NextCall)

-----------------------------------------------------------------------------
Kinds == {"I", "P", "audio"}
Ways == {"none", "gop to target", "gop", "chunk", "next", "again", "prev"}
EntryType == [chunk : Chunks, own : BOOLEAN]
ReaderType ==
  [file : Nat, size : Nat, headers : Seq(EntryType), data_index : Int, datas : Chunks \cup {0},
   next : Nat, position : Nat, file_list : Seq(Nat), opened : 0..(Width - 1)]
CallType ==
  [op : {"none", "seek", "next", "prev"}, time : Nat, type : {"Next", "Prev"},
   dir : {"Next", "Prev"}, found : BOOLEAN, file : Nat,
   missing : SUBSET Chunks]

\* Types; the reader's positions point into what it has parsed and loaded.
TypeOK ==
  /\ files \in Seq([stamp : Nat, headed : BOOLEAN, own : Seq(Chunks), left : Seq(Chunks),
                    cells : Nat])
  /\ written \in 0..Len(Content) /\ open \in BOOLEAN
  /\ reader \in ReaderType
  /\ reader.data_index \in -1..(Len(reader.headers) - 1)
  /\ reader.next <= Len(Items(reader.datas)) /\ reader.file <= Last
  /\ pc \in {"idle", "list", "open", "load", "skip",
             "next", "grown", "reload", "retake", "nextfile", "opennext", "loadnext", "take",
             "prev", "prevfile", "openprev", "loadprev"}
  /\ call \in CallType /\ calls \in 0..MaxCalls
  /\ status \in {"none", "sought", "playing"}
  /\ handed \in [by : Ways, items : Seq([time : Nat, kind : Kinds])]
  /\ before \in Nat /\ astray \in BOOLEAN
  /\ seen \subseteq Chunks /\ passed \subseteq Chunks

ChunkOf(t) == CHOOSE c \in Chunks : Begin(c) <= t /\ t <= End(c)
FirstVideo(items) == items[Least(Videos(items))].time

\* At a file that begins with a chunk of one frame: it is its own next file while nothing
\* follows, for its time is not before the position.
AtLoneFrame ==
  reader.file # 0 /\ reader.position = Stamp(reader.file)
  /\ Cardinality(Videos(Items(reader.datas))) = 1

\* The only frame of a chunk that a file begins with: the search for the next file from there
\* finds that file again.
LoneFrame(t) == Frames({ChunkOf(t)}) = {t} /\ \E f \in 1..Last : Stamp(f) = t

\* After a Seek forwards, data comes forwards: never a frame before the one handed out
\* last, and that one again only when the file was found to have grown, or a LoneFrame.
ForwardOnly ==
  ~astray /\ handed.by \in {"next", "again"} /\ Videos(handed.items) # {} =>
    LET first == FirstVideo(handed.items)
    IN  first > before \/ (first = before /\ (handed.by = "again" \/ LoneFrame(first)))

\* A frame is skipped only if its chunk was not on the disk yet when the reader went past
\* it: its entry had no data, or the file had not grown when the reader left it.
SkipsOnlyTheNew ==
  ~astray /\ handed.by \in {"next", "again"} /\ Videos(handed.items) # {} /\ before # 0 =>
    \A t \in Frames(Chunks \ passed) : ~(before < t /\ t < FirstVideo(handed.items))

\* Every frame handed out can be decoded: a P frame follows the frame before it in its
\* chunk, or is the one handed out last once more.
Decodable ==
  \A i \in Videos(handed.items) :
    LET t == handed.items[i].time
        previous == LastVideo(SubSeq(handed.items, 1, i - 1), before)
    IN  handed.items[i].kind = "P" =>
          previous = t \/ previous = Greatest({u \in Frames({ChunkOf(t)}) : u < t})

\* A Seek forwards that succeeds lands on the last frame at or before the time, or on the
\* first one after it, of what was on the disk when it began.
SeekLands ==
  [][(call.op = "seek" /\ call.type = "Next" /\ pc' = "idle" /\ status' = "sought"
        /\ ~astray') =>
       \A t \in Frames(seen) :
         /\ ~(reader'.position < t /\ t <= call.time)
         /\ ~(call.time <= t /\ t < reader'.position)]_vars

\* GetPrevData finds the chunk before the one loaded if there is one on the disk.
PrevFound ==
  [][(pc \in {"prev", "prevfile", "openprev", "loadprev"} /\ pc' = "idle" /\ handed' = handed) =>
       \A c \in seen : c >= reader.datas]_vars

\* A client that plays forwards gets to the end of a recording that is finished, or stays
\* at a lone frame.
CatchesUp ==
  (Finished /\ status = "playing")
    ~> \/ status # "playing" \/ AtLoneFrame
       \/ LastVideo(handed.items, before) = End(Len(Content))
=============================================================================
