------------------------ MODULE RecordReaderOrderProofs ------------------------
(***************************************************************************)
(* For any recording, any hours, targets and calls: a client that goes     *)
(* forwards gets the frames in their order and misses none that could be   *)
(* read, and a Seek forwards lands where the time is, while the files      *)
(* appear and grow.                                                        *)
(***************************************************************************)
EXTENDS RecordReaderProofs

-----------------------------------------------------------------------------
(***************************************************************************)
(* The order of the files: each has the entries of consecutive chunks,     *)
(* from the one it is named for, and all of them before the next file's.   *)
(* The predicates take the files as a parameter: what a step of the writer *)
(* does to them is then a matter of two sequences of files.                *)
(***************************************************************************)
FirstOf(x) == ChunkOf(x.stamp)
UntilOf(x) == FirstOf(x) + Len(x.own)
SizeOf(x) == IF x.headed THEN x.cells + 1 ELSE 0
InOrder(x) ==
  /\ FirstOf(x) \in Chunks /\ x.stamp = Begin(FirstOf(x))
  /\ \A i \in 1..Len(x.own) : x.own[i] = FirstOf(x) + i - 1
  /\ x.cells <= 2 * Len(x.own) + 1
  /\ ~x.headed => x.own = <<>>

Before(x, y) == x.own # <<>> /\ UntilOf(x) <= FirstOf(y)
Holds(x, c) == FirstOf(x) <= c /\ c < UntilOf(x)

OrderOf(fs) ==
  /\ fs \in Seq(FileType)
  /\ \A f \in 1..Len(fs) : InOrder(fs[f])
  /\ \A f, g \in 1..Len(fs) : f < g => Before(fs[f], fs[g])

Ordered ==
  /\ OrderOf(files)
  /\ Last # 0 => written + 1 = UntilOf(files[Last]) /\ (~open => files[Last].own # <<>>)

\* What the writer does to a file, and to all.
More(x, y) ==
  /\ x.stamp = y.stamp /\ Len(x.own) <= Len(y.own) /\ SizeOf(x) <= SizeOf(y)
Grows(fs, gs) == Len(fs) <= Len(gs) /\ \A f \in 1..Len(fs) : More(fs[f], gs[f])

LEMMA BeginsOwn ==
  ASSUME NEW c \in Chunks
  PROVE  ChunkOf(Begin(c)) = c
<1>1. 1 \in Videos(Content[c]) /\ Time(c, 1) = Begin(c)  BY ChunkType, ContentType
<1> QED  BY <1>1, OwnChunk

LEMMA FileShape ==
  ASSUME NEW x \in FileType
  PROVE  /\ x.own \in Seq(Chunks) /\ Len(x.own) \in Nat /\ x.cells \in Nat
         /\ x.stamp \in Nat /\ x.headed \in BOOLEAN /\ SizeOf(x) \in Nat
<1>1. x.own \in Seq(Chunks) /\ x.cells \in Nat /\ x.stamp \in Nat /\ x.headed \in BOOLEAN
  BY DEF FileType
<1> QED  BY <1>1 DEF SizeOf

LEMMA OrderIs ==
  ASSUME NEW x \in FileType, InOrder(x)
  PROVE  /\ FirstOf(x) \in Chunks /\ FirstOf(x) \in Nat /\ UntilOf(x) \in Nat
         /\ x.stamp = Begin(FirstOf(x)) /\ x.stamp \in Nat
         /\ UntilOf(x) = FirstOf(x) + Len(x.own) /\ SizeOf(x) <= 2 * Len(x.own) + 2
<1>1. FirstOf(x) \in Chunks /\ x.stamp = Begin(FirstOf(x)) /\ x.cells <= 2 * Len(x.own) + 1
  BY DEF InOrder
<1>2. FirstOf(x) \in Nat  BY <1>1, ConstantTypes DEF Chunks
<1>3. Len(x.own) \in Nat /\ x.stamp \in Nat /\ x.cells \in Nat  BY FileShape
<1> QED  BY <1>1, <1>2, <1>3 DEF UntilOf, SizeOf

LEMMA FilesAre ==
  ASSUME NEW fs, OrderOf(fs), NEW f \in 1..Len(fs)
  PROVE  fs[f] \in FileType /\ InOrder(fs[f]) /\ Len(fs) \in Nat
BY DEF OrderOf

\* The last file with more in it.
LEMMA LastGrows ==
  ASSUME Inv, Ordered, open, NEW x \in FileType, files' = [files EXCEPT ![Last] = x],
         InOrder(x), More(files[Last], x), written' + 1 = UntilOf(x), ~open' => x.own # <<>>
  PROVE  Ordered' /\ Grows(files, files')
<1>1. files \in Seq(FileType) /\ Last \in Nat /\ Last \in 1..Last /\ Len(files) = Last
  BY DEF Inv, FilesInv, Last
<1>2. /\ files' \in Seq(FileType) /\ Len(files') = Last /\ Last' = Last
      /\ \A f \in 1..Last : files'[f] = IF f = Last THEN x ELSE files[f]
  BY <1>1 DEF Last
<1>3. FirstOf(files[Last]) = FirstOf(x)  BY DEF More, FirstOf
<1>4. \A f \in 1..Last : InOrder(files[f])  BY DEF Ordered, OrderOf, Last
<1>5. ASSUME NEW f \in 1..Last, NEW g \in 1..Last, f < g PROVE Before(files'[f], files'[g])
  <2>1. Before(files[f], files[g])  BY <1>5 DEF Ordered, OrderOf, Last
  <2>2. files'[f] = files[f]  BY <1>1, <1>2, <1>5
  <2>3. FirstOf(files'[g]) = FirstOf(files[g])  BY <1>2, <1>3
  <2> QED  BY <2>1, <2>2, <2>3 DEF Before
<1>6. OrderOf(files')
  <2>1. \A f \in 1..Last : InOrder(files'[f])  BY <1>2, <1>4
  <2> QED  BY <1>2, <1>5, <2>1 DEF OrderOf
<1>7. Ordered'  BY <1>1, <1>2, <1>6 DEF Ordered
<1>8. ASSUME NEW f \in 1..Last PROVE More(files[f], files'[f])
  <2>1. CASE f = Last  BY <1>2, <2>1
  <2>2. CASE f # Last
    <3>1. files'[f] = files[f] /\ files[f] \in FileType  BY <1>1, <1>2, <2>2
    <3> QED  BY <3>1, FileShape DEF More
  <2> QED  BY <2>1, <2>2
<1>9. Grows(files, files')  BY <1>1, <1>2, <1>8 DEF Grows
<1> QED  BY <1>7, <1>9

LEMMA CreateOrders ==
  ASSUME Inv, Ordered, Create
  PROVE  Ordered' /\ Grows(files, files')
<1>1. /\ files \in Seq(FileType) /\ Last \in Nat /\ Last = Len(files)
      /\ written \in 0..Len(Content) /\ Len(Content) \in Nat
  BY ConstantTypes DEF Inv, FilesInv, Last
<1>2. PICK x : /\ files' = Append(files, x) /\ x.stamp = Begin(written + 1) /\ x.own = <<>>
               /\ x.cells = 0 /\ ~x.headed
  BY DEF Create
<1>3. written' = written /\ open' /\ ~open /\ written < Len(Content)  BY DEF Create
<1>4. files' \in Seq(FileType)  BY CreateOK DEF Inv, FilesInv
<1>5. /\ Len(files') = Last + 1 /\ files'[Last + 1] = x
      /\ \A f \in 1..Last : files'[f] = files[f]
  BY <1>1, <1>2
<1>6. written + 1 \in Chunks  BY <1>1, <1>3 DEF Chunks
<1>7. FirstOf(x) = written + 1  BY <1>2, <1>6, BeginsOwn DEF FirstOf
<1>8. InOrder(x)
  <2>1. Len(x.own) = 0  BY <1>2
  <2>2. \A i \in 1..Len(x.own) : x.own[i] = FirstOf(x) + i - 1  BY <2>1
  <2> QED  BY <1>2, <1>6, <1>7, <2>1, <2>2 DEF InOrder
<1>9. UntilOf(x) = written + 1  BY <1>1, <1>2, <1>7 DEF UntilOf
<1>10. ASSUME NEW f \in 1..Last PROVE Before(files[f], x)
  <2>1. Last # 0 /\ Last \in 1..Last  BY <1>1
  <2>2. files[Last].own # <<>> /\ UntilOf(files[Last]) = written + 1
    BY <1>3, <2>1 DEF Ordered
  <2>3. CASE f = Last  BY <1>7, <2>2, <2>3, <1>1 DEF Before
  <2>4. CASE f # Last
    <3>1. Before(files[f], files[Last])  BY <1>1, <2>1, <2>4 DEF Ordered, OrderOf
    <3>2. /\ files[f] \in FileType /\ InOrder(files[f]) /\ files[Last] \in FileType
          /\ InOrder(files[Last])
      BY <1>1, <2>1, FilesAre DEF Ordered
    <3>3. UntilOf(files[f]) \in Nat /\ FirstOf(files[Last]) \in Nat
      BY <3>2, OrderIs
    <3>4. UntilOf(files[Last]) = FirstOf(files[Last]) + Len(files[Last].own)
          /\ Len(files[Last].own) \in Nat
      BY <3>2, FileShape DEF UntilOf
    <3> QED  BY <1>1, <1>7, <2>2, <3>1, <3>3, <3>4 DEF Before
  <2> QED  BY <2>3, <2>4
<1>11. OrderOf(files')
  <2>1. ASSUME NEW f \in 1..(Last + 1) PROVE InOrder(files'[f])
    <3>1. f \in 1..Last => InOrder(files[f])  BY <1>1 DEF Ordered, OrderOf
    <3> QED  BY <1>1, <1>5, <1>8, <3>1
  <2>2. ASSUME NEW f \in 1..(Last + 1), NEW g \in 1..(Last + 1), f < g
        PROVE  Before(files'[f], files'[g])
    <3>1. f \in 1..Last /\ files'[f] = files[f]  BY <1>1, <1>5, <2>2
    <3>2. CASE g \in 1..Last
      <4>1. Before(files[f], files[g])  BY <1>1, <2>2, <3>1, <3>2 DEF Ordered, OrderOf
      <4> QED  BY <1>5, <3>1, <3>2, <4>1
    <3>3. CASE g = Last + 1  BY <1>5, <1>10, <3>1, <3>3
    <3> QED  BY <1>1, <3>2, <3>3
  <2> QED  BY <1>4, <1>5, <2>1, <2>2 DEF OrderOf
<1>12. Last' = Last + 1  BY <1>5 DEF Last
<1>13. Ordered'
  <2>1. UntilOf(files'[Last']) = written' + 1  BY <1>3, <1>5, <1>9, <1>12
  <2> QED  BY <1>3, <1>11, <2>1 DEF Ordered
<1>14. Grows(files, files')
  <2>1. ASSUME NEW f \in 1..Last PROVE More(files[f], files'[f])
    <3>1. files'[f] = files[f] /\ files[f] \in FileType  BY <1>1, <1>5
    <3> QED  BY <3>1, FileShape DEF More
  <2> QED  BY <1>1, <1>5, <2>1 DEF Grows
<1> QED  BY <1>13, <1>14

LEMMA WriterOrders ==
  ASSUME Inv, Ordered, Writer
  PROVE  Ordered' /\ Grows(files, files')
<1>1. CASE Create  BY <1>1, CreateOrders
<1>2. CASE ~Create
  <2>1. open /\ (InitBuffer \/ WriteIndexInfo \/ WriteDisk \/ FileClose)
    BY <1>2 DEF Writer, InitBuffer, WriteIndexInfo, WriteDisk, FileClose
  <2>2. PICK y : y = files[Last]  OBVIOUS
  <2>3. /\ Last \in 1..Last /\ files \in Seq(FileType) /\ Len(files) = Last
        /\ written \in 0..Len(Content) /\ Len(Content) \in Nat /\ Last # 0
    BY <2>1, ConstantTypes DEF Inv, FilesInv, Last
  <2>4. /\ y \in FileType /\ InOrder(y) /\ written + 1 = UntilOf(y)
    BY <2>2, <2>3, FilesAre DEF Ordered
  <2>5. /\ y.own \in Seq(Chunks) /\ Len(y.own) \in Nat /\ y.cells \in Nat
        /\ y.stamp \in Nat /\ y.headed \in BOOLEAN
    BY <2>4, FileShape
  <2>6. /\ FirstOf(y) \in Chunks /\ FirstOf(y) \in Nat /\ y.stamp = Begin(FirstOf(y))
        /\ UntilOf(y) = FirstOf(y) + Len(y.own) /\ y.cells <= 2 * Len(y.own) + 1
        /\ \A i \in 1..Len(y.own) : y.own[i] = FirstOf(y) + i - 1
        /\ ~y.headed => y.own = <<>>
    BY <2>4, OrderIs DEF InOrder
  <2>7. CASE InitBuffer
    <3>1. PICK x : x = [y EXCEPT !.headed = TRUE]  OBVIOUS
    <3>2. x \in FileType /\ x.own = y.own /\ x.cells = y.cells /\ x.stamp = y.stamp /\ x.headed
          /\ ~y.headed
      BY <2>2, <2>4, <2>7, <3>1 DEF FileType, InitBuffer
    <3>3. files' = [files EXCEPT ![Last] = x] /\ open' = open /\ written' = written
      BY <2>2, <2>7, <3>1 DEF InitBuffer
    <3>4. InOrder(x) /\ UntilOf(x) = UntilOf(y)  BY <2>6, <3>2 DEF InOrder, FirstOf, UntilOf
    <3>5. More(y, x)  BY <2>5, <3>2 DEF More, SizeOf
    <3> QED  BY <2>1, <2>2, <2>4, <3>2, <3>3, <3>4, <3>5, LastGrows
  <2>8. CASE WriteIndexInfo
    <3>1. PICK x : x = [y EXCEPT !.own = Append(@, written + 1)]  OBVIOUS
    <3>2. y.headed /\ written + 1 \in Chunks
      BY <2>2, <2>3, <2>8 DEF WriteIndexInfo, Chunks
    <3>3. /\ x \in FileType /\ x.own = Append(y.own, written + 1) /\ x.cells = y.cells
          /\ x.stamp = y.stamp /\ x.headed = y.headed
      <4>1. Append(y.own, written + 1) \in Seq(Chunks)  BY <2>5, <3>2
      <4> QED  BY <2>4, <3>1, <4>1 DEF FileType
    <3>4. files' = [files EXCEPT ![Last] = x] /\ open' = open /\ written' = written + 1
      BY <2>2, <2>8, <3>1 DEF WriteIndexInfo
    <3>5. /\ Len(x.own) = Len(y.own) + 1
          /\ \A i \in 1..Len(y.own) : x.own[i] = y.own[i]
          /\ x.own[Len(y.own) + 1] = written + 1 /\ x.own # <<>>
      BY <2>5, <3>2, <3>3
    <3>6. FirstOf(x) = FirstOf(y)  BY <3>3 DEF FirstOf
    <3>7. \A i \in 1..Len(x.own) : x.own[i] = FirstOf(x) + i - 1
      <4>1. written + 1 = FirstOf(y) + Len(y.own)  BY <2>4, <2>6
      <4>2. \A i \in 1..Len(x.own) : i \in 1..Len(y.own) \/ i = Len(y.own) + 1  BY <2>5, <3>5
      <4>3. x.own[Len(y.own) + 1] = FirstOf(x) + (Len(y.own) + 1) - 1  BY <2>5, <2>6, <3>5, <3>6, <4>1
      <4> QED  BY <2>6, <3>5, <3>6, <4>2, <4>3
    <3>8. InOrder(x)  BY <2>5, <2>6, <3>2, <3>3, <3>5, <3>6, <3>7 DEF InOrder
    <3>9. UntilOf(x) = UntilOf(y) + 1  BY <2>5, <2>6, <3>5, <3>6 DEF UntilOf
    <3>10. More(y, x)  BY <2>5, <3>3, <3>5 DEF More, SizeOf
    <3>11. written' + 1 = UntilOf(x)  BY <2>3, <2>4, <3>4, <3>9
    <3> QED  BY <2>1, <2>2, <3>3, <3>4, <3>5, <3>8, <3>10, <3>11, LastGrows
  <2>9. CASE WriteDisk
    <3>1. PICK n \in (y.cells + 1)..(2 * Len(y.own)) : files' = [files EXCEPT ![Last].cells = n]
      BY <2>2, <2>9 DEF WriteDisk
    <3>2. PICK x : x = [y EXCEPT !.cells = n]  OBVIOUS
    <3>3. n \in Nat /\ y.cells < n /\ n <= 2 * Len(y.own)  BY <2>5, <3>1
    <3>4. /\ x \in FileType /\ x.own = y.own /\ x.cells = n /\ x.stamp = y.stamp
          /\ x.headed = y.headed
      BY <2>4, <3>2, <3>3 DEF FileType
    <3>5. files' = [files EXCEPT ![Last] = x] /\ open' = open /\ written' = written
      BY <2>2, <2>9, <3>1, <3>2 DEF WriteDisk
    <3>6. InOrder(x) /\ UntilOf(x) = UntilOf(y)
      BY <2>5, <2>6, <3>3, <3>4 DEF InOrder, FirstOf, UntilOf
    <3>7. More(y, x)  BY <2>5, <3>3, <3>4 DEF More, SizeOf
    <3> QED  BY <2>1, <2>2, <2>4, <3>4, <3>5, <3>6, <3>7, LastGrows
  <2>10. CASE FileClose
    <3>1. PICK n : n = 2 * Len(y.own) + 1  OBVIOUS
    <3>2. PICK x : x = [y EXCEPT !.cells = n]  OBVIOUS
    <3>3. n \in Nat /\ y.cells <= n  BY <2>5, <2>6, <3>1
    <3>4. /\ x \in FileType /\ x.own = y.own /\ x.cells = n /\ x.stamp = y.stamp
          /\ x.headed = y.headed
      BY <2>4, <3>2, <3>3 DEF FileType
    <3>5. files' = [files EXCEPT ![Last] = x] /\ written' = written /\ y.own # <<>>
      BY <2>2, <2>10, <3>1, <3>2 DEF FileClose
    <3>6. InOrder(x) /\ UntilOf(x) = UntilOf(y)
      BY <2>5, <2>6, <3>1, <3>3, <3>4 DEF InOrder, FirstOf, UntilOf
    <3>7. More(y, x)  BY <2>5, <3>3, <3>4 DEF More, SizeOf
    <3> QED  BY <2>1, <2>2, <2>4, <3>4, <3>5, <3>6, <3>7, LastGrows
  <2> QED  BY <2>1, <2>7, <2>8, <2>9, <2>10
<1> QED  BY <1>1, <1>2

-----------------------------------------------------------------------------
(***************************************************************************)
(* Where a reader that goes forwards is.                                   *)
(***************************************************************************)
LEMMA Spans ==
  ASSUME NEW c \in Chunks
  PROVE  /\ Begin(c) \in Nat /\ End(c) \in Nat /\ Begin(c) <= End(c) /\ Begin(c) = Time(c, 1)
         /\ \A v \in Videos(Content[c]) : /\ Time(c, v) \in Nat /\ v \in Nat
                                          /\ Begin(c) <= Time(c, v) /\ Time(c, v) <= End(c)
         /\ \E v \in Videos(Content[c]) : /\ End(c) = Time(c, v)
                                          /\ \A w \in Videos(Content[c]) : w <= v
<1>1. PICK l : l = Greatest(Videos(Content[c]))  OBVIOUS
<1>2. l \in Videos(Content[c]) /\ \A y \in Videos(Content[c]) : y <= l
  BY <1>1, VideosType, ChunkType
<1>3. /\ Videos(Content[c]) \subseteq 1..Len(Content[c]) /\ 1 \in 1..Len(Content[c])
      /\ Len(Content[c]) \in Nat /\ Time(c, 1) = Begin(c) /\ 1 \in Videos(Content[c])
  BY ContentType, ChunkType
<1>4. End(c) = Time(c, l)  BY <1>1 DEF End, Time
<1>5. ASSUME NEW v \in Videos(Content[c])
      PROVE  Time(c, v) \in Nat /\ v \in Nat /\ Begin(c) <= Time(c, v) /\ Time(c, v) <= End(c)
  <2>1. v \in 1..Len(Content[c]) /\ v <= l /\ 1 <= v /\ l \in 1..Len(Content[c])
    BY <1>2, <1>3
  <2>2. Time(c, 1) <= Time(c, v) /\ Time(c, v) <= Time(c, l)  BY <1>3, <2>1, NotBefore
  <2> QED  BY <1>3, <1>4, <2>1, <2>2, TimeType
<1> QED  BY <1>2, <1>3, <1>4, <1>5, ChunkType

LEMMA Apart ==
  ASSUME NEW d \in Chunks, NEW c \in Chunks
  PROVE  /\ d \in Nat /\ c \in Nat
         /\ d < c => End(d) < Begin(c) /\ Begin(d) < Begin(c) /\ End(d) < End(c)
         /\ d <= c <=> Begin(d) <= Begin(c)
<1>1. d \in Nat /\ c \in Nat  BY ConstantTypes DEF Chunks
<1>2. ASSUME NEW a \in Chunks, NEW b \in Chunks, a < b
      PROVE  End(a) < Begin(b) /\ Begin(a) < Begin(b) /\ End(a) < End(b)
  <2>1. PICK v \in Videos(Content[a]) : End(a) = Time(a, v)  BY Spans
  <2>2. v \in 1..Len(Content[a])  BY ContentType
  <2>3. Time(a, v) < Begin(b)  BY <1>2, <2>2, ChunksAscend
  <2>4. /\ Begin(a) \in Nat /\ End(a) \in Nat /\ Begin(b) \in Nat /\ End(b) \in Nat
        /\ Begin(a) <= End(a) /\ Begin(b) <= End(b)
    BY Spans
  <2> QED  BY <2>1, <2>3, <2>4
<1>3. d < c => Begin(d) < Begin(c)  BY <1>2
<1>4. c < d => Begin(c) < Begin(d)  BY <1>2
<1>5. Begin(d) \in Nat /\ Begin(c) \in Nat  BY Spans
<1> QED  BY <1>1, <1>2, <1>3, <1>4, <1>5

\* At a video frame of the chunk that is loaded, which is the next one to go out or, at
\* the end of the chunk, the last one that went out.
Over(r) == r.next = Len(Content[r.datas])
Shown(r) ==
  /\ r.datas \in Chunks
  /\ \E v \in Videos(Content[r.datas]) : r.position = Time(r.datas, v)
  /\ IF Over(r) THEN r.position = End(r.datas) ELSE r.next + 1 \in Videos(Content[r.datas])

\* The entries that were in the file when it was parsed: the first k, and what the size said.
SnapshotOf(x, r, k) ==
  /\ k <= Len(x.own) /\ r.size <= 2 * k + 2 /\ r.size <= SizeOf(x)
  /\ \A i \in 1..Len(r.headers) :
       /\ r.headers[i].own <=> i <= k
       /\ i <= k => r.headers[i].chunk = FirstOf(x) + i - 1
Snapshot(x, r) == \E k \in 0..Len(r.headers) : SnapshotOf(x, r, k)

\* What is loaded is one of these, or from before the file.
HasEntry(r, i, c) == r.headers[i].own /\ r.headers[i].chunk = c
Lies(x, r) ==
  \/ \E i \in 1..Len(r.headers) : HasEntry(r, i, r.datas)
  \/ End(r.datas) <= x.stamp

\* The entries behind the position in the index are of later chunks.
Ahead(r) ==
  \A i \in 1..Len(r.headers) :
    i > r.data_index + 1 /\ r.headers[i].own => r.headers[i].chunk > r.datas

\* The list goes on with the file behind f.
ListFrom(r, f) == \A k \in 1..Len(r.file_list) : r.file_list[k] = f + k

\* The chunks yet to come, if they were not passed: none is from before the file, none
\* was left behind in the index.
Later(r, p) == {e \in Chunks \ p : e > r.datas}
Beyond(x, r, p) == \A e \in Later(r, p) : x.stamp <= Begin(e)
Untried(r, i) ==
  \/ i > r.data_index + 1
  \/ r.data_index + 1 = Len(r.headers) /\ 2 * i + 1 >= r.size
Coming(x, r, p) ==
  /\ Beyond(x, r, p)
  /\ \A e \in Later(r, p), i \in 1..Len(r.headers) : HasEntry(r, i, e) => Untried(r, i)

Ready(x, r, p) == Shown(r) /\ Lies(x, r) /\ Ahead(r) /\ ListFrom(r, r.file) /\ Coming(x, r, p)

\* l is the time of the last video frame that went out: of the chunk that is loaded it is the
\* last one up to next.
Gone(r, l) ==
  /\ 1 <= r.next /\ l \in Nat /\ l <= r.position
  /\ \A v \in Videos(Content[r.datas]) : v <= r.next <=> Time(r.datas, v) <= l

LEMMA EntryIs ==
  ASSUME NEW n, NEW r, ReaderOK(r, n), NEW i \in 1..Len(r.headers)
  PROVE  /\ Len(r.headers) \in Nat /\ r.data_index \in Int /\ i \in Nat /\ r.size \in Nat
         /\ r.headers[i].own \in BOOLEAN /\ r.headers[i].chunk \in Chunks
         /\ r.data_index <= Len(r.headers) - 1
<1>1. /\ r.headers \in Seq(EntryType) /\ r.data_index \in -1..(Len(r.headers) - 1)
      /\ r.size \in Nat /\ Len(r.headers) \in Nat
  BY DEF ReaderOK, ReaderType
<1>2. r.headers[i] \in EntryType  BY <1>1
<1> QED  BY <1>1, <1>2 DEF EntryType

LEMMA SnapshotIs ==
  ASSUME NEW n, NEW r, ReaderOK(r, n), NEW x \in FileType, InOrder(x), Snapshot(x, r),
         NEW i \in 1..Len(r.headers), r.headers[i].own
  PROVE  /\ r.headers[i].chunk = FirstOf(x) + i - 1 /\ i <= Len(x.own)
         /\ x.stamp <= Begin(r.headers[i].chunk) /\ Holds(x, r.headers[i].chunk)
         /\ \A j \in 1..i : j \in 1..Len(r.headers) /\ r.headers[j].own
<1>1. PICK k \in 0..Len(r.headers) : SnapshotOf(x, r, k)  BY DEF Snapshot
<1>2. /\ Len(r.headers) \in Nat /\ i \in Nat /\ r.headers[i].chunk \in Chunks
      /\ FirstOf(x) \in Chunks /\ FirstOf(x) \in Nat /\ x.stamp = Begin(FirstOf(x))
      /\ UntilOf(x) = FirstOf(x) + Len(x.own) /\ Len(x.own) \in Nat
  BY EntryIs, OrderIs, FileShape
<1>3. i <= k /\ k <= Len(x.own) /\ r.headers[i].chunk = FirstOf(x) + i - 1
  BY <1>1 DEF SnapshotOf
<1>4. FirstOf(x) <= r.headers[i].chunk /\ r.headers[i].chunk < UntilOf(x)  BY <1>2, <1>3
<1>5. Begin(FirstOf(x)) <= Begin(r.headers[i].chunk)  BY <1>2, <1>4, Apart
<1>6. \A j \in 1..i : j \in 1..Len(r.headers) /\ r.headers[j].own
  BY <1>1, <1>2, <1>3 DEF SnapshotOf
<1> QED  BY <1>2, <1>3, <1>4, <1>5, <1>6 DEF Holds

\* A chunk that the file had when it was parsed, at its place.
LEMMA EntryAt ==
  ASSUME NEW n, NEW r, ReaderOK(r, n), NEW x \in FileType, InOrder(x), Snapshot(x, r),
         NEW i \in 1..Len(r.headers), r.headers[i].own,
         NEW e \in Chunks, x.stamp <= Begin(e), e <= r.headers[i].chunk
  PROVE  \E j \in 1..i : HasEntry(r, j, e) /\ j = e - FirstOf(x) + 1
<1>1. /\ r.headers[i].chunk = FirstOf(x) + i - 1
      /\ \A j \in 1..i : j \in 1..Len(r.headers) /\ r.headers[j].own
  BY SnapshotIs
<1>2. FirstOf(x) \in Chunks /\ FirstOf(x) \in Nat /\ x.stamp = Begin(FirstOf(x)) /\ e \in Nat
      /\ i \in Nat
  BY OrderIs, EntryIs, Apart
<1>3. FirstOf(x) <= e  BY <1>2, Apart
<1>4. PICK j : j = e - FirstOf(x) + 1  OBVIOUS
<1>5. j \in 1..i  BY <1>1, <1>2, <1>3, <1>4
<1>6. r.headers[j].chunk = FirstOf(x) + j - 1  BY <1>1, <1>5, SnapshotIs
<1>7. r.headers[j].chunk = e  BY <1>2, <1>4, <1>6
<1> QED  BY <1>1, <1>4, <1>5, <1>7 DEF HasEntry

\* Once an entry of the file is loaded, nothing was left behind.
LEMMA LoadedReady ==
  ASSUME NEW n, NEW r, ReaderOK(r, n), NEW x \in FileType, InOrder(x), Snapshot(x, r),
         NEW i \in 1..Len(r.headers), r.headers[i].own, r.data_index = i - 1,
         r.datas = r.headers[i].chunk, Shown(r), ListFrom(r, r.file), NEW p
  PROVE  Ready(x, r, p)
<1>1. /\ r.datas = FirstOf(x) + i - 1 /\ x.stamp <= Begin(r.datas) /\ r.datas \in Chunks
      /\ i \in Nat /\ FirstOf(x) \in Nat /\ r.datas \in Nat
  BY SnapshotIs, EntryIs, OrderIs, Apart
<1>2. Lies(x, r)  BY DEF Lies, HasEntry
<1>3. ASSUME NEW j \in 1..Len(r.headers), r.headers[j].own
      PROVE  r.headers[j].chunk = FirstOf(x) + j - 1 /\ j \in Nat
  BY <1>3, SnapshotIs, EntryIs
<1>4. Ahead(r)
  <2>1. ASSUME NEW j \in 1..Len(r.headers), j > r.data_index + 1, r.headers[j].own
        PROVE  r.headers[j].chunk > r.datas
    BY <1>1, <1>3, <2>1
  <2> QED  BY <2>1 DEF Ahead
<1>5. ASSUME NEW e \in Later(r, p)
      PROVE  /\ x.stamp <= Begin(e)
             /\ \A j \in 1..Len(r.headers) : HasEntry(r, j, e) => Untried(r, j)
  <2>1. e \in Chunks /\ e > r.datas  BY DEF Later
  <2>2. Begin(r.datas) <= Begin(e) /\ Begin(e) \in Nat /\ Begin(r.datas) \in Nat /\ e \in Nat
        /\ x.stamp \in Nat
    BY <1>1, <2>1, Apart, Spans, FileShape
  <2>3. ASSUME NEW j \in 1..Len(r.headers), HasEntry(r, j, e) PROVE Untried(r, j)
    <3>1. e = FirstOf(x) + j - 1 /\ j \in Nat  BY <1>3, <2>3 DEF HasEntry
    <3>2. j > r.data_index + 1  BY <1>1, <2>1, <2>2, <3>1
    <3> QED  BY <3>2 DEF Untried
  <2> QED  BY <1>1, <2>2, <2>3
<1>6. Coming(x, r, p)  BY <1>5 DEF Coming, Beyond
<1> QED  BY <1>2, <1>4, <1>6 DEF Ready

-----------------------------------------------------------------------------
(***************************************************************************)
(* The files chosen forwards are a run of files, without a gap.            *)
(***************************************************************************)
LEMMA TimesMonotone ==
  ASSUME NEW h \in Nat, NEW m \in Nat, NEW n \in Nat, m <= n
  PROVE  h * m <= h * n
<1>1. PICK d \in Nat : n = m + d  BY n - m \in Nat
<1>2. h * n = h * m + h * d /\ h * d \in Nat /\ h * m \in Nat  BY <1>1
<1> QED  BY <1>2

LEMMA HoursAscend ==
  ASSUME NEW a \in Nat, NEW b \in Nat, a <= b
  PROVE  HourOf(a) \in Nat /\ HourOf(b) \in Nat /\ HourOf(a) <= HourOf(b)
<1>1. PICK h : h = Hour  OBVIOUS
<1>2. h \in Nat \ {0}  BY <1>1, ConstantTypes
<1>3. /\ a = h * (a \div h) + (a % h) /\ a \div h \in Nat /\ a % h \in 0..(h - 1)
      /\ b = h * (b \div h) + (b % h) /\ b \div h \in Nat /\ b % h \in 0..(h - 1)
  BY ONLY <1>2
<1>4. PICK m \in Nat : m = a \div h  BY <1>3
<1>5. PICK n \in Nat : n = b \div h  BY <1>3
<1>6. m <= n
  <2>1. SUFFICES ASSUME ~(m <= n) PROVE FALSE  OBVIOUS
  <2>2. n + 1 <= m /\ n + 1 \in Nat  BY <2>1
  <2>3. h * (n + 1) <= h * m  BY <1>2, <2>2, TimesMonotone
  <2>4. h * (n + 1) = h * n + h /\ h * n \in Nat /\ h * m \in Nat  BY <1>2
  <2>5. PICK x \in Nat : x = h * n  BY <2>4
  <2>6. PICK y \in Nat : y = h * m  BY <2>4
  <2>7. x + h <= y  BY <2>3, <2>4, <2>5, <2>6
  <2>8. a >= y /\ b < x + h  BY <1>2, <1>3, <1>4, <1>5, <2>5, <2>6
  <2> QED  BY <1>2, <2>7, <2>8
<1> QED  BY <1>1, <1>4, <1>5, <1>6 DEF HourOf

LEMMA StampsAscend ==
  ASSUME Ordered, NEW f \in 1..Last, NEW g \in 1..Last
  PROVE  /\ f \in Nat /\ g \in Nat /\ Stamp(f) \in Nat /\ Stamp(g) \in Nat
         /\ f < g => Stamp(f) < Stamp(g)
         /\ f <= g <=> Stamp(f) <= Stamp(g)
         /\ f <= g => HourOf(Stamp(f)) <= HourOf(Stamp(g))
         /\ HourOf(Stamp(f)) \in Nat /\ HourOf(Stamp(g)) \in Nat
<1>1. /\ files[f] \in FileType /\ InOrder(files[f]) /\ files[g] \in FileType /\ InOrder(files[g])
      /\ Last \in Nat
  BY FilesAre DEF Ordered, Last
<1>2. ASSUME NEW a \in 1..Last, NEW b \in 1..Last, a < b PROVE Stamp(a) < Stamp(b)
  <2>1. /\ files[a] \in FileType /\ InOrder(files[a]) /\ files[b] \in FileType /\ InOrder(files[b])
    BY FilesAre DEF Ordered, Last
  <2>2. Before(files[a], files[b])  BY <1>2 DEF Ordered, OrderOf, Last
  <2>3. /\ FirstOf(files[a]) \in Chunks /\ FirstOf(files[b]) \in Chunks
        /\ UntilOf(files[a]) = FirstOf(files[a]) + Len(files[a].own) /\ Len(files[a].own) \in Nat
        /\ files[a].stamp = Begin(FirstOf(files[a])) /\ files[b].stamp = Begin(FirstOf(files[b]))
        /\ files[a].own \in Seq(Chunks) /\ FirstOf(files[a]) \in Nat /\ FirstOf(files[b]) \in Nat
    BY <2>1, OrderIs, FileShape
  <2>4. Len(files[a].own) # 0  BY <2>2, <2>3 DEF Before
  <2>5. FirstOf(files[a]) < FirstOf(files[b])  BY <2>2, <2>3, <2>4 DEF Before
  <2> QED  BY <2>3, <2>5, Apart DEF Stamp
<1>3. Stamp(f) \in Nat /\ Stamp(g) \in Nat  BY <1>1, FileShape DEF Stamp
<1>4. f < g => Stamp(f) < Stamp(g)  BY <1>2
<1>5. g < f => Stamp(g) < Stamp(f)  BY <1>2
<1>6. f \in Nat /\ g \in Nat  BY <1>1
<1>7. f <= g <=> Stamp(f) <= Stamp(g)  BY <1>3, <1>4, <1>5, <1>6
<1>8. HourOf(Stamp(f)) \in Nat /\ HourOf(Stamp(g)) \in Nat  BY <1>3, HoursAscend
<1>9. f <= g => HourOf(Stamp(f)) <= HourOf(Stamp(g))  BY <1>3, <1>7, HoursAscend
<1> QED  BY <1>3, <1>4, <1>6, <1>7, <1>8, <1>9

\* A run of files, and the part of one that is on one side.
Run(S) == \A a, b \in S, f \in 1..Last : a <= f /\ f <= b => f \in S
Lower(T, S) == T \subseteq S /\ \A a \in S, b \in T : a <= b => a \in T
Upper(T, S) == T \subseteq S /\ \A a \in T, b \in S : a <= b => b \in T

LEMMA PartOfRun ==
  ASSUME NEW S, S \subseteq 1..Last, Run(S), NEW T, Lower(T, S) \/ Upper(T, S)
  PROVE  T \subseteq 1..Last /\ Run(T)
BY DEF Run, Lower, Upper

LEMMA FilesOfRun ==
  ASSUME Last \in Nat, NEW S, S \subseteq 1..Last, Run(S)
  PROVE  \E g \in Int : /\ \A k \in 1..Len(FilesOf(S)) : FilesOf(S)[k] = g + k
                        /\ S # {} => g + 1 = Least(S)
<1>1. CASE S = {}
  <2>1. Len(FilesOf(S)) = 0  BY <1>1, FilesOfType, FS_EmptySet
  <2> QED  BY <1>1, <2>1
<1>2. CASE S # {}
  <2>1. PICK a : a = Least(S)  OBVIOUS
  <2>0. S \subseteq Nat  OBVIOUS
  <2>2. a \in S /\ \A y \in S : a <= y  BY <1>2, <2>0, <2>1, LeastIs
  <2>6. /\ Len(FilesOf(S)) = Cardinality(S) /\ Cardinality(S) \in Nat
        /\ \A i \in 1..Cardinality(S) : /\ FilesOf(S)[i] \in S
                                        /\ Cardinality({g \in S : g <= FilesOf(S)[i]}) = i
    BY FilesOfType
  <2>3. a \in Nat  BY <2>2
  <2>4. ASSUME NEW k \in 1..Len(FilesOf(S)) PROVE FilesOf(S)[k] = a - 1 + k
    <3>1. PICK f : f = FilesOf(S)[k]  OBVIOUS
    <3>2. f \in S /\ Cardinality({g \in S : g <= f}) = k /\ k \in Nat
      BY <2>6, <3>1
    <3>3. f \in 1..Last /\ f \in Nat /\ a <= f  BY <2>2, <3>2
    <3>4. {g \in S : g <= f} = a..f
      <4>1. \A g \in S : g \in 1..Last /\ g \in Int /\ a <= g  BY <2>2
      <4>2. \A g \in a..f : g \in 1..Last /\ g \in S /\ g <= f
        <5>1. \A g \in a..f : g \in 1..Last /\ a <= g /\ g <= f  BY <2>2, <2>3, <3>3
        <5> QED  BY <2>2, <3>2, <5>1 DEF Run
      <4>3. \A g : g \in S /\ g <= f => g \in a..f  BY <2>3, <3>3, <4>1
      <4> QED  BY <4>2, <4>3
    <3>5. Cardinality(a..f) = f - a + 1  BY <2>3, <3>3, FS_Interval
    <3>6. Cardinality(a..f) = k  BY <3>2, <3>4
    <3>7. f - a + 1 = k  BY <3>5, <3>6
    <3> QED  BY <2>3, <3>1, <3>2, <3>3, <3>7
  <2>5. a - 1 \in Int /\ a - 1 + 1 = a  BY <2>3
  <2> QED  BY <2>1, <2>4, <2>5
<1> QED  BY <1>1, <1>2

\* What there is at or after t.
AtOrAfter(t) == {f \in 1..Last : Stamp(f) >= t}

\* A run; and, without the file before t, what it has is from t on and the first of that.
Choice(S, t, include) ==
  /\ S \subseteq 1..Last /\ Run(S)
  /\ ~include /\ S # {} => Lower(S, AtOrAfter(t))

LEMMA ChoiceLower ==
  ASSUME NEW S, NEW T, NEW t, NEW include \in BOOLEAN, Choice(S, t, include), Lower(T, S)
  PROVE  Choice(T, t, include)
<1>1. T \subseteq 1..Last /\ Run(T)  BY PartOfRun DEF Choice
<1>2. ASSUME ~include, T # {} PROVE Lower(T, AtOrAfter(t))
  <2>1. S # {}  BY <1>2 DEF Lower
  <2>2. Lower(S, AtOrAfter(t))  BY <1>2, <2>1 DEF Choice
  <2> QED  BY <2>2 DEF Lower
<1> QED  BY <1>1, <1>2 DEF Choice

LEMMA NearHourRun ==
  ASSUME Ordered, Last \in Nat, NEW t \in Nat, NEW dir, dir = "Next", NEW include \in BOOLEAN
  PROVE  Choice(NearHour(t, dir, include), t, include)
<1>1. PICK near : near = InHours(HourOf(t), HourOf(t) + 1)  OBVIOUS
<1>2. PICK older : older = {f \in near : Stamp(f) < t}  OBVIOUS
<1>3. PICK one : one = IF include /\ older # {} THEN {Greatest(older)} ELSE {}  OBVIOUS
<1>4. NearHour(t, dir, include) = (near \ older) \cup one
  BY <1>1, <1>2, <1>3 DEF NearHour
<1>5. HourOf(t) \in Nat  BY HoursAscend
<1>6. near \subseteq 1..Last /\ older \subseteq near  BY <1>1, <1>2 DEF InHours
<1>7. Run(near)
  <2>1. ASSUME NEW a \in near, NEW b \in near, NEW f \in 1..Last, a <= f, f <= b
        PROVE  f \in near
    <3>1. /\ HourOf(Stamp(a)) <= HourOf(Stamp(f)) /\ HourOf(Stamp(f)) <= HourOf(Stamp(b))
          /\ HourOf(Stamp(f)) \in Nat /\ HourOf(Stamp(a)) \in Nat /\ HourOf(Stamp(b)) \in Nat
      BY <1>6, <2>1, StampsAscend
    <3>2. HourOf(t) <= HourOf(Stamp(a)) /\ HourOf(Stamp(b)) <= HourOf(t) + 1
      BY <1>1, <1>5, <3>1 DEF InHours
    <3>3. HourOf(Stamp(f)) \in HourOf(t)..(HourOf(t) + 1)  BY <1>5, <3>1, <3>2
    <3> QED  BY <1>1, <3>3 DEF InHours
  <2> QED  BY <2>1 DEF Run
<1>8. one \subseteq older /\ \A f \in one, g \in older : g <= f
  <2>1. CASE one = {}  BY <2>1
  <2>2. CASE one # {}
    <3>1. older # {} /\ one = {Greatest(older)}  BY <1>3, <2>2
    <3>2. older \subseteq Nat /\ \A f \in older : f <= Last  BY <1>6
    <3>3. Greatest(older) \in older /\ \A g \in older : Greatest(older) >= g
      BY <3>1, <3>2, GreatestIs
    <3>4. \A g \in older : g <= Greatest(older)  BY <3>2, <3>3
    <3> QED  BY <3>1, <3>3, <3>4
  <2> QED  BY <2>1, <2>2
<1>9. PICK S : S = (near \ older) \cup one  OBVIOUS
<1>10. Upper(S, near)
  <2>1. S \subseteq near  BY <1>6, <1>8, <1>9
  <2>2. ASSUME NEW a \in S, NEW b \in near, a <= b PROVE b \in S
    <3>1. CASE b \notin older  BY <1>9, <3>1
    <3>2. CASE b \in older
      <4>1. a \in 1..Last /\ b \in 1..Last /\ Stamp(b) < t  BY <1>2, <1>6, <2>1, <3>2
      <4>2. Stamp(a) <= Stamp(b) /\ Stamp(a) \in Nat /\ Stamp(b) \in Nat
        BY <2>2, <4>1, StampsAscend
      <4>3. Stamp(a) < t  BY <4>1, <4>2
      <4>4. a \in older  BY <1>2, <2>1, <4>3
      <4>5. a \in one  BY <1>9, <4>4
      <4>6. b <= a  BY <1>8, <3>2, <4>5
      <4>7. a = b  BY <2>2, <4>1, <4>6
      <4> QED  BY <4>7
    <3> QED  BY <3>1, <3>2
  <2> QED  BY <2>1, <2>2 DEF Upper
<1>11. S \subseteq 1..Last /\ Run(S)  BY <1>6, <1>7, <1>10, PartOfRun
<1>12. ASSUME ~include, S # {} PROVE Lower(S, AtOrAfter(t))
  <2>1. S = near \ older  BY <1>3, <1>9, <1>12
  <2>2. ASSUME NEW f \in S PROVE f \in AtOrAfter(t)
    <3>1. f \in 1..Last /\ ~(Stamp(f) < t) /\ Stamp(f) \in Nat
      BY <1>2, <1>6, <2>1, <2>2, StampsAscend
    <3> QED  BY <3>1 DEF AtOrAfter
  <2>3. ASSUME NEW a \in AtOrAfter(t), NEW b \in S, a <= b PROVE a \in S
    <3>1. a \in 1..Last /\ b \in 1..Last /\ Stamp(a) >= t /\ b \in near
      BY <1>6, <2>1, <2>3 DEF AtOrAfter
    <3>2. /\ HourOf(Stamp(a)) <= HourOf(Stamp(b)) /\ Stamp(a) \in Nat
          /\ HourOf(Stamp(a)) \in Nat /\ HourOf(Stamp(b)) \in Nat
      BY <2>3, <3>1, StampsAscend
    <3>3. HourOf(Stamp(b)) <= HourOf(t) + 1  BY <1>1, <1>5, <3>1, <3>2 DEF InHours
    <3>4. HourOf(t) <= HourOf(Stamp(a))  BY <3>1, <3>2, HoursAscend
    <3>5. a \in near  BY <1>1, <1>5, <3>1, <3>2, <3>3, <3>4 DEF InHours
    <3>6. a \notin older  BY <1>2, <3>1, <3>2
    <3> QED  BY <2>1, <3>5, <3>6
  <2> QED  BY <2>2, <2>3 DEF Lower
<1> QED  BY <1>4, <1>9, <1>11, <1>12 DEF Choice

LEMMA NearFolderRun ==
  ASSUME Ordered, Last \in Nat, NEW t \in Nat, NEW dir, dir = "Next", NEW include \in BOOLEAN,
         NearHour(t, dir, include) = {}
  PROVE  Choice(NearFolder(t, dir), t, include)
<1>1. PICK beyond : beyond = {f \in 1..Last : HourOf(Stamp(f)) > HourOf(t)}  OBVIOUS
<1>2. PICK nearest : nearest = First(beyond, dir, 0)  OBVIOUS
<1>3. PICK S : S = {f \in beyond : HourOf(Stamp(f)) = HourOf(Stamp(nearest))}  OBVIOUS
<1>4. NearFolder(t, dir) = S  BY <1>1, <1>2, <1>3 DEF NearFolder
<1>5. HourOf(t) \in Nat /\ beyond \subseteq 1..Last /\ S \subseteq beyond
  BY <1>1, <1>3, HoursAscend
<1>6. beyond # {} => nearest \in beyond /\ \A f \in beyond : nearest <= f
  <2>1. beyond \subseteq Nat /\ \A f \in beyond : f <= Last  BY <1>5
  <2> QED  BY <1>2, <2>1, FirstIs
<1>7. Lower(S, beyond)
  <2>1. ASSUME NEW a \in beyond, NEW b \in S, a <= b PROVE a \in S
    <3>1. nearest \in 1..Last /\ nearest <= a /\ a \in 1..Last /\ b \in 1..Last
      BY <1>5, <1>6
    <3>2. /\ HourOf(Stamp(nearest)) <= HourOf(Stamp(a)) /\ HourOf(Stamp(a)) <= HourOf(Stamp(b))
          /\ HourOf(Stamp(nearest)) \in Nat /\ HourOf(Stamp(a)) \in Nat
          /\ HourOf(Stamp(b)) \in Nat
      BY <2>1, <3>1, StampsAscend
    <3>3. HourOf(Stamp(b)) = HourOf(Stamp(nearest))  BY <1>3
    <3>4. HourOf(Stamp(a)) = HourOf(Stamp(nearest))  BY <3>2, <3>3
    <3> QED  BY <1>3, <3>4
  <2> QED  BY <1>5, <2>1 DEF Lower
<1>8. Run(beyond)
  <2>1. ASSUME NEW a \in beyond, NEW f \in 1..Last, a <= f PROVE f \in beyond
    <3>1. /\ HourOf(Stamp(a)) <= HourOf(Stamp(f)) /\ HourOf(Stamp(a)) > HourOf(t)
          /\ HourOf(Stamp(a)) \in Nat /\ HourOf(Stamp(f)) \in Nat
      BY <1>1, <1>5, <2>1, StampsAscend
    <3>2. HourOf(Stamp(f)) > HourOf(t)  BY <1>5, <3>1
    <3> QED  BY <1>1, <3>2
  <2> QED  BY <2>1 DEF Run
<1>9. S \subseteq 1..Last /\ Run(S)  BY <1>5, <1>7, <1>8, PartOfRun
<1>10. ASSUME ~include PROVE beyond = AtOrAfter(t)
  <2>1. ASSUME NEW f \in beyond PROVE f \in AtOrAfter(t)
    <3>1. f \in 1..Last /\ Stamp(f) \in Nat /\ HourOf(Stamp(f)) > HourOf(t)
          /\ HourOf(Stamp(f)) \in Nat
      BY <1>1, <1>5, StampsAscend
    <3>2. Stamp(f) <= t => HourOf(Stamp(f)) <= HourOf(t)  BY <3>1, HoursAscend
    <3>3. Stamp(f) >= t  BY <1>5, <3>1, <3>2
    <3> QED  BY <3>1, <3>3 DEF AtOrAfter
  <2>2. ASSUME NEW f \in AtOrAfter(t) PROVE f \in beyond
    <3>1. f \in 1..Last /\ Stamp(f) \in Nat /\ t <= Stamp(f) /\ HourOf(Stamp(f)) \in Nat
      BY StampsAscend DEF AtOrAfter
    <3>2. HourOf(t) <= HourOf(Stamp(f))  BY <3>1, HoursAscend
    <3>3. HourOf(Stamp(f)) # HourOf(t)
      <4>1. SUFFICES ASSUME HourOf(Stamp(f)) = HourOf(t) PROVE FALSE  OBVIOUS
      <4>2. f \in InHours(HourOf(t), HourOf(t) + 1)  BY <1>5, <3>1, <4>1 DEF InHours
      <4>3. ~(Stamp(f) < t)  BY <3>1
      <4>4. f \in NearHour(t, dir, include)  BY <4>2, <4>3 DEF NearHour
      <4> QED  BY <4>4
    <3>4. HourOf(Stamp(f)) > HourOf(t)  BY <1>5, <3>1, <3>2, <3>3
    <3> QED  BY <1>1, <3>1, <3>4
  <2> QED  BY <2>1, <2>2
<1>11. ~include /\ S # {} => Lower(S, AtOrAfter(t))  BY <1>7, <1>10
<1> QED  BY <1>4, <1>9, <1>11 DEF Choice

LEMMA In2HoursRun ==
  ASSUME Ordered, Last \in Nat, NEW t \in Nat, NEW dir, dir = "Next", NEW S, S \subseteq 1..Last
  PROVE  Lower(In2Hours(t, S, dir), S)
<1>1. ASSUME NEW hour PROVE Lower(Within(hour, S, dir), S) \/ hour \notin Nat
  <2>1. SUFFICES ASSUME hour \in Nat PROVE Lower(Within(hour, S, dir), S)  OBVIOUS
  <2>2. Within(hour, S, dir) = {f \in S : HourOf(Stamp(f)) <= hour}  BY DEF Within
  <2>3. ASSUME NEW a \in S, NEW b \in S, HourOf(Stamp(b)) <= hour, a <= b
        PROVE  HourOf(Stamp(a)) <= hour
    <3>1. /\ HourOf(Stamp(a)) <= HourOf(Stamp(b)) /\ HourOf(Stamp(a)) \in Nat
          /\ HourOf(Stamp(b)) \in Nat
      BY <2>3, StampsAscend
    <3> QED  BY <2>1, <2>3, <3>1
  <2> QED  BY <2>2, <2>3 DEF Lower
<1>2. HourOf(t) + 1 \in Nat  BY HoursAscend
<1>3. CASE S = {}
  <2>1. In2Hours(t, S, dir) = {}  BY <1>3 DEF In2Hours, Either, Within
  <2> QED  BY <1>3, <2>1 DEF Lower
<1>4. CASE S # {}
  <2>1. S \subseteq Nat  OBVIOUS
  <2>2. Least(S) \in 1..Last  BY <1>4, <2>1, LeastIs
  <2>3. HourOf(Stamp(Least(S))) \in Nat  BY <2>2, StampsAscend
  <2>4. In2Hours(t, S, dir) = Within(HourOf(t) + 1, S, dir)
        \/ In2Hours(t, S, dir) = Within(HourOf(Stamp(Least(S))), S, dir)
    BY DEF In2Hours, Either
  <2> QED  BY <1>1, <1>2, <2>3, <2>4
<1> QED  BY <1>3, <1>4

\* GetNearestFile forwards: a run of files; the first of what begins at or after the time,
\* unless the file before was asked for too.
Following(list, t, include) ==
  \E g \in Int : /\ \A k \in 1..Len(list) : list[k] = g + k
                 /\ ~include /\ list # <<>> =>
                      /\ list[1] \in AtOrAfter(t)
                      /\ \A f \in AtOrAfter(t) : list[1] <= f

LEMMA NearestNext ==
  ASSUME Ordered, Last \in Nat, NEW t \in Nat, NEW dir, dir = "Next", NEW include \in BOOLEAN,
         NEW list, list = GetNearestFile(t, dir, include)
  PROVE  Following(list, t, include)
<1>1. PICK found : found = GetNearestFileNames(t, dir, include)  OBVIOUS
<1>2. Choice(found, t, include)
  <2>1. CASE NearHour(t, dir, include) # {}
    <3>1. found = NearHour(t, dir, include)  BY <1>1, <2>1 DEF GetNearestFileNames, Either
    <3> QED  BY <3>1, NearHourRun
  <2>2. CASE NearHour(t, dir, include) = {}
    <3>1. found = NearFolder(t, dir)  BY <1>1, <2>2 DEF GetNearestFileNames, Either
    <3> QED  BY <2>2, <3>1, NearFolderRun
  <2> QED  BY <2>1, <2>2
<1>3. PICK kept : kept = IF include THEN OneUpTo(t, found) ELSE found  OBVIOUS
<1>4. Choice(kept, t, include)
  <2>1. CASE include
    <3>1. kept = {f \in found : \A g \in found : g > f => Stamp(g) > t}
      BY <1>3, <2>1 DEF OneUpTo
    <3>2. found \subseteq 1..Last /\ Run(found)  BY <1>2 DEF Choice
    <3>3. ASSUME NEW a \in kept, NEW b \in found, a <= b PROVE b \in kept
      <4>1. \A g \in found : g \in 1..Last /\ g \in Int  BY <3>2
      <4>2. \A g \in found : g > b => g > a  BY <3>1, <3>3, <4>1
      <4> QED  BY <3>1, <4>2
    <3>4. Upper(kept, found)  BY <3>1, <3>3 DEF Upper
    <3>5. kept \subseteq 1..Last /\ Run(kept)  BY <3>2, <3>4, PartOfRun
    <3> QED  BY <2>1, <3>5 DEF Choice
  <2>2. CASE ~include  BY <1>2, <1>3, <2>2
  <2> QED  BY <2>1, <2>2
<1>5. PICK S : S = In2Hours(t, kept, dir)  OBVIOUS
<1>6. Choice(S, t, include)
  <2>1. kept \subseteq 1..Last  BY <1>4 DEF Choice
  <2>2. Lower(S, kept)  BY <1>5, <2>1, In2HoursRun
  <2> QED  BY <1>4, <2>2, ChoiceLower
<1>7. CASE found = {}
  <2>1. list = <<>>  BY <1>1, <1>7 DEF GetNearestFile
  <2>2. Len(list) = 0  BY <2>1
  <2> QED  BY <2>1, <2>2 DEF Following
<1>8. CASE found # {}
  <2>1. list = FilesOf(S)  BY <1>1, <1>3, <1>5, <1>8 DEF GetNearestFile
  <2>2. S \subseteq 1..Last /\ Run(S)  BY <1>6 DEF Choice
  <2>3. PICK g \in Int : /\ \A k \in 1..Len(list) : list[k] = g + k
                         /\ S # {} => g + 1 = Least(S)
    BY <2>1, <2>2, FilesOfRun
  <2>4. ASSUME ~include, list # <<>>
        PROVE  list[1] \in AtOrAfter(t) /\ \A f \in AtOrAfter(t) : list[1] <= f
    <3>1. Len(list) = Cardinality(S) /\ list \in Seq(1..Last) /\ Cardinality(S) \in Nat
      BY <2>1, <2>2, FilesOfType
    <3>2. 1 \in 1..Len(list)  BY <2>4, <3>1
    <3>3. S # {}  BY <2>1, <2>2, <3>1, <3>2, FilesOfType
    <3>4. list[1] = Least(S)  BY <2>3, <3>2, <3>3
    <3>5. S \subseteq Nat  BY <2>2
    <3>6. Least(S) \in S /\ \A y \in S : Least(S) <= y  BY <3>3, <3>5, LeastIs
    <3>7. Lower(S, AtOrAfter(t))  BY <1>6, <2>4, <3>3 DEF Choice
    <3>8. ASSUME NEW f \in AtOrAfter(t) PROVE list[1] <= f
      <4>1. f \in 1..Last  BY DEF AtOrAfter
      <4>2. f <= Least(S) => f \in S  BY <3>6, <3>7 DEF Lower
      <4>3. Least(S) \in Nat  BY <3>5, <3>6
      <4>4. f \in Nat  BY <4>1
      <4> QED  BY <3>4, <3>6, <4>2, <4>3, <4>4
    <3>9. list[1] \in AtOrAfter(t)  BY <3>4, <3>6, <3>7 DEF Lower
    <3> QED  BY <3>8, <3>9
  <2> QED  BY <2>3, <2>4 DEF Following
<1> QED  BY <1>7, <1>8

-----------------------------------------------------------------------------
(***************************************************************************)
(* What LoadDataByIndex finds forwards.                                    *)
(***************************************************************************)
LEMMA PositionNext ==
  ASSUME NEW headers \in Seq(EntryType), NEW t \in Nat, NEW dir, dir = "Next",
         NEW start, start = SetIndexPosition(headers, t, dir)
  PROVE  /\ start \in Int /\ Len(headers) \in Nat
         /\ headers # <<>> => 0 <= start /\ start < Len(headers)
         /\ headers = <<>> => start = -1
         /\ \A i \in 1..Len(headers) : i <= start => End(headers[i].chunk) < t
         /\ \A i \in 1..Len(headers) : End(headers[i].chunk) >= t =>
              i > start /\ start + 1 \in 1..Len(headers) /\ End(headers[start + 1].chunk) >= t
<1>1. PICK stops : stops = {i \in 1..Len(headers) : End(headers[i].chunk) >= t}  OBVIOUS
<1>2. PICK stop : stop = First(stops, dir, Len(headers))  OBVIOUS
<1>3. start = stop - 1
  BY <1>1, <1>2 DEF SetIndexPosition
<1>4. Len(headers) \in Nat /\ stops \subseteq 1..Len(headers) /\ stops \subseteq Nat
      /\ \A i \in stops : i <= Len(headers)
  BY <1>1
<1>5. /\ stops # {} => stop \in stops /\ \A i \in stops : stop <= i
      /\ stops = {} => stop = Len(headers)
  BY <1>2, <1>4, FirstIs
<1>6. stop \in 0..Len(headers) /\ (headers # <<>> => stop # 0) /\ (headers = <<>> => stop = 0)
  <2>1. headers # <<>> => Len(headers) # 0  OBVIOUS
  <2>2. headers = <<>> => Len(headers) = 0  OBVIOUS
  <2>3. CASE stops = {}
    <3>1. stop = Len(headers)  BY <1>5, <2>3
    <3> QED  BY <1>4, <2>1, <2>2, <3>1
  <2>4. CASE stops # {}
    <3>1. stop \in 1..Len(headers)  BY <1>4, <1>5, <2>4
    <3> QED  BY <1>4, <2>2, <3>1
  <2> QED  BY <2>3, <2>4
<1>7. ASSUME NEW i \in 1..Len(headers), i <= start PROVE End(headers[i].chunk) < t
  <2>1. i \notin stops  BY <1>3, <1>4, <1>5, <1>6, <1>7
  <2>2. headers[i] \in EntryType  OBVIOUS
  <2>3. End(headers[i].chunk) \in Nat  BY <2>2, ChunkType DEF EntryType
  <2> QED  BY <1>1, <2>1, <2>3
<1>8. ASSUME NEW i \in 1..Len(headers), End(headers[i].chunk) >= t
      PROVE  i > start /\ start + 1 \in 1..Len(headers) /\ End(headers[start + 1].chunk) >= t
  <2>1. i \in stops  BY <1>1, <1>8
  <2>2. stop \in stops /\ stop <= i  BY <1>5, <2>1
  <2>3. start + 1 = stop  BY <1>3, <1>6
  <2> QED  BY <1>1, <1>3, <1>4, <2>2, <2>3
<1> QED  BY <1>3, <1>4, <1>6, <1>7, <1>8

\* No video frame at or after t, or one: of a chunk that ends there or later.
LEMMA SeekFinds ==
  ASSUME NEW c \in Chunks, NEW t \in Nat, NEW dir, dir = "Next"
  PROVE  SeekToTime(c, t, dir) = 0 <=> End(c) < t
<1>1. PICK x : x = SeekToTime(c, t, dir)  OBVIOUS
<1>2. /\ x \in Nat /\ Items(c) = Content[c]
      /\ x # 0 => x \in Videos(Items(c)) /\ Items(c)[x].time >= t
      /\ x = 0 => \A i \in Videos(Items(c)) : ~(Items(c)[i].time >= t)
  BY <1>1, SeekToTimeIs, ChunkType
<1>3. PICK v \in Videos(Content[c]) : End(c) = Time(c, v)  BY Spans
<1>4. \A i \in Videos(Content[c]) : Time(c, i) <= End(c) /\ Time(c, i) \in Nat  BY Spans
<1>5. \A i : Content[c][i].time = Time(c, i)  BY DEF Time
<1> QED  BY <1>1, <1>2, <1>3, <1>4, <1>5

\* The time is at the end of an entry the file had when it was parsed, or not behind its begin.
Sought(x, r, t) ==
  \/ \E i \in 1..Len(r.headers) : r.headers[i].own /\ t <= End(r.headers[i].chunk)
  \/ t <= x.stamp

\* Found: an entry, the first video frame from the time on, and before it nothing of the file
\* that ends later.
Finds(x, r, t, q) ==
  \E i \in 1..Len(r.headers), v \in Nat :
    /\ r.headers[i].own /\ q = Placed(r, i - 1, r.headers[i].chunk, v - 1, Time(r.headers[i].chunk, v))
    /\ v \in Videos(Content[r.headers[i].chunk]) /\ t <= Time(r.headers[i].chunk, v)
    /\ \A w \in Videos(Content[r.headers[i].chunk]) : t <= Time(r.headers[i].chunk, w) => v <= w
    /\ \A e \in Chunks : x.stamp <= Begin(e) /\ e < r.headers[i].chunk => End(e) < t

\* Not found: the reader stays where it was, behind the index; what there is from the time
\* on was not on the disk when the file was parsed.
FindsNot(r, t, q) ==
  /\ q = Placed(r, Len(r.headers) - 1, r.datas, r.next, r.position)
  /\ \A i \in 1..Len(r.headers) :
       r.headers[i].own /\ End(r.headers[i].chunk) >= t => 2 * i + 1 >= r.size

LEMMA LoadForward ==
  ASSUME Ordered, NEW r, ReaderOK(r, Last), r.file \in 1..Last, NEW x, x = files[r.file],
         Snapshot(x, r), NEW t \in Nat, Sought(x, r, t), NEW dir, dir = "Next",
         NEW L, L = LoadDataByIndex(r, t, dir)
  PROVE  L.ok \in BOOLEAN /\ IF L.ok THEN Finds(x, r, t, L.r) ELSE FindsNot(r, t, L.r)
<1>1. /\ Last \in Nat /\ x \in FileType /\ InOrder(x) /\ t \in Int /\ dir \in {"Next", "Prev"}
      /\ x.cells \in Nat /\ x.stamp \in Nat /\ x.headed \in BOOLEAN
  BY FilesAre, FileShape DEF Ordered, Last
<1>2. r.headers \in Seq(EntryType) /\ Len(r.headers) \in Nat  BY DEF ReaderOK, ReaderType
<1>3. PICK start : start = SetIndexPosition(r.headers, t, dir)  OBVIOUS
<1>4. /\ start \in Int
      /\ r.headers # <<>> => 0 <= start /\ start < Len(r.headers)
      /\ r.headers = <<>> => start = -1
      /\ \A i \in 1..Len(r.headers) : i <= start => End(r.headers[i].chunk) < t
      /\ \A i \in 1..Len(r.headers) : End(r.headers[i].chunk) >= t =>
           /\ i > start /\ start + 1 \in 1..Len(r.headers)
           /\ End(r.headers[start + 1].chunk) >= t
  BY <1>2, <1>3, PositionNext
<1>5. \A e : \A i \in 1..Len(r.headers) : Readable(r.file, i, e) <=> e.own /\ 2 * i < x.cells
  BY DEF Readable
\* An entry from there on ends at or after the time.
<1>6. ASSUME NEW i \in 1..Len(r.headers), i > start, r.headers[i].own
      PROVE  End(r.headers[i].chunk) >= t /\ r.headers[i].chunk \in Chunks
             /\ SeekToTime(r.headers[i].chunk, t, dir) # 0
  <2>1. r.headers[i].chunk \in Chunks /\ i \in Nat  BY EntryIs
  <2>2. \E j \in 1..Len(r.headers) : r.headers[j].own /\ End(r.headers[j].chunk) >= t
    <3>1. CASE \E j \in 1..Len(r.headers) : r.headers[j].own /\ t <= End(r.headers[j].chunk)
      <4>1. PICK j \in 1..Len(r.headers) : r.headers[j].own /\ t <= End(r.headers[j].chunk)
        BY <3>1
      <4>2. End(r.headers[j].chunk) \in Nat  BY EntryIs, Spans
      <4> QED  BY <4>1, <4>2
    <3>2. CASE t <= x.stamp
      <4>1. x.stamp <= Begin(r.headers[i].chunk)  BY <1>1, <1>6, SnapshotIs
      <4>2. Begin(r.headers[i].chunk) <= End(r.headers[i].chunk)
            /\ Begin(r.headers[i].chunk) \in Nat /\ End(r.headers[i].chunk) \in Nat
        BY <2>1, Spans
      <4> QED  BY <1>1, <1>6, <3>2, <4>1, <4>2
    <3> QED  BY <3>1, <3>2 DEF Sought
  <2>3. PICK j \in 1..Len(r.headers) : r.headers[j].own /\ End(r.headers[j].chunk) >= t
    BY <2>2
  <2>4. start + 1 \in 1..Len(r.headers) /\ End(r.headers[start + 1].chunk) >= t
        /\ start + 1 <= i
    BY <1>4, <1>6, <2>1, <2>3
  <2>5. /\ r.headers[i].chunk = FirstOf(x) + i - 1
        /\ \A k \in 1..i : k \in 1..Len(r.headers) /\ r.headers[k].own
    BY <1>1, <1>6, SnapshotIs
  <2>6. start + 1 \in 1..i  BY <1>4, <2>1, <2>4
  <2>7. r.headers[start + 1].own  BY <2>5, <2>6
  <2>8. r.headers[start + 1].chunk = FirstOf(x) + (start + 1) - 1
        /\ r.headers[start + 1].chunk \in Chunks
    BY <1>1, <2>4, <2>7, SnapshotIs, EntryIs
  <2>9. r.headers[start + 1].chunk <= r.headers[i].chunk
    <3>1. FirstOf(x) \in Nat  BY <1>1, OrderIs
    <3> QED  BY <1>4, <2>1, <2>4, <2>5, <2>8, <3>1
  <2>10. End(r.headers[start + 1].chunk) <= End(r.headers[i].chunk)
         /\ End(r.headers[start + 1].chunk) \in Nat /\ End(r.headers[i].chunk) \in Nat
    <3>1. PICK a : a = r.headers[start + 1].chunk  OBVIOUS
    <3>2. PICK b : b = r.headers[i].chunk  OBVIOUS
    <3>3. a \in Chunks /\ b \in Chunks /\ a <= b  BY <2>1, <2>8, <2>9, <3>1, <3>2
    <3>4. End(a) \in Nat /\ End(b) \in Nat  BY <3>3, Spans
    <3>5. a \in Nat /\ b \in Nat /\ (a < b => End(a) < End(b))  BY <3>3, Apart
    <3>6. End(a) <= End(b)  BY <3>3, <3>4, <3>5
    <3> QED  BY <3>1, <3>2, <3>4, <3>6
  <2>11. End(r.headers[i].chunk) >= t  BY <2>4, <2>10
  <2> QED  BY <2>1, <2>10, <2>11, SeekFinds
<1>7. /\ L.ok \in BOOLEAN
      /\ L.ok => \E i \in 0..(Len(r.headers) - 1), c \in Chunks, v \in Nat :
                   LoadHit(r, t, dir, start, L.r, i, c, v)
      /\ ~L.ok => \E i \in -1..(Len(r.headers) - 1), c \in Chunks \cup {0}, next \in Nat :
                    LoadMiss(r, t, dir, start, L.r, i, c, next)
  BY <1>1, <1>3, LoadIs
<1>8. ASSUME L.ok PROVE Finds(x, r, t, L.r)
  <2>1. PICK j \in 0..(Len(r.headers) - 1), c \in Chunks, v \in Nat :
          LoadHit(r, t, dir, start, L.r, j, c, v)
    BY <1>7, <1>8
  <2>2. PICK i : i = j + 1  OBVIOUS
  <2>3. i \in 1..Len(r.headers) /\ j = i - 1 /\ i \in Nat  BY <1>2, <2>2
  <2>4. /\ c = r.headers[i].chunk /\ Readable(r.file, i, r.headers[i])
        /\ v = SeekToTime(c, t, dir) /\ v # 0 /\ v \in Videos(Items(c))
        /\ L.r = Placed(r, i - 1, c, v - 1, Items(c)[v].time)
        /\ 0 <= start /\ start < i
    BY <1>4, <2>1, <2>2, <2>3 DEF LoadHit
  <2>5. Items(c) = Content[c] /\ Items(c)[v].time = Time(c, v)  BY ChunkType DEF Time
  <2>6. /\ Items(c)[v].time >= t
        /\ \A w \in Videos(Items(c)) : Items(c)[w].time >= t => w >= v
    BY <1>1, <2>4, SeekToTimeIs
  <2>7. \A w : Content[c][w].time = Time(c, w)  BY DEF Time
  <2>8. r.headers[i].own  BY <1>5, <2>3, <2>4
  <2>9. Time(c, v) \in Nat  BY <2>4, <2>5, Spans
  <2>10. t <= Time(c, v)  BY <2>5, <2>6, <2>9
  <2>11. \A w \in Videos(Content[c]) : t <= Time(c, w) => v <= w
    <3>1. \A w \in Videos(Content[c]) : Time(c, w) \in Nat /\ w \in Nat  BY Spans
    <3> QED  BY <2>5, <2>6, <2>7, <3>1
  <2>12. ASSUME NEW e \in Chunks, x.stamp <= Begin(e), e < c PROVE End(e) < t
    <3>1. e \in Nat /\ c \in Nat  BY Apart
    <3>2. PICK k \in 1..i : HasEntry(r, k, e) /\ k = e - FirstOf(x) + 1
      <4>1. x \in FileType /\ InOrder(x) /\ e <= r.headers[i].chunk  BY <1>1, <2>4, <2>12, <3>1
      <4>2. x.stamp <= Begin(e)  BY <2>12
      <4> QED
        BY ONLY ReaderOK(r, Last), Snapshot(x, r), e \in Chunks, <2>3, <2>8, <4>1, <4>2, EntryAt
    <3>3. k \in 1..Len(r.headers) /\ r.headers[k].own /\ r.headers[k].chunk = e /\ k \in Nat
      BY <1>2, <2>3, <3>2 DEF HasEntry
    <3>4. CASE k <= start  BY <1>4, <3>3, <3>4
    <3>5. CASE k > start
      <4>1. SeekToTime(e, t, dir) # 0  BY <1>6, <3>3, <3>5
      <4>2. k < i
        <5>1. k # i  BY <2>4, <2>12, <3>1, <3>3
        <5> QED  BY <2>3, <3>2, <5>1
      <4>3. Readable(r.file, k, r.headers[k])
        <5>1. 2 * i < x.cells  BY <1>5, <2>3, <2>4
        <5>2. 2 * k < x.cells
          <6>1. x.cells \in Nat /\ k \in Nat /\ i \in Nat  BY <1>1, <2>3, <3>3
          <6> QED  BY ONLY <4>2, <5>1, <6>1
        <5> QED  BY <1>5, <3>3, <5>2
      <4>4. k - 1 \in start..(j - 1) /\ k - 1 + 1 = k  BY <1>4, <2>3, <3>3, <3>5, <4>2
      <4>5. Readable(r.file, k - 1 + 1, r.headers[k - 1 + 1]) =>
              SeekToTime(r.headers[k - 1 + 1].chunk, t, dir) = 0
        BY <2>1, <4>4 DEF LoadHit
      <4> QED  BY <3>3, <4>1, <4>3, <4>4, <4>5
    <3> QED  BY <1>4, <3>3, <3>4, <3>5
  <2> QED  BY <2>3, <2>4, <2>5, <2>8, <2>10, <2>11, <2>12 DEF Finds
<1>9. ASSUME ~L.ok PROVE FindsNot(r, t, L.r)
  <2>1. PICK j \in -1..(Len(r.headers) - 1), c \in Chunks \cup {0}, next \in Nat :
          LoadMiss(r, t, dir, start, L.r, j, c, next)
    BY <1>7, <1>9
  <2>2. ASSUME NEW i \in 1..Len(r.headers), i > start PROVE ~Readable(r.file, i, r.headers[i])
    <3>1. SUFFICES ASSUME Readable(r.file, i, r.headers[i]) PROVE FALSE  OBVIOUS
    <3>2. r.headers[i].own  BY <1>5, <3>1
    <3>3. SeekToTime(r.headers[i].chunk, t, dir) # 0  BY <1>6, <2>2, <3>2
    <3>4. r.headers # <<>>  BY <1>2
    <3>5. i - 1 \in start..(Len(r.headers) - 1) /\ i - 1 + 1 = i /\ start >= 0
      BY <1>2, <1>4, <2>2, <3>4
    <3>6. Readable(r.file, i - 1 + 1, r.headers[i - 1 + 1]) =>
            SeekToTime(r.headers[i - 1 + 1].chunk, t, dir) = 0
      BY <2>1, <3>5 DEF LoadMiss
    <3> QED  BY <3>1, <3>3, <3>5, <3>6
  <2>3. c = r.datas /\ next = r.next
    <3>1. SUFFICES ASSUME ~(c = r.datas /\ next = r.next) PROVE FALSE  OBVIOUS
    <3>2. PICK k \in 0..(Len(r.headers) - 1) :
            Readable(r.file, k + 1, r.headers[k + 1]) /\ k >= start
      BY <2>1, <3>1 DEF LoadMiss
    <3>3. k + 1 \in 1..Len(r.headers) /\ k + 1 > start  BY <1>2, <1>4, <3>2
    <3> QED  BY <2>2, <3>2, <3>3
  <2>4. j = Len(r.headers) - 1
    <3>1. j = IF start < 0 THEN -1 ELSE Len(r.headers) - 1  BY <2>1 DEF LoadMiss
    <3>2. r.headers = <<>> => Len(r.headers) = 0  OBVIOUS
    <3> QED  BY <1>2, <1>4, <3>1, <3>2
  <2>5. L.r = Placed(r, Len(r.headers) - 1, r.datas, r.next, r.position)
    BY <2>1, <2>3, <2>4 DEF LoadMiss
  <2>6. ASSUME NEW i \in 1..Len(r.headers), r.headers[i].own, End(r.headers[i].chunk) >= t
        PROVE  2 * i + 1 >= r.size
    <3>1. i > start  BY <1>4, <2>6
    <3>2. ~(2 * i < x.cells)  BY <1>5, <2>2, <2>6, <3>1
    <3>3. r.size <= SizeOf(x) /\ r.size \in Nat
      BY EntryIs DEF Snapshot, SnapshotOf
    <3>4. SizeOf(x) <= x.cells + 1 /\ SizeOf(x) \in Nat  BY <1>1 DEF SizeOf
    <3> QED  BY <1>1, <1>2, <3>2, <3>3, <3>4
  <2> QED  BY <2>5, <2>6 DEF FindsNot
<1> QED  BY <1>7, <1>8, <1>9

-----------------------------------------------------------------------------
(***************************************************************************)
(* What goes out, forwards.                                                *)
(***************************************************************************)
\* Items with one video frame, of time t, after which the reader stands.
Plays(q, got, t) ==
  /\ got # <<>> /\ got \in Seq(Item) /\ t \in Nat
  /\ Videos(got) # {} /\ FirstVideo(got) = t /\ \A lv : LastVideo(got, lv) = t
  /\ q.position = t /\ Shown(q) /\ Gone(q, t)

\* Between two times there is no frame but of chunks that were passed.
Unheard(p, l, t) ==
  \A e \in Chunks \ p : \A y \in Videos(Content[e]) : ~(l < Time(e, y) /\ Time(e, y) < t)

\* The end of what could be read when the file was parsed.
Unread(r) ==
  \A i \in 1..Len(r.headers) :
    i > r.data_index + 1 /\ r.headers[i].own => 2 * i + 1 >= r.size

LEMMA SameReady ==
  ASSUME NEW q, NEW r, SameLoaded(q, r), Shown(q), NEW x, NEW p, Ready(x, r, p)
  PROVE  Ready(x, q, p)
<1>1. Lies(x, q)  BY DEF SameLoaded, Ready, Lies, HasEntry
<1>2. Ahead(q)  BY DEF SameLoaded, Ready, Ahead
<1>3. ListFrom(q, q.file)  BY DEF SameLoaded, Ready, ListFrom
<1>4. Coming(x, q, p)
  <2>1. Later(q, p) = Later(r, p)  BY DEF SameLoaded, Later
  <2> QED  BY <2>1 DEF SameLoaded, Ready, Coming, Beyond, Untried, HasEntry
<1> QED  BY <1>1, <1>2, <1>3, <1>4 DEF Ready

LEMMA OneVideo ==
  ASSUME NEW c \in Chunks, NEW s \in Videos(Content[c]), NEW u \in s..Len(Content[c]),
         \A z \in Videos(Content[c]) : z > s => z > u,
         NEW got, got = SubSeq(Content[c], s, u)
  PROVE  /\ got # <<>> /\ got \in Seq(Item) /\ Videos(got) # {}
         /\ FirstVideo(got) = Time(c, s) /\ \A lv : LastVideo(got, lv) = Time(c, s)
<1>1. /\ Content[c] \in Seq(Item) /\ Len(Content[c]) \in Nat /\ s \in 1..Len(Content[c])
      /\ u \in Nat /\ s \in Nat /\ s <= u
  <2>1. /\ Content[c] \in Seq(Item) /\ Len(Content[c]) \in Nat /\ s \in 1..Len(Content[c])
    BY ChunkType, ContentType
  <2> QED  BY <2>1
<1>2. /\ got \in Seq(Item) /\ got # <<>> /\ Len(got) = u - s + 1
      /\ \A i \in 1..(u - s + 1) : got[i] = Content[c][s + i - 1]
  BY <1>1, PartType
<1>3. \A z : z \in Videos(Content[c]) <=> z \in 1..Len(Content[c]) /\ IsVideo(Content[c][z])
  BY DEF Videos
<1>4. got[1] = Content[c][s] /\ 1 \in 1..Len(got)
  <2>1. 1 \in 1..(u - s + 1) /\ s + 1 - 1 = s  BY <1>1
  <2> QED  BY <1>2, <2>1
<1>5. Videos(got) = {1}
  <2>1. 1 \in Videos(got)  BY <1>3, <1>4 DEF Videos
  <2>2. ASSUME NEW i \in Videos(got) PROVE i = 1
    <3>1. i \in 1..(u - s + 1) /\ IsVideo(got[i])  BY <1>2 DEF Videos
    <3>2. got[i] = Content[c][s + i - 1] /\ s + i - 1 \in 1..Len(Content[c]) /\ s + i - 1 <= u
      BY <1>1, <1>2, <3>1
    <3>3. s + i - 1 \in Videos(Content[c])  BY <1>3, <3>1, <3>2
    <3>4. ~(s + i - 1 > s)  BY <1>1, <3>1, <3>2, <3>3
    <3> QED  BY <1>1, <3>1, <3>4
  <2> QED  BY <2>1, <2>2
<1>6. Least({1}) = 1 /\ Greatest({1}) = 1
  <2>1. {1} \subseteq Nat /\ {1} # {} /\ \A y \in {1} : y <= 1  OBVIOUS
  <2>2. Least({1}) \in {1}  BY <2>1, LeastIs
  <2>3. Greatest({1}) \in {1}  BY <2>1, GreatestIs
  <2> QED  BY <2>2, <2>3
<1> QED  BY <1>2, <1>4, <1>5, <1>6 DEF FirstVideo, LastVideo, Time

\* The next frame of the chunk that is loaded.
LEMMA NextOut ==
  ASSUME NEW n \in Nat, NEW r, ReaderOK(r, n), r.datas \in Chunks, ~Over(r),
         r.next + 1 \in Videos(Content[r.datas]), NEW G, G = GetForwardData(r)
  PROVE  SameLoaded(G.r, r) /\ Plays(G.r, G.got, Time(r.datas, r.next + 1))
<1>1. PICK c : c = r.datas  OBVIOUS
<1>2. PICK s : s = r.next + 1  OBVIOUS
<1>3. /\ c \in Chunks /\ Items(c) = Content[c] /\ s \in Videos(Content[c])
      /\ Content[c] \in Seq(Item) /\ Len(Content[c]) \in Nat
      /\ Videos(Content[c]) \subseteq 1..Len(Content[c]) /\ r.next # Len(Content[c])
  BY <1>1, <1>2, ChunkType, ContentType DEF Over
<1>4. r \in ReaderType /\ r.next \in Nat /\ r.file # 0 /\ r.data_index \in Int
      /\ r.data_index \in -1..(Len(r.headers) - 1)
  <2>1. r \in ReaderType  BY DEF ReaderOK
  <2>2. r.file # 0  BY <1>1, <1>3, ContentType DEF ReaderOK
  <2> QED  BY <2>1, <2>2 DEF ReaderOK, ReaderType
<1>5. PICK items : items = Items(r.datas)  OBVIOUS
<1>6. items = Content[c]  BY <1>1, <1>3, <1>5
<1>7. HandsOn(r, items, G)  BY <1>3, <1>5, <1>6, ForwardIs
<1>8. PICK u \in s..Len(Content[c]) :
        /\ G.got = SubSeq(Content[c], s, u)
        /\ G.r = Placed(r, r.data_index, c, u, Time(c, s))
        /\ u = NextVideo(Content[c], s)
  <2>1. IsVideo(Content[c][s])  BY <1>3 DEF Videos
  <2> QED  BY <1>1, <1>2, <1>6, <1>7, <2>1 DEF HandsOn, Time
<1>9. /\ u \in Nat /\ u < Len(Content[c]) => u + 1 \in Videos(Content[c])
      /\ \A i \in Videos(Content[c]) : i > s => i > u
  BY <1>3, <1>8, NextVideoIs
<1>10. u \in Nat /\ s \in Nat /\ s <= u /\ u <= Len(Content[c]) /\ 1 <= s  BY <1>3, <1>8
<1>11. /\ G.got # <<>> /\ G.got \in Seq(Item) /\ Videos(G.got) # {}
       /\ FirstVideo(G.got) = Time(c, s) /\ \A lv : LastVideo(G.got, lv) = Time(c, s)
  <2>1. PICK got : got = G.got  OBVIOUS
  <2>2. got = SubSeq(Content[c], s, u)  BY <1>8, <2>1
  <2> QED  BY ONLY <1>3, <1>8, <1>9, <2>1, <2>2, OneVideo
<1>12. PICK q : q = G.r  OBVIOUS
<1>13. /\ q.position = Time(c, s) /\ q.next = u /\ q.datas = c /\ SameLoaded(q, r)
  <2>1. q = Placed(r, r.data_index, c, u, Time(c, s))  BY <1>8, <1>12
  <2> QED  BY <1>1, <1>4, <2>1 DEF Placed, ReaderType, SameLoaded
<1>14. Time(c, s) \in Nat  BY <1>3, Spans
<1>15. Shown(q)
  <2>1. CASE Over(q)
    <3>1. u = Len(Content[c])  BY <1>13, <2>1 DEF Over
    <3>2. PICK v \in Videos(Content[c]) : End(c) = Time(c, v) /\ \A w \in Videos(Content[c]) : w <= v
      BY <1>3, Spans
    <3>3. v \in 1..Len(Content[c]) /\ s <= v  BY <1>3, <3>2
    <3>4. ~(v > s)  BY <1>3, <1>9, <1>10, <3>1, <3>2, <3>3
    <3>5. v = s  BY <1>10, <3>3, <3>4
    <3> QED  BY <1>3, <1>13, <2>1, <3>2, <3>5 DEF Shown
  <2>2. CASE ~Over(q)
    <3>1. u < Len(Content[c])  BY <1>3, <1>10, <1>13, <2>2 DEF Over
    <3> QED  BY <1>3, <1>9, <1>13, <2>2, <3>1 DEF Shown
  <2> QED  BY <2>1, <2>2
<1>16. Gone(q, Time(c, s))
  <2>1. ASSUME NEW v \in Videos(Content[c]) PROVE v <= u <=> Time(c, v) <= Time(c, s)
    <3>1. v \in 1..Len(Content[c]) /\ s \in 1..Len(Content[c])  BY <1>3
    <3>2. v <= s <=> Time(c, v) <= Time(c, s)  BY <1>3, <3>1, NotBefore
    <3>3. v <= u <=> v <= s  BY <1>9, <1>10, <3>1
    <3> QED  BY <3>2, <3>3
  <2> QED  BY <1>10, <1>13, <1>14, <2>1 DEF Gone
<1> QED  BY <1>1, <1>2, <1>11, <1>12, <1>13, <1>14, <1>15, <1>16 DEF Plays


\* What a call of GetNextData leaves; p2 is what is passed with it.
SameFile(q, r) ==
  q.file = r.file /\ q.size = r.size /\ q.headers = r.headers /\ q.file_list = r.file_list
SamePlace(q, r) == q.datas = r.datas /\ q.next = r.next /\ q.position = r.position
NextGoes(x, r, p, G, p2) ==
  /\ Ready(x, G.r, p2)
  /\ G.got = <<>> => Over(G.r) /\ Unread(G.r) /\ SamePlace(G.r, r)
  /\ G.got # <<>> =>
       \E t \in Nat : /\ Plays(G.r, G.got, t)
                      /\ \A l : Gone(r, l) => l < t /\ Unheard(p, l, t)

LEMMA NextReady ==
  ASSUME NEW n \in Nat, NEW r, ReaderOK(r, n), NEW x \in FileType, InOrder(x), x = files[r.file],
         Snapshot(x, r), NEW p, Ready(x, r, p), NEW G, G = GetNextData(r), NEW p2,
         p2 = IF G.got = <<>> /\ G.r.data_index # r.data_index
                THEN p \cup {r.headers[G.r.data_index + 1].chunk} ELSE p
  PROVE  NextGoes(x, r, p, G, p2)
<1>1. PICK c : c = r.datas  OBVIOUS
<1>2. /\ c \in Chunks /\ Items(c) = Content[c] /\ Len(Content[c]) \in Nat /\ Shown(r)
      /\ Lies(x, r) /\ Ahead(r) /\ ListFrom(r, r.file) /\ Coming(x, r, p) /\ c \in Nat
  BY <1>1, ChunkType, ContentType, Apart DEF Ready, Shown
<1>3. /\ r \in ReaderType /\ r.next \in Nat /\ r.data_index \in Int /\ Len(r.headers) \in Nat
      /\ r.data_index \in -1..(Len(r.headers) - 1) /\ r.position \in Nat
  BY DEF ReaderOK, ReaderType
<1>4. PICK items : items = Items(r.datas)  OBVIOUS
<1>5. /\ r.next # Len(items) => G = GetForwardData(r)
      /\ r.next = Len(items) /\ Len(r.headers) < r.data_index + 2 => G.got = <<>> /\ G.r = r
      /\ r.next = Len(items) /\ r.data_index + 2 <= Len(r.headers) => MovesOn(r, G)
  BY <1>4, NextDataIs
<1>6. items = Content[c]  BY <1>1, <1>2, <1>4
<1>7. ASSUME NEW l, Gone(r, l)
      PROVE  /\ Begin(c) <= l /\ l <= r.position /\ l \in Nat
             /\ Over(r) => End(c) <= l
             /\ \A v \in Videos(Content[c]) : v <= r.next <=> Time(c, v) <= l
  <2>1. /\ 1 <= r.next /\ l <= r.position /\ l \in Nat
        /\ \A v \in Videos(Content[c]) : v <= r.next <=> Time(c, v) <= l
    BY <1>1, <1>7 DEF Gone
  <2>2. 1 \in Videos(Content[c]) /\ Time(c, 1) = Begin(c)  BY <1>2, ChunkType, ContentType
  <2>3. Begin(c) <= l  BY <2>1, <2>2
  <2>4. ASSUME Over(r) PROVE End(c) <= l
    <3>1. PICK v \in Videos(Content[c]) : End(c) = Time(c, v)  BY <1>2, Spans
    <3>2. v \in 1..Len(Content[c]) /\ r.next = Len(Content[c])
      BY <1>1, <1>2, <2>4, <3>1, ContentType DEF Over
    <3>3. v <= r.next  BY <3>2
    <3> QED  BY <2>1, <3>1, <3>3
  <2> QED  BY <2>1, <2>3, <2>4
\* The next frame of the chunk.
<1>8. CASE ~Over(r)
  <2>1. G = GetForwardData(r) /\ r.next + 1 \in Videos(Content[c])
    BY <1>1, <1>2, <1>5, <1>6, <1>8 DEF Over, Shown
  <2>2. PICK t : t = Time(c, r.next + 1)  OBVIOUS
  <2>3. SameLoaded(G.r, r) /\ Plays(G.r, G.got, t)
    BY <1>1, <1>2, <1>8, <2>1, <2>2, NextOut
  <2>4. G.got # <<>> /\ t \in Nat /\ Shown(G.r)  BY <2>3 DEF Plays
  <2>5. Ready(x, G.r, p)  BY <2>3, <2>4, SameReady
  <2>6. ASSUME NEW l, Gone(r, l) PROVE l < t /\ Unheard(p, l, t)
    <3>1. /\ Begin(c) <= l /\ l \in Nat
          /\ \A v \in Videos(Content[c]) : v <= r.next <=> Time(c, v) <= l
      BY <1>7, <2>6
    <3>2. l < t  BY <1>3, <2>1, <2>2, <2>4, <3>1
    <3>3. ASSUME NEW e \in Chunks, NEW y \in Videos(Content[e]), l < Time(e, y), Time(e, y) < t
          PROVE  FALSE
      <4>1. /\ Begin(e) <= Time(e, y) /\ Time(e, y) <= End(e) /\ Begin(e) \in Nat
            /\ End(e) \in Nat /\ Time(e, y) \in Nat
        BY Spans
      <4>2. Begin(c) \in Nat /\ End(c) \in Nat /\ t <= End(c)  BY <1>2, <2>1, <2>2, Spans
      <4>3. /\ e \in Nat /\ (e < c => End(e) < Begin(c)) /\ (c < e => End(c) < Begin(e))
        BY <1>2, Apart
      <4>4. e = c  BY <1>2, <2>4, <3>1, <3>3, <4>1, <4>2, <4>3
      <4>5. y \in 1..Len(Content[c]) /\ r.next + 1 \in 1..Len(Content[c])
        BY <1>2, <2>1, <4>4, ContentType
      <4>6. y < r.next + 1  BY <1>2, <2>2, <3>3, <4>4, <4>5, NotBefore
      <4>7. y <= r.next  BY <1>2, <1>3, <4>5, <4>6
      <4>8. Time(c, y) <= l  BY <3>1, <4>4, <4>7
      <4> QED  BY <3>1, <3>3, <4>1, <4>4, <4>8
    <3> QED  BY <3>2, <3>3 DEF Unheard
  <2> QED  BY <2>3, <2>4, <2>5, <2>6 DEF NextGoes
\* No entry is left.
<1>9. CASE Over(r) /\ Len(r.headers) < r.data_index + 2
  <2>1. G.got = <<>> /\ G.r = r  BY <1>1, <1>5, <1>6, <1>9 DEF Over
  <2>2. p2 = p  BY <2>1
  <2>3. ASSUME NEW i \in 1..Len(r.headers) PROVE ~(i > r.data_index + 1)  BY <1>3, <1>9
  <2>4. Unread(r)  BY <2>3 DEF Unread
  <2> QED  BY <1>9, <2>1, <2>2, <2>4 DEF NextGoes, SamePlace
<1>10. CASE Over(r) /\ ~(Len(r.headers) < r.data_index + 2)
  <2>1. MovesOn(r, G)  BY <1>1, <1>3, <1>5, <1>6, <1>10 DEF Over
  <2>2. PICK i : i = r.data_index + 2  OBVIOUS
  <2>3. PICK d : d = r.headers[i].chunk  OBVIOUS
  <2>4. /\ i \in 1..Len(r.headers) /\ d \in Chunks /\ r.file # 0 /\ r.headers[i].own \in BOOLEAN
        /\ ~Readable(r.file, i, r.headers[i]) =>
             G.got = <<>> /\ G.r = Placed(r, i - 1, c, r.next, r.position)
        /\ Readable(r.file, i, r.headers[i]) =>
             G = GetForwardData(Placed(r, i - 1, d, 0, r.position))
    BY <1>1, <2>1, <2>2, <2>3 DEF MovesOn, EntryType
  <2>5. i \in Nat /\ d \in Nat /\ i - 1 \in -1..(Len(r.headers) - 1)  BY <1>3, <2>4, Apart
  <2>6. \A e \in Later(r, p) : \A j \in 1..Len(r.headers) :
          HasEntry(r, j, e) => j >= i /\ j \in Nat /\ x.stamp <= Begin(e)
    <3>1. ASSUME NEW e \in Later(r, p), NEW j \in 1..Len(r.headers), HasEntry(r, j, e)
          PROVE  j >= i /\ j \in Nat /\ x.stamp <= Begin(e)
      <4>1. Untried(r, j) /\ x.stamp <= Begin(e)  BY <1>2, <3>1 DEF Coming, Beyond
      <4>2. r.data_index + 1 # Len(r.headers)  BY <1>3, <1>10
      <4> QED  BY <1>3, <2>2, <4>1, <4>2 DEF Untried
    <3> QED  BY <3>1
\* The entry there cannot be read: it is passed.
  <2>7. CASE ~Readable(r.file, i, r.headers[i])
    <3>1. PICK q : q = G.r  OBVIOUS
    <3>2. G.got = <<>> /\ q = Placed(r, i - 1, c, r.next, r.position)  BY <2>4, <2>7, <3>1
    <3>3. /\ q.data_index = i - 1 /\ q.datas = c /\ SamePlace(q, r) /\ SameFile(q, r)
      BY <1>1, <1>3, <3>2 DEF Placed, ReaderType, SamePlace, SameFile
    <3>4. p2 = p \cup {d}
      <4>1. q.data_index # r.data_index /\ q.data_index + 1 = i  BY <1>3, <2>2, <2>5, <3>3
      <4> QED  BY <2>3, <3>1, <3>2, <4>1
    <3>5. Shown(q) /\ Over(q)  BY <1>2, <1>10, <3>3 DEF SamePlace, Shown, Over
    <3>6. Lies(x, q)  BY <1>2, <3>3 DEF SamePlace, SameFile, Lies, HasEntry
    <3>7. Ahead(q)
      <4>1. ASSUME NEW j \in 1..Len(r.headers), j > i, r.headers[j].own
            PROVE  r.headers[j].chunk > c
        <5>1. j > r.data_index + 1  BY <1>3, <2>2, <4>1
        <5> QED  BY <1>1, <1>2, <4>1, <5>1 DEF Ahead
      <4>2. i - 1 + 1 = i  BY <2>5
      <4> QED  BY <3>3, <4>1, <4>2 DEF Ahead, SameFile
    <3>8. ListFrom(q, q.file)  BY <1>2, <3>3 DEF SameFile, ListFrom
    <3>9. Later(q, p2) \subseteq Later(r, p) /\ d \notin Later(q, p2)
      BY <3>3, <3>4 DEF Later, SamePlace
    <3>10. Coming(x, q, p2)
      <4>1. ASSUME NEW e \in Later(q, p2), NEW j \in 1..Len(r.headers), HasEntry(r, j, e)
            PROVE  j > i
        <5>1. j >= i /\ j \in Nat  BY <2>6, <3>9, <4>1
        <5>2. j # i  BY <2>3, <3>9, <4>1 DEF HasEntry
        <5> QED  BY <2>5, <5>1, <5>2
      <4>2. Beyond(x, q, p2)  BY <1>2, <3>9 DEF Coming, Beyond
      <4>3. i - 1 + 1 = i  BY <2>5
      <4> QED  BY <3>3, <4>1, <4>2, <4>3 DEF Coming, Untried, SameFile, HasEntry
    <3>11. Unread(q)
      <4>1. ASSUME NEW j \in 1..Len(r.headers), j > i, r.headers[j].own
            PROVE  2 * j + 1 >= r.size
        <5>1. r.headers[i].own /\ j \in Nat
          <6>1. i \in 1..j  BY <2>4, <2>5, <4>1
          <6> QED  BY <4>1, <6>1, SnapshotIs
        <5>2. x.cells \in Nat /\ x.headed \in BOOLEAN  BY FileShape
        <5>3. ~(2 * i < x.cells)  BY <2>7, <5>1 DEF Readable
        <5>4. r.size <= SizeOf(x) /\ r.size \in Nat  BY <2>4, EntryIs DEF Snapshot, SnapshotOf
        <5>5. SizeOf(x) <= x.cells + 1 /\ SizeOf(x) \in Nat  BY <5>2 DEF SizeOf
        <5> QED  BY <2>5, <4>1, <5>1, <5>2, <5>3, <5>4, <5>5
      <4>2. i - 1 + 1 = i  BY <2>5
      <4> QED  BY <3>3, <4>1, <4>2 DEF Unread, SameFile
    <3> QED  BY <3>1, <3>2, <3>3, <3>5, <3>6, <3>7, <3>8, <3>10, <3>11 DEF NextGoes, Ready
\* It can: its first frame goes out.
  <2>8. CASE Readable(r.file, i, r.headers[i])
    <3>1. PICK q : q = Placed(r, i - 1, d, 0, r.position)  OBVIOUS
    <3>2. G = GetForwardData(q)  BY <2>4, <2>8, <3>1
    <3>3. /\ ReaderOK(q, n) /\ q.data_index = i - 1 /\ q.datas = d /\ q.next = 0
          /\ SameFile(q, r)
      <4>1. 0 <= Len(Items(d)) /\ 0 \in Nat /\ d \in Chunks \cup {0}  BY <2>4, ItemsType
      <4> QED  BY <1>3, <2>4, <2>5, <3>1, <4>1, PlacedOK DEF SameFile
    <3>4. /\ 1 \in Videos(Content[d]) /\ Time(d, 1) = Begin(d) /\ Len(Content[d]) # 0
      BY <2>4, ChunkType, ContentType
    <3>5. PICK t : t = Begin(d)  OBVIOUS
    <3>6. SameLoaded(G.r, q) /\ Plays(G.r, G.got, t)
      <4>1. q.datas \in Chunks /\ ~Over(q) /\ q.next + 1 = 1  BY <2>4, <3>3, <3>4 DEF Over
      <4>2. q.next + 1 \in Videos(Content[q.datas])  BY <3>3, <3>4, <4>1
      <4>3. SameLoaded(G.r, q) /\ Plays(G.r, G.got, Time(q.datas, q.next + 1))
        BY ONLY n \in Nat, <3>2, <3>3, <4>1, <4>2, NextOut
      <4> QED  BY <3>3, <3>4, <3>5, <4>1, <4>3
    <3>7. G.got # <<>> /\ t \in Nat /\ Shown(G.r)  BY <3>6 DEF Plays
    <3>8. r.headers[i].own  BY <2>8 DEF Readable
    <3>9. PICK g : g = G.r  OBVIOUS
    <3>10. Ready(x, g, p)
      <4>1. ReaderOK(g, n)  BY <3>9, NextDataOK
      <4>2. /\ g.headers = r.headers /\ g.data_index = i - 1 /\ g.datas = d /\ g.file = r.file
            /\ g.file_list = r.file_list /\ g.size = r.size
        BY <3>3, <3>6, <3>9 DEF SameLoaded, SameFile
      <4>3. Snapshot(x, g)  BY <4>2 DEF Snapshot, SnapshotOf
      <4>4. ListFrom(g, g.file)  BY <1>2, <4>2 DEF ListFrom
      <4>5. Shown(g)  BY <3>7, <3>9
      <4>6. i \in 1..Len(g.headers) /\ g.headers[i].own /\ g.datas = g.headers[i].chunk
        BY <2>3, <2>4, <3>8, <4>2
      <4> QED  BY ONLY x \in FileType, InOrder(x), <4>1, <4>2, <4>3, <4>4, <4>5, <4>6, LoadedReady
    <3>11. p2 = p  BY <3>7
    <3>12. ASSUME NEW l, Gone(r, l) PROVE l < t /\ Unheard(p, l, t)
      <4>1. End(c) <= l /\ l <= r.position /\ l \in Nat  BY <1>7, <1>10, <3>12
      <4>2. r.position = End(c)  BY <1>1, <1>2, <1>10 DEF Shown
      <4>3. c < d
        <5>1. i > r.data_index + 1  BY <1>3, <2>2
        <5>2. d > c  BY <1>1, <1>2, <2>3, <2>4, <3>8, <5>1 DEF Ahead
        <5> QED  BY <1>2, <2>5, <5>2
      <4>4. End(c) < Begin(d) /\ End(c) \in Nat /\ Begin(d) \in Nat  BY <1>2, <2>4, <4>3, Apart, Spans
      <4>5. l < t  BY <3>5, <4>1, <4>2, <4>4
      <4>6. ASSUME NEW e \in Chunks \ p, NEW y \in Videos(Content[e]), l < Time(e, y), Time(e, y) < t
            PROVE  FALSE
        <5>1. /\ Begin(e) <= Time(e, y) /\ Time(e, y) <= End(e) /\ Begin(e) \in Nat
              /\ End(e) \in Nat /\ Time(e, y) \in Nat /\ e \in Chunks
          BY Spans
        <5>2. /\ e \in Nat /\ (e < c => End(e) < End(c)) /\ (d < e => End(d) < Begin(e))
              /\ Begin(d) <= End(d) /\ End(d) \in Nat /\ Begin(c) \in Nat
          BY <1>2, <2>4, <5>1, Apart, Spans
        <5>3. ~(e < c) /\ e # c  BY <4>1, <4>4, <4>6, <5>1, <5>2
        <5>4. ~(d < e) /\ e # d  BY <3>5, <4>4, <4>6, <5>1, <5>2
        <5>5. c < e /\ e < d  BY <1>2, <2>5, <5>2, <5>3, <5>4
        <5>6. e \in Later(r, p)  BY <1>1, <1>2, <5>2, <5>5 DEF Later
        <5>7. x.stamp <= Begin(e)  BY <1>2, <5>6 DEF Coming, Beyond
        <5>8. PICK j \in 1..i : HasEntry(r, j, e) /\ j = e - FirstOf(x) + 1
          <6>1. e <= r.headers[i].chunk  BY <2>3, <2>5, <5>2, <5>5
          <6> QED  BY <2>4, <3>8, <5>1, <5>7, <6>1, EntryAt
        <5>9. j \in 1..Len(r.headers)  BY <1>3, <2>4, <5>8
        <5>10. j >= i  BY <2>6, <5>6, <5>8, <5>9
        <5>11. j = i  BY <2>5, <5>8, <5>10
        <5>12. e = d  BY <2>3, <5>8, <5>11 DEF HasEntry
        <5> QED  BY <5>4, <5>12
      <4> QED  BY <4>5, <4>6 DEF Unheard
    <3> QED  BY <3>6, <3>7, <3>9, <3>10, <3>11, <3>12 DEF NextGoes
  <2> QED  BY <2>7, <2>8
<1> QED  BY <1>8, <1>9, <1>10

-----------------------------------------------------------------------------
(***************************************************************************)
(* The invariant: what holds where a call is, if the reader goes forwards  *)
(* from a Seek that found its place.                                       *)
(***************************************************************************)
\* Between calls, and where the file is read on.
Calm(x, r, p, playing, l) == Ready(x, r, p) /\ (playing => Gone(r, l))

\* At the end of what is loaded, on the way to something newer.
Ended(r, playing, l) == Shown(r) /\ Over(r) /\ (playing => Gone(r, l))

\* m: what was not on the disk when the reader left its file.
Missed(fs, r, p, m) ==
  \A e \in Later(r, p) : e \in m \/ \E h \in 1..Len(fs) : h > r.file /\ Holds(fs[h], e)

\* On the way to the file x, which is number g.
Towards(x, r, g, p) == End(r.datas) <= x.stamp /\ ListFrom(r, g) /\ Beyond(x, r, p)

\* At the frame that is handed out next.
Landed(x, r, p, playing, l) ==
  /\ Ready(x, r, p) /\ ~Over(r) /\ r.position = Time(r.datas, r.next + 1)
  /\ playing => l <= r.position /\ Unheard(p, l, r.position)

LoneIn(fs, t) == Frames({ChunkOf(t)}) = {t} /\ \E f \in 1..Len(fs) : fs[f].stamp = t

SteadyAt(fs, at, r, k, p, playing, l) ==
  /\ at \in {"idle", "skip", "next", "grown", "nextfile"} => Calm(fs[r.file], r, p, playing, l)
  /\ at = "grown" => Over(r) /\ Unread(r)
  /\ at = "nextfile" => Over(r) /\ Missed(fs, r, p, k.missing)
  /\ at \in {"reload", "opennext", "loadnext"} => Ended(r, playing, l)
  /\ at = "reload" =>
       Lies(fs[r.file], r) /\ ListFrom(r, r.file) /\ Beyond(fs[r.file], r, p)
  /\ at \in {"opennext", "loadnext"} => Towards(fs[k.file], r, k.file, p)
  /\ at = "loadnext" => r.file = k.file
  /\ at \in {"retake", "take"} => Landed(fs[r.file], r, p, playing, l)
  /\ at = "take" /\ playing => l < r.position \/ LoneIn(fs, r.position)

Playing == status = "playing" /\ ~astray
Straight == (status # "none" /\ ~astray) \/ (call.op = "seek" /\ call.found)
Steady == Straight => SteadyAt(files, pc, reader, call, passed, Playing, Heard)

\* The index the reader has is a snapshot of its file's.
Parsing == reader.file # 0 => Snapshot(files[reader.file], reader)

\* A Seek forwards goes from file to file without a gap.
Listing ==
  /\ pc = "open" /\ call.dir = "Next" => \E g \in Int : ListFrom(reader, g)
  /\ pc = "load" /\ call.dir = "Next" => ListFrom(reader, reader.file)

Roles ==
  /\ pc = "idle" => call = NoCall
  /\ pc \in Seeks => call.op = "seek"
  /\ pc \in {"list", "open", "load"} => ~call.found
  /\ pc \in Nexts => call.op \in {"next", "seek"}
  /\ pc \in Prevs => call.op = "prev" /\ astray
  /\ call.op = "seek" /\ call.type = "Prev" => astray

\* What was handed out forwards, the one frame of it, agrees with what is known of it.
Told ==
  /\ status # "playing" => handed = NoItems
  /\ ~astray /\ handed.by \in {"next", "again"} =>
       /\ Videos(handed.items) # {} /\ FirstVideo(handed.items) = Heard
       /\ before < Heard \/ (before = Heard /\ (handed.by = "again" \/ LoneIn(files, Heard)))
       /\ before # 0 => Unheard(passed, before, Heard)

StraightInv == Ordered /\ Parsing /\ Listing /\ Roles /\ Steady /\ Told

\* The initial state, and what does not depend on the step that is taken.
LEMMA InitStraight == Init => StraightInv
<1> SUFFICES ASSUME Init PROVE StraightInv  OBVIOUS
<1>1. /\ files = <<>> /\ reader = NewReader /\ pc = "idle" /\ call = NoCall /\ status = "none"
      /\ handed = NoItems /\ ~astray
  BY DEF Init
<1>2. Ordered
  <2>1. files \in Seq(FileType) /\ Len(files) = 0 /\ 1..0 = {}  BY <1>1
  <2> QED  BY <2>1 DEF Ordered, OrderOf, Last
<1>3. Parsing  BY <1>1 DEF Parsing, NewReader
<1>4. Listing  BY <1>1 DEF Listing
<1>5. Roles  BY <1>1 DEF Roles, NoCall, Seeks, Nexts, Prevs
<1>6. Steady  BY <1>1 DEF Steady, Straight, NoCall
<1>7. Told  BY <1>1 DEF Told, NoItems
<1> QED  BY <1>2, <1>3, <1>4, <1>5, <1>6, <1>7 DEF StraightInv

LEMMA OrderedStays ==
  ASSUME Ordered, UNCHANGED writerVars
  PROVE  Ordered'
BY DEF Ordered, Last, writerVars

LEMMA SnapshotSame ==
  ASSUME NEW x, NEW r, NEW q, Snapshot(x, r), q.headers = r.headers, q.size = r.size
  PROVE  Snapshot(x, q)
<1>1. PICK k \in 0..Len(r.headers) : SnapshotOf(x, r, k)  BY DEF Snapshot
<1>2. SnapshotOf(x, q, k)  BY <1>1 DEF SnapshotOf
<1> QED  BY <1>1, <1>2 DEF Snapshot

LEMMA UnheardGrows ==
  ASSUME NEW p, NEW p2, p \subseteq p2, NEW l, NEW t, Unheard(p, l, t)
  PROVE  Unheard(p2, l, t)
BY DEF Unheard

\* A call that goes on with what it was called for.
Onto(at) ==
  /\ pc' = at
  /\ call'.op = call.op /\ call'.type = call.type /\ call'.found = call.found
  /\ UNCHANGED <<status, historyVars>>
StillTold ==
  ~astray /\ handed.by \in {"next", "again"} /\ before # 0 => Unheard(passed', before, Heard)

LEMMA StillToldThen ==
  ASSUME Told, passed \subseteq passed'
  PROVE  StillTold
BY UnheardGrows DEF Told, StillTold

LEMMA ToldStays ==
  ASSUME Told, StillTold, UNCHANGED <<writerVars, handed, before>>,
         status' = status \/ handed = NoItems, astray' = astray \/ handed = NoItems
  PROVE  Told'
<1>1. CASE handed = NoItems
  <2>1. handed' = NoItems /\ handed'.by = "none"  BY <1>1 DEF NoItems
  <2> QED  BY <2>1 DEF Told
<1>2. CASE handed # NoItems
  <2>1. status' = status /\ astray' = astray /\ handed' = handed /\ before' = before /\ files' = files
    BY <1>2 DEF writerVars
  <2>2. Heard' = Heard  BY <2>1 DEF Heard
  <2> QED  BY <2>1, <2>2 DEF Told, StillTold
<1> QED  BY <1>1, <1>2

LEMMA GoesOnto ==
  ASSUME NEW at, Goes(at)
  PROVE  Onto(at)
BY DEF Goes, Onto

LEMMA OntoSteady ==
  ASSUME StraightInv, NEW at, Onto(at), UNCHANGED writerVars, pc \in Nexts \cup {"skip"},
         at \in Nexts \cup {"skip"}, at = "skip" => call.op = "seek",
         Snapshot(files[reader'.file], reader'), StillTold,
         Straight => SteadyAt(files, at, reader', call', passed', Playing, Heard)
  PROVE  StraightInv'
<1>1. /\ pc' = at /\ call'.op = call.op /\ call'.type = call.type /\ call'.found = call.found
      /\ status' = status /\ handed' = handed /\ before' = before /\ astray' = astray
      /\ files' = files
  BY DEF Onto, historyVars, writerVars
<1>2. Ordered'  BY OrderedStays DEF StraightInv
<1>3. Parsing'  BY <1>1 DEF Parsing
<1>4. Listing'  BY <1>1 DEF Listing, Nexts
<1>5. Roles'  BY <1>1 DEF Roles, StraightInv, Seeks, Nexts, Prevs
<1>6. Steady'  BY <1>1 DEF Steady, Straight, Playing, Heard
<1>7. Told'  BY <1>1, ToldStays DEF StraightInv
<1> QED  BY <1>2, <1>3, <1>4, <1>5, <1>6, <1>7 DEF StraightInv

\* What the call that is under way gives, of the frame at t.
Gives(by, p, l, t) ==
  (l < t \/ (l = t /\ (by = "again" \/ LoneIn(files, t)))) /\ Unheard(p, l, t)

\* It returns a frame that is at hand, or nothing.
LEMMA NextReturnsSteady ==
  ASSUME Inv, PlayInv, StraightInv, pc \in Nexts, NEW by \in {"next", "again"}, NEW items,
         NextReturns(by, items), UNCHANGED writerVars,
         Snapshot(files[reader'.file], reader'), StillTold,
         NEW x, x = files[reader'.file],
         Straight /\ items = <<>> => Calm(x, reader', passed', Playing, Heard),
         Straight /\ items # <<>> =>
           /\ Ready(x, reader', passed')
           /\ \E t \in Nat : Plays(reader', items, t) /\ (Playing => Gives(by, passed', Heard, t))
  PROVE  StraightInv'
<1>1. Ordered'  BY OrderedStays DEF StraightInv
<1>2. Parsing'  BY DEF Parsing, writerVars
<1>3. files' = files  BY DEF writerVars
<1>4. Told  BY DEF StraightInv
<1>5. call.op = "next" \/ (call.op = "seek" /\ call.op # "next")  BY DEF StraightInv, Roles
<1>6. CASE call.op = "next"
  <2>1. Returns(by, items)  BY <1>6 DEF NextReturns
  <2>2. status = "playing" /\ status # "none"  BY <1>6 DEF PlayInv, Calling
  <2>3. pc' = "idle" /\ call' = NoCall /\ astray' = astray  BY <2>1 DEF Returns
  <2>4. Straight <=> ~astray  BY <1>6, <2>2 DEF Straight
  <2>5. Playing <=> ~astray  BY <2>2 DEF Playing
  <2>6. Listing' /\ Roles'  BY <2>3 DEF Listing, Roles, Seeks, Nexts, Prevs, NoCall
  <2>7. CASE items = <<>>
    <3>1. status' = status /\ handed' = handed /\ before' = before  BY <2>1, <2>7 DEF Returns
    <3>2. Told'  BY <1>4, <2>3, <3>1, ToldStays
    <3>3. Heard' = Heard /\ (Playing' <=> Playing)  BY <2>3, <3>1 DEF Heard, Playing
    <3>4. Straight' => Straight  BY <2>2, <2>3, <2>4, <3>1 DEF Straight, NoCall
    <3>5. Steady'  BY <1>3, <2>3, <2>7, <3>3, <3>4 DEF Steady, SteadyAt, Calm
    <3> QED  BY <1>1, <1>2, <2>6, <3>2, <3>5 DEF StraightInv
  <2>8. CASE items # <<>>
    <3>1. status' = "playing" /\ handed' = [by |-> by, items |-> items] /\ before' = Heard
      BY <2>1, <2>8 DEF Returns, Heard
    <3>2. handed'.by = by /\ handed'.items = items  BY <3>1
    <3>3. CASE astray
      <4>1. ~Straight'  BY <2>3, <3>3 DEF Straight, NoCall
      <4>2. Steady'  BY <4>1 DEF Steady
      <4>3. Told'  BY <2>3, <3>1, <3>3 DEF Told
      <4> QED  BY <1>1, <1>2, <2>6, <4>2, <4>3 DEF StraightInv
    <3>4. CASE ~astray
      <4>1. PICK t \in Nat : Plays(reader', items, t) /\ Gives(by, passed', Heard, t)
        BY <2>4, <2>5, <2>8, <3>4
      <4>2. Heard' = t  BY <3>1, <3>2, <4>1 DEF Heard, Plays
      <4>3. Videos(handed'.items) # {} /\ FirstVideo(handed'.items) = t
        BY <3>2, <4>1 DEF Plays
      <4>4. Told'  BY <1>3, <3>1, <3>2, <4>1, <4>2, <4>3 DEF Told, Gives
      <4>5. Ready(x, reader', passed') /\ Gone(reader', t)  BY <2>4, <2>8, <3>4, <4>1 DEF Plays
      <4>6. Steady'  BY <1>3, <2>3, <4>2, <4>5 DEF Steady, SteadyAt, Calm
      <4> QED  BY <1>1, <1>2, <2>6, <4>4, <4>6 DEF StraightInv
    <3> QED  BY <3>3, <3>4
  <2> QED  BY <2>7, <2>8
<1>7. CASE call.op = "seek" /\ call.op # "next"
  <2>1. status = "none"  BY <1>7 DEF PlayInv, Calling
  <2>2. CASE items # <<>>
    <3>1. Goes("skip")  BY <1>7, <2>2 DEF NextReturns
    <3>2. SteadyAt(files, "skip", reader', call', passed', Playing, Heard) \/ ~Straight
      BY <2>1, <2>2 DEF SteadyAt, Calm, Playing
    <3> QED  BY <1>7, <3>1, <3>2, GoesOnto, OntoSteady
  <2>3. CASE items = <<>>
    <3>1. /\ pc' = "idle" /\ call' = NoCall /\ status' = "none" /\ handed' = handed
          /\ before' = before /\ astray' = astray
      BY <1>7, <2>1, <2>3 DEF NextReturns, historyVars
    <3>2. Listing' /\ Roles'  BY <3>1 DEF Listing, Roles, Seeks, Nexts, Prevs, NoCall
    <3>3. Steady'  BY <3>1 DEF Steady, Straight, NoCall
    <3>4. Told'  BY <1>4, <2>1, <3>1, ToldStays
    <3> QED  BY <1>1, <1>2, <3>2, <3>3, <3>4 DEF StraightInv
  <2> QED  BY <2>2, <2>3
<1> QED  BY <1>5, <1>6, <1>7

\* What holds in the course of GetNextData.
LEMMA InNext ==
  ASSUME Inv, PlayInv, StraightInv, UNCHANGED writerVars, pc \in Nexts
  PROVE  /\ Ordered /\ Last \in Nat /\ files \in Seq(FileType) /\ FilesInv /\ CallInv
         /\ OrderOf(files) /\ Last = Len(files) /\ Told
         /\ ReaderOK(reader, Last) /\ reader.file \in 1..Last /\ reader.datas \in Chunks
         /\ reader.position \in Nat /\ passed \subseteq Chunks
         /\ files[reader.file] \in FileType /\ InOrder(files[reader.file])
         /\ Snapshot(files[reader.file], reader)
         /\ Straight => SteadyAt(files, pc, reader, call, passed, Playing, Heard)
<1>1. /\ FilesInv /\ CallInv /\ Last \in Nat /\ files \in Seq(FileType)
      /\ ReaderOK(reader, Last) /\ reader.datas # 0 /\ reader.file \in 1..Last
      /\ reader.file # 0
  BY InPlay
<1>2. reader.datas \in Chunks /\ reader.position \in Nat  BY <1>1 DEF ReaderOK, ReaderType
<1>3. passed \subseteq Chunks  BY DEF Inv, HistoryInv
<1>4. Ordered /\ OrderOf(files) /\ Last = Len(files) /\ Told  BY DEF StraightInv, Ordered, Last
<1>5. files[reader.file] \in FileType /\ InOrder(files[reader.file])  BY <1>1, <1>4, FilesAre
<1>6. Snapshot(files[reader.file], reader)  BY <1>1 DEF StraightInv, Parsing
<1>7. Straight => SteadyAt(files, pc, reader, call, passed, Playing, Heard)
  BY DEF StraightInv, Steady
<1> QED  BY <1>1, <1>2, <1>3, <1>4, <1>5, <1>6, <1>7

LEMMA SamePlaceGone ==
  ASSUME NEW r, NEW q, SamePlace(q, r), NEW l
  PROVE  /\ Gone(q, l) <=> Gone(r, l)
         /\ Shown(q) <=> Shown(r)
         /\ Over(q) <=> Over(r)
BY DEF SamePlace, Gone, Shown, Over

LEMMA NextInFileSteady ==
  ASSUME Inv, PlayInv, StraightInv, NextInFile
  PROVE  StraightInv'
<1>1. PICK G : G = GetNextData(reader)  OBVIOUS
<1>2. /\ pc = "next" /\ reader' = G.r /\ UNCHANGED writerVars
      /\ IF G.got # <<>> THEN NextReturns("next", G.got) ELSE Goes("grown")
      /\ passed' = IF G.got = <<>> /\ G.r.data_index # reader.data_index
                     THEN passed \cup {reader.headers[G.r.data_index + 1].chunk} ELSE passed
  BY <1>1 DEF NextInFile
<1>3. pc \in Nexts  BY <1>2 DEF Nexts
<1>4. PICK x : x = files[reader.file]  OBVIOUS
<1>5. /\ Last \in Nat /\ ReaderOK(reader, Last) /\ x \in FileType /\ InOrder(x)
      /\ Snapshot(x, reader) /\ Told
      /\ Straight => SteadyAt(files, pc, reader, call, passed, Playing, Heard)
  BY <1>2, <1>3, <1>4, InNext
<1>6. G.r.file = reader.file /\ G.r.headers = reader.headers /\ G.r.size = reader.size
  BY <1>1, <1>5, NextDataOK
<1>7. Snapshot(x, G.r)  BY <1>5, <1>6, SnapshotSame
<1>8. StillTold  BY <1>2, <1>5, StillToldThen
<1>9. Straight => /\ NextGoes(x, reader, passed, G, passed')
                  /\ Playing => Gone(reader, Heard)
  <2>1. Straight => Calm(x, reader, passed, Playing, Heard)
    BY <1>2, <1>4, <1>5 DEF SteadyAt
  <2>2. Straight => Ready(x, reader, passed) /\ (Playing => Gone(reader, Heard))
    BY <2>1 DEF Calm
  <2> QED  BY <1>1, <1>2, <1>4, <1>5, <2>2, NextReady
<1>10. CASE G.got # <<>>
  <2>1. NextReturns("next", G.got) /\ passed' = passed  BY <1>2, <1>10
  <2>2. Straight => /\ Ready(x, G.r, passed')
                    /\ \E t \in Nat : Plays(G.r, G.got, t) /\ (Playing => Gives("next", passed', Heard, t))
    BY <1>9, <1>10, <2>1 DEF NextGoes, Gives
  <2> QED  BY <1>2, <1>3, <1>4, <1>6, <1>7, <1>8, <1>10, <2>1, <2>2, NextReturnsSteady
<1>11. CASE G.got = <<>>
  <2>1. Goes("grown")  BY <1>2, <1>11
  <2>2. Straight => /\ Ready(x, G.r, passed') /\ Over(G.r) /\ Unread(G.r)
                    /\ Playing => Gone(G.r, Heard)
    BY <1>9, <1>11, SamePlaceGone DEF NextGoes
  <2>3. Straight => SteadyAt(files, "grown", reader', call', passed', Playing, Heard)
    BY <1>2, <1>4, <1>6, <2>2 DEF SteadyAt, Calm
  <2>4. Onto("grown")  BY <2>1, GoesOnto
  <2> QED  BY <1>2, <1>3, <1>4, <1>6, <1>7, <1>8, <2>3, <2>4, OntoSteady DEF Nexts
<1> QED  BY <1>10, <1>11

\* A file that was parsed just now.
LEMMA OpenedIs ==
  ASSUME Ordered, files \in Seq(FileType), NEW q, NEW r, NEW f \in 1..Last, Opened(q, r, f),
         NEW x, x = files[f]
  PROVE  /\ Snapshot(x, q) /\ SamePlace(q, r) /\ q.file = f /\ q.file_list = r.file_list
         /\ x.headed => \A i \in 1..Len(x.own) : i \in 1..Len(q.headers) /\ HasEntry(q, i, x.own[i])
         /\ ~x.headed => q.headers = <<>>
         /\ q.data_index = Len(q.headers) - 1
<1>1. x \in FileType /\ InOrder(x)  BY FilesAre DEF Ordered, Last
<1>2. /\ x.own \in Seq(Chunks) /\ Len(x.own) \in Nat /\ x.headed \in BOOLEAN
      /\ SizeOf(x) <= 2 * Len(x.own) + 2 /\ SizeOf(x) \in Nat
      /\ \A i \in 1..Len(x.own) : x.own[i] = FirstOf(x) + i - 1
      /\ ~x.headed => x.own = <<>>
  BY <1>1, FileShape, OrderIs DEF InOrder
<1>3. /\ q.size = SizeOf(x) /\ q.headers = (IF x.headed THEN Entries(f) ELSE <<>>)
      /\ q.file = f /\ q.file_list = r.file_list /\ q.data_index = Len(q.headers) - 1
      /\ SamePlace(q, r)
  BY DEF Opened, FileSize, SizeOf, Parsed, SamePlace
<1>4. /\ Entries(f) \in Seq(EntryType)
      /\ Len(Entries(f)) = IF Len(x.left) > Len(x.own) THEN Len(x.left) ELSE Len(x.own)
      /\ \A i \in 1..Len(Entries(f)) :
           /\ Entries(f)[i].chunk = IF i <= Len(x.own) THEN x.own[i] ELSE x.left[i]
           /\ Entries(f)[i].own <=> i <= Len(x.own)
  BY EntriesType
<1>5. CASE x.headed
  <2>1. q.headers = Entries(f)  BY <1>3, <1>5
  <2>2. Len(Entries(f)) \in Nat /\ Len(x.own) \in 0..Len(Entries(f))
    <3>1. Len(Entries(f)) \in Nat  BY <1>4
    <3>2. CASE Len(x.left) > Len(x.own)
      <4>1. Len(Entries(f)) = Len(x.left)  BY <1>4, <3>2
      <4> QED  BY <1>2, <3>1, <3>2, <4>1
    <3>3. CASE ~(Len(x.left) > Len(x.own))
      <4>1. Len(Entries(f)) = Len(x.own)  BY <1>4, <3>3
      <4> QED  BY <1>2, <4>1
    <3> QED  BY <3>2, <3>3
  <2>3. ASSUME NEW i \in 1..Len(q.headers)
        PROVE  /\ q.headers[i].own <=> i <= Len(x.own)
               /\ i <= Len(x.own) => q.headers[i].chunk = x.own[i]
    BY <1>4, <2>1, <2>3
  <2>4. \A i \in 1..Len(x.own) : i \in 1..Len(q.headers) /\ HasEntry(q, i, x.own[i])
    BY <2>1, <2>2, <2>3 DEF HasEntry
  <2>5. SnapshotOf(x, q, Len(x.own))  BY <1>2, <1>3, <2>1, <2>2, <2>3 DEF SnapshotOf
  <2>6. Snapshot(x, q)  BY <2>1, <2>2, <2>5 DEF Snapshot
  <2> QED  BY <1>3, <1>5, <2>4, <2>6
<1>6. CASE ~x.headed
  <2>1. q.headers = <<>> /\ Len(q.headers) = 0 /\ 0 \in 0..0  BY <1>3, <1>6
  <2>2. SnapshotOf(x, q, 0)  BY <1>2, <1>3, <1>6, <2>1 DEF SnapshotOf, SizeOf
  <2>3. Snapshot(x, q)  BY <2>1, <2>2 DEF Snapshot
  <2> QED  BY <1>3, <1>6, <2>1, <2>3
<1> QED  BY <1>2, <1>5, <1>6

\* A reader that has nothing left in a file that has not grown misses only what is not on the disk,
\* and what other files, later ones, have.
LEMMA LeftBehind ==
  ASSUME Ordered, Last \in Nat, NEW r, ReaderOK(r, Last), r.file \in 1..Last, NEW x, x = files[r.file],
         Snapshot(x, r), NEW p, Coming(x, r, p), Unread(r), FileSize(r.file) <= r.size,
         NEW m, m = Chunks \ OnDisk
  PROVE  Missed(files, r, p, m)
<1> SUFFICES ASSUME NEW e \in Later(r, p), e \notin m
             PROVE  \E h \in 1..Len(files) : h > r.file /\ Holds(files[h], e)
  BY DEF Missed
<1>1. e \in Chunks /\ e \in OnDisk  BY DEF Later
<1>2. PICK f \in 1..Last, i \in Chunks :
        i <= Len(files[f].own) /\ files[f].own[i] = e /\ 2 * i < files[f].cells
  BY <1>1 DEF OnDisk
<1>3. /\ Last = Len(files) /\ files[f] \in FileType /\ InOrder(files[f]) /\ x \in FileType
      /\ InOrder(x)
  BY FilesAre DEF Ordered, Last
<1>4. /\ Len(files[f].own) \in Nat /\ files[f].cells \in Nat /\ files[f].headed \in BOOLEAN
      /\ files[f].own \in Seq(Chunks) /\ FirstOf(files[f]) \in Nat
      /\ UntilOf(files[f]) = FirstOf(files[f]) + Len(files[f].own)
      /\ FirstOf(x) \in Nat /\ FirstOf(x) \in Chunks /\ x.stamp = Begin(FirstOf(x))
  BY <1>3, FileShape, OrderIs
<1>5. i \in Nat /\ i >= 1 /\ e \in Nat  BY <1>1, Apart, ConstantTypes DEF Chunks
<1>6. e = FirstOf(files[f]) + i - 1
  <2>1. i \in 1..Len(files[f].own)  BY <1>2, <1>4, <1>5
  <2> QED  BY <1>2, <1>3, <2>1 DEF InOrder
<1>7. Holds(files[f], e)  BY <1>2, <1>4, <1>5, <1>6 DEF Holds
<1>8. f \in Nat /\ r.file \in Nat  BY DEF ReaderOK, ReaderType
<1>9. CASE f > r.file  BY <1>3, <1>7, <1>9
<1>10. CASE f = r.file
  <2>1. PICK k \in 0..Len(r.headers) : SnapshotOf(x, r, k)  BY DEF Snapshot
  <2>2. x.headed
    <3>1. files[f].own # <<>>  BY <1>2, <1>4, <1>5
    <3> QED  BY <1>3, <1>10, <3>1 DEF InOrder
  <2>3. x.cells + 1 <= r.size  BY <1>10, <2>2 DEF FileSize
  <2>4. r.size <= 2 * k + 2 /\ r.size \in Nat /\ Len(r.headers) \in Nat
    BY <2>1 DEF SnapshotOf, ReaderOK, ReaderType
  <2>5. 2 * i < x.cells /\ x.cells \in Nat  BY <1>2, <1>4, <1>10
  <2>6. i <= k /\ 2 * i + 1 < r.size  BY <1>5, <2>3, <2>4, <2>5
  <2>7. i \in 1..Len(r.headers)  BY <1>5, <2>4, <2>6
  <2>8. HasEntry(r, i, e)  BY <1>6, <1>10, <2>1, <2>6, <2>7 DEF HasEntry, SnapshotOf
  <2>9. Untried(r, i)  BY <2>7, <2>8 DEF Coming
  <2>10. r.headers[i].own  BY <2>8 DEF HasEntry
  <2>11. 2 * i + 1 >= r.size  BY <2>7, <2>9, <2>10 DEF Untried, Unread
  <2> QED  BY <1>5, <2>4, <2>6, <2>11
<1>11. CASE f < r.file
  <2>1. UntilOf(files[f]) <= FirstOf(x)  BY <1>3, <1>11 DEF Ordered, OrderOf, Before
  <2>2. e < FirstOf(x)  BY <1>4, <1>5, <1>7, <2>1 DEF Holds
  <2>3. Begin(e) < x.stamp  BY <1>1, <1>4, <2>2, Apart
  <2>4. x.stamp <= Begin(e)  BY DEF Coming, Beyond
  <2>5. Begin(e) \in Nat /\ x.stamp \in Nat  BY <1>1, <1>4, Spans
  <2> QED  BY <2>3, <2>4, <2>5
<1> QED  BY <1>8, <1>9, <1>10, <1>11

\* What was passed and is behind the position is no longer passed.
LEMMA PassedAgain ==
  ASSUME NEW x \in FileType, NEW pos \in Nat, NEW p, p \subseteq Chunks, NEW p2,
         p2 = {c \in p : Begin(c) < Greatest({x.stamp, pos + 1})}
  PROVE  \A e \in Chunks \ p2 : e \notin p \/ (x.stamp <= Begin(e) /\ pos < Begin(e))
<1>1. x.stamp \in Nat  BY FileShape
<1>2. PICK S, n : S = {x.stamp, pos + 1} /\ n = x.stamp + pos + 1  OBVIOUS
<1>3. S \subseteq Nat /\ S # {} /\ n \in Nat /\ \A y \in S : y <= n  BY <1>1, <1>2
<1>4. Greatest(S) \in S /\ \A y \in S : Greatest(S) >= y  BY <1>3, GreatestIs
<1>5. Greatest(S) \in Nat /\ Greatest(S) >= x.stamp /\ Greatest(S) >= pos + 1
  BY <1>2, <1>3, <1>4
<1> SUFFICES ASSUME NEW e \in Chunks, e \notin p2, e \in p
             PROVE  x.stamp <= Begin(e) /\ pos < Begin(e)
  OBVIOUS
<1>6. ~(Begin(e) < Greatest(S))  BY <1>2
<1>7. Begin(e) \in Nat  BY Spans
<1> QED  BY <1>1, <1>5, <1>6, <1>7

LEMMA NotGrownSteady ==
  ASSUME Inv, PlayInv, StraightInv, NextIfGrown, FileSize(reader.file) <= reader.size
  PROVE  StraightInv'
<1>1. /\ pc = "grown" /\ pc' = "nextfile" /\ reader' = reader /\ passed' = passed
      /\ call' = [call EXCEPT !.missing = Chunks \ OnDisk]
      /\ UNCHANGED <<status, historyVars>> /\ UNCHANGED writerVars
  BY DEF NextIfGrown
<1>2. pc \in Nexts /\ call \in CallType  BY <1>1 DEF Nexts, Inv, CallInv
<1>3. PICK x : x = files[reader.file]  OBVIOUS
<1>4. /\ Ordered /\ Last \in Nat /\ ReaderOK(reader, Last) /\ reader.file \in 1..Last
      /\ Snapshot(x, reader) /\ Told
      /\ Straight => SteadyAt(files, pc, reader, call, passed, Playing, Heard)
  BY <1>1, <1>2, <1>3, InNext
<1>5. /\ call'.op = call.op /\ call'.type = call.type /\ call'.found = call.found
      /\ call'.missing = Chunks \ OnDisk
  BY <1>1, <1>2 DEF CallType
<1>6. Onto("nextfile")  BY <1>1, <1>5 DEF Onto
<1>7. StillTold  BY <1>1, <1>4, StillToldThen
<1>8. Straight => SteadyAt(files, "nextfile", reader', call', passed', Playing, Heard)
  <2> SUFFICES ASSUME Straight
               PROVE  SteadyAt(files, "nextfile", reader', call', passed', Playing, Heard)
    OBVIOUS
  <2>1. Calm(x, reader, passed, Playing, Heard) /\ Over(reader) /\ Unread(reader)
    BY <1>1, <1>3, <1>4 DEF SteadyAt
  <2>2. Coming(x, reader, passed)  BY <2>1 DEF Calm, Ready
  <2>3. Missed(files, reader, passed, call'.missing)  BY <1>3, <1>4, <1>5, <2>1, <2>2, LeftBehind
  <2> QED  BY <1>1, <1>3, <2>1, <2>3 DEF SteadyAt
<1> QED  BY <1>1, <1>2, <1>3, <1>4, <1>6, <1>7, <1>8, OntoSteady DEF Nexts

LEMMA GrownSteady ==
  ASSUME Inv, PlayInv, StraightInv, NextIfGrown, ~(FileSize(reader.file) <= reader.size)
  PROVE  StraightInv'
<1>1. PICK f, x, q : f = reader.file /\ x = files[f] /\ q = ParseHeader(reader, f)  OBVIOUS
<1>2. /\ pc = "grown" /\ reader' = q /\ UNCHANGED writerVars
      /\ IF Parsed(f) THEN Goes("reload") ELSE NextReturns("again", <<>>)
      /\ passed' = {c \in passed : Begin(c) < Greatest({x.stamp, reader.position + 1})}
  BY <1>1 DEF NextIfGrown, Stamp
<1>3. pc \in Nexts  BY <1>2 DEF Nexts
<1>4. /\ Ordered /\ Last \in Nat /\ files \in Seq(FileType) /\ FilesInv
      /\ ReaderOK(reader, Last) /\ f \in 1..Last /\ reader.datas \in Chunks
      /\ reader.position \in Nat /\ passed \subseteq Chunks /\ x \in FileType /\ InOrder(x)
      /\ Snapshot(x, reader) /\ Told
      /\ Straight => SteadyAt(files, pc, reader, call, passed, Playing, Heard)
  BY <1>1, <1>2, <1>3, InNext
<1>5. Opened(q, reader, f)  BY <1>1, <1>4, OpenedOK
<1>6. /\ Snapshot(x, q) /\ SamePlace(q, reader) /\ q.file = f /\ q.file_list = reader.file_list
      /\ x.headed => \A i \in 1..Len(x.own) : i \in 1..Len(q.headers) /\ HasEntry(q, i, x.own[i])
  BY <1>1, <1>4, <1>5, OpenedIs
<1>7. x.headed
  <2>1. reader.size \in Nat  BY <1>4 DEF ReaderOK, ReaderType
  <2>2. FileSize(f) # 0  BY <1>1, <2>1
  <2> QED  BY <1>1, <2>2 DEF FileSize
<1>8. Onto("reload")  BY <1>1, <1>2, <1>7, GoesOnto DEF Parsed
<1>9. \A e \in Chunks \ passed' :
        e \notin passed \/ (x.stamp <= Begin(e) /\ reader.position < Begin(e))
  BY <1>2, <1>4, PassedAgain
<1>10. Straight => /\ Ready(x, reader, passed) /\ Over(reader)
                   /\ Playing => Gone(reader, Heard)
  BY <1>1, <1>2, <1>4 DEF SteadyAt, Calm
<1>11. StillTold
  <2> SUFFICES ASSUME ~astray, handed.by \in {"next", "again"}, before # 0,
                      NEW e \in Chunks \ passed', NEW y \in Videos(Content[e])
               PROVE  ~(before < Time(e, y) /\ Time(e, y) < Heard)
    BY DEF StillTold, Unheard
  <2>1. Unheard(passed, before, Heard) /\ status = "playing"
    <3>1. handed # NoItems  BY DEF NoItems
    <3> QED  BY <1>4, <3>1 DEF Told
  <2>2. CASE e \notin passed  BY <2>1, <2>2 DEF Unheard
  <2>3. CASE e \in passed
    <3>1. reader.position < Begin(e)  BY <1>9, <2>3
    <3>2. Straight /\ Playing  BY <2>1 DEF Straight, Playing
    <3>3. Heard \in Nat /\ Heard <= reader.position  BY <1>10, <3>2 DEF Gone
    <3>4. Begin(e) \in Nat /\ Time(e, y) \in Nat /\ Begin(e) <= Time(e, y)  BY Spans
    <3> QED  BY <1>4, <3>1, <3>3, <3>4
  <2> QED  BY <2>2, <2>3
<1>12. Straight => SteadyAt(files, "reload", q, call', passed', Playing, Heard)
  <2> SUFFICES ASSUME Straight
               PROVE  SteadyAt(files, "reload", q, call', passed', Playing, Heard)
    OBVIOUS
  <2>1. Ended(q, Playing, Heard)
    BY <1>6, <1>10, SamePlaceGone DEF Ended, Ready
  <2>2. Lies(x, q)
    <3>1. Lies(x, reader) /\ q.datas = reader.datas  BY <1>6, <1>10 DEF Ready, SamePlace
    <3>2. CASE End(reader.datas) <= x.stamp  BY <3>1, <3>2 DEF Lies
    <3>3. CASE \E i \in 1..Len(reader.headers) : HasEntry(reader, i, reader.datas)
      <4>1. PICK i \in 1..Len(reader.headers) : HasEntry(reader, i, reader.datas)  BY <3>3
      <4>2. reader.headers[i].own /\ reader.headers[i].chunk = reader.datas
        BY <4>1 DEF HasEntry
      <4>3. reader.datas = FirstOf(x) + i - 1 /\ i <= Len(x.own) /\ i \in Nat
        BY <1>4, <4>2, SnapshotIs, EntryIs
      <4>4. i \in 1..Len(x.own)  BY <1>4, <4>3, FileShape
      <4>5. x.own[i] = reader.datas  BY <1>4, <4>3, <4>4 DEF InOrder
      <4> QED  BY <1>6, <1>7, <3>1, <4>4, <4>5 DEF Lies
    <3> QED  BY <3>1, <3>2, <3>3 DEF Lies
  <2>3. ListFrom(q, q.file)  BY <1>1, <1>6, <1>10 DEF Ready, ListFrom
  <2>4. Beyond(x, q, passed')
    <3> SUFFICES ASSUME NEW e \in Later(q, passed') PROVE x.stamp <= Begin(e)  BY DEF Beyond
    <3>1. e \in Chunks \ passed' /\ e > reader.datas  BY <1>6 DEF Later, SamePlace
    <3>2. CASE e \notin passed
      <4>1. e \in Later(reader, passed)  BY <3>1, <3>2 DEF Later
      <4> QED  BY <1>10, <4>1 DEF Ready, Coming, Beyond
    <3> QED  BY <1>9, <3>1, <3>2
  <2> QED  BY <1>1, <1>6, <2>1, <2>2, <2>3, <2>4 DEF SteadyAt
<1> QED  BY <1>1, <1>2, <1>3, <1>6, <1>8, <1>11, <1>12, OntoSteady DEF Nexts

\* What a search finds forwards is at hand, and nothing was left out on the way there.
\* At the first frame at or after t of what is in the file from there on.
FoundAt(x, p, t, q) ==
  /\ Ready(x, q, p) /\ ~Over(q) /\ q.position = Time(q.datas, q.next + 1)
  /\ q.datas \in Chunks /\ t <= q.position /\ q.position \in Nat
  /\ q.next + 1 \in Videos(Content[q.datas])
  /\ \A w \in Videos(Content[q.datas]) : t <= Time(q.datas, w) => q.position <= Time(q.datas, w)
  /\ \A e \in Chunks : x.stamp <= Begin(e) /\ e < q.datas => End(e) < t

LEMMA FoundReady ==
  ASSUME NEW n \in Nat, NEW r, ReaderOK(r, n), NEW x \in FileType, InOrder(x), Snapshot(x, r),
         NEW t \in Nat, NEW q, Finds(x, r, t, q), ReaderOK(q, n), q.file = r.file,
         q.headers = r.headers, q.size = r.size, q.file_list = r.file_list,
         ListFrom(r, r.file), NEW p
  PROVE  FoundAt(x, p, t, q)
<1>1. PICK i \in 1..Len(r.headers), v \in Nat :
        /\ r.headers[i].own
        /\ q = Placed(r, i - 1, r.headers[i].chunk, v - 1, Time(r.headers[i].chunk, v))
        /\ v \in Videos(Content[r.headers[i].chunk]) /\ t <= Time(r.headers[i].chunk, v)
        /\ \A w \in Videos(Content[r.headers[i].chunk]) : t <= Time(r.headers[i].chunk, w) => v <= w
        /\ \A e \in Chunks : x.stamp <= Begin(e) /\ e < r.headers[i].chunk => End(e) < t
  BY DEF Finds
<1>2. PICK c : c = r.headers[i].chunk  OBVIOUS
<1>3. c \in Chunks /\ i \in Nat  BY <1>2, EntryIs
<1>4. /\ q.data_index = i - 1 /\ q.datas = c /\ q.next = v - 1 /\ q.position = Time(c, v)
  BY <1>1, <1>2 DEF Placed, ReaderOK, ReaderType
<1>5. /\ v \in 1..Len(Content[c]) /\ Len(Content[c]) \in Nat /\ Time(c, v) \in Nat
      /\ Videos(Content[c]) \subseteq 1..Len(Content[c])
  BY <1>1, <1>2, <1>3, ContentType, TimeType
<1>6. q.next + 1 = v /\ ~Over(q)  BY <1>4, <1>5 DEF Over
<1>7. Shown(q)  BY <1>1, <1>2, <1>3, <1>4, <1>6 DEF Shown
<1>8. Snapshot(x, q)  BY SnapshotSame
<1>9. ListFrom(q, q.file)  BY DEF ListFrom
<1>10. Ready(x, q, p)  BY <1>1, <1>2, <1>4, <1>7, <1>8, <1>9, LoadedReady
<1>11. ASSUME NEW w \in Videos(Content[c]), t <= Time(c, w) PROVE Time(c, v) <= Time(c, w)
  BY <1>1, <1>2, <1>3, <1>5, <1>11, NotBefore
<1> QED  BY <1>1, <1>2, <1>3, <1>4, <1>5, <1>6, <1>10, <1>11 DEF FoundAt

LEMMA NothingBetween ==
  ASSUME NEW r, Ended(r, TRUE, Heard), NEW l, l = Heard, NEW x, NEW p, Beyond(x, r, p), NEW t \in Nat,
         End(r.datas) <= t, \A e \in Later(r, p) : t <= Begin(e),
         NEW q, q.datas \in Chunks, q.next + 1 \in Videos(Content[q.datas]), t <= q.position,
         q.position = Time(q.datas, q.next + 1),
         \A w \in Videos(Content[q.datas]) : t <= Time(q.datas, w) => q.position <= Time(q.datas, w),
         \A e \in Chunks : x.stamp <= Begin(e) /\ e < q.datas => End(e) < t
  PROVE  l \in Nat /\ l <= t /\ l <= q.position /\ Unheard(p, l, q.position)
<1>1. /\ r.datas \in Chunks /\ r.position = End(r.datas) /\ Over(r) /\ l \in Nat /\ l <= r.position
      /\ 1 <= r.next /\ \A v \in Videos(Content[r.datas]) : v <= r.next <=> Time(r.datas, v) <= l
  BY DEF Ended, Shown, Gone
<1>2. PICK d, c : d = r.datas /\ c = q.datas  OBVIOUS
<1>3. /\ d \in Chunks /\ c \in Chunks /\ End(d) \in Nat /\ Begin(d) \in Nat /\ d \in Nat /\ c \in Nat
      /\ q.position \in Nat
  BY <1>1, <1>2, Spans, Apart
<1>4. l <= t /\ l <= q.position  BY <1>1, <1>2, <1>3
<1>5. ASSUME NEW v \in Videos(Content[d]) PROVE Time(d, v) <= l
  <2>1. v <= r.next  BY <1>1, <1>2, <1>3, ContentType DEF Over
  <2> QED  BY <1>1, <1>2, <2>1
<1>6. ASSUME NEW e \in Chunks \ p, NEW y \in Videos(Content[e]), l < Time(e, y),
             Time(e, y) < q.position
      PROVE  FALSE
  <2>1. /\ e \in Chunks /\ e \in Nat /\ Time(e, y) \in Nat /\ Begin(e) \in Nat /\ End(e) \in Nat
        /\ Begin(e) <= Time(e, y) /\ Time(e, y) <= End(e)
    BY Spans, Apart
  <2>2. e > d
    <3>1. CASE e = d  BY <1>1, <1>5, <1>6, <2>1, <3>1
    <3>2. CASE e < d
      <4>1. End(e) < End(d) /\ End(e) < Begin(d)  BY <1>3, <2>1, <3>2, Apart
      <4>2. 1 \in Videos(Content[d]) /\ Time(d, 1) = Begin(d)  BY <1>3, ContentType, ChunkType
      <4>3. Begin(d) <= l  BY <1>5, <4>2
      <4> QED  BY <1>1, <1>3, <1>6, <2>1, <4>1, <4>3
    <3> QED  BY <1>3, <2>1, <3>1, <3>2
  <2>3. e \in Later(r, p)  BY <1>2, <2>1, <2>2 DEF Later
  <2>4. t <= Begin(e) /\ x.stamp <= Begin(e)  BY <2>3 DEF Beyond
  <2>5. CASE e < c  
    <3>1. End(e) < t  BY <1>2, <2>1, <2>4, <2>5
    <3> QED  BY <2>1, <2>4, <3>1
  <2>6. CASE e = c
    <3>1. t <= Time(e, y)  BY <2>1, <2>4
    <3>2. q.position <= Time(e, y)  BY <1>2, <2>6, <3>1
    <3> QED  BY <1>3, <1>6, <2>1, <3>2
  <2>7. CASE e > c
    <3>1. End(c) < Begin(e)  BY <1>3, <2>1, <2>7, Apart
    <3>2. q.position <= End(c) /\ End(c) \in Nat  BY <1>2, <1>3, Spans
    <3> QED  BY <1>3, <1>6, <2>1, <3>1, <3>2
  <2> QED  BY <1>3, <2>1, <2>5, <2>6, <2>7
<1>7. Unheard(p, l, q.position)  BY <1>6 DEF Unheard
<1> QED  BY <1>1, <1>4, <1>7

\* If nothing is found the reader stays where it was, and what it left in the index was not
\* on the disk.
LEMMA StillReady ==
  ASSUME NEW n \in Nat, NEW r, ReaderOK(r, n), NEW x \in FileType, InOrder(x), Snapshot(x, r),
         NEW t \in Nat, NEW q, FindsNot(r, t, q), NEW p, Shown(r), Lies(x, r), ListFrom(r, r.file),
         Beyond(x, r, p), \A e \in Later(r, p) : t <= Begin(e)
  PROVE  Ready(x, q, p) /\ SamePlace(q, r)
<1>1. /\ q = Placed(r, Len(r.headers) - 1, r.datas, r.next, r.position)
      /\ \A i \in 1..Len(r.headers) :
           r.headers[i].own /\ End(r.headers[i].chunk) >= t => 2 * i + 1 >= r.size
  BY DEF FindsNot
<1>2. /\ q.data_index = Len(r.headers) - 1 /\ q.datas = r.datas /\ q.next = r.next
      /\ q.position = r.position /\ q.file = r.file /\ q.headers = r.headers /\ q.size = r.size
      /\ q.file_list = r.file_list /\ Len(r.headers) \in Nat
  BY <1>1 DEF Placed, ReaderOK, ReaderType
<1>3. SamePlace(q, r)  BY <1>2 DEF SamePlace
<1>4. Shown(q)  BY <1>3, SamePlaceGone
<1>5. Lies(x, q)  BY <1>2 DEF Lies, HasEntry
<1>6. Ahead(q)
  <2> SUFFICES ASSUME NEW i \in 1..Len(q.headers), i > q.data_index + 1 PROVE FALSE
    BY DEF Ahead
  <2> QED  BY <1>2
<1>7. ListFrom(q, q.file)  BY <1>2 DEF ListFrom
<1>8. Later(q, p) = Later(r, p)  BY <1>2 DEF Later
<1>9. Beyond(x, q, p)  BY <1>8 DEF Beyond
<1>10. ASSUME NEW e \in Later(q, p), NEW i \in 1..Len(q.headers), HasEntry(q, i, e)
       PROVE  Untried(q, i)
  <2>1. e \in Chunks /\ t <= Begin(e)  BY <1>8 DEF Later
  <2>2. End(e) >= t  BY <2>1, Spans
  <2>3. 2 * i + 1 >= q.size  BY <1>1, <1>2, <1>10, <2>2 DEF HasEntry
  <2>4. q.data_index + 1 = Len(q.headers)  BY <1>2
  <2> QED  BY <2>3, <2>4 DEF Untried
<1>11. Coming(x, q, p)  BY <1>9, <1>10 DEF Coming
<1> QED  BY <1>3, <1>4, <1>5, <1>6, <1>7, <1>11 DEF Ready

\* What the file read on in, or the next one, is searched from.
Arrives(r, x, p, t) ==
  /\ Sought(x, r, t) /\ Lies(x, r) /\ ListFrom(r, r.file) /\ Beyond(x, r, p)
  /\ End(r.datas) <= t /\ \A e \in Later(r, p) : t <= Begin(e)

\* The frame is the lone one of a chunk if it is also the last one heard.
LEMMA OnlyOne ==
  ASSUME OrderOf(files), NEW r, Ended(r, TRUE, Heard), NEW g \in 1..Len(files),
         files[g] \in FileType, InOrder(files[g]), NEW t, t = files[g].stamp, End(r.datas) <= t,
         Heard = t
  PROVE  LoneIn(files, t)
<1>1. /\ r.datas \in Chunks /\ r.position = End(r.datas) /\ Over(r) /\ Heard \in Nat
      /\ Heard <= r.position
  BY DEF Ended, Shown, Gone
<1>2. PICK d, c : d = r.datas /\ c = FirstOf(files[g])  OBVIOUS
<1>3. d \in Chunks /\ c \in Chunks /\ t = Begin(c)  BY <1>1, <1>2, OrderIs
<1>4. End(d) \in Nat /\ t \in Nat  BY <1>3, Spans
<1>5. End(d) = t  BY <1>1, <1>2, <1>4
<1>6. ChunkOf(t) = c  BY <1>3, BeginsOwn
<1>7. PICK v \in Videos(Content[d]) : End(d) = Time(d, v)  BY <1>3, Spans
<1>8. ChunkOf(t) = d  BY <1>3, <1>5, <1>7, OwnChunk
<1>9. d = c /\ Begin(d) = End(d)  BY <1>3, <1>5, <1>6, <1>8
<1>10. Frames({d}) = {t}
  <2>1. \A w \in Videos(Content[d]) : Time(d, w) = t
    <3> SUFFICES ASSUME NEW w \in Videos(Content[d]) PROVE Time(d, w) = t  OBVIOUS
    <3>1. Begin(d) <= Time(d, w) /\ Time(d, w) <= End(d) /\ Time(d, w) \in Nat  BY <1>3, Spans
    <3> QED  BY <1>4, <1>5, <1>9, <3>1
  <2>2. Frames({d}) = {Time(d, w) : w \in Videos(Content[d])}  BY DEF Frames, Time
  <2> QED  BY <1>7, <2>1, <2>2
<1> QED  BY <1>8, <1>10 DEF LoneIn

LEMMA NextLoadSteady ==
  ASSUME Inv, PlayInv, StraightInv, NEW at \in {"reload", "loadnext"},
         NEW then \in {"retake", "take"}, at = "reload" <=> then = "retake", NEW t \in Nat,
         NextLoad(at, t, then), NEW x, x = files[reader.file],
         at = "loadnext" /\ Straight => t = x.stamp,
         Straight => Arrives(reader, x, passed, t)
  PROVE  StraightInv'
<1>1. PICK L : L = LoadDataByIndex(reader, t, "Next")  OBVIOUS
<1>2. /\ pc = at /\ reader' = L.r /\ passed' = passed /\ UNCHANGED writerVars
      /\ IF L.ok THEN Goes(then) ELSE NextReturns("next", <<>>)
  BY <1>1 DEF NextLoad
<1>3. pc \in Nexts /\ then \in Nexts  BY <1>2 DEF Nexts
<1>4. /\ Ordered /\ OrderOf(files) /\ Last \in Nat /\ Last = Len(files) /\ ReaderOK(reader, Last)
      /\ reader.file \in 1..Last /\ x \in FileType /\ InOrder(x) /\ Snapshot(x, reader) /\ Told
      /\ reader.file # 0
      /\ Straight => SteadyAt(files, pc, reader, call, passed, Playing, Heard)
  BY <1>2, <1>3, InNext
<1>5. /\ L.ok \in BOOLEAN /\ ReaderOK(L.r, Last) /\ L.r.file = reader.file
      /\ L.r.size = reader.size /\ L.r.headers = reader.headers
      /\ L.r.file_list = reader.file_list
  BY <1>1, <1>4, LoadedOK
<1>6. Snapshot(x, L.r)  BY <1>4, <1>5, SnapshotSame
<1>7. StillTold  BY <1>2, <1>4, StillToldThen
<1>8. Straight => /\ Ended(reader, Playing, Heard)
                  /\ IF L.ok THEN Finds(x, reader, t, L.r) ELSE FindsNot(reader, t, L.r)
  <2>1. Straight => Ended(reader, Playing, Heard)  BY <1>2, <1>4 DEF SteadyAt
  <2>2. Straight => Sought(x, reader, t)  BY DEF Arrives
  <2> QED  BY <1>1, <1>4, <2>1, <2>2, LoadForward
<1>9. CASE L.ok
  <2>1. Onto(then)  BY <1>2, <1>9, GoesOnto
  <2>2. ASSUME Straight
        PROVE  /\ Landed(x, L.r, passed, Playing, Heard)
               /\ then = "take" /\ Playing => Heard < L.r.position \/ LoneIn(files, L.r.position)
    <3>1. Finds(x, reader, t, L.r) /\ Ended(reader, Playing, Heard) /\ Arrives(reader, x, passed, t)
      BY <1>8, <1>9, <2>2
    <3>2. ListFrom(reader, reader.file) /\ Beyond(x, reader, passed) /\ End(reader.datas) <= t
          /\ \A e \in Later(reader, passed) : t <= Begin(e)
      BY <3>1 DEF Arrives
    <3>3. /\ Ready(x, L.r, passed) /\ ~Over(L.r) /\ L.r.position = Time(L.r.datas, L.r.next + 1)
          /\ L.r.datas \in Chunks /\ t <= L.r.position /\ L.r.position \in Nat
          /\ L.r.next + 1 \in Videos(Content[L.r.datas])
          /\ \A w \in Videos(Content[L.r.datas]) :
               t <= Time(L.r.datas, w) => L.r.position <= Time(L.r.datas, w)
          /\ \A e \in Chunks : x.stamp <= Begin(e) /\ e < L.r.datas => End(e) < t
      <4>1. /\ ReaderOK(reader, Last) /\ x \in FileType /\ InOrder(x) /\ Snapshot(x, reader)
            /\ t \in Nat /\ Finds(x, reader, t, L.r) /\ ReaderOK(L.r, Last)
            /\ L.r.file = reader.file /\ L.r.headers = reader.headers /\ L.r.size = reader.size
            /\ L.r.file_list = reader.file_list /\ ListFrom(reader, reader.file) /\ Last \in Nat
        BY <1>4, <1>5, <3>1, <3>2
      <4>2. PICK r, q, p : r = reader /\ q = L.r /\ p = passed  OBVIOUS
      <4>3. /\ ReaderOK(r, Last) /\ Snapshot(x, r) /\ Finds(x, r, t, q) /\ ReaderOK(q, Last)
            /\ q.file = r.file /\ q.headers = r.headers /\ q.size = r.size
            /\ q.file_list = r.file_list /\ ListFrom(r, r.file)
        BY <4>1, <4>2
      <4>4. FoundAt(x, p, t, q)
        BY ONLY <4>1, <4>3, FoundReady
      <4> QED  BY <4>2, <4>4 DEF FoundAt
    <3>4. CASE Playing
      <4>1. Ended(reader, TRUE, Heard)  BY <3>1, <3>4 DEF Ended
      <4>2. Heard \in Nat /\ Heard <= t /\ Heard <= L.r.position /\ Unheard(passed, Heard, L.r.position)
        BY <3>2, <3>3, <4>1, NothingBetween
      <4>3. ASSUME then = "take", ~(Heard < L.r.position)
            PROVE  LoneIn(files, L.r.position)
        <5>1. at = "loadnext" /\ t = x.stamp  BY <2>2, <4>3
        <5>2. Heard = t /\ L.r.position = t  BY <3>3, <4>2, <4>3
        <5> QED  BY <1>4, <3>2, <4>1, <5>1, <5>2, OnlyOne
      <4> QED  BY <3>3, <4>2, <4>3 DEF Landed
    <3>5. CASE ~Playing  BY <3>3, <3>5 DEF Landed
    <3> QED  BY <3>4, <3>5
  <2>3. Straight => SteadyAt(files, then, reader', call', passed', Playing, Heard)
    BY <1>2, <1>5, <2>2 DEF SteadyAt
  <2> QED  BY <1>2, <1>3, <1>5, <1>6, <1>7, <2>1, <2>3, OntoSteady
<1>10. CASE ~L.ok
  <2>1. NextReturns("next", <<>>)  BY <1>2, <1>10
  <2>2. Straight => Calm(x, L.r, passed, Playing, Heard)
    <3> SUFFICES ASSUME Straight PROVE Calm(x, L.r, passed, Playing, Heard)  OBVIOUS
    <3>1. FindsNot(reader, t, L.r) /\ Ended(reader, Playing, Heard) /\ Arrives(reader, x, passed, t)
      BY <1>8, <1>10
    <3>2. Ready(x, L.r, passed) /\ SamePlace(L.r, reader)
      BY <1>4, <3>1, StillReady DEF Arrives, Ended
    <3> QED  BY <3>1, <3>2, SamePlaceGone DEF Calm, Ended
  <2> QED  BY <1>2, <1>3, <1>5, <1>6, <1>7, <2>1, <2>2, NextReturnsSteady
<1> QED  BY <1>5, <1>9, <1>10

\* The file read on in is searched from the position, the next one from its beginning.
LEMMA ReloadArrives ==
  ASSUME Inv, PlayInv, StraightInv, UNCHANGED writerVars, pc = "reload", Straight
  PROVE  /\ Arrives(reader, files[reader.file], passed, reader.position)
         /\ Ended(reader, Playing, Heard)
<1>1. PICK x : x = files[reader.file]  OBVIOUS
<1>2. /\ reader.position \in Nat /\ reader.datas \in Chunks
      /\ SteadyAt(files, pc, reader, call, passed, Playing, Heard)
  BY InNext DEF Nexts
<1>3. /\ Shown(reader) /\ Over(reader) /\ Lies(x, reader) /\ ListFrom(reader, reader.file)
      /\ Beyond(x, reader, passed) /\ Ended(reader, Playing, Heard)
  BY <1>1, <1>2 DEF SteadyAt, Ended
<1>4. reader.position = End(reader.datas)  BY <1>3 DEF Shown
<1>5. Sought(x, reader, reader.position)
  <2>1. CASE \E i \in 1..Len(reader.headers) : HasEntry(reader, i, reader.datas)
    BY <1>2, <1>4, <2>1 DEF Sought, HasEntry
  <2>2. CASE End(reader.datas) <= x.stamp  BY <1>4, <2>2 DEF Sought
  <2> QED  BY <1>3, <2>1, <2>2 DEF Lies
<1>6. ASSUME NEW e \in Later(reader, passed) PROVE reader.position <= Begin(e)
  <2>1. e \in Chunks /\ reader.datas < e  BY <1>2, Apart DEF Later
  <2>2. End(reader.datas) < Begin(e) /\ Begin(e) \in Nat  BY <1>2, <2>1, Apart, Spans
  <2> QED  BY <1>2, <1>4, <2>2
<1> QED  BY <1>1, <1>2, <1>3, <1>4, <1>5, <1>6 DEF Arrives

LEMMA NextReloadSteady ==
  ASSUME Inv, PlayInv, StraightInv, NextReload
  PROVE  StraightInv'
<1>1. NextLoad("reload", reader.position, "retake") /\ pc = "reload" /\ UNCHANGED writerVars
  BY DEF NextReload, NextLoad
<1>2. PICK x : x = files[reader.file]  OBVIOUS
<1>3. reader.position \in Nat  BY <1>1, InNext DEF Nexts
<1>4. Straight => Arrives(reader, x, passed, reader.position)  BY <1>1, <1>2, ReloadArrives
<1> QED  BY <1>1, <1>2, <1>3, <1>4, NextLoadSteady

LEMMA FileLoadArrives ==
  ASSUME Inv, PlayInv, StraightInv, UNCHANGED writerVars, pc = "loadnext", Straight,
         NEW x, x = files[reader.file], NEW t, t = Stamp(call.file)
  PROVE  t \in Nat /\ t = x.stamp /\ Arrives(reader, x, passed, t) /\ Ended(reader, Playing, Heard)
<1>1. call.file \in 1..Last /\ files \in Seq(FileType)  BY DEF Inv, CallInv, FilesInv
<1>2. t \in Nat  BY <1>1, EntriesType
<1>3. SteadyAt(files, pc, reader, call, passed, Playing, Heard)  BY InNext DEF Nexts
<1>4. /\ Ended(reader, Playing, Heard) /\ Towards(files[call.file], reader, call.file, passed)
      /\ reader.file = call.file
  BY <1>3 DEF SteadyAt
<1>5. t = x.stamp  BY <1>4 DEF Stamp
<1>6. End(reader.datas) <= t /\ ListFrom(reader, reader.file) /\ Beyond(x, reader, passed)
  BY <1>4, <1>5 DEF Towards
<1>7. Sought(x, reader, t)  BY <1>2, <1>5 DEF Sought
<1>8. Lies(x, reader)  BY <1>5, <1>6 DEF Lies
<1> QED  BY <1>2, <1>4, <1>5, <1>6, <1>7, <1>8 DEF Arrives, Beyond

LEMMA NextFileLoadSteady ==
  ASSUME Inv, PlayInv, StraightInv, NextFileLoad
  PROVE  StraightInv'
<1>1. /\ NextLoad("loadnext", Stamp(call.file), "take") /\ pc = "loadnext"
      /\ UNCHANGED writerVars
  BY DEF NextFileLoad, NextLoad
<1>2. PICK x, t : x = files[reader.file] /\ t = Stamp(call.file)  OBVIOUS
<1>3. call.file \in 1..Last /\ files \in Seq(FileType)  BY <1>1 DEF Inv, CallInv, FilesInv
<1>4. t \in Nat  BY <1>2, <1>3, EntriesType
<1>5. Straight => t = x.stamp /\ Arrives(reader, x, passed, t)  BY <1>1, <1>2, FileLoadArrives
<1> QED  BY <1>1, <1>2, <1>4, <1>5, NextLoadSteady

\* The frame at the position goes out.
LEMMA AtHand ==
  ASSUME NEW n \in Nat, NEW r, ReaderOK(r, n), Shown(r), ~Over(r),
         r.position = Time(r.datas, r.next + 1), NEW G, G = GetNextData(r)
  PROVE  SameLoaded(G.r, r) /\ Plays(G.r, G.got, r.position)
<1>1. r.datas \in Chunks /\ r.next + 1 \in Videos(Content[r.datas])  BY DEF Shown
<1>2. G = GetForwardData(r)
  <2>1. Items(r.datas) = Content[r.datas]  BY <1>1, ChunkType
  <2>2. r.next # Len(Items(r.datas))  BY <2>1 DEF Over
  <2> QED  BY <2>2, NextDataIs
<1> QED  BY <1>1, <1>2, NextOut

LEMMA NextTakeSteady ==
  ASSUME Inv, PlayInv, StraightInv, NEW at \in {"retake", "take"}, NEW by \in {"next", "again"},
         at = "retake" => by = "again", NextTake(at, by)
  PROVE  StraightInv'
<1>1. PICK G : G = GetNextData(reader)  OBVIOUS
<1>2. /\ pc = at /\ reader' = G.r /\ NextReturns(by, G.got) /\ passed' = passed
      /\ UNCHANGED writerVars
  BY <1>1 DEF NextTake
<1>3. pc \in Nexts  BY <1>2 DEF Nexts
<1>4. PICK x : x = files[reader.file]  OBVIOUS
<1>5. /\ Last \in Nat /\ ReaderOK(reader, Last) /\ x \in FileType /\ InOrder(x)
      /\ Snapshot(x, reader) /\ Told
      /\ Straight => SteadyAt(files, pc, reader, call, passed, Playing, Heard)
  BY <1>2, <1>3, <1>4, InNext
<1>6. G.r.file = reader.file /\ G.r.headers = reader.headers /\ G.r.size = reader.size
  <2>1. Last \in Nat /\ ReaderOK(reader, Last) /\ G = GetNextData(reader)  BY <1>1, <1>5
  <2> QED  BY ONLY <2>1, NextDataOK
<1>7. Snapshot(x, G.r)  BY <1>5, <1>6, SnapshotSame
<1>8. StillTold  BY <1>2, <1>5, StillToldThen
<1>9. ASSUME Straight
      PROVE  /\ G.got # <<>> /\ Ready(x, G.r, passed)
             /\ \E t \in Nat : Plays(G.r, G.got, t) /\ (Playing => Gives(by, passed, Heard, t))
  <2>1. /\ Landed(x, reader, passed, Playing, Heard)
        /\ at = "take" /\ Playing => Heard < reader.position \/ LoneIn(files, reader.position)
    BY <1>2, <1>4, <1>5, <1>9 DEF SteadyAt
  <2>2. /\ Ready(x, reader, passed) /\ ~Over(reader) /\ Shown(reader)
        /\ reader.position = Time(reader.datas, reader.next + 1)
        /\ Playing => Heard <= reader.position /\ Unheard(passed, Heard, reader.position)
    BY <2>1 DEF Landed, Ready
  <2>3. SameLoaded(G.r, reader) /\ Plays(G.r, G.got, reader.position)
    BY <1>1, <1>5, <2>2, AtHand
  <2>4. G.got # <<>> /\ Shown(G.r) /\ reader.position \in Nat  BY <2>3 DEF Plays
  <2>5. Ready(x, G.r, passed)  BY <2>2, <2>3, <2>4, SameReady
  <2>6. ASSUME Playing PROVE Gives(by, passed, Heard, reader.position)
    <3>1. Heard \in Nat
      BY <1>2, HandedType DEF Inv, Heard
    <3>2. at = "retake" => by = "again"  OBVIOUS
    <3> QED  BY <2>1, <2>2, <2>4, <2>6, <3>1, <3>2 DEF Gives
  <2> QED  BY <2>3, <2>4, <2>5, <2>6
<1> QED  BY <1>2, <1>3, <1>4, <1>6, <1>7, <1>8, <1>9, NextReturnsSteady

\* The file taken off a list: the one behind, or the first that begins at or after the
\* position.
LEMMA TakenIsNext ==
  ASSUME Ordered, Last \in Nat, files \in Seq(FileType), FilesInv, ReaderOK(reader, Last),
         reader.file \in 1..Last, NEW x, x = files[reader.file], Snapshot(x, reader),
         NEW p, Ready(x, reader, p), Over(reader), NEW taken, Takes(taken, reader.position, "Next")
  PROVE  /\ taken.file \in 1..Last /\ ListFrom(taken.r, taken.file)
         /\ reader.position <= Stamp(taken.file) /\ reader.position = End(reader.datas)
         /\ \A h \in 1..Last : h > reader.file => taken.file <= h
<1>1. PICK R, d, pos : R = reader.file /\ d = reader.datas /\ pos = reader.position  OBVIOUS
<1>2. /\ d \in Chunks /\ pos = End(d) /\ Lies(x, reader) /\ ListFrom(reader, R)
  BY <1>1 DEF Ready, Shown
<1>3. d \in Nat /\ pos \in Nat  BY <1>2, Spans, Apart
<1>4. R \in 1..Last /\ R \in Nat /\ x \in FileType /\ InOrder(x)
  BY <1>1, FilesAre DEF Ordered, Last
<1>5. ASSUME NEW h \in 1..Last, h > R
      PROVE  pos <= Stamp(h) /\ Stamp(h) \in Nat
  <2>1. files[h] \in FileType /\ InOrder(files[h]) /\ Before(x, files[h])
    BY <1>1, <1>4, <1>5, FilesAre DEF Ordered, OrderOf, Last
  <2>2. /\ FirstOf(files[h]) \in Chunks /\ FirstOf(files[h]) \in Nat /\ Stamp(h) \in Nat
        /\ Stamp(h) = Begin(FirstOf(files[h])) /\ UntilOf(x) <= FirstOf(files[h])
    BY <2>1, OrderIs DEF Before, Stamp
  <2>3. CASE \E i \in 1..Len(reader.headers) : HasEntry(reader, i, d)
    <3>1. PICK i \in 1..Len(reader.headers) : HasEntry(reader, i, d)  BY <2>3
    <3>2. Holds(x, d)  BY <1>4, <3>1, SnapshotIs DEF HasEntry
    <3>3. d < FirstOf(files[h])  BY <1>3, <1>4, <2>2, <3>2, OrderIs DEF Holds
    <3>4. End(d) < Begin(FirstOf(files[h]))  BY <1>2, <2>2, <3>3, Apart
    <3> QED  BY <1>2, <1>3, <2>2, <3>4
  <2>4. CASE End(d) <= x.stamp
    <3>1. Stamp(R) < Stamp(h) /\ Stamp(R) \in Nat  BY <1>4, <1>5, StampsAscend
    <3>2. Stamp(R) = x.stamp  BY <1>1 DEF Stamp
    <3> QED  BY <1>2, <1>3, <2>2, <2>4, <3>1, <3>2
  <2> QED  BY <1>1, <1>2, <2>3, <2>4 DEF Lies
<1>6. PICK list : list = Listed(pos, "Next")  OBVIOUS
<1>7. list # <<>> /\ taken = Pop([reader EXCEPT !.file_list = list], "Next")
  BY <1>1, <1>6 DEF Takes
<1>8. list \in Seq(1..Last)
  <2>1. reader.file_list \in Seq(1..Last)  BY DEF ReaderOK
  <2> QED  BY <1>6, <2>1, NearestType DEF Listed
<1>9. taken.file = list[1] /\ taken.r.file_list = Tail(list)
  <2>1. PICK r, q, dir : r = reader /\ q = [r EXCEPT !.file_list = list] /\ dir = "Next"  OBVIOUS
  <2>2. ReaderOK(r, Last) /\ Last \in Nat  BY <2>1
  <2>3. ReaderOK(q, Last) /\ q.file_list = list  BY ONLY <1>8, <2>1, <2>2, ListOK
  <2>4. taken = Pop(q, dir) /\ q.file_list # <<>>  BY <1>7, <2>1, <2>3
  <2>5. taken.file = Head(q.file_list) /\ taken.r.file_list = Tail(q.file_list)
    <3>1. dir = "Next" /\ files \in Seq(FileType)  BY <2>1
    <3>2. ReaderOK(q, Last) /\ taken = Pop(q, dir) /\ q.file_list # <<>>  BY <2>3, <2>4
    <3> QED  BY ONLY <3>1, <3>2, PopOK
  <2>6. Head(list) = list[1]
    <3>1. list # <<>>  BY <1>7
    <3> QED  BY ONLY <1>8, <3>1
  <2> QED  BY ONLY <2>3, <2>5, <2>6
<1>10. PICK g : g = list[1]  OBVIOUS
<1>11. g \in 1..Last /\ g \in Nat /\ Len(list) \in Nat /\ 1 \in 1..Len(list)
  BY <1>7, <1>8, <1>10
<1>12. /\ \E b \in Int : \A k \in 1..Len(list) : list[k] = b + k
       /\ pos <= Stamp(g) /\ \A h \in 1..Last : h > R => g <= h
  <2>1. CASE reader.file_list # <<>>
    <3>1. list = reader.file_list  BY <1>6, <2>1 DEF Listed
    <3>2. \A k \in 1..Len(list) : list[k] = R + k  BY <1>2, <3>1 DEF ListFrom
    <3>3. g = R + 1  BY <1>10, <1>11, <3>2
    <3>4. pos <= Stamp(g)  BY <1>4, <1>5, <1>11, <3>3
    <3>5. \A h \in 1..Last : h > R => g <= h  BY <1>4, <3>3
    <3>6. R \in Int  BY <1>4
    <3>7. \E b \in Int : \A k \in 1..Len(list) : list[k] = b + k  BY ONLY <3>2, <3>6
    <3> QED  BY ONLY <3>4, <3>5, <3>7
  <2>2. CASE reader.file_list = <<>>
    <3>1. list = GetNearestFile(pos, "Next", FALSE)  BY <1>6, <2>2 DEF Listed
    <3>2. PICK b \in Int : /\ \A k \in 1..Len(list) : list[k] = b + k
                           /\ list[1] \in AtOrAfter(pos) /\ \A f \in AtOrAfter(pos) : list[1] <= f
      <4>1. PICK dir, include : dir = "Next" /\ include = FALSE  OBVIOUS
      <4>2. list = GetNearestFile(pos, dir, include)  BY <3>1, <4>1
      <4>3. include \in BOOLEAN /\ ~include /\ Ordered /\ Last \in Nat  BY <4>1
      <4>4. Following(list, pos, include)  BY ONLY <1>3, <4>1, <4>2, <4>3, NearestNext
      <4> QED  BY <1>7, <4>3, <4>4 DEF Following
    <3>3. Stamp(g) >= pos /\ Stamp(g) \in Nat
      BY <1>10, <1>11, <3>2, EntriesType DEF AtOrAfter
    <3>4. ASSUME NEW h \in 1..Last, h > R PROVE g <= h
      <4>1. h \in AtOrAfter(pos)  BY <1>3, <1>5, <3>4 DEF AtOrAfter
      <4> QED  BY <1>10, <3>2, <4>1
    <3> QED  BY <1>3, <3>2, <3>3, <3>4
  <2> QED  BY <2>1, <2>2
<1>13. ListFrom(taken.r, g)
  <2>1. PICK b \in Int : \A k \in 1..Len(list) : list[k] = b + k  BY <1>12
  <2>2. g = b + 1  BY <1>10, <1>11, <2>1
  <2> SUFFICES ASSUME NEW k \in 1..Len(Tail(list)) PROVE Tail(list)[k] = g + k
    BY <1>9 DEF ListFrom
  <2>3. Len(Tail(list)) = Len(list) - 1  BY <1>7, <1>8
  <2>4. k + 1 \in 1..Len(list) /\ k \in Nat  BY <1>11, <2>3
  <2>5. Tail(list)[k] = list[k + 1]  BY <1>7, <1>8, <2>4
  <2> QED  BY <2>1, <2>2, <2>4, <2>5
<1> QED  BY <1>1, <1>2, <1>9, <1>10, <1>11, <1>12, <1>13

\* Where the reader goes on to another file: what it did not read is from there on, or was
\* passed with this step.
LEMMA TowardsNext ==
  ASSUME Ordered, Last \in Nat, files \in Seq(FileType), FilesInv, ReaderOK(reader, Last),
         reader.file \in 1..Last, NEW x, x = files[reader.file], Snapshot(x, reader),
         Ready(x, reader, passed), Over(reader), NEW m, Missed(files, reader, passed, m),
         NEW taken, Takes(taken, reader.position, "Next"), NEW p,
         p = passed \cup {c \in m : Begin(c) < Stamp(taken.file)}
  PROVE  Towards(files[taken.file], taken.r, taken.file, p)
<1>1. PICK g : g = taken.file  OBVIOUS
<1>2. /\ g \in 1..Last /\ ListFrom(taken.r, g) /\ reader.position <= Stamp(g)
      /\ reader.position = End(reader.datas) /\ \A h \in 1..Last : h > reader.file => g <= h
  BY <1>1, TakenIsNext
<1>3. taken.r.datas = reader.datas  BY FromList DEF TakenOff
<1>4. End(taken.r.datas) <= files[g].stamp  BY <1>2, <1>3 DEF Stamp
<1>5. ASSUME NEW e \in Later(taken.r, p)
      PROVE  files[g].stamp <= Begin(e)
  <2>1. e \in Chunks /\ e \notin p /\ e \in Later(reader, passed)  BY <1>3 DEF Later
  <2>2. Stamp(g) \in Nat /\ Begin(e) \in Nat  BY <1>2, <2>1, EntriesType, Spans
  <2>3. CASE e \in m
    <3>1. ~(Begin(e) < Stamp(g))  BY <1>1, <2>1, <2>3
    <3> QED  BY <2>2, <3>1 DEF Stamp
  <2>4. CASE \E h \in 1..Len(files) : h > reader.file /\ Holds(files[h], e)
    <3>1. PICK h \in 1..Last : h > reader.file /\ Holds(files[h], e)  BY <2>4 DEF Last
    <3>2. g <= h  BY <1>2, <3>1
    <3>3. Stamp(g) <= Stamp(h)  BY <1>2, <3>1, <3>2, StampsAscend
    <3>4. files[h] \in FileType /\ InOrder(files[h])  BY <3>1, FilesAre DEF Ordered, Last
    <3>5. Stamp(h) = Begin(FirstOf(files[h])) /\ FirstOf(files[h]) \in Chunks
      BY <3>4, OrderIs DEF Stamp
    <3>6. FirstOf(files[h]) <= e  BY <3>1 DEF Holds
    <3>7. Stamp(h) <= Begin(e) /\ Stamp(h) \in Nat  BY <2>1, <3>5, <3>6, Apart, Spans
    <3> QED  BY <2>2, <3>3, <3>7 DEF Stamp
  <2> QED  BY <2>1, <2>3, <2>4 DEF Missed
<1>6. Beyond(files[g], taken.r, p)  BY <1>5 DEF Beyond
<1> QED  BY <1>1, <1>2, <1>4, <1>6 DEF Towards

LEMMA NextFileSteady ==
  ASSUME Inv, PlayInv, StraightInv, NextFile
  PROVE  StraightInv'
<1>1. PICK list, taken : /\ list = Listed(reader.position, "Next")
                         /\ taken = Pop([reader EXCEPT !.file_list = list], "Next")
  OBVIOUS
<1>2. /\ pc = "nextfile" /\ UNCHANGED writerVars
      /\ list = <<>> => NextReturns("next", <<>>) /\ UNCHANGED <<reader, passed>>
      /\ list # <<>> =>
           /\ reader' = taken.r /\ pc' = "opennext" /\ call' = [call EXCEPT !.file = taken.file]
           /\ passed' = passed \cup {c \in call.missing : Begin(c) < Stamp(taken.file)}
           /\ UNCHANGED <<status, historyVars>>
  BY <1>1 DEF NextFile, Listed
<1>3. pc \in Nexts /\ call \in CallType  BY <1>2 DEF Nexts, Inv, CallInv
<1>4. PICK x : x = files[reader.file]  OBVIOUS
<1>5. /\ Ordered /\ Last \in Nat /\ files \in Seq(FileType) /\ FilesInv
      /\ ReaderOK(reader, Last) /\ reader.file \in 1..Last /\ Snapshot(x, reader) /\ Told
      /\ Straight => SteadyAt(files, pc, reader, call, passed, Playing, Heard)
  BY <1>2, <1>3, <1>4, InNext
<1>6. StillTold
  <2>1. passed \subseteq passed'  BY <1>2
  <2> QED  BY <1>5, <2>1, StillToldThen
<1>7. Straight => /\ Calm(x, reader, passed, Playing, Heard) /\ Over(reader)
                  /\ Missed(files, reader, passed, call.missing)
  BY <1>2, <1>4, <1>5 DEF SteadyAt
<1>8. CASE list = <<>>
  <2>1. NextReturns("next", <<>>) /\ reader' = reader /\ passed' = passed  BY <1>2, <1>8
  <2> QED  BY <1>2, <1>3, <1>4, <1>5, <1>6, <1>7, <2>1, NextReturnsSteady
<1>9. CASE list # <<>>
  <2>1. Takes(taken, reader.position, "Next")  BY <1>1, <1>9 DEF Takes
  <2>2. TakenOff(taken)  BY <1>5, <2>1, FromList
  <2>3. reader' = taken.r /\ SamePlace(taken.r, reader)  BY <1>2, <1>9, <2>2 DEF TakenOff, SamePlace
  <2>4. /\ call'.op = call.op /\ call'.type = call.type /\ call'.found = call.found
        /\ call'.file = taken.file
    BY <1>2, <1>3, <1>9 DEF CallType
  <2>5. Onto("opennext")  BY <1>2, <1>9, <2>4 DEF Onto
  <2>6. Snapshot(files[reader'.file], reader')
    BY <1>4, <1>5, <2>2, <2>3, SnapshotSame DEF TakenOff
  <2>7. Straight => Towards(files[taken.file], taken.r, taken.file, passed')
    <3>1. passed' = passed \cup {c \in call.missing : Begin(c) < Stamp(taken.file)}
      BY <1>2, <1>9
    <3>2. Straight => Ready(x, reader, passed)  BY <1>7 DEF Calm
    <3> QED  BY <1>4, <1>5, <1>7, <2>1, <3>1, <3>2, TowardsNext
  <2>8. Straight => Ended(taken.r, Playing, Heard)
    BY <1>7, <2>3, SamePlaceGone DEF Calm, Ready, Ended
  <2>9. Straight => SteadyAt(files, "opennext", reader', call', passed', Playing, Heard)
    BY <2>3, <2>4, <2>7, <2>8 DEF SteadyAt
  <2> QED  BY <1>2, <1>3, <1>6, <2>5, <2>6, <2>9, OntoSteady DEF Nexts
<1> QED  BY <1>8, <1>9

LEMMA NextOpenSteady ==
  ASSUME Inv, PlayInv, StraightInv, NextOpen
  PROVE  StraightInv'
<1>1. PICK g, x, q : g = call.file /\ x = files[g] /\ q = ParseHeader(reader, g)  OBVIOUS
<1>2. /\ pc = "opennext" /\ UNCHANGED writerVars /\ reader' = q /\ passed' = passed
      /\ IF Parsed(g) THEN Goes("loadnext") ELSE NextReturns("next", <<>>)
  BY <1>1 DEF NextOpen
<1>3. pc \in Nexts /\ g \in 1..Last  BY <1>1, <1>2 DEF Nexts, Inv, CallInv
<1>4. /\ Ordered /\ Last \in Nat /\ files \in Seq(FileType) /\ FilesInv
      /\ ReaderOK(reader, Last) /\ Told
      /\ Straight => SteadyAt(files, pc, reader, call, passed, Playing, Heard)
  BY <1>2, <1>3, InNext
<1>5. Opened(q, reader, g)  BY <1>1, <1>3, <1>4, OpenedOK
<1>6. /\ Snapshot(x, q) /\ SamePlace(q, reader) /\ q.file = g /\ q.file_list = reader.file_list
      /\ ~x.headed => q.headers = <<>>
  BY <1>1, <1>3, <1>4, <1>5, OpenedIs
<1>7. StillTold  BY <1>2, <1>4, StillToldThen
<1>8. Straight => Ended(q, Playing, Heard) /\ Towards(x, q, g, passed)
  <2> SUFFICES ASSUME Straight PROVE Ended(q, Playing, Heard) /\ Towards(x, q, g, passed)
    OBVIOUS
  <2>1. Ended(reader, Playing, Heard) /\ Towards(x, reader, g, passed)
    BY <1>1, <1>2, <1>4 DEF SteadyAt
  <2>2. Ended(q, Playing, Heard)  BY <1>6, <2>1, SamePlaceGone DEF Ended
  <2>3. Later(q, passed) = Later(reader, passed)  BY <1>6 DEF Later, SamePlace
  <2>4. Towards(x, q, g, passed)
    BY <1>6, <2>1, <2>3 DEF Towards, SamePlace, ListFrom, Beyond
  <2> QED  BY <2>2, <2>4
<1>9. CASE Parsed(g)
  <2>1. Onto("loadnext") /\ call' = call  BY <1>2, <1>9, GoesOnto DEF Goes
  <2>2. Straight => SteadyAt(files, "loadnext", reader', call', passed', Playing, Heard)
    BY <1>1, <1>2, <1>6, <1>8, <2>1 DEF SteadyAt
  <2> QED  BY <1>1, <1>2, <1>3, <1>6, <1>7, <2>1, <2>2, OntoSteady DEF Nexts
<1>10. CASE ~Parsed(g)
  <2>1. NextReturns("next", <<>>)  BY <1>2, <1>10
  <2>2. q.headers = <<>> /\ Len(q.headers) = 0  BY <1>1, <1>6, <1>10 DEF Parsed
  <2>3. ASSUME Straight PROVE Ready(x, q, passed) /\ (Playing => Gone(q, Heard))
    <3>1. Shown(q) /\ (Playing => Gone(q, Heard))  BY <1>8, <2>3 DEF Ended
    <3>2. End(q.datas) <= x.stamp /\ ListFrom(q, g) /\ Beyond(x, q, passed)
      BY <1>8, <2>3 DEF Towards
    <3>3. \A i \in 1..Len(q.headers) : FALSE  BY <2>2
    <3>4. Lies(x, q) /\ Ahead(q) /\ Coming(x, q, passed)
      BY <3>2, <3>3 DEF Lies, Ahead, Coming
    <3> QED  BY <1>6, <3>1, <3>2, <3>4 DEF Ready
  <2>4. Straight => Calm(x, q, passed, Playing, Heard)  BY <2>3 DEF Calm
  <2> QED  BY <1>1, <1>2, <1>3, <1>6, <1>7, <2>1, <2>4, NextReturnsSteady
<1> QED  BY <1>9, <1>10

\* A step after which the reader does not go straight on has nothing to keep of that.
LEMMA NotStraight ==
  ASSUME StraightInv, UNCHANGED writerVars, ~Straight', Parsing', Listing', Roles', Told'
  PROVE  StraightInv'
BY OrderedStays DEF StraightInv, Steady

\* At an entry that was found and loaded.
LoadedAt(r) ==
  /\ ReaderOK(r, Last) /\ r.file \in 1..Last /\ Shown(r)
  /\ \E i \in 1..Len(r.headers) :
       r.headers[i].own /\ r.data_index = i - 1 /\ r.datas = r.headers[i].chunk

LEMMA InSeek ==
  ASSUME Inv, PlayInv, StraightInv, UNCHANGED <<writerVars, passed>>, pc \in Seeks
  PROVE  /\ call \in CallType /\ call.op = "seek" /\ status = "none" /\ handed = NoItems
         /\ call.type = "Prev" => astray
         /\ StillTold /\ Told /\ Ordered /\ ReaderOK(reader, Last) /\ Last \in Nat
         /\ files \in Seq(FileType) /\ FilesInv /\ Last = Len(files)
<1>1. call \in CallType /\ ReaderOK(reader, Last) /\ files \in Seq(FileType) /\ FilesInv
  BY DEF Inv, CallInv, ReaderInv, FilesInv
<1>2. call.op = "seek" /\ (call.type = "Prev" => astray)  BY DEF StraightInv, Roles
<1>3. status = "none"  BY DEF PlayInv, Calling
<1>4. handed = NoItems /\ Told /\ Ordered  BY <1>3 DEF StraightInv, Told
<1>5. StillTold  BY <1>4, StillToldThen
<1>6. Last \in Nat /\ Last = Len(files)  BY <1>1 DEF Last
<1> QED  BY <1>1, <1>2, <1>3, <1>4, <1>5, <1>6

LEMMA SeekReturnsSteady ==
  ASSUME Inv, PlayInv, StraightInv, pc \in {"list", "open", "load"}, NEW found \in BOOLEAN, NEW r,
         SeekReturns(found, r), UNCHANGED <<writerVars, passed>>, ReaderOK(r, Last),
         r.file # 0 => Snapshot(files[r.file], r),
         found => LoadedAt(r) /\ (call.dir = "Next" => ListFrom(r, r.file))
  PROVE  StraightInv'
<1>1. /\ call \in CallType /\ call.op = "seek" /\ status = "none" /\ handed = NoItems
      /\ call.type = "Prev" => astray
      /\ StillTold /\ Told /\ Ordered /\ Last \in Nat /\ files \in Seq(FileType) /\ Last = Len(files)
  BY InSeek DEF Seeks
<1>2. handed' = handed /\ before' = before /\ astray' = astray /\ files' = files
  BY DEF SeekReturns, historyVars, writerVars
<1>3. Told'  BY <1>1, <1>2, ToldStays
<1>4. ~call.found  BY DEF StraightInv, Roles
<1>5. call.type \in {"Next", "Prev"} /\ call.dir \in {"Next", "Prev"}  BY <1>1 DEF CallType
\* A reader with an entry loaded is ready, if its list goes on from its file.
<1>6. ASSUME found, NEW q, ReaderOK(q, Last), q.file = r.file, q.headers = r.headers,
             q.size = r.size, q.data_index = r.data_index, q.datas = r.datas, q.next = r.next,
             q.position = r.position, ListFrom(q, q.file)
      PROVE  Ready(files[q.file], q, passed)
  <2>1. LoadedAt(r)  BY <1>6
  <2>2. PICK x : x = files[r.file]  OBVIOUS
  <2>3. x \in FileType /\ InOrder(x) /\ r.file # 0
    BY <1>1, <2>1, <2>2, FilesAre DEF LoadedAt, Ordered
  <2>4. Snapshot(x, q)  BY <1>6, <2>2, <2>3, SnapshotSame
  <2>5. Shown(q)  BY <1>6, <2>1 DEF LoadedAt, Shown, Over
  <2>6. PICK i \in 1..Len(q.headers) :
          q.headers[i].own /\ q.data_index = i - 1 /\ q.datas = q.headers[i].chunk
    BY <1>6, <2>1 DEF LoadedAt
  <2>7. Ready(x, q, passed)  BY <1>6, <2>3, <2>4, <2>5, <2>6, LoadedReady
  <2> QED  BY <1>6, <2>2, <2>7
<1>7. CASE call.type = "Next" /\ call.dir = "Prev" /\ IsInGOP(r, call.time)
  <2>1. /\ reader' = [r EXCEPT !.file_list = <<>>] /\ pc' = "skip"
        /\ call' = [call EXCEPT !.found = found] /\ status' = status
    BY <1>7 DEF SeekReturns
  <2>2. call'.op = "seek" /\ call'.found = found /\ call'.type = call.type
    BY <1>1, <2>1 DEF CallType
  <2>3. PICK q, list : q = reader' /\ list = <<>> /\ q = [r EXCEPT !.file_list = list]  BY <2>1
  <2>4. list \in Seq(1..Last)  BY <2>3
  <2>5. /\ ReaderOK(q, Last) /\ q.file_list = <<>> /\ q.file = r.file /\ q.headers = r.headers
        /\ q.datas = r.datas /\ q.data_index = r.data_index /\ q.next = r.next
        /\ q.position = r.position /\ q.size = r.size
    <3>1. ReaderOK(r, Last) /\ Last \in Nat /\ q = [r EXCEPT !.file_list = list]  BY <1>1, <2>3
    <3>2. q.file_list = list  BY ONLY <2>4, <3>1, ListOK
    <3>3. /\ q.file = r.file /\ q.headers = r.headers /\ q.datas = r.datas
          /\ q.data_index = r.data_index /\ q.next = r.next /\ q.position = r.position
          /\ q.size = r.size /\ ReaderOK(q, Last)
      BY ONLY <2>4, <3>1, ListOK
    <3> QED  BY <2>3, <3>2, <3>3
  <2>6. Parsing'  BY <1>2, <2>3, <2>5, SnapshotSame DEF Parsing
  <2>7. Listing'  BY <2>1 DEF Listing
  <2>8. Roles'  BY <1>1, <1>2, <2>1, <2>2 DEF Roles, Seeks, Nexts, Prevs
  <2>9. CASE found
    <3>1. ListFrom(q, q.file)  BY <2>5 DEF ListFrom
    <3>2. Ready(files[q.file], q, passed)  BY <1>6, <2>5, <2>9, <3>1
    <3>3. ~Playing'  BY <1>1, <2>1 DEF Playing
    <3>4. passed' = passed  OBVIOUS
    <3>5. Steady'  BY <1>2, <2>1, <2>3, <3>2, <3>3, <3>4 DEF Steady, SteadyAt, Calm
    <3> QED  BY <1>3, <2>6, <2>7, <2>8, <3>5, OrderedStays DEF StraightInv
  <2>10. CASE ~found
    <3>1. ~Straight'  BY <1>1, <2>1, <2>2, <2>10 DEF Straight
    <3> QED  BY <1>3, <2>6, <2>7, <2>8, <3>1, NotStraight
  <2> QED  BY <2>9, <2>10
<1>8. CASE call.type = "Next" /\ call.dir = "Prev" /\ ~IsInGOP(r, call.time)
  <2>1. reader' = r /\ pc' = "list" /\ call' = [call EXCEPT !.dir = "Next"] /\ status' = status
    BY <1>8 DEF SeekReturns
  <2>2. call'.op = "seek" /\ call'.found = call.found /\ call'.type = call.type
    BY <1>1, <2>1 DEF CallType
  <2>3. Parsing' /\ Listing'  BY <1>2, <2>1 DEF Parsing, Listing
  <2>4. Roles'  BY <1>1, <1>2, <1>4, <2>1, <2>2 DEF Roles, Seeks, Nexts, Prevs
  <2>5. ~Straight'  BY <1>1, <1>4, <2>1, <2>2 DEF Straight
  <2> QED  BY <1>3, <2>3, <2>4, <2>5, NotStraight
<1>9. CASE ~(call.type = "Next" /\ call.dir = "Prev")
  <2>1. /\ reader' = r /\ pc' = "idle" /\ call' = NoCall
        /\ status' = IF found THEN "sought" ELSE status
    BY <1>9 DEF SeekReturns
  <2>2. Parsing' /\ Listing'  BY <1>2, <2>1 DEF Parsing, Listing
  <2>3. Roles'  BY <2>1 DEF Roles, Seeks, Nexts, Prevs, NoCall
  <2>4. CASE ~found \/ astray
    <3>1. ~Straight'  BY <1>1, <1>2, <2>1, <2>4 DEF Straight, NoCall
    <3> QED  BY <1>3, <2>2, <2>3, <3>1, NotStraight
  <2>5. CASE found /\ ~astray
    <3>1. call.dir = "Next"  BY <1>1, <1>5, <1>9, <2>5
    <3>2. Ready(files[r.file], r, passed)  BY <1>6, <2>5, <3>1
    <3>3. ~Playing'  BY <2>1, <2>5 DEF Playing
    <3>4. passed' = passed  OBVIOUS
    <3>5. Steady'  BY <1>2, <2>1, <3>2, <3>3, <3>4 DEF Steady, SteadyAt, Calm
    <3> QED  BY <1>3, <2>2, <2>3, <3>5, OrderedStays DEF StraightInv
  <2> QED  BY <2>4, <2>5
<1> QED  BY <1>5, <1>7, <1>8, <1>9

LEMMA SeekSteady ==
  ASSUME Inv, StraightInv, Seek
  PROVE  StraightInv'
<1>1. PICK t \in Targets, type \in {"Next", "Prev"} :
        /\ call' = [NoCall EXCEPT !.op = "seek", !.time = t, !.type = type, !.dir = "Prev"]
        /\ astray' = (type = "Prev")
  BY DEF Seek
<1>2. /\ pc' = "list" /\ status' = "none" /\ handed' = NoItems /\ UNCHANGED writerVars
      /\ reader' = reader /\ files' = files
  BY DEF Seek, writerVars
<1>3. call'.op = "seek" /\ ~call'.found /\ call'.type = type  BY <1>1 DEF NoCall
<1>4. Parsing' /\ Listing'  BY <1>2 DEF StraightInv, Parsing, Listing
<1>5. Roles'  BY <1>1, <1>2, <1>3 DEF Roles, Seeks, Nexts, Prevs
<1>6. ~Straight'  BY <1>2, <1>3 DEF Straight
<1>7. Told'  BY <1>2 DEF Told, NoItems
<1> QED  BY <1>2, <1>4, <1>5, <1>6, <1>7, NotStraight

\* Seek goes on to another look at the disk.
LEMMA SeekGoesSteady ==
  ASSUME Inv, PlayInv, StraightInv, NEW at \in {"open", "load"}, Goes(at),
         UNCHANGED <<writerVars, passed>>, pc \in {"list", "open", "load"},
         reader'.file # 0 => Snapshot(files[reader'.file], reader'),
         call.dir = "Next" /\ at = "open" => \E g \in Int : ListFrom(reader', g),
         call.dir = "Next" /\ at = "load" => ListFrom(reader', reader'.file)
  PROVE  StraightInv'
<1>1. /\ call.op = "seek" /\ status = "none" /\ handed = NoItems /\ StillTold /\ Told
      /\ call.type = "Prev" => astray
  BY InSeek DEF Seeks
<1>2. /\ pc' = at /\ call' = call /\ status' = status /\ handed' = handed /\ before' = before
      /\ astray' = astray /\ files' = files
  BY DEF Goes, historyVars, writerVars
<1>3. ~call.found  BY DEF StraightInv, Roles
<1>4. Parsing' /\ Listing'  BY <1>2 DEF Parsing, Listing
<1>5. Roles'  BY <1>1, <1>2, <1>3 DEF Roles, Seeks, Nexts, Prevs
<1>6. ~Straight'  BY <1>1, <1>2, <1>3 DEF Straight
<1>7. Told'  BY <1>1, <1>2, ToldStays
<1> QED  BY <1>4, <1>5, <1>6, <1>7, NotStraight

LEMMA SeekListSteady ==
  ASSUME Inv, PlayInv, StraightInv, SeekList
  PROVE  StraightInv'
<1>1. PICK list : list = GetNearestFile(call.time, call.dir, TRUE)  OBVIOUS
<1>2. /\ pc = "list" /\ UNCHANGED <<writerVars, passed>>
      /\ list = <<>> => SeekReturns(FALSE, reader)
      /\ list # <<>> => reader' = [reader EXCEPT !.file_list = list] /\ Goes("open")
  BY <1>1 DEF SeekList
<1>3. /\ call \in CallType /\ Ordered /\ ReaderOK(reader, Last) /\ Last \in Nat
      /\ files \in Seq(FileType)
  BY <1>2, InSeek DEF Seeks
<1>4. reader.file # 0 => Snapshot(files[reader.file], reader)  BY DEF StraightInv, Parsing
<1>5. CASE list = <<>>
  <2>1. PICK found : found = FALSE  OBVIOUS
  <2>2. found \in BOOLEAN /\ ~found /\ SeekReturns(found, reader)  BY <1>2, <1>5, <2>1
  <2> QED  BY <1>2, <1>3, <1>4, <2>2, SeekReturnsSteady
<1>6. CASE list # <<>>
  <2>1. PICK t, dir, include : t = call.time /\ dir = call.dir /\ include = TRUE  OBVIOUS
  <2>2. list = GetNearestFile(t, dir, include) /\ include \in BOOLEAN  BY <1>1, <2>1
  <2>3. list \in Seq(1..Last)  BY ONLY <1>3, <2>2, NearestType
  <2>4. t \in Nat  BY <1>3, <2>1 DEF CallType
  <2>5. PICK r, q : r = reader /\ q = [r EXCEPT !.file_list = list]  OBVIOUS
  <2>6. ReaderOK(r, Last)  BY <1>3, <2>5
  <2>7. /\ q.file_list = list /\ q.file = r.file /\ q.headers = r.headers /\ q.size = r.size
    BY ONLY <1>3, <2>3, <2>5, <2>6, ListOK
  <2>8. reader' = q /\ Goes("open")  BY <1>2, <1>6, <2>5
  <2>9. reader'.file # 0 => Snapshot(files[reader'.file], reader')
    BY <1>4, <2>5, <2>7, <2>8, SnapshotSame
  <2>10. call.dir = "Next" => \E g \in Int : ListFrom(reader', g)
    <3> SUFFICES ASSUME dir = "Next" PROVE \E g \in Int : ListFrom(q, g)  BY <2>1, <2>8
    <3>1. dir = "Next"  OBVIOUS
    <3>2. \E g \in Int : \A k \in 1..Len(list) : list[k] = g + k
      <4>1. Ordered /\ Last \in Nat  BY <1>3
      <4>2. Following(list, t, include)  BY ONLY <2>2, <2>4, <3>1, <4>1, NearestNext
      <4> QED  BY ONLY <4>2 DEF Following
    <3> QED  BY <2>7, <3>2 DEF ListFrom
  <2> QED  BY <1>2, <2>8, <2>9, <2>10, SeekGoesSteady
<1> QED  BY <1>5, <1>6

LEMMA TailFrom ==
  ASSUME NEW n \in Nat, NEW r, r.file_list \in Seq(1..n), r.file_list # <<>>, NEW g \in Int,
         ListFrom(r, g), NEW q, q.file_list = Tail(r.file_list)
  PROVE  ListFrom(q, Head(r.file_list))
<1>1. PICK list : list = r.file_list  OBVIOUS
<1>2. /\ Head(list) = list[1] /\ Len(list) \in Nat /\ 1 \in 1..Len(list)
      /\ Len(Tail(list)) = Len(list) - 1
  BY <1>1
<1>3. list[1] = g + 1  BY <1>1, <1>2 DEF ListFrom
<1> SUFFICES ASSUME NEW k \in 1..Len(Tail(list)) PROVE Tail(list)[k] = list[1] + k
  BY <1>1, <1>2 DEF ListFrom
<1>4. k \in Nat /\ k + 1 \in 1..Len(list)  BY <1>2
<1>5. Tail(list)[k] = list[k + 1]  BY <1>1, <1>4
<1>6. list[k + 1] = g + (k + 1)  BY <1>1, <1>4 DEF ListFrom
<1> QED  BY <1>3, <1>4, <1>5, <1>6

LEMMA SeekOpenSteady ==
  ASSUME Inv, PlayInv, StraightInv, SeekOpen
  PROVE  StraightInv'
<1>1. pc = "open" /\ UNCHANGED <<writerVars, passed>>  BY DEF SeekOpen
<1>2. /\ call \in CallType /\ Ordered /\ ReaderOK(reader, Last) /\ Last \in Nat
      /\ files \in Seq(FileType) /\ FilesInv
  BY <1>1, InSeek DEF Seeks
<1>3. CASE reader.file_list = <<>>
  <2>1. PICK found : found = FALSE  OBVIOUS
  <2>2. found \in BOOLEAN /\ ~found /\ SeekReturns(found, reader)
    BY <1>3, <2>1 DEF SeekOpen
  <2>3. reader.file # 0 => Snapshot(files[reader.file], reader)  BY DEF StraightInv, Parsing
  <2> QED  BY <1>1, <1>2, <2>2, <2>3, SeekReturnsSteady
<1>4. CASE reader.file_list # <<>>
  <2>1. PICK r, dir, taken : r = reader /\ dir = call.dir /\ taken = Pop(r, dir)  OBVIOUS
  <2>2. PICK at, f : at = (IF Parsed(taken.file) THEN "load" ELSE "open") /\ f = taken.file  OBVIOUS
  <2>3. reader' = ParseHeader(taken.r, f) /\ Goes(at) /\ at \in {"open", "load"}
    BY <1>4, <2>1, <2>2 DEF SeekOpen
  <2>4. ReaderOK(r, Last) /\ r.file_list # <<>> /\ r.file_list \in Seq(1..Last)
    BY <1>2, <1>4, <2>1 DEF ReaderOK
  <2>5. taken = Pop(r, dir)  BY <2>1
  <2>6. /\ taken.file \in 1..Last /\ ReaderOK(taken.r, Last)
        /\ dir = "Next" => taken.file = Head(r.file_list) /\ taken.r.file_list = Tail(r.file_list)
    BY ONLY <1>2, <2>4, <2>5, PopOK
  <2>7. f \in 1..Last /\ ReaderOK(taken.r, Last)  BY <2>2, <2>6
  <2>8. Opened(reader', taken.r, f)  BY <1>2, <2>3, <2>7, OpenedOK
  <2>9. PICK q, x : q = reader' /\ x = files[f]  OBVIOUS
  <2>10. Snapshot(x, q) /\ q.file = f /\ q.file_list = taken.r.file_list
    <3>1. Opened(q, taken.r, f)  BY <2>8, <2>9
    <3> QED  BY <1>2, <2>7, <2>9, <3>1, OpenedIs
  <2>11. ASSUME call.dir = "Next" PROVE ListFrom(q, f) /\ f \in Int
    <3>1. PICK g \in Int : ListFrom(r, g)  BY <1>1, <2>1, <2>11 DEF StraightInv, Listing
    <3>2. f = Head(r.file_list) /\ q.file_list = Tail(r.file_list)
      BY <2>1, <2>2, <2>6, <2>10, <2>11
    <3>3. ListFrom(q, Head(r.file_list))  BY <1>2, <2>4, <3>1, <3>2, TailFrom
    <3> QED  BY <1>2, <2>7, <3>2, <3>3
  <2> QED  BY <1>1, <2>3, <2>9, <2>10, <2>11, SeekGoesSteady
<1> QED  BY <1>3, <1>4

LEMMA SeekLoadSteady ==
  ASSUME Inv, PlayInv, StraightInv, SeekLoad
  PROVE  StraightInv'
<1>1. pc = "load" /\ UNCHANGED <<writerVars, passed>>  BY DEF SeekLoad
<1>2. /\ call \in CallType /\ Ordered /\ ReaderOK(reader, Last) /\ Last \in Nat
      /\ files \in Seq(FileType) /\ FilesInv
  BY <1>1, InSeek DEF Seeks
<1>3. reader.file # 0 /\ reader.file \in 1..Last
  <2>1. reader.file # 0  BY <1>1 DEF Inv, ReaderInv
  <2> QED  BY <1>2, <2>1 DEF ReaderOK, ReaderType
<1>4. Snapshot(files[reader.file], reader)  BY <1>3 DEF StraightInv, Parsing
<1>5. call.dir = "Next" => ListFrom(reader, reader.file)  BY <1>1 DEF StraightInv, Listing
<1>6. PICK r, t, dir, L, start :
        /\ r = reader /\ t = call.time /\ dir = call.dir /\ L = LoadDataByIndex(r, t, dir)
        /\ start = SetIndexPosition(r.headers, t, dir)
  OBVIOUS
<1>7. t \in Int /\ dir \in {"Next", "Prev"} /\ ReaderOK(r, Last)  BY <1>2, <1>6 DEF CallType
<1>8. L = LoadDataByIndex(r, t, dir) /\ start = SetIndexPosition(r.headers, t, dir)  BY <1>6
<1>9. /\ L.ok \in BOOLEAN /\ ReaderOK(L.r, Last) /\ L.r.file = r.file /\ L.r.size = r.size
      /\ L.r.headers = r.headers /\ L.r.file_list = r.file_list
  <2>1. r.file # 0  BY <1>3, <1>6
  <2> QED  BY ONLY <1>2, <1>7, <1>8, <2>1, LoadedOK
<1>10. Snapshot(files[L.r.file], L.r)  BY <1>4, <1>6, <1>9, SnapshotSame
<1>11. call.dir = "Next" => ListFrom(L.r, L.r.file)  BY <1>5, <1>6, <1>9 DEF ListFrom
<1>12. CASE L.ok
  <2>1. PICK i \in 0..(Len(r.headers) - 1), c \in Chunks, v \in Nat :
          LoadHit(r, t, dir, start, L.r, i, c, v)
    BY ONLY <1>2, <1>7, <1>8, <1>12, LoadIs
  <2>2. /\ c = r.headers[i + 1].chunk /\ r.headers[i + 1].own /\ v # 0 /\ v \in Videos(Items(c))
        /\ L.r = Placed(r, i, c, v - 1, Items(c)[v].time)
    BY <2>1 DEF LoadHit, Readable
  <2>3. /\ L.r.data_index = i /\ L.r.datas = c /\ L.r.next = v - 1
        /\ L.r.position = Items(c)[v].time
    BY <1>7, <2>2 DEF Placed, ReaderOK, ReaderType
  <2>4. i + 1 \in 1..Len(r.headers) /\ i = (i + 1) - 1  BY <2>1
  <2>5. Items(c) = Content[c] /\ v \in Videos(Content[c])  BY <2>2, ChunkType
  <2>6. v \in 1..Len(Content[c]) /\ Len(Content[c]) \in Nat  BY <2>5, ContentType
  <2>7. ~Over(L.r) /\ L.r.next + 1 = v  BY <2>3, <2>6 DEF Over
  <2>8. Shown(L.r)  BY <2>3, <2>5, <2>7 DEF Shown, Time
  <2>9. LoadedAt(L.r)
    <3>1. PICK j : j = i + 1  OBVIOUS
    <3>2. j \in 1..Len(L.r.headers) /\ L.r.headers[j].own /\ L.r.datas = L.r.headers[j].chunk
      BY <1>9, <2>2, <2>3, <2>4, <3>1
    <3>3. L.r.data_index = j - 1  BY <2>3, <2>4, <3>1
    <3>4. L.r.file \in 1..Last  BY <1>3, <1>6, <1>9
    <3> QED  BY <1>9, <2>8, <3>2, <3>3, <3>4 DEF LoadedAt
  <2>10. PICK found : found = TRUE  OBVIOUS
  <2>11. found \in BOOLEAN /\ SeekReturns(found, L.r)  BY <1>6, <1>12, <2>10 DEF SeekLoad
  <2> QED  BY <1>1, <1>9, <1>10, <1>11, <2>9, <2>11, SeekReturnsSteady
<1>13. CASE ~L.ok
  <2>1. reader' = L.r /\ Goes("open")  BY <1>6, <1>13 DEF SeekLoad
  <2>2. reader.file \in Int  BY <1>2, <1>3
  <2>3. call.dir = "Next" => \E g \in Int : ListFrom(reader', g)
    BY <1>6, <1>9, <1>11, <2>1, <2>2
  <2> QED  BY <1>1, <1>10, <2>1, <2>3, SeekGoesSteady
<1> QED  BY <1>9, <1>12, <1>13

LEMMA SeekSkipSteady ==
  ASSUME Inv, PlayInv, StraightInv, SeekSkip
  PROVE  StraightInv'
<1>1. pc = "skip" /\ UNCHANGED writerVars /\ reader' = reader /\ passed' = passed /\ files' = files
  BY DEF SeekSkip, writerVars
<1>2. /\ call.op = "seek" /\ status = "none" /\ handed = NoItems /\ StillTold /\ Told
  BY <1>1, InSeek DEF Seeks
<1>3. reader.file # 0  BY <1>1 DEF Inv, ReaderInv
<1>4. Snapshot(files[reader.file], reader)  BY <1>3 DEF StraightInv, Parsing
<1>5. Straight => Calm(files[reader.file], reader, passed, Playing, Heard)
  BY <1>1 DEF StraightInv, Steady, SteadyAt
<1>6. CASE Goes("next")
  <2>1. Onto("next") /\ call' = call  BY <1>6, GoesOnto DEF Goes
  <2>2. Straight => SteadyAt(files, "next", reader', call', passed', Playing, Heard)
    BY <1>1, <1>5 DEF SteadyAt
  <2> QED  BY <1>1, <1>2, <1>4, <2>1, <2>2, OntoSteady DEF Nexts
<1>7. CASE ~Goes("next")
  <2>1. /\ pc' = "idle" /\ call' = NoCall /\ status' = "sought" /\ astray' = ~call.found
        /\ handed' = handed /\ before' = before
    BY <1>7 DEF SeekSkip
  <2>2. Parsing' /\ Listing'  BY <1>1, <1>4, <2>1 DEF Parsing, Listing
  <2>3. Roles'  BY <2>1 DEF Roles, Seeks, Nexts, Prevs, NoCall
  <2>4. Told'  BY <1>1, <1>2, <2>1, ToldStays
  <2>5. Straight' => Straight  BY <1>2, <2>1 DEF Straight, NoCall
  <2>6. ~Playing'  BY <2>1 DEF Playing
  <2>7. Steady'  BY <1>1, <1>5, <2>1, <2>5, <2>6 DEF Steady, SteadyAt, Calm
  <2> QED  BY <1>1, <2>2, <2>3, <2>4, <2>7, OrderedStays DEF StraightInv
<1> QED  BY <1>6, <1>7

LEMMA NextCallSteady ==
  ASSUME Inv, StraightInv, NextCall
  PROVE  StraightInv'
<1>1. /\ pc = "idle" /\ pc' = "next" /\ call' = [NoCall EXCEPT !.op = "next"] /\ status' = status
      /\ astray' = astray /\ handed' = handed /\ before' = before /\ reader' = reader
      /\ passed' = passed /\ files' = files /\ UNCHANGED writerVars /\ status = "playing"
  BY DEF NextCall, Begins, writerVars
<1>2. call'.op = "next"  BY <1>1 DEF NoCall
<1>3. Parsing' /\ Listing'  BY <1>1 DEF StraightInv, Parsing, Listing
<1>4. Roles'  BY <1>1, <1>2 DEF Roles, Seeks, Nexts, Prevs
<1>5. Told'
  <2>1. StillTold  BY <1>1, StillToldThen DEF StraightInv
  <2> QED  BY <1>1, <2>1, ToldStays DEF StraightInv
<1>6. Straight' => Straight  BY <1>1, <1>2 DEF Straight
<1>7. (Playing' <=> Playing) /\ Heard' = Heard  BY <1>1 DEF Playing, Heard
<1>8. Straight => Calm(files[reader.file], reader, passed, Playing, Heard)
  BY <1>1 DEF StraightInv, Steady, SteadyAt
<1>9. Steady'  BY <1>1, <1>6, <1>7, <1>8 DEF Steady, SteadyAt, Calm
<1> QED  BY <1>1, <1>3, <1>4, <1>5, <1>9, OrderedStays DEF StraightInv

\* Backwards nothing is left of going straight on; the reader's snapshot stays one.
LEMMA PrevSteady ==
  ASSUME StraightInv, UNCHANGED writerVars, astray, astray',
         call'.op = "prev" \/ call' = NoCall, pc' \in {"idle"} \cup Prevs,
         pc' = "idle" <=> call' = NoCall,
         status' = "playing" \/ (status' = status /\ handed' = handed),
         reader'.file # 0 => Snapshot(files[reader'.file], reader')
  PROVE  StraightInv'
<1>1. files' = files  BY DEF writerVars
<1>2. Parsing' /\ Listing'  BY <1>1 DEF Parsing, Listing, Prevs
<1>3. Roles'  BY DEF Roles, Seeks, Nexts, Prevs, NoCall
<1>4. ~Straight'  BY DEF Straight, NoCall
<1>5. Told'  BY DEF Told, StraightInv
<1> QED  BY <1>2, <1>3, <1>4, <1>5, NotStraight

LEMMA InPrev ==
  ASSUME Inv, PlayInv, StraightInv, UNCHANGED writerVars, pc \in Prevs
  PROVE  /\ Ordered /\ Last \in Nat /\ files \in Seq(FileType) /\ FilesInv
         /\ ReaderOK(reader, Last) /\ reader.file \in 1..Last /\ reader.file # 0
         /\ Snapshot(files[reader.file], reader) /\ astray /\ call.op = "prev"
         /\ call \in CallType /\ call # NoCall
<1>1. /\ FilesInv /\ Last \in Nat /\ files \in Seq(FileType) /\ ReaderOK(reader, Last)
      /\ reader.file \in 1..Last /\ reader.file # 0
  BY InPlay
<1>2. Ordered /\ astray /\ call.op = "prev"  BY DEF StraightInv, Roles
<1>3. Snapshot(files[reader.file], reader)  BY <1>1 DEF StraightInv, Parsing
<1>4. call \in CallType /\ call # NoCall  BY <1>2 DEF Inv, CallInv, NoCall
<1> QED  BY <1>1, <1>2, <1>3, <1>4

\* What a return of a call, or its going on, has to do with that.
LEMMA PrevReturns ==
  ASSUME astray, NEW items, Returns("prev", items)
  PROVE  /\ astray' /\ pc' = "idle" /\ call' = NoCall
         /\ status' = "playing" \/ (status' = status /\ handed' = handed)
BY DEF Returns

LEMMA PrevGoes ==
  ASSUME astray, NEW at \in Prevs, Goes(at), call.op = "prev"
  PROVE  /\ astray' /\ pc' = at /\ pc' # "idle" /\ call'.op = "prev" /\ call' # NoCall
         /\ status' = status /\ handed' = handed
BY DEF Goes, historyVars, Prevs, NoCall

LEMMA PrevCallSteady ==
  ASSUME Inv, StraightInv, PrevCall
  PROVE  StraightInv'
<1>1. /\ pc' = "prev" /\ call' = [NoCall EXCEPT !.op = "prev"] /\ astray' /\ status' = status
      /\ handed' = handed /\ reader' = reader /\ UNCHANGED writerVars /\ files' = files
  BY DEF PrevCall, Begins, writerVars
<1>2. call'.op = "prev" /\ ~call'.found  BY <1>1 DEF NoCall
<1>3. Parsing' /\ Listing'  BY <1>1 DEF StraightInv, Parsing, Listing
<1>4. Roles'  BY <1>1, <1>2 DEF Roles, Seeks, Nexts, Prevs
<1>5. ~Straight'  BY <1>1, <1>2 DEF Straight
<1>6. Told'  BY <1>1 DEF Told, StraightInv
<1> QED  BY <1>1, <1>3, <1>4, <1>5, <1>6, NotStraight

LEMMA PrevStepsSteady ==
  ASSUME Inv, PlayInv, StraightInv, PrevInFile \/ PrevFile \/ PrevOpen \/ PrevLoad
  PROVE  StraightInv'
<1>1. UNCHANGED writerVars /\ pc \in Prevs
  BY DEF PrevInFile, PrevFile, PrevOpen, PrevLoad, Prevs
<1>2. /\ Ordered /\ Last \in Nat /\ files \in Seq(FileType) /\ FilesInv
      /\ ReaderOK(reader, Last) /\ reader.file \in 1..Last /\ reader.file # 0
      /\ Snapshot(files[reader.file], reader) /\ astray /\ call.op = "prev"
      /\ call \in CallType /\ call # NoCall
  BY <1>1, InPrev
<1>3. PICK r, x : r = reader /\ x = files[r.file]  OBVIOUS
<1>4. ReaderOK(r, Last) /\ Snapshot(x, r) /\ r.file \in 1..Last  BY <1>2, <1>3
<1>5. CASE PrevInFile
  <2>1. PICK G : G = GetPrevData(r)  OBVIOUS
  <2>2. /\ reader' = G.r
        /\ IF G.got # <<>> THEN Returns("prev", G.got) ELSE Goes("prevfile")
    BY <1>3, <1>5, <2>1 DEF PrevInFile
  <2>3. G.r.file = r.file /\ G.r.headers = r.headers /\ G.r.size = r.size
    BY ONLY <1>2, <1>4, <2>1, PrevDataOK
  <2>4. Snapshot(files[reader'.file], reader')  BY <1>3, <1>4, <2>2, <2>3, SnapshotSame
  <2>5. CASE G.got # <<>>
    BY <1>1, <1>2, <2>2, <2>4, <2>5, PrevReturns, PrevSteady
  <2>6. CASE G.got = <<>>
    <3>1. Goes("prevfile") /\ "prevfile" \in Prevs  BY <2>2, <2>6 DEF Prevs
    <3> QED  BY <1>1, <1>2, <2>4, <3>1, PrevGoes, PrevSteady
  <2> QED  BY <2>5, <2>6
<1>6. CASE PrevFile
  <2>1. PICK time, list, taken :
          /\ time = reader.opened - 1 /\ list = Listed(time, "Prev")
          /\ taken = Pop([reader EXCEPT !.file_list = list], "Prev")
    OBVIOUS
  <2>2. CASE list = <<>>
    <3>1. Returns("prev", <<>>) /\ reader' = reader  BY <1>6, <2>1, <2>2 DEF PrevFile, Listed
    <3> QED  BY <1>1, <1>2, <3>1, PrevReturns, PrevSteady
  <2>3. CASE list # <<>>
    <3>1. /\ reader' = taken.r /\ pc' = "openprev"
          /\ call' = [call EXCEPT !.file = taken.file, !.time = time]
          /\ UNCHANGED <<status, historyVars>>
      BY <1>6, <2>1, <2>3 DEF PrevFile, Listed
    <3>2. Takes(taken, time, "Prev")  BY <2>1, <2>3 DEF Takes
    <3>3. TakenOff(taken)  BY <1>2, <3>2, FromList
    <3>4. Snapshot(files[reader'.file], reader')  BY <1>2, <3>1, <3>3, SnapshotSame DEF TakenOff
    <3>5. call'.op = "prev" /\ call' # NoCall  BY <1>2, <3>1 DEF CallType, NoCall
    <3>6. astray' /\ status' = status /\ handed' = handed  BY <1>2, <3>1 DEF historyVars
    <3>7. pc' \in Prevs /\ pc' # "idle"  BY <3>1 DEF Prevs
    <3> QED  BY <1>1, <1>2, <3>4, <3>5, <3>6, <3>7, PrevSteady
  <2> QED  BY <2>2, <2>3
<1>7. CASE PrevOpen
  <2>1. PICK f, q : f = call.file /\ q = ParseHeader(r, f)  OBVIOUS
  <2>2. reader' = q /\ IF Parsed(f) THEN Goes("loadprev") ELSE Returns("prev", <<>>)
    BY <1>3, <1>7, <2>1 DEF PrevOpen
  <2>3. f \in 1..Last  BY <1>7, <2>1 DEF PrevOpen, Inv, CallInv
  <2>4. Opened(q, r, f)  BY <1>2, <1>4, <2>1, <2>3, OpenedOK
  <2>5. Snapshot(files[f], q) /\ q.file = f  BY <1>2, <2>3, <2>4, OpenedIs
  <2>6. Snapshot(files[reader'.file], reader')  BY <2>2, <2>5
  <2>7. CASE Parsed(f)
    <3>1. Goes("loadprev") /\ "loadprev" \in Prevs  BY <2>2, <2>7 DEF Prevs
    <3> QED  BY <1>1, <1>2, <2>6, <3>1, PrevGoes, PrevSteady
  <2>8. CASE ~Parsed(f)
    <3>1. Returns("prev", <<>>)  BY <2>2, <2>8
    <3> QED  BY <1>1, <1>2, <2>6, <3>1, PrevReturns, PrevSteady
  <2> QED  BY <2>7, <2>8
<1>8. CASE PrevLoad
  <2>1. PICK t, dir, target : t = call.time /\ dir = "Prev" /\ target = FALSE  OBVIOUS
  <2>2. PICK L, G : L = LoadDataByIndex(r, t, dir) /\ G = GetStreamChunk(L.r, target)  OBVIOUS
  <2>3. IF L.ok THEN reader' = G.r /\ Returns("prev", G.got)
                ELSE reader' = L.r /\ Returns("prev", <<>>)
    BY <1>3, <1>8, <2>1, <2>2 DEF PrevLoad
  <2>4. t \in Int /\ dir \in {"Next", "Prev"} /\ r.file # 0  BY <1>2, <1>3, <2>1 DEF CallType
  <2>5. /\ ReaderOK(L.r, Last) /\ L.r.file = r.file /\ L.r.size = r.size
        /\ L.r.headers = r.headers
    BY ONLY <1>2, <1>4, <2>2, <2>4, LoadedOK
  <2>6. SameLoaded(G.r, L.r)  BY ONLY <1>2, <2>2, <2>5, StreamChunkOK
  <2>7. reader' = G.r \/ reader' = L.r  BY <2>3
  <2>8. Snapshot(files[reader'.file], reader')
    BY <1>3, <1>4, <2>5, <2>6, <2>7, SnapshotSame DEF SameLoaded
  <2>9. \E items : Returns("prev", items)  BY <2>3
  <2> QED  BY <1>1, <1>2, <2>8, <2>9, PrevReturns, PrevSteady
<1> QED  BY <1>5, <1>6, <1>7, <1>8

\* A part of the chunk that is loaded went out, and the position is that of a frame.
LEMMA PartSteady ==
  ASSUME NEW n \in Nat, NEW r, ReaderOK(r, n), NEW c \in Chunks, c = r.datas, NEW G,
         NEW s \in Videos(Content[c]), NEW u \in 1..Len(Content[c]), NEW p \in Videos(Content[c]),
         PartOf(r, Content[c], G, s, u, p), p = u \/ p = u + 1, NEW lv
  PROVE  Shown(G.r) /\ Gone(G.r, LastVideo(G.got, lv))
<1>1. /\ Content[c] \in Seq(Item) /\ Len(Content[c]) \in Nat
      /\ Videos(Content[c]) \subseteq 1..Len(Content[c])
  BY ChunkType, ContentType
<1>2. /\ s <= u /\ u <= p /\ G.got = SubSeq(Content[c], s, u)
      /\ G.r = Placed(r, r.data_index, r.datas, NextVideo(Content[c], u), Content[c][p].time)
  BY DEF PartOf
<1>3. u \in Nat /\ p \in Nat /\ s \in Nat /\ u \in s..Len(Content[c]) /\ u \in 0..Len(Content[c])
  BY <1>1, <1>2
<1>4. PICK m : m = NextVideo(Content[c], u)  OBVIOUS
<1>5. /\ m \in u..Len(Content[c]) /\ m \in Nat
      /\ m < Len(Content[c]) => m + 1 \in Videos(Content[c])
      /\ \A i \in Videos(Content[c]) : i > u => i > m
  BY <1>1, <1>3, <1>4, NextVideoIs
<1>6. PICK q : q = G.r  OBVIOUS
<1>7. q.datas = c /\ q.next = m /\ q.position = Time(c, p)
  <2>1. q = Placed(r, r.data_index, c, m, Time(c, p))  BY <1>2, <1>4, <1>6 DEF Time
  <2> QED  BY <2>1 DEF ReaderOK, ReaderType, Placed
<1>8. \A i \in Videos(Content[c]) : i \in Nat /\ i \in 1..Len(Content[c]) /\ (i <= m <=> i <= u)
  BY <1>1, <1>3, <1>5
<1>9. Shown(q)
  <2>1. CASE m < Len(Content[c])
    <3>1. ~Over(q)  BY <1>1, <1>5, <1>7, <2>1 DEF Over
    <3> QED  BY <1>5, <1>7, <2>1, <3>1 DEF Shown
  <2>2. CASE ~(m < Len(Content[c]))
    <3>1. m = Len(Content[c])  BY <1>1, <1>3, <1>5, <2>2
    <3>2. PICK v \in Videos(Content[c]) : End(c) = Time(c, v) /\ \A w \in Videos(Content[c]) : w <= v
      BY Spans
    <3>3. v <= u /\ p <= v /\ v \in Nat  BY <1>1, <1>8, <3>1, <3>2
    <3>4. v = p  BY <1>2, <1>3, <3>3
    <3> QED  BY <1>7, <3>1, <3>2, <3>4 DEF Shown, Over
  <2> QED  BY <2>1, <2>2
<1>10. PICK v \in Videos(Content[c]) :
         /\ s <= v /\ v <= u /\ LastVideo(SubSeq(Content[c], s, u), lv) = Time(c, v)
         /\ \A z \in Videos(Content[c]) : z <= u => z <= v
  BY <1>3, LastOf
<1>11. Gone(q, Time(c, v))
  <2>1. v \in Nat /\ p \in 1..Len(Content[c]) /\ v \in 1..Len(Content[c])  BY <1>1, <1>8
  <2>2. Time(c, v) <= Time(c, p)
    <3>1. v <= p  BY <1>2, <1>3, <1>10, <2>1
    <3> QED  BY <2>1, <3>1, NotBefore
  <2>3. ASSUME NEW w \in Videos(Content[c]) PROVE w <= m <=> Time(c, w) <= Time(c, v)
    <3>1. w \in Nat /\ w \in 1..Len(Content[c]) /\ (w <= m <=> w <= u)  BY <1>8
    <3>2. w <= u <=> w <= v  BY <1>3, <1>10, <2>1, <3>1
    <3> QED  BY <2>1, <3>1, <3>2, NotBefore
  <2>4. 1 <= m  BY <1>1, <1>3, <1>5
  <2>5. Time(c, v) \in Nat  BY Spans
  <2> QED  BY <1>7, <2>2, <2>3, <2>4, <2>5 DEF Gone
<1> QED  BY <1>2, <1>6, <1>9, <1>10, <1>11

LEMMA FrameAt ==
  ASSUME NEW c \in Chunks, NEW p \in 1..Len(Content[c]), Time(c, p) \in Frames({c})
  PROVE  p \in Videos(Content[c])
<1>1. PICK i \in Videos(Content[c]) : Time(c, p) = Time(c, i)  BY DEF Frames, Time
<1>2. i \in 1..Len(Content[c]) /\ Len(Content[c]) \in Nat  BY ContentType
<1>3. p <= i /\ i <= p /\ Time(c, i) \in Nat  BY <1>1, <1>2, NotBefore, TimeType
<1>4. p = i  BY <1>2, <1>3
<1> QED  BY <1>4

\* GetStreamGop and GetStreamChunk start at a frame, and end at or before one.
LEMMA StreamSteady ==
  ASSUME NEW n \in Nat, NEW r, ReaderOK(r, n), r.datas \in Chunks, NEW target, NEW G,
         G = GetStreamGop(r, target) \/ G = GetStreamChunk(r, target),
         G.r.position \in Frames({r.datas}), NEW lv
  PROVE  SameLoaded(G.r, r) /\ Shown(G.r) /\ Gone(G.r, LastVideo(G.got, lv))
<1>1. SameLoaded(G.r, r)
  <2>1. CASE G = GetStreamGop(r, target)  BY <2>1, StreamGopOK
  <2>2. CASE G = GetStreamChunk(r, target)  BY <2>2, StreamChunkOK
  <2> QED  BY <2>1, <2>2
<1>2. PICK c, items : c = r.datas /\ items = Items(r.datas)  OBVIOUS
<1>3. /\ c \in Chunks /\ items = Content[c] /\ items # <<>> /\ r \in ReaderType
      /\ Content[c] \in Seq(Item) /\ Len(Content[c]) \in Nat /\ 1 \in Videos(Content[c])
      /\ 1 \in 1..Len(Content[c])
  BY <1>2, ChunkType, ContentType, ItemsType DEF ReaderOK
<1>4. PICK s \in 1..Len(items), u \in 1..Len(items), p \in 1..Len(items) :
        /\ PartOf(r, items, G, s, u, p) /\ (s = 1 \/ items[s].kind = "I")
        /\ p = u \/ p = u + 1
  <2>1. CASE G = GetStreamGop(r, target)
    <3>1. PICK s, u, p \in 1..Len(items) :
            /\ PartOf(r, items, G, s, u, p) /\ (s = 1 \/ items[s].kind = "I")
            /\ p = u \/ (p = u + 1 /\ items[p].kind = "I")
      <4>1. r \in ReaderType /\ items = Items(r.datas) /\ items # <<>>  BY <1>2, <1>3
      <4> QED  BY <2>1, <4>1, StreamGopIs
    <3> QED  BY <3>1
  <2>2. CASE G = GetStreamChunk(r, target)
    <3>1. \E upto \in 1..Len(items) : PartOf(r, items, G, 1, upto, upto)
      BY ONLY <1>2, <1>3, <2>2, StreamChunkIs
    <3> QED  BY <1>3, <3>1
  <2> QED  BY <2>1, <2>2
<1>5. s \in Videos(Content[c])  BY <1>3, <1>4 DEF Videos, IsVideo
<1>6. p \in Videos(Content[c])
  <2>1. G.r = Placed(r, r.data_index, r.datas, NextVideo(items, u), Time(c, p))
    BY <1>3, <1>4 DEF PartOf, Time
  <2>2. G.r.position = Time(c, p)  BY <1>3, <2>1 DEF Placed, ReaderType
  <2> QED  BY <1>2, <1>3, <1>4, <2>2, FrameAt
<1>7. PartOf(r, Content[c], G, s, u, p) /\ u \in 1..Len(Content[c]) /\ (p = u \/ p = u + 1)
  BY <1>3, <1>4
<1>8. Shown(G.r) /\ Gone(G.r, LastVideo(G.got, lv))
  <2>1. c = r.datas  BY <1>2
  <2> QED  BY ONLY n \in Nat, ReaderOK(r, n), <1>3, <1>5, <1>6, <1>7, <2>1, PartSteady
<1> QED  BY <1>1, <1>8

LEMMA StreamStepSteady ==
  ASSUME Inv, PlayInv, StraightInv, NEW target \in BOOLEAN,
         NEW by \in {"gop to target", "gop", "chunk"}, NEW found,
         found = GetStreamGop(reader, target) \/ found = GetStreamChunk(reader, target),
         Stream(by, found)
  PROVE  StraightInv'
<1>1. /\ pc = "idle" /\ status # "none" /\ reader' = found.r /\ UNCHANGED <<writerVars, pc, call, passed>>
      /\ handed' = [by |-> by, items |-> found.got] /\ before' = Heard /\ status' = "playing"
      /\ astray' = (astray \/ found.r.position \notin Frames({reader.datas} \ {0}))
      /\ files' = files /\ pc' = "idle"
  BY DEF Stream, Heard, writerVars
<1>2. call = NoCall /\ call' = NoCall  BY <1>1 DEF StraightInv, Roles
<1>3. Last \in Nat /\ ReaderOK(reader, Last) /\ reader.file # 0
  <2>1. Stays  BY <1>1, SameFiles
  <2> QED  BY <1>1, <2>1 DEF Stays, ReaderInv
<1>4. SameLoaded(found.r, reader)
  <2>1. CASE found = GetStreamGop(reader, target)  BY <1>3, <2>1, StreamGopOK
  <2>2. CASE found = GetStreamChunk(reader, target)  BY <1>3, <2>2, StreamChunkOK
  <2> QED  BY <2>1, <2>2
<1>5. PICK x : x = files[reader.file]  OBVIOUS
<1>6. Snapshot(x, found.r)
  BY <1>3, <1>4, <1>5, SnapshotSame DEF StraightInv, Parsing, SameLoaded
<1>7. Parsing' /\ Listing'  BY <1>1, <1>4, <1>5, <1>6 DEF Parsing, Listing, SameLoaded
<1>8. Roles'
  <2>1. pc' = "idle" /\ call' = NoCall  BY <1>1, <1>2
  <2> QED  BY ONLY <2>1 DEF Roles, Seeks, Nexts, Prevs, NoCall
<1>9. handed'.by \notin {"next", "again"} /\ handed'.items = found.got  BY <1>1
<1>10. Told'  BY <1>1, <1>9 DEF Told
<1>11. Steady'
  <2>1. CASE astray'
    <3>1. ~Straight'  BY <1>2, <2>1 DEF Straight, NoCall
    <3> QED  BY <3>1 DEF Steady
  <2>2. CASE ~astray'
    <3>1. Straight /\ found.r.position \in Frames({reader.datas} \ {0}) /\ ~astray
      BY <1>1, <2>2 DEF Straight
    <3>2. Ready(x, reader, passed)
      BY <1>1, <1>5, <3>1 DEF StraightInv, Steady, SteadyAt, Calm
    <3>3. reader.datas \in Chunks  BY <3>2 DEF Ready, Shown
    <3>4. {reader.datas} \ {0} = {reader.datas}  BY <3>3, ChunkType
    <3>5. Shown(found.r) /\ Gone(found.r, LastVideo(found.got, Heard))
      BY <1>3, <3>1, <3>3, <3>4, StreamSteady
    <3>6. Ready(x, found.r, passed)  BY <1>4, <3>2, <3>5, SameReady
    <3>7. Heard' = LastVideo(found.got, Heard)  BY <1>1, <1>9 DEF Heard
    <3>8. files'[reader'.file] = x  BY <1>1, <1>4, <1>5 DEF SameLoaded
    <3>9. Calm(x, reader', passed', Playing', Heard')  BY <1>1, <3>5, <3>6, <3>7 DEF Calm
    <3> QED  BY <1>1, <3>8, <3>9 DEF Steady, SteadyAt
  <2> QED  BY <2>1, <2>2
<1> QED  BY <1>1, <1>7, <1>8, <1>10, <1>11, OrderedStays DEF StraightInv

LEMMA StreamsSteady ==
  ASSUME Inv, PlayInv, StraightInv, StreamGop \/ StreamChunk
  PROVE  StraightInv'
<1>1. CASE StreamGop
  <2>1. PICK target \in BOOLEAN :
          Stream(IF target THEN "gop to target" ELSE "gop", GetStreamGop(reader, target))
    BY <1>1 DEF StreamGop
  <2>2. PICK by, found : /\ by = (IF target THEN "gop to target" ELSE "gop")
                         /\ found = GetStreamGop(reader, target)
    OBVIOUS
  <2>3. by \in {"gop to target", "gop", "chunk"} /\ Stream(by, found)  BY <2>1, <2>2
  <2> QED  BY <2>2, <2>3, StreamStepSteady
<1>2. CASE StreamChunk
  <2>1. PICK target \in BOOLEAN : Stream("chunk", GetStreamChunk(reader, target))
    BY <1>2 DEF StreamChunk
  <2>2. PICK by, found : by = "chunk" /\ found = GetStreamChunk(reader, target)  OBVIOUS
  <2>3. by \in {"gop to target", "gop", "chunk"} /\ Stream(by, found)  BY <2>1, <2>2
  <2> QED  BY <2>2, <2>3, StreamStepSteady
<1> QED  BY <1>1, <1>2

-----------------------------------------------------------------------------
(***************************************************************************)
(* What the writer adds to the files changes nothing of that.              *)
(***************************************************************************)
LEMMA GrowsAre ==
  ASSUME NEW fs, NEW gs, OrderOf(fs), OrderOf(gs), Grows(fs, gs), NEW f \in 1..Len(fs)
  PROVE  /\ f \in 1..Len(gs) /\ More(fs[f], gs[f])
         /\ fs[f] \in FileType /\ gs[f] \in FileType /\ InOrder(fs[f]) /\ InOrder(gs[f])
         /\ FirstOf(gs[f]) = FirstOf(fs[f])
<1>1. fs \in Seq(FileType) /\ gs \in Seq(FileType)  BY DEF OrderOf
<1>2. f \in 1..Len(gs)  BY <1>1 DEF Grows
<1>3. More(fs[f], gs[f])  BY DEF Grows
<1> QED  BY <1>2, <1>3, FilesAre DEF More, FirstOf

LEMMA SnapshotGrows ==
  ASSUME NEW n, NEW r, ReaderOK(r, n), NEW x \in FileType, NEW y \in FileType, More(x, y),
         Snapshot(x, r)
  PROVE  Snapshot(y, r)
<1>1. PICK k \in 0..Len(r.headers) : SnapshotOf(x, r, k)  BY DEF Snapshot
<1>2. /\ r.size \in Nat /\ k \in Int /\ Len(x.own) \in Nat /\ Len(y.own) \in Nat
      /\ SizeOf(x) \in Nat /\ SizeOf(y) \in Nat
  BY <1>1, FileShape DEF ReaderOK, ReaderType
<1>3. FirstOf(y) = FirstOf(x) /\ Len(x.own) <= Len(y.own) /\ SizeOf(x) <= SizeOf(y)
  BY DEF More, FirstOf
<1>4. k <= Len(y.own) /\ r.size <= SizeOf(y)
  <2>1. k <= Len(x.own) /\ r.size <= SizeOf(x)  BY <1>1 DEF SnapshotOf
  <2> QED  BY <1>2, <1>3, <2>1
<1>5. SnapshotOf(y, r, k)  BY <1>1, <1>3, <1>4 DEF SnapshotOf
<1> QED  BY <1>1, <1>5 DEF Snapshot

LEMMA ReadyGrows ==
  ASSUME NEW x, NEW y, More(x, y), NEW r, NEW p, Ready(x, r, p)
  PROVE  Ready(y, r, p)
<1>1. Lies(y, r)  BY DEF Ready, Lies, More
<1>2. Coming(y, r, p)  BY DEF Ready, Coming, Beyond, More
<1> QED  BY <1>1, <1>2 DEF Ready

LEMMA MissedGrows ==
  ASSUME NEW fs, NEW gs, OrderOf(fs), OrderOf(gs), Grows(fs, gs), NEW r, NEW p, NEW m,
         Missed(fs, r, p, m)
  PROVE  Missed(gs, r, p, m)
<1> SUFFICES ASSUME NEW e \in Later(r, p), e \notin m
             PROVE  \E h \in 1..Len(gs) : h > r.file /\ Holds(gs[h], e)
  BY DEF Missed
<1>1. PICK h \in 1..Len(fs) : h > r.file /\ Holds(fs[h], e)  BY DEF Missed
<1>2. /\ h \in 1..Len(gs) /\ More(fs[h], gs[h]) /\ fs[h] \in FileType /\ gs[h] \in FileType
      /\ InOrder(fs[h]) /\ InOrder(gs[h]) /\ FirstOf(gs[h]) = FirstOf(fs[h])
  BY GrowsAre
<1>3. /\ e \in Nat /\ FirstOf(fs[h]) \in Nat /\ Len(fs[h].own) \in Nat /\ Len(gs[h].own) \in Nat
  <2>1. e \in Chunks  BY DEF Later
  <2> QED  BY <1>2, <2>1, Apart, OrderIs, FileShape
<1>4. Len(fs[h].own) <= Len(gs[h].own)  BY <1>2 DEF More
<1>5. FirstOf(fs[h]) <= e /\ e < FirstOf(fs[h]) + Len(fs[h].own)  BY <1>1 DEF Holds, UntilOf
<1>6. FirstOf(gs[h]) <= e /\ e < FirstOf(gs[h]) + Len(gs[h].own)  BY <1>2, <1>3, <1>4, <1>5
<1>7. Holds(gs[h], e)  BY <1>6 DEF Holds, UntilOf
<1> QED  BY <1>1, <1>2, <1>7

LEMMA LoneGrows ==
  ASSUME NEW fs, NEW gs, OrderOf(fs), OrderOf(gs), Grows(fs, gs), NEW t, LoneIn(fs, t)
  PROVE  LoneIn(gs, t)
<1>1. PICK f \in 1..Len(fs) : fs[f].stamp = t  BY DEF LoneIn
<1>2. f \in 1..Len(gs) /\ gs[f].stamp = t  BY <1>1, GrowsAre DEF More
<1> QED  BY <1>2 DEF LoneIn

LEMMA SteadyGrows ==
  ASSUME NEW fs, NEW gs, OrderOf(fs), OrderOf(gs), Grows(fs, gs), NEW at, NEW r, NEW k, NEW p,
         NEW playing, NEW l, SteadyAt(fs, at, r, k, p, playing, l), r.file \in 1..Len(fs),
         at \in {"opennext", "loadnext"} => k.file \in 1..Len(fs)
  PROVE  SteadyAt(gs, at, r, k, p, playing, l)
<1>1. PICK x, y : x = fs[r.file] /\ y = gs[r.file]  OBVIOUS
<1>2. More(x, y)  BY <1>1, GrowsAre
<1>3. Ready(x, r, p) => Ready(y, r, p)  BY <1>2, ReadyGrows
<1>4. Calm(x, r, p, playing, l) => Calm(y, r, p, playing, l)  BY <1>3 DEF Calm
<1>5. Landed(x, r, p, playing, l) => Landed(y, r, p, playing, l)  BY <1>3 DEF Landed
<1>6. Missed(fs, r, p, k.missing) => Missed(gs, r, p, k.missing)  BY MissedGrows
<1>7. LoneIn(fs, r.position) => LoneIn(gs, r.position)  BY LoneGrows
<1>8. Lies(x, r) /\ Beyond(x, r, p) => Lies(y, r) /\ Beyond(y, r, p)
  BY <1>2 DEF Lies, Beyond, More
<1>9. ASSUME at \in {"opennext", "loadnext"} PROVE Towards(gs[k.file], r, k.file, p)
  <2>1. Towards(fs[k.file], r, k.file, p)  BY <1>9 DEF SteadyAt
  <2>2. More(fs[k.file], gs[k.file])  BY <1>9, GrowsAre
  <2> QED  BY <2>1, <2>2 DEF Towards, Beyond, More
<1>10. at \in {"idle", "skip", "next", "grown", "nextfile"} => Calm(y, r, p, playing, l)
  BY <1>1, <1>4 DEF SteadyAt
<1>11. at = "grown" => Over(r) /\ Unread(r)  BY DEF SteadyAt
<1>12. at = "nextfile" => Over(r) /\ Missed(gs, r, p, k.missing)  BY <1>6 DEF SteadyAt
<1>13. at \in {"reload", "opennext", "loadnext"} => Ended(r, playing, l)  BY DEF SteadyAt
<1>14. at = "reload" => Lies(y, r) /\ ListFrom(r, r.file) /\ Beyond(y, r, p)
  BY <1>1, <1>8 DEF SteadyAt
<1>15. at = "loadnext" => r.file = k.file  BY DEF SteadyAt
<1>16. at \in {"retake", "take"} => Landed(y, r, p, playing, l)  BY <1>1, <1>5 DEF SteadyAt
<1>17. at = "take" /\ playing => l < r.position \/ LoneIn(gs, r.position)
  BY <1>7 DEF SteadyAt
<1> QED
  BY ONLY <1>1, <1>9, <1>10, <1>11, <1>12, <1>13, <1>14, <1>15, <1>16, <1>17 DEF SteadyAt

LEMMA WriterSteady ==
  ASSUME Inv, StraightInv, Writer
  PROVE  StraightInv'
<1>1. Ordered' /\ Grows(files, files')  BY WriterOrders DEF StraightInv
<1>2. /\ reader' = reader /\ pc' = pc /\ call' = call /\ status' = status /\ handed' = handed
      /\ before' = before /\ astray' = astray /\ passed' = passed
  BY DEF Writer, Create, InitBuffer, WriteIndexInfo, WriteDisk, FileClose, historyVars
<1>3. OrderOf(files) /\ OrderOf(files')  BY <1>1 DEF StraightInv, Ordered
<1>4. ReaderOK(reader, Len(files)) /\ Len(files) \in Nat
  <2>1. files \in Seq(FileType)  BY <1>3 DEF OrderOf
  <2> QED  BY <2>1 DEF Inv, ReaderInv, Last
<1>5. reader.file # 0 => reader.file \in 1..Len(files)  BY <1>4 DEF ReaderOK, ReaderType
<1>6. Parsing'
  <2>1. ASSUME reader.file # 0 PROVE Snapshot(files'[reader.file], reader)
    <3>1. Snapshot(files[reader.file], reader)  BY <2>1 DEF StraightInv, Parsing
    <3>2. /\ files[reader.file] \in FileType /\ files'[reader.file] \in FileType
          /\ More(files[reader.file], files'[reader.file])
      BY <1>1, <1>3, <1>5, <2>1, GrowsAre
    <3> QED  BY <1>4, <3>1, <3>2, SnapshotGrows
  <2> QED  BY <1>2, <2>1 DEF Parsing
<1>7. Listing' /\ Roles'
  <2>1. Listing /\ Roles  BY DEF StraightInv
  <2> QED  BY <1>2, <2>1 DEF Listing, Roles
<1>8. Heard' = Heard /\ (Playing' <=> Playing) /\ (Straight' <=> Straight)
  BY <1>2 DEF Heard, Playing, Straight
<1>9. Steady'
  <2>1. ASSUME Straight PROVE SteadyAt(files', pc, reader, call, passed, Playing, Heard)
    <3>1. SteadyAt(files, pc, reader, call, passed, Playing, Heard)
      BY <2>1 DEF StraightInv, Steady
    <3>2. reader.file \in 1..Len(files)
      <4>1. SUFFICES ASSUME reader.file = 0 PROVE FALSE  BY <1>5
      <4>2. status = "none" /\ pc \in {"idle", "list", "open"}  BY <4>1 DEF Inv, ReaderInv
      <4>3. ~call.found  BY <4>2 DEF StraightInv, Roles, NoCall
      <4> QED  BY <2>1, <4>2, <4>3 DEF Straight
    <3>3. pc \in {"opennext", "loadnext"} => call.file \in 1..Len(files)
      BY DEF Inv, CallInv, Last
    <3> QED  BY <1>1, <1>3, <3>1, <3>2, <3>3, SteadyGrows
  <2> QED  BY <1>2, <1>8, <2>1 DEF Steady, Playing, Heard
<1>10. Told'
  <2>1. Told /\ (LoneIn(files, Heard) => LoneIn(files', Heard))
    BY <1>1, <1>3, LoneGrows DEF StraightInv
  <2> QED  BY <1>2, <1>8, <2>1 DEF Told
<1> QED  BY <1>1, <1>6, <1>7, <1>9, <1>10 DEF StraightInv

LEMMA SameSteady ==
  ASSUME StraightInv, UNCHANGED vars
  PROVE  StraightInv'
<1>1. /\ files' = files /\ written' = written /\ open' = open /\ reader' = reader /\ pc' = pc
      /\ call' = call /\ status' = status /\ handed' = handed /\ before' = before
      /\ astray' = astray /\ passed' = passed
  BY DEF vars, writerVars, historyVars
<1>2. Ordered'  BY <1>1 DEF StraightInv, Ordered, Last
<1>3. Parsing' /\ Listing' /\ Roles'  BY <1>1 DEF StraightInv, Parsing, Listing, Roles
<1>4. Heard' = Heard /\ (Playing' <=> Playing) /\ (Straight' <=> Straight)
  BY <1>1 DEF Heard, Playing, Straight
<1>5. Steady'
  <2>1. Straight => SteadyAt(files, pc, reader, call, passed, Playing, Heard)
    BY DEF StraightInv, Steady
  <2> QED  BY <1>1, <1>4, <2>1 DEF Steady, Playing, Heard
<1>6. Told'  BY <1>1, <1>4 DEF StraightInv, Told
<1> QED  BY <1>2, <1>3, <1>5, <1>6 DEF StraightInv

LEMMA NextStepsSteady ==
  ASSUME Inv, PlayInv, StraightInv, NextRetake \/ NextFileTake
  PROVE  StraightInv'
<1>1. CASE NextRetake
  <2>1. PICK at, by : at = "retake" /\ by = "again"  OBVIOUS
  <2> QED  BY <1>1, <2>1, NextTakeSteady DEF NextRetake
<1>2. CASE NextFileTake
  <2>1. PICK at, by : at = "take" /\ by = "next"  OBVIOUS
  <2> QED  BY <1>2, <2>1, NextTakeSteady DEF NextFileTake
<1> QED  BY <1>1, <1>2

LEMMA StepStraight == Inv /\ PlayInv /\ StraightInv /\ [Next]_vars => StraightInv'
<1> SUFFICES ASSUME Inv, PlayInv, StraightInv, [Next]_vars PROVE StraightInv'  OBVIOUS
<1>1. CASE Writer  BY <1>1, WriterSteady
<1>2. CASE Seek  BY <1>2, SeekSteady
<1>3. CASE NextCall  BY <1>3, NextCallSteady
<1>4. CASE PrevCall  BY <1>4, PrevCallSteady
<1>5. CASE StreamGop \/ StreamChunk  BY <1>5, StreamsSteady
<1>6. CASE Continues
  <2>1. CASE SeekList  BY <2>1, SeekListSteady
  <2>2. CASE SeekOpen  BY <2>2, SeekOpenSteady
  <2>3. CASE SeekLoad  BY <2>3, SeekLoadSteady
  <2>4. CASE SeekSkip  BY <2>4, SeekSkipSteady
  <2>5. CASE NextInFile  BY <2>5, NextInFileSteady
  <2>6. CASE NextIfGrown  BY <2>6, NotGrownSteady, GrownSteady
  <2>7. CASE NextReload  BY <2>7, NextReloadSteady
  <2>8. CASE NextRetake \/ NextFileTake  BY <2>8, NextStepsSteady
  <2>9. CASE NextFile  BY <2>9, NextFileSteady
  <2>10. CASE NextOpen  BY <2>10, NextOpenSteady
  <2>11. CASE NextFileLoad  BY <2>11, NextFileLoadSteady
  <2>12. CASE PrevInFile \/ PrevFile \/ PrevOpen \/ PrevLoad  BY <2>12, PrevStepsSteady
  <2> QED
    BY <1>6, <2>1, <2>2, <2>3, <2>4, <2>5, <2>6, <2>7, <2>8, <2>9, <2>10, <2>11, <2>12
    DEF Continues
<1>7. CASE UNCHANGED vars  BY <1>7, SameSteady
<1> QED  BY <1>1, <1>2, <1>3, <1>4, <1>5, <1>6, <1>7 DEF Next

\* What is handed out forwards, as the runs check it.
LEMMA ToldForward == StraightInv => ForwardOnly
<1> SUFFICES ASSUME Told, ~astray, handed.by \in {"next", "again"}, Videos(handed.items) # {},
                    NEW t, t = FirstVideo(handed.items), ~(t > before)
             PROVE  t = before /\ (handed.by = "again" \/ LoneFrame(t))
  BY DEF StraightInv, ForwardOnly
<1>1. /\ t = Heard
      /\ before < Heard \/ (before = Heard /\ (handed.by = "again" \/ LoneIn(files, Heard)))
  BY DEF Told
<1>2. LoneIn(files, t) => LoneFrame(t)  BY DEF LoneIn, LoneFrame, Stamp, Last
<1> QED  BY <1>1, <1>2

LEMMA ToldAll == StraightInv => SkipsOnlyTheNew
<1> SUFFICES ASSUME Told, ~astray, handed.by \in {"next", "again"}, Videos(handed.items) # {},
                    before # 0, NEW t \in Frames(Chunks \ passed)
             PROVE  ~(before < t /\ t < FirstVideo(handed.items))
  BY DEF StraightInv, SkipsOnlyTheNew
<1>1. FirstVideo(handed.items) = Heard /\ Unheard(passed, before, Heard)  BY DEF Told
<1>2. PICK e \in Chunks \ passed : \E y \in Videos(Content[e]) : t = Time(e, y)
  BY DEF Frames, Time
<1> QED  BY <1>1, <1>2 DEF Unheard

\* After a Seek forwards GetNextData gives the frames in their order: never one before the one
\* handed out last, and that one again only from a file that had grown, or if it is the lone
\* frame of the chunk a file begins with.
THEOREM AlwaysForward == Spec => []ForwardOnly
<1>1. Init => Inv /\ PlayInv /\ StraightInv  BY InitOK, InitPlays, InitStraight
<1>2. Inv /\ PlayInv /\ StraightInv /\ [Next]_vars => Inv' /\ PlayInv' /\ StraightInv'
  BY StepOK, StepPlays, StepStraight
<1>3. StraightInv => ForwardOnly  BY ToldForward
<1> QED  BY <1>1, <1>2, <1>3, PTL DEF Spec

\* And it skips none between two of them, but of a chunk that was not on the disk yet when
\* the reader went past it.
THEOREM NothingSkipped == Spec => []SkipsOnlyTheNew
<1>1. Init => Inv /\ PlayInv /\ StraightInv  BY InitOK, InitPlays, InitStraight
<1>2. Inv /\ PlayInv /\ StraightInv /\ [Next]_vars => Inv' /\ PlayInv' /\ StraightInv'
  BY StepOK, StepPlays, StepStraight
<1>3. StraightInv => SkipsOnlyTheNew  BY ToldAll
<1> QED  BY <1>1, <1>2, <1>3, PTL DEF Spec

-----------------------------------------------------------------------------
(***************************************************************************)
(* Where a Seek forwards lands.  It first looks backwards, then, unless    *)
(* the time is in what that found, forwards.  All of it concerns what was  *)
(* seen: the chunks that were on the disk when the call began.             *)
(***************************************************************************)
\* The chunk is on the disk, in file f.
InFile(fs, f, e) == Holds(fs[f], e) /\ 2 * (e - FirstOf(fs[f]) + 1) < fs[f].cells
SeenIn(fs, s) == \A e \in s : e \in Chunks /\ \E f \in 1..Len(fs) : InFile(fs, f, e)

\* What is behind a file's own entries is from before it; its own are of its hour.
Leftover(x) == \A i \in 1..Len(x.left) : x.left[i] < FirstOf(x)
OneHour(x) == \A i \in 1..Len(x.own) : HourOf(Begin(x.own[i])) = HourOf(x.stamp)
Contents == \A f \in 1..Last : Leftover(files[f]) /\ OneHour(files[f])

LEMMA FileHas ==
  ASSUME NEW fs, OrderOf(fs), NEW f \in 1..Len(fs)
  PROVE  /\ f \in Nat /\ FirstOf(fs[f]) \in Nat /\ FirstOf(fs[f]) \in Chunks
         /\ fs[f].stamp = Begin(FirstOf(fs[f])) /\ fs[f].stamp \in Nat
         /\ UntilOf(fs[f]) = FirstOf(fs[f]) + Len(fs[f].own) /\ Len(fs[f].own) \in Nat
         /\ fs[f].cells \in Nat /\ fs[f].headed \in BOOLEAN
         /\ \A i \in 1..Len(fs[f].own) : fs[f].own[i] = FirstOf(fs[f]) + i - 1
BY FilesAre, OrderIs, FileShape DEF InOrder

\* The files do not overlap.
LEMMA FilesApart ==
  ASSUME NEW fs, OrderOf(fs), NEW f \in 1..Len(fs), NEW g \in 1..Len(fs), f < g,
         NEW e \in Chunks, Holds(fs[f], e)
  PROVE  /\ e < FirstOf(fs[g]) /\ End(e) < fs[g].stamp /\ Begin(e) < fs[g].stamp
<1>1. Before(fs[f], fs[g])  BY DEF OrderOf
<1>2. e < FirstOf(fs[g])
  <2>1. UntilOf(fs[f]) \in Nat /\ FirstOf(fs[g]) \in Nat /\ e \in Nat  BY FileHas, Apart
  <2> QED  BY <1>1, <2>1 DEF Before, Holds
<1> QED  BY <1>2, FileHas, Apart

LEMMA OneHolder ==
  ASSUME NEW fs, OrderOf(fs), NEW f \in 1..Len(fs), NEW g \in 1..Len(fs),
         NEW e \in Chunks, Holds(fs[f], e), Holds(fs[g], e)
  PROVE  f = g
<1>1. \A h \in 1..Len(fs) : FirstOf(fs[h]) \in Nat /\ h \in Nat  BY FileHas
<1>2. e \in Nat  BY Apart
<1>3. ~(f < g)  BY <1>1, <1>2, FilesApart DEF Holds
<1>4. ~(g < f)  BY <1>1, <1>2, FilesApart DEF Holds
<1> QED  BY <1>1, <1>3, <1>4

\* A chunk has its place in the file.
LEMMA PlaceOf ==
  ASSUME NEW fs, OrderOf(fs), NEW f \in 1..Len(fs), NEW e \in Chunks, Holds(fs[f], e),
         NEW i, i = e - FirstOf(fs[f]) + 1
  PROVE  /\ i \in 1..Len(fs[f].own) /\ fs[f].own[i] = e /\ i \in Chunks
         /\ fs[f].stamp <= Begin(e) /\ fs[f].headed /\ i \in Nat
<1>1. e \in Nat /\ e \in 1..Len(Content) /\ Len(Content) \in Nat  BY Apart, ContentType
<1>2. i \in 1..Len(fs[f].own)  BY <1>1, FileHas DEF Holds
<1>3. i \in Chunks  BY <1>1, <1>2, FileHas DEF Holds, Chunks
<1>4. fs[f].own[i] = e  BY <1>1, <1>2, FileHas
<1>5. fs[f].stamp <= Begin(e)
  <2>1. FirstOf(fs[f]) <= e  BY DEF Holds
  <2> QED  BY <2>1, FileHas, Apart
<1>6. fs[f].headed
  <2>1. fs[f].own # <<>>  BY <1>2, FileHas
  <2> QED  BY <2>1, FilesAre DEF InOrder
<1> QED  BY <1>1, <1>2, <1>3, <1>4, <1>5, <1>6, FileHas

\* What is on the disk, as the calls look at it.
LEMMA OnDiskIs ==
  ASSUME OrderOf(files)
  PROVE  /\ SeenIn(files, OnDisk)
         /\ \A s : SeenIn(files, s) => s \subseteq OnDisk
<1>1. ASSUME NEW c \in OnDisk PROVE c \in Chunks /\ \E f \in 1..Len(files) : InFile(files, f, c)
  <2>1. c \in Chunks  BY DEF OnDisk
  <2>2. PICK f \in 1..Last, i \in Chunks :
          i <= Len(files[f].own) /\ files[f].own[i] = c /\ 2 * i < files[f].cells
    BY <1>1 DEF OnDisk
  <2>3. f \in 1..Len(files) /\ i \in Nat /\ 1 <= i
    BY <2>2, ConstantTypes DEF Last, Chunks
  <2>4. /\ FirstOf(files[f]) \in Nat /\ Len(files[f].own) \in Nat
        /\ UntilOf(files[f]) = FirstOf(files[f]) + Len(files[f].own)
        /\ \A j \in 1..Len(files[f].own) : files[f].own[j] = FirstOf(files[f]) + j - 1
    BY <2>3, FileHas
  <2>5. c = FirstOf(files[f]) + i - 1  BY <2>2, <2>3, <2>4
  <2>6. c - FirstOf(files[f]) + 1 = i  BY <2>3, <2>4, <2>5
  <2>7. Holds(files[f], c)  BY <2>2, <2>3, <2>4, <2>5 DEF Holds
  <2> QED  BY <2>1, <2>2, <2>3, <2>6, <2>7 DEF InFile
<1>2. ASSUME NEW s, SeenIn(files, s), NEW e \in s PROVE e \in OnDisk
  <2>1. e \in Chunks  BY <1>2 DEF SeenIn
  <2>2. PICK f \in 1..Len(files) : InFile(files, f, e)  BY <1>2 DEF SeenIn
  <2>3. PICK i : i = e - FirstOf(files[f]) + 1  OBVIOUS
  <2>4. i \in 1..Len(files[f].own) /\ files[f].own[i] = e /\ i \in Chunks
    BY <2>1, <2>2, <2>3, PlaceOf DEF InFile
  <2>5. 2 * i < files[f].cells  BY <2>2, <2>3 DEF InFile
  <2>6. i <= Len(files[f].own)  BY <2>2, <2>4, FileHas
  <2> QED  BY <2>1, <2>2, <2>4, <2>5, <2>6 DEF OnDisk, Last
<1> QED  BY <1>1, <1>2 DEF SeenIn

\* What is on the disk stays there.
LEMMA InFileGrows ==
  ASSUME NEW fs, OrderOf(fs), NEW gs, OrderOf(gs), Grows(fs, gs), NEW f \in 1..Len(fs), NEW e \in Chunks,
         InFile(fs, f, e)
  PROVE  f \in 1..Len(gs) /\ InFile(gs, f, e) /\ FirstOf(gs[f]) = FirstOf(fs[f])
<1>1. Len(fs) \in Nat /\ Len(gs) \in Nat  BY DEF OrderOf
<1>2. f \in 1..Len(gs) /\ More(fs[f], gs[f])  BY <1>1 DEF Grows
<1>3. FirstOf(gs[f]) = FirstOf(fs[f])  BY <1>2 DEF More, FirstOf
<1>4. fs[f].headed  BY PlaceOf DEF InFile
<1>5. gs[f].cells >= fs[f].cells /\ Len(fs[f].own) <= Len(gs[f].own)
  BY <1>2, <1>4, FileHas DEF More, SizeOf
<1>6. e \in Nat  BY Apart
<1>7. UntilOf(gs[f]) >= UntilOf(fs[f])  BY <1>2, <1>3, <1>5, FileHas
<1>8. /\ UntilOf(fs[f]) \in Nat /\ UntilOf(gs[f]) \in Nat /\ FirstOf(fs[f]) \in Nat
      /\ fs[f].cells \in Nat /\ gs[f].cells \in Nat
  <2>1. PICK x : x = fs[f]  OBVIOUS
  <2>2. PICK y : y = gs[f]  OBVIOUS
  <2>3. x \in FileType /\ InOrder(x) /\ y \in FileType /\ InOrder(y)
    BY <1>2, <2>1, <2>2, FilesAre
  <2>4. UntilOf(x) \in Nat /\ UntilOf(y) \in Nat /\ FirstOf(x) \in Nat  BY <2>3, OrderIs
  <2>5. x.cells \in Nat /\ y.cells \in Nat  BY <2>3, FileShape
  <2> QED  BY <2>1, <2>2, <2>4, <2>5
<1>9. Holds(gs[f], e)  BY <1>3, <1>6, <1>7, <1>8 DEF InFile, Holds
<1>10. 2 * (e - FirstOf(gs[f]) + 1) < gs[f].cells  BY <1>3, <1>5, <1>6, <1>8 DEF InFile
<1> QED  BY <1>2, <1>3, <1>9, <1>10 DEF InFile

LEMMA SeenGrows ==
  ASSUME NEW fs, OrderOf(fs), NEW gs, OrderOf(gs), Grows(fs, gs), NEW s, SeenIn(fs, s)
  PROVE  SeenIn(gs, s)
BY InFileGrows DEF SeenIn

\* The entry of a chunk that was on the disk when the file was parsed.
Fresh(r, i, e) == i \in 1..Len(r.headers) /\ HasEntry(r, i, e) /\ 2 * i + 1 < r.size
FreshIn(x, r, e) == Fresh(r, e - FirstOf(x) + 1, e)
OldBehind(x, r) == \A i \in 1..Len(r.headers) : r.headers[i].own \/ r.headers[i].chunk < FirstOf(x)

\* The list ends with the file before f.
ListTo(r, f) ==
  \A k \in 1..Len(r.file_list) : r.file_list[k] = f - (Len(r.file_list) + 1 - k)

\* No chunk that was seen has the time in it.
NoneAt(s, t) == \A e \in s : ~(Begin(e) <= t /\ t <= End(e))

\* Backwards, what was seen up to the time is in the files still to be opened, or in earlier
\* ones; and there is one to be opened if the time is in a chunk.
BackOpen(fs, r, t, s) ==
  \E g \in Int :
    /\ ListTo(r, g) /\ (r.file_list # <<>> => g - 1 \in 1..Len(fs) /\ fs[g - 1].stamp <= t)
    /\ \A e \in s : Begin(e) <= t =>
         \E f \in 1..Len(fs) : /\ InFile(fs, f, e) /\ (r.file_list # <<>> => f < g)
                               /\ End(e) >= t => r.file_list # <<>>
BackLoad(fs, r, t, s) ==
  /\ ListTo(r, r.file) /\ fs[r.file].stamp <= t
  /\ \A e \in s : Begin(e) <= t =>
       \E f \in 1..Len(fs) : /\ InFile(fs, f, e) /\ f <= r.file
                             /\ f = r.file => FreshIn(fs[f], r, e)

\* Forwards, what was seen from the time on is in the files to be opened, or in later ones.
ForeOpen(fs, r, t, s) ==
  \E g \in Int :
    /\ ListFrom(r, g)
    /\ \A e \in s : End(e) >= t =>
         \E f \in 1..Len(fs) : InFile(fs, f, e) /\ (r.file_list # <<>> => g < f)
ForeLoad(fs, r, t, s) ==
  /\ ListFrom(r, r.file)
  /\ \A e \in s : End(e) >= t =>
       \E f \in 1..Len(fs) : /\ InFile(fs, f, e) /\ r.file <= f
                             /\ f = r.file => FreshIn(fs[f], r, e)

\* No frame that was seen is between the time and the position.
Clear(s, t, p) ==
  \A e \in s : \A y \in Videos(Content[e]) :
    /\ ~(p < Time(e, y) /\ Time(e, y) <= t)
    /\ ~(t <= Time(e, y) /\ Time(e, y) < p)

\* The position is that of the frame that goes out next, or of the last one that went out.
Held(r) == (~Over(r) /\ r.position = Time(r.datas, r.next + 1)) \/ Gone(r, r.position)

\* Frames are dropped until the time is reached; what was passed meanwhile was not seen, or is
\* from before the time.
Dropping(fs, at, r, k, p, s) ==
  /\ Clear(s, k.time, r.position) /\ OldBehind(fs[r.file], r)
  /\ \A e \in p \cap s : End(e) < k.time
  /\ at \in {"skip", "next"} => Held(r)
  /\ at \in Nexts \ {"retake", "take"} => r.position < k.time
  /\ at = "nextfile" => k.missing \cap s = {}

LandingAt(fs, at, r, k, p, s) ==
  /\ at \in {"list", "open", "load"} => p = {}
  /\ at = "list" /\ k.dir = "Next" => NoneAt(s, k.time)
  /\ at = "open" => IF k.dir = "Prev" THEN BackOpen(fs, r, k.time, s) ELSE ForeOpen(fs, r, k.time, s)
  /\ at = "load" => /\ IF k.dir = "Prev" THEN BackLoad(fs, r, k.time, s) ELSE ForeLoad(fs, r, k.time, s)
                    /\ OldBehind(fs[r.file], r)
  /\ at \in {"skip"} \cup Nexts /\ k.found => Dropping(fs, at, r, k, p, s)

Landing == call.op = "seek" =>
             SeenIn(files, seen) /\ LandingAt(files, pc, reader, call, passed, seen)
LandInv == Contents /\ Landing

LEMMA InitLands == Init => LandInv
<1>1. ASSUME Init PROVE LandInv
  <2>1. Last = 0  BY <1>1 DEF Init, Last
  <2>2. call.op # "seek"  BY <1>1 DEF Init, NoCall
  <2> QED  BY <2>1, <2>2 DEF LandInv, Contents, Landing
<1> QED  BY <1>1

\* The writer leaves old entries behind those of a new file only, and puts a chunk into the file of
\* its hour.
LEMMA ContentsStay ==
  ASSUME Inv, Ordered, Contents, Writer
  PROVE  Contents'
<1>1. /\ files \in Seq(FileType) /\ Last \in Nat /\ Last = Len(files) /\ Last' = Len(files')
      /\ OrderOf(files)
  BY DEF Inv, FilesInv, Last, Ordered
<1>2. CASE Create
  <2>1. PICK x : /\ files' = Append(files, x) /\ x.stamp = Begin(written + 1) /\ x.own = <<>>
                 /\ x.left = IF Last = 0 THEN <<>>
                             ELSE [i \in 1..Len(Entries(Last)) |-> Entries(Last)[i].chunk]
    <3>1. PICK old : old = IF Last = 0 THEN <<>>
                           ELSE [i \in 1..Len(Entries(Last)) |-> Entries(Last)[i].chunk]
      OBVIOUS
    <3>2. PICK x : x = [stamp |-> Begin(written + 1), headed |-> FALSE, own |-> <<>>, left |-> old,
                        cells |-> 0]
      OBVIOUS
    <3>3. x.stamp = Begin(written + 1) /\ x.own = <<>> /\ x.left = old  BY <3>2
    <3>4. files' = Append(files, x)  BY <1>2, <3>1, <3>2 DEF Create
    <3> QED  BY <3>1, <3>3, <3>4
  <2>2. Last' = Last + 1 /\ files'[Last + 1] = x /\ \A f \in 1..Last : files'[f] = files[f]
    <3>1. files' = Append(files, x)  BY <2>1
    <3>2. Len(files') = Last + 1 /\ files'[Last + 1] = x /\ \A f \in 1..Last : files'[f] = files[f]
      BY ONLY <1>1, <3>1
    <3> QED  BY <1>1, <3>2
  <2>3. written \in 0..Len(Content) /\ written < Len(Content) /\ Len(Content) \in Nat
    BY <1>2, ConstantTypes DEF Create, Inv, FilesInv
  <2>4. FirstOf(x) = written + 1
    <3>1. written + 1 \in Chunks  BY <2>3 DEF Chunks
    <3> QED  BY <2>1, <3>1, BeginsOwn DEF FirstOf
  <2>5. Leftover(x)
    <3>1. CASE Last = 0
      <4>1. Len(x.left) = 0  BY <2>1, <3>1
      <4> QED  BY <4>1 DEF Leftover
    <3>2. CASE Last # 0
      <4>1. Last \in 1..Last  BY <1>1, <3>2
      <4>2. PICK y : y = files[Last]  OBVIOUS
      <4>3. /\ FirstOf(y) \in Nat /\ Len(y.own) \in Nat /\ UntilOf(y) = FirstOf(y) + Len(y.own)
            /\ \A i \in 1..Len(y.own) : y.own[i] = FirstOf(y) + i - 1
        BY <1>1, <4>1, <4>2, FileHas
      <4>4. /\ Len(Entries(Last)) \in Nat
            /\ \A i \in 1..Len(Entries(Last)) :
                 Entries(Last)[i].chunk = IF i <= Len(y.own) THEN y.own[i] ELSE y.left[i]
            /\ Len(Entries(Last)) = IF Len(y.left) > Len(y.own) THEN Len(y.left) ELSE Len(y.own)
            /\ Entries(Last) \in Seq(EntryType)
        BY <1>1, <4>1, <4>2, EntriesType
      <4>5. written + 1 = UntilOf(y)  BY <3>2, <4>2 DEF Ordered
      <4>6. Leftover(y)  BY <4>1, <4>2 DEF Contents
      <4>7. y.left \in Seq(Chunks)  BY <1>1, <4>1, <4>2, FilesAre DEF FileType
      <4>8. ASSUME NEW i \in 1..Len(x.left) PROVE x.left[i] < written + 1
        <5>1. x.left = [j \in 1..Len(Entries(Last)) |-> Entries(Last)[j].chunk]  BY <2>1, <3>2
        <5>2. i \in 1..Len(Entries(Last))  BY <4>4, <4>8, <5>1
        <5>3. x.left[i] = IF i <= Len(y.own) THEN y.own[i] ELSE y.left[i]  BY <4>4, <5>1, <5>2
        <5>4. CASE i <= Len(y.own)
          <6>1. i \in 1..Len(y.own) /\ i \in Nat  BY <4>3, <5>2, <5>4
          <6>2. x.left[i] = FirstOf(y) + i - 1  BY <4>3, <5>3, <6>1
          <6> QED  BY <4>3, <4>5, <5>4, <6>1, <6>2
        <5>5. CASE ~(i <= Len(y.own))
          <6>1. i \in 1..Len(y.left)  BY <4>3, <4>4, <4>7, <5>2, <5>5
          <6>2. y.left[i] < FirstOf(y) /\ y.left[i] \in Chunks  BY <4>6, <4>7, <6>1 DEF Leftover
          <6>3. y.left[i] \in Nat  BY <6>2, Apart
          <6> QED  BY <4>3, <4>5, <5>3, <5>5, <6>2, <6>3
        <5> QED  BY <5>4, <5>5
      <4> QED  BY <2>4, <4>8 DEF Leftover
    <3> QED  BY <3>1, <3>2
  <2>6. OneHour(x)
    <3>1. Len(x.own) = 0  BY <2>1
    <3> QED  BY <3>1 DEF OneHour
  <2>7. \A f \in 1..Last' : f \in 1..Last \/ f = Last + 1  BY <1>1, <2>2
  <2> QED  BY <2>2, <2>5, <2>6, <2>7 DEF Contents
<1>3. CASE ~Create
  <2>1. open /\ (InitBuffer \/ WriteIndexInfo \/ WriteDisk \/ FileClose)
    BY <1>3 DEF Writer, InitBuffer, WriteIndexInfo, WriteDisk, FileClose
  <2>2. PICK y : y = files[Last]  OBVIOUS
  <2>3. Last \in 1..Last /\ y \in FileType  BY <1>1, <2>1, <2>2 DEF Inv, FilesInv
  <2>4. \E x : /\ files' = [files EXCEPT ![Last] = x] /\ x.stamp = y.stamp /\ x.left = y.left
               /\ x.own = y.own \/ (/\ x.own = Append(y.own, written + 1)
                                    /\ HourOf(Begin(written + 1)) = HourOf(y.stamp))
    <3>1. CASE InitBuffer
      <4>1. PICK x : x = [y EXCEPT !.headed = TRUE]  OBVIOUS
      <4>2. x.stamp = y.stamp /\ x.left = y.left /\ x.own = y.own  BY <2>3, <4>1 DEF FileType
      <4>3. files' = [files EXCEPT ![Last] = x]  BY <2>2, <3>1, <4>1 DEF InitBuffer
      <4> QED  BY <4>2, <4>3
    <3>2. CASE WriteIndexInfo
      <4>1. PICK x : x = [y EXCEPT !.own = Append(@, written + 1)]  OBVIOUS
      <4>2. x.stamp = y.stamp /\ x.left = y.left /\ x.own = Append(y.own, written + 1)
        BY <2>3, <4>1 DEF FileType
      <4>3. files' = [files EXCEPT ![Last] = x] /\ HourOf(Begin(written + 1)) = HourOf(y.stamp)
        BY <2>2, <3>2, <4>1 DEF WriteIndexInfo
      <4> QED  BY <4>2, <4>3
    <3>3. CASE WriteDisk
      <4>1. PICK n : files' = [files EXCEPT ![Last].cells = n]  BY <3>3 DEF WriteDisk
      <4>2. PICK x : x = [y EXCEPT !.cells = n]  OBVIOUS
      <4>3. x.stamp = y.stamp /\ x.left = y.left /\ x.own = y.own  BY <2>3, <4>2 DEF FileType
      <4>4. files' = [files EXCEPT ![Last] = x]  BY <2>2, <4>1, <4>2
      <4> QED  BY <4>3, <4>4
    <3>4. CASE FileClose
      <4>1. PICK x : x = [y EXCEPT !.cells = 2 * Len(y.own) + 1]  OBVIOUS
      <4>2. x.stamp = y.stamp /\ x.left = y.left /\ x.own = y.own  BY <2>3, <4>1 DEF FileType
      <4>3. files' = [files EXCEPT ![Last] = x]  BY <2>2, <3>4, <4>1 DEF FileClose
      <4> QED  BY <4>2, <4>3
    <3> QED  BY <2>1, <3>1, <3>2, <3>3, <3>4
  <2>5. PICK x : /\ files' = [files EXCEPT ![Last] = x] /\ x.stamp = y.stamp /\ x.left = y.left
                 /\ x.own = y.own \/ (/\ x.own = Append(y.own, written + 1)
                                      /\ HourOf(Begin(written + 1)) = HourOf(y.stamp))
    BY <2>4
  <2>6. Last' = Last /\ \A f \in 1..Last : files'[f] = IF f = Last THEN x ELSE files[f]
    BY <1>1, <2>3, <2>5
  <2>7. Leftover(y) /\ OneHour(y)  BY <2>2, <2>3 DEF Contents
  <2>8. Leftover(x)  BY <2>5, <2>7 DEF Leftover, FirstOf
  <2>9. OneHour(x)
    <3>1. CASE x.own = y.own  BY <2>5, <2>7, <3>1 DEF OneHour
    <3>2. CASE x.own = Append(y.own, written + 1) /\ HourOf(Begin(written + 1)) = HourOf(y.stamp)
      <4>1. y.own \in Seq(Chunks) /\ Len(y.own) \in Nat  BY <2>3, FileShape
      <4>2. ASSUME NEW i \in 1..Len(x.own) PROVE HourOf(Begin(x.own[i])) = HourOf(x.stamp)
        <5>1. CASE i \in 1..Len(y.own)
          <6>1. x.own[i] = y.own[i]  BY <3>2, <4>1, <5>1
          <6> QED  BY <2>5, <2>7, <5>1, <6>1 DEF OneHour
        <5>2. CASE i \notin 1..Len(y.own)
          <6>1. Len(x.own) = Len(y.own) + 1  BY <3>2, <4>1
          <6>2. i = Len(y.own) + 1  BY <4>1, <4>2, <5>2, <6>1
          <6>3. x.own[i] = written + 1  BY <3>2, <4>1, <6>2
          <6> QED  BY <2>5, <3>2, <6>3
        <5> QED  BY <5>1, <5>2
      <4> QED  BY <4>2 DEF OneHour
    <3> QED  BY <2>5, <3>1, <3>2
  <2> QED  BY <2>6, <2>8, <2>9 DEF Contents
<1> QED  BY <1>2, <1>3

LEMMA LandingGrows ==
  ASSUME NEW fs, OrderOf(fs), NEW gs, OrderOf(gs), Grows(fs, gs), NEW r,
         NEW at, at \in {"load", "skip"} \cup Nexts => r.file \in 1..Len(fs),
         NEW k, NEW p, NEW s, SeenIn(fs, s), LandingAt(fs, at, r, k, p, s)
  PROVE  LandingAt(gs, at, r, k, p, s)
<1>1. Len(fs) \in Nat /\ Len(gs) \in Nat /\ Len(fs) <= Len(gs)  BY DEF OrderOf, Grows
<1>2. \A f \in 1..Len(fs) : /\ f \in 1..Len(gs) /\ FirstOf(gs[f]) = FirstOf(fs[f])
                            /\ gs[f].stamp = fs[f].stamp
  BY <1>1 DEF Grows, More, FirstOf
<1>3. \A e \in s : e \in Chunks  BY DEF SeenIn
<1>4. \A e \in s, f \in 1..Len(fs) : InFile(fs, f, e) => InFile(gs, f, e)  BY <1>3, InFileGrows
<1>5. \A e \in s, f \in 1..Len(fs) : FreshIn(fs[f], r, e) => FreshIn(gs[f], r, e)
  BY <1>2 DEF FreshIn
<1>6. ASSUME NEW t, BackOpen(fs, r, t, s) PROVE BackOpen(gs, r, t, s)
  <2>1. PICK g \in Int :
          /\ ListTo(r, g) /\ (r.file_list # <<>> => g - 1 \in 1..Len(fs) /\ fs[g - 1].stamp <= t)
          /\ \A e \in s : Begin(e) <= t =>
               \E f \in 1..Len(fs) : /\ InFile(fs, f, e) /\ (r.file_list # <<>> => f < g)
                                     /\ End(e) >= t => r.file_list # <<>>
    BY <1>6 DEF BackOpen
  <2>2. r.file_list # <<>> => g - 1 \in 1..Len(gs) /\ gs[g - 1].stamp <= t  BY <1>2, <2>1
  <2>3. \A e \in s : Begin(e) <= t =>
          \E f \in 1..Len(gs) : /\ InFile(gs, f, e) /\ (r.file_list # <<>> => f < g)
                                /\ End(e) >= t => r.file_list # <<>>
    BY <1>2, <1>4, <2>1
  <2> QED  BY <2>1, <2>2, <2>3 DEF BackOpen
<1>7. ASSUME NEW t, BackLoad(fs, r, t, s), r.file \in 1..Len(fs) PROVE BackLoad(gs, r, t, s)
  <2>1. ListTo(r, r.file) /\ gs[r.file].stamp <= t  BY <1>2, <1>7 DEF BackLoad
  <2>2. \A e \in s : Begin(e) <= t =>
          \E f \in 1..Len(gs) : /\ InFile(gs, f, e) /\ f <= r.file
                                /\ f = r.file => FreshIn(gs[f], r, e)
    BY <1>2, <1>4, <1>5, <1>7 DEF BackLoad
  <2> QED  BY <2>1, <2>2 DEF BackLoad
<1>8. ASSUME NEW t, ForeOpen(fs, r, t, s) PROVE ForeOpen(gs, r, t, s)
  <2>1. PICK g \in Int :
          /\ ListFrom(r, g)
          /\ \A e \in s : End(e) >= t =>
               \E f \in 1..Len(fs) : InFile(fs, f, e) /\ (r.file_list # <<>> => g < f)
    BY <1>8 DEF ForeOpen
  <2>2. \A e \in s : End(e) >= t =>
          \E f \in 1..Len(gs) : InFile(gs, f, e) /\ (r.file_list # <<>> => g < f)
    BY <1>2, <1>4, <2>1
  <2> QED  BY <2>1, <2>2 DEF ForeOpen
<1>9. ASSUME NEW t, ForeLoad(fs, r, t, s) PROVE ForeLoad(gs, r, t, s)
  <2>1. \A e \in s : End(e) >= t =>
          \E f \in 1..Len(gs) : /\ InFile(gs, f, e) /\ r.file <= f
                                /\ f = r.file => FreshIn(gs[f], r, e)
    BY <1>2, <1>4, <1>5, <1>9 DEF ForeLoad
  <2> QED  BY <1>9, <2>1 DEF ForeLoad
<1>10. r.file \in 1..Len(fs) => (OldBehind(fs[r.file], r) => OldBehind(gs[r.file], r))
  BY <1>2 DEF OldBehind
<1>11. at \in {"skip"} \cup Nexts /\ k.found => Dropping(gs, at, r, k, p, s)
  BY <1>10 DEF LandingAt, Dropping
<1>12. at = "open" => IF k.dir = "Prev" THEN BackOpen(gs, r, k.time, s) ELSE ForeOpen(gs, r, k.time, s)
  BY <1>6, <1>8 DEF LandingAt
<1>13. at = "load" => /\ IF k.dir = "Prev" THEN BackLoad(gs, r, k.time, s) ELSE ForeLoad(gs, r, k.time, s)
                      /\ OldBehind(gs[r.file], r)
  BY <1>7, <1>9, <1>10 DEF LandingAt
<1> QED  BY <1>11, <1>12, <1>13 DEF LandingAt

\* r.file of a call that has opened one.
LEMMA WriterLands ==
  ASSUME Inv, Ordered, LandInv, Writer
  PROVE  LandInv'
<1>1. /\ OrderOf(files) /\ OrderOf(files') /\ Grows(files, files')
  BY WriterOrders DEF Ordered
<1>2. Contents'  BY ContentsStay DEF LandInv
<1>3. UNCHANGED <<reader, pc, call, passed, seen>>
  BY DEF Writer, Create, InitBuffer, WriteIndexInfo, WriteDisk, FileClose, historyVars
<1>4. ASSUME call.op = "seek"
      PROVE  SeenIn(files', seen) /\ LandingAt(files', pc, reader, call, passed, seen)
  <2>1. SeenIn(files, seen) /\ LandingAt(files, pc, reader, call, passed, seen)
    BY <1>4 DEF LandInv, Landing
  <2>2. pc \in {"load", "skip"} \cup Nexts => reader.file \in 1..Len(files)
    <3>1. reader.file \in Nat /\ reader.file <= Len(files) /\ Len(files) \in Nat
      BY <1>1 DEF Inv, ReaderInv, ReaderOK, ReaderType, Last, OrderOf
    <3>2. reader.file = 0 => pc \in {"idle", "list", "open"}  BY DEF Inv, ReaderInv
    <3> QED  BY <3>1, <3>2 DEF Nexts
  <2>3. SeenIn(files', seen)  BY <1>1, <2>1, SeenGrows
  <2>4. LandingAt(files', pc, reader, call, passed, seen)  BY <1>1, <2>1, <2>2, LandingGrows
  <2> QED  BY <2>3, <2>4
<1>5. Landing'  BY <1>3, <1>4 DEF Landing
<1> QED  BY <1>2, <1>5 DEF LandInv

-----------------------------------------------------------------------------
(***************************************************************************)
(* The files that a Seek chooses: backwards, the last ones up to the time; *)
(* forwards, none is left out that has a chunk behind the time.            *)
(***************************************************************************)
UpTo(t) == {f \in 1..Last : Stamp(f) <= t}

\* The list of a set without gaps ends with the greatest.
LEMMA LastOfList ==
  ASSUME Last \in Nat, NEW S, S \subseteq 1..Last, Run(S), S # {}
  PROVE  LET list == FilesOf(S)
         IN  /\ list # <<>> /\ list[1] = Least(S)
             /\ \E g \in Int : /\ \A k \in 1..Len(list) : list[k] = g - (Len(list) + 1 - k)
                               /\ g - 1 \in S /\ \A f \in S : f < g
<1>1. PICK list : list = FilesOf(S)  OBVIOUS
<1>2. PICK n : n = Cardinality(S)  OBVIOUS
<1>3. /\ list \in Seq(1..Last) /\ Len(list) = n /\ n \in Nat /\ list # <<>>
      /\ \A i \in 1..n : list[i] \in S /\ Cardinality({g \in S : g <= list[i]}) = i
  BY <1>1, <1>2, FilesOfType
<1>4. n # 0 /\ n \in 1..n /\ 1 \in 1..n  BY <1>3
<1>5. PICK b \in Int : (\A k \in 1..Len(list) : list[k] = b + k) /\ b + 1 = Least(S)
  BY <1>1, FilesOfRun
<1>6. PICK l : l = list[n]  OBVIOUS
<1>7. l \in S /\ l \in Nat /\ l = b + n
  <2>1. l \in S  BY <1>3, <1>4, <1>6
  <2>2. n \in 1..Len(list)  BY <1>3, <1>4
  <2>3. l = b + n  BY <1>5, <1>6, <2>2
  <2> QED  BY <2>1, <2>3
<1>8. \A f \in S : f <= l
  <2>1. PICK T : T = {g \in S : g <= l}  OBVIOUS
  <2>2. T \subseteq S /\ Cardinality(T) = Cardinality(S)  BY <1>2, <1>3, <1>4, <1>6, <2>1
  <2>3. IsFiniteSet(S)
    <3>1. IsFiniteSet(1..Last)  BY FS_Interval
    <3> QED  BY <3>1, FS_Subset
  <2>4. T = S  BY <2>2, <2>3, FS_Subset
  <2> QED  BY <2>1, <2>4
<1>9. PICK g : g = l + 1  OBVIOUS
<1>10. g \in Int /\ g - 1 = l  BY <1>7, <1>9
<1>11. ASSUME NEW k \in 1..Len(list) PROVE list[k] = g - (Len(list) + 1 - k)
  <2>1. list[k] = b + k  BY <1>5
  <2> QED  BY <1>3, <1>7, <1>9, <2>1
<1>12. ASSUME NEW f \in S PROVE f < g
  <2>1. f <= l /\ f \in Nat  BY <1>8
  <2> QED  BY <1>7, <1>9, <2>1
<1>13. list[1] = Least(S)  BY <1>3, <1>4, <1>5
<1> QED  BY <1>1, <1>3, <1>7, <1>10, <1>11, <1>12, <1>13

LEMMA UpToRun ==
  ASSUME Ordered, Last \in Nat, NEW t \in Nat
  PROVE  Run(UpTo(t)) /\ UpTo(t) \subseteq 1..Last
<1>1. ASSUME NEW b \in UpTo(t), NEW f \in 1..Last, f <= b PROVE f \in UpTo(t)
  <2>1. b \in 1..Last /\ Stamp(b) <= t  BY DEF UpTo
  <2>2. Stamp(f) <= Stamp(b) /\ Stamp(f) \in Nat /\ Stamp(b) \in Nat  BY <1>1, <2>1, StampsAscend
  <2> QED  BY <2>1, <2>2 DEF UpTo
<1> QED  BY <1>1 DEF Run, UpTo

LEMMA NearHourPrev ==
  ASSUME Ordered, Last \in Nat, NEW t \in Nat, NEW dir, dir = "Prev", NEW include
  PROVE  Upper(NearHour(t, dir, include), UpTo(t))
<1>1. PICK S : S = {f \in InHours(HourOf(t) - 1, HourOf(t)) : Stamp(f) <= t}  OBVIOUS
<1>2. NearHour(t, dir, include) = S  BY <1>1 DEF NearHour
<1>3. S \subseteq UpTo(t)  BY <1>1 DEF UpTo, InHours
<1>4. ASSUME NEW a \in S, NEW b \in UpTo(t), a <= b PROVE b \in S
  <2>1. a \in 1..Last /\ b \in 1..Last /\ Stamp(b) <= t /\ HourOf(Stamp(a)) \in (HourOf(t) - 1)..HourOf(t)
    BY <1>1 DEF UpTo, InHours
  <2>2. /\ HourOf(Stamp(a)) <= HourOf(Stamp(b)) /\ HourOf(Stamp(a)) \in Nat
        /\ HourOf(Stamp(b)) \in Nat /\ Stamp(b) \in Nat
    BY <1>4, <2>1, StampsAscend
  <2>3. HourOf(Stamp(b)) <= HourOf(t) /\ HourOf(t) \in Nat  BY <2>1, <2>2, HoursAscend
  <2>4. HourOf(Stamp(b)) \in (HourOf(t) - 1)..HourOf(t)  BY <2>1, <2>2, <2>3
  <2> QED  BY <1>1, <2>1, <2>4 DEF InHours
<1> QED  BY <1>2, <1>3, <1>4 DEF Upper

LEMMA NearFolderPrev ==
  ASSUME Ordered, Last \in Nat, NEW t \in Nat, NEW dir, dir = "Prev", NEW include,
         NearHour(t, dir, include) = {}
  PROVE  Upper(NearFolder(t, dir), UpTo(t)) /\ (NearFolder(t, dir) = {} => UpTo(t) = {})
<1>1. PICK beyond : beyond = {f \in 1..Last : HourOf(Stamp(f)) < HourOf(t)}  OBVIOUS
<1>2. PICK nearest : nearest = First(beyond, dir, 0)  OBVIOUS
<1>3. PICK S : S = {f \in beyond : HourOf(Stamp(f)) = HourOf(Stamp(nearest))}  OBVIOUS
<1>4. NearFolder(t, dir) = S  BY <1>1, <1>2, <1>3 DEF NearFolder
<1>5. HourOf(t) \in Nat  BY HoursAscend
<1>6. beyond # {} => nearest \in beyond /\ \A f \in beyond : f <= nearest
  <2>1. beyond \subseteq Nat /\ \A f \in beyond : f <= Last  BY <1>1
  <2>2. beyond # {} => nearest \in beyond /\ \A f \in beyond : nearest >= f  BY <1>2, <2>1, FirstIs
  <2> QED  BY <2>1, <2>2
<1>7. beyond = UpTo(t)
  <2>1. ASSUME NEW f \in beyond PROVE f \in UpTo(t)
    <3>1. f \in 1..Last /\ HourOf(Stamp(f)) < HourOf(t)  BY <1>1
    <3>2. Stamp(f) \in Nat /\ HourOf(Stamp(f)) \in Nat  BY <3>1, StampsAscend
    <3>3. t <= Stamp(f) => HourOf(t) <= HourOf(Stamp(f))  BY <3>2, HoursAscend
    <3>4. Stamp(f) <= t  BY <1>5, <3>1, <3>2, <3>3
    <3> QED  BY <3>1, <3>4 DEF UpTo
  <2>2. ASSUME NEW f \in UpTo(t) PROVE f \in beyond
    <3>1. f \in 1..Last /\ Stamp(f) <= t  BY DEF UpTo
    <3>2. Stamp(f) \in Nat /\ HourOf(Stamp(f)) \in Nat  BY <3>1, StampsAscend
    <3>3. HourOf(Stamp(f)) <= HourOf(t)  BY <3>1, <3>2, HoursAscend
    <3>4. HourOf(Stamp(f)) # HourOf(t)
      <4>1. SUFFICES ASSUME HourOf(Stamp(f)) = HourOf(t) PROVE FALSE  OBVIOUS
      <4>2. HourOf(Stamp(f)) \in (HourOf(t) - 1)..HourOf(t)  BY <1>5, <4>1
      <4>3. f \in InHours(HourOf(t) - 1, HourOf(t))  BY <3>1, <4>2 DEF InHours
      <4>4. f \in NearHour(t, dir, include)  BY <3>1, <4>3 DEF NearHour
      <4> QED  BY <4>4
    <3>5. HourOf(Stamp(f)) < HourOf(t)  BY <1>5, <3>2, <3>3, <3>4
    <3> QED  BY <1>1, <3>1, <3>5
  <2> QED  BY <2>1, <2>2
<1>8. ASSUME NEW a \in S, NEW b \in beyond, a <= b PROVE b \in S
  <2>1. a \in 1..Last /\ b \in 1..Last /\ nearest \in 1..Last /\ b <= nearest
    BY <1>1, <1>3, <1>6
  <2>2. /\ HourOf(Stamp(a)) <= HourOf(Stamp(b)) /\ HourOf(Stamp(b)) <= HourOf(Stamp(nearest))
        /\ HourOf(Stamp(a)) \in Nat /\ HourOf(Stamp(b)) \in Nat /\ HourOf(Stamp(nearest)) \in Nat
    BY <1>8, <2>1, StampsAscend
  <2>3. HourOf(Stamp(a)) = HourOf(Stamp(nearest))  BY <1>3
  <2>4. HourOf(Stamp(b)) = HourOf(Stamp(nearest))  BY <2>2, <2>3
  <2> QED  BY <1>3, <2>4
<1>9. Upper(S, beyond)  BY <1>3, <1>8 DEF Upper
<1>10. S = {} => beyond = {}  BY <1>3, <1>6
<1> QED  BY <1>4, <1>7, <1>9, <1>10

LEMMA In2HoursPrev ==
  ASSUME Ordered, Last \in Nat, NEW t \in Nat, NEW dir, dir = "Prev", NEW S, S \subseteq 1..Last
  PROVE  Upper(In2Hours(t, S, dir), S) /\ (S # {} => In2Hours(t, S, dir) # {})
<1>1. ASSUME NEW hour \in Int PROVE Upper(Within(hour, S, dir), S)
  <2>1. Within(hour, S, dir) = {f \in S : HourOf(Stamp(f)) >= hour}  BY DEF Within
  <2>2. ASSUME NEW a \in S, NEW b \in S, HourOf(Stamp(a)) >= hour, a <= b
        PROVE  HourOf(Stamp(b)) >= hour
    <3>1. /\ HourOf(Stamp(a)) <= HourOf(Stamp(b)) /\ HourOf(Stamp(a)) \in Nat
          /\ HourOf(Stamp(b)) \in Nat
      BY <2>2, StampsAscend
    <3> QED  BY <2>2, <3>1
  <2> QED  BY <2>1, <2>2 DEF Upper
<1>2. HourOf(t) - 1 \in Int  BY HoursAscend
<1>3. CASE S = {}
  <2>1. In2Hours(t, S, dir) = {}  BY <1>3 DEF In2Hours, Either, Within
  <2> QED  BY <1>3, <2>1 DEF Upper
<1>4. CASE S # {}
  <2>1. S \subseteq Nat  OBVIOUS
  <2>2. Least(S) \in 1..Last /\ Least(S) \in S  BY <1>4, <2>1, LeastIs
  <2>3. HourOf(Stamp(Least(S))) \in Nat  BY <2>2, StampsAscend
  <2>4. PICK A : A = Within(HourOf(t) - 1, S, dir)  OBVIOUS
  <2>5. PICK B : B = Within(HourOf(Stamp(Least(S))), S, dir)  OBVIOUS
  <2>6. In2Hours(t, S, dir) = IF A # {} THEN A ELSE B  BY <2>4, <2>5 DEF In2Hours, Either
  <2>7. Upper(A, S) /\ Upper(B, S)  BY <1>1, <1>2, <2>3, <2>4, <2>5
  <2>8. Least(S) \in B  BY <2>2, <2>3, <2>5 DEF Within
  <2> QED  BY <2>6, <2>7, <2>8
<1> QED  BY <1>3, <1>4

\* Backwards: the last file up to the time is the last of the list, and without any there is none.
LEMMA NearestPrev ==
  ASSUME Ordered, Last \in Nat, NEW t \in Nat, NEW dir, dir = "Prev", NEW include,
         NEW list, list = GetNearestFile(t, dir, include)
  PROVE  /\ list = <<>> => UpTo(t) = {}
         /\ list # <<>> =>
              \E g \in Int : /\ \A k \in 1..Len(list) : list[k] = g - (Len(list) + 1 - k)
                             /\ g - 1 \in UpTo(t) /\ \A f \in UpTo(t) : f < g
<1>1. PICK found : found = GetNearestFileNames(t, dir, include)  OBVIOUS
<1>2. PICK U : U = UpTo(t)  OBVIOUS
<1>3. U \subseteq 1..Last /\ Run(U)  BY <1>2, UpToRun
<1>4. Upper(found, U) /\ (found = {} => U = {})
  <2>1. CASE NearHour(t, dir, include) # {}
    <3>1. found = NearHour(t, dir, include)  BY <1>1, <2>1 DEF GetNearestFileNames, Either
    <3> QED  BY <1>2, <2>1, <3>1, NearHourPrev
  <2>2. CASE NearHour(t, dir, include) = {}
    <3>1. found = NearFolder(t, dir)  BY <1>1, <2>2 DEF GetNearestFileNames, Either
    <3> QED  BY <1>2, <2>2, <3>1, NearFolderPrev
  <2> QED  BY <2>1, <2>2
<1>5. PICK S : S = In2Hours(t, found, dir)  OBVIOUS
<1>6. list = IF found = {} THEN <<>> ELSE FilesOf(S)  BY <1>1, <1>5 DEF GetNearestFile
<1>7. CASE found = {}  BY <1>2, <1>4, <1>6, <1>7
<1>8. CASE found # {}
  <2>1. found \subseteq 1..Last  BY <1>3, <1>4 DEF Upper
  <2>2. Upper(S, found) /\ S # {}  BY <1>5, <1>8, <2>1, In2HoursPrev
  <2>3. Upper(S, U)
    <3>1. S \subseteq U  BY <1>4, <2>2 DEF Upper
    <3>2. ASSUME NEW a \in S, NEW b \in U, a <= b PROVE b \in S
      <4>1. a \in found  BY <2>2 DEF Upper
      <4>2. b \in found  BY <1>4, <3>2, <4>1 DEF Upper
      <4> QED  BY <2>2, <3>2, <4>2 DEF Upper
    <3> QED  BY <3>1, <3>2 DEF Upper
  <2>4. S \subseteq 1..Last /\ Run(S)  BY <1>3, <2>3, PartOfRun
  <2>5. list = FilesOf(S)  BY <1>6, <1>8
  <2>6. /\ list # <<>>
        /\ \E g \in Int : /\ \A k \in 1..Len(list) : list[k] = g - (Len(list) + 1 - k)
                          /\ g - 1 \in S /\ \A f \in S : f < g
    BY <2>2, <2>4, <2>5, LastOfList
  <2>7. PICK g \in Int : /\ \A k \in 1..Len(list) : list[k] = g - (Len(list) + 1 - k)
                         /\ g - 1 \in S /\ \A f \in S : f < g
    BY <2>6
  <2>8. g - 1 \in U  BY <2>3, <2>7 DEF Upper
  <2>9. ASSUME NEW f \in U PROVE f < g
    <3>1. f \in Nat  BY <1>3
    <3>2. g - 1 <= f => f \in S  BY <2>3, <2>7 DEF Upper
    <3> QED  BY <2>7, <3>1, <3>2
  <2> QED  BY <1>2, <2>6, <2>7, <2>8, <2>9
<1> QED  BY <1>7, <1>8

\* Forwards: a file with a chunk behind the time is the first of the list, or later.
LEMMA NearestFrom ==
  ASSUME Ordered, Contents, Last \in Nat, NEW t \in Nat, NEW dir, dir = "Next", NEW include, include = TRUE,
         NEW list, list = GetNearestFile(t, dir, include), list # <<>>,
         NEW f \in 1..Last, NEW e \in Chunks, Holds(files[f], e), t < Begin(e)
  PROVE  list[1] <= f
<1>1. PICK h : h = HourOf(Stamp(f))  OBVIOUS
<1>2. OrderOf(files) /\ f \in 1..Len(files)  BY DEF Ordered, Last
<1>3. h \in Nat /\ HourOf(t) \in Nat /\ HourOf(t) <= h
  <2>1. PICK i : i = e - FirstOf(files[f]) + 1  OBVIOUS
  <2>2. i \in 1..Len(files[f].own) /\ files[f].own[i] = e  BY <1>2, <2>1, PlaceOf
  <2>3. HourOf(Begin(e)) = h  BY <1>1, <2>2 DEF Contents, OneHour, Stamp
  <2>4. Begin(e) \in Nat  BY Spans
  <2> QED  BY <2>3, <2>4, HoursAscend
\* A later file begins behind the time.
<1>4. ASSUME NEW g \in 1..Last, f < g PROVE Stamp(g) > t
  <2>1. g \in 1..Len(files)  BY DEF Last
  <2>2. Begin(e) < files[g].stamp /\ files[g].stamp \in Nat /\ Begin(e) \in Nat
    BY <1>2, <1>4, <2>1, FilesApart, FileHas, Spans
  <2> QED  BY <2>2 DEF Stamp
<1>5. PICK found : found = GetNearestFileNames(t, dir, include)  OBVIOUS
<1>6. h <= HourOf(t) + 1 => f \in NearHour(t, dir, include)
  <2>1. SUFFICES ASSUME h <= HourOf(t) + 1 PROVE f \in NearHour(t, dir, include)  OBVIOUS
  <2>2. PICK near : near = InHours(HourOf(t), HourOf(t) + 1)  OBVIOUS
  <2>3. PICK older : older = {g \in near : Stamp(g) < t}  OBVIOUS
  <2>4. PICK one : one = IF older # {} THEN {Greatest(older)} ELSE {}  OBVIOUS
  <2>5. NearHour(t, dir, include) = (near \ older) \cup one
    BY <2>2, <2>3, <2>4 DEF NearHour
  <2>6. f \in near  BY <1>1, <1>3, <2>1, <2>2 DEF InHours
  <2>7. CASE f \notin older  BY <2>5, <2>6, <2>7
  <2>8. CASE f \in older
    <3>1. older \subseteq 1..Last /\ older \subseteq Nat /\ \A g \in older : g <= Last
      BY <2>2, <2>3 DEF InHours
    <3>2. Greatest(older) \in older /\ \A g \in older : Greatest(older) >= g
      BY <2>8, <3>1, GreatestIs
    <3>3. ~(f < Greatest(older))
      <4>1. SUFFICES ASSUME f < Greatest(older) PROVE FALSE  OBVIOUS
      <4>2. Stamp(Greatest(older)) > t /\ Stamp(Greatest(older)) < t
        BY <1>4, <2>3, <3>1, <3>2, <4>1
      <4>3. Stamp(Greatest(older)) \in Nat  BY <3>1, <3>2, StampsAscend
      <4> QED  BY <4>2, <4>3
    <3>4. f = Greatest(older)
      <4>1. PICK o : o = Greatest(older)  OBVIOUS
      <4>2. o \in Nat /\ o >= f /\ ~(f < o)  BY <2>8, <3>1, <3>2, <3>3, <4>1
      <4>3. f \in Nat  BY <2>8, <3>1
      <4> QED  BY <4>1, <4>2, <4>3
    <3> QED  BY <2>4, <2>5, <2>8, <3>4
  <2> QED  BY <2>7, <2>8
<1>7. found \subseteq 1..Last /\ Run(found) /\ (f \in found \/ \A a \in found : a < f)
  <2>1. CASE NearHour(t, dir, include) # {}
    <3>1. found = NearHour(t, dir, include)  BY <1>5, <2>1 DEF GetNearestFileNames, Either
    <3>2. found \subseteq 1..Last /\ Run(found)  BY <3>1, NearHourRun DEF Choice
    <3>3. CASE h <= HourOf(t) + 1  BY <1>6, <3>1, <3>2, <3>3
    <3>4. CASE h > HourOf(t) + 1
      <4>1. ASSUME NEW a \in found PROVE a < f
        <5>1. a \in InHours(HourOf(t), HourOf(t) + 1)
          <6>1. PICK near : near = InHours(HourOf(t), HourOf(t) + 1)  OBVIOUS
          <6>2. PICK older : older = {g \in near : Stamp(g) < t}  OBVIOUS
          <6>3. found = (near \ older) \cup (IF older # {} THEN {Greatest(older)} ELSE {})
            BY <3>1, <6>1, <6>2 DEF NearHour
          <6>4. older \subseteq Nat /\ \A g \in older : g <= Last  BY <6>1, <6>2 DEF InHours
          <6>5. older # {} => Greatest(older) \in older  BY <6>4, GreatestIs
          <6> QED  BY <6>1, <6>2, <6>3, <6>5
        <5>2. HourOf(Stamp(a)) <= HourOf(t) + 1  BY <1>3, <5>1 DEF InHours
        <5>3. a \in 1..Last /\ a \in Nat /\ f \in Nat  BY <3>2
        <5>4. f <= a => h <= HourOf(Stamp(a))  BY <1>1, <5>3, StampsAscend
        <5>5. HourOf(Stamp(a)) \in Nat  BY <5>3, StampsAscend
        <5> QED  BY <1>3, <3>4, <5>2, <5>3, <5>4, <5>5
      <4> QED  BY <3>2, <4>1
    <3> QED  BY <1>3, <3>3, <3>4
  <2>2. CASE NearHour(t, dir, include) = {}
    <3>1. found = NearFolder(t, dir)  BY <1>5, <2>2 DEF GetNearestFileNames, Either
    <3>2. found \subseteq 1..Last /\ Run(found)  BY <2>2, <3>1, NearFolderRun DEF Choice
    <3>3. h > HourOf(t) + 1
      <4>1. ~(h <= HourOf(t) + 1)  BY <1>6, <2>2
      <4> QED  BY <1>3, <4>1
    <3>4. PICK beyond : beyond = {g \in 1..Last : HourOf(Stamp(g)) > HourOf(t)}  OBVIOUS
    <3>5. PICK nearest : nearest = First(beyond, dir, 0)  OBVIOUS
    <3>6. found = {g \in beyond : HourOf(Stamp(g)) = HourOf(Stamp(nearest))}
      BY <3>1, <3>4, <3>5 DEF NearFolder
    <3>7. f \in beyond  BY <1>1, <1>3, <3>3, <3>4
    <3>8. nearest \in 1..Last /\ nearest <= f
      <4>1. beyond \subseteq Nat /\ \A g \in beyond : g <= Last  BY <3>4
      <4>2. nearest \in beyond /\ \A g \in beyond : nearest <= g  BY <3>5, <3>7, <4>1, FirstIs
      <4> QED  BY <3>4, <3>7, <4>2
    <3>9. HourOf(Stamp(nearest)) <= h /\ HourOf(Stamp(nearest)) \in Nat
      BY <1>1, <3>8, StampsAscend
    <3>10. CASE HourOf(Stamp(nearest)) = h  BY <1>1, <3>2, <3>6, <3>7, <3>10
    <3>11. CASE HourOf(Stamp(nearest)) # h
      <4>1. ASSUME NEW a \in found PROVE a < f
        <5>1. HourOf(Stamp(a)) = HourOf(Stamp(nearest))  BY <3>6
        <5>2. a \in 1..Last /\ a \in Nat /\ f \in Nat  BY <3>2
        <5>3. f <= a => h <= HourOf(Stamp(a))  BY <1>1, <5>2, StampsAscend
        <5> QED  BY <1>3, <3>9, <3>11, <5>1, <5>2, <5>3
      <4> QED  BY <3>2, <4>1
    <3> QED  BY <3>10, <3>11
  <2> QED  BY <2>1, <2>2
<1>8. PICK kept : kept = OneUpTo(t, found)  OBVIOUS
<1>9. kept = {g \in found : \A b \in found : b > g => Stamp(b) > t}  BY <1>8 DEF OneUpTo
<1>10. kept \subseteq 1..Last /\ Run(kept)
  <2>1. ASSUME NEW a \in kept, NEW b \in found, a <= b PROVE b \in kept
    <3>1. \A g \in found : g \in 1..Last /\ g \in Int  BY <1>7
    <3>2. \A g \in found : g > b => g > a  BY <1>9, <2>1, <3>1
    <3> QED  BY <1>9, <3>2
  <2>2. Upper(kept, found)  BY <1>9, <2>1 DEF Upper
  <2> QED  BY <1>7, <2>2, PartOfRun
<1>11. f \in found => f \in kept
  <2>1. \A b \in found : b > f => Stamp(b) > t  BY <1>4, <1>7
  <2> QED  BY <1>9, <2>1
<1>12. PICK S : S = In2Hours(t, kept, dir)  OBVIOUS
<1>13. Lower(S, kept)  BY <1>10, <1>12, In2HoursRun
<1>14. S \subseteq 1..Last /\ Run(S)  BY <1>10, <1>13, PartOfRun
<1>15. list = FilesOf(S)  BY <1>5, <1>8, <1>12 DEF GetNearestFile
<1>16. S # {}
  <2>1. S = {} => FilesOf(S) = <<>>
    <3>1. S = {} => Len(FilesOf(S)) = 0 /\ FilesOf(S) \in Seq(1..Last)
      BY <1>14, FilesOfType, FS_EmptySet
    <3> QED  BY <3>1
  <2> QED  BY <1>15, <2>1
<1>17. PICK l : l = Least(S)  OBVIOUS
<1>18. list[1] = l  BY <1>14, <1>15, <1>16, <1>17, LastOfList
<1>19. l \in S /\ \A y \in S : l <= y
  <2>1. S \subseteq Nat  BY <1>14
  <2> QED  BY <1>16, <1>17, <2>1, LeastIs
<1>20. l \in found
  <2>1. l \in kept  BY <1>13, <1>19 DEF Lower
  <2> QED  BY <1>9, <2>1
<1>21. l \in Nat /\ f \in Nat  BY <1>14, <1>19
<1>22. CASE f \in found
  <2>1. f <= l => f \in S  BY <1>11, <1>13, <1>19, <1>22 DEF Lower
  <2>2. f <= l => l <= f  BY <1>19, <2>1
  <2>3. l <= f  BY <1>21, <2>2
  <2> QED  BY <1>18, <2>3
<1>23. CASE \A a \in found : a < f
  <2>1. l < f  BY <1>20, <1>23
  <2>2. l <= f  BY <1>21, <2>1
  <2> QED  BY <1>18, <2>2
<1> QED  BY <1>7, <1>22, <1>23

-----------------------------------------------------------------------------
(***************************************************************************)
(* What LoadDataByIndex finds backwards.                                   *)
(***************************************************************************)
\* The position in the index is not before an entry that begins up to the time.
LEMMA PositionPrev ==
  ASSUME NEW headers \in Seq(EntryType), NEW t \in Nat, NEW dir, dir = "Prev",
         NEW start, start = SetIndexPosition(headers, t, dir),
         NEW i \in 1..Len(headers), Begin(headers[i].chunk) <= t,
         \A j \in 1..(i - 1) : End(headers[j].chunk) < t /\ Begin(headers[j].chunk) <= t
  PROVE  i - 1 \in 0..start /\ start \in Nat
<1>1. PICK stops : stops = {j \in 1..Len(headers) : Begin(headers[j].chunk) > t \/ End(headers[j].chunk) >= t}
  OBVIOUS
<1>2. PICK stop : stop = First(stops, "Next", Len(headers))  OBVIOUS
<1>3. Len(headers) \in Nat /\ i \in Nat /\ 1 <= i /\ i <= Len(headers) /\ headers # <<>>  OBVIOUS
<1>4. start = IF Begin(headers[stop].chunk) > t THEN stop - 2 ELSE stop - 1
  BY <1>1, <1>2, <1>3 DEF SetIndexPosition
<1>5. \A j \in 1..Len(headers) : Begin(headers[j].chunk) \in Nat /\ End(headers[j].chunk) \in Nat
  <2> TAKE j \in 1..Len(headers)
  <2>1. headers[j] \in EntryType  OBVIOUS
  <2> QED  BY <2>1, ChunkType DEF EntryType
<1>6. stops \subseteq 1..Len(headers) /\ stops \subseteq Nat /\ \A j \in stops : j <= Len(headers)
  BY <1>1, <1>3
<1>7. /\ stops # {} => stop \in stops
      /\ stops = {} => stop = Len(headers)
  BY <1>2, <1>3, <1>6, FirstIs
<1>8. stop \in 1..Len(headers) /\ stop \in Nat
  <2>1. CASE stops = {}
    <3>1. stop = Len(headers) /\ 1 <= Len(headers)  BY <1>3, <1>7, <2>1
    <3> QED  BY <1>3, <3>1
  <2>2. CASE stops # {}
    <3>1. stop \in stops  BY <1>7, <2>2
    <3> QED  BY <1>6, <3>1
  <2> QED  BY <2>1, <2>2
<1>9. i <= stop
  <2>1. SUFFICES ASSUME stop < i PROVE FALSE  BY <1>3, <1>8
  <2>2. stop \in stops  BY <1>3, <1>7, <2>1
  <2>3. stop \in 1..(i - 1)  BY <1>3, <1>8, <2>1
  <2>4. End(headers[stop].chunk) < t /\ Begin(headers[stop].chunk) <= t  BY <2>3
  <2>5. Begin(headers[stop].chunk) > t \/ End(headers[stop].chunk) >= t  BY <1>1, <2>2
  <2> QED  BY <1>5, <1>8, <2>4, <2>5
<1>10. CASE i = stop
  <2>1. ~(Begin(headers[stop].chunk) > t)  BY <1>5, <1>10
  <2> QED  BY <1>3, <1>4, <1>8, <1>10, <2>1
<1>11. CASE i # stop  BY <1>3, <1>4, <1>8, <1>9, <1>11
<1> QED  BY <1>10, <1>11

\* A video frame at or before t, or none: of a chunk that begins later.
LEMMA SeekFindsBack ==
  ASSUME NEW c \in Chunks, NEW t \in Nat, NEW dir, dir = "Prev"
  PROVE  SeekToTime(c, t, dir) = 0 => t < Begin(c)
<1>1. PICK x : x = SeekToTime(c, t, dir)  OBVIOUS
<1>2. x = 0 => \A i \in Videos(Items(c)) : ~(Items(c)[i].time <= t)
  <2>1. t \in Int  OBVIOUS
  <2> QED  BY ONLY c \in Chunks, dir = "Prev", <2>1, <1>1, SeekToTimeIs
<1>3. 1 \in Videos(Items(c)) /\ Items(c)[1].time = Begin(c) /\ Begin(c) \in Nat  BY ChunkType
<1> QED  BY <1>1, <1>2, <1>3

\* The last entry that could be read and begins up to the time, and its last frame up to it.
FindsBack(r, t, q) ==
  \E i \in 1..Len(r.headers), v \in Nat :
    /\ r.headers[i].own /\ q = Placed(r, i - 1, r.headers[i].chunk, v - 1, Time(r.headers[i].chunk, v))
    /\ v \in Videos(Content[r.headers[i].chunk]) /\ Time(r.headers[i].chunk, v) <= t
    /\ \A w \in Videos(Content[r.headers[i].chunk]) : Time(r.headers[i].chunk, w) <= t => w <= v
    /\ \A j, e : Fresh(r, j, e) /\ Begin(e) <= t => j <= i

LEMMA LoadBackward ==
  ASSUME Ordered, NEW r, ReaderOK(r, Last), r.file \in 1..Last, NEW x, x = files[r.file],
         Snapshot(x, r), NEW t \in Nat, NEW dir, dir = "Prev", NEW L, L = LoadDataByIndex(r, t, dir)
  PROVE  /\ L.ok \in BOOLEAN
         /\ L.ok => FindsBack(r, t, L.r)
         /\ ~L.ok => \A j, e : Fresh(r, j, e) => t < Begin(e)
<1>1. /\ Last \in Nat /\ x \in FileType /\ InOrder(x) /\ t \in Int /\ dir \in {"Next", "Prev"}
      /\ x.cells \in Nat /\ x.headed \in BOOLEAN
  BY FilesAre, FileShape DEF Ordered, Last
<1>2. r.headers \in Seq(EntryType) /\ Len(r.headers) \in Nat  BY DEF ReaderOK, ReaderType
<1>3. PICK start : start = SetIndexPosition(r.headers, t, dir)  OBVIOUS
<1>4. /\ L.ok \in BOOLEAN
      /\ L.ok => \E i \in 0..(Len(r.headers) - 1), c \in Chunks, v \in Nat :
                   LoadHit(r, t, dir, start, L.r, i, c, v)
      /\ ~L.ok => \E i \in -1..(Len(r.headers) - 1), c \in Chunks \cup {0}, next \in Nat :
                    LoadMiss(r, t, dir, start, L.r, i, c, next)
  BY <1>1, <1>3, LoadIs
\* What was on the disk up to the time is tried.
<1>5. ASSUME NEW j, NEW e, Fresh(r, j, e), Begin(e) <= t
      PROVE  /\ j \in 1..Len(r.headers) /\ e = r.headers[j].chunk /\ j - 1 \in 0..start /\ start >= 0
             /\ Readable(r.file, j, r.headers[j]) /\ SeekToTime(e, t, dir) # 0
  <2>1. j \in 1..Len(r.headers) /\ r.headers[j].own /\ r.headers[j].chunk = e /\ 2 * j + 1 < r.size
    BY <1>5 DEF Fresh, HasEntry
  <2>2. e \in Chunks /\ j \in Nat /\ r.size \in Nat  BY <2>1, EntryIs
  <2>3. /\ e = FirstOf(x) + j - 1
        /\ \A k \in 1..j : k \in 1..Len(r.headers) /\ r.headers[k].own
    BY <1>1, <2>1, SnapshotIs
  <2>4. ASSUME NEW k \in 1..(j - 1)
        PROVE  End(r.headers[k].chunk) < t /\ Begin(r.headers[k].chunk) <= t
    <3>1. k \in 1..j /\ k \in Nat /\ k < j  BY <2>2
    <3>2. PICK d : d = r.headers[k].chunk  OBVIOUS
    <3>3. k \in 1..Len(r.headers) /\ r.headers[k].own  BY <2>3, <3>1
    <3>4. d = FirstOf(x) + k - 1 /\ d \in Chunks  BY <1>1, <3>2, <3>3, SnapshotIs, EntryIs
    <3>5. d < e
      <4>1. FirstOf(x) \in Nat  BY <1>1, OrderIs
      <4> QED  BY <2>2, <2>3, <3>1, <3>4, <4>1
    <3>6. End(d) < Begin(e) /\ Begin(d) <= End(d) /\ Begin(d) \in Nat /\ End(d) \in Nat /\ Begin(e) \in Nat
      BY <2>2, <3>4, <3>5, Apart, Spans
    <3> QED  BY <1>5, <3>2, <3>6
  <2>5. j - 1 \in 0..start /\ start \in Nat
    <3>1. Begin(r.headers[j].chunk) <= t  BY <1>5, <2>1
    <3> QED  BY <1>2, <1>3, <2>1, <2>4, <3>1, PositionPrev
  <2>6. Readable(r.file, j, r.headers[j])
    <3>1. r.size <= SizeOf(x)  BY DEF Snapshot, SnapshotOf
    <3>2. SizeOf(x) <= x.cells + 1 /\ SizeOf(x) \in Nat  BY <1>1 DEF SizeOf
    <3>3. 2 * j < x.cells  BY <1>1, <2>1, <2>2, <3>1, <3>2
    <3> QED  BY <2>1, <3>3 DEF Readable
  <2>7. SeekToTime(e, t, dir) # 0
    <3>1. Begin(e) \in Nat  BY <2>2, Spans
    <3> QED  BY <1>5, <2>2, <3>1, SeekFindsBack
  <2> QED  BY <2>1, <2>5, <2>6, <2>7
<1>6. ASSUME L.ok PROVE FindsBack(r, t, L.r)
  <2>1. PICK h \in 0..(Len(r.headers) - 1), c \in Chunks, v \in Nat :
          LoadHit(r, t, dir, start, L.r, h, c, v)
    BY <1>4, <1>6
  <2>2. PICK i : i = h + 1  OBVIOUS
  <2>3. i \in 1..Len(r.headers) /\ h = i - 1 /\ i \in Nat  BY <1>2, <2>2
  <2>4. /\ c = r.headers[i].chunk /\ Readable(r.file, i, r.headers[i])
        /\ v = SeekToTime(c, t, dir) /\ v # 0 /\ v \in Videos(Items(c))
        /\ L.r = Placed(r, i - 1, c, v - 1, Items(c)[v].time)
    BY <2>1, <2>2, <2>3 DEF LoadHit
  <2>5. Items(c) = Content[c] /\ \A w : Content[c][w].time = Time(c, w)  BY ChunkType DEF Time
  <2>6. /\ Items(c)[v].time <= t
        /\ \A w \in Videos(Items(c)) : Items(c)[w].time <= t => v >= w
    BY <1>1, <2>4, SeekToTimeIs
  <2>7. r.headers[i].own  BY <2>4 DEF Readable
  <2>8. ASSUME NEW w \in Videos(Content[c]), Time(c, w) <= t PROVE w <= v
    <3>1. w \in Nat  BY Spans
    <3> QED  BY <2>5, <2>6, <2>8, <3>1
  <2>9. ASSUME NEW j, NEW e, Fresh(r, j, e), Begin(e) <= t PROVE j <= i
    <3>1. /\ j \in 1..Len(r.headers) /\ e = r.headers[j].chunk /\ j - 1 \in 0..start
          /\ Readable(r.file, j, r.headers[j]) /\ SeekToTime(e, t, dir) # 0
      BY <1>5, <2>9
    <3>2. PICK k : k = j - 1  OBVIOUS
    <3>3. k \in 0..start /\ k + 1 = j  BY <1>2, <3>1, <3>2
    <3>4. k <= h  BY <1>1, <2>1, <3>1, <3>3 DEF LoadHit
    <3> QED  BY <1>2, <2>3, <3>1, <3>3, <3>4
  <2>10. Time(c, v) <= t /\ v \in Videos(Content[c])  BY <2>4, <2>5, <2>6
  <2>11. L.r = Placed(r, i - 1, c, v - 1, Time(c, v))  BY <2>4, <2>5
  <2> QED  BY <2>3, <2>4, <2>7, <2>8, <2>9, <2>10, <2>11 DEF FindsBack
<1>7. ASSUME ~L.ok, NEW j, NEW e, Fresh(r, j, e) PROVE t < Begin(e)
  <2>1. PICK h \in -1..(Len(r.headers) - 1), c \in Chunks \cup {0}, next \in Nat :
          LoadMiss(r, t, dir, start, L.r, h, c, next)
    BY <1>4, <1>7
  <2>2. SUFFICES ASSUME Begin(e) <= t PROVE FALSE
    <3>1. Begin(e) \in Nat
      <4>1. e \in Chunks  BY <1>7, EntryIs DEF Fresh, HasEntry
      <4> QED  BY <4>1, Spans
    <3> QED  BY <3>1
  <2>3. /\ j \in 1..Len(r.headers) /\ e = r.headers[j].chunk /\ j - 1 \in 0..start /\ start >= 0
        /\ Readable(r.file, j, r.headers[j]) /\ SeekToTime(e, t, dir) # 0
    BY <1>5, <1>7, <2>2
  <2>4. PICK k : k = j - 1  OBVIOUS
  <2>5. k \in 0..start /\ k + 1 = j  BY <1>2, <2>3, <2>4
  <2> QED  BY <2>1, <2>3, <2>5 DEF LoadMiss
<1> QED  BY <1>4, <1>6, <1>7

\* Forwards: the first frame from the time on, of a chunk before which nothing ends later; or
\* nothing that was on the disk ends at the time or later.
LEMMA LoadFrom ==
  ASSUME Ordered, NEW r, ReaderOK(r, Last), r.file \in 1..Last, NEW x, x = files[r.file],
         Snapshot(x, r), NEW t \in Nat, NEW dir, dir = "Next", NEW L, L = LoadDataByIndex(r, t, dir)
  PROVE  /\ L.ok \in BOOLEAN
         /\ L.ok => Finds(x, r, t, L.r)
         /\ ~L.ok => \A j, e : Fresh(r, j, e) => End(e) < t
<1>1. CASE Sought(x, r, t)
  <2>1. L.ok \in BOOLEAN /\ IF L.ok THEN Finds(x, r, t, L.r) ELSE FindsNot(r, t, L.r)
    BY <1>1, LoadForward
  <2>2. ASSUME ~L.ok, NEW j, NEW e, Fresh(r, j, e) PROVE End(e) < t
    <3>1. j \in 1..Len(r.headers) /\ r.headers[j].own /\ r.headers[j].chunk = e /\ 2 * j + 1 < r.size
      BY <2>2 DEF Fresh, HasEntry
    <3>2. ~(End(e) >= t)
      <4>1. End(e) >= t => 2 * j + 1 >= r.size  BY <2>1, <2>2, <3>1 DEF FindsNot
      <4>2. j \in Nat /\ r.size \in Nat  BY <3>1, EntryIs
      <4> QED  BY <3>1, <4>1, <4>2
    <3>3. End(e) \in Nat  BY <3>1, EntryIs, Spans
    <3> QED  BY <3>2, <3>3
  <2> QED  BY <2>1, <2>2
<1>2. CASE ~Sought(x, r, t)
  <2>1. \A i \in 1..Len(r.headers) : r.headers[i].own => End(r.headers[i].chunk) < t
    <3> TAKE i \in 1..Len(r.headers)
    <3>1. End(r.headers[i].chunk) \in Nat  BY EntryIs, Spans
    <3> QED  BY <1>2, <3>1 DEF Sought
  <2>2. PICK start : start = SetIndexPosition(r.headers, t, dir)  OBVIOUS
  <2>3. /\ L.ok \in BOOLEAN
        /\ L.ok => \E i \in 0..(Len(r.headers) - 1), c \in Chunks, v \in Nat :
                     LoadHit(r, t, dir, start, L.r, i, c, v)
    <3>1. Last \in Nat /\ t \in Int /\ dir \in {"Next", "Prev"}  BY DEF Ordered, OrderOf, Last
    <3> QED  BY <2>2, <3>1, LoadIs
  <2>4. ~L.ok
    <3>1. SUFFICES ASSUME L.ok PROVE FALSE  BY <2>3
    <3>2. PICK i \in 0..(Len(r.headers) - 1), c \in Chunks, v \in Nat :
            LoadHit(r, t, dir, start, L.r, i, c, v)
      BY <2>3, <3>1
    <3>3. /\ c = r.headers[i + 1].chunk /\ r.headers[i + 1].own /\ SeekToTime(c, t, dir) # 0
      BY <3>2 DEF LoadHit, Readable
    <3>4. i + 1 \in 1..Len(r.headers)
      <4>1. Len(r.headers) \in Nat  BY DEF ReaderOK, ReaderType
      <4> QED  BY <4>1
    <3>5. End(c) < t  BY <2>1, <3>3, <3>4
    <3> QED  BY <3>3, <3>5, SeekFinds
  <2>5. ASSUME NEW j, NEW e, Fresh(r, j, e) PROVE End(e) < t
    <3>1. j \in 1..Len(r.headers) /\ r.headers[j].own /\ r.headers[j].chunk = e
      BY <2>5 DEF Fresh, HasEntry
    <3> QED  BY <2>1, <3>1
  <2> QED  BY <2>3, <2>4, <2>5
<1> QED  BY <1>1, <1>2

-----------------------------------------------------------------------------
(***************************************************************************)
(* A Seek looks for its place.                                             *)
(***************************************************************************)
\* What a step has to show of where a Seek lands.
LandsNow ==
  call.op = "seek" /\ call.type = "Next" /\ pc' = "idle" /\ status' = "sought" /\ ~astray' =>
    Clear(seen, call.time, reader'.position)

LEMMA ContentsSame ==
  ASSUME Contents, UNCHANGED writerVars
  PROVE  Contents'
BY DEF Contents, Last, writerVars

\* A step of no Seek.
LEMMA NotLanding ==
  ASSUME LandInv, UNCHANGED writerVars, call'.op # "seek"
  PROVE  LandInv'
BY ContentsSame DEF LandInv, Landing

\* What holds in the course of a Seek, the dropping of frames included.
LEMMA InLand ==
  ASSUME Inv, PlayInv, StraightInv, LandInv, UNCHANGED writerVars, pc # "idle", call.op = "seek"
  PROVE  /\ call \in CallType /\ call.time \in Nat /\ call.type \in {"Next", "Prev"}
         /\ call.dir \in {"Next", "Prev"}
         /\ Ordered /\ OrderOf(files) /\ Contents /\ Last \in Nat /\ Last = Len(files)
         /\ files \in Seq(FileType) /\ FilesInv /\ ReaderOK(reader, Last)
         /\ files' = files /\ Last' = Last
         /\ SeenIn(files, seen) /\ LandingAt(files, pc, reader, call, passed, seen)
         /\ pc \in Seeks \cup Nexts /\ status = "none"
<1>1. call \in CallType /\ ReaderOK(reader, Last) /\ files \in Seq(FileType) /\ FilesInv
      /\ pc \in Steps
  BY DEF Inv, CallInv, ReaderInv, FilesInv
<1>2. Last \in Nat /\ Last = Len(files)  BY <1>1 DEF Last
<1>3. files' = files /\ Last' = Last  BY DEF writerVars, Last
<1>4. pc \in Seeks \cup Nexts
  <2>1. pc \notin Prevs  BY DEF StraightInv, Roles
  <2> QED  BY <1>1, <2>1 DEF Steps, Seeks, Nexts, Prevs
<1>5. status = "none"  BY <1>4 DEF PlayInv, Calling
<1> QED  BY <1>1, <1>2, <1>3, <1>4, <1>5 DEF StraightInv, Ordered, LandInv, Landing, CallType

\* A Seek that goes on.
LEMMA LandsOn ==
  ASSUME LandInv, UNCHANGED writerVars, call.op = "seek", seen' = seen,
         LandingAt(files, pc', reader', call', passed', seen)
  PROVE  LandInv'
<1>1. Contents' /\ files' = files  BY ContentsSame DEF LandInv, writerVars
<1>2. SeenIn(files, seen)  BY DEF LandInv, Landing
<1> QED  BY <1>1, <1>2 DEF LandInv, Landing

\* The manager goes on, or returns, with what the search backwards, or the one forwards, found.
LEMMA SeekReturnsLands ==
  ASSUME Inv, PlayInv, StraightInv, LandInv, pc \in {"list", "open", "load"},
         NEW found \in BOOLEAN, NEW r, ReaderOK(r, Last),
         SeekReturns(found, r), UNCHANGED <<writerVars, passed>>,
         found => /\ Clear(seen, call.time, r.position)
                  /\ call.dir = "Prev" => Held(r) /\ OldBehind(files[r.file], r),
         call.dir = "Prev" /\ ~(found /\ IsInGOP(r, call.time)) => NoneAt(seen, call.time)
  PROVE  LandInv' /\ LandsNow
<1>1. call.op = "seek" /\ pc # "idle"  BY InSeek DEF Seeks
<1>2. /\ call \in CallType /\ call.type \in {"Next", "Prev"} /\ call.dir \in {"Next", "Prev"}
      /\ SeenIn(files, seen) /\ LandingAt(files, pc, reader, call, passed, seen) /\ Last \in Nat
      /\ files' = files
  BY <1>1, InLand
<1>3. passed = {} /\ passed' = {}  BY <1>2 DEF LandingAt
<1>4. seen' = seen  BY DEF SeekReturns, historyVars
<1>5. CASE call.type = "Next" /\ call.dir = "Prev" /\ IsInGOP(r, call.time)
  <2>1. /\ reader' = [r EXCEPT !.file_list = <<>>] /\ pc' = "skip"
        /\ call' = [call EXCEPT !.found = found]
    BY <1>5 DEF SeekReturns
  <2>2. PICK q, list : q = reader' /\ list = <<>> /\ q = [r EXCEPT !.file_list = list]  BY <2>1
  <2>3. list \in Seq(1..Last)  BY <2>2
  <2>4. /\ q.file = r.file /\ q.headers = r.headers /\ q.datas = r.datas /\ q.next = r.next
        /\ q.position = r.position
    BY <1>2, <2>2, <2>3, ListOK
  <2>5. call'.time = call.time /\ call'.found = found  BY <1>2, <2>1 DEF CallType
  <2>6. found => Dropping(files, "skip", q, call', {}, seen)
    <3>1. Held(r) => Held(q)  BY <2>4 DEF Held, Over, Gone
    <3>2. OldBehind(files[r.file], r) => OldBehind(files[q.file], q)  BY <2>4 DEF OldBehind
    <3>3. found => /\ Clear(seen, call'.time, q.position) /\ Held(q) /\ OldBehind(files[q.file], q)
      BY <1>5, <2>4, <2>5, <3>1, <3>2
    <3> QED  BY <3>3 DEF Dropping, Nexts
  <2>7. LandingAt(files, "skip", q, call', {}, seen)  BY <2>5, <2>6 DEF LandingAt
  <2>8. LandInv'  BY <1>1, <1>3, <1>4, <2>1, <2>2, <2>7, LandsOn
  <2> QED  BY <2>1, <2>8 DEF LandsNow
<1>6. CASE call.type = "Next" /\ call.dir = "Prev" /\ ~IsInGOP(r, call.time)
  <2>1. reader' = r /\ pc' = "list" /\ call' = [call EXCEPT !.dir = "Next"]
    BY <1>6 DEF SeekReturns
  <2>2. call'.time = call.time  BY <1>2, <2>1 DEF CallType
  <2>3. NoneAt(seen, call'.time)  BY <1>6, <2>2
  <2>4. LandingAt(files, "list", reader', call', {}, seen)
    BY <2>3 DEF LandingAt, Nexts
  <2>5. LandInv'  BY <1>1, <1>3, <1>4, <2>1, <2>4, LandsOn
  <2> QED  BY <2>1, <2>5 DEF LandsNow
<1>7. CASE ~(call.type = "Next" /\ call.dir = "Prev")
  <2>1. /\ reader' = r /\ pc' = "idle" /\ call' = NoCall
        /\ status' = IF found THEN "sought" ELSE status
    BY <1>7 DEF SeekReturns
  <2>2. LandInv'  BY <2>1, NotLanding DEF NoCall
  <2>3. status = "none"  BY <1>1, InLand
  <2>4. LandsNow  BY <2>1, <2>3 DEF LandsNow
  <2> QED  BY <2>2, <2>4
<1> QED  BY <1>5, <1>6, <1>7

LEMMA SeekLandsIt ==
  ASSUME Inv, StraightInv, LandInv, Seek
  PROVE  LandInv' /\ LandsNow
<1>1. /\ pc' = "list" /\ passed' = {} /\ seen' = OnDisk /\ UNCHANGED writerVars
  BY DEF Seek
<1>2. call'.dir = "Prev"
  <2>1. PICK t \in Targets, type \in {"Next", "Prev"} :
          call' = [NoCall EXCEPT !.op = "seek", !.time = t, !.type = type, !.dir = "Prev"]
    BY DEF Seek
  <2> QED  BY <2>1 DEF NoCall
<1>3. Contents' /\ files' = files  BY <1>1, ContentsSame DEF LandInv, writerVars
<1>4. SeenIn(files', seen')  BY <1>1, <1>3, OnDiskIs DEF StraightInv, Ordered
<1>5. LandingAt(files', pc', reader', call', passed', seen')
  BY <1>1, <1>2 DEF LandingAt, Nexts
<1>6. LandInv'  BY <1>3, <1>4, <1>5 DEF LandInv, Landing
<1> QED  BY <1>1, <1>6 DEF LandsNow

LEMMA SeekGoesLands ==
  ASSUME Inv, PlayInv, StraightInv, LandInv, NEW at \in {"open", "load"}, Goes(at),
         UNCHANGED <<writerVars, passed>>, pc \in {"list", "open", "load"},
         at = "open" => IF call.dir = "Prev" THEN BackOpen(files, reader', call.time, seen)
                                             ELSE ForeOpen(files, reader', call.time, seen),
         at = "load" => /\ IF call.dir = "Prev" THEN BackLoad(files, reader', call.time, seen)
                                                ELSE ForeLoad(files, reader', call.time, seen)
                        /\ OldBehind(files[reader'.file], reader')
  PROVE  LandInv' /\ LandsNow
<1>1. call.op = "seek" /\ pc # "idle"  BY InSeek DEF Seeks
<1>2. LandingAt(files, pc, reader, call, passed, seen)  BY <1>1, InLand
<1>3. passed = {} /\ passed' = {}  BY <1>2 DEF LandingAt
<1>4. pc' = at /\ call' = call /\ seen' = seen  BY DEF Goes, historyVars
<1>5. LandingAt(files, at, reader', call, {}, seen)  BY DEF LandingAt, Nexts
<1>6. LandInv'  BY <1>1, <1>3, <1>4, <1>5, LandsOn
<1> QED  BY <1>4, <1>6 DEF LandsNow

LEMMA SeekListLands ==
  ASSUME Inv, PlayInv, StraightInv, LandInv, SeekList
  PROVE  LandInv' /\ LandsNow
<1>1. PICK list : list = GetNearestFile(call.time, call.dir, TRUE)  OBVIOUS
<1>2. /\ pc = "list" /\ UNCHANGED <<writerVars, passed>>
      /\ list = <<>> => SeekReturns(FALSE, reader)
      /\ list # <<>> => reader' = [reader EXCEPT !.file_list = list] /\ Goes("open")
  BY <1>1 DEF SeekList
<1>3. call.op = "seek" /\ pc # "idle"  BY <1>2, InSeek DEF Seeks
<1>4. /\ call.time \in Nat /\ call.dir \in {"Next", "Prev"} /\ Ordered /\ OrderOf(files)
      /\ Contents /\ Last \in Nat /\ Last = Len(files) /\ files \in Seq(FileType)
      /\ ReaderOK(reader, Last) /\ SeenIn(files, seen)
      /\ LandingAt(files, pc, reader, call, passed, seen)
  BY <1>2, <1>3, InLand
<1>5. PICK t, dir, include : t = call.time /\ dir = call.dir /\ include = TRUE  OBVIOUS
<1>6. list = GetNearestFile(t, dir, include) /\ include \in BOOLEAN /\ t \in Nat  BY <1>1, <1>4, <1>5
<1>7. ASSUME dir = "Prev", NEW e \in seen, Begin(e) <= t
      PROVE  \E f \in UpTo(t) : f \in 1..Len(files) /\ InFile(files, f, e)
  <2>1. e \in Chunks  BY <1>4, <1>7 DEF SeenIn
  <2>2. PICK f \in 1..Len(files) : InFile(files, f, e)  BY <1>4, <1>7 DEF SeenIn
  <2>3. files[f].stamp <= Begin(e)  BY <1>4, <2>1, <2>2, PlaceOf DEF InFile
  <2>4. files[f].stamp \in Nat /\ Begin(e) \in Nat  BY <1>4, <2>1, <2>2, FileHas, Spans
  <2>5. Stamp(f) <= t  BY <1>6, <1>7, <2>3, <2>4 DEF Stamp
  <2> QED  BY <1>4, <2>2, <2>5 DEF UpTo
<1>8. CASE list = <<>>
  <2>1. PICK found : found = FALSE  OBVIOUS
  <2>2. found \in BOOLEAN /\ ~found /\ SeekReturns(found, reader)  BY <1>2, <1>8, <2>1
  <2>3. dir = "Prev" => NoneAt(seen, t)
    <3>1. dir = "Prev" => UpTo(t) = {}  BY <1>4, <1>6, <1>8, NearestPrev
    <3> QED  BY <1>7, <3>1 DEF NoneAt
  <2> QED  BY <1>2, <1>4, <1>5, <2>2, <2>3, SeekReturnsLands
<1>9. CASE list # <<>>
  <2>1. list \in Seq(1..Last)  BY ONLY <1>4, <1>6, NearestType
  <2>2. PICK q : q = [reader EXCEPT !.file_list = list]  OBVIOUS
  <2>3. q.file_list = list  BY <1>4, <2>1, <2>2, ListOK
  <2>4. reader' = q /\ Goes("open")  BY <1>2, <1>9, <2>2
  <2>5. ASSUME dir = "Prev" PROVE BackOpen(files, q, t, seen)
    <3>1. PICK g \in Int : /\ \A k \in 1..Len(list) : list[k] = g - (Len(list) + 1 - k)
                           /\ g - 1 \in UpTo(t) /\ \A f \in UpTo(t) : f < g
      BY <1>4, <1>6, <1>9, <2>5, NearestPrev
    <3>2. ListTo(q, g)  BY <2>3, <3>1 DEF ListTo
    <3>3. g - 1 \in 1..Len(files) /\ files[g - 1].stamp <= t  BY <1>4, <3>1 DEF UpTo, Stamp
    <3>4. \A e \in seen : Begin(e) <= t =>
            \E f \in 1..Len(files) : InFile(files, f, e) /\ f < g /\ q.file_list # <<>>
      BY <1>7, <1>9, <2>3, <2>5, <3>1
    <3> QED  BY <3>2, <3>3, <3>4 DEF BackOpen
  <2>6. ASSUME dir = "Next" PROVE ForeOpen(files, q, t, seen)
    <3>1. PICK h \in Int : \A k \in 1..Len(list) : list[k] = h + k
      <4>1. Following(list, t, include)  BY ONLY <1>4, <1>6, <2>6, NearestNext
      <4> QED  BY ONLY <4>1 DEF Following
    <3>2. ListFrom(q, h)  BY <2>3, <3>1 DEF ListFrom
    <3>3. list[1] = h + 1
      <4>1. 1 \in 1..Len(list)  BY <1>9, <2>1
      <4> QED  BY <3>1, <4>1
    <3>4. ASSUME NEW e \in seen, End(e) >= t
          PROVE  \E f \in 1..Len(files) : InFile(files, f, e) /\ h < f
      <4>1. e \in Chunks /\ Begin(e) \in Nat /\ End(e) \in Nat  BY <1>4, <3>4, Spans DEF SeenIn
      <4>2. PICK f \in 1..Len(files) : InFile(files, f, e)  BY <1>4, <3>4 DEF SeenIn
      <4>3. NoneAt(seen, t)  BY <1>2, <1>4, <1>5, <2>6 DEF LandingAt
      <4>4. t < Begin(e)  BY <1>6, <3>4, <4>1, <4>3 DEF NoneAt
      <4>5. f \in 1..Last /\ Holds(files[f], e)  BY <1>4, <4>2 DEF InFile
      <4>6. include = TRUE  BY <1>5
      <4>7. list[1] <= f  BY ONLY <1>4, <1>6, <1>9, <2>6, <4>1, <4>4, <4>5, <4>6, NearestFrom
      <4> QED  BY <3>3, <4>2, <4>7
    <3> QED  BY <3>2, <3>4 DEF ForeOpen
  <2>7. IF call.dir = "Prev" THEN BackOpen(files, reader', call.time, seen)
                             ELSE ForeOpen(files, reader', call.time, seen)
    BY <1>4, <1>5, <2>4, <2>5, <2>6
  <2> QED  BY <1>2, <2>4, <2>7, SeekGoesLands
<1> QED  BY <1>8, <1>9

\* What was parsed: the entries on the disk are fresh; those behind the file's own are old.
LEMMA ParsedFresh ==
  ASSUME Ordered, Contents, files \in Seq(FileType), NEW q, NEW r, NEW f \in 1..Last, Opened(q, r, f),
         NEW x, x = files[f]
  PROVE  /\ OldBehind(x, q)
         /\ \A e \in Chunks : InFile(files, f, e) => FreshIn(x, q, e)
         /\ ~Parsed(f) => \A e \in Chunks : ~InFile(files, f, e)
<1>1. OrderOf(files) /\ Last = Len(files) /\ f \in 1..Len(files)  BY DEF Ordered, Last
<1>2. /\ q.headers = (IF Parsed(f) THEN Entries(f) ELSE <<>>) /\ q.size = FileSize(f)
  BY DEF Opened
<1>3. /\ Entries(f) \in Seq(EntryType) /\ x \in FileType /\ Len(x.own) \in Nat
      /\ Len(Entries(f)) = IF Len(x.left) > Len(x.own) THEN Len(x.left) ELSE Len(x.own)
      /\ \A i \in 1..Len(Entries(f)) :
           /\ Entries(f)[i].chunk = IF i <= Len(x.own) THEN x.own[i] ELSE x.left[i]
           /\ Entries(f)[i].own <=> i <= Len(x.own)
  BY EntriesType, FileShape
<1>4. x.left \in Seq(Chunks) /\ Len(x.left) \in Nat  BY <1>3 DEF FileType
<1>5. OldBehind(x, q)
  <2>1. ASSUME NEW i \in 1..Len(q.headers), ~q.headers[i].own PROVE q.headers[i].chunk < FirstOf(x)
    <3>1. Parsed(f)
      <4>1. SUFFICES ASSUME ~Parsed(f) PROVE FALSE  OBVIOUS
      <4>2. Len(q.headers) = 0  BY <1>2, <4>1
      <4> QED  BY <2>1, <4>2
    <3>2. i \in 1..Len(Entries(f)) /\ q.headers[i] = Entries(f)[i]  BY <1>2, <2>1, <3>1
    <3>3. ~(i <= Len(x.own)) /\ q.headers[i].chunk = x.left[i]  BY <1>3, <2>1, <3>2
    <3>4. i \in 1..Len(x.left)  BY <1>3, <1>4, <3>2, <3>3
    <3>5. Leftover(x)  BY DEF Contents
    <3>6. x.left[i] < FirstOf(x)  BY ONLY <3>4, <3>5 DEF Leftover
    <3> QED  BY <3>3, <3>6
  <2> QED  BY <2>1 DEF OldBehind
<1>6. ASSUME NEW e \in Chunks, InFile(files, f, e) PROVE Parsed(f) /\ FreshIn(x, q, e)
  <2>1. PICK i : i = e - FirstOf(x) + 1  OBVIOUS
  <2>2. Holds(files[f], e) /\ 2 * i < x.cells  BY <1>6, <2>1 DEF InFile
  <2>3. i \in 1..Len(x.own) /\ x.own[i] = e /\ x.headed /\ i \in Nat
    BY <1>1, <2>1, <2>2, PlaceOf
  <2>4. Parsed(f)  BY <2>3 DEF Parsed
  <2>5. i \in 1..Len(q.headers) /\ HasEntry(q, i, x.own[i])  BY <2>3, OpenedIs
  <2>6. q.size = x.cells + 1 /\ x.cells \in Nat
    <3>1. FileSize(f) = x.cells + 1  BY <2>3 DEF FileSize
    <3> QED  BY <1>2, <1>3, <3>1, FileShape
  <2>7. 2 * i + 1 < q.size  BY <2>2, <2>3, <2>6
  <2>8. Fresh(q, i, e)  BY <2>3, <2>5, <2>7 DEF Fresh
  <2> QED  BY <2>1, <2>4, <2>8 DEF FreshIn
<1> QED  BY <1>5, <1>6

\* The file taken from the end of the list.
LEMMA PopPrev ==
  ASSUME NEW r, NEW n \in Nat, ReaderOK(r, n), r.file_list # <<>>, NEW dir, dir = "Prev",
         NEW taken, taken = Pop(r, dir),
         NEW g \in Int, ListTo(r, g)
  PROVE  taken.file = g - 1 /\ ListTo(taken.r, g - 1)
<1>1. PICK list : list = r.file_list  OBVIOUS
<1>2. list \in Seq(1..n) /\ list # <<>>  BY <1>1 DEF ReaderOK
<1>3. PICK m : m = Len(list)  OBVIOUS
<1>4. m \in Nat /\ m >= 1  BY <1>2, <1>3
<1>5. PICK rest : rest = SubSeq(list, 1, m - 1)  OBVIOUS
<1>6. Len(rest) = m - 1 /\ \A k \in 1..(m - 1) : rest[k] = list[k]
  <2>1. m - 1 \in 0..m  BY <1>4
  <2> QED  BY ONLY <1>2, <1>3, <1>4, <1>5, <2>1
<1>7. taken.file = list[m]  BY <1>1, <1>3 DEF Pop
<1>8. taken.r.file_list = rest
  <2>1. taken.r = [r EXCEPT !.file_list = rest, !.opened = Stamp(taken.file) % Width]
    BY <1>1, <1>3, <1>5 DEF Pop
  <2>2. r \in ReaderType  BY DEF ReaderOK
  <2> QED  BY <2>1, <2>2 DEF ReaderType
<1>9. \A k \in 1..m : list[k] = g - (m + 1 - k)  BY <1>1, <1>3 DEF ListTo
<1>10. taken.file = g - 1
  <2>1. m \in 1..m  BY <1>4
  <2>2. list[m] = g - (m + 1 - m)  BY <1>9, <2>1
  <2> QED  BY <1>4, <1>7, <2>2
<1>11. ASSUME NEW k \in 1..(m - 1) PROVE rest[k] = (g - 1) - ((m - 1) + 1 - k)
  <2>1. rest[k] = list[k] /\ k \in 1..m  BY <1>4, <1>6
  <2>2. list[k] = g - (m + 1 - k)  BY <1>9, <2>1
  <2> QED  BY <1>4, <2>1, <2>2
<1> QED  BY <1>6, <1>8, <1>10, <1>11 DEF ListTo

\* The file before the end of a list is one of the files, and named for an earlier time.
LEMMA ListBefore ==
  ASSUME Ordered, NEW r, ReaderOK(r, Last), r.file_list # <<>>, NEW f \in 1..Last, ListTo(r, f)
  PROVE  f - 1 \in 1..Last /\ files[f - 1].stamp <= files[f].stamp
<1>1. PICK list : list = r.file_list  OBVIOUS
<1>2. list \in Seq(1..Last) /\ list # <<>>  BY <1>1 DEF ReaderOK
<1>3. PICK m : m = Len(list)  OBVIOUS
<1>4. m \in Nat /\ m \in 1..m  BY <1>2, <1>3
<1>5. list[m] = f - (m + 1 - m) /\ list[m] \in 1..Last
  <2>1. \A k \in 1..m : list[k] = f - (m + 1 - k)  BY <1>1, <1>3 DEF ListTo
  <2>2. list[m] = f - (m + 1 - m)  BY <1>4, <2>1
  <2>3. list[m] \in 1..Last
    <3>1. PICK S : S = 1..Last  OBVIOUS
    <3>2. list \in Seq(S) /\ m \in 1..Len(list)  BY <1>2, <1>3, <1>4, <3>1
    <3>3. list[m] \in S  BY ONLY <3>2
    <3> QED  BY <3>1, <3>3
  <2> QED  BY <2>2, <2>3
<1>6. Last \in Nat  BY DEF Ordered, OrderOf, Last
<1>7. f - 1 \in 1..Last  BY <1>4, <1>5, <1>6
<1> QED  BY <1>6, <1>7, StampsAscend DEF Stamp

LEMMA SeekOpenLands ==
  ASSUME Inv, PlayInv, StraightInv, LandInv, SeekOpen
  PROVE  LandInv' /\ LandsNow
<1>1. pc = "open" /\ UNCHANGED <<writerVars, passed>>  BY DEF SeekOpen
<1>2. call.op = "seek" /\ pc # "idle"  BY <1>1, InSeek DEF Seeks
<1>3. /\ call.time \in Nat /\ call.dir \in {"Next", "Prev"} /\ Ordered /\ OrderOf(files)
      /\ Contents /\ Last \in Nat /\ Last = Len(files) /\ files \in Seq(FileType) /\ FilesInv
      /\ ReaderOK(reader, Last) /\ SeenIn(files, seen)
      /\ LandingAt(files, pc, reader, call, passed, seen)
  BY <1>1, <1>2, InLand
<1>4. PICK r, t, dir : r = reader /\ t = call.time /\ dir = call.dir  OBVIOUS
<1>5. IF dir = "Prev" THEN BackOpen(files, r, t, seen) ELSE ForeOpen(files, r, t, seen)
  BY <1>1, <1>3, <1>4 DEF LandingAt
<1>6. \A e \in seen : e \in Chunks /\ Begin(e) \in Nat /\ End(e) \in Nat  BY <1>3, Spans DEF SeenIn
<1>7. CASE r.file_list = <<>>
  <2>1. PICK found : found = FALSE  OBVIOUS
  <2>2. found \in BOOLEAN /\ ~found /\ SeekReturns(found, reader)
    BY <1>4, <1>7, <2>1 DEF SeekOpen
  <2>3. dir = "Prev" => NoneAt(seen, t)
    <3>1. dir = "Prev" => \A e \in seen : Begin(e) <= t => ~(End(e) >= t)
      BY <1>5, <1>7 DEF BackOpen
    <3> QED  BY <1>3, <1>4, <1>6, <3>1 DEF NoneAt
  <2> QED  BY <1>1, <1>3, <1>4, <2>2, <2>3, SeekReturnsLands
<1>8. CASE r.file_list # <<>>
  <2>1. PICK taken : taken = Pop(r, dir)  OBVIOUS
  <2>2. PICK at, f : at = (IF Parsed(taken.file) THEN "load" ELSE "open") /\ f = taken.file  OBVIOUS
  <2>3. reader' = ParseHeader(taken.r, f) /\ Goes(at) /\ at \in {"open", "load"}
    BY <1>4, <1>8, <2>1, <2>2 DEF SeekOpen
  <2>4. ReaderOK(r, Last) /\ r.file_list \in Seq(1..Last)  BY <1>3, <1>4 DEF ReaderOK
  <2>5. /\ taken.file \in 1..Last /\ ReaderOK(taken.r, Last)
        /\ dir = "Next" => taken.file = Head(r.file_list) /\ taken.r.file_list = Tail(r.file_list)
    BY ONLY <1>3, <1>8, <2>1, <2>4, PopOK
  <2>6. f \in 1..Last /\ f \in Int /\ ReaderOK(taken.r, Last)  BY <1>3, <2>2, <2>5
  <2>7. PICK q, x : q = reader' /\ x = files[f]  OBVIOUS
  <2>8. Opened(q, taken.r, f)  BY <1>3, <2>3, <2>6, <2>7, OpenedOK
  <2>9. q.file = f /\ q.file_list = taken.r.file_list /\ ReaderOK(q, Last)  BY <2>8 DEF Opened
  <2>10. /\ OldBehind(x, q)
         /\ \A e \in Chunks : InFile(files, f, e) => FreshIn(x, q, e)
         /\ ~Parsed(f) => \A e \in Chunks : ~InFile(files, f, e)
    BY <1>3, <2>6, <2>7, <2>8, ParsedFresh
  <2>11. x.stamp \in Nat  BY <1>3, <2>6, <2>7, FileHas
  <2>12. ASSUME dir = "Prev"
         PROVE  /\ at = "open" => BackOpen(files, q, t, seen)
                /\ at = "load" => BackLoad(files, q, t, seen)
    <3>1. PICK g \in Int :
            /\ ListTo(r, g) /\ (r.file_list # <<>> => g - 1 \in 1..Len(files) /\ files[g - 1].stamp <= t)
            /\ \A e \in seen : Begin(e) <= t =>
                 \E h \in 1..Len(files) : /\ InFile(files, h, e) /\ (r.file_list # <<>> => h < g)
                                          /\ End(e) >= t => r.file_list # <<>>
      BY <1>5, <2>12 DEF BackOpen
    <3>2. f = g - 1 /\ ListTo(taken.r, g - 1)  BY <1>3, <1>8, <2>1, <2>2, <2>4, <2>12, <3>1, PopPrev
    <3>3. ListTo(q, f) /\ x.stamp <= t  BY <1>8, <2>7, <2>9, <3>1, <3>2 DEF ListTo
    <3>4. ASSUME NEW e \in seen, Begin(e) <= t
          PROVE  \E h \in 1..Len(files) : InFile(files, h, e) /\ h <= f
      <4>1. PICK h \in 1..Len(files) : InFile(files, h, e) /\ h < g  BY <1>8, <3>1, <3>4
      <4>2. h \in Nat  BY <1>3
      <4> QED  BY <3>2, <4>1, <4>2
    <3>5. ASSUME at = "load" PROVE BackLoad(files, q, t, seen)
      <4>1. ASSUME NEW e \in seen, Begin(e) <= t
            PROVE  \E h \in 1..Len(files) : /\ InFile(files, h, e) /\ h <= f
                                            /\ (h = f => FreshIn(files[h], q, e))
        <5>1. e \in Chunks  BY <1>6
        <5> QED  BY <2>7, <2>10, <3>4, <4>1, <5>1
      <4> QED  BY <2>7, <2>9, <3>3, <4>1 DEF BackLoad
    <3>6. ASSUME at = "open" PROVE BackOpen(files, q, t, seen)
      <4>1. ~Parsed(f)  BY <2>2, <3>6
      <4>2. q.file_list # <<>> => f - 1 \in 1..Len(files) /\ files[f - 1].stamp <= t
        <5>1. q.file_list # <<>> => f - 1 \in 1..Last /\ files[f - 1].stamp <= x.stamp
          BY <1>3, <2>6, <2>7, <2>9, <3>3, ListBefore
        <5>2. q.file_list # <<>> => files[f - 1].stamp \in Nat  BY <1>3, <5>1, FileHas
        <5> QED  BY <1>3, <1>4, <2>11, <3>3, <5>1, <5>2
      <4>3. ASSUME NEW e \in seen, Begin(e) <= t
            PROVE  \E h \in 1..Len(files) : InFile(files, h, e) /\ h < f /\ ~(End(e) >= t)
        <5>1. PICK h \in 1..Len(files) : InFile(files, h, e) /\ h <= f  BY <3>4, <4>3
        <5>2. e \in Chunks /\ End(e) \in Nat  BY <1>6
        <5>3. h # f  BY <2>10, <4>1, <5>1, <5>2
        <5>4. h < f  BY <1>3, <2>6, <5>1, <5>3
        <5>5. End(e) < x.stamp  BY <1>3, <2>6, <2>7, <5>1, <5>2, <5>4, FilesApart DEF InFile
        <5> QED  BY <1>3, <1>4, <2>11, <3>3, <5>1, <5>2, <5>4, <5>5
      <4> QED  BY <2>6, <3>3, <4>2, <4>3 DEF BackOpen
    <3> QED  BY <3>5, <3>6
  <2>13. ASSUME dir = "Next"
         PROVE  /\ at = "open" => ForeOpen(files, q, t, seen)
                /\ at = "load" => ForeLoad(files, q, t, seen)
    <3>1. PICK g \in Int :
            /\ ListFrom(r, g)
            /\ \A e \in seen : End(e) >= t =>
                 \E h \in 1..Len(files) : InFile(files, h, e) /\ (r.file_list # <<>> => g < h)
      BY <1>5, <2>13 DEF ForeOpen
    <3>2. f = Head(r.file_list) /\ q.file_list = Tail(r.file_list)  BY <2>2, <2>5, <2>9, <2>13
    <3>3. f = g + 1
      <4>1. 1 \in 1..Len(r.file_list)  BY <1>8, <2>4
      <4>2. Head(r.file_list) = r.file_list[1]  BY <1>8, <2>4
      <4> QED  BY <3>1, <3>2, <4>1, <4>2 DEF ListFrom
    <3>4. ListFrom(q, f)  BY <1>3, <1>8, <2>4, <3>1, <3>2, TailFrom
    <3>5. ASSUME NEW e \in seen, End(e) >= t
          PROVE  \E h \in 1..Len(files) : InFile(files, h, e) /\ f <= h
      <4>1. PICK h \in 1..Len(files) : InFile(files, h, e) /\ g < h  BY <1>8, <3>1, <3>5
      <4>2. h \in Nat  BY <1>3
      <4> QED  BY <3>3, <4>1, <4>2
    <3>6. ASSUME at = "load" PROVE ForeLoad(files, q, t, seen)
      <4>1. ASSUME NEW e \in seen, End(e) >= t
            PROVE  \E h \in 1..Len(files) : /\ InFile(files, h, e) /\ f <= h
                                            /\ (h = f => FreshIn(files[h], q, e))
        <5>1. e \in Chunks  BY <1>6
        <5> QED  BY <2>7, <2>10, <3>5, <4>1, <5>1
      <4> QED  BY <2>9, <3>4, <4>1 DEF ForeLoad
    <3>7. ASSUME at = "open" PROVE ForeOpen(files, q, t, seen)
      <4>1. ~Parsed(f)  BY <2>2, <3>7
      <4>2. ASSUME NEW e \in seen, End(e) >= t
            PROVE  \E h \in 1..Len(files) : InFile(files, h, e) /\ f < h
        <5>1. PICK h \in 1..Len(files) : InFile(files, h, e) /\ f <= h  BY <3>5, <4>2
        <5>2. e \in Chunks  BY <1>6
        <5>3. h # f  BY <2>10, <4>1, <5>1, <5>2
        <5> QED  BY <1>3, <2>6, <5>1, <5>3
      <4> QED  BY <2>6, <3>4, <4>2 DEF ForeOpen
    <3> QED  BY <3>6, <3>7
  <2>14. dir = "Prev" \/ dir = "Next"  BY <1>3, <1>4
  <2>15. at = "open" => IF call.dir = "Prev" THEN BackOpen(files, reader', call.time, seen)
                                             ELSE ForeOpen(files, reader', call.time, seen)
    BY <1>4, <2>7, <2>12, <2>13, <2>14
  <2>16. at = "load" => /\ IF call.dir = "Prev" THEN BackLoad(files, reader', call.time, seen)
                                                ELSE ForeLoad(files, reader', call.time, seen)
                        /\ OldBehind(files[reader'.file], reader')
    BY <1>4, <2>7, <2>9, <2>10, <2>12, <2>13, <2>14
  <2> QED  BY <1>1, <2>3, <2>15, <2>16, SeekGoesLands
<1> QED  BY <1>7, <1>8

\* Where a search lands: at a frame that goes out next.
LEMMA FrameHeld ==
  ASSUME NEW r, r.datas \in Chunks, NEW v \in Videos(Content[r.datas]), r.next = v - 1,
         r.position = Time(r.datas, v)
  PROVE  ~Over(r) /\ Held(r) /\ r.next + 1 = v
<1>1. v \in 1..Len(Content[r.datas]) /\ Len(Content[r.datas]) \in Nat  BY ContentType
<1>2. r.next + 1 = v /\ r.next # Len(Content[r.datas])  BY <1>1
<1> QED  BY <1>2 DEF Over, Held

\* Backwards: at the last frame of what was seen up to the time.
LEMMA BackLands ==
  ASSUME OrderOf(files), NEW n \in Nat, NEW r, ReaderOK(r, n), NEW f \in 1..Len(files), f = r.file,
         NEW x, x = files[f], Snapshot(x, r),
         NEW t \in Nat, NEW s, SeenIn(files, s), BackLoad(files, r, t, s), NEW q, FindsBack(r, t, q)
  PROVE  Clear(s, t, q.position) /\ Held(q) /\ (~IsInGOP(q, t) => NoneAt(s, t))
<1>1. PICK i \in 1..Len(r.headers), v \in Nat :
        /\ r.headers[i].own /\ q = Placed(r, i - 1, r.headers[i].chunk, v - 1, Time(r.headers[i].chunk, v))
        /\ v \in Videos(Content[r.headers[i].chunk]) /\ Time(r.headers[i].chunk, v) <= t
        /\ \A w \in Videos(Content[r.headers[i].chunk]) : Time(r.headers[i].chunk, w) <= t => w <= v
        /\ \A j, e : Fresh(r, j, e) /\ Begin(e) <= t => j <= i
  BY DEF FindsBack
<1>2. PICK c : c = r.headers[i].chunk  OBVIOUS
<1>3. c \in Chunks /\ c \in Nat /\ i \in Nat  BY <1>1, <1>2, EntryIs, Apart
<1>4. q.datas = c /\ q.next = v - 1 /\ q.position = Time(c, v)
  BY <1>1, <1>2 DEF Placed, ReaderOK, ReaderType
<1>5. /\ v \in Videos(Content[c]) /\ Time(c, v) <= t /\ Time(c, v) \in Nat
      /\ Begin(c) <= Time(c, v) /\ Time(c, v) <= End(c) /\ Begin(c) \in Nat /\ End(c) \in Nat
  BY <1>1, <1>2, <1>3, Spans
<1>6. x \in FileType /\ InOrder(x) /\ FirstOf(x) \in Nat /\ f \in Nat  BY FilesAre, FileHas
<1>7. c = FirstOf(x) + i - 1 /\ Holds(x, c)  BY <1>1, <1>2, <1>6, SnapshotIs
\* What was seen is of c, or all before it, or all behind the time.
<1>8. ASSUME NEW e \in s PROVE e = c \/ End(e) < Begin(c) \/ t < Begin(e)
  <2>1. e \in Chunks /\ e \in Nat /\ Begin(e) \in Nat /\ (e < c => End(e) < Begin(c))
    BY <1>3, Apart, Spans DEF SeenIn
  <2>2. ASSUME Begin(e) <= t PROVE e <= c
    <3>1. PICK h \in 1..Len(files) : /\ InFile(files, h, e) /\ h <= r.file
                                     /\ h = r.file => FreshIn(files[h], r, e)
      BY <2>2 DEF BackLoad
    <3>2. CASE h = f
      <4>1. PICK j : j = e - FirstOf(x) + 1  OBVIOUS
      <4>2. Fresh(r, j, e)  BY <3>1, <3>2, <4>1 DEF FreshIn
      <4>3. j <= i  BY <1>1, <2>2, <4>2
      <4> QED  BY <1>3, <1>6, <1>7, <2>1, <4>1, <4>3
    <3>3. CASE h # f
      <4>1. h < f /\ h \in Nat  BY <1>6, <3>1, <3>3
      <4>2. e < FirstOf(x)  BY <2>1, <3>1, <4>1, FilesApart DEF InFile
      <4>3. FirstOf(x) <= c  BY <1>7 DEF Holds
      <4> QED  BY <1>3, <1>6, <2>1, <4>2, <4>3
    <3> QED  BY <3>2, <3>3
  <2> QED  BY <1>3, <2>1, <2>2
<1>9. Clear(s, t, q.position)
  <2>1. ASSUME NEW e \in s, NEW y \in Videos(Content[e])
        PROVE  /\ ~(Time(c, v) < Time(e, y) /\ Time(e, y) <= t)
               /\ ~(t <= Time(e, y) /\ Time(e, y) < Time(c, v))
    <3>1. e \in Chunks  BY DEF SeenIn
    <3>2. /\ Time(e, y) \in Nat /\ Begin(e) <= Time(e, y) /\ Time(e, y) <= End(e)
          /\ Begin(e) \in Nat /\ End(e) \in Nat
      BY <3>1, <2>1, Spans
    <3>3. CASE e = c
      <4>1. ASSUME Time(c, y) <= t PROVE ~(Time(c, v) < Time(c, y))
        <5>1. y <= v  BY <1>1, <1>2, <2>1, <3>3, <4>1
        <5>2. y \in 1..Len(Content[c]) /\ v \in 1..Len(Content[c])
          BY <1>3, <1>5, <2>1, <3>3, ContentType
        <5>3. Time(c, y) <= Time(c, v)  BY <1>3, <5>1, <5>2, NotBefore
        <5> QED  BY <1>5, <3>2, <3>3, <5>3
      <4> QED  BY <1>5, <3>2, <3>3, <4>1
    <3>4. CASE e # c
      <4>1. CASE End(e) < Begin(c)
        <5>1. Time(e, y) < Time(c, v)  BY ONLY <1>5, <3>2, <4>1
        <5> QED  BY ONLY <1>5, <3>2, <5>1
      <4>2. CASE t < Begin(e)
        <5>1. t < Time(e, y)  BY ONLY t \in Nat, <3>2, <4>2
        <5> QED  BY ONLY t \in Nat, <1>5, <3>2, <5>1
      <4> QED  BY <1>8, <3>4, <4>1, <4>2
    <3> QED  BY <3>3, <3>4
  <2> QED  BY <1>4, <2>1 DEF Clear
<1>10. Held(q)  BY <1>3, <1>4, <1>5, FrameHeld
<1>11. ASSUME ~IsInGOP(q, t) PROVE NoneAt(s, t)
  <2>1. Items(c) # <<>> /\ Items(c)[1].time = Begin(c)  BY <1>3, ChunkType, ItemsType
  <2>2. ~(t >= Begin(c) - Duration /\ t <= End(c) + Duration)
    BY <1>4, <1>11, <2>1 DEF IsInGOP
  <2>3. End(c) < t  BY <1>5, <2>2, ConstantTypes
  <2>4. ASSUME NEW e \in s PROVE ~(Begin(e) <= t /\ t <= End(e))
    <3>1. Begin(e) \in Nat /\ End(e) \in Nat  BY Spans DEF SeenIn
    <3> QED  BY <1>5, <1>8, <2>3, <3>1
  <2> QED  BY <2>4 DEF NoneAt
<1> QED  BY <1>9, <1>10, <1>11

\* Forwards: at the first frame of what was seen from the time on.
LEMMA ForeLands ==
  ASSUME OrderOf(files), NEW n \in Nat, NEW r, ReaderOK(r, n), NEW f \in 1..Len(files), f = r.file,
         NEW x, x = files[f], NEW t \in Nat, NEW s, SeenIn(files, s), ForeLoad(files, r, t, s),
         NEW q, Finds(x, r, t, q)
  PROVE  Clear(s, t, q.position)
<1>1. PICK i \in 1..Len(r.headers), v \in Nat :
        /\ r.headers[i].own /\ q = Placed(r, i - 1, r.headers[i].chunk, v - 1, Time(r.headers[i].chunk, v))
        /\ v \in Videos(Content[r.headers[i].chunk]) /\ t <= Time(r.headers[i].chunk, v)
        /\ \A w \in Videos(Content[r.headers[i].chunk]) : t <= Time(r.headers[i].chunk, w) => v <= w
        /\ \A e \in Chunks : x.stamp <= Begin(e) /\ e < r.headers[i].chunk => End(e) < t
  BY DEF Finds
<1>2. PICK c : c = r.headers[i].chunk  OBVIOUS
<1>3. c \in Chunks /\ c \in Nat  BY <1>1, <1>2, EntryIs, Apart
<1>4. q.position = Time(c, v)  BY <1>1, <1>2 DEF Placed, ReaderOK, ReaderType
<1>5. /\ v \in Videos(Content[c]) /\ t <= Time(c, v) /\ Time(c, v) \in Nat /\ Time(c, v) <= End(c)
      /\ End(c) \in Nat
  BY <1>1, <1>2, <1>3, Spans
<1>6. ASSUME NEW e \in s, NEW y \in Videos(Content[e])
      PROVE  ~(t <= Time(e, y) /\ Time(e, y) < Time(c, v))
  <2>1. e \in Chunks /\ e \in Nat  BY Apart DEF SeenIn
  <2>2. /\ Time(e, y) \in Nat /\ Begin(e) <= Time(e, y) /\ Time(e, y) <= End(e)
        /\ Begin(e) \in Nat /\ End(e) \in Nat
    BY <2>1, <1>6, Spans
  <2>3. CASE e = c
    <3>1. ASSUME t <= Time(c, y) PROVE Time(c, v) <= Time(c, y)
      <4>1. v <= y  BY <1>1, <1>2, <1>6, <2>3, <3>1
      <4>2. y \in 1..Len(Content[c]) /\ v \in 1..Len(Content[c])
        BY <1>3, <1>5, <1>6, <2>3, ContentType
      <4> QED  BY <1>3, <4>1, <4>2, NotBefore
    <3> QED  BY <1>5, <2>2, <2>3, <3>1
  <2>4. CASE c < e
    <3>1. End(c) < Begin(e)  BY <1>3, <2>1, <2>4, Apart
    <3> QED  BY <1>5, <2>2, <3>1
  <2>5. CASE e < c
    <3>1. SUFFICES ASSUME t <= End(e) PROVE FALSE  BY <2>2
    <3>2. PICK h \in 1..Len(files) : InFile(files, h, e) /\ f <= h  BY <2>2, <3>1 DEF ForeLoad
    <3>3. x.stamp <= files[h].stamp
      <4>1. f \in Nat /\ h \in Nat /\ x.stamp \in Nat  BY FileHas
      <4>2. CASE f = h  BY <4>1, <4>2
      <4>3. CASE f # h
        <5>1. f < h  BY <3>2, <4>1, <4>3
        <5>2. Before(x, files[h])  BY <5>1 DEF OrderOf
        <5>3. /\ FirstOf(x) \in Chunks /\ x.stamp = Begin(FirstOf(x)) /\ FirstOf(x) \in Nat
              /\ UntilOf(x) = FirstOf(x) + Len(x.own) /\ Len(x.own) \in Nat
              /\ FirstOf(files[h]) \in Chunks /\ files[h].stamp = Begin(FirstOf(files[h]))
              /\ FirstOf(files[h]) \in Nat
          BY FileHas
        <5>4. FirstOf(x) <= FirstOf(files[h])  BY <5>2, <5>3 DEF Before
        <5> QED  BY <5>3, <5>4, Apart
      <4> QED  BY <4>2, <4>3
    <3>4. files[h].stamp <= Begin(e)  BY <2>1, <3>2, PlaceOf DEF InFile
    <3>5. x.stamp \in Nat /\ files[h].stamp \in Nat  BY FileHas
    <3>6. x.stamp <= Begin(e)  BY <2>2, <3>3, <3>4, <3>5
    <3>7. End(e) < t  BY <1>1, <1>2, <2>1, <2>5, <3>6
    <3> QED  BY <2>2, <3>1, <3>7
  <2> QED  BY <1>3, <2>1, <2>3, <2>4, <2>5
<1>7. ASSUME NEW e \in s, NEW y \in Videos(Content[e])
      PROVE  ~(Time(c, v) < Time(e, y) /\ Time(e, y) <= t)
  <2>1. Time(e, y) \in Nat
    <3>1. e \in Chunks  BY DEF SeenIn
    <3> QED  BY <1>7, <3>1, Spans
  <2> QED  BY <1>5, <2>1
<1> QED  BY <1>4, <1>6, <1>7 DEF Clear

LEMMA SeekLoadLands ==
  ASSUME Inv, PlayInv, StraightInv, LandInv, SeekLoad
  PROVE  LandInv' /\ LandsNow
<1>1. pc = "load" /\ UNCHANGED <<writerVars, passed>>  BY DEF SeekLoad
<1>2. call.op = "seek" /\ pc # "idle"  BY <1>1, InSeek DEF Seeks
<1>3. /\ call.time \in Nat /\ call.dir \in {"Next", "Prev"} /\ Ordered /\ OrderOf(files)
      /\ Contents /\ Last \in Nat /\ Last = Len(files) /\ files \in Seq(FileType)
      /\ ReaderOK(reader, Last) /\ SeenIn(files, seen)
      /\ LandingAt(files, pc, reader, call, passed, seen)
  BY <1>1, <1>2, InLand
<1>4. PICK r, t, dir, L, f : /\ r = reader /\ t = call.time /\ dir = call.dir /\ f = r.file
                             /\ L = LoadDataByIndex(r, t, dir)
  OBVIOUS
<1>5. /\ t \in Nat /\ t \in Int /\ dir \in {"Next", "Prev"} /\ ReaderOK(r, Last)
      /\ L = LoadDataByIndex(r, t, dir)
  BY <1>3, <1>4
<1>6. f # 0 /\ f \in 1..Last /\ f \in 1..Len(files) /\ f \in Int
  <2>1. f # 0  BY <1>1, <1>4 DEF Inv, ReaderInv
  <2> QED  BY <1>3, <1>4, <2>1 DEF ReaderOK, ReaderType
<1>7. PICK x : x = files[f]  OBVIOUS
<1>8. Snapshot(x, r)  BY <1>4, <1>6, <1>7 DEF StraightInv, Parsing
<1>9. /\ IF dir = "Prev" THEN BackLoad(files, r, t, seen) ELSE ForeLoad(files, r, t, seen)
      /\ OldBehind(x, r)
  BY <1>1, <1>3, <1>4, <1>7 DEF LandingAt
<1>10. /\ L.ok \in BOOLEAN /\ ReaderOK(L.r, Last) /\ L.r.file = f
       /\ L.r.headers = r.headers /\ L.r.file_list = r.file_list
  BY <1>3, <1>4, <1>5, <1>6, LoadedOK
<1>11. OldBehind(files[L.r.file], L.r)  BY <1>7, <1>9, <1>10 DEF OldBehind
<1>12. x.stamp \in Nat  BY <1>3, <1>6, <1>7, FileHas
<1>13. CASE L.ok
  <2>1. PICK found : found = TRUE  OBVIOUS
  <2>2. found \in BOOLEAN /\ found /\ SeekReturns(found, L.r)  BY <1>4, <1>13, <2>1 DEF SeekLoad
  <2>3. ASSUME dir = "Prev"
        PROVE  Clear(seen, t, L.r.position) /\ Held(L.r) /\ (~IsInGOP(L.r, t) => NoneAt(seen, t))
    <3>1. FindsBack(r, t, L.r)
      BY <1>3, <1>4, <1>5, <1>6, <1>7, <1>8, <1>13, <2>3, LoadBackward
    <3> QED  BY <1>3, <1>4, <1>5, <1>6, <1>7, <1>8, <1>9, <2>3, <3>1, BackLands
  <2>4. ASSUME dir = "Next" PROVE Clear(seen, t, L.r.position)
    <3>1. Finds(x, r, t, L.r)
      BY <1>3, <1>4, <1>5, <1>6, <1>7, <1>8, <1>13, <2>4, LoadFrom
    <3> QED  BY <1>3, <1>4, <1>5, <1>6, <1>7, <1>9, <2>4, <3>1, ForeLands
  <2>5. /\ Clear(seen, call.time, L.r.position)
        /\ call.dir = "Prev" => Held(L.r) /\ OldBehind(files[L.r.file], L.r)
        /\ call.dir = "Prev" /\ ~(found /\ IsInGOP(L.r, call.time)) => NoneAt(seen, call.time)
    BY <1>4, <1>5, <1>11, <2>2, <2>3, <2>4
  <2> QED  BY <1>1, <1>10, <2>2, <2>5, SeekReturnsLands
<1>14. CASE ~L.ok
  <2>1. reader' = L.r /\ Goes("open")  BY <1>4, <1>14 DEF SeekLoad
  <2>2. \A e \in seen : e \in Chunks /\ Begin(e) \in Nat /\ End(e) \in Nat
    BY <1>3, Spans DEF SeenIn
  <2>3. ASSUME dir = "Prev" PROVE BackOpen(files, L.r, t, seen)
    <3>1. \A j, e : Fresh(r, j, e) => t < Begin(e)
      BY <1>3, <1>4, <1>5, <1>6, <1>7, <1>8, <1>14, <2>3, LoadBackward
    <3>2. /\ ListTo(r, f) /\ x.stamp <= t
          /\ \A e \in seen : Begin(e) <= t =>
               \E h \in 1..Len(files) : /\ InFile(files, h, e) /\ h <= f
                                        /\ h = f => FreshIn(files[h], r, e)
      BY <1>4, <1>7, <1>9, <2>3 DEF BackLoad
    <3>3. ListTo(L.r, f)  BY <1>10, <3>2 DEF ListTo
    <3>4. L.r.file_list # <<>> => f - 1 \in 1..Len(files) /\ files[f - 1].stamp <= t
      <4>1. L.r.file_list # <<>> => f - 1 \in 1..Last /\ files[f - 1].stamp <= x.stamp
        BY <1>3, <1>6, <1>7, <1>10, <3>3, ListBefore
      <4>2. L.r.file_list # <<>> => files[f - 1].stamp \in Nat  BY <1>3, <4>1, FileHas
      <4> QED  BY <1>3, <1>5, <1>12, <3>2, <4>1, <4>2
    <3>5. ASSUME NEW e \in seen, Begin(e) <= t
          PROVE  \E h \in 1..Len(files) : InFile(files, h, e) /\ h < f /\ ~(End(e) >= t)
      <4>1. PICK h \in 1..Len(files) : /\ InFile(files, h, e) /\ h <= f
                                       /\ h = f => FreshIn(files[h], r, e)
        BY <3>2, <3>5
      <4>2. h # f
        <5>1. SUFFICES ASSUME h = f PROVE FALSE  OBVIOUS
        <5>2. t < Begin(e)  BY <3>1, <4>1, <5>1 DEF FreshIn
        <5> QED  BY <1>5, <2>2, <3>5, <5>2
      <4>3. h < f  BY <1>3, <1>6, <4>1, <4>2
      <4>4. End(e) < x.stamp  BY <1>3, <1>6, <1>7, <2>2, <4>1, <4>3, FilesApart DEF InFile
      <4> QED  BY <1>5, <1>12, <2>2, <3>2, <4>1, <4>3, <4>4
    <3> QED  BY <1>6, <3>3, <3>4, <3>5 DEF BackOpen
  <2>4. ASSUME dir = "Next" PROVE ForeOpen(files, L.r, t, seen)
    <3>1. \A j, e : Fresh(r, j, e) => End(e) < t
      BY <1>3, <1>4, <1>5, <1>6, <1>7, <1>8, <1>14, <2>4, LoadFrom
    <3>2. /\ ListFrom(r, f)
          /\ \A e \in seen : End(e) >= t =>
               \E h \in 1..Len(files) : /\ InFile(files, h, e) /\ f <= h
                                        /\ h = f => FreshIn(files[h], r, e)
      BY <1>4, <1>9, <2>4 DEF ForeLoad
    <3>3. ListFrom(L.r, f)  BY <1>10, <3>2 DEF ListFrom
    <3>4. ASSUME NEW e \in seen, End(e) >= t
          PROVE  \E h \in 1..Len(files) : InFile(files, h, e) /\ f < h
      <4>1. PICK h \in 1..Len(files) : /\ InFile(files, h, e) /\ f <= h
                                       /\ h = f => FreshIn(files[h], r, e)
        BY <3>2, <3>4
      <4>2. h # f
        <5>1. SUFFICES ASSUME h = f PROVE FALSE  OBVIOUS
        <5>2. End(e) < t  BY <3>1, <4>1, <5>1 DEF FreshIn
        <5> QED  BY <1>5, <2>2, <3>4, <5>2
      <4> QED  BY <1>3, <1>6, <4>1, <4>2
    <3> QED  BY <1>6, <3>3, <3>4 DEF ForeOpen
  <2>5. IF call.dir = "Prev" THEN BackOpen(files, reader', call.time, seen)
                             ELSE ForeOpen(files, reader', call.time, seen)
    BY <1>4, <1>5, <2>1, <2>3, <2>4
  <2> QED  BY <1>1, <2>1, <2>5, SeekGoesLands
<1> QED  BY <1>10, <1>13, <1>14

LEMMA SeekSkipLands ==
  ASSUME Inv, PlayInv, StraightInv, LandInv, SeekSkip
  PROVE  LandInv' /\ LandsNow
<1>1. pc = "skip" /\ UNCHANGED writerVars /\ reader' = reader /\ passed' = passed
  BY DEF SeekSkip
<1>2. call.op = "seek" /\ pc # "idle"  BY <1>1, InSeek DEF Seeks
<1>3. /\ call.time \in Nat /\ ReaderOK(reader, Last)
      /\ LandingAt(files, pc, reader, call, passed, seen)
  BY <1>1, <1>2, InLand
<1>4. call.found => Dropping(files, "skip", reader, call, passed, seen)  BY <1>1, <1>3 DEF LandingAt
<1>5. CASE GetChunkEndTime(reader) < call.time
  <2>1. pc' = "next" /\ call' = call /\ seen' = seen  BY <1>5 DEF SeekSkip, Goes, historyVars
  <2>2. reader.position < call.time
    <3>1. reader.position \in Nat  BY <1>3 DEF ReaderOK, ReaderType
    <3> QED  BY <1>3, <1>5, <3>1, ConstantTypes DEF GetChunkEndTime
  <2>3. call.found => Dropping(files, "next", reader, call, passed, seen)
    BY <1>4, <2>2 DEF Dropping, Nexts
  <2>4. LandingAt(files, "next", reader, call, passed, seen)  BY <2>3 DEF LandingAt
  <2>5. LandInv'  BY <1>1, <1>2, <2>1, <2>4, LandsOn
  <2> QED  BY <2>1, <2>5 DEF LandsNow
<1>6. CASE ~(GetChunkEndTime(reader) < call.time)
  <2>1. pc' = "idle" /\ call' = NoCall /\ astray' = ~call.found  BY <1>6 DEF SeekSkip
  <2>2. LandInv'  BY <1>1, <2>1, NotLanding DEF NoCall
  <2>3. call.found => Clear(seen, call.time, reader.position)  BY <1>4 DEF Dropping
  <2>4. call \in CallType  BY <1>2, <1>1, InLand
  <2> QED  BY <1>1, <2>1, <2>2, <2>3 DEF LandsNow
<1> QED  BY <1>5, <1>6

-----------------------------------------------------------------------------
(***************************************************************************)
(* Frames are dropped until the time is reached.                           *)
(***************************************************************************)
LEMMA DropsOn ==
  ASSUME LandInv, UNCHANGED writerVars, NEW at \in Nexts \cup {"skip"}, Onto(at),
         call.op = "seek" /\ call.found => Dropping(files, at, reader', call', passed', seen)
  PROVE  LandInv' /\ LandsNow
<1>1. pc' = at /\ call'.op = call.op /\ call'.found = call.found /\ seen' = seen
  BY DEF Onto, historyVars
<1>2. at \notin {"list", "open", "load", "idle"}  BY DEF Nexts
<1>3. CASE call.op # "seek"  BY <1>1, <1>3, NotLanding DEF LandsNow
<1>4. CASE call.op = "seek"
  <2>1. call'.found => Dropping(files, at, reader', call', passed', seen)  BY <1>1, <1>4
  <2>2. LandingAt(files, at, reader', call', passed', seen)  BY <1>2, <2>1 DEF LandingAt
  <2> QED  BY <1>1, <1>2, <1>4, <2>2, LandsOn DEF LandsNow
<1> QED  BY <1>3, <1>4

\* GetNextData has nothing: Seek fails.
LEMMA DropEnds ==
  ASSUME PlayInv, LandInv, pc \in Nexts, NEW by, NextReturns(by, <<>>), UNCHANGED writerVars
  PROVE  LandInv' /\ LandsNow
<1>1. call' = NoCall /\ status' = status  BY DEF NextReturns, Returns
<1>2. LandInv'  BY <1>1, NotLanding DEF NoCall
<1>3. call.op # "next" => status = "none"  BY DEF PlayInv, Calling
<1>4. LandsNow  BY <1>1, <1>3 DEF LandsNow
<1> QED  BY <1>2, <1>4

\* It has something, which Seek drops.
LEMMA DropGives ==
  ASSUME LandInv, NEW by, NEW items, items # <<>>, NextReturns(by, items), UNCHANGED writerVars,
         call.op = "seek" /\ call.found => Dropping(files, "skip", reader', call, passed', seen)
  PROVE  LandInv' /\ LandsNow
<1>1. CASE call.op = "next"
  <2>1. call' = NoCall  BY <1>1 DEF NextReturns, Returns
  <2>2. LandInv'  BY <2>1, NotLanding DEF NoCall
  <2> QED  BY <1>1, <2>2 DEF LandsNow
<1>2. CASE call.op # "next"
  <2>1. Goes("skip") /\ call' = call  BY <1>2 DEF NextReturns, Goes
  <2>2. Onto("skip")  BY <2>1, GoesOnto
  <2> QED  BY <2>1, <2>2, DropsOn
<1> QED  BY <1>1, <1>2

\* What holds meanwhile.
LEMMA InDrop ==
  ASSUME Inv, PlayInv, StraightInv, LandInv, UNCHANGED writerVars, pc \in Nexts,
         call.op = "seek", call.found
  PROVE  /\ call.time \in Nat /\ SeenIn(files, seen) /\ seen \subseteq Chunks
         /\ Dropping(files, pc, reader, call, passed, seen)
         /\ SteadyAt(files, pc, reader, call, passed, Playing, Heard) /\ Straight
<1>1. pc # "idle"  BY DEF Nexts
<1>2. /\ call.time \in Nat /\ SeenIn(files, seen)
      /\ LandingAt(files, pc, reader, call, passed, seen)
  BY <1>1, InLand
<1>3. Dropping(files, pc, reader, call, passed, seen)  BY <1>2 DEF LandingAt
<1>4. Straight  BY DEF Straight
<1> QED  BY <1>2, <1>3, <1>4 DEF SeenIn, StraightInv, Steady

\* A frame goes out: the one at the position, or the one that follows it.
LEMMA FrameDropped ==
  ASSUME NEW n \in Nat, NEW r, ReaderOK(r, n), Shown(r), NEW s, s \subseteq Chunks, NEW t \in Nat,
         Clear(s, t, r.position), Held(r), r.position < t,
         NEW p, \A e \in p \cap s : End(e) < t, NEW G, G = GetNextData(r),
         NEW u \in Nat, Plays(G.r, G.got, u), \A l : Gone(r, l) => l < u /\ Unheard(p, l, u)
  PROVE  Clear(s, t, G.r.position) /\ Held(G.r)
<1>1. G.r.position = u /\ Held(G.r)  BY DEF Plays, Held
<1>2. r.datas \in Chunks /\ r.position \in Nat  BY DEF Shown, ReaderOK, ReaderType
<1>3. CASE ~Over(r) /\ r.position = Time(r.datas, r.next + 1)
  <2>1. Plays(G.r, G.got, r.position)  BY <1>3, AtHand
  <2>2. G.r.position = r.position  BY <2>1 DEF Plays
  <2> QED  BY <1>1, <2>2
<1>4. CASE Gone(r, r.position)
  <2>1. r.position < u /\ Unheard(p, r.position, u)  BY <1>4
  <2>2. ASSUME NEW e \in s, NEW y \in Videos(Content[e])
        PROVE  ~(u < Time(e, y) /\ Time(e, y) <= t) /\ ~(t <= Time(e, y) /\ Time(e, y) < u)
    <3>1. e \in Chunks /\ Time(e, y) \in Nat /\ Time(e, y) <= End(e) /\ End(e) \in Nat
      BY <2>2, Spans
    <3>2. ~(r.position < Time(e, y) /\ Time(e, y) <= t)  BY <2>2 DEF Clear
    <3>3. ASSUME t <= Time(e, y), Time(e, y) < u PROVE FALSE
      <4>1. r.position < Time(e, y)  BY <1>2, <3>1, <3>3
      <4>2. e \in p  BY <2>1, <2>2, <3>1, <3>3, <4>1 DEF Unheard
      <4>3. End(e) < t  BY <2>2, <4>2
      <4> QED  BY <3>1, <3>3, <4>3
    <3> QED  BY <1>2, <2>1, <3>1, <3>2, <3>3
  <2> QED  BY <1>1, <2>2 DEF Clear
<1> QED  BY <1>3, <1>4 DEF Held

\* What was passed of what was seen is from before the time.
Bygone(p, s, t) == \A e \in p \cap s : End(e) < t

\* An entry that cannot be read is of a chunk that was not seen, or ends before the time.
LEMMA PassedUnseen ==
  ASSUME OrderOf(files), NEW n \in Nat, NEW r, ReaderOK(r, n), NEW f \in 1..Len(files), f = r.file,
         NEW x, x = files[f], Snapshot(x, r), OldBehind(x, r), NEW p, Ready(x, r, p),
         NEW s, SeenIn(files, s), NEW t \in Nat, r.position < t, Bygone(p, s, t),
         NEW G, G = GetNextData(r), G.got = <<>>, G.r.data_index # r.data_index,
         NEW d \in s, d = r.headers[G.r.data_index + 1].chunk
  PROVE  End(d) < t
<1>1. /\ r.datas \in Chunks /\ Items(r.datas) = Content[r.datas] /\ r.position \in Nat
  BY ChunkType DEF Ready, Shown, ReaderOK, ReaderType
<1>2. Over(r) /\ MovesOn(r, G)
  <2>1. PICK items : items = Items(r.datas)  OBVIOUS
  <2>2. r.next = Len(items)
    <3>1. SUFFICES ASSUME r.next # Len(items) PROVE FALSE  OBVIOUS
    <3>2. G = GetForwardData(r)  BY <2>1, <3>1, NextDataIs
    <3>3. HandsOn(r, items, G)  BY <2>1, <3>1, <3>2, ForwardIs
    <3> QED  BY <3>3 DEF HandsOn
  <2>3. r.data_index + 2 <= Len(r.headers)
    <3>1. SUFFICES ASSUME ~(r.data_index + 2 <= Len(r.headers)) PROVE FALSE  OBVIOUS
    <3>2. r.data_index \in Int /\ Len(r.headers) \in Nat  BY DEF ReaderOK, ReaderType
    <3>3. Len(r.headers) < r.data_index + 2  BY <3>1, <3>2
    <3>4. G.r = r  BY <2>1, <2>2, <3>3, NextDataIs
    <3> QED  BY <3>4
  <2>4. MovesOn(r, G)  BY <2>1, <2>2, <2>3, NextDataIs
  <2> QED  BY <1>1, <2>1, <2>2, <2>4 DEF Over
<1>3. PICK i : i = r.data_index + 2  OBVIOUS
<1>4. /\ i \in 1..Len(r.headers) /\ r.headers[i] \in EntryType /\ r.headers[i].chunk \in Chunks
      /\ Readable(r.file, i, r.headers[i]) =>
           G = GetForwardData(Placed(r, i - 1, r.headers[i].chunk, 0, r.position))
  BY <1>2, <1>3 DEF MovesOn
<1>5. i \in Nat /\ G.r.data_index + 1 = i
  <2>1. G.r.data_index = r.data_index + 1  BY NextDataOK
  <2>2. r.data_index \in Int  BY DEF ReaderOK, ReaderType
  <2> QED  BY <1>3, <1>4, <2>1, <2>2
<1>6. d = r.headers[i].chunk /\ d \in Chunks /\ d \in Nat  BY <1>4, <1>5, Apart
<1>7. ~Readable(r.file, i, r.headers[i])
  <2>1. SUFFICES ASSUME Readable(r.file, i, r.headers[i]) PROVE FALSE  OBVIOUS
  <2>2. PICK q, items : q = Placed(r, i - 1, d, 0, r.position) /\ items = Items(d)  OBVIOUS
  <2>3. G = GetForwardData(q)  BY <1>4, <1>6, <2>1, <2>2
  <2>4. items # <<>> /\ items \in Seq(Item) /\ Len(items) \in Nat /\ Len(items) # 0
    <3>1. d # 0  BY <1>6, ChunkType
    <3>2. items # <<>> /\ items \in Seq(Item)  BY <1>6, <2>2, <3>1, ItemsType
    <3> QED  BY <3>2
  <2>5. ReaderOK(q, n) /\ q.datas = d /\ q.next = 0
    <3>1. PICK k, z : k = i - 1 /\ z = 0  OBVIOUS
    <3>2. k \in -1..(Len(r.headers) - 1)  BY <1>4, <1>5, <3>1
    <3>3. z <= Len(Items(d)) /\ z \in Nat /\ d \in Chunks \cup {0} /\ r.file # 0
      BY <1>2, <1>6, <2>2, <2>4, <3>1 DEF MovesOn
    <3>4. q = Placed(r, k, d, z, r.position)  BY <2>2, <3>1
    <3> QED  BY <1>1, <3>1, <3>2, <3>3, <3>4, PlacedOK
  <2>6. HandsOn(q, items, G)  BY <2>2, <2>3, <2>4, <2>5, ForwardIs
  <2> QED  BY <2>6 DEF HandsOn
<1>8. x \in FileType /\ InOrder(x) /\ FirstOf(x) \in Nat /\ FirstOf(x) \in Chunks
      /\ x.stamp = Begin(FirstOf(x))
  BY FilesAre, FileHas
<1>9. CASE r.headers[i].own
  <2>1. d = FirstOf(x) + i - 1 /\ Holds(x, d)  BY <1>4, <1>6, <1>8, <1>9, SnapshotIs
  <2>2. PICK h \in 1..Len(files) : InFile(files, h, d)  BY DEF SeenIn
  <2>3. h = f  BY <1>6, <2>1, <2>2, OneHolder DEF InFile
  <2>4. 2 * (d - FirstOf(x) + 1) < x.cells  BY <2>2, <2>3 DEF InFile
  <2>5. d - FirstOf(x) + 1 = i  BY <1>5, <1>8, <2>1
  <2> QED  BY <1>7, <1>9, <2>4, <2>5 DEF Readable
<1>10. CASE ~r.headers[i].own
  <2>1. d < FirstOf(x)  BY <1>4, <1>6, <1>10 DEF OldBehind
  <2>2. Begin(d) < x.stamp /\ Begin(d) \in Nat /\ End(d) \in Nat  BY <1>6, <1>8, <2>1, Apart, Spans
  <2>3. CASE d > r.datas
    <3>1. ~(x.stamp <= Begin(d))  BY <1>8, <2>2, Spans
    <3>2. d \notin Later(r, p)  BY <3>1 DEF Ready, Coming, Beyond
    <3>3. d \in p  BY <1>6, <2>3, <3>2 DEF Later
    <3> QED  BY <3>3 DEF Bygone
  <2>4. CASE ~(d > r.datas)
    <3>1. r.datas \in Nat /\ (d < r.datas => End(d) < End(r.datas)) /\ End(r.datas) \in Nat
      BY <1>1, <1>6, Apart, Spans
    <3>2. End(d) <= End(r.datas)  BY <1>6, <2>2, <2>4, <3>1
    <3>3. r.position = End(r.datas)  BY <1>2 DEF Ready, Shown
    <3> QED  BY <2>2, <3>1, <3>2, <3>3
  <2> QED  BY <2>3, <2>4
<1> QED  BY <1>9, <1>10

LEMMA NextInFileLands ==
  ASSUME Inv, PlayInv, StraightInv, LandInv, NextInFile
  PROVE  LandInv' /\ LandsNow
<1>1. PICK G : G = GetNextData(reader)  OBVIOUS
<1>2. /\ pc = "next" /\ reader' = G.r /\ UNCHANGED writerVars
      /\ IF G.got # <<>> THEN NextReturns("next", G.got) ELSE Goes("grown")
      /\ passed' = IF G.got = <<>> /\ G.r.data_index # reader.data_index
                     THEN passed \cup {reader.headers[G.r.data_index + 1].chunk} ELSE passed
  BY <1>1 DEF NextInFile
<1>3. pc \in Nexts  BY <1>2 DEF Nexts
<1>4. PICK x : x = files[reader.file]  OBVIOUS
<1>5. /\ Last \in Nat /\ Last = Len(files) /\ OrderOf(files) /\ ReaderOK(reader, Last)
      /\ x \in FileType /\ InOrder(x) /\ reader.file \in 1..Last /\ Snapshot(x, reader)
  BY <1>2, <1>3, <1>4, InNext
<1>6. G.r.file = reader.file /\ G.r.headers = reader.headers  BY <1>1, <1>5, NextDataOK
<1>7. ASSUME call.op = "seek", call.found
      PROVE  IF G.got # <<>> THEN Dropping(files, "skip", G.r, call, passed', seen)
                             ELSE Dropping(files, "grown", G.r, call, passed', seen)
  <2>1. /\ call.time \in Nat /\ SeenIn(files, seen) /\ seen \subseteq Chunks
        /\ Dropping(files, pc, reader, call, passed, seen)
        /\ SteadyAt(files, pc, reader, call, passed, Playing, Heard)
    BY <1>2, <1>3, <1>7, InDrop
  <2>2. Ready(x, reader, passed) /\ Shown(reader)
    BY <1>2, <1>4, <2>1 DEF SteadyAt, Calm, Ready
  <2>3. /\ Clear(seen, call.time, reader.position) /\ OldBehind(x, reader)
        /\ \A e \in passed \cap seen : End(e) < call.time
        /\ Held(reader) /\ reader.position < call.time
    BY <1>2, <1>4, <2>1 DEF Dropping, Nexts
  <2>4. NextGoes(x, reader, passed, G, passed')
    BY <1>1, <1>2, <1>4, <1>5, <2>2, NextReady
  <2>5. OldBehind(files[G.r.file], G.r)  BY <1>4, <1>6, <2>3 DEF OldBehind
  <2>6. CASE G.got # <<>>
    <3>1. PICK u \in Nat : Plays(G.r, G.got, u) /\ \A l : Gone(reader, l) => l < u /\ Unheard(passed, l, u)
      BY <2>4, <2>6 DEF NextGoes
    <3>2. PICK r, s, t, p : r = reader /\ s = seen /\ t = call.time /\ p = passed  OBVIOUS
    <3>3. /\ ReaderOK(r, Last) /\ Shown(r) /\ s \subseteq Chunks /\ t \in Nat
          /\ Clear(s, t, r.position) /\ Held(r) /\ r.position < t
          /\ \A e \in p \cap s : End(e) < t
          /\ G = GetNextData(r) /\ \A l : Gone(r, l) => l < u /\ Unheard(p, l, u)
          /\ Last \in Nat /\ u \in Nat /\ Plays(G.r, G.got, u)
      BY <1>1, <1>5, <2>1, <2>2, <2>3, <3>1, <3>2
    <3>4. Clear(s, t, G.r.position) /\ Held(G.r)
      BY ONLY <3>3, FrameDropped
    <3>5. passed' = passed  BY <1>2, <2>6
    <3> QED  BY <2>3, <2>5, <2>6, <3>2, <3>4, <3>5, <1>5, <3>1 DEF Dropping, Nexts
  <2>7. CASE G.got = <<>>
    <3>1. G.r.position = reader.position  BY <2>4, <2>7 DEF NextGoes, SamePlace
    <3>2. ASSUME NEW e \in passed' \cap seen PROVE End(e) < call.time
      <4>1. CASE e \in passed  BY <2>3, <3>2, <4>1
      <4>2. CASE e \notin passed
        <5>1. G.r.data_index # reader.data_index /\ e = reader.headers[G.r.data_index + 1].chunk
          BY <1>2, <3>2, <4>2
        <5>2. PICK r, f, p, s, t : /\ r = reader /\ f = reader.file /\ p = passed /\ s = seen
                                   /\ t = call.time
          OBVIOUS
        <5>3. /\ ReaderOK(r, Last) /\ f \in 1..Len(files) /\ f = r.file /\ x = files[f]
              /\ Snapshot(x, r) /\ OldBehind(x, r) /\ Ready(x, r, p) /\ SeenIn(files, s)
              /\ t \in Nat /\ r.position < t /\ Bygone(p, s, t)
              /\ G = GetNextData(r) /\ G.got = <<>> /\ G.r.data_index # r.data_index
              /\ e = r.headers[G.r.data_index + 1].chunk /\ e \in s
              /\ OrderOf(files) /\ Last \in Nat
          BY <1>1, <1>4, <1>5, <2>1, <2>2, <2>3, <2>7, <3>2, <5>1, <5>2 DEF Bygone
        <5>4. End(e) < t  BY ONLY <5>3, PassedUnseen
        <5> QED  BY <5>2, <5>4
      <4> QED  BY <4>1, <4>2
    <3> QED  BY <2>3, <2>5, <2>7, <3>1, <3>2 DEF Dropping, Nexts
  <2> QED  BY <2>6, <2>7
<1>8. CASE G.got # <<>>  BY <1>2, <1>7, <1>8, DropGives
<1>9. CASE G.got = <<>>
  <2>1. Goes("grown") /\ call' = call  BY <1>2, <1>9 DEF Goes
  <2>2. Onto("grown")  BY <2>1, GoesOnto
  <2> QED  BY <1>2, <1>7, <1>9, <2>1, <2>2, DropsOn DEF Nexts
<1> QED  BY <1>8, <1>9

LEMMA NextIfGrownLands ==
  ASSUME Inv, PlayInv, StraightInv, LandInv, NextIfGrown
  PROVE  LandInv' /\ LandsNow
<1>1. PICK f, x, q : f = reader.file /\ x = files[f] /\ q = ParseHeader(reader, f)  OBVIOUS
<1>2. pc = "grown" /\ pc \in Nexts /\ UNCHANGED writerVars  BY DEF NextIfGrown, Nexts
<1>3. /\ Ordered /\ OrderOf(files) /\ Last \in Nat /\ files \in Seq(FileType) /\ FilesInv
      /\ ReaderOK(reader, Last) /\ f \in 1..Last /\ CallInv
  BY <1>1, <1>2, InNext
<1>4. ASSUME call.op = "seek", call.found
      PROVE  /\ SeenIn(files, seen) /\ Clear(seen, call.time, reader.position)
             /\ OldBehind(x, reader) /\ reader.position < call.time
             /\ \A e \in passed \cap seen : End(e) < call.time
  BY <1>1, <1>2, <1>4, InDrop DEF Dropping, Nexts
<1>5. CASE FileSize(f) <= reader.size
  <2>1. /\ pc' = "nextfile" /\ call' = [call EXCEPT !.missing = Chunks \ OnDisk]
        /\ UNCHANGED <<reader, status, historyVars, passed>>
    BY <1>1, <1>5 DEF NextIfGrown
  <2>2. /\ call'.op = call.op /\ call'.type = call.type /\ call'.found = call.found
        /\ call'.time = call.time /\ call'.missing = Chunks \ OnDisk
    BY <1>3, <2>1 DEF CallInv, CallType
  <2>3. Onto("nextfile")  BY <2>1, <2>2 DEF Onto
  <2>4. SeenIn(files, seen) => call'.missing \cap seen = {}  BY <1>3, <2>2, OnDiskIs
  <2>5. call.op = "seek" /\ call.found =>
          Dropping(files, "nextfile", reader', call', passed', seen)
    BY <1>1, <1>4, <2>1, <2>2, <2>4 DEF Dropping, Nexts
  <2> QED  BY <1>2, <2>3, <2>5, DropsOn DEF Nexts
<1>6. CASE ~(FileSize(f) <= reader.size)
  <2>1. /\ reader' = q /\ passed' \subseteq passed
        /\ IF Parsed(f) THEN Goes("reload") ELSE NextReturns("again", <<>>)
    BY <1>1, <1>6 DEF NextIfGrown
  <2>2. Opened(q, reader, f)  BY <1>1, <1>3, OpenedOK
  <2>3. q.file = f /\ q.position = reader.position  BY <2>2 DEF Opened
  <2>4. OldBehind(x, q)  BY <1>1, <1>3, <2>2, ParsedFresh DEF LandInv
  <2>5. CASE Parsed(f)
    <3>1. Goes("reload") /\ call' = call  BY <2>1, <2>5 DEF Goes
    <3>2. Onto("reload")  BY <3>1, GoesOnto
    <3>3. call.op = "seek" /\ call.found =>
            Dropping(files, "reload", reader', call', passed', seen)
      BY <1>1, <1>4, <2>1, <2>3, <2>4, <3>1 DEF Dropping, Nexts
    <3> QED  BY <1>2, <3>2, <3>3, DropsOn DEF Nexts
  <2>6. CASE ~Parsed(f)  BY <1>2, <2>1, <2>6, DropEnds
  <2> QED  BY <2>5, <2>6
<1> QED  BY <1>5, <1>6

\* What a search finds, in the file read on in or in the next: between the position and there is
\* nothing that was seen and is behind the time.
LEMMA FoundClear ==
  ASSUME NEW r, Shown(r), Over(r), NEW x, NEW p, Beyond(x, r, p), NEW u \in Nat,
         End(r.datas) <= u, \A e \in Later(r, p) : u <= Begin(e), NEW q, FoundAt(x, p, u, q),
         NEW s, s \subseteq Chunks, NEW t \in Nat, Clear(s, t, r.position), r.position < t,
         Bygone(p, s, t)
  PROVE  Clear(s, t, q.position)
<1>1. PICK d, c : d = r.datas /\ c = q.datas  OBVIOUS
<1>2. d \in Chunks /\ c \in Chunks /\ r.position = End(d)
  BY <1>1 DEF Shown, FoundAt
<1>3. d \in Nat /\ c \in Nat /\ End(d) \in Nat /\ End(c) \in Nat  BY <1>2, Apart, Spans
<1>4. /\ q.position \in Nat /\ u <= q.position /\ q.position <= End(c)
      /\ \A w \in Videos(Content[c]) : u <= Time(c, w) => q.position <= Time(c, w)
      /\ \A e \in Chunks : x.stamp <= Begin(e) /\ e < c => End(e) < u
  <2>1. q.next + 1 \in Videos(Content[c]) /\ q.position = Time(c, q.next + 1)
    BY <1>1 DEF FoundAt
  <2>2. q.position <= End(c)  BY <1>2, <2>1, Spans
  <2> QED  BY <1>1, <2>2 DEF FoundAt
<1>5. ASSUME NEW e \in s, NEW y \in Videos(Content[e])
      PROVE  /\ ~(q.position < Time(e, y) /\ Time(e, y) <= t)
             /\ ~(t <= Time(e, y) /\ Time(e, y) < q.position)
  <2>1. /\ e \in Chunks /\ Time(e, y) \in Nat /\ Begin(e) <= Time(e, y) /\ Time(e, y) <= End(e)
        /\ Begin(e) \in Nat /\ End(e) \in Nat /\ e \in Nat
    BY <1>5, Spans, Apart
  <2>2. ~(r.position < Time(e, y) /\ Time(e, y) <= t)  BY <1>5 DEF Clear
  <2>3. ~(q.position < Time(e, y) /\ Time(e, y) <= t)
    BY <1>1, <1>2, <1>3, <1>4, <2>1, <2>2
  <2>4. ASSUME t <= Time(e, y), Time(e, y) < q.position PROVE FALSE
    <3>1. e \notin p
      <4>1. SUFFICES ASSUME e \in p PROVE FALSE  OBVIOUS
      <4>2. End(e) < t  BY <1>5, <4>1 DEF Bygone
      <4> QED  BY <2>1, <2>4, <4>2
    <3>2. e > d
      <4>1. SUFFICES ASSUME ~(e > d) PROVE FALSE  OBVIOUS
      <4>2. End(e) <= End(d)
        <5>1. CASE e = d  BY <1>3, <5>1
        <5>2. CASE e # d
          <6>1. e < d  BY <1>3, <2>1, <4>1, <5>2
          <6>2. End(e) < End(d)  BY <1>2, <2>1, <6>1, Apart
          <6> QED  BY <1>3, <2>1, <6>2
        <5> QED  BY <5>1, <5>2
      <4> QED  BY <1>2, <1>3, <2>1, <2>4, <4>2
    <3>3. e \in Later(r, p)  BY <1>1, <2>1, <3>1, <3>2 DEF Later
    <3>4. u <= Begin(e) /\ x.stamp <= Begin(e)  BY <3>3 DEF Beyond
    <3>5. CASE e < c
      <4>1. End(e) < u  BY <1>4, <2>1, <3>4, <3>5
      <4> QED  BY <2>1, <3>4, <4>1
    <3>6. CASE e = c
      <4>1. u <= Time(e, y)  BY <2>1, <3>4
      <4>2. q.position <= Time(e, y)  BY <1>4, <1>5, <3>6, <4>1
      <4> QED  BY <1>4, <2>1, <2>4, <4>2
    <3>7. CASE e > c
      <4>1. End(c) < Begin(e)  BY <1>2, <2>1, <3>7, Apart
      <4> QED  BY <1>3, <1>4, <2>1, <2>4, <4>1
    <3> QED  BY <1>3, <2>1, <3>5, <3>6, <3>7
  <2> QED  BY <2>3, <2>4
<1> QED  BY <1>5 DEF Clear

LEMMA NextLoadLands ==
  ASSUME Inv, PlayInv, StraightInv, LandInv, NEW at \in {"reload", "loadnext"},
         NEW then \in {"retake", "take"}, NEW u \in Nat, NextLoad(at, u, then),
         NEW x, x = files[reader.file],
         Straight => Arrives(reader, x, passed, u) /\ Ended(reader, Playing, Heard)
  PROVE  LandInv' /\ LandsNow
<1>1. PICK L : L = LoadDataByIndex(reader, u, "Next")  OBVIOUS
<1>2. /\ pc = at /\ reader' = L.r /\ passed' = passed /\ UNCHANGED writerVars
      /\ IF L.ok THEN Goes(then) ELSE NextReturns("next", <<>>)
  BY <1>1 DEF NextLoad
<1>3. pc \in Nexts /\ then \in Nexts  BY <1>2 DEF Nexts
<1>4. /\ Ordered /\ Last \in Nat /\ ReaderOK(reader, Last) /\ reader.file \in 1..Last
      /\ x \in FileType /\ InOrder(x) /\ Snapshot(x, reader) /\ reader.file # 0
  BY <1>2, <1>3, InNext
<1>5. /\ L.ok \in BOOLEAN /\ ReaderOK(L.r, Last) /\ L.r.file = reader.file
      /\ L.r.size = reader.size /\ L.r.headers = reader.headers
      /\ L.r.file_list = reader.file_list
  BY <1>1, <1>4, LoadedOK
<1>6. CASE L.ok
  <2>1. Goes(then) /\ call' = call /\ Onto(then)  BY <1>2, <1>6, GoesOnto DEF Goes
  <2>2. ASSUME call.op = "seek", call.found
        PROVE  Dropping(files, then, L.r, call, passed, seen)
    <3>1. /\ call.time \in Nat /\ seen \subseteq Chunks /\ Straight
          /\ Dropping(files, pc, reader, call, passed, seen)
      BY <1>2, <1>3, <2>2, InDrop
    <3>2. PICK r, q, p, s, t : /\ r = reader /\ q = L.r /\ p = passed /\ s = seen
                               /\ t = call.time
      OBVIOUS
    <3>3. Arrives(r, x, p, u) /\ Shown(r) /\ Over(r)  BY <3>1, <3>2 DEF Ended
    <3>4. /\ Sought(x, r, u) /\ ListFrom(r, r.file) /\ Beyond(x, r, p) /\ End(r.datas) <= u
          /\ \A e \in Later(r, p) : u <= Begin(e)
      BY <3>3 DEF Arrives
    <3>5. Finds(x, reader, u, L.r)  BY <1>1, <1>4, <1>6, <3>2, <3>4, LoadForward
    <3>6. FoundAt(x, p, u, q)
      <4>1. /\ ReaderOK(r, Last) /\ x \in FileType /\ InOrder(x) /\ Snapshot(x, r) /\ u \in Nat
            /\ Finds(x, r, u, q) /\ ReaderOK(q, Last) /\ q.file = r.file
            /\ q.headers = r.headers /\ q.size = r.size /\ q.file_list = r.file_list
            /\ ListFrom(r, r.file) /\ Last \in Nat
        BY <1>4, <1>5, <3>2, <3>4, <3>5
      <4> QED  BY ONLY <4>1, FoundReady
    <3>7. /\ Clear(s, t, r.position) /\ OldBehind(files[r.file], r) /\ r.position < t
          /\ Bygone(p, s, t)
      BY <1>2, <3>1, <3>2 DEF Dropping, Nexts, Bygone
    <3>8. Clear(s, t, q.position)
      <4>1. s \subseteq Chunks /\ t \in Nat /\ u \in Nat  BY <3>1, <3>2
      <4> QED  BY ONLY <3>3, <3>4, <3>6, <3>7, <4>1, FoundClear
    <3>9. OldBehind(files[q.file], q)  BY <1>5, <3>2, <3>7 DEF OldBehind
    <3> QED  BY <3>2, <3>7, <3>8, <3>9 DEF Dropping, Bygone, Nexts
  <2> QED  BY <1>2, <1>3, <2>1, <2>2, DropsOn
<1>7. CASE ~L.ok  BY <1>2, <1>3, <1>7, DropEnds
<1> QED  BY <1>5, <1>6, <1>7

LEMMA NextTakeLands ==
  ASSUME Inv, PlayInv, StraightInv, LandInv, NEW at \in {"retake", "take"}, NEW by,
         NextTake(at, by)
  PROVE  LandInv' /\ LandsNow
<1>1. PICK G : G = GetNextData(reader)  OBVIOUS
<1>2. /\ pc = at /\ reader' = G.r /\ NextReturns(by, G.got) /\ passed' = passed
      /\ UNCHANGED writerVars
  BY <1>1 DEF NextTake
<1>3. pc \in Nexts  BY <1>2 DEF Nexts
<1>4. Last \in Nat /\ ReaderOK(reader, Last)  BY <1>2, <1>3, InNext
<1>5. CASE G.got = <<>>  BY <1>2, <1>3, <1>5, DropEnds
<1>6. CASE G.got # <<>>
  <2>1. ASSUME call.op = "seek", call.found
        PROVE  Dropping(files, "skip", G.r, call, passed, seen)
    <3>1. /\ Dropping(files, pc, reader, call, passed, seen)
          /\ SteadyAt(files, pc, reader, call, passed, Playing, Heard)
      BY <1>2, <1>3, <2>1, InDrop
    <3>2. ~Over(reader) /\ Shown(reader) /\ reader.position = Time(reader.datas, reader.next + 1)
      BY <1>2, <3>1 DEF SteadyAt, Landed, Ready
    <3>3. SameLoaded(G.r, reader) /\ Plays(G.r, G.got, reader.position)
      BY <1>1, <1>4, <3>2, AtHand
    <3>4. G.r.position = reader.position /\ Held(G.r) /\ G.r.file = reader.file
          /\ G.r.headers = reader.headers
      BY <3>3 DEF Plays, Held, SameLoaded
    <3> QED  BY <3>1, <3>4 DEF Dropping, OldBehind, Nexts
  <2> QED  BY <1>2, <1>6, <2>1, DropGives
<1> QED  BY <1>5, <1>6

LEMMA NextFileLands ==
  ASSUME Inv, PlayInv, StraightInv, LandInv, NextFile
  PROVE  LandInv' /\ LandsNow
<1>1. PICK list, taken : /\ list = Listed(reader.position, "Next")
                         /\ taken = Pop([reader EXCEPT !.file_list = list], "Next")
  OBVIOUS
<1>2. /\ pc = "nextfile" /\ UNCHANGED writerVars
      /\ list = <<>> => NextReturns("next", <<>>)
      /\ list # <<>> =>
           /\ reader' = taken.r /\ pc' = "opennext" /\ call' = [call EXCEPT !.file = taken.file]
           /\ passed' \subseteq passed \cup call.missing
           /\ UNCHANGED <<status, historyVars>>
  BY <1>1 DEF NextFile, Listed
<1>3. pc \in Nexts /\ call \in CallType  BY <1>2 DEF Nexts, Inv, CallInv
<1>4. FilesInv /\ ReaderOK(reader, Last)  BY <1>2, <1>3, InNext
<1>5. CASE list = <<>>  BY <1>2, <1>3, <1>5, DropEnds
<1>6. CASE list # <<>>
  <2>1. Takes(taken, reader.position, "Next")  BY <1>1, <1>6 DEF Takes
  <2>2. TakenOff(taken)  BY <1>4, <2>1, FromList
  <2>3. /\ reader'.file = reader.file /\ reader'.headers = reader.headers
        /\ reader'.position = reader.position
    BY <1>2, <1>6, <2>2 DEF TakenOff
  <2>4. /\ call'.op = call.op /\ call'.type = call.type /\ call'.found = call.found
        /\ call'.time = call.time
    BY <1>2, <1>3, <1>6 DEF CallType
  <2>5. Onto("opennext")  BY <1>2, <1>6, <2>4 DEF Onto
  <2>6. ASSUME call.op = "seek", call.found
        PROVE  Dropping(files, "opennext", reader', call', passed', seen)
    <3>1. Dropping(files, "nextfile", reader, call, passed, seen)  BY <1>2, <1>3, <2>6, InDrop
    <3>2. /\ Clear(seen, call.time, reader.position) /\ OldBehind(files[reader.file], reader)
          /\ \A e \in passed \cap seen : End(e) < call.time
          /\ reader.position < call.time /\ call.missing \cap seen = {}
      BY <3>1 DEF Dropping, Nexts
    <3>3. \A e \in passed' \cap seen : End(e) < call.time  BY <1>2, <1>6, <3>2
    <3>4. OldBehind(files[reader'.file], reader')  BY <2>3, <3>2 DEF OldBehind
    <3> QED  BY <2>3, <2>4, <3>2, <3>3, <3>4 DEF Dropping
  <2> QED  BY <1>2, <2>5, <2>6, DropsOn DEF Nexts
<1> QED  BY <1>5, <1>6

LEMMA NextOpenLands ==
  ASSUME Inv, PlayInv, StraightInv, LandInv, NextOpen
  PROVE  LandInv' /\ LandsNow
<1>1. PICK g, x, q : g = call.file /\ x = files[g] /\ q = ParseHeader(reader, g)  OBVIOUS
<1>2. /\ pc = "opennext" /\ UNCHANGED writerVars /\ reader' = q /\ passed' = passed
      /\ IF Parsed(g) THEN Goes("loadnext") ELSE NextReturns("next", <<>>)
  BY <1>1 DEF NextOpen
<1>3. pc \in Nexts /\ g \in 1..Last  BY <1>1, <1>2 DEF Nexts, Inv, CallInv
<1>4. /\ Ordered /\ Last \in Nat /\ files \in Seq(FileType) /\ FilesInv
      /\ ReaderOK(reader, Last)
  BY <1>2, <1>3, InNext
<1>5. Opened(q, reader, g)  BY <1>1, <1>3, <1>4, OpenedOK
<1>6. q.file = g /\ q.position = reader.position  BY <1>5 DEF Opened
<1>7. OldBehind(x, q)  BY <1>1, <1>3, <1>4, <1>5, ParsedFresh DEF LandInv
<1>8. CASE Parsed(g)
  <2>1. Goes("loadnext") /\ call' = call /\ Onto("loadnext")  BY <1>2, <1>8, GoesOnto DEF Goes
  <2>2. ASSUME call.op = "seek", call.found
        PROVE  Dropping(files, "loadnext", q, call, passed, seen)
    <3>1. Dropping(files, "opennext", reader, call, passed, seen)  BY <1>2, <1>3, <2>2, InDrop
    <3> QED  BY <1>1, <1>6, <1>7, <3>1 DEF Dropping, Nexts
  <2> QED  BY <1>2, <2>1, <2>2, DropsOn DEF Nexts
<1>9. CASE ~Parsed(g)  BY <1>2, <1>3, <1>9, DropEnds
<1> QED  BY <1>8, <1>9

LEMMA NextLoadsLand ==
  ASSUME Inv, PlayInv, StraightInv, LandInv, NextReload \/ NextFileLoad
  PROVE  LandInv' /\ LandsNow
<1>1. PICK x : x = files[reader.file]  OBVIOUS
<1>2. CASE NextReload
  <2>1. /\ NextLoad("reload", reader.position, "retake") /\ pc = "reload" /\ UNCHANGED writerVars
    BY <1>2 DEF NextReload, NextLoad
  <2>2. PICK u : u = reader.position  OBVIOUS
  <2>3. u \in Nat  BY <2>1, <2>2, InNext DEF Nexts
  <2>4. Straight => Arrives(reader, x, passed, u) /\ Ended(reader, Playing, Heard)
    BY <1>1, <2>1, <2>2, ReloadArrives
  <2> QED  BY <1>1, <2>1, <2>2, <2>3, <2>4, NextLoadLands
<1>3. CASE NextFileLoad
  <2>1. /\ NextLoad("loadnext", Stamp(call.file), "take") /\ pc = "loadnext"
        /\ UNCHANGED writerVars
    BY <1>3 DEF NextFileLoad, NextLoad
  <2>2. PICK u : u = Stamp(call.file)  OBVIOUS
  <2>3. call.file \in 1..Last /\ files \in Seq(FileType)  BY <2>1 DEF Inv, CallInv, FilesInv
  <2>4. u \in Nat  BY <2>2, <2>3, EntriesType
  <2>5. Straight => Arrives(reader, x, passed, u) /\ Ended(reader, Playing, Heard)
    BY <1>1, <2>1, <2>2, FileLoadArrives
  <2> QED  BY <1>1, <2>1, <2>2, <2>4, <2>5, NextLoadLands
<1> QED  BY <1>2, <1>3

LEMMA NextTakesLand ==
  ASSUME Inv, PlayInv, StraightInv, LandInv, NextRetake \/ NextFileTake
  PROVE  LandInv' /\ LandsNow
<1>1. CASE NextRetake
  <2>1. PICK at, by : at = "retake" /\ by = "again"  OBVIOUS
  <2> QED  BY <1>1, <2>1, NextTakeLands DEF NextRetake
<1>2. CASE NextFileTake
  <2>1. PICK at, by : at = "take" /\ by = "next"  OBVIOUS
  <2> QED  BY <1>2, <2>1, NextTakeLands DEF NextFileTake
<1> QED  BY <1>1, <1>2

\* The other calls leave it as it is.
LEMMA OthersLand ==
  ASSUME Inv, PlayInv, StraightInv, LandInv,
         \/ NextCall \/ PrevCall \/ StreamGop \/ StreamChunk
         \/ PrevInFile \/ PrevFile \/ PrevOpen \/ PrevLoad
  PROVE  LandInv' /\ LandsNow
<1>1. CASE NextCall \/ PrevCall
  <2>1. UNCHANGED writerVars /\ pc = "idle"  BY <1>1 DEF NextCall, PrevCall, Begins
  <2>2. call'.op \in {"next", "prev"}  BY <1>1 DEF NextCall, PrevCall, Begins, NoCall
  <2>3. call.op # "seek"  BY <2>1 DEF StraightInv, Roles, NoCall
  <2> QED  BY <2>1, <2>2, <2>3, NotLanding DEF LandsNow
<1>2. CASE StreamGop \/ StreamChunk
  <2>1. UNCHANGED writerVars /\ pc = "idle" /\ call' = call
    BY <1>2 DEF StreamGop, StreamChunk, Stream
  <2>2. call.op # "seek"  BY <2>1 DEF StraightInv, Roles, NoCall
  <2> QED  BY <2>1, <2>2, NotLanding DEF LandsNow
<1>3. CASE PrevInFile \/ PrevFile \/ PrevOpen \/ PrevLoad
  <2>1. UNCHANGED writerVars /\ pc \in Prevs
    BY <1>3 DEF PrevInFile, PrevFile, PrevOpen, PrevLoad, Prevs
  <2>2. call.op = "prev" /\ call \in CallType  BY <2>1, InPrev
  <2>3. call'.op # "seek"
    <3>1. call'.op = call.op \/ call' = NoCall
      <4>1. CASE PrevFile
        <5>1. PICK time, list, taken :
                /\ time = reader.opened - 1 /\ list = Listed(time, "Prev")
                /\ taken = Pop([reader EXCEPT !.file_list = list], "Prev")
          OBVIOUS
        <5>2. CASE list = <<>>
          <6>1. Returns("prev", <<>>)  BY <4>1, <5>1, <5>2 DEF PrevFile, Listed
          <6> QED  BY <6>1 DEF Returns
        <5>3. CASE list # <<>>
          <6>1. call' = [call EXCEPT !.file = taken.file, !.time = time]
            BY <4>1, <5>1, <5>3 DEF PrevFile, Listed
          <6> QED  BY <2>2, <6>1 DEF CallType
        <5> QED  BY <5>2, <5>3
      <4>2. CASE PrevInFile  BY <4>2 DEF PrevInFile, Returns, Goes
      <4>3. CASE PrevOpen  BY <4>3 DEF PrevOpen, Returns, Goes
      <4>4. CASE PrevLoad  BY <4>4 DEF PrevLoad, Returns
      <4> QED  BY <1>3, <4>1, <4>2, <4>3, <4>4
    <3> QED  BY <2>2, <3>1 DEF NoCall
  <2> QED  BY <2>1, <2>2, <2>3, NotLanding DEF LandsNow
<1> QED  BY <1>1, <1>2, <1>3

LEMMA StepLands ==
  Inv /\ PlayInv /\ StraightInv /\ LandInv /\ [Next]_vars => LandInv' /\ LandsNow
<1> SUFFICES ASSUME Inv, PlayInv, StraightInv, LandInv, [Next]_vars PROVE LandInv' /\ LandsNow
  OBVIOUS
<1>1. ASSUME call' = call, pc' = pc PROVE LandsNow
  BY <1>1 DEF LandsNow, StraightInv, Roles, NoCall
<1>2. CASE Writer
  <2>1. call' = call /\ pc' = pc
    BY <1>2 DEF Writer, Create, InitBuffer, WriteIndexInfo, WriteDisk, FileClose
  <2> QED  BY <1>1, <1>2, <2>1, WriterLands DEF StraightInv
<1>3. CASE Seek  BY <1>3, SeekLandsIt
<1>4. CASE Continues
  <2>1. CASE SeekList  BY <2>1, SeekListLands
  <2>2. CASE SeekOpen  BY <2>2, SeekOpenLands
  <2>3. CASE SeekLoad  BY <2>3, SeekLoadLands
  <2>4. CASE SeekSkip  BY <2>4, SeekSkipLands
  <2>5. CASE NextInFile  BY <2>5, NextInFileLands
  <2>6. CASE NextIfGrown  BY <2>6, NextIfGrownLands
  <2>7. CASE NextReload \/ NextFileLoad  BY <2>7, NextLoadsLand
  <2>8. CASE NextRetake \/ NextFileTake  BY <2>8, NextTakesLand
  <2>9. CASE NextFile  BY <2>9, NextFileLands
  <2>10. CASE NextOpen  BY <2>10, NextOpenLands
  <2>11. CASE PrevInFile \/ PrevFile \/ PrevOpen \/ PrevLoad  BY <2>11, OthersLand
  <2> QED
    BY <1>4, <2>1, <2>2, <2>3, <2>4, <2>5, <2>6, <2>7, <2>8, <2>9, <2>10, <2>11 DEF Continues
<1>5. CASE NextCall \/ PrevCall \/ StreamGop \/ StreamChunk  BY <1>5, OthersLand
<1>6. CASE UNCHANGED vars
  <2>1. UNCHANGED writerVars /\ UNCHANGED <<reader, pc, call, passed, seen, files>>
    BY <1>6 DEF vars, writerVars, historyVars
  <2>2. Landing'  BY <2>1 DEF LandInv, Landing
  <2> QED  BY <1>1, <2>1, <2>2, ContentsSame DEF LandInv
<1> QED  BY <1>2, <1>3, <1>4, <1>5, <1>6 DEF Next

\* Where a Seek forwards lands, as the runs check it.
LEMMA LandsThere ==
  ASSUME LandsNow, call.op = "seek", call.type = "Next", pc' = "idle", status' = "sought", ~astray'
  PROVE  \A t \in Frames(seen) : /\ ~(reader'.position < t /\ t <= call.time)
                                 /\ ~(call.time <= t /\ t < reader'.position)
<1> SUFFICES ASSUME NEW t \in Frames(seen)
             PROVE  /\ ~(reader'.position < t /\ t <= call.time)
                    /\ ~(call.time <= t /\ t < reader'.position)
  OBVIOUS
<1>1. PICK e \in seen : \E y \in Videos(Content[e]) : t = Time(e, y)  BY DEF Frames, Time
<1>2. Clear(seen, call.time, reader'.position)  BY DEF LandsNow
<1> QED  BY <1>1, <1>2 DEF Clear

\* A Seek forwards that succeeds lands on the last frame at or before the time, or on the first
\* one after it, of what was on the disk when it began: no such frame is between the time and
\* the position, or at the time and passed by.
THEOREM LandsRight == Spec => SeekLands
<1>1. Init => Inv /\ PlayInv /\ StraightInv /\ LandInv
  BY InitOK, InitPlays, InitStraight, InitLands
<1>2. Inv /\ PlayInv /\ StraightInv /\ LandInv /\ [Next]_vars =>
        Inv' /\ PlayInv' /\ StraightInv' /\ LandInv'
  BY StepOK, StepPlays, StepStraight, StepLands
<1>3. Inv /\ PlayInv /\ StraightInv /\ LandInv /\ [Next]_vars =>
        [(call.op = "seek" /\ call.type = "Next" /\ pc' = "idle" /\ status' = "sought" /\ ~astray') =>
           \A t \in Frames(seen) : /\ ~(reader'.position < t /\ t <= call.time)
                                   /\ ~(call.time <= t /\ t < reader'.position)]_vars
  BY StepLands, LandsThere
<1> QED  BY <1>1, <1>2, <1>3, PTL DEF Spec, SeekLands
=============================================================================
