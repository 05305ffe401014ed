--------------------------- MODULE RecordReaderProofs ---------------------------
(***************************************************************************)
(* For any recording, any hours, targets and calls: what the reader keeps  *)
(* has its type, its positions point into what it has parsed and loaded,   *)
(* and every frame it hands out can be decoded.                            *)
(***************************************************************************)
EXTENDS RecordReader, SequenceTheorems, FiniteSetTheorems, WellFoundedInduction, TLAPS

-----------------------------------------------------------------------------
(***************************************************************************)
(* The least and the greatest of numbers, and what First chooses.          *)
(***************************************************************************)
LEMMA LeastIs ==
  ASSUME NEW S, S \subseteq Nat, S # {}
  PROVE  Least(S) \in S /\ \A y \in S : Least(S) <= y
<1> DEFINE R == OpToRel(<, Nat)
<1>1. IsWellFoundedOn(R, Nat)  BY NatLessThanWellFounded
<1>2. \A x, y \in Nat : y < x => <<y, x>> \in R  BY DEF OpToRel
<1> HIDE DEF R
<1>3. PICK x \in S : \A y \in S : ~(<<y, x>> \in R)  BY <1>1, WFMin
<1>4. \A y \in S : ~(y < x)  BY <1>2, <1>3
<1>5. \A y \in S : y \in Int /\ x \in Int  OBVIOUS
<1>6. ASSUME NEW y \in S PROVE x <= y
  <2>1. ~(y < x) /\ x \in Int /\ y \in Int  BY <1>4, <1>5
  <2> QED  BY ONLY <2>1
<1> QED  BY <1>6 DEF Least

LEMMA GreatestIs ==
  ASSUME NEW S, S \subseteq Nat, S # {}, NEW n \in Nat, \A y \in S : y <= n
  PROVE  Greatest(S) \in S /\ \A y \in S : Greatest(S) >= y
<1> DEFINE T == {m \in Nat : \A y \in S : y <= m}
<1>1. T \subseteq Nat /\ n \in T  OBVIOUS
<1>2. PICK x : x = Least(T)  OBVIOUS
<1>3. x \in T /\ \A m \in T : x <= m  BY <1>1, <1>2, LeastIs
<1>4. x \in S
  <2>1. SUFFICES ASSUME x \notin S PROVE FALSE  OBVIOUS
  <2>2. ASSUME NEW y \in S PROVE y <= x - 1
    <3>1. y <= x /\ y # x /\ y \in Int /\ x \in Int  BY <1>3, <2>1
    <3> QED  BY ONLY <3>1
  <2>3. PICK y \in S : TRUE  OBVIOUS
  <2>4. x - 1 \in Nat  BY <1>3, <2>2, <2>3
  <2>5. x - 1 \in T  BY <2>2, <2>4
  <2> QED  BY <1>3, <2>5
<1>5. \A y \in S : x >= y  BY <1>3
<1> QED  BY <1>4, <1>5 DEF Greatest

LEMMA FirstIs ==
  ASSUME NEW S, S \subseteq Nat, NEW n \in Nat, \A y \in S : y <= n, NEW dir, NEW none
  PROVE  /\ S # {} => First(S, dir, none) \in S
         /\ S = {} => First(S, dir, none) = none
         /\ S # {} /\ dir = "Next" => \A y \in S : First(S, dir, none) <= y
         /\ S # {} /\ dir # "Next" => \A y \in S : First(S, dir, none) >= y
BY LeastIs, GreatestIs DEF First

-----------------------------------------------------------------------------
(***************************************************************************)
(* The recording.                                                          *)
(***************************************************************************)
Item == [time : Nat, kind : Kinds]

LEMMA ConstantTypes ==
  /\ Hour \in Nat \ {0} /\ Width \in Nat \ {0} /\ Duration \in Nat \ {0} /\ MaxCalls \in Nat
  /\ Content \in Seq(Seq(Item)) /\ Len(Content) \in Nat
BY ConstantsAssumption DEF Item, Kinds

LEMMA ItemsType ==
  ASSUME NEW c \in Chunks \cup {0}
  PROVE  /\ Items(c) \in Seq(Item) /\ Len(Items(c)) \in Nat
         /\ Items(c) = <<>> <=> c = 0
         /\ \A i \in 1..Len(Items(c)) : /\ Items(c)[i] \in Item /\ Items(c)[i].time \in Nat
                                        /\ Items(c)[i].kind \in Kinds
<1>1. CASE c = 0  BY <1>1 DEF Items
<1>2. CASE c # 0
  <2>1. c \in Chunks /\ Items(c) = Content[c]  BY <1>2 DEF Items
  <2>2. 0 \notin Chunks  BY ConstantTypes DEF Chunks
  <2>3. Content[c] \in Seq(Item) /\ Content[c] # <<>>  BY <2>1, ConstantTypes, ConstantsAssumption DEF Chunks
  <2>4. PICK items : items = Content[c]  OBVIOUS
  <2>5. items \in Seq(Item) /\ items # <<>>  BY <2>3, <2>4
  <2>6. \A i \in 1..Len(items) : items[i] \in Item  BY <2>5
  <2>7. \A i \in 1..Len(items) : items[i].time \in Nat /\ items[i].kind \in Kinds  BY <2>6 DEF Item
  <2> QED  BY <2>1, <2>2, <2>4, <2>5, <2>6, <2>7, <1>2
<1> QED  BY <1>1, <1>2

LEMMA VideosType ==
  ASSUME NEW items \in Seq(Item)
  PROVE  /\ Videos(items) \subseteq Nat /\ Videos(items) \subseteq 1..Len(items)
         /\ \A i \in Videos(items) : i <= Len(items)
         /\ Videos(items) # {} => /\ Least(Videos(items)) \in Videos(items)
                                  /\ Greatest(Videos(items)) \in Videos(items)
                                  /\ \A i \in Videos(items) : /\ Least(Videos(items)) <= i
                                                              /\ i <= Greatest(Videos(items))
<1>1. /\ Videos(items) \subseteq Nat /\ Videos(items) \subseteq 1..Len(items)
      /\ \A i \in Videos(items) : i <= Len(items)
  BY DEF Videos
<1>2. Len(items) \in Nat  OBVIOUS
<1>3. ASSUME Videos(items) # {}
      PROVE  /\ Least(Videos(items)) \in Videos(items)
             /\ Greatest(Videos(items)) \in Videos(items)
             /\ \A i \in Videos(items) : /\ Least(Videos(items)) <= i
                                         /\ i <= Greatest(Videos(items))
  <2>1. PICK V : V = Videos(items)  OBVIOUS
  <2>2. Least(V) \in V /\ \A y \in V : Least(V) <= y  BY <1>1, <1>3, <2>1, LeastIs
  <2>3. Greatest(V) \in V /\ \A y \in V : Greatest(V) >= y  BY <1>1, <1>2, <1>3, <2>1, GreatestIs
  <2>4. \A y \in V : y \in Int /\ Greatest(V) \in Int  BY <1>1, <2>1, <2>3
  <2> QED  BY <2>1, <2>2, <2>3, <2>4
<1> QED  BY <1>1, <1>3

LEMMA ChunkType ==
  ASSUME NEW c \in Chunks
  PROVE  /\ Content[c] \in Seq(Item) /\ Items(c) = Content[c] /\ c # 0
         /\ 1 \in Videos(Content[c])
         /\ Begin(c) \in Nat /\ End(c) \in Nat /\ Begin(c) = Content[c][1].time
<1>1. c # 0 /\ c \in Nat  BY ConstantTypes DEF Chunks
<1>2. Content[c] \in Seq(Item) /\ Items(c) = Content[c]  BY <1>1, ItemsType DEF Items
<1>3. Content[c] # <<>> /\ Content[c][1].kind = "I"  BY ConstantsAssumption
<1>4. 1 \in Videos(Content[c])  BY <1>2, <1>3 DEF Videos, IsVideo
<1>5. PICK V : V = Videos(Content[c])  OBVIOUS
<1>6. /\ Least(V) \in V /\ Greatest(V) \in V /\ V \subseteq 1..Len(Content[c])
      /\ \A i \in V : Least(V) <= i
  BY <1>2, <1>4, <1>5, VideosType
<1>7. Least(V) = 1
  <2>1. Least(V) \in Int /\ Least(V) >= 1 /\ Least(V) <= 1  BY <1>2, <1>4, <1>5, <1>6
  <2> QED  BY ONLY <2>1
<1>8. \A i \in 1..Len(Content[c]) : Content[c][i].time \in Nat  BY <1>1, <1>2, ItemsType
<1>9. Begin(c) \in Nat /\ Begin(c) = Content[c][1].time
  BY <1>2, <1>3, <1>5, <1>7, <1>8 DEF Begin
<1>10. End(c) \in Nat  BY <1>5, <1>6, <1>8 DEF End
<1> QED  BY <1>1, <1>2, <1>4, <1>9, <1>10

-----------------------------------------------------------------------------
(***************************************************************************)
(* The files, and the lists of them the reader makes.                      *)
(***************************************************************************)
FileType == [stamp : Nat, headed : BOOLEAN, own : Seq(Chunks), left : Seq(Chunks), cells : Nat]

\* The index area of a file as it would be parsed.
LEMMA EntriesType ==
  ASSUME files \in Seq(FileType), NEW f \in 1..Last
  PROVE  /\ Entries(f) \in Seq(EntryType) /\ FileSize(f) \in Nat /\ Stamp(f) \in Nat
         /\ Parsed(f) \in BOOLEAN
         /\ files[f] \in FileType
         /\ Len(Entries(f)) = IF Len(files[f].left) > Len(files[f].own) THEN Len(files[f].left)
                                                                        ELSE Len(files[f].own)
         /\ \A i \in 1..Len(Entries(f)) :
              /\ Entries(f)[i].chunk = IF i <= Len(files[f].own) THEN files[f].own[i] ELSE files[f].left[i]
              /\ Entries(f)[i].own <=> i <= Len(files[f].own)
<1>1. files[f] \in FileType  BY DEF Last
<1>2. PICK own : own = files[f].own  OBVIOUS
<1>3. PICK left : left = files[f].left  OBVIOUS
<1>4. own \in Seq(Chunks) /\ left \in Seq(Chunks)  BY <1>1, <1>2, <1>3 DEF FileType
<1>5. PICK n : n = IF Len(left) > Len(own) THEN Len(left) ELSE Len(own)  OBVIOUS
<1>6. n \in Nat  BY <1>4, <1>5
<1>7. PICK e : e = [i \in 1..n |-> [chunk |-> IF i <= Len(own) THEN own[i] ELSE left[i],
                                    own |-> i <= Len(own)]]
  OBVIOUS
<1>8. Entries(f) = e  BY <1>2, <1>3, <1>5, <1>7 DEF Entries
<1>9. ASSUME NEW i \in 1..n PROVE e[i] \in EntryType
  <2>1. i <= Len(own) => own[i] \in Chunks  BY <1>4, <1>6
  <2>2. ~(i <= Len(own)) => left[i] \in Chunks  BY <1>4, <1>5, <1>6
  <2>3. (i <= Len(own)) \in BOOLEAN  BY <1>4
  <2> QED  BY <1>7, <2>1, <2>2, <2>3 DEF EntryType
<1>10. e \in Seq(EntryType) /\ Len(e) = n  BY <1>6, <1>7, <1>9
<1>11. FileSize(f) \in Nat /\ Stamp(f) \in Nat /\ Parsed(f) \in BOOLEAN
  BY <1>1 DEF FileType, FileSize, Stamp, Parsed
<1>12. \A i \in 1..n : /\ e[i].chunk = (IF i <= Len(own) THEN own[i] ELSE left[i])
                       /\ e[i].own <=> i <= Len(own)
  BY <1>7
<1>13. Len(Entries(f)) = n  BY <1>8, <1>10
<1>14. Entries(f) \in Seq(EntryType)  BY <1>8, <1>10
<1>15. \A i \in 1..Len(Entries(f)) :
         /\ Entries(f)[i].chunk = (IF i <= Len(files[f].own) THEN files[f].own[i] ELSE files[f].left[i])
         /\ Entries(f)[i].own <=> i <= Len(files[f].own)
  BY <1>2, <1>3, <1>8, <1>12, <1>13
<1>16. n = IF Len(files[f].left) > Len(files[f].own) THEN Len(files[f].left) ELSE Len(files[f].own)
  BY <1>2, <1>3, <1>5
<1> QED  BY <1>1, <1>11, <1>13, <1>14, <1>15, <1>16

\* A list of files holds each of a set once, in their order: there is one of every rank.
HasRank(S, i) == \E f \in S : Cardinality({g \in S : g <= f}) = i

LEMMA Ranked ==
  ASSUME NEW n \in Nat, NEW S, S \subseteq 1..n, NEW i \in 1..Cardinality(S)
  PROVE  HasRank(S, i)
<1> SUFFICES \E f \in S : Cardinality({g \in S : g <= f}) = i  BY DEF HasRank
<1> DEFINE Up(m) == {g \in S : g <= m}
<1>1. ASSUME NEW m PROVE IsFiniteSet(Up(m)) /\ Cardinality(Up(m)) \in Nat
  <2>1. IsFiniteSet(1..n)  BY FS_Interval
  <2>2. Up(m) \subseteq 1..n  OBVIOUS
  <2> QED  BY <2>1, <2>2, FS_Subset, FS_CardinalityType
<1>0. \A g \in S : g \in 1..n /\ g \in Int /\ g <= n /\ ~(g <= 0)  OBVIOUS
<1>2. Up(n) = S  BY <1>0
<1>3. Up(0) = {}  BY <1>0
<1>4. Cardinality(Up(0)) = 0  BY <1>3, FS_EmptySet
<1> DEFINE T == {m \in 0..n : Cardinality(Up(m)) >= i}
<1>5. Cardinality(S) \in Nat  BY <1>1, <1>2
<1>6. i \in Nat \ {0} /\ Cardinality(S) >= i  BY <1>5
<1>7. n \in T  BY <1>2, <1>6
<1>8. PICK m : m = Least(T)  OBVIOUS
<1>9. m \in T /\ \A k \in T : m <= k
  <2> HIDE DEF Up
  <2>1. T \subseteq Nat /\ T # {}  BY <1>7
  <2> HIDE DEF T
  <2> QED  BY <1>8, <2>1, LeastIs
<1>10. m \in 1..n
  <2>1. m # 0  BY <1>4, <1>6, <1>9
  <2> QED  BY <1>9, <2>1
<1>11. Cardinality(Up(m - 1)) < i
  <2>1. m - 1 \in 0..n /\ ~(m <= m - 1)  BY <1>10
  <2>2. m - 1 \notin T  BY <1>9, <2>1
  <2>3. Cardinality(Up(m - 1)) \in Nat  BY <1>1
  <2> QED  BY <1>6, <2>1, <2>2, <2>3
<1>12. m \in S
  <2>1. SUFFICES ASSUME m \notin S PROVE FALSE  OBVIOUS
  <2>2. Up(m) = Up(m - 1)
    <3>1. \A g \in S : g <= m <=> g <= m - 1  BY <1>10, <2>1
    <3> QED  BY <3>1
  <2>3. Cardinality(Up(m)) \in Nat /\ Cardinality(Up(m)) >= i  BY <1>1, <1>9
  <2> HIDE DEF Up
  <2> QED  BY <1>6, <1>11, <2>2, <2>3
<1>13. Cardinality(Up(m)) = Cardinality(Up(m - 1)) + 1
  <2>1. Up(m) = Up(m - 1) \cup {m}
    <3>1. \A g \in S : g <= m <=> g <= m - 1 \/ g = m  BY <1>10
    <3> QED  BY <1>12, <3>1
  <2>2. m \notin Up(m - 1)  BY <1>10
  <2> QED  BY <1>1, <2>1, <2>2, FS_AddElement
<1>14. Cardinality(Up(m)) = i
  <2>1. Cardinality(Up(m)) >= i  BY <1>9
  <2> HIDE DEF Up, T
  <2>2. Cardinality(Up(m - 1)) \in Nat  BY <1>1
  <2> QED  BY <1>6, <1>11, <1>13, <2>1, <2>2
<1> QED  BY <1>12, <1>14

LEMMA FilesOfType ==
  ASSUME NEW n \in Nat, NEW S, S \subseteq 1..n
  PROVE  /\ FilesOf(S) \in Seq(1..n) /\ Len(FilesOf(S)) = Cardinality(S) /\ Cardinality(S) \in Nat
         /\ \A i \in 1..Cardinality(S) : /\ FilesOf(S)[i] \in S
                                         /\ Cardinality({g \in S : g <= FilesOf(S)[i]}) = i
         /\ S # {} => FilesOf(S) # <<>>
<1>1. IsFiniteSet(S) /\ Cardinality(S) \in Nat
  <2>1. IsFiniteSet(1..n)  BY FS_Interval
  <2> QED  BY <2>1, FS_Subset, FS_CardinalityType
<1>2. PICK k : k = Cardinality(S)  OBVIOUS
<1> DEFINE F(i) == CHOOSE f \in S : Cardinality({g \in S : g <= f}) = i
<1>3. PICK list : list = [i \in 1..k |-> F(i)]  OBVIOUS
<1>4. FilesOf(S) = list  BY <1>2, <1>3 DEF FilesOf
<1>5. \A i \in 1..k : list[i] \in S /\ Cardinality({g \in S : g <= list[i]}) = i
  <2> TAKE i \in 1..k
  <2>1. \E f \in S : Cardinality({g \in S : g <= f}) = i
    <3>1. i \in 1..Cardinality(S)  BY <1>2
    <3>2. HasRank(S, i)  BY ONLY <3>1, n \in Nat, S \subseteq 1..n, Ranked
    <3> QED  BY <3>2 DEF HasRank
  <2>2. list[i] = F(i)  BY <1>3
  <2> QED  BY <2>1, <2>2
<1>6. list \in Seq(1..n) /\ Len(list) = k
  <2> HIDE DEF F
  <2>1. k \in Nat /\ \A i \in 1..k : list[i] \in 1..n  BY <1>1, <1>2, <1>5
  <2>2. \A i \in 1..k : F(i) \in 1..n  BY <1>3, <2>1
  <2> QED  BY <1>3, <2>1, <2>2
<1>7. S # {} => k # 0  BY <1>1, <1>2, FS_EmptySet
<1> QED  BY <1>1, <1>2, <1>4, <1>5, <1>6, <1>7

LEMMA NearestType ==
  ASSUME files \in Seq(FileType), NEW t, NEW dir, NEW include
  PROVE  GetNearestFile(t, dir, include) \in Seq(1..Last)
<1>1. Last \in Nat  BY DEF Last
<1>2. GetNearestFileNames(t, dir, include) \subseteq 1..Last
  <2>1. NearHour(t, dir, include) \subseteq 1..Last
    <3>1. PICK older : older = {f \in InHours(HourOf(t), HourOf(t) + 1) : Stamp(f) < t}  OBVIOUS
    <3>2. older \subseteq 1..Last  BY <3>1 DEF InHours
    <3>3. older # {} => Greatest(older) \in older
      <4>1. older \subseteq Nat /\ \A f \in older : f <= Last  BY <1>1, <3>2
      <4> QED  BY <1>1, <4>1, GreatestIs
    <3> QED  BY <3>1, <3>2, <3>3 DEF NearHour, InHours
  <2>2. NearFolder(t, dir) \subseteq 1..Last  BY DEF NearFolder
  <2> QED  BY <2>1, <2>2 DEF GetNearestFileNames, Either
<1>3. \A S : In2Hours(t, S, dir) \subseteq S  BY DEF In2Hours, Either, Within
<1>4. \A S : OneUpTo(t, S) \subseteq S  BY DEF OneUpTo
<1>5. \A S : S \subseteq 1..Last => FilesOf(S) \in Seq(1..Last)  BY <1>1, FilesOfType
<1>6. <<>> \in Seq(1..Last)  OBVIOUS
<1>7. PICK found : found = GetNearestFileNames(t, dir, include)  OBVIOUS
<1>8. PICK kept : kept = IF include /\ dir = "Next" THEN OneUpTo(t, found) ELSE found  OBVIOUS
<1>9. In2Hours(t, kept, dir) \subseteq 1..Last
  <2>1. kept \subseteq found  BY <1>4, <1>8
  <2>2. In2Hours(t, kept, dir) \subseteq kept  BY <1>3
  <2> QED  BY <1>2, <1>7, <2>1, <2>2
<1> QED  BY <1>5, <1>6, <1>7, <1>8, <1>9 DEF GetNearestFile

-----------------------------------------------------------------------------
(***************************************************************************)
(* What the reader's functions do with its object. n: the number of files. *)
(***************************************************************************)
ReaderOK(r, n) ==
  /\ r \in ReaderType
  /\ r.data_index \in -1..(Len(r.headers) - 1)
  /\ r.next <= Len(Items(r.datas))
  /\ r.file <= n /\ r.file_list \in Seq(1..n)
  /\ r.file = 0 => r.headers = <<>> /\ r.datas = 0

\* The object with another index position and chunk.
Placed(r, i, c, next, position) ==
  [r EXCEPT !.data_index = i, !.datas = c, !.next = next, !.position = position]

LEMMA PlacedOK ==
  ASSUME NEW n \in Nat, NEW r, ReaderOK(r, n),
         NEW i \in -1..(Len(r.headers) - 1), NEW c \in Chunks \cup {0}, NEW next \in Nat,
         next <= Len(Items(c)), NEW position \in Nat, r.file # 0 \/ c = 0
  PROVE  /\ ReaderOK(Placed(r, i, c, next, position), n)
         /\ Placed(r, i, c, next, position).file = r.file
         /\ Placed(r, i, c, next, position).headers = r.headers
         /\ Placed(r, i, c, next, position).data_index = i
         /\ Placed(r, i, c, next, position).datas = c
         /\ Placed(r, i, c, next, position).next = next
         /\ Placed(r, i, c, next, position).position = position
         /\ Placed(r, i, c, next, position).file_list = r.file_list
         /\ Placed(r, i, c, next, position).size = r.size
         /\ Placed(r, i, c, next, position).opened = r.opened
<1>1. i \in Int  BY DEF ReaderOK, ReaderType
<1> QED  BY <1>1 DEF ReaderOK, ReaderType, Placed

Fits(r, i, c, next, position) ==
  /\ i \in -1..(Len(r.headers) - 1) /\ c \in Chunks \cup {0} /\ next \in Nat
  /\ next <= Len(Items(c)) /\ position \in Nat /\ (r.file # 0 \/ c = 0)
SetTo(q, r, n, i) ==
  /\ ReaderOK(q, n) /\ q.file = r.file /\ q.headers = r.headers /\ q.data_index = i
  /\ q.file_list = r.file_list /\ q.opened = r.opened /\ q.size = r.size

LEMMA PlacedFits ==
  ASSUME NEW n \in Nat, NEW r, ReaderOK(r, n), NEW i, NEW c, NEW next, NEW position,
         Fits(r, i, c, next, position)
  PROVE  SetTo(Placed(r, i, c, next, position), r, n, i)
<1>1. i \in -1..(Len(r.headers) - 1) /\ c \in Chunks \cup {0}  BY DEF Fits
<1> QED  BY <1>1, PlacedOK DEF Fits, SetTo

\* ParseHeader: a file's index, or none.
LEMMA ParseOK ==
  ASSUME files \in Seq(FileType), NEW r, ReaderOK(r, Last), NEW f \in 1..Last
  PROVE  /\ ReaderOK(ParseHeader(r, f), Last)
         /\ ParseHeader(r, f) =
              [r EXCEPT !.file = f, !.size = FileSize(f),
                        !.headers = (IF Parsed(f) THEN Entries(f) ELSE <<>>),
                        !.data_index = Len(IF Parsed(f) THEN Entries(f) ELSE <<>>) - 1]
<1>1. PICK h : h = IF Parsed(f) THEN Entries(f) ELSE <<>>  OBVIOUS
<1>2. h \in Seq(EntryType) /\ Len(h) \in Nat
  <2>1. Entries(f) \in Seq(EntryType)  BY EntriesType
  <2> QED  BY <1>1, <2>1
<1>3. PICK s : s = FileSize(f)  OBVIOUS
<1>4. s \in Nat  BY <1>3, EntriesType
<1>5. ParseHeader(r, f) = [r EXCEPT !.file = f, !.size = s, !.headers = h, !.data_index = Len(h) - 1]
  BY <1>1, <1>3 DEF ParseHeader
<1>6. PICK q : q = [r EXCEPT !.file = f, !.size = s, !.headers = h, !.data_index = Len(h) - 1]  OBVIOUS
<1>7. f \in Nat /\ f <= Last /\ f # 0  BY DEF Last
<1>8. q \in ReaderType /\ q.data_index = Len(h) - 1 /\ q.headers = h
  <2>1. Len(h) - 1 \in Int  BY <1>2
  <2>2. PICK k : k = Len(h) - 1  OBVIOUS
  <2>3. r \in ReaderType  BY DEF ReaderOK
  <2> QED  BY <1>2, <1>4, <1>6, <1>7, <2>1, <2>2, <2>3 DEF ReaderType
<1>9. q.next = r.next /\ q.datas = r.datas /\ q.file = f /\ q.file_list = r.file_list
  BY <1>6 DEF ReaderOK, ReaderType
<1>10. ReaderOK(q, Last)
  BY <1>2, <1>7, <1>8, <1>9 DEF ReaderOK
<1> QED  BY <1>1, <1>3, <1>5, <1>6, <1>10

\* Pop takes the file from one end of the list.
LEMMA PopOK ==
  ASSUME files \in Seq(FileType), NEW r, ReaderOK(r, Last), r.file_list # <<>>, NEW dir,
         NEW taken, taken = Pop(r, dir)
  PROVE  /\ taken.file \in 1..Last /\ ReaderOK(taken.r, Last)
         /\ dir = "Next" => taken.file = Head(r.file_list) /\ taken.r.file_list = Tail(r.file_list)
         /\ taken.r.opened = Stamp(taken.file) % Width
         /\ taken.r.file = r.file /\ taken.r.headers = r.headers /\ taken.r.datas = r.datas
         /\ taken.r.data_index = r.data_index /\ taken.r.next = r.next
         /\ taken.r.position = r.position /\ taken.r.size = r.size
<1>1. PICK list : list = r.file_list  OBVIOUS
<1>2. list \in Seq(1..Last) /\ list # <<>> /\ Len(list) \in Nat \ {0}  BY <1>1 DEF ReaderOK
<1>3. PICK f : f = IF dir = "Next" THEN Head(list) ELSE list[Len(list)]  OBVIOUS
<1>4. f \in 1..Last
  <2>0. PICK S : S = 1..Last  OBVIOUS
  <2>1. list \in Seq(S) /\ 1 \in 1..Len(list) /\ Len(list) \in 1..Len(list)  BY <1>2, <2>0
  <2>2. Head(list) \in S /\ list[Len(list)] \in S  BY <1>2, <2>1
  <2> QED  BY <1>3, <2>0, <2>2
<1>5. PICK rest : rest = IF dir = "Next" THEN Tail(list) ELSE SubSeq(list, 1, Len(list) - 1)  OBVIOUS
<1>6. rest \in Seq(1..Last)
  <2>0. PICK S : S = 1..Last  OBVIOUS
  <2>1. Tail(list) \in Seq(S)  BY <1>2, <2>0
  <2>2. SubSeq(list, 1, Len(list) - 1) \in Seq(S)
    <3>1. list \in Seq(S) /\ Len(list) \in Nat \ {0}  BY <1>2, <2>0
    <3>2. Len(list) - 1 \in Nat /\ \A i \in 1..(Len(list) - 1) : list[i] \in S
      BY ONLY <3>1
    <3> QED  BY ONLY <3>1, <3>2
  <2> QED  BY <1>5, <2>0, <2>1, <2>2
<1>7. PICK o : o = Stamp(f) % Width  OBVIOUS
<1>8. o \in 0..(Width - 1)
  <2>1. Stamp(f) \in Nat /\ Width \in Nat \ {0}  BY <1>4, EntriesType, ConstantTypes
  <2> QED  BY ONLY <1>7, <2>1
<1>9. PICK q : q = [r EXCEPT !.file_list = rest, !.opened = o]  OBVIOUS
<1>10. taken.file = f /\ taken.r = q
  BY <1>1, <1>3, <1>5, <1>7, <1>9 DEF Pop
<1>11. ReaderOK(q, Last)
  <2>1. rest \in Seq(Nat)
    <3>1. \A i \in 1..Len(rest) : rest[i] \in Nat  BY <1>6 DEF Last
    <3> QED  BY <1>6, <3>1
  <2>2. q \in ReaderType  BY <1>8, <1>9, <2>1 DEF ReaderOK, ReaderType
  <2> QED  BY <1>6, <1>9, <2>2 DEF ReaderOK, ReaderType
<1>12. /\ q.opened = o /\ q.file = r.file /\ q.headers = r.headers /\ q.datas = r.datas
       /\ q.data_index = r.data_index /\ q.next = r.next /\ q.position = r.position /\ q.size = r.size
       /\ q.file_list = rest
  <2>1. r \in ReaderType  BY DEF ReaderOK
  <2> QED  BY ONLY <1>9, <2>1 DEF ReaderType
<1>13. dir = "Next" => f = Head(list) /\ rest = Tail(list)  BY <1>3, <1>5
<1> QED  BY <1>1, <1>4, <1>7, <1>10, <1>11, <1>12, <1>13

\* SetIndexPosition stays in the index.
LEMMA PositionOK ==
  ASSUME NEW headers \in Seq(EntryType), NEW t, NEW dir
  PROVE  SetIndexPosition(headers, t, dir) \in -1..(Len(headers) - 1)
<1> DEFINE Above(i) == dir = "Prev" /\ Begin(headers[i].chunk) > t
           stops == {i \in 1..Len(headers) : Above(i) \/ End(headers[i].chunk) >= t}
           stop == First(stops, "Next", Len(headers))
<1>1. SetIndexPosition(headers, t, dir) = IF headers # <<>> /\ Above(stop) THEN stop - 2 ELSE stop - 1
  BY DEF SetIndexPosition
<1>2. stop \in 0..Len(headers) /\ (headers # <<>> => stop # 0)
  <2>1. stops \subseteq Nat /\ stops \subseteq 0..Len(headers) /\ Len(headers) \in Nat
        /\ \A i \in stops : i <= Len(headers)
    OBVIOUS
  <2> HIDE DEF stops
  <2>2. stop \in stops \/ stop = Len(headers)  BY <2>1, FirstIs
  <2>3. 0 \notin stops  BY DEF stops
  <2>4. headers # <<>> => Len(headers) # 0  OBVIOUS
  <2>5. PICK S : S = stops  OBVIOUS
  <2>6. PICK x : x = stop  OBVIOUS
  <2>7. x \in S \/ x = Len(headers)  BY <2>2, <2>5, <2>6
  <2>8. S \subseteq 0..Len(headers) /\ Len(headers) \in Nat /\ 0 \notin S  BY <2>1, <2>3, <2>5
  <2>9. x \in 0..Len(headers) /\ (headers # <<>> => x # 0)
    <3>1. PICK n : n = Len(headers)  OBVIOUS
    <3>2. CASE x \in S  BY <2>8, <3>2
    <3>3. CASE x = n
      <4>1. n \in 0..n  BY <2>8, <3>1
      <4> QED  BY <2>4, <3>1, <3>3, <4>1
    <3> QED  BY <2>7, <3>1, <3>2, <3>3
  <2> QED  BY <2>6, <2>9
<1> HIDE DEF stop, Above
<1>4. Len(headers) \in Nat  OBVIOUS
<1> QED  BY <1>1, <1>2, <1>4

\* SeekToTime finds the first video frame on the right side of the time.
LEMMA SeekToTimeIs ==
  ASSUME NEW c \in Chunks, NEW t \in Int, NEW dir
  PROVE  LET x == SeekToTime(c, t, dir)
         IN  /\ x \in 0..Len(Items(c)) /\ x \in Nat
             /\ x # 0 => x \in Videos(Items(c)) /\ Items(c)[x].time \in Nat
             /\ x # 0 /\ dir = "Next" => /\ Items(c)[x].time >= t
                                         /\ \A i \in Videos(Items(c)) : Items(c)[i].time >= t => i >= x
             /\ x = 0 /\ dir = "Next" => \A i \in Videos(Items(c)) : ~(Items(c)[i].time >= t)
             /\ x # 0 /\ dir = "Prev" => /\ Items(c)[x].time <= t
                                         /\ \A i \in Videos(Items(c)) : Items(c)[i].time <= t => x >= i
             /\ x = 0 /\ dir = "Prev" => \A i \in Videos(Items(c)) : ~(Items(c)[i].time <= t)
<1> DEFINE S == {i \in Videos(Items(c)) : IF dir = "Next" THEN Items(c)[i].time >= t
                                                          ELSE Items(c)[i].time <= t}
<1>1. PICK x : x = SeekToTime(c, t, dir)  OBVIOUS
<1>2. x = First(S, dir, 0)  BY <1>1 DEF SeekToTime
<1>3. /\ Items(c) \in Seq(Item) /\ Len(Items(c)) \in Nat
      /\ \A i \in 1..Len(Items(c)) : Items(c)[i].time \in Nat
  BY ItemsType
<1>4. Videos(Items(c)) \subseteq 1..Len(Items(c)) /\ Videos(Items(c)) \subseteq Nat  BY <1>3, VideosType
<1>5. S \subseteq Videos(Items(c)) /\ S \subseteq Nat /\ \A i \in S : i <= Len(Items(c))
  BY <1>3, <1>4
<1>6. 0 \notin S  BY <1>3, <1>4
<1>7. /\ dir = "Next" => \A i \in Videos(Items(c)) : Items(c)[i].time >= t <=> i \in S
      /\ dir = "Prev" => \A i \in Videos(Items(c)) : Items(c)[i].time <= t <=> i \in S
  OBVIOUS
<1> HIDE DEF S
<1>8. /\ S # {} => x \in S
      /\ S = {} => x = 0
      /\ S # {} /\ dir = "Next" => \A i \in S : x <= i
      /\ S # {} /\ dir = "Prev" => \A i \in S : x >= i
  BY <1>2, <1>3, <1>5, FirstIs
<1>9. x \in 0..Len(Items(c)) /\ x \in Nat /\ (x # 0 => x \in S)
  <2>1. CASE S = {}  BY <1>3, <1>8, <2>1
  <2>2. CASE S # {}
    <3>1. x \in S /\ x \in 1..Len(Items(c))  BY <1>4, <1>5, <1>8, <2>2
    <3> QED  BY <1>3, <3>1
  <2> QED  BY <2>1, <2>2
<1>10. x # 0 => x \in Videos(Items(c)) /\ Items(c)[x].time \in Nat
  BY <1>3, <1>4, <1>5, <1>9
<1>11. ASSUME x # 0, dir = "Next"
       PROVE  /\ Items(c)[x].time >= t
              /\ \A i \in Videos(Items(c)) : Items(c)[i].time >= t => i >= x
  <2>1. x \in S /\ \A i \in S : x <= i  BY <1>8, <1>9, <1>11
  <2>2. Items(c)[x].time >= t  BY <1>7, <1>10, <1>11, <2>1
  <2>3. ASSUME NEW i \in Videos(Items(c)), Items(c)[i].time >= t PROVE i >= x
    <3>1. i \in S  BY <1>7, <1>11, <2>3
    <3>2. x <= i /\ i \in Nat  BY <1>4, <2>1, <3>1
    <3> QED  BY <1>9, <3>2
  <2> QED  BY <2>2, <2>3
<1>12. ASSUME x = 0, dir = "Next"
       PROVE  \A i \in Videos(Items(c)) : ~(Items(c)[i].time >= t)
  <2>1. S = {}  BY <1>6, <1>8, <1>12
  <2> QED  BY <1>7, <1>12, <2>1
<1>13. ASSUME x # 0, dir = "Prev"
       PROVE  /\ Items(c)[x].time <= t
              /\ \A i \in Videos(Items(c)) : Items(c)[i].time <= t => x >= i
  <2>1. x \in S /\ \A i \in S : x >= i  BY <1>8, <1>9, <1>13
  <2>2. Items(c)[x].time <= t  BY <1>7, <1>10, <1>13, <2>1
  <2> QED  BY <1>7, <1>13, <2>1, <2>2
<1>14. ASSUME x = 0, dir = "Prev"
       PROVE  \A i \in Videos(Items(c)) : ~(Items(c)[i].time <= t)
  <2>1. S = {}  BY <1>6, <1>8, <1>14
  <2> QED  BY <1>7, <1>14, <2>1
<1> QED  BY <1>1, <1>9, <1>10, <1>11, <1>12, <1>13, <1>14

\* What LoadDataByIndex makes of the object: entry i, chunk c, and item x of it or the first.
LoadHit(r, t, dir, start, q, i, c, x) ==
  /\ c = r.headers[i + 1].chunk /\ Readable(r.file, i + 1, r.headers[i + 1])
  /\ x = SeekToTime(c, t, dir) /\ x # 0 /\ x \in Videos(Items(c))
  /\ Items(c)[x].time \in Nat
  /\ q = Placed(r, i, c, x - 1, Items(c)[x].time)
  /\ dir = "Next" =>
       /\ 0 <= start /\ start <= i
       /\ \A j \in start..(i - 1) :
            Readable(r.file, j + 1, r.headers[j + 1]) =>
              SeekToTime(r.headers[j + 1].chunk, t, dir) = 0
  /\ dir = "Prev" =>
       \A j \in 0..start : Readable(r.file, j + 1, r.headers[j + 1])
                            /\ SeekToTime(r.headers[j + 1].chunk, t, dir) # 0 => j <= i

LoadMiss(r, t, dir, start, q, i, c, next) ==
  /\ q = Placed(r, i, c, next, r.position)
  /\ \/ /\ c = r.datas /\ next = r.next
        /\ dir = "Next" /\ start >= 0 =>
             \A j \in start..(Len(r.headers) - 1) : ~Readable(r.file, j + 1, r.headers[j + 1])
     \/ /\ next = 0
        /\ \E k \in 0..(Len(r.headers) - 1) :
             /\ c = r.headers[k + 1].chunk /\ Readable(r.file, k + 1, r.headers[k + 1])
             /\ start >= 0 /\ (dir = "Next" => k >= start)
  /\ dir = "Next" =>
       /\ i = IF start < 0 THEN -1 ELSE Len(r.headers) - 1
       /\ start >= 0 => \A j \in start..(Len(r.headers) - 1) :
            Readable(r.file, j + 1, r.headers[j + 1]) =>
              SeekToTime(r.headers[j + 1].chunk, t, dir) = 0
  /\ dir = "Prev" =>
       \A j \in 0..start : Readable(r.file, j + 1, r.headers[j + 1]) =>
         SeekToTime(r.headers[j + 1].chunk, t, dir) = 0

\* LoadDataByIndex: the first entry tried that can be read and has a frame for the time;
\* without one, the index position goes to the last entry tried, and the chunk that was
\* read last stays.
LEMMA LoadIs ==
  ASSUME NEW n \in Nat, NEW r, ReaderOK(r, n), NEW t \in Int, NEW dir \in {"Next", "Prev"},
         NEW L, L = LoadDataByIndex(r, t, dir),
         NEW start, start = SetIndexPosition(r.headers, t, dir)
  PROVE  /\ start \in -1..(Len(r.headers) - 1) /\ L.ok \in BOOLEAN
         /\ L.ok =>
              \E i \in 0..(Len(r.headers) - 1), c \in Chunks, x \in Nat :
                LoadHit(r, t, dir, start, L.r, i, c, x)
         /\ ~L.ok =>
              \E i \in -1..(Len(r.headers) - 1), c \in Chunks \cup {0}, next \in Nat :
                LoadMiss(r, t, dir, start, L.r, i, c, next)
<1> DEFINE Found(i) == SeekToTime(r.headers[i + 1].chunk, t, dir)
           tried == Tried(Len(r.headers) - 1, start, dir)
           loaded == {i \in tried : Readable(r.file, i + 1, r.headers[i + 1])}
           good == {i \in loaded : Found(i) # 0}
           hit == First(good, dir, -1)
<1>1. r.headers \in Seq(EntryType) /\ Len(r.headers) \in Nat /\ r \in ReaderType
  BY DEF ReaderOK, ReaderType
<1>2. start \in -1..(Len(r.headers) - 1)  BY <1>1, PositionOK
<1>3. PICK last : last = Len(r.headers) - 1  OBVIOUS
<1>4. /\ tried \subseteq 0..last /\ tried \subseteq Nat
      /\ tried = IF start < 0 THEN {} ELSE IF dir = "Next" THEN start..last ELSE 0..start
  <2>1. tried = IF start < 0 THEN {} ELSE IF dir = "Next" THEN start..last ELSE 0..start
    BY <1>3 DEF Tried
  <2> HIDE DEF tried
  <2> QED  BY <1>1, <1>2, <1>3, <2>1
<1>5. L = IF hit >= 0 THEN [ok |-> TRUE, r |-> Loaded(r, Found(hit), hit)]
                      ELSE [ok |-> FALSE, r |-> NotLoaded(r, tried, loaded, dir)]
  BY DEF LoadDataByIndex
<1>6. loaded \subseteq tried /\ good \subseteq loaded  OBVIOUS
<1>7. \A i \in loaded : Readable(r.file, i + 1, r.headers[i + 1])  OBVIOUS
<1>8. \A i \in tried : Readable(r.file, i + 1, r.headers[i + 1]) => i \in loaded  OBVIOUS
<1>9. (\A i \in good : Found(i) # 0) /\ \A i \in loaded \ good : Found(i) = 0  OBVIOUS
<1> HIDE DEF tried, loaded, good
<1>10. \A i \in 0..last : i + 1 \in 1..Len(r.headers) /\ r.headers[i + 1].chunk \in Chunks
  <2> TAKE i \in 0..last
  <2>1. i + 1 \in 1..Len(r.headers)  BY <1>1, <1>3
  <2>2. r.headers[i + 1] \in EntryType  BY <1>1, <2>1
  <2> QED  BY <2>1, <2>2 DEF EntryType
<1>11. /\ good # {} => hit \in good
       /\ good = {} => hit = -1
       /\ good # {} /\ dir = "Next" => \A i \in good : hit <= i
       /\ good # {} /\ dir = "Prev" => \A i \in good : hit >= i
  <2>1. good \subseteq Nat /\ \A i \in good : i <= last  BY <1>1, <1>3, <1>4, <1>6
  <2>2. good # {} => last \in Nat
    <3>1. tried # {} => last \in Nat
      <4>1. last \in Int /\ last >= -1  BY <1>1, <1>3
      <4> QED  BY <1>4, <4>1
    <3> QED  BY <1>6, <3>1
  <2>3. CASE good = {}  BY <2>3 DEF First
  <2>4. CASE good # {}  BY <2>1, <2>2, <2>4, FirstIs
  <2> QED  BY <2>3, <2>4
<1>12. PICK h : h = hit  OBVIOUS
<1>13. (h >= 0) <=> good # {}
  <2>1. good # {} => h \in Nat  BY <1>4, <1>6, <1>11, <1>12
  <2>2. good = {} => h = -1  BY <1>11, <1>12
  <2> QED  BY <2>1, <2>2
<1> HIDE DEF hit
<1>14. L.ok \in BOOLEAN /\ (L.ok <=> good # {})  BY <1>5, <1>12, <1>13
<1>15. ASSUME L.ok
       PROVE  \E i \in 0..(Len(r.headers) - 1), c \in Chunks, x \in Nat :
                LoadHit(r, t, dir, start, L.r, i, c, x)
  <2>1. h \in good /\ h \in loaded /\ h \in tried /\ h \in 0..last
    BY <1>4, <1>6, <1>11, <1>12, <1>14, <1>15
  <2>2. PICK c : c = r.headers[h + 1].chunk  OBVIOUS
  <2>3. PICK x : x = SeekToTime(c, t, dir)  OBVIOUS
  <2>4. c \in Chunks /\ x = Found(h) /\ x # 0  BY <1>9, <1>10, <2>1, <2>2, <2>3
  <2>5. x \in Nat /\ x \in Videos(Items(c)) /\ Items(c)[x].time \in Nat
    <3>1. c \in Chunks /\ x # 0  BY <2>4
    <3> QED  BY ONLY t \in Int, <2>3, <3>1, SeekToTimeIs
  <2>6. L.r = Placed(r, h, c, x - 1, Items(c)[x].time)
    BY <1>5, <1>12, <1>13, <1>14, <1>15, <2>2, <2>4 DEF Loaded, Placed
  <2>7. ASSUME dir = "Next"
        PROVE  /\ 0 <= start /\ start <= h
               /\ \A j \in start..(h - 1) :
                    Readable(r.file, j + 1, r.headers[j + 1]) =>
                      SeekToTime(r.headers[j + 1].chunk, t, dir) = 0
    <3>1. ~(start < 0) /\ tried = start..last  BY <1>4, <2>1, <2>7
    <3>2. 0 <= start /\ start <= h  BY <1>2, <2>1, <3>1
    <3>3. ASSUME NEW j \in start..(h - 1), Readable(r.file, j + 1, r.headers[j + 1])
          PROVE  SeekToTime(r.headers[j + 1].chunk, t, dir) = 0
      <4>0. start \in Int /\ h \in Int /\ last \in Int /\ h <= last /\ j \in start..(h - 1)
        BY <1>1, <1>2, <1>3, <2>1
      <4>1. j \in tried /\ ~(h <= j)
        <5>1. j \in start..last /\ ~(h <= j)  BY ONLY <4>0
        <5> QED  BY <3>1, <5>1
      <4>2. j \in loaded  BY <1>8, <3>3, <4>1
      <4>3. j \notin good  BY <1>11, <1>12, <2>7, <4>1
      <4> QED  BY <1>9, <4>2, <4>3
    <3> QED  BY <3>2, <3>3
  <2>8. Readable(r.file, h + 1, r.headers[h + 1])  BY <1>7, <2>1
  <2>11. ASSUME dir = "Prev", NEW j \in 0..start, Readable(r.file, j + 1, r.headers[j + 1]),
                SeekToTime(r.headers[j + 1].chunk, t, dir) # 0
         PROVE  j <= h
    <3>1. j \in tried /\ j \in Nat /\ h \in Nat  BY <1>2, <1>4, <2>1, <2>11
    <3>2. j \in loaded  BY <1>8, <2>11, <3>1
    <3>3. j \in good  BY <1>9, <2>11, <3>2
    <3>4. h >= j  BY <1>11, <1>12, <2>11, <3>3
    <3> QED  BY <3>1, <3>4
  <2>9. PICK q : q = L.r  OBVIOUS
  <2>10. LoadHit(r, t, dir, start, q, h, c, x)
    BY <1>3, <2>1, <2>2, <2>3, <2>4, <2>5, <2>6, <2>7, <2>8, <2>9, <2>11 DEF LoadHit
  <2> QED  BY <1>3, <2>1, <2>4, <2>5, <2>9, <2>10
<1>16. ASSUME ~L.ok
       PROVE  \E i \in -1..(Len(r.headers) - 1), c \in Chunks \cup {0}, next \in Nat :
                LoadMiss(r, t, dir, start, L.r, i, c, next)
  <2> DEFINE back == IF dir = "Next" THEN "Prev" ELSE "Next"
  <2>1. good = {} /\ L.r = NotLoaded(r, tried, loaded, dir)  BY <1>5, <1>12, <1>13, <1>14, <1>16
  <2>2. PICK i : i = First(tried, back, -1)  OBVIOUS
  <2>3. /\ tried = {} => i = -1
        /\ tried # {} => i \in tried
        /\ tried # {} /\ dir = "Next" => \A j \in tried : i >= j
    <3>1. \A j \in tried : j <= last  BY <1>1, <1>3, <1>4
    <3>2. tried # {} => last \in Nat  BY <1>1, <1>3, <1>4
    <3>3. CASE tried = {}  BY <2>2, <3>3 DEF First
    <3>4. CASE tried # {}  BY <1>4, <2>2, <3>1, <3>2, <3>4, FirstIs
    <3> QED  BY <3>3, <3>4
  <2>4. i \in -1..last  BY <1>1, <1>2, <1>3, <1>4, <2>3
  <2>5. dir = "Next" => i = IF start < 0 THEN -1 ELSE Len(r.headers) - 1
    <3>1. CASE start < 0  BY <1>4, <2>3, <3>1
    <3>2. CASE ~(start < 0) /\ dir = "Next"
      <4>1. tried = start..last /\ last \in tried  BY <1>1, <1>2, <1>3, <1>4, <3>2
      <4>2. i \in start..last /\ i >= last  BY <2>3, <3>2, <4>1
      <4> QED  BY <1>1, <1>2, <1>3, <3>2, <4>2
    <3> QED  BY <3>1, <3>2
  <2>6. PICK k : k = First(loaded, back, 0)  OBVIOUS
  <2>7. loaded # {} => k \in loaded /\ k \in 0..last /\ k \in tried
    <3>1. loaded \subseteq Nat /\ \A j \in loaded : j <= last  BY <1>1, <1>3, <1>4, <1>6
    <3>2. loaded # {} => last \in Nat
      <4>1. last \in Int /\ last >= -1  BY <1>1, <1>3
      <4>2. tried # {} => last \in Nat  BY <1>4, <4>1
      <4> QED  BY <1>6, <4>2
    <3> QED  BY <1>4, <1>6, <2>6, <3>1, <3>2, FirstIs
  <2>8. PICK c : c = IF loaded = {} THEN r.datas ELSE r.headers[k + 1].chunk  OBVIOUS
  <2>9. PICK next : next = IF loaded = {} THEN r.next ELSE 0  OBVIOUS
  <2>10. L.r = Placed(r, i, c, next, r.position)
    <3>1. L.r = [r EXCEPT !.data_index = i, !.datas = c, !.next = next]
      BY <2>1, <2>2, <2>6, <2>8, <2>9 DEF NotLoaded
    <3>2. i \in Int  BY <1>1, <1>3, <2>4
    <3> QED  BY <1>1, <3>1, <3>2 DEF Placed, ReaderType
  <2>11. c \in Chunks \cup {0} /\ next \in Nat
    BY <1>1, <1>10, <2>7, <2>8, <2>9 DEF ReaderType
  <2>12. \/ /\ c = r.datas /\ next = r.next
            /\ dir = "Next" /\ start >= 0 =>
                 \A j \in start..(Len(r.headers) - 1) : ~Readable(r.file, j + 1, r.headers[j + 1])
         \/ /\ next = 0
            /\ \E m \in 0..(Len(r.headers) - 1) :
                 /\ c = r.headers[m + 1].chunk /\ Readable(r.file, m + 1, r.headers[m + 1])
                 /\ start >= 0 /\ (dir = "Next" => m >= start)
    <3>1. CASE loaded = {}
      <4>1. ASSUME dir = "Next", start >= 0, NEW j \in start..(Len(r.headers) - 1)
            PROVE  ~Readable(r.file, j + 1, r.headers[j + 1])
        <5>1. j \in tried  BY <1>1, <1>2, <1>3, <1>4, <4>1
        <5> QED  BY <1>8, <3>1, <5>1
      <4> QED  BY <2>8, <2>9, <3>1, <4>1
    <3>2. CASE loaded # {}
      <4>1. start >= 0 /\ (dir = "Next" => k >= start)  BY <1>1, <1>2, <1>3, <1>4, <2>7, <3>2
      <4>2. Readable(r.file, k + 1, r.headers[k + 1])  BY <1>7, <2>7, <3>2
      <4> QED  BY <1>3, <2>7, <2>8, <2>9, <3>2, <4>1, <4>2
    <3> QED  BY <3>1, <3>2
  <2>13. ASSUME dir = "Next", start >= 0, NEW j \in start..(Len(r.headers) - 1),
                Readable(r.file, j + 1, r.headers[j + 1])
         PROVE  SeekToTime(r.headers[j + 1].chunk, t, dir) = 0
    <3>1. j \in tried  BY <1>1, <1>2, <1>3, <1>4, <2>13
    <3>2. j \in loaded  BY <1>8, <2>13, <3>1
    <3> QED  BY <1>9, <2>1, <3>2
  <2>14. PICK q : q = L.r  OBVIOUS
  <2>15. LoadMiss(r, t, dir, start, q, i, c, next)
    <3>1. q = Placed(r, i, c, next, r.position)  BY <2>10, <2>14
    <3>2. dir = "Next" /\ start >= 0 => \A j \in start..(Len(r.headers) - 1) :
            Readable(r.file, j + 1, r.headers[j + 1]) => SeekToTime(r.headers[j + 1].chunk, t, dir) = 0
      BY <2>13
    <3>3. ASSUME dir = "Prev", NEW j \in 0..start, Readable(r.file, j + 1, r.headers[j + 1])
          PROVE  SeekToTime(r.headers[j + 1].chunk, t, dir) = 0
      <4>1. j \in tried  BY <1>2, <1>4, <3>3
      <4>2. j \in loaded  BY <1>8, <3>3, <4>1
      <4> QED  BY <1>9, <2>1, <4>2
    <3> QED  BY <2>5, <2>12, <3>1, <3>2, <3>3 DEF LoadMiss
  <2> QED  BY <1>3, <2>4, <2>11, <2>14, <2>15
<1> QED  BY <1>2, <1>14, <1>15, <1>16

\* NextVideo: up to the item before the next video frame.
LEMMA NextVideoIs ==
  ASSUME NEW items \in Seq(Item), NEW next \in 0..Len(items)
  PROVE  LET upto == NextVideo(items, next)
         IN  /\ upto \in next..Len(items) /\ upto \in Nat
             /\ upto < Len(items) => upto + 1 \in Videos(items)
             /\ \A i \in Videos(items) : i > next => i > upto
<1>0. Len(items) \in Nat /\ next \in Nat  OBVIOUS
<1>1. Videos(items) \subseteq 1..Len(items) /\ Videos(items) \subseteq Nat  BY VideosType
<1>2. PICK V : V = Videos(items)  OBVIOUS
<1>3. PICK rest : rest = {i \in V : i > next}  OBVIOUS
<1>4. PICK upto : upto = NextVideo(items, next)  OBVIOUS
<1>5. upto = IF rest = {} THEN Len(items) ELSE Least(rest) - 1  BY <1>2, <1>3, <1>4 DEF NextVideo
<1>6. CASE rest = {}
  <2>1. upto = Len(items) /\ \A i \in V : ~(i > next)  BY <1>3, <1>5, <1>6
  <2> QED  BY <1>0, <1>2, <1>4, <2>1
<1>7. CASE rest # {}
  <2>1. rest \subseteq Nat  BY <1>1, <1>2, <1>3
  <2>2. PICK l : l = Least(rest)  OBVIOUS
  <2>3. l \in rest /\ \A i \in rest : l <= i  BY <1>7, <2>1, <2>2, LeastIs
  <2>4. l \in V /\ l > next /\ l \in Nat /\ l <= Len(items) /\ upto = l - 1
    BY <1>0, <1>1, <1>2, <1>3, <1>5, <1>7, <2>2, <2>3
  <2>5. upto \in next..Len(items) /\ upto \in Nat /\ upto + 1 = l  BY <1>0, <2>4
  <2>6. ASSUME NEW i \in V, i > next PROVE i > upto
    <3>1. l <= i /\ i \in Nat  BY <1>1, <1>2, <1>3, <2>3, <2>6
    <3> QED  BY <2>4, <3>1
  <2> QED  BY <1>2, <1>4, <2>4, <2>5, <2>6
<1> QED  BY <1>6, <1>7

\* The items handed out have their types.
LEMMA PartType ==
  ASSUME NEW items \in Seq(Item), NEW a \in 1..Len(items), NEW b \in a..Len(items)
  PROVE  /\ SubSeq(items, a, b) \in Seq(Item) /\ SubSeq(items, a, b) # <<>>
         /\ Len(SubSeq(items, a, b)) = b - a + 1
         /\ \A i \in 1..(b - a + 1) : SubSeq(items, a, b)[i] = items[a + i - 1]
<1>1. PICK n : n = Len(items)  OBVIOUS
<1>2. n \in Nat /\ a \in 1..n /\ b \in a..n  BY <1>1
<1>3. \A i \in a..b : items[i] \in Item  BY <1>1, <1>2
<1>4. PICK s : s = SubSeq(items, a, b)  OBVIOUS
<1>5. s \in Seq(Item) /\ Len(s) = b - a + 1 /\ \A i \in 1..(b - a + 1) : s[i] = items[a + i - 1]
  <2>1. a \in Nat /\ b \in Nat /\ a >= 1 /\ b >= a /\ b <= n  BY <1>2
  <2>2. Len(s) = b - a + 1 /\ \A i \in 1..(b - a + 1) : s[i] = items[a + i - 1]
    BY <1>1, <1>4, <2>1, SubSeqProperties
  <2>3. s \in Seq(Item)  BY <1>1, <1>3, <1>4, <2>1, SubSeqProperties
  <2> QED  BY <2>2, <2>3
<1>6. s # <<>>  BY <1>2, <1>5
<1> QED  BY <1>4, <1>5, <1>6

\* GetForwardData: one video frame and what follows it.
HandsOn(r, items, G) ==
  \E upto \in (r.next + 1)..Len(items), p \in Nat :
    /\ G.got = SubSeq(items, r.next + 1, upto) /\ G.got # <<>> /\ G.got \in Seq(Item)
    /\ G.r = Placed(r, r.data_index, r.datas, upto, p)
    /\ upto = NextVideo(items, r.next + 1)
    /\ p = IF IsVideo(items[r.next + 1]) THEN items[r.next + 1].time ELSE r.position

LEMMA ForwardIs ==
  ASSUME NEW n \in Nat, NEW r, ReaderOK(r, n), NEW items, items = Items(r.datas),
         NEW G, G = GetForwardData(r)
  PROVE  /\ items \in Seq(Item) /\ r.next \in 0..Len(items)
         /\ r.next = Len(items) => G.got = <<>> /\ G.r = r
         /\ r.next # Len(items) => HandsOn(r, items, G)
<1>1. r.datas \in Chunks \cup {0} /\ r.next \in Nat /\ r.position \in Nat /\ r \in ReaderType
  BY DEF ReaderOK, ReaderType
<1>2. items \in Seq(Item) /\ \A i \in 1..Len(items) : items[i].time \in Nat  BY <1>1, ItemsType
<1>3. r.next \in 0..Len(items)
  <2>1. r.next <= Len(items) /\ Len(items) \in Nat  BY <1>2 DEF ReaderOK
  <2> QED  BY <1>1, <2>1
<1>4. CASE r.next = Len(items)
  BY <1>1, <1>2, <1>3, <1>4 DEF GetForwardData
<1>5. CASE r.next # Len(items)
  <2>1. r.next + 1 \in 1..Len(items) /\ ~(r.next >= Len(items)) /\ Len(items) \in Nat  BY <1>2, <1>3, <1>5
  <2>2. PICK upto : upto = NextVideo(items, r.next + 1)  OBVIOUS
  <2>3. upto \in (r.next + 1)..Len(items)
    <3>1. r.next + 1 \in 0..Len(items)  BY <2>1
    <3> QED  BY <1>2, <2>2, <3>1, NextVideoIs
  <2>4. PICK got : got = SubSeq(items, r.next + 1, upto)  OBVIOUS
  <2>5. got # <<>> /\ got \in Seq(Item) /\ got[1] = items[r.next + 1]
    <3>1. 1 \in 1..(upto - (r.next + 1) + 1) /\ r.next + 1 + 1 - 1 = r.next + 1  BY <1>1, <2>1, <2>3
    <3> QED  BY <1>2, <2>1, <2>3, <2>4, <3>1, PartType
  <2>6. PICK p : p = IF IsVideo(items[r.next + 1]) THEN items[r.next + 1].time ELSE r.position  OBVIOUS
  <2>7. p \in Nat  BY <1>1, <1>2, <2>1, <2>6
  <2>8. G = [got |-> got, r |-> [r EXCEPT !.next = upto,
                                          !.position = IF IsVideo(got[1]) THEN got[1].time ELSE @]]
    BY <2>1, <2>2, <2>4 DEF GetForwardData
  <2>9. G.r = [r EXCEPT !.next = upto, !.position = p]  BY <1>1, <2>5, <2>6, <2>8 DEF ReaderType
  <2>10. G.r = Placed(r, r.data_index, r.datas, upto, p)
    BY <1>1, <2>9 DEF Placed, ReaderType
  <2>11. G.got = got  BY <2>8
  <2>12. /\ G.got = SubSeq(items, r.next + 1, upto) /\ G.got # <<>> /\ G.got \in Seq(Item)
         /\ G.r = Placed(r, r.data_index, r.datas, upto, p)
         /\ upto = NextVideo(items, r.next + 1)
         /\ p = IF IsVideo(items[r.next + 1]) THEN items[r.next + 1].time ELSE r.position
    BY <2>2, <2>4, <2>5, <2>6, <2>10, <2>11
  <2>13. HandsOn(r, items, G)
    <3> SUFFICES \E u \in (r.next + 1)..Len(items), s \in Nat :
                    /\ G.got = SubSeq(items, r.next + 1, u) /\ G.got # <<>> /\ G.got \in Seq(Item)
                    /\ G.r = Placed(r, r.data_index, r.datas, u, s)
                    /\ u = NextVideo(items, r.next + 1)
                    /\ s = IF IsVideo(items[r.next + 1]) THEN items[r.next + 1].time ELSE r.position
      BY DEF HandsOn
    <3> WITNESS upto \in (r.next + 1)..Len(items)
    <3> WITNESS p \in Nat
    <3> QED  BY ONLY <2>12
  <2> QED  BY <1>2, <1>3, <1>5, <2>13
<1> QED  BY <1>2, <1>3, <1>4, <1>5

\* GetNextData: from the chunk loaded, or from the one of the next entry.
MovesOn(r, G) ==
  LET i == r.data_index + 2
      c == r.headers[i].chunk
  IN  /\ i \in 1..Len(r.headers) /\ r.headers[i] \in EntryType /\ c \in Chunks /\ r.file # 0
      /\ ~Readable(r.file, i, r.headers[i]) =>
           G.got = <<>> /\ G.r = Placed(r, i - 1, r.datas, r.next, r.position)
      /\ Readable(r.file, i, r.headers[i]) =>
           G = GetForwardData(Placed(r, i - 1, c, 0, r.position))

LEMMA NextDataIs ==
  ASSUME NEW n \in Nat, NEW r, ReaderOK(r, n), NEW items, items = Items(r.datas),
         NEW G, G = GetNextData(r)
  PROVE  /\ r.next # Len(items) => G = GetForwardData(r)
         /\ r.next = Len(items) /\ Len(r.headers) < r.data_index + 2 => G.got = <<>> /\ G.r = r
         /\ r.next = Len(items) /\ r.data_index + 2 <= Len(r.headers) => MovesOn(r, G)
<1>1. r \in ReaderType /\ r.headers \in Seq(EntryType) /\ Len(r.headers) \in Nat /\ r.data_index \in Int
  BY DEF ReaderOK, ReaderType
<1>2. r.next \in 0..Len(items)  BY ForwardIs
<1>3. ASSUME r.next # Len(items) PROVE G = GetForwardData(r)
  <2>1. HandsOn(r, items, GetForwardData(r))  BY <1>3, ForwardIs
  <2>2. GetForwardData(r).got # <<>>  BY <2>1 DEF HandsOn
  <2> QED  BY <2>2 DEF GetNextData
<1>4. ASSUME r.next = Len(items), Len(r.headers) < r.data_index + 2 PROVE G.got = <<>> /\ G.r = r
  <2>1. GetForwardData(r).got = <<>>  BY <1>4, ForwardIs
  <2> QED  BY <1>4, <2>1 DEF GetNextData
<1>5. ASSUME r.next = Len(items), r.data_index + 2 <= Len(r.headers)
      PROVE  MovesOn(r, G)
  <2>1. GetForwardData(r).got = <<>>  BY <1>5, ForwardIs
  <2>2. PICK i : i = r.data_index + 2  OBVIOUS
  <2>3. i \in 1..Len(r.headers)  BY <1>1, <1>5, <2>2 DEF ReaderOK
  <2>4. r.headers[i] \in EntryType  BY <1>1, <2>3
  <2>5. PICK c : c = r.headers[i].chunk  OBVIOUS
  <2>6. c \in Chunks  BY <2>4, <2>5 DEF EntryType
  <2>7. r.file # 0
    <3>1. r.headers # <<>>  BY <1>1, <2>3
    <3> QED  BY <3>1 DEF ReaderOK
  <2>8. PICK a : a = [r EXCEPT !.data_index = @ + 1]  OBVIOUS
  <2>9. ~(Len(r.headers) < i)  BY <1>1, <2>3
  <2>10. G = IF ~Readable(r.file, i, r.headers[i]) THEN [got |-> <<>>, r |-> a]
             ELSE GetForwardData([a EXCEPT !.datas = r.headers[i].chunk, !.next = 0])
    BY <2>1, <2>2, <2>8, <2>9 DEF GetNextData
  <2>11. i - 1 = r.data_index + 1 /\ i - 1 \in Int  BY <1>1, <2>2
  <2>12. a = Placed(r, i - 1, r.datas, r.next, r.position)
    BY <1>1, <2>8, <2>11 DEF Placed, ReaderType
  <2>13. [a EXCEPT !.datas = r.headers[i].chunk, !.next = 0] = Placed(r, i - 1, c, 0, r.position)
    BY <1>1, <2>5, <2>8, <2>11 DEF Placed, ReaderType
  <2> QED  BY <2>2, <2>3, <2>4, <2>5, <2>6, <2>7, <2>10, <2>12, <2>13 DEF MovesOn
<1> QED  BY <1>3, <1>4, <1>5

\* It keeps the object's form, and hands out items.
LEMMA NextDataOK ==
  ASSUME NEW n \in Nat, NEW r, ReaderOK(r, n), NEW G, G = GetNextData(r)
  PROVE  /\ ReaderOK(G.r, n) /\ G.got \in Seq(Item)
         /\ G.r.file = r.file /\ G.r.file_list = r.file_list
         /\ G.r.opened = r.opened /\ G.r.size = r.size /\ G.r.headers = r.headers
         /\ G.r.data_index # r.data_index => G.r.data_index = r.data_index + 1
<1>0. /\ r.datas \in Chunks \cup {0} /\ r.position \in Nat /\ r.next \in Nat /\ Len(r.headers) \in Nat
      /\ r.data_index \in -1..(Len(r.headers) - 1) /\ r.next <= Len(Items(r.datas))
      /\ r.data_index \in Int /\ (r.file = 0 => r.datas = 0)
  BY DEF ReaderOK, ReaderType
<1>7. <<>> \in Seq(Item)  OBVIOUS
<1>1. ASSUME NEW q, ReaderOK(q, n), NEW H, H = GetForwardData(q)
      PROVE  /\ ReaderOK(H.r, n) /\ H.got \in Seq(Item)
             /\ H.r.file = q.file /\ H.r.file_list = q.file_list
             /\ H.r.opened = q.opened /\ H.r.size = q.size /\ H.r.headers = q.headers
             /\ H.r.data_index = q.data_index
  <2>1. PICK items : items = Items(q.datas)  OBVIOUS
  <2>2. CASE q.next = Len(items)
    <3>1. H.got = <<>> /\ H.r = q  BY <1>1, <2>1, <2>2, ForwardIs
    <3> QED  BY <1>1, <1>7, <3>1
  <2>3. CASE q.next # Len(items)
    <3>1. PICK upto \in (q.next + 1)..Len(items), p \in Nat :
            H.r = Placed(q, q.data_index, q.datas, upto, p) /\ H.got \in Seq(Item)
      <4>1. HandsOn(q, items, H)  BY <1>1, <2>1, <2>3, ForwardIs
      <4> QED  BY ONLY <4>1 DEF HandsOn
    <3>2. q.datas \in Chunks \cup {0} /\ q.next \in Nat /\ (q.file # 0 \/ q.datas = 0)
          /\ q.data_index \in -1..(Len(q.headers) - 1)
      BY <1>1 DEF ReaderOK, ReaderType
    <3>3. items \in Seq(Item) /\ Len(items) \in Nat  BY <2>1, <3>2, ItemsType
    <3>4. upto \in Nat /\ upto <= Len(items)  BY <3>2, <3>3
    <3>5. PICK k : k = q.data_index  OBVIOUS
    <3>6. PICK c : c = q.datas  OBVIOUS
    <3>7. H.r = Placed(q, k, c, upto, p) /\ k \in -1..(Len(q.headers) - 1) /\ c \in Chunks \cup {0}
          /\ upto <= Len(Items(c)) /\ (q.file # 0 \/ c = 0)
      BY <2>1, <3>1, <3>2, <3>4, <3>5, <3>6
    <3>8. /\ ReaderOK(H.r, n) /\ H.r.file = q.file /\ H.r.headers = q.headers
          /\ H.r.data_index = k /\ H.r.file_list = q.file_list /\ H.r.opened = q.opened /\ H.r.size = q.size
      <4>1. Fits(q, k, c, upto, p)  BY <3>4, <3>7 DEF Fits
      <4>2. SetTo(H.r, q, n, k)  BY <1>1, <3>7, <4>1, PlacedFits
      <4> QED  BY <4>2 DEF SetTo
    <3> QED  BY <3>1, <3>5, <3>8
  <2> QED  BY <2>2, <2>3
<1>2. PICK items : items = Items(r.datas)  OBVIOUS
<1>3. CASE r.next # Len(items)
  <2>1. G = GetForwardData(r)  BY <1>2, <1>3, NextDataIs
  <2> QED  BY <1>1, <2>1
<1>4. CASE r.next = Len(items) /\ Len(r.headers) < r.data_index + 2
  <2>1. G.got = <<>> /\ G.r = r  BY <1>2, <1>4, NextDataIs
  <2> QED  BY <1>7, <2>1
<1>5. CASE r.next = Len(items) /\ r.data_index + 2 <= Len(r.headers)
  <2>1. PICK i : i = r.data_index + 2  OBVIOUS
  <2>2. PICK c : c = r.headers[i].chunk  OBVIOUS
  <2>3. /\ c \in Chunks /\ r.file # 0
        /\ ~Readable(r.file, i, r.headers[i]) =>
             G.got = <<>> /\ G.r = Placed(r, i - 1, r.datas, r.next, r.position)
        /\ Readable(r.file, i, r.headers[i]) =>
             G = GetForwardData(Placed(r, i - 1, c, 0, r.position))
    <3>1. MovesOn(r, G)  BY <1>2, <1>5, NextDataIs
    <3> QED  BY ONLY <2>1, <2>2, <3>1 DEF MovesOn
  <2>4. i - 1 \in -1..(Len(r.headers) - 1) /\ i - 1 = r.data_index + 1
    <3>1. PICK m, k : m = Len(r.headers) /\ k = r.data_index  OBVIOUS
    <3>2. m \in Nat /\ k \in -1..(m - 1) /\ k + 2 <= m /\ i = k + 2  BY <1>0, <1>5, <2>1, <3>1
    <3>3. i - 1 \in -1..(m - 1) /\ i - 1 = k + 1  BY ONLY <3>2
    <3> QED  BY <3>1, <3>3
  <2>5. CASE ~Readable(r.file, i, r.headers[i])
    <3>1. PICK k : k = i - 1  OBVIOUS
    <3>2. PICK d : d = r.datas  OBVIOUS
    <3>3. PICK x : x = r.next  OBVIOUS
    <3>4. PICK p : p = r.position  OBVIOUS
    <3>5. /\ k \in -1..(Len(r.headers) - 1) /\ d \in Chunks \cup {0} /\ x \in Nat /\ x <= Len(Items(d))
          /\ p \in Nat /\ (r.file # 0 \/ d = 0) /\ G.r = Placed(r, k, d, x, p)
      BY <1>0, <2>3, <2>4, <2>5, <3>1, <3>2, <3>3, <3>4
    <3>6. /\ ReaderOK(G.r, n) /\ G.r.file = r.file /\ G.r.headers = r.headers
          /\ G.r.data_index = k /\ G.r.file_list = r.file_list /\ G.r.opened = r.opened /\ G.r.size = r.size
      <4>1. Fits(r, k, d, x, p)  BY <3>5 DEF Fits
      <4>2. SetTo(G.r, r, n, k)  BY <3>5, <4>1, PlacedFits
      <4> QED  BY <4>2 DEF SetTo
    <3> QED  BY <1>7, <2>3, <2>4, <2>5, <3>1, <3>6
  <2>6. CASE Readable(r.file, i, r.headers[i])
    <3>1. PICK q : q = Placed(r, i - 1, c, 0, r.position)  OBVIOUS
    <3>2. 0 <= Len(Items(c)) /\ c \in Chunks \cup {0} /\ 0 \in Nat  BY <2>3, ItemsType
    <3>5. PICK k : k = i - 1  OBVIOUS
    <3>6. PICK p : p = r.position  OBVIOUS
    <3>7. q = Placed(r, k, c, 0, p) /\ p \in Nat /\ k \in -1..(Len(r.headers) - 1)
      BY <1>0, <2>4, <3>1, <3>5, <3>6
    <3>3. /\ ReaderOK(q, n) /\ q.file = r.file /\ q.headers = r.headers /\ q.data_index = i - 1
          /\ q.file_list = r.file_list /\ q.opened = r.opened /\ q.size = r.size
      <4>1. Fits(r, k, c, 0, p)  BY <2>3, <3>2, <3>7 DEF Fits
      <4>2. SetTo(q, r, n, k)  BY <3>7, <4>1, PlacedFits
      <4> QED  BY <3>5, <4>2 DEF SetTo
    <3>4. G = GetForwardData(q)  BY <2>3, <2>6, <3>1
    <3> QED  BY <1>1, <2>3, <2>4, <3>3, <3>4
  <2> QED  BY <2>5, <2>6
<1>6. \/ r.next # Len(items)
      \/ r.next = Len(items) /\ Len(r.headers) < r.data_index + 2
      \/ r.next = Len(items) /\ r.data_index + 2 <= Len(r.headers)
  BY <1>0
<1> QED  BY <1>3, <1>4, <1>5, <1>6

\* A set of positions in a chunk.
LEMMA InChunk ==
  ASSUME NEW items \in Seq(Item), NEW S, S \subseteq 1..Len(items), S # {}
  PROVE  /\ Least(S) \in S /\ Least(S) \in 1..Len(items) /\ \A i \in S : Least(S) <= i
         /\ Greatest(S) \in S /\ Greatest(S) \in 1..Len(items) /\ \A i \in S : Greatest(S) >= i
<1>1. S \subseteq Nat /\ Len(items) \in Nat /\ \A i \in S : i <= Len(items)  OBVIOUS
<1>2. Least(S) \in S /\ \A i \in S : Least(S) <= i  BY <1>1, LeastIs
<1>3. Greatest(S) \in S /\ \A i \in S : Greatest(S) >= i  BY <1>1, GreatestIs
<1> QED  BY <1>2, <1>3

\* What is handed out: the items from start to upto; the position is left at item p.
PartOf(r, items, G, start, upto, p) ==
  /\ start <= upto /\ upto <= p
  /\ G.got = SubSeq(items, start, upto)
  /\ G.r = Placed(r, r.data_index, r.datas, NextVideo(items, upto), items[p].time)

\* GetStreamChunk: the chunk loaded, from its first item.
LEMMA StreamChunkIs ==
  ASSUME NEW r \in ReaderType, NEW items, items = Items(r.datas), NEW target,
         NEW G, G = GetStreamChunk(r, target)
  PROVE  /\ items = <<>> => G.got = <<>> /\ G.r = r
         /\ items # <<>> =>
              \E upto \in 1..Len(items) : PartOf(r, items, G, 1, upto, upto)
<1>1. r.datas \in Chunks \cup {0} /\ r \in ReaderType  BY DEF ReaderType
<1>2. items \in Seq(Item) /\ Len(items) \in Nat  BY <1>1, ItemsType
<1>3. CASE items = <<>>  BY <1>3 DEF GetStreamChunk
<1>4. CASE items # <<>>
  <2>1. PICK hits : hits = {i \in 1..Len(items) : target /\ items[i].time >= r.position}  OBVIOUS
  <2>2. PICK upto : upto = IF hits = {} THEN Len(items) ELSE Least(hits)  OBVIOUS
  <2>3. upto \in 1..Len(items)
    <3>1. hits \subseteq 1..Len(items)  BY <2>1
    <3>2. hits # {} => Least(hits) \in 1..Len(items)  BY <1>2, <3>1, InChunk
    <3>3. Len(items) \in 1..Len(items)  BY <1>2, <1>4
    <3> QED  BY <2>2, <3>2, <3>3
  <2>4. G = [got |-> SubSeq(items, 1, upto),
             r |-> [r EXCEPT !.next = NextVideo(items, upto), !.position = items[upto].time]]
    BY <1>4, <2>1, <2>2 DEF GetStreamChunk
  <2>5. G.got = SubSeq(items, 1, upto)
        /\ G.r = Placed(r, r.data_index, r.datas, NextVideo(items, upto), items[upto].time)
    <3>1. PICK got : got = SubSeq(items, 1, upto)  OBVIOUS
    <3>2. PICK nv : nv = NextVideo(items, upto)  OBVIOUS
    <3>3. PICK q : q = items[upto].time  OBVIOUS
    <3>4. G = [got |-> got, r |-> [r EXCEPT !.next = nv, !.position = q]]
      BY <2>4, <3>1, <3>2, <3>3
    <3>5. G.got = got /\ G.r = Placed(r, r.data_index, r.datas, nv, q)
      BY ONLY <1>1, <3>4 DEF Placed, ReaderType
    <3> QED  BY <3>1, <3>2, <3>3, <3>5
  <2>6. PartOf(r, items, G, 1, upto, upto)
    <3>1. 1 <= upto /\ upto <= upto  BY <1>2, <2>3
    <3> QED  BY <2>5, <3>1 DEF PartOf
  <2> QED  BY <1>4, <2>3, <2>6
<1> QED  BY <1>3, <1>4

\* GetStreamGop: from an I frame, to the item looked for or the one before the next I frame.
LEMMA StreamGopIs ==
  ASSUME NEW r \in ReaderType, NEW items, items = Items(r.datas), NEW target,
         NEW G, G = GetStreamGop(r, target)
  PROVE  /\ items = <<>> => G.got = <<>> /\ G.r = r
         /\ items # <<>> =>
              \E start, upto, p \in 1..Len(items) :
                /\ PartOf(r, items, G, start, upto, p)
                /\ start = 1 \/ items[start].kind = "I"
                /\ p = upto \/ (p = upto + 1 /\ items[p].kind = "I")
<1>1. r.datas \in Chunks \cup {0} /\ r \in ReaderType  BY DEF ReaderType
<1>2. items \in Seq(Item) /\ Len(items) \in Nat  BY <1>1, ItemsType
<1>3. CASE items = <<>>  BY <1>3 DEF GetStreamGop
<1>4. CASE items # <<>>
  <2>1. PICK iframes : iframes = Restarts(items)  OBVIOUS
  <2>2. PICK hits : hits = {i \in 1..Len(items) : target /\ items[i].time >= r.position}  OBVIOUS
  <2>3. PICK cuts : cuts = {i \in iframes : items[i].time > r.position}  OBVIOUS
  <2>4. PICK iscut : iscut = (cuts # {} /\ \A i \in hits : Least(cuts) <= i)  OBVIOUS
  <2>5. PICK upto : upto = IF iscut THEN Least(cuts) - 1 ELSE IF hits = {} THEN Len(items) ELSE Least(hits)
    OBVIOUS
  <2>6. PICK starts : starts = {i \in iframes \ cuts : i <= upto}  OBVIOUS
  <2>7. PICK start : start = IF starts = {} THEN 1 ELSE Greatest(starts)  OBVIOUS
  <2>8. PICK p : p = IF iscut THEN upto + 1 ELSE upto  OBVIOUS
  <2>9. G = [got |-> SubSeq(items, start, upto),
             r |-> [r EXCEPT !.next = NextVideo(items, upto), !.position = items[p].time]]
    BY <1>4, <2>1, <2>2, <2>3, <2>4, <2>5, <2>6, <2>7, <2>8 DEF GetStreamGop
  <2>10. iframes \subseteq 2..Len(items) /\ \A i \in iframes : items[i].kind = "I"
    BY <2>1 DEF Restarts
  <2>11. ASSUME iscut PROVE Least(cuts) \in cuts /\ Least(cuts) \in 2..Len(items)
    <3>1. cuts # {} /\ cuts \subseteq 2..Len(items)  BY <2>3, <2>4, <2>10, <2>11
    <3>2. cuts \subseteq 1..Len(items)  BY <1>2, <3>1
    <3>3. Least(cuts) \in cuts  BY <1>2, <3>1, <3>2, InChunk
    <3> QED  BY <3>1, <3>3
  <2>12. upto \in 1..Len(items) /\ p \in upto..Len(items)
    <3>1. CASE iscut
      <4>1. PICK l : l = Least(cuts)  OBVIOUS
      <4>2. l \in 2..Len(items) /\ upto = l - 1 /\ p = upto + 1  BY <2>5, <2>8, <2>11, <3>1, <4>1
      <4> QED  BY <1>2, <4>2
    <3>2. CASE ~iscut
      <4>1. hits \subseteq 1..Len(items)  BY <2>2
      <4>2. hits # {} => Least(hits) \in 1..Len(items)  BY <1>2, <4>1, InChunk
      <4>3. Len(items) \in 1..Len(items)  BY <1>2, <1>4
      <4>4. upto \in 1..Len(items) /\ p = upto  BY <2>5, <2>8, <3>2, <4>2, <4>3
      <4> QED  BY <1>2, <4>4
    <3> QED  BY <3>1, <3>2
  <2>13. start \in 1..Len(items) /\ upto \in start..Len(items) /\ (start = 1 \/ items[start].kind = "I")
    <3>1. CASE starts = {}
      <4>1. start = 1  BY <2>7, <3>1
      <4> QED  BY <1>2, <2>12, <4>1
    <3>2. CASE starts # {}
      <4>1. starts \subseteq 1..Len(items) /\ starts \subseteq iframes
        <5>1. starts \subseteq iframes  BY <2>6
        <5>2. \A i \in 2..Len(items) : i \in 1..Len(items)  BY <1>2
        <5> QED  BY <2>10, <5>1, <5>2
      <4>2. start \in starts /\ start \in 1..Len(items)  BY <1>2, <2>7, <3>2, <4>1, InChunk
      <4>3. start <= upto /\ items[start].kind = "I"  BY <2>6, <2>10, <4>1, <4>2
      <4> QED  BY <1>2, <2>12, <4>2, <4>3
    <3> QED  BY <3>1, <3>2
  <2>14. p = upto \/ (p = upto + 1 /\ items[p].kind = "I")
    <3>1. CASE iscut
      <4>1. p = upto + 1 /\ upto = Least(cuts) - 1  BY <2>5, <2>8, <3>1
      <4>2. Least(cuts) \in cuts /\ Least(cuts) \in 2..Len(items)  BY <2>11, <3>1
      <4>3. p = Least(cuts)  BY <1>2, <4>1, <4>2
      <4>4. items[p].kind = "I"  BY <2>3, <2>10, <4>2, <4>3
      <4> QED  BY <4>1, <4>4
    <3>2. CASE ~iscut  BY <2>8, <3>2
    <3> QED  BY <3>1, <3>2
  <2>15. /\ G.r = Placed(r, r.data_index, r.datas, NextVideo(items, upto), items[p].time)
         /\ G.got = SubSeq(items, start, upto)
    <3>1. PICK got : got = SubSeq(items, start, upto)  OBVIOUS
    <3>2. PICK nv : nv = NextVideo(items, upto)  OBVIOUS
    <3>3. PICK q : q = items[p].time  OBVIOUS
    <3>4. G = [got |-> got, r |-> [r EXCEPT !.next = nv, !.position = q]]
      BY <2>9, <3>1, <3>2, <3>3
    <3>5. G.got = got /\ G.r = Placed(r, r.data_index, r.datas, nv, q)
      BY ONLY <1>1, <3>4 DEF Placed, ReaderType
    <3> QED  BY <3>1, <3>2, <3>3, <3>5
  <2>17. start <= upto /\ upto <= p /\ p \in 1..Len(items)  BY <1>2, <2>12, <2>13
  <2>18. PartOf(r, items, G, start, upto, p)  BY <2>15, <2>17 DEF PartOf
  <2> QED  BY <1>4, <2>12, <2>13, <2>14, <2>17, <2>18
<1> QED  BY <1>3, <1>4

\* The file and the chunk are the same.
SameLoaded(q, r) ==
  /\ q.file = r.file /\ q.file_list = r.file_list /\ q.headers = r.headers
  /\ q.data_index = r.data_index /\ q.datas = r.datas /\ q.opened = r.opened /\ q.size = r.size

\* Part of what is loaded is handed out.
LEMMA PartOK ==
  ASSUME NEW n \in Nat, NEW r, ReaderOK(r, n), NEW items, items = Items(r.datas), NEW G,
         NEW S, S = 1..Len(items), NEW start \in S, NEW upto \in S, NEW p \in S,
         PartOf(r, items, G, start, upto, p)
  PROVE  ReaderOK(G.r, n) /\ G.got \in Seq(Item) /\ SameLoaded(G.r, r)
<1>0. /\ start <= upto /\ upto <= p
      /\ G.got = SubSeq(items, start, upto)
      /\ G.r = Placed(r, r.data_index, r.datas, NextVideo(items, upto), items[p].time)
  BY DEF PartOf
<1>1. /\ r.datas \in Chunks \cup {0} /\ (r.file # 0 \/ r.datas = 0)
      /\ r.data_index \in -1..(Len(r.headers) - 1)
  BY DEF ReaderOK, ReaderType
<1>2. /\ items \in Seq(Item) /\ Len(items) \in Nat
      /\ \A i \in 1..Len(items) : items[i].time \in Nat
  BY <1>1, ItemsType
<1>3. G.got \in Seq(Item)
  <2>1. upto \in start..Len(items)  BY <1>0, <1>2
  <2> QED  BY <1>0, <1>2, <2>1, PartType
<1>4. PICK next : next = NextVideo(items, upto)  OBVIOUS
<1>5. upto \in 0..Len(items)  BY <1>2
<1>6. next \in Nat /\ next <= Len(items)
  <2>1. next \in upto..Len(items) /\ next \in Nat  BY <1>2, <1>4, <1>5, NextVideoIs
  <2> QED  BY <1>2, <2>1
<1>7. PICK q : q = items[p].time  OBVIOUS
<1>8. PICK k : k = r.data_index  OBVIOUS
<1>9. PICK d : d = r.datas  OBVIOUS
<1>10. /\ G.r = Placed(r, k, d, next, q) /\ k \in -1..(Len(r.headers) - 1) /\ d \in Chunks \cup {0}
       /\ next <= Len(Items(d)) /\ q \in Nat /\ (r.file # 0 \/ d = 0)
  BY <1>0, <1>1, <1>2, <1>4, <1>6, <1>7, <1>8, <1>9
<1>13. PICK o : o = G.r  OBVIOUS
<1>14. o = Placed(r, k, d, next, q)  BY <1>10, <1>13
<1>11. /\ ReaderOK(o, n) /\ o.file = r.file /\ o.headers = r.headers
       /\ o.data_index = k /\ o.file_list = r.file_list /\ o.datas = d
       /\ o.opened = r.opened /\ o.size = r.size
  BY <1>6, <1>10, <1>14, PlacedOK
<1>12. SameLoaded(o, r)  BY <1>8, <1>9, <1>11 DEF SameLoaded
<1> QED  BY <1>3, <1>11, <1>12, <1>13

\* Both keep the object's form.
LEMMA StreamChunkOK ==
  ASSUME NEW n \in Nat, NEW r, ReaderOK(r, n), NEW target, NEW G, G = GetStreamChunk(r, target)
  PROVE  ReaderOK(G.r, n) /\ G.got \in Seq(Item) /\ SameLoaded(G.r, r)
<1>1. r \in ReaderType /\ r.datas \in Chunks \cup {0}  BY DEF ReaderOK, ReaderType
<1>2. PICK items : items = Items(r.datas)  OBVIOUS
<1>3. CASE items = <<>>
  <2>1. G.got = <<>> /\ G.r = r  BY <1>2, <1>3 DEF GetStreamChunk
  <2>2. <<>> \in Seq(Item)  OBVIOUS
  <2> QED  BY <2>1, <2>2 DEF SameLoaded
<1>4. CASE items # <<>>
  <2>1. PICK upto \in 1..Len(items) : PartOf(r, items, G, 1, upto, upto)
    BY <1>1, <1>2, <1>4, StreamChunkIs
  <2>2. 1 \in 1..Len(items)
    <3>1. Len(items) \in Nat  BY <1>1, <1>2, ItemsType
    <3> QED  BY <3>1
  <2>3. PICK S : S = 1..Len(items)  OBVIOUS
  <2>4. upto \in S /\ 1 \in S  BY <2>1, <2>2, <2>3
  <2> QED  BY <1>2, <2>1, <2>3, <2>4, PartOK
<1> QED  BY <1>3, <1>4

LEMMA StreamGopOK ==
  ASSUME NEW n \in Nat, NEW r, ReaderOK(r, n), NEW target, NEW G, G = GetStreamGop(r, target)
  PROVE  ReaderOK(G.r, n) /\ G.got \in Seq(Item) /\ SameLoaded(G.r, r)
<1>1. r \in ReaderType /\ r.datas \in Chunks \cup {0}  BY DEF ReaderOK, ReaderType
<1>2. PICK items : items = Items(r.datas)  OBVIOUS
<1>3. CASE items = <<>>
  <2>1. G.got = <<>> /\ G.r = r  BY <1>2, <1>3 DEF GetStreamGop
  <2>2. <<>> \in Seq(Item)  OBVIOUS
  <2> QED  BY <2>1, <2>2 DEF SameLoaded
<1>4. CASE items # <<>>
  <2>1. \E start, upto, p \in 1..Len(items) :
          /\ PartOf(r, items, G, start, upto, p)
          /\ start = 1 \/ items[start].kind = "I"
          /\ p = upto \/ (p = upto + 1 /\ items[p].kind = "I")
    BY <1>1, <1>2, <1>4, StreamGopIs
  <2>2. PICK start, upto, p \in 1..Len(items) : PartOf(r, items, G, start, upto, p)
    BY <2>1
  <2>3. PICK S : S = 1..Len(items)  OBVIOUS
  <2>4. start \in S /\ upto \in S /\ p \in S  BY <2>2, <2>3
  <2> QED  BY <1>2, <2>2, <2>3, <2>4, PartOK
<1> QED  BY <1>3, <1>4

\* GetPrevData: nothing, or the chunk of the entry before.
LEMMA PrevDataOK ==
  ASSUME NEW n \in Nat, NEW r, ReaderOK(r, n), NEW G, G = GetPrevData(r)
  PROVE  /\ ReaderOK(G.r, n) /\ G.got \in Seq(Item) /\ G.r.file = r.file /\ G.r.headers = r.headers
         /\ G.r.file_list = r.file_list /\ G.r.opened = r.opened /\ G.r.size = r.size
<1>1. /\ r \in ReaderType /\ r.headers \in Seq(EntryType) /\ Len(r.headers) \in Nat
      /\ r.data_index \in -1..(Len(r.headers) - 1) /\ r.data_index \in Int
      /\ r.datas \in Chunks \cup {0} /\ r.next \in Nat /\ r.next <= Len(Items(r.datas))
      /\ r.position \in Nat /\ (r.file # 0 \/ r.datas = 0)
  BY DEF ReaderOK, ReaderType
<1>2. PICK i : i = r.data_index  OBVIOUS
<1>3. PICK back : back = [r EXCEPT !.data_index = @ - 1]  OBVIOUS
<1>4. <<>> \in Seq(Item)  OBVIOUS
<1>5. CASE i <= 0
  <2>1. G.got = <<>> /\ G.r = r  BY <1>2, <1>5 DEF GetPrevData
  <2> QED  BY <1>4, <2>1
<1>6. CASE ~(i <= 0)
  <2>1. i \in 1..Len(r.headers) /\ i - 1 \in -1..(Len(r.headers) - 1)  BY <1>1, <1>2, <1>6
  <2>2. r.headers[i] \in EntryType  BY <1>1, <2>1
  <2>3. PICK c : c = r.headers[i].chunk  OBVIOUS
  <2>4. c \in Chunks /\ r.file # 0
    <3>1. r.headers # <<>>  BY <1>1, <2>1
    <3>2. r.file # 0  BY <3>1 DEF ReaderOK
    <3> QED  BY <2>2, <2>3, <3>2 DEF EntryType
  <2>5. PICK k : k = i - 1  OBVIOUS
  <2>6. G = IF ~Readable(r.file, i, r.headers[i]) THEN [got |-> <<>>, r |-> back]
            ELSE GetStreamChunk([back EXCEPT !.datas = r.headers[i].chunk, !.next = 0], FALSE)
    BY <1>2, <1>3, <1>6 DEF GetPrevData
  <2>7. CASE ~Readable(r.file, i, r.headers[i])
    <3>1. PICK d : d = r.datas  OBVIOUS
    <3>2. PICK x : x = r.next  OBVIOUS
    <3>3. PICK p : p = r.position  OBVIOUS
    <3>4. k \in Int  BY <1>1, <1>2, <2>5
    <3>9. back = Placed(r, k, d, x, p)
      BY ONLY <1>1, <1>2, <1>3, <2>5, <3>1, <3>2, <3>3, <3>4 DEF Placed, ReaderType
    <3>5. G.r = Placed(r, k, d, x, p)  BY <2>6, <2>7, <3>9
    <3>6. /\ k \in -1..(Len(r.headers) - 1) /\ d \in Chunks \cup {0} /\ x \in Nat /\ x <= Len(Items(d))
          /\ p \in Nat /\ (r.file # 0 \/ d = 0)
      BY <1>1, <2>1, <2>5, <3>1, <3>2, <3>3
    <3>10. PICK q : q = Placed(r, k, d, x, p)  OBVIOUS
    <3>11. /\ ReaderOK(q, n) /\ q.file = r.file /\ q.file_list = r.file_list
           /\ q.opened = r.opened /\ q.size = r.size /\ q.headers = r.headers
      BY <3>6, <3>10, PlacedOK
    <3>7. /\ ReaderOK(G.r, n) /\ G.r.file = r.file /\ G.r.file_list = r.file_list
          /\ G.r.opened = r.opened /\ G.r.size = r.size /\ G.r.headers = r.headers
      BY <3>5, <3>10, <3>11
    <3>8. G.got = <<>>  BY <2>6, <2>7
    <3> QED  BY <1>4, <3>7, <3>8
  <2>8. CASE Readable(r.file, i, r.headers[i])
    <3>1. PICK p : p = r.position  OBVIOUS
    <3>2. PICK q : q = Placed(r, k, c, 0, p)  OBVIOUS
    <3>3. k \in Int  BY <1>1, <1>2, <2>5
    <3>4. q = [back EXCEPT !.datas = r.headers[i].chunk, !.next = 0]
      BY <1>1, <1>2, <1>3, <2>3, <2>5, <3>1, <3>2, <3>3 DEF Placed, ReaderType
    <3>5. 0 <= Len(Items(c)) /\ 0 \in Nat /\ c \in Chunks \cup {0}  BY <2>4, ItemsType
    <3>6. k \in -1..(Len(r.headers) - 1) /\ p \in Nat  BY <1>1, <2>1, <2>5, <3>1
    <3>7. /\ ReaderOK(q, n) /\ q.file = r.file /\ q.file_list = r.file_list
          /\ q.opened = r.opened /\ q.size = r.size /\ q.headers = r.headers
      BY <2>4, <3>2, <3>5, <3>6, PlacedOK
    <3>10. PICK target : target = FALSE  OBVIOUS
    <3>8. G = GetStreamChunk(q, target)  BY <2>6, <2>8, <3>4, <3>10
    <3>9. ReaderOK(G.r, n) /\ G.got \in Seq(Item) /\ SameLoaded(G.r, q)
      BY <3>7, <3>8, StreamChunkOK
    <3> QED  BY <3>7, <3>9 DEF SameLoaded
  <2> QED  BY <2>7, <2>8
<1> QED  BY <1>5, <1>6

-----------------------------------------------------------------------------
(***************************************************************************)
(* The invariant: types, the reader's form, and that it has a file from    *)
(* the first open on.                                                      *)
(***************************************************************************)
Steps == {"idle", "list", "open", "load", "skip", "next", "grown", "reload", "retake", "nextfile",
          "opennext", "loadnext", "take", "prev", "prevfile", "openprev", "loadprev"}

FilesInv ==
  /\ files \in Seq(FileType) /\ written \in 0..Len(Content) /\ open \in BOOLEAN
  /\ open => Last # 0
  /\ \A f \in 1..Last : Stamp(f) % Width # 0

ReaderInv ==
  /\ ReaderOK(reader, Last)
  /\ reader.file = 0 => status = "none" /\ pc \in {"idle", "list", "open"}
  /\ reader.file # 0 => reader.opened # 0

CallInv ==
  /\ pc \in Steps /\ call \in CallType /\ calls \in 0..MaxCalls
  /\ status \in {"none", "sought", "playing"}
  /\ pc \in {"opennext", "loadnext", "openprev", "loadprev"} => call.file \in 1..Last

HistoryInv ==
  /\ handed \in [by : Ways, items : Seq(Item)]
  /\ before \in Nat /\ astray \in BOOLEAN
  /\ seen \subseteq Chunks /\ passed \subseteq Chunks

Inv == FilesInv /\ ReaderInv /\ CallInv /\ HistoryInv

LEMMA InvType == Inv => TypeOK
<1> SUFFICES ASSUME Inv PROVE TypeOK  OBVIOUS
<1>1. FilesInv /\ ReaderInv /\ CallInv /\ HistoryInv  BY DEF Inv
<1>2. /\ files \in Seq([stamp : Nat, headed : BOOLEAN, own : Seq(Chunks), left : Seq(Chunks), cells : Nat])
      /\ written \in 0..Len(Content) /\ open \in BOOLEAN
  BY <1>1 DEF FilesInv, FileType
<1>3. /\ reader \in ReaderType /\ reader.data_index \in -1..(Len(reader.headers) - 1)
      /\ reader.next <= Len(Items(reader.datas)) /\ reader.file <= Last
  BY <1>1 DEF ReaderInv, ReaderOK
<1>4. /\ pc \in Steps /\ call \in CallType /\ calls \in 0..MaxCalls
      /\ status \in {"none", "sought", "playing"}
  BY <1>1 DEF CallInv
<1>5. /\ handed \in [by : Ways, items : Seq([time : Nat, kind : Kinds])]
      /\ before \in Nat /\ astray \in BOOLEAN /\ seen \subseteq Chunks /\ passed \subseteq Chunks
  BY <1>1 DEF HistoryInv, Item
<1> QED  BY <1>2, <1>3, <1>4, <1>5 DEF TypeOK, Steps

LEMMA NoCallType == NoCall \in CallType
BY DEF NoCall, CallType

LEMMA NoItemsType == NoItems \in [by : Ways, items : Seq(Item)]
<1>1. PICK empty : empty = <<>>  OBVIOUS
<1>2. empty \in Seq(Item)  BY <1>1
<1>3. "none" \in Ways  BY DEF Ways
<1>4. NoItems = [by |-> "none", items |-> empty]  BY <1>1 DEF NoItems
<1> QED  BY ONLY <1>2, <1>3, <1>4

LEMMA InitOK == Init => Inv
<1> SUFFICES ASSUME Init PROVE Inv  OBVIOUS
<1>1. files = <<>> /\ Last = 0  BY DEF Init, Last
<1>2. FilesInv
  <2>1. files \in Seq(FileType)  BY <1>1
  <2>2. written \in 0..Len(Content) /\ open \in BOOLEAN /\ ~open
    <3>1. written = 0 /\ open = FALSE  BY DEF Init
    <3>2. 0 \in 0..Len(Content)  BY ConstantTypes
    <3> QED  BY <3>1, <3>2
  <2>3. 1..Last = {}  BY <1>1
  <2> QED  BY <2>1, <2>2, <2>3 DEF FilesInv
<1>3. ReaderInv
  <2>1. /\ reader = NewReader /\ NewReader.file = 0 /\ NewReader.headers = <<>> /\ NewReader.data_index = -1
        /\ NewReader.datas = 0 /\ NewReader.next = 0 /\ NewReader.file_list = <<>>
    BY DEF Init, NewReader
  <2>2. NewReader \in ReaderType
    <3>1. 0 \in 0..(Width - 1)  BY ConstantTypes
    <3> QED  BY <3>1 DEF NewReader, ReaderType
  <2>3. Len(Items(0)) = 0 /\ -1 \in -1..(Len(<<>>) - 1)  BY DEF Items
  <2>4. <<>> \in Seq(1..Last)  OBVIOUS
  <2>5. ReaderOK(reader, Last)  BY <1>1, <2>1, <2>2, <2>3, <2>4 DEF ReaderOK
  <2> QED  BY <2>1, <2>5 DEF ReaderInv, Init
<1>4. CallInv  BY NoCallType, ConstantTypes DEF CallInv, Init, Steps
<1>5. HistoryInv
  <2>1. NoItems \in [by : Ways, items : Seq(Item)]  BY NoItemsType
  <2> QED  BY <2>1 DEF HistoryInv, Init
<1> QED  BY <1>2, <1>3, <1>4, <1>5 DEF Inv

\* The writer's steps: files only grow.
LEMMA MoreFiles ==
  ASSUME NEW m \in Nat, NEW n \in Nat, m <= n, NEW r, ReaderOK(r, m)
  PROVE  ReaderOK(r, n)
<1>1. r.file <= n  BY DEF ReaderOK, ReaderType
<1>2. r.file_list \in Seq(1..n)
  <2>1. PICK S : S = 1..m  OBVIOUS
  <2>2. PICK T : T = 1..n  OBVIOUS
  <2>3. S \subseteq T  BY <2>1, <2>2
  <2>4. r.file_list \in Seq(S)  BY <2>1 DEF ReaderOK
  <2>5. \A i \in 1..Len(r.file_list) : r.file_list[i] \in T  BY <2>3, <2>4
  <2> QED  BY <2>2, <2>4, <2>5
<1> QED  BY <1>1, <1>2 DEF ReaderOK

LEMMA BeginOK ==
  ASSUME NEW c \in Chunks
  PROVE  Begin(c) \in Nat /\ Begin(c) % Width # 0 /\ Begin(c) > Width + Hour
BY ConstantsAssumption, ChunkType

LEMMA WriterStep ==
  ASSUME Inv, NEW f, NEW x \in FileType,
         files' = Append(files, x) \/ (f \in 1..Last /\ files' = [files EXCEPT ![f] = x]),
         files' = Append(files, x) => x.stamp % Width # 0,
         files' # Append(files, x) => x.stamp = files[f].stamp,
         written' \in 0..Len(Content), open' \in BOOLEAN, open' => Last' # 0,
         UNCHANGED <<reader, pc, call, calls, status, historyVars, passed>>
  PROVE  Inv'
<1>1. FilesInv /\ ReaderInv /\ CallInv /\ HistoryInv /\ files \in Seq(FileType) /\ Last \in Nat
  BY DEF Inv, FilesInv, Last
<1>2. /\ files' \in Seq(FileType) /\ Last' >= Last /\ Last' \in Nat
      /\ \A g \in 1..Last' : files'[g].stamp % Width # 0
  <2>1. \A g \in 1..Last : files[g].stamp % Width # 0  BY <1>1 DEF FilesInv, Stamp
  <2>2. CASE files' = Append(files, x)
    <3>1. Len(files') = Len(files) + 1 /\ files' \in Seq(FileType)  BY <1>1, <2>2
    <3>2. \A g \in 1..Len(files') : files'[g] = IF g <= Len(files) THEN files[g] ELSE x
      BY <1>1, <2>2
    <3> QED  BY <1>1, <2>1, <2>2, <3>1, <3>2 DEF Last
  <2>3. CASE files' # Append(files, x)
    <3>1. files' = [files EXCEPT ![f] = x] /\ f \in 1..Len(files)  BY <2>3 DEF Last
    <3>2. Len(files') = Len(files) /\ files' \in Seq(FileType)  BY <1>1, <3>1
    <3>3. \A g \in 1..Len(files) : files'[g] = IF g = f THEN x ELSE files[g]  BY <1>1, <3>1
    <3>4. x.stamp % Width # 0  BY <2>1, <2>3, <3>1 DEF Last
    <3>5. \A g \in 1..Len(files') : files'[g].stamp % Width # 0
      BY <2>1, <3>2, <3>3, <3>4 DEF Last
    <3> QED  BY <1>1, <3>2, <3>5 DEF Last
  <2> QED  BY <2>2, <2>3
<1>3. FilesInv'  BY <1>2 DEF FilesInv, Stamp
<1>4. ReaderInv'
  <2>1. ReaderOK(reader, Last')  BY <1>1, <1>2, MoreFiles DEF ReaderInv
  <2>2. reader' = reader /\ pc' = pc /\ status' = status  OBVIOUS
  <2> QED  BY <1>1, <2>1, <2>2 DEF ReaderInv, ReaderOK
<1>5. CallInv'
  <2>1. 1..Last \subseteq 1..Last'  BY <1>1, <1>2
  <2>2. pc' = pc /\ call' = call /\ calls' = calls /\ status' = status  OBVIOUS
  <2> QED  BY <1>1, <2>1, <2>2 DEF CallInv
<1>6. HistoryInv'  BY <1>1 DEF HistoryInv, historyVars
<1> QED  BY <1>3, <1>4, <1>5, <1>6 DEF Inv

LEMMA CreateOK ==
  ASSUME Inv, Create
  PROVE  Inv'
<1>1. FilesInv /\ files \in Seq(FileType) /\ Last \in Nat /\ written \in 0..Len(Content)
  BY DEF Inv, FilesInv, Last
<1>2. written + 1 \in Chunks /\ Len(Content) \in Nat
  BY <1>1, ConstantTypes DEF Create, Chunks
<1>3. PICK b : b = Begin(written + 1)  OBVIOUS
<1>4. b \in Nat /\ b % Width # 0  BY <1>2, <1>3, BeginOK
<1>5. PICK left : left = IF Last = 0 THEN <<>>
                         ELSE [i \in 1..Len(Entries(Last)) |-> Entries(Last)[i].chunk]
  OBVIOUS
<1>6. left \in Seq(Chunks)
  <2>1. CASE Last = 0  BY <1>5, <2>1
  <2>2. CASE Last # 0
    <3>1. PICK e : e = Entries(Last)  OBVIOUS
    <3>2. Last \in 1..Last  BY <1>1, <2>2
    <3>3. e \in Seq(EntryType) /\ Len(e) \in Nat  BY <1>1, <3>1, <3>2, EntriesType
    <3>4. \A i \in 1..Len(e) : e[i].chunk \in Chunks
      <4>1. \A i \in 1..Len(e) : e[i] \in EntryType  BY <3>3
      <4> QED  BY <4>1 DEF EntryType
    <3>5. left = [i \in 1..Len(e) |-> e[i].chunk]  BY <1>5, <2>2, <3>1
    <3> QED  BY <3>3, <3>4, <3>5
  <2> QED  BY <2>1, <2>2
<1>7. PICK own : own = <<>>  OBVIOUS
<1>8. PICK x : x = [stamp |-> b, headed |-> FALSE, own |-> own, left |-> left, cells |-> 0]  OBVIOUS
<1>9. x \in FileType /\ x.stamp = b
  <2>1. own \in Seq(Chunks) /\ FALSE \in BOOLEAN  BY <1>7
  <2> QED  BY <1>4, <1>6, <1>8, <2>1 DEF FileType
<1>10. files' = Append(files, x)  BY <1>3, <1>5, <1>7, <1>8 DEF Create
<1>11. Last' # 0
  <2>1. Len(Append(files, x)) = Len(files) + 1  BY <1>1
  <2> QED  BY <1>1, <1>10, <2>1 DEF Last
<1>12. written' = written /\ open' \in BOOLEAN
       /\ UNCHANGED <<reader, pc, call, calls, status, historyVars, passed>>
  BY DEF Create
<1> QED  BY <1>1, <1>4, <1>9, <1>10, <1>11, <1>12, WriterStep

\* The other steps change the last file, and not its time.
LEMMA LastChanged ==
  ASSUME Inv, open, NEW x \in FileType, files' = [files EXCEPT ![Last] = x],
         x.stamp = files[Last].stamp, written' \in 0..Len(Content), open' \in BOOLEAN,
         UNCHANGED <<reader, pc, call, calls, status, historyVars, passed>>
  PROVE  Inv'
<1>1. FilesInv /\ files \in Seq(FileType) /\ Last \in Nat \ {0} /\ Last \in 1..Last
  BY DEF Inv, FilesInv, Last
<1>2. Len(files') = Len(files)  BY <1>1
<1>3. files' # Append(files, x)
  <2>1. PICK m : m = Append(files, x)  OBVIOUS
  <2>2. Len(m) = Len(files) + 1 /\ Len(files) \in Nat  BY <1>1, <2>1
  <2>3. Len(m) # Len(files)  BY ONLY <2>2
  <2>4. files' # m  BY ONLY <1>2, <2>3
  <2> QED  BY <2>1, <2>4
<1>4. Last' # 0  BY <1>1, <1>2 DEF Last
<1> QED  BY <1>1, <1>3, <1>4, WriterStep

LEMMA LastFile ==
  ASSUME Inv, open
  PROVE  /\ files[Last] \in FileType /\ files[Last].own \in Seq(Chunks) /\ Len(files[Last].own) \in Nat
         /\ files[Last].cells \in Nat /\ files \in Seq(FileType) /\ Last \in 1..Len(files)
<1>1. files \in Seq(FileType) /\ Last \in 1..Len(files)  BY DEF Inv, FilesInv, Last
<1>2. PICK x : x = files[Last]  OBVIOUS
<1>3. x \in FileType  BY <1>1, <1>2
<1>4. x.own \in Seq(Chunks) /\ x.cells \in Nat  BY <1>3 DEF FileType
<1> QED  BY <1>1, <1>2, <1>3, <1>4

LEMMA InitBufferOK ==
  ASSUME Inv, InitBuffer
  PROVE  Inv'
<1>1. PICK x : x = [files[Last] EXCEPT !.headed = TRUE]  OBVIOUS
<1>2. x \in FileType /\ x.stamp = files[Last].stamp
  BY <1>1, LastFile DEF FileType, InitBuffer
<1>3. files' = [files EXCEPT ![Last] = x]  BY <1>1, LastFile DEF InitBuffer
<1>4. /\ written' \in 0..Len(Content) /\ open' \in BOOLEAN /\ open
      /\ UNCHANGED <<reader, pc, call, calls, status, historyVars, passed>>
  BY DEF InitBuffer, Inv, FilesInv
<1> QED  BY <1>2, <1>3, <1>4, LastChanged

LEMMA WriteIndexInfoOK ==
  ASSUME Inv, WriteIndexInfo
  PROVE  Inv'
<1>1. written \in 0..Len(Content) /\ open /\ written < Len(Content) /\ open \in BOOLEAN
  BY DEF WriteIndexInfo, Inv, FilesInv
<1>2. PICK c : c = written + 1  OBVIOUS
<1>3. c \in Chunks /\ c \in 0..Len(Content)  BY <1>1, <1>2, ConstantTypes DEF Chunks
<1>4. PICK own : own = Append(files[Last].own, c)  OBVIOUS
<1>5. own \in Seq(Chunks)  BY <1>1, <1>3, <1>4, LastFile
<1>6. PICK x : x = [files[Last] EXCEPT !.own = own]  OBVIOUS
<1>7. x \in FileType /\ x.stamp = files[Last].stamp
  BY <1>1, <1>5, <1>6, LastFile DEF FileType
<1>8. files' = [files EXCEPT ![Last] = x]  BY <1>1, <1>2, <1>4, <1>6, LastFile DEF WriteIndexInfo
<1>9. written' = c /\ UNCHANGED <<open, reader, pc, call, calls, status, historyVars, passed>>
  BY <1>2 DEF WriteIndexInfo
<1> QED  BY <1>1, <1>3, <1>7, <1>8, <1>9, LastChanged

LEMMA WriteDiskOK ==
  ASSUME Inv, WriteDisk
  PROVE  Inv'
<1>1. open /\ written \in 0..Len(Content) /\ open \in BOOLEAN  BY DEF WriteDisk, Inv, FilesInv
<1>2. PICK k \in (files[Last].cells + 1)..(2 * Len(files[Last].own)) :
        files' = [files EXCEPT ![Last].cells = k]
  BY DEF WriteDisk
<1>3. k \in Nat  BY <1>1, <1>2, LastFile
<1>4. PICK x : x = [files[Last] EXCEPT !.cells = k]  OBVIOUS
<1>5. x \in FileType /\ x.stamp = files[Last].stamp
  BY <1>1, <1>3, <1>4, LastFile DEF FileType
<1>6. files' = [files EXCEPT ![Last] = x]  BY <1>1, <1>2, <1>4, LastFile
<1>7. UNCHANGED <<written, open, reader, pc, call, calls, status, historyVars, passed>>
  BY DEF WriteDisk
<1> QED  BY <1>1, <1>5, <1>6, <1>7, LastChanged

LEMMA FileCloseOK ==
  ASSUME Inv, FileClose
  PROVE  Inv'
<1>1. open /\ written \in 0..Len(Content) /\ open' = FALSE  BY DEF FileClose, Inv, FilesInv
<1>2. PICK k : k = 2 * Len(files[Last].own) + 1  OBVIOUS
<1>3. k \in Nat  BY <1>1, <1>2, LastFile
<1>4. PICK x : x = [files[Last] EXCEPT !.cells = k]  OBVIOUS
<1>5. x \in FileType /\ x.stamp = files[Last].stamp
  BY <1>1, <1>3, <1>4, LastFile DEF FileType
<1>6. files' = [files EXCEPT ![Last] = x]  BY <1>1, <1>2, <1>4, LastFile DEF FileClose
<1>7. UNCHANGED <<written, reader, pc, call, calls, status, historyVars, passed>>
  BY DEF FileClose
<1>8. open' \in BOOLEAN  BY <1>1
<1> QED  BY <1>1, <1>5, <1>6, <1>7, <1>8, LastChanged

-----------------------------------------------------------------------------
(***************************************************************************)
(* The reader's steps.                                                     *)
(***************************************************************************)
LEMMA LastVideoType ==
  ASSUME NEW items \in Seq(Item), NEW else \in Nat
  PROVE  LastVideo(items, else) \in Nat
<1>1. CASE Videos(items) = {}  BY <1>1 DEF LastVideo
<1>2. CASE Videos(items) # {}
  <2>1. PICK i : i = Greatest(Videos(items))  OBVIOUS
  <2>2. i \in 1..Len(items)  BY <1>2, <2>1, VideosType
  <2>3. items[i] \in Item  BY <2>2
  <2>4. items[i].time \in Nat  BY <2>3 DEF Item
  <2> QED  BY <1>2, <2>1, <2>4 DEF LastVideo
<1> QED  BY <1>1, <1>2

LEMMA HandedType ==
  HistoryInv => /\ handed.items \in Seq(Item) /\ before \in Nat
                /\ LastVideo(handed.items, before) \in Nat
<1> SUFFICES ASSUME HistoryInv PROVE handed.items \in Seq(Item) /\ before \in Nat
                                     /\ LastVideo(handed.items, before) \in Nat
  OBVIOUS
<1>1. handed.items \in Seq(Item) /\ before \in Nat  BY DEF HistoryInv
<1> QED  BY <1>1, LastVideoType

\* What a reader's step may do, the files and passed aside.
Stays ==
  /\ FilesInv /\ FilesInv' /\ Last' = Last /\ Last \in Nat /\ files \in Seq(FileType)
  /\ ReaderInv /\ CallInv /\ HistoryInv

LEMMA SameFiles ==
  ASSUME Inv, UNCHANGED writerVars
  PROVE  Stays
<1>1. FilesInv /\ ReaderInv /\ CallInv /\ HistoryInv /\ files' = files /\ written' = written
      /\ open' = open
  BY DEF Inv, writerVars
<1>2. FilesInv'  BY <1>1 DEF FilesInv, Last, Stamp
<1>3. Last' = Last /\ Last \in Nat /\ files \in Seq(FileType)  BY <1>1 DEF FilesInv, Last
<1> QED  BY <1>1, <1>2, <1>3 DEF Stays

\* Returns, Goes and NextReturns keep the types; passed is the caller's.
LEMMA ReturnsOK ==
  ASSUME CallInv, HistoryInv, NEW by \in Ways, NEW items \in Seq(Item), Returns(by, items),
         calls' \in 0..MaxCalls, passed' \subseteq Chunks
  PROVE  CallInv' /\ HistoryInv'
<1>1. pc' = "idle" /\ call' = NoCall /\ astray' = astray /\ seen' = seen
  BY DEF Returns
<1>2. /\ status' \in {"none", "sought", "playing"}
      /\ handed' \in [by : Ways, items : Seq(Item)] /\ before' \in Nat
  <2>1. CASE items = <<>>
    <3>1. status' = status /\ handed' = handed /\ before' = before  BY <2>1 DEF Returns
    <3> QED  BY <3>1 DEF CallInv, HistoryInv
  <2>2. CASE items # <<>>
    <3>1. status' = "playing" /\ handed' = [by |-> by, items |-> items]
          /\ before' = LastVideo(handed.items, before)
      BY <2>2 DEF Returns
    <3> QED  BY <3>1, HandedType
  <2> QED  BY <2>1, <2>2
<1>3. CallInv'  BY <1>1, <1>2, NoCallType DEF CallInv, Steps
<1>4. HistoryInv'  BY <1>1, <1>2 DEF HistoryInv
<1> QED  BY <1>3, <1>4

LEMMA GoesOK ==
  ASSUME CallInv, HistoryInv, NEW at \in Steps, Goes(at),
         at \in {"opennext", "loadnext", "openprev", "loadprev"} => call.file \in 1..Last,
         Last' = Last, calls' \in 0..MaxCalls, passed' \subseteq Chunks
  PROVE  CallInv' /\ HistoryInv'
<1>1. pc' = at /\ call' = call /\ status' = status /\ handed' = handed /\ before' = before
      /\ astray' = astray /\ seen' = seen
  BY DEF Goes, historyVars
<1> QED  BY <1>1 DEF CallInv, HistoryInv

LEMMA NextReturnsOK ==
  ASSUME CallInv, HistoryInv, NEW by \in Ways, NEW items \in Seq(Item), NextReturns(by, items),
         Last' = Last, calls' \in 0..MaxCalls, passed' \subseteq Chunks
  PROVE  CallInv' /\ HistoryInv'
<1>1. CASE call.op = "next"  BY <1>1, ReturnsOK DEF NextReturns
<1>2. CASE call.op # "next" /\ items # <<>>
  <2>1. Goes("skip")  BY <1>2 DEF NextReturns
  <2>2. PICK at : at = "skip"  OBVIOUS
  <2>3. Goes(at) /\ at \in Steps /\ at \notin {"opennext", "loadnext", "openprev", "loadprev"}
    BY <2>1, <2>2 DEF Steps
  <2> QED  BY <2>3, GoesOK
<1>3. CASE call.op # "next" /\ items = <<>>
  <2>1. pc' = "idle" /\ call' = NoCall /\ UNCHANGED <<status, historyVars>>
    BY <1>3 DEF NextReturns
  <2> QED  BY <2>1, NoCallType DEF CallInv, HistoryInv, historyVars, Steps
<1> QED  BY <1>1, <1>2, <1>3

\* A step that has a file.
LEMMA Together ==
  ASSUME Stays, CallInv', HistoryInv', ReaderOK(reader', Last), reader'.file # 0, reader'.opened # 0
  PROVE  Inv'
<1>1. ReaderOK(reader', Last')  BY DEF Stays
<1>2. ReaderInv'  BY <1>1 DEF ReaderInv, ReaderOK
<1> QED  BY <1>2 DEF Stays, Inv

\* The object with another list of files.
LEMMA ListOK ==
  ASSUME NEW n \in Nat, NEW r, ReaderOK(r, n), NEW list \in Seq(1..n),
         NEW q, q = [r EXCEPT !.file_list = list]
  PROVE  /\ ReaderOK(q, n) /\ q.file_list = list /\ q.file = r.file /\ q.opened = r.opened
         /\ q.headers = r.headers /\ q.datas = r.datas /\ q.data_index = r.data_index
         /\ q.next = r.next /\ q.position = r.position /\ q.size = r.size
<1>1. list \in Seq(Nat)
  <2>1. \A i \in 1..Len(list) : list[i] \in Nat  OBVIOUS
  <2> QED  BY <2>1
<1>2. q \in ReaderType /\ r \in ReaderType  BY <1>1 DEF ReaderOK, ReaderType
<1>3. /\ q.file_list = list /\ q.file = r.file /\ q.opened = r.opened
      /\ q.headers = r.headers /\ q.datas = r.datas /\ q.data_index = r.data_index
      /\ q.next = r.next /\ q.position = r.position /\ q.size = r.size
  BY <1>2 DEF ReaderType
<1> QED  BY <1>2, <1>3 DEF ReaderOK

\* A file taken from a list, and what of the object is as before.
LEMMA TakenOK ==
  ASSUME FilesInv, NEW r, ReaderOK(r, Last), r.file_list # <<>>, NEW dir,
         NEW taken, taken = Pop(r, dir)
  PROVE  /\ taken.file \in 1..Last /\ ReaderOK(taken.r, Last) /\ taken.r.opened # 0
         /\ taken.r.opened = Stamp(taken.file) % Width
         /\ taken.r.file = r.file /\ taken.r.headers = r.headers /\ taken.r.datas = r.datas
         /\ taken.r.data_index = r.data_index /\ taken.r.next = r.next
         /\ taken.r.position = r.position /\ taken.r.size = r.size
<1>1. files \in Seq(FileType)  BY DEF FilesInv
<1>2. taken.file \in 1..Last /\ ReaderOK(taken.r, Last)  BY <1>1, PopOK
<1>3. taken.r.opened = Stamp(taken.file) % Width  BY <1>1, PopOK
<1>4. taken.r.opened # 0  BY <1>2, <1>3 DEF FilesInv
<1>5. /\ taken.r.file = r.file /\ taken.r.headers = r.headers /\ taken.r.datas = r.datas
      /\ taken.r.data_index = r.data_index /\ taken.r.next = r.next
      /\ taken.r.position = r.position /\ taken.r.size = r.size
  BY <1>1, PopOK
<1> QED  BY <1>2, <1>3, <1>4, <1>5

\* A file opened.
Opened(q, r, f) ==
  /\ ReaderOK(q, Last) /\ q.file = f /\ q.file # 0 /\ q.opened = r.opened
  /\ q.file_list = r.file_list /\ q.datas = r.datas /\ q.next = r.next
  /\ q.position = r.position /\ q.size = FileSize(f)
  /\ q.headers = IF Parsed(f) THEN Entries(f) ELSE <<>>
  /\ q.data_index = Len(q.headers) - 1

LEMMA OpenedOK ==
  ASSUME FilesInv, NEW r, ReaderOK(r, Last), NEW f \in 1..Last, NEW q, q = ParseHeader(r, f)
  PROVE  Opened(q, r, f)
<1>1. files \in Seq(FileType)  BY DEF FilesInv
<1>2. PICK h : h = IF Parsed(f) THEN Entries(f) ELSE <<>>  OBVIOUS
<1>3. PICK s : s = FileSize(f)  OBVIOUS
<1>4. PICK k : k = Len(h) - 1  OBVIOUS
<1>5. ReaderOK(q, Last) /\ q = [r EXCEPT !.file = f, !.size = s, !.headers = h, !.data_index = k]
  BY <1>1, <1>2, <1>3, <1>4, ParseOK
<1>6. r \in ReaderType  BY DEF ReaderOK
<1>7. /\ q.file = f /\ q.opened = r.opened /\ q.file_list = r.file_list /\ q.datas = r.datas
      /\ q.next = r.next /\ q.position = r.position /\ q.size = s /\ q.headers = h
      /\ q.data_index = k
  BY ONLY <1>5, <1>6 DEF ReaderType
<1>8. f # 0  OBVIOUS
<1> QED  BY <1>2, <1>3, <1>4, <1>5, <1>7, <1>8 DEF Opened

\* LoadDataByIndex keeps the form, and the file.
LEMMA LoadedOK ==
  ASSUME NEW n \in Nat, NEW r, ReaderOK(r, n), r.file # 0, NEW t \in Int, NEW dir \in {"Next", "Prev"},
         NEW L, L = LoadDataByIndex(r, t, dir)
  PROVE  /\ L.ok \in BOOLEAN /\ ReaderOK(L.r, n) /\ L.r.file = r.file
         /\ L.r.opened = r.opened /\ L.r.size = r.size
         /\ L.r.headers = r.headers /\ L.r.file_list = r.file_list
<1>1. PICK start : start = SetIndexPosition(r.headers, t, dir)  OBVIOUS
<1>2. PICK q : q = L.r  OBVIOUS
<1>0. L.ok \in BOOLEAN  BY <1>1, LoadIs
<1>3. CASE L.ok
  <2>1. PICK i \in 0..(Len(r.headers) - 1), c \in Chunks, x \in Nat :
          LoadHit(r, t, dir, start, L.r, i, c, x)
    BY <1>1, <1>3, LoadIs
  <2>0. /\ x # 0 /\ x \in Videos(Items(c)) /\ Items(c)[x].time \in Nat
        /\ L.r = Placed(r, i, c, x - 1, Items(c)[x].time)
    BY <2>1 DEF LoadHit
  <2>2. PICK next : next = x - 1  OBVIOUS
  <2>3. PICK p : p = Items(c)[x].time  OBVIOUS
  <2>4. q = Placed(r, i, c, next, p) /\ p \in Nat  BY <1>2, <2>0, <2>2, <2>3
  <2>5. next \in Nat /\ next <= Len(Items(c)) /\ c \in Chunks \cup {0}
        /\ i \in -1..(Len(r.headers) - 1)
    <3>1. Items(c) \in Seq(Item) /\ Len(Items(c)) \in Nat  BY ItemsType
    <3>2. x \in 1..Len(Items(c))  BY <2>0, <3>1, VideosType
    <3> QED  BY <2>2, <3>1, <3>2
  <2>6. /\ ReaderOK(q, n) /\ q.file = r.file /\ q.opened = r.opened /\ q.size = r.size
        /\ q.headers = r.headers /\ q.file_list = r.file_list
    BY <2>4, <2>5, PlacedOK
  <2> QED  BY <1>2, <1>3, <2>6
<1>4. CASE ~L.ok
  <2>1. PICK i \in -1..(Len(r.headers) - 1), c \in Chunks \cup {0}, next \in Nat :
          LoadMiss(r, t, dir, start, L.r, i, c, next)
    BY <1>1, <1>4, LoadIs
  <2>0. /\ L.r = Placed(r, i, c, next, r.position)
        /\ (c = r.datas /\ next = r.next) \/ next = 0
    BY <2>1 DEF LoadMiss
  <2>2. PICK p : p = r.position  OBVIOUS
  <2>3. q = Placed(r, i, c, next, p) /\ p \in Nat  BY <1>2, <2>0, <2>2 DEF ReaderOK, ReaderType
  <2>4. next <= Len(Items(c))
    <3>1. Len(Items(c)) \in Nat /\ r.next <= Len(Items(r.datas))  BY ItemsType DEF ReaderOK
    <3> QED  BY <2>0, <3>1
  <2>6. /\ ReaderOK(q, n) /\ q.file = r.file /\ q.opened = r.opened /\ q.size = r.size
        /\ q.headers = r.headers /\ q.file_list = r.file_list
    <3>1. r.file # 0 \/ c = 0  OBVIOUS
    <3> QED  BY <2>3, <2>4, <3>1, PlacedOK
  <2> QED  BY <1>2, <2>6, <1>0
<1> QED  BY <1>0, <1>3, <1>4

LEMMA SeekReturnsOK ==
  ASSUME Stays, pc \in {"list", "open", "load"}, NEW found \in BOOLEAN, NEW r, ReaderOK(r, Last),
         r.file = 0 => status = "none" /\ ~found, r.file # 0 => r.opened # 0,
         SeekReturns(found, r), UNCHANGED passed
  PROVE  Inv'
<1>1. CallInv /\ HistoryInv /\ Last' = Last /\ Last \in Nat  BY DEF Stays
<1>2. handed' = handed /\ before' = before /\ astray' = astray /\ seen' = seen /\ calls' = calls
  BY DEF SeekReturns, historyVars
<1>3. HistoryInv'  BY <1>1, <1>2 DEF HistoryInv
<1>4. CASE call.type = "Next" /\ call.dir = "Prev" /\ IsInGOP(r, call.time)
  <2>1. reader' = [r EXCEPT !.file_list = <<>>] /\ pc' = "skip" /\ call' = [call EXCEPT !.found = found]
        /\ status' = status
    BY <1>4 DEF SeekReturns
  <2>2. PICK list : list = <<>>  OBVIOUS
  <2>3. list \in Seq(1..Last)  BY <2>2
  <2>4. ReaderOK(reader', Last) /\ reader'.file = r.file /\ reader'.opened = r.opened
    <3>1. PICK q : q = reader'  OBVIOUS
    <3>2. q = [r EXCEPT !.file_list = list]  BY <2>1, <2>2, <3>1
    <3> QED  BY <1>1, <2>3, <3>1, <3>2, ListOK
  <2>5. r.file # 0
    <3>1. Items(r.datas) # <<>>  BY <1>4 DEF IsInGOP
    <3>2. r.datas # 0  BY <3>1 DEF Items
    <3> QED  BY <3>2 DEF ReaderOK
  <2>6. CallInv'  BY <1>1, <1>2, <2>1 DEF CallInv, CallType, Steps
  <2> QED  BY <1>3, <2>4, <2>5, <2>6, Together
<1>5. CASE call.type = "Next" /\ call.dir = "Prev" /\ ~IsInGOP(r, call.time)
  <2>1. reader' = r /\ pc' = "list" /\ call' = [call EXCEPT !.dir = "Next"] /\ status' = status
    BY <1>5 DEF SeekReturns
  <2>2. CallInv'  BY <1>1, <1>2, <2>1 DEF CallInv, CallType, Steps
  <2>3. ReaderInv'  BY <1>1, <2>1 DEF ReaderInv, ReaderOK
  <2> QED  BY <1>3, <2>2, <2>3 DEF Stays, Inv
<1>6. CASE ~(call.type = "Next" /\ call.dir = "Prev")
  <2>1. reader' = r /\ pc' = "idle" /\ call' = NoCall
        /\ status' = IF found THEN "sought" ELSE status
    BY <1>6 DEF SeekReturns
  <2>2. CallInv'  BY <1>1, <1>2, <2>1, NoCallType DEF CallInv, Steps
  <2>3. ReaderInv'  BY <1>1, <2>1 DEF ReaderInv, ReaderOK
  <2> QED  BY <1>3, <2>2, <2>3 DEF Stays, Inv
<1> QED  BY <1>4, <1>5, <1>6

LEMMA SeekOK ==
  ASSUME Inv, Seek
  PROVE  Inv'
<1>1. Stays /\ reader' = reader  BY SameFiles DEF Seek
<1>2. PICK t \in Targets, type \in {"Next", "Prev"} :
        /\ call' = [NoCall EXCEPT !.op = "seek", !.time = t, !.type = type, !.dir = "Prev"]
        /\ astray' = (type = "Prev")
  BY DEF Seek
<1>3. /\ pc' = "list" /\ calls' = calls + 1 /\ calls < MaxCalls /\ status' = "none"
      /\ handed' = NoItems /\ before' = 0 /\ seen' = OnDisk /\ passed' = {}
  BY DEF Seek
<1>4. CallInv'
  <2>1. call' \in CallType  BY <1>2, ConstantsAssumption DEF NoCall, CallType
  <2>2. calls' \in 0..MaxCalls  BY <1>1, <1>3, ConstantTypes DEF Stays, CallInv
  <2> QED  BY <1>3, <2>1, <2>2 DEF CallInv, Steps
<1>5. HistoryInv'
  <2>1. NoItems \in [by : Ways, items : Seq(Item)]  BY NoItemsType
  <2>2. OnDisk \subseteq Chunks /\ {} \subseteq Chunks /\ 0 \in Nat  BY DEF OnDisk
  <2>3. (type = "Prev") \in BOOLEAN  OBVIOUS
  <2>4. astray' \in BOOLEAN  BY <1>2, <2>3
  <2> QED  BY <1>3, <2>1, <2>2, <2>4 DEF HistoryInv
<1>6. ReaderInv'  BY <1>1, <1>3 DEF Stays, ReaderInv
<1> QED  BY <1>1, <1>4, <1>5, <1>6 DEF Stays, Inv

LEMMA SeekListOK ==
  ASSUME Inv, SeekList
  PROVE  Inv'
<1>1. Stays /\ FilesInv /\ ReaderInv /\ CallInv /\ HistoryInv /\ Last' = Last /\ Last \in Nat
      /\ files \in Seq(FileType) /\ pc = "list" /\ UNCHANGED passed
  BY SameFiles DEF SeekList, Stays
<1>2. PICK list : list = GetNearestFile(call.time, call.dir, TRUE)  OBVIOUS
<1>3. list \in Seq(1..Last)  BY <1>1, <1>2, NearestType
<1>4. CASE list = <<>>
  <2>1. SeekReturns(FALSE, reader)  BY <1>2, <1>4 DEF SeekList
  <2>2. PICK found : found = FALSE  OBVIOUS
  <2>3. SeekReturns(found, reader) /\ found \in BOOLEAN /\ ~found  BY <2>1, <2>2
  <2>4. /\ ReaderOK(reader, Last) /\ (reader.file = 0 => status = "none")
        /\ (reader.file # 0 => reader.opened # 0)
    BY <1>1 DEF ReaderInv
  <2> QED  BY <1>1, <2>3, <2>4, SeekReturnsOK
<1>5. CASE list # <<>>
  <2>1. reader' = [reader EXCEPT !.file_list = list] /\ Goes("open") /\ UNCHANGED calls
    BY <1>2, <1>5 DEF SeekList
  <2>2. ReaderOK(reader', Last) /\ reader'.file = reader.file /\ reader'.opened = reader.opened
    BY <1>1, <1>3, <2>1, ListOK DEF ReaderInv
  <2>3. pc' = "open" /\ status' = status  BY <2>1 DEF Goes
  <2>4. CallInv' /\ HistoryInv'  BY <1>1, <2>1 DEF Goes, CallInv, HistoryInv, Steps, historyVars
  <2>5. ReaderInv'  BY <1>1, <2>2, <2>3 DEF ReaderInv
  <2> QED  BY <1>1, <2>4, <2>5 DEF Stays, Inv
<1> QED  BY <1>4, <1>5

LEMMA SeekOpenOK ==
  ASSUME Inv, SeekOpen
  PROVE  Inv'
<1>1. Stays /\ FilesInv /\ ReaderInv /\ CallInv /\ HistoryInv /\ Last' = Last /\ Last \in Nat
      /\ files \in Seq(FileType) /\ pc = "open" /\ UNCHANGED passed
  BY SameFiles DEF SeekOpen, Stays
<1>2. /\ ReaderOK(reader, Last) /\ (reader.file = 0 => status = "none")
      /\ (reader.file # 0 => reader.opened # 0)
  BY <1>1 DEF ReaderInv
<1>3. CASE reader.file_list = <<>>
  <2>1. SeekReturns(FALSE, reader)  BY <1>3 DEF SeekOpen
  <2>2. PICK found : found = FALSE  OBVIOUS
  <2>3. SeekReturns(found, reader) /\ found \in BOOLEAN /\ ~found  BY <2>1, <2>2
  <2> QED  BY <1>1, <1>2, <2>3, SeekReturnsOK
<1>4. CASE reader.file_list # <<>>
  <2>1. PICK taken : taken = Pop(reader, call.dir)  OBVIOUS
  <2>2. PICK at : at = IF Parsed(taken.file) THEN "load" ELSE "open"  OBVIOUS
  <2>3. reader' = ParseHeader(taken.r, taken.file) /\ Goes(at) /\ UNCHANGED calls
    BY <1>4, <2>1, <2>2 DEF SeekOpen
  <2>4. taken.file \in 1..Last /\ ReaderOK(taken.r, Last) /\ taken.r.opened # 0
    BY <1>1, <1>2, <1>4, <2>1, TakenOK
  <2>5. ReaderOK(reader', Last) /\ reader'.file # 0 /\ reader'.opened # 0
    <3>1. Opened(reader', taken.r, taken.file)  BY <1>1, <2>3, <2>4, OpenedOK
    <3> QED  BY <2>4, <3>1 DEF Opened
  <2>6. at \in Steps /\ at \notin {"opennext", "loadnext", "openprev", "loadprev"}
        /\ calls' \in 0..MaxCalls /\ passed' \subseteq Chunks
    BY <1>1, <2>2, <2>3 DEF Steps, CallInv, HistoryInv
  <2>7. CallInv' /\ HistoryInv'  BY <1>1, <2>3, <2>6, GoesOK
  <2> QED  BY <1>1, <2>5, <2>7, Together
<1> QED  BY <1>3, <1>4

LEMMA SeekLoadOK ==
  ASSUME Inv, SeekLoad
  PROVE  Inv'
<1>1. Stays /\ FilesInv /\ ReaderInv /\ CallInv /\ HistoryInv /\ Last' = Last /\ Last \in Nat
      /\ files \in Seq(FileType) /\ pc = "load" /\ UNCHANGED passed
  BY SameFiles DEF SeekLoad, Stays
<1>2. ReaderOK(reader, Last) /\ reader.file # 0 /\ reader.opened # 0
  BY <1>1 DEF ReaderInv
<1>3. PICK loaded : loaded = LoadDataByIndex(reader, call.time, call.dir)  OBVIOUS
<1>4. call.time \in Int /\ call.dir \in {"Next", "Prev"}  BY <1>1 DEF CallInv, CallType
<1>5. /\ ReaderOK(loaded.r, Last) /\ loaded.r.file = reader.file
      /\ loaded.r.opened = reader.opened
  BY <1>1, <1>2, <1>3, <1>4, LoadedOK
<1>6. CASE loaded.ok
  <2>1. SeekReturns(TRUE, loaded.r)  BY <1>3, <1>6 DEF SeekLoad
  <2>2. PICK found : found = TRUE  OBVIOUS
  <2>3. SeekReturns(found, loaded.r) /\ found \in BOOLEAN  BY <2>1, <2>2
  <2> QED  BY <1>1, <1>2, <1>5, <2>3, SeekReturnsOK
<1>7. CASE ~loaded.ok
  <2>1. reader' = loaded.r /\ Goes("open") /\ UNCHANGED calls  BY <1>3, <1>7 DEF SeekLoad
  <2>2. CallInv' /\ HistoryInv'
    BY <1>1, <2>1 DEF Goes, CallInv, HistoryInv, Steps, historyVars
  <2> QED  BY <1>1, <1>2, <1>5, <2>1, <2>2, Together
<1> QED  BY <1>6, <1>7

LEMMA SeekSkipOK ==
  ASSUME Inv, SeekSkip
  PROVE  Inv'
<1>1. Stays /\ ReaderInv /\ CallInv /\ HistoryInv /\ pc = "skip"
      /\ reader' = reader /\ calls' = calls /\ passed' = passed
  BY SameFiles DEF SeekSkip, Stays
<1>2. ReaderOK(reader, Last) /\ reader.file # 0 /\ reader.opened # 0
  BY <1>1 DEF ReaderInv
<1>3. CallInv' /\ HistoryInv'
  <2>1. CASE Goes("next")
    BY <1>1, <2>1 DEF Goes, CallInv, HistoryInv, Steps, historyVars
  <2>2. CASE ~Goes("next")
    <3>1. /\ pc' = "idle" /\ call' = NoCall /\ status' = "sought" /\ astray' = ~call.found
          /\ handed' = handed /\ before' = before /\ seen' = seen
      BY <2>2 DEF SeekSkip
    <3>2. astray' \in BOOLEAN  BY <3>1
    <3> QED  BY <1>1, <3>1, <3>2, NoCallType DEF CallInv, HistoryInv, Steps
  <2> QED  BY <2>1, <2>2
<1> QED  BY <1>1, <1>2, <1>3, Together

LEMMA NextCallOK ==
  ASSUME Inv, NextCall
  PROVE  Inv'
<1>1. Stays /\ ReaderInv /\ CallInv /\ HistoryInv /\ status = "playing"
  BY SameFiles DEF NextCall, Begins, Stays
<1>2. /\ reader' = reader /\ calls' = calls /\ status' = status /\ astray' = astray
      /\ pc' = "next" /\ call' = [NoCall EXCEPT !.op = "next"] /\ seen' = OnDisk
      /\ handed' = handed /\ before' = before /\ passed' = passed
  BY DEF NextCall, Begins
<1>3. ReaderOK(reader, Last) /\ reader.file # 0 /\ reader.opened # 0  BY <1>1 DEF ReaderInv
<1>4. call' \in CallType  BY <1>2 DEF NoCall, CallType
<1>5. CallInv'  BY <1>1, <1>2, <1>4 DEF CallInv, Steps
<1>6. HistoryInv'  BY <1>1, <1>2 DEF HistoryInv, OnDisk
<1> QED  BY <1>1, <1>2, <1>3, <1>5, <1>6, Together

LEMMA PrevCallOK ==
  ASSUME Inv, PrevCall
  PROVE  Inv'
<1>1. Stays /\ ReaderInv /\ CallInv /\ HistoryInv /\ status # "none"
  BY SameFiles DEF PrevCall, Begins, Stays
<1>2. /\ reader' = reader /\ calls' = calls + 1 /\ calls < MaxCalls /\ status' = status
      /\ astray' = TRUE
      /\ pc' = "prev" /\ call' = [NoCall EXCEPT !.op = "prev"] /\ seen' = OnDisk
      /\ handed' = handed /\ before' = before /\ passed' = passed
  BY DEF PrevCall, Begins
<1>3. ReaderOK(reader, Last) /\ reader.file # 0 /\ reader.opened # 0  BY <1>1 DEF ReaderInv
<1>4. call' \in CallType  BY <1>2 DEF NoCall, CallType
<1>5. calls' \in 0..MaxCalls  BY <1>1, <1>2, ConstantTypes DEF CallInv
<1>6. CallInv'  BY <1>1, <1>2, <1>4, <1>5 DEF CallInv, Steps
<1>7. HistoryInv'  BY <1>1, <1>2 DEF HistoryInv, OnDisk
<1> QED  BY <1>1, <1>2, <1>3, <1>6, <1>7, Together

\* A step inside a call for data, whose object has a file.
LEMMA InCall ==
  ASSUME Inv, UNCHANGED writerVars, pc \notin {"idle", "list", "open"}
  PROVE  /\ Stays /\ FilesInv /\ CallInv /\ HistoryInv /\ Last' = Last /\ Last \in Nat
         /\ files \in Seq(FileType) /\ ReaderOK(reader, Last) /\ reader.file # 0
         /\ reader.file \in 1..Last /\ reader.opened # 0
<1>1. Stays  BY SameFiles
<1>2. ReaderOK(reader, Last) /\ reader.file # 0 /\ reader.opened # 0
  BY <1>1 DEF Stays, ReaderInv
<1>3. reader.file \in Nat /\ reader.file <= Last  BY <1>2 DEF ReaderOK, ReaderType
<1> QED  BY <1>1, <1>2, <1>3 DEF Stays

LEMMA NextInFileOK ==
  ASSUME Inv, NextInFile
  PROVE  Inv'
<1>1. /\ Stays /\ FilesInv /\ CallInv /\ HistoryInv /\ Last' = Last /\ Last \in Nat
      /\ ReaderOK(reader, Last) /\ reader.file # 0 /\ reader.opened # 0
  BY InCall DEF NextInFile
<1>2. PICK found : found = GetNextData(reader)  OBVIOUS
<1>3. /\ ReaderOK(found.r, Last) /\ found.got \in Seq(Item) /\ found.r.file = reader.file
      /\ found.r.opened = reader.opened /\ found.r.headers = reader.headers
      /\ found.r.data_index # reader.data_index => found.r.data_index = reader.data_index + 1
  BY <1>1, <1>2, NextDataOK
<1>4. /\ reader' = found.r /\ calls' = calls
      /\ IF found.got # <<>> THEN NextReturns("next", found.got) ELSE Goes("grown")
      /\ passed' = IF found.got = <<>> /\ found.r.data_index # reader.data_index
                     THEN passed \cup {reader.headers[found.r.data_index + 1].chunk}
                     ELSE passed
  BY <1>2 DEF NextInFile
<1>5. passed' \subseteq Chunks
  <2>1. passed \subseteq Chunks  BY <1>1 DEF HistoryInv
  <2>2. CASE found.got = <<>> /\ found.r.data_index # reader.data_index
    <3>1. PICK i : i = found.r.data_index + 1  OBVIOUS
    <3>2. found.r.data_index \in -1..(Len(found.r.headers) - 1)  BY <1>3 DEF ReaderOK
    <3>3. /\ reader.data_index \in -1..(Len(reader.headers) - 1) /\ reader.headers \in Seq(EntryType)
          /\ Len(reader.headers) \in Nat
      BY <1>1 DEF ReaderOK, ReaderType
    <3>4. i \in 1..Len(reader.headers)
      <4>1. PICK a : a = found.r.data_index  OBVIOUS
      <4>2. PICK b : b = reader.data_index  OBVIOUS
      <4>3. PICK l : l = Len(reader.headers)  OBVIOUS
      <4>4. i = a + 1 /\ a = b + 1 /\ a \in -1..(l - 1) /\ b \in -1..(l - 1) /\ l \in Nat
        BY <1>3, <2>2, <3>1, <3>2, <3>3, <4>1, <4>2, <4>3
      <4>5. i \in 1..l  BY ONLY <4>4
      <4> QED  BY <4>3, <4>5
    <3>5. reader.headers[i] \in EntryType  BY <3>3, <3>4
    <3>6. reader.headers[i].chunk \in Chunks  BY <3>5 DEF EntryType
    <3> QED  BY <1>4, <2>1, <2>2, <3>1, <3>6
  <2> QED  BY <1>4, <2>1, <2>2
<1>6. calls' \in 0..MaxCalls  BY <1>1, <1>4 DEF CallInv
<1>7. CallInv' /\ HistoryInv'
  <2>1. CASE found.got # <<>>
    <3>1. "next" \in Ways /\ NextReturns("next", found.got)  BY <1>4, <2>1 DEF Ways
    <3> QED  BY <1>1, <1>3, <1>5, <1>6, <3>1, NextReturnsOK
  <2>2. CASE found.got = <<>>
    <3>1. "grown" \in Steps /\ Goes("grown")  BY <1>4, <2>2 DEF Steps
    <3> QED  BY <1>1, <1>5, <1>6, <3>1, GoesOK
  <2> QED  BY <2>1, <2>2
<1> QED  BY <1>1, <1>3, <1>4, <1>7, Together

LEMMA EmptyType == <<>> \in Seq(Item)
OBVIOUS

LEMMA NextIfGrownOK ==
  ASSUME Inv, NextIfGrown
  PROVE  Inv'
<1>1. /\ Stays /\ FilesInv /\ CallInv /\ HistoryInv /\ Last' = Last /\ Last \in Nat
      /\ ReaderOK(reader, Last) /\ reader.file # 0 /\ reader.file \in 1..Last /\ reader.opened # 0
  BY InCall DEF NextIfGrown
<1>2. calls' = calls /\ calls' \in 0..MaxCalls /\ passed \subseteq Chunks
  BY <1>1 DEF NextIfGrown, CallInv, HistoryInv
<1>3. CASE FileSize(reader.file) <= reader.size
  <2>1. /\ pc' = "nextfile" /\ call' = [call EXCEPT !.missing = Chunks \ OnDisk]
        /\ UNCHANGED <<reader, status, historyVars, passed>>
    BY <1>3 DEF NextIfGrown
  <2>2. CallInv' /\ HistoryInv'
    <3>1. call' \in CallType  BY <1>1, <2>1 DEF CallInv, CallType
    <3> QED  BY <1>1, <1>2, <2>1, <3>1 DEF CallInv, HistoryInv, Steps, historyVars
  <2> QED  BY <1>1, <2>1, <2>2, Together
<1>4. CASE ~(FileSize(reader.file) <= reader.size)
  <2>1. /\ reader' = ParseHeader(reader, reader.file)
        /\ IF Parsed(reader.file) THEN Goes("reload") ELSE NextReturns("again", <<>>)
        /\ passed' = {c \in passed : Begin(c) < Greatest({Stamp(reader.file), reader.position + 1})}
    BY <1>4 DEF NextIfGrown
  <2>2. ReaderOK(reader', Last) /\ reader'.file # 0 /\ reader'.opened # 0
    <3>1. Opened(reader', reader, reader.file)  BY <1>1, <2>1, OpenedOK
    <3> QED  BY <1>1, <3>1 DEF Opened
  <2>3. passed' \subseteq Chunks  BY <1>2, <2>1
  <2>4. CallInv' /\ HistoryInv'
    <3>1. CASE Parsed(reader.file)
      <4>1. "reload" \in Steps /\ Goes("reload")  BY <2>1, <3>1 DEF Steps
      <4> QED  BY <1>1, <1>2, <2>3, <4>1, GoesOK
    <3>2. CASE ~Parsed(reader.file)
      <4>1. PICK items : items = <<>>  OBVIOUS
      <4>2. "again" \in Ways /\ NextReturns("again", items) /\ items \in Seq(Item)
        BY <2>1, <3>2, <4>1 DEF Ways
      <4> QED  BY <1>1, <1>2, <2>3, <4>2, NextReturnsOK
    <3> QED  BY <3>1, <3>2
  <2> QED  BY <1>1, <2>2, <2>4, Together
<1> QED  BY <1>3, <1>4

LEMMA NextLoadOK ==
  ASSUME Inv, NEW at \in {"reload", "loadnext"}, NEW time \in Int, NEW then \in {"retake", "take"},
         NextLoad(at, time, then)
  PROVE  Inv'
<1>1. /\ Stays /\ FilesInv /\ CallInv /\ HistoryInv /\ Last' = Last /\ Last \in Nat
      /\ ReaderOK(reader, Last) /\ reader.file # 0 /\ reader.opened # 0
  BY InCall DEF NextLoad
<1>2. calls' \in 0..MaxCalls /\ passed' \subseteq Chunks
  BY <1>1 DEF NextLoad, CallInv, HistoryInv
<1>3. PICK loaded : loaded = LoadDataByIndex(reader, time, "Next")  OBVIOUS
<1>4. /\ ReaderOK(loaded.r, Last) /\ loaded.r.file = reader.file
      /\ loaded.r.opened = reader.opened
  BY <1>1, <1>3, LoadedOK
<1>5. reader' = loaded.r /\ IF loaded.ok THEN Goes(then) ELSE NextReturns("next", <<>>)
  BY <1>3 DEF NextLoad
<1>6. CallInv' /\ HistoryInv'
  <2>1. CASE loaded.ok
    <3>1. then \in Steps /\ Goes(then) /\ then \notin {"opennext", "loadnext", "openprev", "loadprev"}
      BY <1>5, <2>1 DEF Steps
    <3> QED  BY <1>1, <1>2, <3>1, GoesOK
  <2>2. CASE ~loaded.ok
    <3>1. PICK items : items = <<>>  OBVIOUS
    <3>2. "next" \in Ways /\ NextReturns("next", items) /\ items \in Seq(Item)
      BY <1>5, <2>2, <3>1 DEF Ways
    <3> QED  BY <1>1, <1>2, <3>2, NextReturnsOK
  <2> QED  BY <2>1, <2>2
<1> QED  BY <1>1, <1>4, <1>5, <1>6, Together

LEMMA NextTakeOK ==
  ASSUME Inv, NEW at \in {"retake", "take"}, NEW by \in Ways, NextTake(at, by)
  PROVE  Inv'
<1>1. /\ Stays /\ FilesInv /\ CallInv /\ HistoryInv /\ Last' = Last /\ Last \in Nat
      /\ ReaderOK(reader, Last) /\ reader.file # 0 /\ reader.opened # 0
  BY InCall DEF NextTake
<1>2. calls' \in 0..MaxCalls /\ passed' \subseteq Chunks
  BY <1>1 DEF NextTake, CallInv, HistoryInv
<1>3. PICK found : found = GetNextData(reader)  OBVIOUS
<1>4. /\ ReaderOK(found.r, Last) /\ found.got \in Seq(Item) /\ found.r.file = reader.file
      /\ found.r.opened = reader.opened
  BY <1>1, <1>3, NextDataOK
<1>5. reader' = found.r /\ NextReturns(by, found.got)  BY <1>3 DEF NextTake
<1>6. CallInv' /\ HistoryInv'  BY <1>1, <1>2, <1>4, <1>5, NextReturnsOK
<1> QED  BY <1>1, <1>4, <1>5, <1>6, Together

\* What NextFile and PrevFile take a file from.
Listed(t, dir) ==
  IF reader.file_list # <<>> THEN reader.file_list ELSE GetNearestFile(t, dir, FALSE)

Takes(taken, t, dir) ==
  Listed(t, dir) # <<>> /\ taken = Pop([reader EXCEPT !.file_list = Listed(t, dir)], dir)

TakenOff(taken) ==
  /\ taken.file \in 1..Last /\ ReaderOK(taken.r, Last) /\ taken.r.opened # 0
  /\ taken.r.opened = Stamp(taken.file) % Width
  /\ taken.r.file = reader.file /\ taken.r.headers = reader.headers
  /\ taken.r.datas = reader.datas /\ taken.r.data_index = reader.data_index
  /\ taken.r.next = reader.next /\ taken.r.position = reader.position /\ taken.r.size = reader.size

LEMMA FromList ==
  ASSUME FilesInv, ReaderOK(reader, Last), NEW t, NEW dir, NEW taken, Takes(taken, t, dir)
  PROVE  TakenOff(taken)
<1>a. PICK list : list = Listed(t, dir)  OBVIOUS
<1>b. list # <<>> /\ taken = Pop([reader EXCEPT !.file_list = list], dir)  BY <1>a DEF Takes
<1>1. files \in Seq(FileType) /\ Last \in Nat  BY DEF FilesInv, Last
<1>2. list \in Seq(1..Last)
  <2>1. CASE reader.file_list # <<>>
    <3>1. list = reader.file_list  BY <1>a, <2>1 DEF Listed
    <3> QED  BY <3>1 DEF ReaderOK
  <2>2. CASE reader.file_list = <<>>
    <3>1. list = GetNearestFile(t, dir, FALSE)  BY <1>a, <2>2 DEF Listed
    <3>2. PICK include : include = FALSE  OBVIOUS
    <3>3. list = GetNearestFile(t, dir, include)  BY <3>1, <3>2
    <3> QED  BY <1>1, <3>3, NearestType
  <2> QED  BY <2>1, <2>2
<1>0. PICK r : r = reader  OBVIOUS
<1>3. PICK q : q = [r EXCEPT !.file_list = list]  OBVIOUS
<1>4. /\ ReaderOK(q, Last) /\ q.file_list = list /\ q.file = r.file
      /\ q.headers = r.headers /\ q.datas = r.datas /\ q.data_index = r.data_index
      /\ q.next = r.next /\ q.position = r.position /\ q.size = r.size
  <2>1. ReaderOK(r, Last) /\ Last \in Nat  BY <1>0, <1>1
  <2> QED  BY ONLY <1>2, <1>3, <2>1, ListOK
<1>5. taken = Pop(q, dir) /\ q.file_list # <<>> /\ FilesInv  BY <1>b, <1>0, <1>3, <1>4
<1>6. /\ taken.file \in 1..Last /\ ReaderOK(taken.r, Last) /\ taken.r.opened # 0
      /\ taken.r.opened = Stamp(taken.file) % Width
      /\ taken.r.file = q.file /\ taken.r.headers = q.headers
      /\ taken.r.datas = q.datas /\ taken.r.data_index = q.data_index
      /\ taken.r.next = q.next /\ taken.r.position = q.position /\ taken.r.size = q.size
  BY ONLY <1>4, <1>5, TakenOK
<1> QED  BY <1>0, <1>4, <1>6 DEF TakenOff

LEMMA NextFileOK ==
  ASSUME Inv, NextFile
  PROVE  Inv'
<1>1. /\ Stays /\ FilesInv /\ CallInv /\ HistoryInv /\ Last' = Last /\ Last \in Nat
      /\ ReaderOK(reader, Last) /\ reader.file # 0 /\ reader.opened # 0
  BY InCall DEF NextFile
<1>2. calls' \in 0..MaxCalls /\ passed \subseteq Chunks /\ call.missing \subseteq Chunks
  BY <1>1 DEF NextFile, CallInv, HistoryInv, CallType
<1>3. PICK list : list = IF reader.file_list # <<>> THEN reader.file_list
                         ELSE GetNearestFile(reader.position, "Next", FALSE)
  OBVIOUS
<1>4. CASE list = <<>>
  <2>1. NextReturns("next", <<>>) /\ reader' = reader /\ passed' = passed
    BY <1>3, <1>4 DEF NextFile
  <2>2. PICK items : items = <<>>  OBVIOUS
  <2>3. "next" \in Ways /\ NextReturns("next", items) /\ items \in Seq(Item)
    BY <2>1, <2>2 DEF Ways
  <2>4. CallInv' /\ HistoryInv'  BY <1>1, <1>2, <2>1, <2>3, NextReturnsOK
  <2> QED  BY <1>1, <2>1, <2>4, Together
<1>5. CASE list # <<>>
  <2>1. PICK taken : taken = Pop([reader EXCEPT !.file_list = list], "Next")  OBVIOUS
  <2>2. /\ reader' = taken.r
        /\ pc' = "opennext" /\ call' = [call EXCEPT !.file = taken.file]
        /\ passed' = passed \cup {c \in call.missing : Begin(c) < Stamp(taken.file)}
        /\ UNCHANGED <<status, historyVars>>
    BY <1>3, <1>5, <2>1 DEF NextFile
  <2>3. /\ taken.file \in 1..Last /\ ReaderOK(taken.r, Last) /\ taken.r.opened # 0
        /\ taken.r.file = reader.file
    <3>1. Takes(taken, reader.position, "Next")  BY <1>3, <1>5, <2>1 DEF Takes, Listed
    <3>2. TakenOff(taken)  BY <1>1, <3>1, FromList
    <3> QED  BY <3>2 DEF TakenOff
  <2>4. CallInv'
    <3>1. call' \in CallType /\ call'.file = taken.file  BY <1>1, <2>2, <2>3 DEF CallInv, CallType
    <3> QED  BY <1>1, <1>2, <2>2, <2>3, <3>1 DEF CallInv, Steps
  <2>5. HistoryInv'  BY <1>1, <1>2, <2>2 DEF HistoryInv, historyVars
  <2> QED  BY <1>1, <2>2, <2>3, <2>4, <2>5, Together
<1> QED  BY <1>4, <1>5

LEMMA NextOpenOK ==
  ASSUME Inv, NextOpen
  PROVE  Inv'
<1>1. /\ Stays /\ FilesInv /\ CallInv /\ HistoryInv /\ Last' = Last /\ Last \in Nat
      /\ ReaderOK(reader, Last) /\ reader.file # 0 /\ reader.opened # 0
  BY InCall DEF NextOpen
<1>2. calls' \in 0..MaxCalls /\ passed' \subseteq Chunks
  BY <1>1 DEF NextOpen, CallInv, HistoryInv
<1>3. call.file \in 1..Last  BY <1>1 DEF NextOpen, CallInv
<1>4. /\ reader' = ParseHeader(reader, call.file)
      /\ IF Parsed(call.file) THEN Goes("loadnext") ELSE NextReturns("next", <<>>)
  BY DEF NextOpen
<1>5. ReaderOK(reader', Last) /\ reader'.file # 0 /\ reader'.opened # 0
  <2>1. Opened(reader', reader, call.file)  BY <1>1, <1>3, <1>4, OpenedOK
  <2> QED  BY <1>1, <2>1 DEF Opened
<1>6. CallInv' /\ HistoryInv'
  <2>1. CASE Parsed(call.file)
    <3>1. "loadnext" \in Steps /\ Goes("loadnext")  BY <1>4, <2>1 DEF Steps
    <3> QED  BY <1>1, <1>2, <1>3, <3>1, GoesOK
  <2>2. CASE ~Parsed(call.file)
    <3>1. PICK items : items = <<>>  OBVIOUS
    <3>2. "next" \in Ways /\ NextReturns("next", items) /\ items \in Seq(Item)
      BY <1>4, <2>2, <3>1 DEF Ways
    <3> QED  BY <1>1, <1>2, <3>2, NextReturnsOK
  <2> QED  BY <2>1, <2>2
<1> QED  BY <1>1, <1>5, <1>6, Together

LEMMA NextStepsOK ==
  ASSUME Inv, NextReload \/ NextRetake \/ NextFileLoad \/ NextFileTake
  PROVE  Inv'
<1>1. reader.position \in Nat  BY DEF Inv, ReaderInv, ReaderOK, ReaderType
<1>2. CASE NextReload
  <2>1. PICK at : at = "reload"  OBVIOUS
  <2>2. PICK time : time = reader.position  OBVIOUS
  <2>3. PICK then : then = "retake"  OBVIOUS
  <2>4. NextLoad(at, time, then) /\ time \in Int  BY <1>1, <1>2, <2>1, <2>2, <2>3 DEF NextReload
  <2> QED  BY <2>1, <2>3, <2>4, NextLoadOK
<1>3. CASE NextFileLoad
  <2>1. PICK at : at = "loadnext"  OBVIOUS
  <2>2. PICK time : time = Stamp(call.file)  OBVIOUS
  <2>3. PICK then : then = "take"  OBVIOUS
  <2>4. NextLoad(at, time, then)  BY <1>3, <2>1, <2>2, <2>3 DEF NextFileLoad
  <2>5. time \in Int
    <3>1. call.file \in 1..Last /\ files \in Seq(FileType)
      BY <2>1, <2>4 DEF NextLoad, Inv, CallInv, FilesInv
    <3> QED  BY <2>2, <3>1, EntriesType
  <2> QED  BY <2>1, <2>3, <2>4, <2>5, NextLoadOK
<1>4. CASE NextRetake
  <2>1. PICK at : at = "retake"  OBVIOUS
  <2>2. NextTake(at, "again") /\ "again" \in Ways  BY <1>4, <2>1 DEF NextRetake, Ways
  <2> QED  BY <2>1, <2>2, NextTakeOK
<1>5. CASE NextFileTake
  <2>1. PICK at : at = "take"  OBVIOUS
  <2>2. NextTake(at, "next") /\ "next" \in Ways  BY <1>5, <2>1 DEF NextFileTake, Ways
  <2> QED  BY <2>1, <2>2, NextTakeOK
<1> QED  BY <1>2, <1>3, <1>4, <1>5

LEMMA PrevInFileOK ==
  ASSUME Inv, PrevInFile
  PROVE  Inv'
<1>1. /\ Stays /\ FilesInv /\ CallInv /\ HistoryInv /\ Last' = Last /\ Last \in Nat
      /\ ReaderOK(reader, Last) /\ reader.file # 0 /\ reader.opened # 0
  BY InCall DEF PrevInFile
<1>2. calls' \in 0..MaxCalls /\ passed' \subseteq Chunks
  BY <1>1 DEF PrevInFile, CallInv, HistoryInv
<1>3. PICK found : found = GetPrevData(reader)  OBVIOUS
<1>4. /\ ReaderOK(found.r, Last) /\ found.got \in Seq(Item) /\ found.r.file = reader.file
      /\ found.r.opened = reader.opened
  BY <1>1, <1>3, PrevDataOK
<1>5. /\ reader' = found.r
      /\ IF found.got # <<>> THEN Returns("prev", found.got) ELSE Goes("prevfile")
  BY <1>3 DEF PrevInFile
<1>6. CallInv' /\ HistoryInv'
  <2>1. CASE found.got # <<>>
    <3>1. "prev" \in Ways /\ Returns("prev", found.got)  BY <1>5, <2>1 DEF Ways
    <3> QED  BY <1>1, <1>2, <1>4, <3>1, ReturnsOK
  <2>2. CASE found.got = <<>>
    <3>1. "prevfile" \in Steps /\ Goes("prevfile")  BY <1>5, <2>2 DEF Steps
    <3> QED  BY <1>1, <1>2, <3>1, GoesOK
  <2> QED  BY <2>1, <2>2
<1> QED  BY <1>1, <1>4, <1>5, <1>6, Together

LEMMA PrevFileOK ==
  ASSUME Inv, PrevFile
  PROVE  Inv'
<1>1. /\ Stays /\ FilesInv /\ CallInv /\ HistoryInv /\ Last' = Last /\ Last \in Nat
      /\ ReaderOK(reader, Last) /\ reader.file # 0 /\ reader.opened # 0
  BY InCall DEF PrevFile
<1>2. calls' \in 0..MaxCalls /\ passed' \subseteq Chunks /\ passed' = passed
  BY <1>1 DEF PrevFile, CallInv, HistoryInv
<1>3. PICK time : time = reader.opened - 1  OBVIOUS
<1>4. time \in Nat
  <2>1. PICK o : o = reader.opened  OBVIOUS
  <2>2. o \in 0..(Width - 1) /\ o # 0 /\ Width \in Nat  BY <1>1, <2>1, ConstantTypes DEF ReaderOK, ReaderType
  <2> QED  BY ONLY <1>3, <2>1, <2>2
<1>5. PICK list : list = IF reader.file_list # <<>> THEN reader.file_list
                         ELSE GetNearestFile(time, "Prev", FALSE)
  OBVIOUS
<1>6. CASE list = <<>>
  <2>1. Returns("prev", <<>>) /\ reader' = reader  BY <1>3, <1>5, <1>6 DEF PrevFile
  <2>2. PICK items : items = <<>>  OBVIOUS
  <2>3. "prev" \in Ways /\ Returns("prev", items) /\ items \in Seq(Item)
    BY <2>1, <2>2 DEF Ways
  <2>4. CallInv' /\ HistoryInv'  BY <1>1, <1>2, <2>3, ReturnsOK
  <2> QED  BY <1>1, <2>1, <2>4, Together
<1>7. CASE list # <<>>
  <2>1. PICK taken : taken = Pop([reader EXCEPT !.file_list = list], "Prev")  OBVIOUS
  <2>2. /\ reader' = taken.r
        /\ pc' = "openprev" /\ call' = [call EXCEPT !.file = taken.file, !.time = time]
        /\ UNCHANGED <<status, historyVars>>
    BY <1>3, <1>5, <1>7, <2>1 DEF PrevFile
  <2>3. /\ taken.file \in 1..Last /\ ReaderOK(taken.r, Last) /\ taken.r.opened # 0
        /\ taken.r.file = reader.file
    <3>1. Takes(taken, time, "Prev")  BY <1>5, <1>7, <2>1 DEF Takes, Listed
    <3>2. TakenOff(taken)  BY <1>1, <3>1, FromList
    <3> QED  BY <3>2 DEF TakenOff
  <2>4. CallInv'
    <3>1. call' \in CallType /\ call'.file = taken.file
      <4>1. PICK c : c = call'  OBVIOUS
      <4>2. PICK f : f = taken.file  OBVIOUS
      <4>3. call \in CallType /\ f \in Nat  BY <1>1, <2>3, <4>2 DEF CallInv
      <4>4. c = [call EXCEPT !.file = f, !.time = time]  BY <2>2, <4>1, <4>2
      <4>5. c \in CallType /\ c.file = f  BY ONLY <1>4, <4>3, <4>4 DEF CallType
      <4> QED  BY <4>1, <4>2, <4>5
    <3> QED  BY <1>1, <1>2, <2>2, <2>3, <3>1 DEF CallInv, Steps
  <2>5. HistoryInv'  BY <1>1, <1>2, <2>2 DEF HistoryInv, historyVars
  <2> QED  BY <1>1, <2>2, <2>3, <2>4, <2>5, Together
<1> QED  BY <1>6, <1>7

LEMMA PrevOpenOK ==
  ASSUME Inv, PrevOpen
  PROVE  Inv'
<1>1. /\ Stays /\ FilesInv /\ CallInv /\ HistoryInv /\ Last' = Last /\ Last \in Nat
      /\ ReaderOK(reader, Last) /\ reader.file # 0 /\ reader.opened # 0
  BY InCall DEF PrevOpen
<1>2. calls' \in 0..MaxCalls /\ passed' \subseteq Chunks
  BY <1>1 DEF PrevOpen, CallInv, HistoryInv
<1>3. call.file \in 1..Last  BY <1>1 DEF PrevOpen, CallInv
<1>4. /\ reader' = ParseHeader(reader, call.file)
      /\ IF Parsed(call.file) THEN Goes("loadprev") ELSE Returns("prev", <<>>)
  BY DEF PrevOpen
<1>5. ReaderOK(reader', Last) /\ reader'.file # 0 /\ reader'.opened # 0
  <2>1. Opened(reader', reader, call.file)  BY <1>1, <1>3, <1>4, OpenedOK
  <2> QED  BY <1>1, <2>1 DEF Opened
<1>6. CallInv' /\ HistoryInv'
  <2>1. CASE Parsed(call.file)
    <3>1. "loadprev" \in Steps /\ Goes("loadprev")  BY <1>4, <2>1 DEF Steps
    <3> QED  BY <1>1, <1>2, <1>3, <3>1, GoesOK
  <2>2. CASE ~Parsed(call.file)
    <3>1. PICK items : items = <<>>  OBVIOUS
    <3>2. "prev" \in Ways /\ Returns("prev", items) /\ items \in Seq(Item)
      BY <1>4, <2>2, <3>1 DEF Ways
    <3> QED  BY <1>1, <1>2, <3>2, ReturnsOK
  <2> QED  BY <2>1, <2>2
<1> QED  BY <1>1, <1>5, <1>6, Together

LEMMA PrevLoadOK ==
  ASSUME Inv, PrevLoad
  PROVE  Inv'
<1>1. /\ Stays /\ FilesInv /\ CallInv /\ HistoryInv /\ Last' = Last /\ Last \in Nat
      /\ ReaderOK(reader, Last) /\ reader.file # 0 /\ reader.opened # 0
  BY InCall DEF PrevLoad
<1>2. calls' \in 0..MaxCalls /\ passed' \subseteq Chunks
  BY <1>1 DEF PrevLoad, CallInv, HistoryInv
<1>3. PICK loaded : loaded = LoadDataByIndex(reader, call.time, "Prev")  OBVIOUS
<1>4. call.time \in Int  BY <1>1 DEF CallInv, CallType
<1>5. /\ ReaderOK(loaded.r, Last) /\ loaded.r.file = reader.file
      /\ loaded.r.opened = reader.opened
  BY <1>1, <1>3, <1>4, LoadedOK
<1>6. CASE loaded.ok
  <2>1. PICK target : target = FALSE  OBVIOUS
  <2>2. PICK found : found = GetStreamChunk(loaded.r, target)  OBVIOUS
  <2>3. reader' = found.r /\ Returns("prev", found.got) /\ "prev" \in Ways
    BY <1>3, <1>6, <2>1, <2>2 DEF PrevLoad, Ways
  <2>4. ReaderOK(found.r, Last) /\ found.got \in Seq(Item) /\ SameLoaded(found.r, loaded.r)
    <3>1. PICK q : q = loaded.r  OBVIOUS
    <3> QED  BY <1>1, <1>5, <2>2, <3>1, StreamChunkOK
  <2>5. CallInv' /\ HistoryInv'  BY <1>1, <1>2, <2>3, <2>4, ReturnsOK
  <2> QED  BY <1>1, <1>5, <2>3, <2>4, <2>5, Together DEF SameLoaded
<1>7. CASE ~loaded.ok
  <2>1. PICK items : items = <<>>  OBVIOUS
  <2>2. reader' = loaded.r /\ Returns("prev", items) /\ items \in Seq(Item) /\ "prev" \in Ways
    BY <1>3, <1>7, <2>1 DEF PrevLoad, Ways
  <2>3. CallInv' /\ HistoryInv'  BY <1>1, <1>2, <2>2, ReturnsOK
  <2> QED  BY <1>1, <1>5, <2>2, <2>3, Together
<1> QED  BY <1>6, <1>7

LEMMA StreamStepOK ==
  ASSUME Inv, NEW target \in BOOLEAN, NEW by \in Ways, NEW found,
         found = GetStreamGop(reader, target) \/ found = GetStreamChunk(reader, target),
         Stream(by, found)
  PROVE  Inv'
<1>2. /\ Stays /\ FilesInv /\ ReaderInv /\ CallInv /\ HistoryInv /\ Last' = Last /\ Last \in Nat
      /\ status # "none"
  BY SameFiles DEF Stream, Stays
<1>3. ReaderOK(reader, Last) /\ reader.file # 0 /\ reader.opened # 0  BY <1>2 DEF ReaderInv
<1>4. ReaderOK(found.r, Last) /\ found.got \in Seq(Item) /\ SameLoaded(found.r, reader)
  <2>1. PICK r : r = reader  OBVIOUS
  <2>2. ReaderOK(r, Last) /\ (found = GetStreamGop(r, target) \/ found = GetStreamChunk(r, target))
    BY <1>3, <2>1
  <2>3. CASE found = GetStreamGop(r, target)  BY <1>2, <2>1, <2>2, <2>3, StreamGopOK
  <2>4. CASE found = GetStreamChunk(r, target)  BY <1>2, <2>1, <2>2, <2>4, StreamChunkOK
  <2> QED  BY <2>2, <2>3, <2>4
<1>5. /\ pc' = pc /\ call' = call /\ passed' = passed /\ calls < MaxCalls /\ calls' = calls + 1
      /\ status' = "playing" /\ seen' = OnDisk /\ reader' = found.r
      /\ handed' = [by |-> by, items |-> found.got] /\ before' = LastVideo(handed.items, before)
      /\ astray' = (astray \/ found.r.position \notin Frames({reader.datas} \ {0}))
  BY DEF Stream
<1>6. calls' \in 0..MaxCalls  BY <1>2, <1>5, ConstantTypes DEF CallInv
<1>7. CallInv'  BY <1>2, <1>5, <1>6 DEF CallInv
<1>8. HistoryInv'
  <2>1. astray' \in BOOLEAN  BY <1>5
  <2>2. handed' \in [by : Ways, items : Seq(Item)]  BY <1>4, <1>5
  <2>3. before' \in Nat  BY <1>2, <1>5, HandedType
  <2> QED  BY <1>2, <1>5, <2>1, <2>2, <2>3 DEF HistoryInv, OnDisk
<1> QED  BY <1>2, <1>3, <1>4, <1>5, <1>7, <1>8, Together DEF SameLoaded

LEMMA StreamOK ==
  ASSUME Inv, StreamGop \/ StreamChunk
  PROVE  Inv'
<1>1. CASE StreamGop
  <2>1. PICK target \in BOOLEAN :
          Stream(IF target THEN "gop to target" ELSE "gop", GetStreamGop(reader, target))
    BY <1>1 DEF StreamGop
  <2>2. PICK by : by = IF target THEN "gop to target" ELSE "gop"  OBVIOUS
  <2>3. by \in Ways  BY <2>2 DEF Ways
  <2>4. PICK found : found = GetStreamGop(reader, target)  OBVIOUS
  <2>5. Stream(by, found)  BY <2>1, <2>2, <2>4
  <2> QED  BY <2>3, <2>4, <2>5, StreamStepOK
<1>2. CASE StreamChunk
  <2>1. PICK target \in BOOLEAN : Stream("chunk", GetStreamChunk(reader, target))
    BY <1>2 DEF StreamChunk
  <2>2. PICK by : by = "chunk"  OBVIOUS
  <2>3. by \in Ways  BY <2>2 DEF Ways
  <2>4. PICK found : found = GetStreamChunk(reader, target)  OBVIOUS
  <2>5. Stream(by, found)  BY <2>1, <2>2, <2>4
  <2> QED  BY <2>3, <2>4, <2>5, StreamStepOK
<1> QED  BY <1>1, <1>2

LEMMA StepOK == Inv /\ [Next]_vars => Inv'
<1> SUFFICES ASSUME Inv, [Next]_vars PROVE Inv'  OBVIOUS
<1>1. CASE Writer
  BY <1>1, CreateOK, InitBufferOK, WriteIndexInfoOK, WriteDiskOK, FileCloseOK DEF Writer
<1>2. CASE Seek  BY <1>2, SeekOK
<1>3. CASE NextCall  BY <1>3, NextCallOK
<1>4. CASE PrevCall  BY <1>4, PrevCallOK
<1>5. CASE StreamGop \/ StreamChunk  BY <1>5, StreamOK
<1>6. CASE Continues
  <2>1. CASE SeekList \/ SeekOpen \/ SeekLoad \/ SeekSkip
    BY <2>1, SeekListOK, SeekOpenOK, SeekLoadOK, SeekSkipOK
  <2>2. CASE NextInFile \/ NextIfGrown \/ NextFile \/ NextOpen
    BY <2>2, NextInFileOK, NextIfGrownOK, NextFileOK, NextOpenOK
  <2>3. CASE NextReload \/ NextRetake \/ NextFileLoad \/ NextFileTake  BY <2>3, NextStepsOK
  <2>4. CASE PrevInFile \/ PrevFile \/ PrevOpen \/ PrevLoad
    BY <2>4, PrevInFileOK, PrevFileOK, PrevOpenOK, PrevLoadOK
  <2> QED  BY <1>6, <2>1, <2>2, <2>3, <2>4 DEF Continues
<1>7. CASE UNCHANGED vars
  <2>1. /\ files' = files /\ written' = written /\ open' = open /\ reader' = reader /\ pc' = pc
        /\ call' = call /\ calls' = calls /\ status' = status /\ handed' = handed
        /\ before' = before /\ astray' = astray /\ seen' = seen /\ passed' = passed
    BY <1>7 DEF vars, writerVars, historyVars
  <2>2. Stays  BY <2>1, SameFiles DEF writerVars
  <2>3. CallInv' /\ HistoryInv' /\ ReaderInv'
    BY <2>1, <2>2 DEF Stays, CallInv, HistoryInv, ReaderInv
  <2> QED  BY <2>2, <2>3 DEF Stays, Inv
<1> QED  BY <1>1, <1>2, <1>3, <1>4, <1>5, <1>6, <1>7 DEF Next

\* What the reader, the call under way and the history hold has its type; the reader's file
\* is one that exists, and its positions point into the index it has parsed and the chunk it
\* has loaded (ReaderObject, ReaderStreamChunk), whatever files the writer makes meanwhile.
THEOREM TypeCorrect == Spec => []TypeOK
<1>1. Init => Inv  BY InitOK
<1>2. Inv /\ [Next]_vars => Inv'  BY StepOK
<1>3. Inv => TypeOK  BY InvType
<1> QED  BY <1>1, <1>2, <1>3, PTL DEF Spec

-----------------------------------------------------------------------------
(***************************************************************************)
(* The order of the frames in the recording.                               *)
(***************************************************************************)
Time(c, i) == Content[c][i].time

LEMMA TimeType ==
  ASSUME NEW c \in Chunks, NEW i \in 1..Len(Content[c])
  PROVE  Time(c, i) \in Nat
BY ChunkType, ItemsType DEF Time

LEMMA ContentType ==
  ASSUME NEW c \in Chunks
  PROVE  /\ Len(Content[c]) \in Nat /\ 1 \in 1..Len(Content[c])
         /\ Videos(Content[c]) \subseteq 1..Len(Content[c])
         /\ c \in 1..Len(Content) /\ Len(Content) \in Nat
         /\ Content[c][1].kind = "I" /\ Time(c, 1) = Begin(c)
<1>1. Content[c] \in Seq(Item) /\ 1 \in Videos(Content[c]) /\ Begin(c) = Content[c][1].time
  BY ChunkType
<1>2. Len(Content[c]) \in Nat /\ Videos(Content[c]) \subseteq 1..Len(Content[c])
  BY <1>1, VideosType
<1>3. Content[c][1].kind = "I"  BY ConstantsAssumption
<1> QED  BY <1>1, <1>2, <1>3, ConstantTypes DEF Chunks, Time

LEMMA TimesAscend ==
  ASSUME NEW c \in Chunks, NEW i \in 1..Len(Content[c]), NEW j \in 1..Len(Content[c]), i < j
  PROVE  Time(c, i) < Time(c, j)
<1> DEFINE S == {k \in (i + 1)..Len(Content[c]) : ~(Time(c, i) < Time(c, k))}
<1>0. Len(Content[c]) \in Nat  BY ContentType
<1>1. SUFFICES ASSUME ~(Time(c, i) < Time(c, j)) PROVE FALSE  OBVIOUS
<1>2. j \in S  BY <1>0, <1>1
<1>3. PICK k : k = Least(S)  OBVIOUS
<1>4. k \in S /\ \A m \in S : k <= m
  <2>1. S \subseteq Nat /\ S # {}  BY <1>0, <1>2
  <2> HIDE DEF S
  <2> QED  BY <1>3, <2>1, LeastIs
<1>5. k \in 2..Len(Content[c]) /\ k - 1 \in i..Len(Content[c]) /\ k - 1 \in 1..Len(Content[c])
      /\ k \in 1..Len(Content[c]) /\ ~(k <= k - 1)
  BY <1>0, <1>4
<1>6. Time(c, k - 1) < Time(c, k)
  <2>1. \A m \in 2..Len(Content[c]) : Content[c][m].time > Content[c][m - 1].time
    BY ConstantsAssumption
  <2>2. Content[c][k].time > Content[c][k - 1].time  BY <1>5, <2>1
  <2>3. Time(c, k) > Time(c, k - 1)  BY <2>2 DEF Time
  <2> QED  BY <1>5, <2>3, TimeType
<1>7. Time(c, i) \in Nat /\ Time(c, k) \in Nat /\ Time(c, k - 1) \in Nat  BY <1>5, TimeType
<1>8. ~(Time(c, i) < Time(c, k))  BY <1>4
<1>9. CASE k - 1 = i  BY <1>6, <1>8, <1>9
<1>10. CASE k - 1 # i
  <2>1. k - 1 \in (i + 1)..Len(Content[c]) /\ k - 1 \notin S  BY <1>4, <1>5, <1>10
  <2>2. Time(c, i) < Time(c, k - 1)  BY <2>1
  <2> QED  BY <1>6, <1>7, <1>8, <2>2
<1> QED  BY <1>9, <1>10

LEMMA NotBefore ==
  ASSUME NEW c \in Chunks, NEW i \in 1..Len(Content[c]), NEW j \in 1..Len(Content[c])
  PROVE  /\ i <= j <=> Time(c, i) <= Time(c, j)
         /\ i < j <=> Time(c, i) < Time(c, j)
<1>1. Time(c, i) \in Nat /\ Time(c, j) \in Nat /\ i \in Int /\ j \in Int  BY TimeType, ContentType
<1>2. i < j => Time(c, i) < Time(c, j)  BY TimesAscend
<1>3. j < i => Time(c, j) < Time(c, i)  BY TimesAscend
<1> QED  BY <1>1, <1>2, <1>3

LEMMA ChunksAscend ==
  ASSUME NEW d \in Chunks, NEW c \in Chunks, d < c, NEW i \in 1..Len(Content[d])
  PROVE  Time(d, i) < Begin(c)
<1> DEFINE S == {k \in (d + 1)..Len(Content) : ~(Time(d, i) < Begin(k))}
<1>0. Len(Content) \in Nat /\ d \in 1..Len(Content) /\ c \in 1..Len(Content)  BY ContentType
<1>1. SUFFICES ASSUME ~(Time(d, i) < Begin(c)) PROVE FALSE  OBVIOUS
<1>2. c \in S  BY <1>0, <1>1
<1>3. PICK k : k = Least(S)  OBVIOUS
<1>4. k \in S /\ \A m \in S : k <= m
  <2>1. S \subseteq Nat /\ S # {}  BY <1>0, <1>2
  <2> HIDE DEF S
  <2> QED  BY <1>3, <2>1, LeastIs
<1>5. k \in Chunks /\ k - 1 \in Chunks /\ k > 1 /\ k - 1 >= d /\ ~(k <= k - 1)
  BY <1>0, <1>4 DEF Chunks
<1>6. PICK e : e = k - 1  OBVIOUS
<1>7. e \in Chunks /\ Len(Content[e]) \in 1..Len(Content[e])  BY <1>5, <1>6, ContentType
<1>8. Time(e, Len(Content[e])) < Begin(k)
  <2>1. Begin(k) > Content[k - 1][Len(Content[k - 1])].time  BY <1>5, ConstantsAssumption
  <2>2. Begin(k) > Time(e, Len(Content[e]))  BY <1>6, <2>1 DEF Time
  <2> QED  BY <1>5, <1>7, <2>2, TimeType, ChunkType
<1>9. Time(d, i) \in Nat /\ Begin(k) \in Nat /\ Time(e, Len(Content[e])) \in Nat
  BY <1>5, <1>7, TimeType, ChunkType
<1>10. ~(Time(d, i) < Begin(k))  BY <1>4
<1>11. CASE e = d
  <2>1. i <= Len(Content[e])  BY <1>7, <1>11, ContentType
  <2>2. Time(d, i) <= Time(e, Len(Content[e]))  BY <1>7, <1>11, <2>1, NotBefore
  <2> QED  BY <1>8, <1>9, <1>10, <2>2
<1>12. CASE e # d
  <2>1. e \in (d + 1)..Len(Content) /\ e \notin S  BY <1>0, <1>4, <1>5, <1>6, <1>12
  <2>2. Time(d, i) < Begin(e)  BY <2>1
  <2>3. Begin(e) = Time(e, 1) /\ 1 \in 1..Len(Content[e]) /\ 1 <= Len(Content[e])
    BY <1>7, ContentType
  <2>4. Time(e, 1) <= Time(e, Len(Content[e]))  BY <1>7, <2>3, NotBefore
  <2>5. Begin(e) \in Nat  BY <1>7, ChunkType
  <2> QED  BY <1>8, <1>9, <1>10, <2>2, <2>3, <2>4, <2>5
<1> QED  BY <1>11, <1>12

LEMMA OwnChunk ==
  ASSUME NEW c \in Chunks, NEW x \in Videos(Content[c])
  PROVE  ChunkOf(Time(c, x)) = c
<1>0. x \in 1..Len(Content[c]) /\ Len(Content[c]) \in Nat  BY ContentType
<1>1. PICK t : t = Time(c, x)  OBVIOUS
<1>2. t \in Nat  BY <1>0, <1>1, TimeType
<1>3. ASSUME NEW d \in Chunks
      PROVE  \E l \in 1..Len(Content[d]) :
               /\ End(d) = Time(d, l) /\ \A y \in Videos(Content[d]) : y <= l
  <2>1. PICK l : l = Greatest(Videos(Content[d]))  OBVIOUS
  <2>2. /\ l \in Videos(Content[d]) /\ \A y \in Videos(Content[d]) : y <= l
    BY <2>1, VideosType, ChunkType
  <2>3. l \in 1..Len(Content[d])  BY <2>2, ContentType
  <2>4. End(d) = Time(d, l)  BY <2>1 DEF End, Time
  <2> QED  BY <2>2, <2>3, <2>4
<1>4. Begin(c) <= t /\ t <= End(c)
  <2>1. PICK l \in 1..Len(Content[c]) : End(c) = Time(c, l) /\ \A y \in Videos(Content[c]) : y <= l
    BY <1>3
  <2>2. t <= End(c)  BY <1>0, <1>1, <2>1, NotBefore
  <2>3. 1 \in 1..Len(Content[c]) /\ 1 <= x /\ Time(c, 1) = Begin(c)  BY <1>0, ContentType
  <2>4. Time(c, 1) <= Time(c, x)  BY <1>0, <2>3, NotBefore
  <2> QED  BY <1>1, <2>2, <2>3, <2>4
<1>5. ASSUME NEW d \in Chunks, Begin(d) <= t, t <= End(d) PROVE d = c
  <2>0. d \in Int /\ c \in Int /\ Begin(d) \in Nat  BY ContentType, ChunkType
  <2>1. ~(c < d)
    <3>1. c < d => Time(c, x) < Begin(d)  BY <1>0, ChunksAscend
    <3> QED  BY <1>1, <1>2, <1>5, <2>0, <3>1
  <2>2. ~(d < c)
    <3>1. PICK l \in 1..Len(Content[d]) : End(d) = Time(d, l)  BY <1>3
    <3>2. d < c => Time(d, l) < Begin(c)  BY ChunksAscend
    <3>3. Begin(c) \in Nat /\ Time(d, l) \in Nat  BY ChunkType, TimeType
    <3> QED  BY <1>2, <1>4, <1>5, <3>1, <3>2, <3>3
  <2> QED  BY <2>0, <2>1, <2>2
<1> QED  BY <1>1, <1>4, <1>5 DEF ChunkOf

\* The frame before another in its chunk, as Decodable looks for it.
Previous(t) == Greatest({u \in Frames({ChunkOf(t)}) : u < t})

LEMMA PreviousIs ==
  ASSUME NEW c \in Chunks, NEW x \in Videos(Content[c]), NEW y \in Videos(Content[c]), y < x,
         \A z \in Videos(Content[c]) : ~(y < z /\ z < x)
  PROVE  Previous(Time(c, x)) = Time(c, y)
<1>1. PICK t : t = Time(c, x)  OBVIOUS
<1>2. PICK V : V = Videos(Content[c])  OBVIOUS
<1>3. V \subseteq 1..Len(Content[c]) /\ Len(Content[c]) \in Nat /\ x \in V /\ y \in V
  BY <1>2, ContentType
<1>4. PICK S : S = {u \in Frames({c}) : u < t}  OBVIOUS
<1>5. Frames({c}) = {Time(c, i) : i \in V}  BY <1>2 DEF Frames, Time
<1>6. t \in Nat /\ Time(c, y) \in Nat  BY <1>1, <1>3, TimeType
<1>7. Time(c, y) \in S
  <2>1. Time(c, y) < t  BY <1>1, <1>3, NotBefore
  <2> QED  BY <1>3, <1>4, <1>5, <2>1
<1>8. ASSUME NEW u \in S PROVE u \in Nat /\ u <= Time(c, y)
  <2>1. PICK i \in V : u = Time(c, i)  BY <1>4, <1>5
  <2>2. i \in 1..Len(Content[c]) /\ x \in 1..Len(Content[c]) /\ y \in 1..Len(Content[c])
    BY <1>3
  <2>3. u < t /\ u \in Nat  BY <1>4, <2>1, <2>2, TimeType
  <2>4. i < x  BY <1>1, <2>1, <2>2, <2>3, NotBefore
  <2>5. i <= y
    <3>1. i \in Int /\ y \in Int /\ ~(y < i /\ i < x)  BY <1>2, <2>1, <2>2
    <3> QED  BY <2>4, <3>1
  <2>6. Time(c, i) <= Time(c, y)  BY <2>2, <2>5, NotBefore
  <2> QED  BY <2>1, <2>3, <2>6
<1>9. PICK g : g = Greatest(S)  OBVIOUS
<1>10. g \in S /\ \A u \in S : g >= u
  <2>1. S \subseteq Nat /\ S # {} /\ \A u \in S : u <= Time(c, y)  BY <1>7, <1>8
  <2> QED  BY <1>6, <1>9, <2>1, GreatestIs
<1>11. g = Time(c, y)
  <2>1. g \in Nat /\ g <= Time(c, y) /\ g >= Time(c, y)  BY <1>7, <1>8, <1>10
  <2> QED  BY <1>6, <2>1
<1>12. Previous(t) = Greatest(S)  BY <1>1, <1>4, OwnChunk DEF Previous
<1> QED  BY <1>1, <1>9, <1>11, <1>12

-----------------------------------------------------------------------------
(***************************************************************************)
(* What can be decoded: after the frame at lv, item x of chunk c; what is  *)
(* loaded for a time; what the object holds; and items handed out.         *)
(***************************************************************************)
Follows(c, x, lv) ==
  Content[c][x].kind = "P" => lv = Time(c, x) \/ lv = Previous(Time(c, x))

Beside(t, lv) ==
  \A d \in Chunks : SeekToTime(d, t, "Next") # 0 => Follows(d, SeekToTime(d, t, "Next"), lv)

AtVideo(c, next, lv) ==
  next < Len(Items(c)) => next + 1 \in Videos(Items(c)) /\ Follows(c, next + 1, lv)

Playable(r, lv) == r.datas # 0 /\ AtVideo(r.datas, r.next, lv) /\ Beside(r.position, lv)

DecodableOf(items, lv) ==
  \A i \in Videos(items) :
    LET previous == LastVideo(SubSeq(items, 1, i - 1), lv)
    IN  items[i].kind = "P" => previous = items[i].time \/ previous = Previous(items[i].time)

HandsOut(q, got, lv) ==
  got # <<>> /\ DecodableOf(got, lv) /\ Playable(q, LastVideo(got, lv))

\* The first item of a chunk needs nothing before it, nor does any other I frame.
LEMMA StartFollows ==
  ASSUME NEW c \in Chunks, NEW lv
  PROVE  Follows(c, 1, lv) /\ AtVideo(c, 0, lv)
<1>1. Content[c][1].kind = "I" /\ 1 \in Videos(Content[c]) /\ Items(c) = Content[c]
  BY ContentType, ChunkType
<1>2. Follows(c, 1, lv)  BY <1>1 DEF Follows
<1> QED  BY <1>1, <1>2 DEF AtVideo

LEMMA NextFollows ==
  ASSUME NEW c \in Chunks, NEW x \in Videos(Content[c]), NEW y \in Videos(Content[c]), y < x,
         \A z \in Videos(Content[c]) : ~(y < z /\ z < x)
  PROVE  Follows(c, x, Time(c, y))
BY PreviousIs DEF Follows

\* Whoever looks for the time of item p loads the first frame from there on, or an I frame.
LEMMA SeekFrom ==
  ASSUME NEW c \in Chunks, NEW p \in 1..Len(Content[c]), NEW lv,
         \A x \in Videos(Content[c]) :
           x >= p /\ (\A z \in Videos(Content[c]) : z >= p => z >= x) => Follows(c, x, lv)
  PROVE  Beside(Time(c, p), lv)
<1>1. PICK t : t = Time(c, p)  OBVIOUS
<1>2. t \in Nat /\ t \in Int  BY <1>1, TimeType
<1>3. PICK dir : dir = "Next"  OBVIOUS
<1>4. SUFFICES ASSUME NEW d \in Chunks, NEW x, x = SeekToTime(d, t, dir), x # 0
               PROVE  Follows(d, x, lv)
  BY <1>1, <1>3 DEF Beside
<1>5. /\ x \in Videos(Content[d]) /\ Time(d, x) >= t
      /\ \A i \in Videos(Content[d]) : Time(d, i) >= t => i >= x
  BY <1>2, <1>3, <1>4, SeekToTimeIs, ChunkType DEF Time
<1>6. x \in 1..Len(Content[d]) /\ d \in Int /\ c \in Int /\ p \in 1..Len(Content[c])
  BY <1>5, ContentType
<1>7. CASE d = c
  <2>1. \A z \in 1..Len(Content[c]) : z >= p <=> Time(c, z) >= t
    <3>1. \A z \in 1..Len(Content[c]) : p <= z <=> t <= Time(c, z)  BY <1>1, NotBefore
    <3>2. \A z \in 1..Len(Content[c]) : Time(c, z) \in Nat  BY TimeType
    <3> QED  BY <1>2, <3>1, <3>2
  <2>2. Videos(Content[c]) \subseteq 1..Len(Content[c])  BY ContentType
  <2>3. x >= p /\ \A z \in Videos(Content[c]) : z >= p => z >= x
    BY <1>5, <1>6, <1>7, <2>1, <2>2
  <2> QED  BY <1>5, <1>7, <2>3
<1>8. CASE d < c
  <2>1. Time(d, x) < Begin(c)  BY <1>6, <1>8, ChunksAscend
  <2>2. 1 \in 1..Len(Content[c]) /\ 1 <= p /\ Begin(c) = Time(c, 1)  BY ContentType
  <2>3. Begin(c) <= t  BY <1>1, <2>2, NotBefore
  <2>4. Time(d, x) \in Nat /\ Begin(c) \in Nat  BY <1>6, TimeType, ChunkType
  <2> QED  BY <1>2, <1>5, <2>1, <2>3, <2>4
<1>9. CASE c < d
  <2>1. t < Begin(d)  BY <1>1, <1>9, ChunksAscend
  <2>2. Begin(d) = Time(d, 1) /\ 1 \in Videos(Content[d]) /\ Begin(d) \in Nat
    BY ContentType, ChunkType
  <2>3. Time(d, 1) >= t  BY <1>2, <2>1, <2>2
  <2>4. 1 >= x  BY <1>5, <2>2, <2>3
  <2>5. x = 1  BY <1>6, <2>4
  <2> QED  BY <2>5, StartFollows
<1> QED  BY <1>6, <1>7, <1>8, <1>9

\* Whoever looks for the beginning of a chunk loads an I frame.
LEMMA SeekBegin ==
  ASSUME NEW c \in Chunks, NEW lv
  PROVE  Beside(Begin(c), lv)
<1>1. 1 \in 1..Len(Content[c]) /\ Begin(c) = Time(c, 1) /\ 1 \in Videos(Content[c])
      /\ Videos(Content[c]) \subseteq 1..Len(Content[c])
  BY ContentType, ChunkType
<1>2. ASSUME NEW x \in Videos(Content[c]),
             \A z \in Videos(Content[c]) : z >= 1 => z >= x
      PROVE  Follows(c, x, lv)
  <2>1. 1 >= x /\ x \in 1..Len(Content[c])  BY <1>1, <1>2
  <2>2. x = 1  BY <2>1
  <2> QED  BY <2>2, StartFollows
<1> QED  BY <1>1, <1>2, SeekFrom

\* The last frame of part of a chunk that begins with one.
LEMMA LastOf ==
  ASSUME NEW c \in Chunks, NEW s \in Videos(Content[c]), NEW e \in s..Len(Content[c]), NEW lv
  PROVE  \E v \in Videos(Content[c]) :
           /\ s <= v /\ v <= e
           /\ LastVideo(SubSeq(Content[c], s, e), lv) = Time(c, v)
           /\ \A z \in Videos(Content[c]) : z <= e => z <= v
<1>1. PICK items : items = Content[c]  OBVIOUS
<1>2. items \in Seq(Item) /\ Len(items) \in Nat /\ Videos(items) \subseteq 1..Len(items)
      /\ s \in Videos(items) /\ s \in 1..Len(items) /\ e \in s..Len(items)
  BY <1>1, ContentType, ChunkType
<1>3. PICK part : part = SubSeq(items, s, e)  OBVIOUS
<1>4. /\ part \in Seq(Item) /\ Len(part) = e - s + 1
      /\ \A i \in 1..(e - s + 1) : part[i] = items[s + i - 1]
  BY <1>2, <1>3, PartType
<1>5. \A i \in 1..(e - s + 1) : i \in Videos(part) <=> s + i - 1 \in Videos(items)
  <2> TAKE i \in 1..(e - s + 1)
  <2>1. s + i - 1 \in 1..Len(items) /\ i \in 1..Len(part)  BY <1>2, <1>4
  <2>2. part[i] = items[s + i - 1]  BY <1>4
  <2> QED  BY <2>1, <2>2 DEF Videos
<1>6. 1 \in Videos(part)
  <2>1. 1 \in 1..(e - s + 1) /\ s + 1 - 1 = s  BY <1>2
  <2> QED  BY <1>2, <1>5, <2>1
<1>7. PICK g : g = Greatest(Videos(part))  OBVIOUS
<1>8. /\ g \in Videos(part) /\ Videos(part) \subseteq 1..Len(part)
      /\ \A i \in Videos(part) : i <= g
  BY <1>4, <1>6, <1>7, VideosType
<1>9. g \in 1..(e - s + 1)  BY <1>4, <1>8
<1>10. PICK v : v = s + g - 1  OBVIOUS
<1>11. v \in Videos(items) /\ s <= v /\ v <= e
  <2>1. v \in Videos(items)  BY <1>5, <1>8, <1>9, <1>10
  <2> QED  BY <1>2, <1>9, <1>10, <2>1
<1>12. LastVideo(part, lv) = items[v].time
  <2>1. part[g] = items[v]  BY <1>4, <1>9, <1>10
  <2> QED  BY <1>6, <1>7, <2>1 DEF LastVideo
<1>13. ASSUME NEW z \in Videos(items), z <= e PROVE z <= v
  <2>1. z \in 1..Len(items) /\ v \in 1..Len(items)  BY <1>2, <1>11
  <2>2. CASE z < s  BY <1>2, <1>11, <2>1, <2>2
  <2>3. CASE ~(z < s)
    <3>1. z - s + 1 \in 1..(e - s + 1) /\ s + (z - s + 1) - 1 = z  BY <1>2, <1>13, <2>1, <2>3
    <3>2. z - s + 1 \in Videos(part)  BY <1>5, <1>13, <3>1
    <3>3. z - s + 1 <= g  BY <1>8, <3>2
    <3> QED  BY <1>2, <1>9, <1>10, <2>1, <3>3
  <2> QED  BY <2>2, <2>3
<1> QED  BY <1>1, <1>3, <1>11, <1>12, <1>13 DEF Time

LEMMA PartOfPart ==
  ASSUME NEW items \in Seq(Item), NEW s \in 1..Len(items), NEW u \in s..Len(items),
         NEW i \in 1..(u - s + 1)
  PROVE  /\ i = 1 => SubSeq(SubSeq(items, s, u), 1, i - 1) = <<>>
         /\ i # 1 => SubSeq(SubSeq(items, s, u), 1, i - 1) = SubSeq(items, s, s + i - 2)
<1>1. PICK part : part = SubSeq(items, s, u)  OBVIOUS
<1>2. part \in Seq(Item) /\ Len(items) \in Nat  BY <1>1, PartType
<1>3. CASE i = 1
  <2>1. i - 1 = 0  BY <1>3
  <2>2. SubSeq(part, 1, 0) = <<>>  BY <1>2
  <2> QED  BY <1>1, <1>3, <2>1, <2>2
<1>4. CASE i # 1
  <2>1. PICK k : k = i - 1  OBVIOUS
  <2>2. u \in 1..Len(items) /\ 1 \in 1..(u - s + 1) /\ k \in 1..(u - s + 1)  BY <1>2, <1>4, <2>1
  <2>3. SubSeq(SubSeq(items, s, u), 1, k) = SubSeq(items, s + 1 - 1, s + k - 1)
    BY ONLY <1>2, <2>2, items \in Seq(Item), s \in 1..Len(items), SubSeqOfSubSeq
  <2>4. s + 1 - 1 = s /\ s + k - 1 = s + i - 2  BY <1>2, <2>1
  <2>5. SubSeq(SubSeq(items, s, u), 1, i - 1) = SubSeq(items, s, s + i - 2)
    BY <2>1, <2>3, <2>4
  <2> QED  BY <1>4, <2>5
<1> QED  BY <1>3, <1>4

-----------------------------------------------------------------------------
(***************************************************************************)
(* What the reader's functions hand out can be decoded, and they leave the *)
(* object so that this stays so.                                           *)
(***************************************************************************)

\* Items s to u of chunk c go out; the object is left behind the last frame of them, its
\* position at the last item, the only frame, or the I frame that follows.
Leaves(q, c, s, u, p) ==
  /\ q.datas = c /\ q.position = Time(c, p)
  /\ u <= q.next /\ q.next <= Len(Content[c])
  /\ q.next < Len(Content[c]) => q.next + 1 \in Videos(Content[c])
  /\ \A z \in Videos(Content[c]) : z > u => z > q.next
  /\ \/ p = u
     \/ p = u + 1 /\ Content[c][p].kind = "I"
     \/ p = s /\ \A z \in Videos(Content[c]) : ~(s < z /\ z <= u)

LEMMA PartDecodes ==
  ASSUME NEW c \in Chunks, NEW s \in Videos(Content[c]), NEW u \in s..Len(Content[c]), NEW lv,
         Follows(c, s, lv)
  PROVE  DecodableOf(SubSeq(Content[c], s, u), lv)
<1>1. PICK items : items = Content[c]  OBVIOUS
<1>2. items \in Seq(Item) /\ Len(items) \in Nat /\ s \in 1..Len(items) /\ u \in s..Len(items)
      /\ s \in Videos(items)
  BY <1>1, ContentType, ChunkType
<1>3. PICK part : part = SubSeq(items, s, u)  OBVIOUS
<1>4. /\ part \in Seq(Item) /\ Len(part) = u - s + 1
      /\ \A i \in 1..(u - s + 1) : part[i] = items[s + i - 1]
  BY <1>2, <1>3, PartType
<1>5. SUFFICES ASSUME NEW i \in Videos(part), part[i].kind = "P",
                      NEW previous, previous = LastVideo(SubSeq(part, 1, i - 1), lv)
               PROVE  previous = part[i].time \/ previous = Previous(part[i].time)
  BY <1>1, <1>3 DEF DecodableOf
<1>6. i \in 1..(u - s + 1) /\ IsVideo(part[i])  BY <1>4, <1>5 DEF Videos
<1>7. PICK x : x = s + i - 1  OBVIOUS
<1>8. part[i] = items[x] /\ x \in s..u /\ x \in 1..Len(items)  BY <1>2, <1>4, <1>6, <1>7
<1>9. x \in Videos(items) /\ part[i].time = Time(c, x) /\ items[x].kind = "P"
  BY <1>1, <1>5, <1>6, <1>8 DEF Videos, Time
<1>10. CASE i = 1
  <2>1. SubSeq(part, 1, i - 1) = <<>>  BY <1>2, <1>3, <1>6, <1>10, PartOfPart
  <2>2. previous = lv
    <3>1. Videos(<<>>) = {}  BY DEF Videos
    <3> QED  BY <1>5, <2>1, <3>1 DEF LastVideo
  <2>3. x = s  BY <1>2, <1>7, <1>10
  <2> QED  BY <1>1, <1>9, <2>2, <2>3 DEF Follows
<1>11. CASE i # 1
  <2>1. PICK e : e = s + i - 2  OBVIOUS
  <2>2. e \in s..Len(items) /\ x = e + 1 /\ e \in Int  BY <1>2, <1>6, <1>7, <1>11, <2>1
  <2>3. SubSeq(part, 1, i - 1) = SubSeq(items, s, e)
    BY <1>2, <1>3, <1>6, <1>11, <2>1, PartOfPart
  <2>4. PICK v \in Videos(items) :
          /\ s <= v /\ v <= e /\ previous = Time(c, v)
          /\ \A z \in Videos(items) : z <= e => z <= v
    BY <1>1, <1>5, <2>2, <2>3, LastOf
  <2>5. v < x /\ \A z \in Videos(items) : ~(v < z /\ z < x)
    <3>1. Videos(items) \subseteq 1..Len(items)  BY <1>1, ContentType
    <3>2. ASSUME NEW z \in Videos(items), v < z, z < x PROVE FALSE
      <4>1. z \in Int /\ v \in Int  BY <2>4, <3>1
      <4>2. z <= e  BY <2>2, <3>2, <4>1
      <4> QED  BY <2>4, <3>2, <4>1, <4>2
    <3>3. v \in Int  BY <2>4, <3>1
    <3> QED  BY <2>2, <2>4, <3>2, <3>3
  <2>6. Follows(c, x, previous)  BY <1>1, <1>9, <2>4, <2>5, NextFollows
  <2> QED  BY <1>1, <1>9, <2>6 DEF Follows
<1> QED  BY <1>10, <1>11

LEMMA PartOut ==
  ASSUME NEW c \in Chunks, NEW s \in Videos(Content[c]), NEW u \in s..Len(Content[c]), NEW lv,
         Follows(c, s, lv), NEW q, q.next \in Nat, NEW p \in 1..Len(Content[c]),
         Leaves(q, c, s, u, p)
  PROVE  HandsOut(q, SubSeq(Content[c], s, u), lv)
<1>1. PICK V : V = Videos(Content[c])  OBVIOUS
<1>2. /\ V \subseteq 1..Len(Content[c]) /\ Len(Content[c]) \in Nat /\ s \in V
      /\ s \in 1..Len(Content[c]) /\ u \in s..Len(Content[c]) /\ u \in Int
      /\ Content[c] \in Seq(Item) /\ Items(c) = Content[c] /\ c # 0
  BY <1>1, ContentType, ChunkType
<1>3. PICK got : got = SubSeq(Content[c], s, u)  OBVIOUS
<1>4. PICK last : last = LastVideo(got, lv)  OBVIOUS
<1>5. PICK v \in V : /\ s <= v /\ v <= u /\ last = Time(c, v)
                     /\ \A z \in V : z <= u => z <= v
  BY <1>1, <1>3, <1>4, LastOf
<1>6. \A z \in V : z \in Int  BY <1>2
\* The first frame behind u follows v.
<1>7. ASSUME NEW x \in V, x > u, \A z \in V : z > u => z >= x PROVE Follows(c, x, last)
  <2>1. v < x  BY <1>2, <1>5, <1>6, <1>7
  <2>2. ASSUME NEW z \in V, v < z, z < x PROVE FALSE
    <3>1. z > u  BY <1>2, <1>5, <1>6, <2>2
    <3> QED  BY <1>6, <1>7, <2>2, <3>1
  <2> QED  BY <1>1, <1>5, <2>1, <2>2, NextFollows
<1>8. AtVideo(c, q.next, last)
  <2>1. SUFFICES ASSUME q.next < Len(Content[c])
                 PROVE  q.next + 1 \in V /\ Follows(c, q.next + 1, last)
    BY <1>1, <1>2 DEF AtVideo
  <2>2. q.next + 1 \in V /\ u <= q.next /\ \A z \in V : z > u => z > q.next
    BY <1>1, <2>1 DEF Leaves
  <2>3. q.next + 1 > u /\ \A z \in V : z > u => z >= q.next + 1  BY <1>2, <1>6, <2>2
  <2> QED  BY <1>7, <2>2, <2>3
<1>9. Beside(Time(c, p), last)
  <2>1. SUFFICES ASSUME NEW x \in V, x >= p, \A z \in V : z >= p => z >= x
                 PROVE  Follows(c, x, last)
    BY <1>1, SeekFrom
  <2>2. p \in Int /\ x \in Int  BY <1>2, <1>6, <2>1
  <2>3. Follows(c, v, last)  BY <1>5 DEF Follows
  <2>4. CASE p = u
    <3>1. CASE x = u
      <4>1. v = x  BY <1>2, <1>5, <1>6, <2>1, <3>1
      <4> QED  BY <2>3, <4>1
    <3>2. CASE x # u
      <4>1. x > u /\ \A z \in V : z > u => z >= x  BY <1>2, <1>6, <2>1, <2>2, <2>4, <3>2
      <4> QED  BY <1>7, <4>1
    <3> QED  BY <3>1, <3>2
  <2>5. CASE p = u + 1 /\ Content[c][p].kind = "I"
    <3>1. p \in V  BY <1>1, <2>5 DEF Videos, IsVideo
    <3>2. x = p  BY <2>1, <2>2, <3>1
    <3> QED  BY <2>5, <3>2 DEF Follows
  <2>6. CASE p = s /\ \A z \in V : ~(s < z /\ z <= u)
    <3>1. x = s  BY <1>2, <1>6, <2>1, <2>2, <2>6
    <3>2. v = s  BY <1>2, <1>5, <1>6, <2>6
    <3> QED  BY <2>3, <3>1, <3>2
  <2> QED  BY <1>1, <2>4, <2>5, <2>6 DEF Leaves
<1>10. q.datas = c /\ q.position = Time(c, p)  BY DEF Leaves
<1>11. got # <<>>  BY <1>2, <1>3, PartType
<1>12. DecodableOf(got, lv)  BY <1>3, PartDecodes
<1>13. Playable(q, last)  BY <1>2, <1>8, <1>9, <1>10 DEF Playable
<1> QED  BY <1>3, <1>4, <1>11, <1>12, <1>13 DEF HandsOut

\* A chunk just loaded.
LEMMA LoadKeeps ==
  ASSUME NEW n \in Nat, NEW r, ReaderOK(r, n), NEW t \in Int, NEW dir \in {"Next", "Prev"},
         NEW L, L = LoadDataByIndex(r, t, dir), NEW lv
  PROVE  /\ L.ok \in BOOLEAN
         /\ L.ok => L.r.datas \in Chunks
         /\ r.datas # 0 => L.r.datas # 0
         /\ L.ok /\ dir = "Next" /\ Beside(t, lv) => Playable(L.r, lv)
         /\ ~L.ok /\ Playable(r, lv) => Playable(L.r, lv)
<1>1. PICK start : start = SetIndexPosition(r.headers, t, dir)  OBVIOUS
<1>0. L.ok \in BOOLEAN  BY <1>1, LoadIs
<1>2. CASE L.ok
  <2>1. PICK i \in 0..(Len(r.headers) - 1), c \in Chunks, x \in Nat :
          LoadHit(r, t, dir, start, L.r, i, c, x)
    BY <1>1, <1>2, LoadIs
  <2>2. /\ x = SeekToTime(c, t, dir) /\ x # 0 /\ x \in Videos(Content[c])
        /\ L.r = Placed(r, i, c, x - 1, Time(c, x))
    BY <2>1, ChunkType DEF LoadHit, Time
  <2>3. r \in ReaderType  BY DEF ReaderOK
  <2>4. L.r.datas = c /\ L.r.next = x - 1 /\ L.r.position = Time(c, x)
    BY <2>2, <2>3 DEF Placed, ReaderType
  <2>5. c # 0 /\ Items(c) = Content[c] /\ x \in 1..Len(Content[c])
        /\ Videos(Content[c]) \subseteq 1..Len(Content[c])
    BY <2>2, ChunkType, ContentType
  <2>6. ASSUME dir = "Next", Beside(t, lv) PROVE Playable(L.r, lv)
    <3>1. Follows(c, x, lv)  BY <2>2, <2>6 DEF Beside
    <3>2. x - 1 + 1 = x  BY <2>5
    <3>3. AtVideo(c, x - 1, lv)  BY <2>2, <2>5, <3>1, <3>2 DEF AtVideo
    <3>4. ASSUME NEW y \in Videos(Content[c]), y >= x,
                 \A z \in Videos(Content[c]) : z >= x => z >= y
          PROVE  Follows(c, y, lv)
      <4>1. y \in Int /\ x \in Int /\ x >= y  BY <2>2, <2>5, <3>4
      <4>2. y = x  BY <3>4, <4>1
      <4> QED  BY <3>1, <4>2
    <3>5. Beside(Time(c, x), lv)  BY <2>5, <3>4, SeekFrom
    <3> QED  BY <2>4, <2>5, <3>3, <3>5 DEF Playable
  <2> QED  BY <1>2, <2>4, <2>5, <2>6
<1>3. CASE ~L.ok
  <2>1. PICK i \in -1..(Len(r.headers) - 1), c \in Chunks \cup {0}, next \in Nat :
          LoadMiss(r, t, dir, start, L.r, i, c, next)
    BY <1>1, <1>3, LoadIs
  <2>2. L.r = Placed(r, i, c, next, r.position)  BY <2>1 DEF LoadMiss
  <2>3. r \in ReaderType  BY DEF ReaderOK
  <2>4. L.r.datas = c /\ L.r.next = next /\ L.r.position = r.position
    BY <2>2, <2>3 DEF Placed, ReaderType
  <2>5. CASE c = r.datas /\ next = r.next
    BY <1>0, <1>3, <2>4, <2>5 DEF Playable
  <2>6. CASE ~(c = r.datas /\ next = r.next)
    <3>1. PICK k \in 0..(Len(r.headers) - 1) : next = 0 /\ c = r.headers[k + 1].chunk
      BY <2>1, <2>6 DEF LoadMiss
    <3>2. r.headers \in Seq(EntryType) /\ k + 1 \in 1..Len(r.headers)
      BY <2>3 DEF ReaderType
    <3>3. r.headers[k + 1] \in EntryType  BY <3>2
    <3>4. c \in Chunks  BY <3>1, <3>3 DEF EntryType
    <3>5. AtVideo(c, next, lv) /\ c # 0  BY <3>1, <3>4, StartFollows, ChunkType
    <3> QED  BY <1>0, <1>3, <2>4, <3>5 DEF Playable
  <2> QED  BY <2>5, <2>6
<1> QED  BY <1>0, <1>2, <1>3

LEMMA ForwardPlays ==
  ASSUME NEW n \in Nat, NEW r, ReaderOK(r, n), NEW G, G = GetForwardData(r), NEW lv
  PROVE  /\ G.got # <<>> => G.r.datas = r.datas /\ r.datas # 0
         /\ G.got = <<>> => G.r = r
         /\ Playable(r, lv) /\ G.got # <<>> => HandsOut(G.r, G.got, lv)
<1>1. PICK items : items = Items(r.datas)  OBVIOUS
<1>2. /\ r \in ReaderType /\ r.datas \in Chunks \cup {0} /\ r.next \in Nat
      /\ items \in Seq(Item) /\ r.next \in 0..Len(items)
  BY <1>1, ForwardIs DEF ReaderOK, ReaderType
<1>3. CASE r.next = Len(items)  BY <1>1, <1>3, ForwardIs
<1>4. CASE r.next # Len(items)
  <2>1. HandsOn(r, items, G)  BY <1>1, <1>4, ForwardIs
  <2>2. PICK u \in (r.next + 1)..Len(items), q \in Nat :
          /\ G.got = SubSeq(items, r.next + 1, u) /\ G.got # <<>>
          /\ G.r = Placed(r, r.data_index, r.datas, u, q)
          /\ u = NextVideo(items, r.next + 1)
          /\ q = IF IsVideo(items[r.next + 1]) THEN items[r.next + 1].time ELSE r.position
    BY ONLY <2>1 DEF HandsOn
  <2>3. G.r.datas = r.datas /\ G.r.next = u /\ G.r.position = q
    BY <1>2, <2>2 DEF Placed, ReaderType
  <2>4. r.next < Len(items) /\ r.next + 1 \in 0..Len(items) /\ u \in Nat /\ Len(items) \in Nat
    BY <1>2, <1>4, <2>2
  <2>5. r.datas # 0
    <3>1. items # <<>>  BY <1>2, <2>4
    <3> QED  BY <1>1, <3>1 DEF Items
  <2>6. ASSUME Playable(r, lv) PROVE HandsOut(G.r, G.got, lv)
    <3>1. PICK c : c = r.datas  OBVIOUS
    <3>2. c \in Chunks /\ items = Content[c]  BY <1>1, <1>2, <2>5, <3>1, ChunkType
    <3>3. PICK s : s = r.next + 1  OBVIOUS
    <3>4. s \in Videos(Content[c]) /\ Follows(c, s, lv)
      BY <1>1, <2>4, <2>6, <3>1, <3>2, <3>3 DEF Playable, AtVideo
    <3>5. u \in s..Len(Content[c]) /\ s \in 1..Len(Content[c])  BY <2>2, <3>2, <3>3, <3>4, ContentType
    <3>6. q = Time(c, s)
      <4>1. IsVideo(items[s])  BY <3>2, <3>4 DEF Videos
      <4> QED  BY <2>2, <3>2, <3>3, <4>1 DEF Time
    <3>7. /\ u < Len(items) => u + 1 \in Videos(items)
          /\ \A i \in Videos(items) : i > s => i > u
      BY <1>2, <2>2, <2>4, <3>3, NextVideoIs
    <3>8. /\ \A z \in Videos(items) : z \in Int
          /\ s \in Int
      BY <3>2, <3>5, ContentType
    <3>9. Leaves(G.r, c, s, u, s)
      <4>1. u <= u /\ u <= Len(Content[c])  BY <2>4, <3>5
      <4>2. \A z \in Videos(Content[c]) : ~(s < z /\ z <= u)  BY <2>4, <3>2, <3>7, <3>8
      <4>3. G.r.datas = c /\ G.r.position = Time(c, s) /\ G.r.next = u
        BY <2>3, <3>1, <3>6
      <4>4. \A z \in Videos(Content[c]) : z > u => z > u  OBVIOUS
      <4>5. u < Len(Content[c]) => u + 1 \in Videos(Content[c])  BY <3>2, <3>7
      <4> QED  BY <4>1, <4>2, <4>3, <4>4, <4>5 DEF Leaves
    <3>10. G.r.next \in Nat /\ G.got = SubSeq(Content[c], s, u)  BY <2>2, <2>3, <2>4, <3>2, <3>3
    <3> QED  BY <3>2, <3>4, <3>5, <3>9, <3>10, PartOut
  <2> QED  BY <2>2, <2>3, <2>5, <2>6
<1> QED  BY <1>3, <1>4

\* GetNextData.
LEMMA NextPlays ==
  ASSUME NEW n \in Nat, NEW r, ReaderOK(r, n), NEW G, G = GetNextData(r), NEW lv
  PROVE  /\ G.got # <<>> => G.r.datas # 0
         /\ r.datas # 0 => G.r.datas # 0
         /\ Playable(r, lv) => IF G.got = <<>> THEN Playable(G.r, lv)
                                               ELSE HandsOut(G.r, G.got, lv)
<1>1. PICK items : items = Items(r.datas)  OBVIOUS
<1>2. /\ r \in ReaderType /\ r.datas \in Chunks \cup {0} /\ r.next \in Nat
      /\ Len(r.headers) \in Nat /\ r.data_index \in Int /\ r.position \in Nat
  BY DEF ReaderOK, ReaderType
<1>3. CASE r.next # Len(items)
  <2>1. G = GetForwardData(r) /\ HandsOn(r, items, G)  BY <1>1, <1>3, NextDataIs, ForwardIs
  <2>2. G.got # <<>>  BY <2>1 DEF HandsOn
  <2> QED  BY <2>1, <2>2, ForwardPlays
<1>4. CASE r.next = Len(items) /\ Len(r.headers) < r.data_index + 2
  BY <1>1, <1>4, NextDataIs
<1>5. CASE r.next = Len(items) /\ r.data_index + 2 <= Len(r.headers)
  <2>1. PICK i : i = r.data_index + 2  OBVIOUS
  <2>2. PICK c : c = r.headers[i].chunk  OBVIOUS
  <2>3. /\ c \in Chunks /\ r.file # 0 /\ i \in 1..Len(r.headers)
        /\ ~Readable(r.file, i, r.headers[i]) =>
             G.got = <<>> /\ G.r = Placed(r, i - 1, r.datas, r.next, r.position)
        /\ Readable(r.file, i, r.headers[i]) =>
             G = GetForwardData(Placed(r, i - 1, c, 0, r.position))
    <3>1. MovesOn(r, G)  BY <1>1, <1>5, NextDataIs
    <3> QED  BY ONLY <2>1, <2>2, <3>1 DEF MovesOn
  <2>4. CASE ~Readable(r.file, i, r.headers[i])
    <3>1. G.r.datas = r.datas /\ G.r.next = r.next /\ G.r.position = r.position
      BY <1>2, <2>3, <2>4 DEF Placed, ReaderType
    <3> QED  BY <2>3, <2>4, <3>1 DEF Playable
  <2>5. CASE Readable(r.file, i, r.headers[i])
    <3>1. PICK p : p = r.position  OBVIOUS
    <3>2. PICK k : k = i - 1  OBVIOUS
    <3>3. PICK q : q = Placed(r, k, c, 0, p)  OBVIOUS
    <3>4. k \in -1..(Len(r.headers) - 1) /\ p \in Nat /\ 0 <= Len(Items(c)) /\ c # 0
      <4>1. k \in -1..(Len(r.headers) - 1)  BY <1>2, <2>3, <3>2
      <4>2. Len(Items(c)) \in Nat /\ c # 0  BY <2>3, ItemsType, ChunkType
      <4> QED  BY <1>2, <3>1, <4>1, <4>2
    <3>5. ReaderOK(q, n) /\ q.datas = c /\ q.next = 0 /\ q.position = p
      <4>1. Fits(r, k, c, 0, p)  BY <2>3, <3>4 DEF Fits
      <4>2. ReaderOK(q, n)  BY <3>3, <4>1, PlacedFits DEF SetTo
      <4>3. q.datas = c /\ q.next = 0 /\ q.position = p  BY <1>2, <3>3 DEF Placed, ReaderType
      <4> QED  BY <4>2, <4>3
    <3>6. G = GetForwardData(q)  BY <2>3, <2>5, <3>1, <3>2, <3>3
    <3>7. G.got # <<>>
      <4>1. Items(c) \in Seq(Item) /\ Items(c) # <<>>  BY <2>3, <3>4, ItemsType
      <4>2. Len(Items(q.datas)) # 0  BY <3>5, <4>1
      <4>3. HandsOn(q, Items(q.datas), G)  BY <3>5, <3>6, <4>2, ForwardIs
      <4> QED  BY <4>3 DEF HandsOn
    <3>8. Playable(r, lv) => Playable(q, lv)
      BY <2>3, <3>1, <3>4, <3>5, StartFollows DEF Playable
    <3> QED  BY <3>5, <3>6, <3>7, <3>8, ForwardPlays
  <2> QED  BY <2>4, <2>5
<1>6. \/ r.next # Len(items)
      \/ r.next = Len(items) /\ Len(r.headers) < r.data_index + 2
      \/ r.next = Len(items) /\ r.data_index + 2 <= Len(r.headers)
  BY <1>2
<1> QED  BY <1>3, <1>4, <1>5, <1>6

\* GetStreamGop and GetStreamChunk: they begin at an I frame, whatever went out before.
LEMMA PartPlays ==
  ASSUME NEW r \in ReaderType, r.datas # 0, NEW c, c = r.datas, NEW G, NEW lv,
         NEW s \in 1..Len(Content[c]), NEW u \in 1..Len(Content[c]), NEW p \in 1..Len(Content[c]),
         PartOf(r, Content[c], G, s, u, p), Content[c][s].kind = "I",
         p = u \/ (p = u + 1 /\ Content[c][p].kind = "I")
  PROVE  G.r.datas = c /\ HandsOut(G.r, G.got, lv)
<1>1. c \in Chunks  BY DEF ReaderType
<1>2. Content[c] \in Seq(Item) /\ Len(Content[c]) \in Nat  BY <1>1, ChunkType, ContentType
<1>3. /\ s <= u /\ G.got = SubSeq(Content[c], s, u)
      /\ G.r = Placed(r, r.data_index, c, NextVideo(Content[c], u), Content[c][p].time)
  BY DEF PartOf
<1>4. PICK next : next = NextVideo(Content[c], u)  OBVIOUS
<1>5. PICK q : q = G.r  OBVIOUS
<1>6. q.datas = c /\ q.next = next /\ q.position = Time(c, p)
  BY <1>3, <1>4, <1>5 DEF Placed, ReaderType, Time
<1>7. /\ next \in u..Len(Content[c]) /\ next \in Nat
      /\ next < Len(Content[c]) => next + 1 \in Videos(Content[c])
      /\ \A z \in Videos(Content[c]) : z > u => z > next
  <2>1. u \in 0..Len(Content[c])  BY <1>2
  <2> QED  BY <1>2, <1>4, <2>1, NextVideoIs
<1>8. s \in Videos(Content[c])  BY DEF Videos, IsVideo
<1>9. u \in s..Len(Content[c])  BY <1>2, <1>3
<1>10. Follows(c, s, lv)  BY DEF Follows
<1>11. Leaves(q, c, s, u, p)
  <2>1. u <= next /\ next <= Len(Content[c])  BY <1>2, <1>7
  <2> QED  BY <1>6, <1>7, <2>1 DEF Leaves
<1>12. q.next \in Nat  BY <1>6, <1>7
<1>13. HandsOut(q, SubSeq(Content[c], s, u), lv)
  BY <1>1, <1>8, <1>9, <1>10, <1>11, <1>12, PartOut
<1> QED  BY <1>3, <1>5, <1>6, <1>13

LEMMA StreamPlays ==
  ASSUME NEW n \in Nat, NEW r, ReaderOK(r, n), r.datas # 0, NEW target, NEW G, NEW lv,
         G = GetStreamGop(r, target) \/ G = GetStreamChunk(r, target)
  PROVE  G.r.datas # 0 /\ HandsOut(G.r, G.got, lv)
<1>1. PICK c : c = r.datas  OBVIOUS
<1>2. r \in ReaderType /\ c \in Chunks /\ c # 0  BY <1>1 DEF ReaderOK, ReaderType
<1>3. PICK items : items = Content[c]  OBVIOUS
<1>4. items = Items(r.datas) /\ items # <<>> /\ items[1].kind = "I" /\ 1 \in 1..Len(items)
  BY <1>1, <1>2, <1>3, ChunkType, ContentType
<1>5. \E s, u, p \in 1..Len(items) :
        /\ PartOf(r, items, G, s, u, p) /\ items[s].kind = "I"
        /\ p = u \/ (p = u + 1 /\ items[p].kind = "I")
  <2>1. CASE G = GetStreamGop(r, target)
    <3>1. PICK s, u, p \in 1..Len(items) :
            /\ PartOf(r, items, G, s, u, p)
            /\ s = 1 \/ items[s].kind = "I"
            /\ p = u \/ (p = u + 1 /\ items[p].kind = "I")
      BY <1>2, <1>4, <2>1, StreamGopIs
    <3> QED  BY <1>4, <3>1
  <2>2. CASE G = GetStreamChunk(r, target)
    <3>1. PICK u \in 1..Len(items) : PartOf(r, items, G, 1, u, u)
      BY <1>2, <1>4, <2>2, StreamChunkIs
    <3> QED  BY <1>4, <3>1
  <2> QED  BY <2>1, <2>2
<1>6. PICK s, u, p \in 1..Len(items) :
        /\ PartOf(r, items, G, s, u, p) /\ items[s].kind = "I"
        /\ p = u \/ (p = u + 1 /\ items[p].kind = "I")
  BY <1>5
<1>7. G.r.datas = c /\ HandsOut(G.r, G.got, lv)  BY <1>1, <1>2, <1>3, <1>6, PartPlays
<1> QED  BY <1>2, <1>7

\* GetPrevData.
LEMMA PrevPlays ==
  ASSUME NEW n \in Nat, NEW r, ReaderOK(r, n), r.datas # 0, NEW G, G = GetPrevData(r), NEW lv
  PROVE  /\ G.r.datas # 0
         /\ G.got = <<>> => (Playable(r, lv) => Playable(G.r, lv))
         /\ G.got # <<>> => HandsOut(G.r, G.got, lv)
<1>1. /\ r \in ReaderType /\ r.headers \in Seq(EntryType) /\ Len(r.headers) \in Nat
      /\ r.data_index \in -1..(Len(r.headers) - 1) /\ r.data_index \in Int
      /\ r.position \in Nat /\ r.file # 0
  BY DEF ReaderOK, ReaderType
<1>2. PICK i : i = r.data_index  OBVIOUS
<1>3. PICK back : back = [r EXCEPT !.data_index = @ - 1]  OBVIOUS
<1>4. back.datas = r.datas /\ back.next = r.next /\ back.position = r.position
  BY <1>1, <1>3 DEF ReaderType
<1>5. CASE i <= 0
  <2>1. G.got = <<>> /\ G.r = r  BY <1>2, <1>5 DEF GetPrevData
  <2> QED  BY <2>1
<1>6. CASE ~(i <= 0)
  <2>1. G = IF ~Readable(r.file, i, r.headers[i]) THEN [got |-> <<>>, r |-> back]
            ELSE GetStreamChunk([back EXCEPT !.datas = r.headers[i].chunk, !.next = 0], FALSE)
    BY <1>2, <1>3, <1>6 DEF GetPrevData
  <2>2. CASE ~Readable(r.file, i, r.headers[i])
    <3>1. G.got = <<>> /\ G.r = back  BY <2>1, <2>2
    <3> QED  BY <1>4, <3>1 DEF Playable
  <2>3. CASE Readable(r.file, i, r.headers[i])
    <3>1. i \in 1..Len(r.headers) /\ i - 1 \in -1..(Len(r.headers) - 1) /\ i - 1 \in Int
      BY <1>1, <1>2, <1>6
    <3>2. r.headers[i] \in EntryType  BY <1>1, <3>1
    <3>3. PICK c : c = r.headers[i].chunk  OBVIOUS
    <3>4. c \in Chunks /\ c # 0 /\ Len(Items(c)) \in Nat
      BY <3>2, <3>3, ChunkType, ItemsType DEF EntryType
    <3>5. PICK k : k = i - 1  OBVIOUS
    <3>6. PICK p : p = r.position  OBVIOUS
    <3>7. PICK q : q = Placed(r, k, c, 0, p)  OBVIOUS
    <3>8. q = [back EXCEPT !.datas = r.headers[i].chunk, !.next = 0]
      BY <1>1, <1>2, <1>3, <3>1, <3>3, <3>5, <3>6, <3>7 DEF Placed, ReaderType
    <3>9. ReaderOK(q, n) /\ q.datas # 0
      <4>1. Fits(r, k, c, 0, p)  BY <1>1, <3>1, <3>4, <3>5, <3>6 DEF Fits
      <4>2. ReaderOK(q, n)  BY <3>7, <4>1, PlacedFits DEF SetTo
      <4>3. q.datas = c  BY <1>1, <3>7 DEF Placed, ReaderType
      <4> QED  BY <3>4, <4>2, <4>3
    <3>10. PICK target : target = FALSE  OBVIOUS
    <3>11. G = GetStreamChunk(q, target)  BY <2>1, <2>3, <3>8, <3>10
    <3>12. G.r.datas # 0 /\ HandsOut(G.r, G.got, lv)  BY <3>9, <3>11, StreamPlays
    <3> QED  BY <3>12 DEF HandsOut
  <2> QED  BY <2>2, <2>3
<1> QED  BY <1>5, <1>6

-----------------------------------------------------------------------------
(***************************************************************************)
(* The invariant of playing: files are named for the beginning of a chunk; *)
(* a client's call finds the client playing, or has been given something   *)
(* by a Seek; and what the object holds follows the last frame handed out. *)
(***************************************************************************)
Seeks == {"list", "open", "load", "skip"}
Nexts == {"next", "grown", "reload", "retake", "nextfile", "opennext", "loadnext", "take"}
Prevs == {"prev", "prevfile", "openprev", "loadprev"}
Heard == LastVideo(handed.items, before)

Stamped == \A f \in 1..Last : \E c \in Chunks : Stamp(f) = Begin(c)
Calling ==
  /\ pc \in Seeks => call.op # "next" /\ status = "none"
  /\ pc \in Nexts => IF call.op = "next" THEN status = "playing" ELSE status = "none"
  /\ pc \in Prevs => status # "none"
Full == status # "none" \/ pc \in {"skip"} \cup Nexts \cup Prevs => reader.datas # 0
Handing ==
  DecodableOf(handed.items, before) /\ (status = "playing" => Playable(reader, Heard))

PlayInv == Stamped /\ Calling /\ Full /\ Handing

LEMMA PlayDecodes == PlayInv => Decodable
BY DEF PlayInv, Handing, DecodableOf, Decodable, Previous

LEMMA NothingDecodes == ASSUME NEW lv PROVE DecodableOf(<<>>, lv)
<1>1. Videos(<<>>) = {}  BY DEF Videos
<1> QED  BY <1>1 DEF DecodableOf

LEMMA InitPlays == Init => PlayInv
<1> SUFFICES ASSUME Init PROVE PlayInv  OBVIOUS
<1>1. Stamped  BY DEF Init, Stamped, Last
<1>2. Calling /\ Full  BY DEF Init, Calling, Full, Seeks, Nexts, Prevs
<1>3. Handing  BY NothingDecodes DEF Init, Handing, NoItems
<1> QED  BY <1>1, <1>2, <1>3 DEF PlayInv

\* The writer names a file for the chunk that is next, and never again.
LEMMA WriterPlays ==
  ASSUME Inv, PlayInv, Writer
  PROVE  PlayInv'
<1>1. FilesInv /\ Stamped /\ files \in Seq(FileType) /\ Last \in Nat /\ written \in 0..Len(Content)
  BY DEF Inv, PlayInv, FilesInv, Last
<1>2. /\ reader' = reader /\ pc' = pc /\ call' = call /\ status' = status
      /\ handed' = handed /\ before' = before
  BY DEF Writer, Create, InitBuffer, WriteIndexInfo, WriteDisk, FileClose, historyVars
<1>3. Calling' /\ Full' /\ Handing'
  BY <1>2 DEF PlayInv, Calling, Full, Handing, Heard
<1>4. CASE Create
  <2>1. written + 1 \in Chunks  BY <1>1, <1>4, ConstantTypes DEF Create, Chunks
  <2>2. PICK c : c = written + 1  OBVIOUS
  <2>3. PICK left : files' = Append(files, [stamp |-> Begin(c), headed |-> FALSE, own |-> <<>>,
                                            left |-> left, cells |-> 0])
    BY <1>4, <2>2 DEF Create
  <2>4. PICK new : new = [stamp |-> Begin(c), headed |-> FALSE, own |-> <<>>,
                          left |-> left, cells |-> 0]
    OBVIOUS
  <2>5. files' = Append(files, new) /\ new.stamp = Begin(c)  BY <2>3, <2>4
  <2>6. /\ Last' = Last + 1 /\ files'[Last + 1] = new
        /\ \A f \in 1..Last : files'[f] = files[f]
    BY <1>1, <2>5 DEF Last
  <2>7. ASSUME NEW f \in 1..(Last + 1) PROVE \E d \in Chunks : files'[f].stamp = Begin(d)
    <3>1. CASE f = Last + 1  BY <2>1, <2>2, <2>5, <2>6, <3>1
    <3>2. CASE f # Last + 1
      <4>1. f \in 1..Last  BY <1>1, <3>2
      <4> QED  BY <1>1, <2>6, <4>1 DEF Stamped, Stamp
    <3> QED  BY <3>1, <3>2
  <2>8. Stamped'  BY <2>6, <2>7 DEF Stamped, Stamp
  <2> QED  BY <1>3, <2>8 DEF PlayInv
<1>5. CASE ~Create
  <2>1. Len(files') = Len(files) /\ \A f \in 1..Last : files'[f].stamp = files[f].stamp
    <3>1. CASE InitBuffer  BY <1>1, <3>1 DEF InitBuffer, FileType, Last
    <3>2. CASE WriteIndexInfo  BY <1>1, <3>2 DEF WriteIndexInfo, FileType, Last
    <3>3. CASE WriteDisk  BY <1>1, <3>3 DEF WriteDisk, FileType, Last
    <3>4. CASE FileClose  BY <1>1, <3>4 DEF FileClose, FileType, Last
    <3> QED  BY <1>5, <3>1, <3>2, <3>3, <3>4 DEF Writer
  <2>2. Stamped'  BY <1>1, <2>1 DEF Stamped, Stamp, Last
  <2> QED  BY <1>3, <2>2 DEF PlayInv
<1> QED  BY <1>4, <1>5

LEMMA StampedStays ==
  ASSUME PlayInv, UNCHANGED writerVars
  PROVE  Stamped'
BY DEF PlayInv, Stamped, Stamp, Last, writerVars

\* The object after a step that hands nothing out.
Kept(q) ==
  /\ reader.datas # 0 => q.datas # 0
  /\ \A lv : Playable(reader, lv) => Playable(q, lv)

LEMMA SameKept ==
  ASSUME NEW q, q.datas = reader.datas, q.next = reader.next, q.position = reader.position
  PROVE  Kept(q)
BY DEF Kept, Playable

\* The ends of a step.
LEMMA ReturnsPlays ==
  ASSUME PlayInv, NEW by, NEW items, Returns(by, items), UNCHANGED writerVars,
         reader.datas # 0,
         IF items = <<>> THEN Kept(reader') ELSE HandsOut(reader', items, Heard)
  PROVE  PlayInv'
<1>1. Stamped'  BY StampedStays
<1>2. pc' = "idle"  BY DEF Returns
<1>3. Calling'  BY <1>2 DEF Calling, Seeks, Nexts, Prevs
<1>4. CASE items = <<>>
  <2>1. status' = status /\ handed' = handed /\ before' = before  BY <1>4 DEF Returns
  <2>2. Kept(reader')  BY <1>4
  <2>3. Handing'  BY <2>1, <2>2 DEF PlayInv, Handing, Heard, Kept
  <2>4. Full'  BY <2>2 DEF Kept, Full
  <2> QED  BY <1>1, <1>3, <2>3, <2>4 DEF PlayInv
<1>5. CASE items # <<>>
  <2>1. handed'.items = items /\ before' = Heard  BY <1>5 DEF Returns, Heard
  <2>2. HandsOut(reader', items, Heard)  BY <1>5
  <2>3. DecodableOf(items, Heard) /\ Playable(reader', LastVideo(items, Heard))
    BY <2>2 DEF HandsOut
  <2>4. Handing'  BY <2>1, <2>3 DEF Handing, Heard
  <2>5. Full'  BY <2>3 DEF Full, Playable
  <2> QED  BY <1>1, <1>3, <2>4, <2>5 DEF PlayInv
<1> QED  BY <1>4, <1>5

Onward(from, to) ==
  \/ from \in Seeks /\ to \in Seeks \cup {"next"}
  \/ from \in Nexts /\ to \in Nexts
  \/ from \in Prevs /\ to \in Prevs

LEMMA GoesPlays ==
  ASSUME PlayInv, NEW at, Goes(at), UNCHANGED writerVars, Onward(pc, at),
         status # "none" \/ at \in {"skip"} \cup Nexts \cup Prevs => reader'.datas # 0,
         status = "playing" => Kept(reader')
  PROVE  PlayInv'
<1>1. Stamped'  BY StampedStays
<1>2. /\ pc' = at /\ call' = call /\ status' = status /\ handed' = handed /\ before' = before
  BY DEF Goes, historyVars
<1>3. Calling'
  <2>1. CASE at \in Seeks
    <3>1. pc \in Seeks /\ at \notin Nexts \cup Prevs
      BY <2>1 DEF Onward, Seeks, Nexts, Prevs
    <3> QED  BY <1>2, <3>1 DEF PlayInv, Calling
  <2>2. CASE at \in Nexts
    <3>1. pc \in Seeks \cup Nexts /\ at \notin Seeks \cup Prevs
      BY <2>2 DEF Onward, Seeks, Nexts, Prevs
    <3> QED  BY <1>2, <3>1 DEF PlayInv, Calling
  <2>3. CASE at \in Prevs
    <3>1. pc \in Prevs /\ at \notin Seeks \cup Nexts
      BY <2>3 DEF Onward, Seeks, Nexts, Prevs
    <3> QED  BY <1>2, <3>1 DEF PlayInv, Calling
  <2> QED  BY <1>2, <2>1, <2>2, <2>3 DEF Calling
<1>4. Full'  BY <1>2 DEF Full
<1>5. Handing'  BY <1>2 DEF PlayInv, Handing, Heard, Kept
<1> QED  BY <1>1, <1>3, <1>4, <1>5 DEF PlayInv

LEMMA NextReturnsPlays ==
  ASSUME PlayInv, NEW by, NEW items, NextReturns(by, items), UNCHANGED writerVars,
         pc \in Nexts, reader.datas # 0, reader'.datas # 0,
         IF items = <<>> THEN Kept(reader')
         ELSE status = "playing" => HandsOut(reader', items, Heard)
  PROVE  PlayInv'
<1>1. IF call.op = "next" THEN status = "playing" ELSE status = "none"
  BY DEF PlayInv, Calling
<1>2. Stamped' /\ Handing /\ Full  BY StampedStays DEF PlayInv
<1>3. CASE call.op = "next"
  <2>1. Returns(by, items) /\ status = "playing"  BY <1>1, <1>3 DEF NextReturns
  <2> QED  BY <2>1, ReturnsPlays
<1>4. CASE call.op # "next" /\ items # <<>>
  <2>1. /\ pc' = "skip" /\ call' = call /\ status' = "none" /\ handed' = handed /\ before' = before
    BY <1>1, <1>4 DEF NextReturns, Goes, historyVars
  <2>2. Calling'  BY <1>4, <2>1 DEF Calling, Seeks, Nexts, Prevs
  <2>3. Full' /\ Handing'  BY <1>2, <2>1 DEF Full, Handing
  <2> QED  BY <1>2, <2>2, <2>3 DEF PlayInv
<1>5. CASE call.op # "next" /\ items = <<>>
  <2>1. /\ pc' = "idle" /\ status' = "none" /\ handed' = handed /\ before' = before
    BY <1>1, <1>5 DEF NextReturns, historyVars
  <2>2. Calling'  BY <2>1 DEF Calling, Seeks, Nexts, Prevs
  <2>3. Full' /\ Handing'  BY <1>2, <2>1 DEF Full, Handing, Nexts, Prevs
  <2> QED  BY <1>2, <2>2, <2>3 DEF PlayInv
<1> QED  BY <1>3, <1>4, <1>5

LEMMA SeekReturnsPlays ==
  ASSUME PlayInv, NEW found \in BOOLEAN, NEW r \in ReaderType, SeekReturns(found, r),
         UNCHANGED writerVars, call \in CallType, pc \in Seeks, found => r.datas # 0
  PROVE  PlayInv'
<1>1. Stamped' /\ Handing /\ status = "none" /\ call.op # "next"
  BY StampedStays DEF PlayInv, Calling
<1>2. handed' = handed /\ before' = before  BY DEF SeekReturns, historyVars
<1>3. CASE call.type = "Next" /\ call.dir = "Prev" /\ IsInGOP(r, call.time)
  <2>1. /\ reader' = [r EXCEPT !.file_list = <<>>] /\ pc' = "skip" /\ status' = "none"
        /\ call' = [call EXCEPT !.found = found]
    BY <1>1, <1>3 DEF SeekReturns
  <2>2. r.datas # 0 /\ reader'.datas = r.datas  BY <1>3, <2>1 DEF IsInGOP, Items, ReaderType
  <2>3. call'.op # "next"  BY <1>1, <2>1 DEF CallType
  <2>4. Calling'  BY <2>1, <2>3 DEF Calling, Seeks, Nexts, Prevs
  <2>5. Full' /\ Handing'  BY <1>1, <1>2, <2>1, <2>2 DEF Full, Handing
  <2> QED  BY <1>1, <2>4, <2>5 DEF PlayInv
<1>4. CASE call.type = "Next" /\ call.dir = "Prev" /\ ~IsInGOP(r, call.time)
  <2>1. pc' = "list" /\ status' = "none" /\ call' = [call EXCEPT !.dir = "Next"]
    BY <1>1, <1>4 DEF SeekReturns
  <2>2. call'.op # "next"  BY <1>1, <2>1 DEF CallType
  <2>3. Calling'  BY <2>1, <2>2 DEF Calling, Seeks, Nexts, Prevs
  <2>4. Full' /\ Handing'  BY <1>1, <1>2, <2>1 DEF Full, Handing, Nexts, Prevs
  <2> QED  BY <1>1, <2>3, <2>4 DEF PlayInv
<1>5. CASE ~(call.type = "Next" /\ call.dir = "Prev")
  <2>1. reader' = r /\ pc' = "idle" /\ status' = IF found THEN "sought" ELSE "none"
    BY <1>1, <1>5 DEF SeekReturns
  <2>2. Calling'  BY <2>1 DEF Calling, Seeks, Nexts, Prevs
  <2>3. Full' /\ Handing'  BY <1>1, <1>2, <2>1 DEF Full, Handing, Nexts, Prevs
  <2> QED  BY <1>1, <2>2, <2>3 DEF PlayInv
<1> QED  BY <1>3, <1>4, <1>5

-----------------------------------------------------------------------------
(***************************************************************************)
(* One step after the other.                                               *)
(***************************************************************************)
LEMMA SeekPlays ==
  ASSUME Inv, PlayInv, Seek
  PROVE  PlayInv'
<1>1. /\ pc' = "list" /\ status' = "none" /\ handed' = NoItems /\ before' = 0
      /\ UNCHANGED writerVars
  BY DEF Seek
<1>2. PICK t \in Targets, type \in {"Next", "Prev"} :
        call' = [NoCall EXCEPT !.op = "seek", !.time = t, !.type = type, !.dir = "Prev"]
  BY DEF Seek
<1>3. call'.op = "seek"  BY <1>2 DEF NoCall
<1>4. Stamped'  BY <1>1, StampedStays
<1>5. Calling' /\ Full'  BY <1>1, <1>3 DEF Calling, Full, Seeks, Nexts, Prevs
<1>6. Handing'  BY <1>1, NothingDecodes DEF Handing, NoItems
<1> QED  BY <1>4, <1>5, <1>6 DEF PlayInv

LEMMA SeekListPlays ==
  ASSUME Inv, PlayInv, SeekList
  PROVE  PlayInv'
<1>1. /\ UNCHANGED writerVars /\ pc = "list" /\ pc \in Seeks /\ status = "none"
      /\ reader \in ReaderType /\ call \in CallType
  BY DEF SeekList, Inv, ReaderInv, ReaderOK, CallInv, PlayInv, Calling, Seeks
<1>2. PICK list : list = GetNearestFile(call.time, call.dir, TRUE)  OBVIOUS
<1>3. CASE list = <<>>
  <2>1. PICK found : found = FALSE  OBVIOUS
  <2>2. SeekReturns(found, reader)  BY <1>2, <1>3, <2>1 DEF SeekList
  <2> QED  BY <1>1, <2>1, <2>2, SeekReturnsPlays
<1>4. CASE list # <<>>
  <2>1. Goes("open")  BY <1>2, <1>4 DEF SeekList
  <2>2. Onward(pc, "open") /\ "open" \notin {"skip"} \cup Nexts \cup Prevs
    BY <1>1 DEF Onward, Seeks, Nexts, Prevs
  <2> QED  BY <1>1, <2>1, <2>2, GoesPlays
<1> QED  BY <1>3, <1>4

LEMMA SeekOpenPlays ==
  ASSUME Inv, PlayInv, SeekOpen
  PROVE  PlayInv'
<1>1. /\ UNCHANGED writerVars /\ pc = "open" /\ pc \in Seeks /\ status = "none"
      /\ reader \in ReaderType /\ call \in CallType
  BY DEF SeekOpen, Inv, ReaderInv, ReaderOK, CallInv, PlayInv, Calling, Seeks
<1>2. CASE reader.file_list = <<>>
  <2>1. PICK found : found = FALSE  OBVIOUS
  <2>2. SeekReturns(found, reader)  BY <1>2, <2>1 DEF SeekOpen
  <2> QED  BY <1>1, <2>1, <2>2, SeekReturnsPlays
<1>3. CASE reader.file_list # <<>>
  <2>1. PICK at : at \in {"load", "open"} /\ Goes(at)
    <3>1. PICK taken : taken = Pop(reader, call.dir)  OBVIOUS
    <3>2. Goes(IF Parsed(taken.file) THEN "load" ELSE "open")  BY <1>3, <3>1 DEF SeekOpen
    <3> QED  BY <3>2
  <2>2. Onward(pc, at) /\ at \notin {"skip"} \cup Nexts \cup Prevs
    BY <1>1, <2>1 DEF Onward, Seeks, Nexts, Prevs
  <2> QED  BY <1>1, <2>1, <2>2, GoesPlays
<1> QED  BY <1>2, <1>3

LEMMA SeekLoadPlays ==
  ASSUME Inv, PlayInv, SeekLoad
  PROVE  PlayInv'
<1>1. /\ UNCHANGED writerVars /\ pc = "load" /\ pc \in Seeks /\ status = "none"
      /\ call \in CallType /\ call.time \in Int /\ call.dir \in {"Next", "Prev"}
  BY DEF SeekLoad, Inv, CallInv, PlayInv, Calling, Seeks, CallType
<1>2. ReaderOK(reader, Last) /\ Last \in Nat /\ reader.file # 0
  BY <1>1, InCall
<1>3. PICK loaded : loaded = LoadDataByIndex(reader, call.time, call.dir)  OBVIOUS
<1>4. ReaderOK(loaded.r, Last) /\ loaded.r \in ReaderType
  <2>1. ReaderOK(loaded.r, Last)  BY <1>1, <1>2, <1>3, LoadedOK
  <2> QED  BY <2>1 DEF ReaderOK
<1>5. CASE loaded.ok
  <2>1. PICK found : found = TRUE  OBVIOUS
  <2>2. SeekReturns(found, loaded.r)  BY <1>3, <1>5, <2>1 DEF SeekLoad
  <2>3. loaded.r.datas # 0
    <3>1. loaded.r.datas \in Chunks  BY <1>1, <1>2, <1>3, <1>5, LoadKeeps
    <3> QED  BY <3>1, ChunkType
  <2> QED  BY <1>1, <1>4, <2>1, <2>2, <2>3, SeekReturnsPlays
<1>6. CASE ~loaded.ok
  <2>1. Goes("open")  BY <1>3, <1>6 DEF SeekLoad
  <2>2. Onward(pc, "open") /\ "open" \notin {"skip"} \cup Nexts \cup Prevs
    BY <1>1 DEF Onward, Seeks, Nexts, Prevs
  <2> QED  BY <1>1, <2>1, <2>2, GoesPlays
<1> QED  BY <1>5, <1>6

LEMMA SeekSkipPlays ==
  ASSUME Inv, PlayInv, SeekSkip
  PROVE  PlayInv'
<1>1. /\ UNCHANGED writerVars /\ pc = "skip" /\ reader' = reader /\ status = "none"
      /\ reader.datas # 0 /\ Handing
  BY DEF SeekSkip, PlayInv, Calling, Full, Seeks
<1>2. CASE Goes("next")
  <2>1. Onward(pc, "next")  BY <1>1 DEF Onward, Seeks
  <2> QED  BY <1>1, <1>2, <2>1, GoesPlays
<1>3. CASE ~Goes("next")
  <2>1. /\ pc' = "idle" /\ status' = "sought" /\ handed' = handed /\ before' = before
    BY <1>3 DEF SeekSkip
  <2>2. Calling' /\ Full' /\ Handing'
    BY <1>1, <2>1 DEF Calling, Full, Handing, Seeks, Nexts, Prevs
  <2> QED  BY <1>1, <2>2, StampedStays DEF PlayInv
<1> QED  BY <1>2, <1>3

LEMMA CallPlays ==
  ASSUME PlayInv, NextCall \/ PrevCall
  PROVE  PlayInv'
<1>1. /\ UNCHANGED writerVars /\ reader' = reader /\ status' = status /\ status # "none"
      /\ handed' = handed /\ before' = before /\ reader.datas # 0 /\ Handing
  BY DEF NextCall, PrevCall, Begins, PlayInv, Full
<1>2. Full' /\ Handing'  BY <1>1 DEF Full, Handing, Heard
<1>3. Calling'
  <2>1. CASE NextCall
    <3>1. pc' = "next" /\ call' = [NoCall EXCEPT !.op = "next"] /\ status = "playing"
      BY <2>1 DEF NextCall, Begins
    <3>2. call'.op = "next"  BY <3>1 DEF NoCall
    <3> QED  BY <1>1, <3>1, <3>2 DEF Calling, Seeks, Nexts, Prevs
  <2>2. CASE PrevCall
    <3>1. pc' = "prev"  BY <2>2 DEF PrevCall, Begins
    <3> QED  BY <1>1, <3>1 DEF Calling, Seeks, Nexts, Prevs
  <2> QED  BY <2>1, <2>2
<1> QED  BY <1>1, <1>2, <1>3, StampedStays DEF PlayInv

\* What a step inside GetNextData or GetPrevData starts from.
LEMMA InPlay ==
  ASSUME Inv, PlayInv, UNCHANGED writerVars, pc \in Nexts \cup Prevs
  PROVE  /\ FilesInv /\ CallInv /\ Last \in Nat /\ files \in Seq(FileType)
         /\ ReaderOK(reader, Last) /\ reader.datas # 0 /\ reader.file \in 1..Last
         /\ reader.file # 0 /\ call.time \in Int /\ reader.position \in Int
         /\ status = "playing" => Playable(reader, Heard)
<1>1. pc \notin {"idle", "list", "open"}  BY DEF Nexts, Prevs
<1>2. /\ FilesInv /\ CallInv /\ Last \in Nat /\ files \in Seq(FileType)
      /\ ReaderOK(reader, Last) /\ reader.file \in 1..Last /\ reader.file # 0
  BY <1>1, InCall
<1>3. reader.datas # 0 /\ (status = "playing" => Playable(reader, Heard))
  BY DEF PlayInv, Full, Handing
<1>4. call.time \in Int /\ reader.position \in Int
  BY <1>2 DEF CallInv, CallType, ReaderOK, ReaderType
<1> QED  BY <1>2, <1>3, <1>4

LEMMA NextInFilePlays ==
  ASSUME Inv, PlayInv, NextInFile
  PROVE  PlayInv'
<1>1. UNCHANGED writerVars /\ pc = "next" /\ pc \in Nexts  BY DEF NextInFile, Nexts
<1>2. /\ Last \in Nat /\ ReaderOK(reader, Last) /\ reader.datas # 0
      /\ status = "playing" => Playable(reader, Heard)
  BY <1>1, InPlay
<1>3. PICK found : found = GetNextData(reader)  OBVIOUS
<1>4. reader' = found.r /\ IF found.got # <<>> THEN NextReturns("next", found.got)
                           ELSE Goes("grown")
  BY <1>3 DEF NextInFile
<1>5. /\ found.r.datas # 0
      /\ \A lv : Playable(reader, lv) => IF found.got = <<>> THEN Playable(found.r, lv)
                                         ELSE HandsOut(found.r, found.got, lv)
  BY <1>2, <1>3, NextPlays
<1>6. CASE found.got # <<>>
  <2>1. NextReturns("next", found.got)  BY <1>4, <1>6
  <2>2. status = "playing" => HandsOut(reader', found.got, Heard)  BY <1>2, <1>4, <1>5, <1>6
  <2> QED  BY <1>1, <1>2, <1>4, <1>5, <1>6, <2>1, <2>2, NextReturnsPlays
<1>7. CASE found.got = <<>>
  <2>1. Goes("grown") /\ Onward(pc, "grown")  BY <1>1, <1>4, <1>7 DEF Onward, Nexts
  <2>2. Kept(reader')  BY <1>4, <1>5, <1>7 DEF Kept
  <2> QED  BY <1>1, <1>4, <1>5, <2>1, <2>2, GoesPlays
<1> QED  BY <1>6, <1>7

LEMMA NextIfGrownPlays ==
  ASSUME Inv, PlayInv, NextIfGrown
  PROVE  PlayInv'
<1>1. UNCHANGED writerVars /\ pc = "grown" /\ pc \in Nexts  BY DEF NextIfGrown, Nexts
<1>2. /\ FilesInv /\ CallInv /\ Last \in Nat /\ ReaderOK(reader, Last) /\ reader.datas # 0
      /\ reader.file \in 1..Last
  BY <1>1, InPlay
<1>3. CASE FileSize(reader.file) <= reader.size
  <2>1. /\ pc' = "nextfile" /\ call' = [call EXCEPT !.missing = Chunks \ OnDisk]
        /\ reader' = reader /\ status' = status /\ handed' = handed /\ before' = before
    BY <1>3 DEF NextIfGrown, historyVars
  <2>2. call'.op = call.op  BY <1>2, <2>1 DEF CallInv, CallType
  <2>3. Calling'  BY <1>1, <2>1, <2>2 DEF PlayInv, Calling, Seeks, Nexts, Prevs
  <2>4. Full' /\ Handing'  BY <1>2, <2>1 DEF PlayInv, Full, Handing, Heard
  <2> QED  BY <1>1, <2>3, <2>4, StampedStays DEF PlayInv
<1>4. CASE ~(FileSize(reader.file) <= reader.size)
  <2>1. /\ reader' = ParseHeader(reader, reader.file)
        /\ IF Parsed(reader.file) THEN Goes("reload") ELSE NextReturns("again", <<>>)
    BY <1>4 DEF NextIfGrown
  <2>2. Opened(reader', reader, reader.file)  BY <1>2, <2>1, OpenedOK
  <2>3. Kept(reader') /\ reader'.datas # 0  BY <1>2, <2>2, SameKept DEF Opened
  <2>4. CASE Parsed(reader.file)
    <3>1. Goes("reload") /\ Onward(pc, "reload")  BY <1>1, <2>1, <2>4 DEF Onward, Nexts
    <3> QED  BY <1>1, <2>3, <3>1, GoesPlays
  <2>5. CASE ~Parsed(reader.file)
    <3>1. PICK items : items = <<>>  OBVIOUS
    <3>2. NextReturns("again", items)  BY <2>1, <2>5, <3>1
    <3> QED  BY <1>1, <1>2, <2>3, <3>1, <3>2, NextReturnsPlays
  <2> QED  BY <2>4, <2>5
<1> QED  BY <1>3, <1>4

LEMMA NextLoadPlays ==
  ASSUME Inv, PlayInv, NEW at \in {"reload", "loadnext"}, NEW time \in Int,
         NEW then \in {"retake", "take"}, NextLoad(at, time, then),
         \A lv : Playable(reader, lv) => Beside(time, lv)
  PROVE  PlayInv'
<1>1. UNCHANGED writerVars /\ pc \in Nexts  BY DEF NextLoad, Nexts
<1>2. Last \in Nat /\ ReaderOK(reader, Last) /\ reader.datas # 0  BY <1>1, InPlay
<1>3. PICK dir : dir = "Next"  OBVIOUS
<1>4. PICK loaded : loaded = LoadDataByIndex(reader, time, dir)  OBVIOUS
<1>5. reader' = loaded.r /\ IF loaded.ok THEN Goes(then) ELSE NextReturns("next", <<>>)
  BY <1>3, <1>4 DEF NextLoad
<1>6. /\ loaded.ok \in BOOLEAN /\ loaded.r.datas # 0
      /\ \A lv : /\ loaded.ok /\ Beside(time, lv) => Playable(loaded.r, lv)
                 /\ ~loaded.ok /\ Playable(reader, lv) => Playable(loaded.r, lv)
  BY <1>2, <1>3, <1>4, LoadKeeps
<1>7. Kept(reader') /\ reader'.datas # 0  BY <1>5, <1>6 DEF Kept
<1>8. CASE loaded.ok
  <2>1. Goes(then) /\ Onward(pc, then)  BY <1>1, <1>5, <1>8 DEF Onward, Nexts
  <2> QED  BY <1>1, <1>7, <2>1, GoesPlays
<1>9. CASE ~loaded.ok
  <2>1. PICK items : items = <<>>  OBVIOUS
  <2>2. NextReturns("next", items)  BY <1>5, <1>9, <2>1
  <2> QED  BY <1>1, <1>2, <1>7, <2>1, <2>2, NextReturnsPlays
<1> QED  BY <1>8, <1>9

LEMMA NextTakePlays ==
  ASSUME Inv, PlayInv, NEW at \in {"retake", "take"}, NEW by, NextTake(at, by)
  PROVE  PlayInv'
<1>1. UNCHANGED writerVars /\ pc \in Nexts  BY DEF NextTake, Nexts
<1>2. /\ Last \in Nat /\ ReaderOK(reader, Last) /\ reader.datas # 0
      /\ status = "playing" => Playable(reader, Heard)
  BY <1>1, InPlay
<1>3. PICK found : found = GetNextData(reader)  OBVIOUS
<1>4. PICK items : items = found.got  OBVIOUS
<1>5. reader' = found.r /\ NextReturns(by, items)  BY <1>3, <1>4 DEF NextTake
<1>6. /\ found.r.datas # 0
      /\ \A lv : Playable(reader, lv) => IF items = <<>> THEN Playable(found.r, lv)
                                         ELSE HandsOut(found.r, items, lv)
  BY <1>2, <1>3, <1>4, NextPlays
<1>7. IF items = <<>> THEN Kept(reader')
      ELSE status = "playing" => HandsOut(reader', items, Heard)
  BY <1>2, <1>5, <1>6 DEF Kept
<1> QED  BY <1>1, <1>2, <1>5, <1>6, <1>7, NextReturnsPlays

LEMMA NextFilePlays ==
  ASSUME Inv, PlayInv, NextFile
  PROVE  PlayInv'
<1>1. UNCHANGED writerVars /\ pc = "nextfile" /\ pc \in Nexts  BY DEF NextFile, Nexts
<1>2. /\ FilesInv /\ CallInv /\ Last \in Nat /\ ReaderOK(reader, Last) /\ reader.datas # 0
  BY <1>1, InPlay
<1>3. PICK list : list = Listed(reader.position, "Next")  OBVIOUS
<1>4. CASE list = <<>>
  <2>1. PICK items : items = <<>>  OBVIOUS
  <2>2. NextReturns("next", items) /\ reader' = reader
    BY <1>3, <1>4, <2>1 DEF NextFile, Listed
  <2>3. Kept(reader')  BY <2>2, SameKept
  <2> QED  BY <1>1, <1>2, <2>1, <2>2, <2>3, NextReturnsPlays
<1>5. CASE list # <<>>
  <2>1. PICK taken : taken = Pop([reader EXCEPT !.file_list = list], "Next")  OBVIOUS
  <2>2. /\ reader' = taken.r /\ pc' = "opennext" /\ call' = [call EXCEPT !.file = taken.file]
        /\ status' = status /\ handed' = handed /\ before' = before
    BY <1>3, <1>5, <2>1 DEF NextFile, Listed, historyVars
  <2>3. TakenOff(taken)
    <3>1. Takes(taken, reader.position, "Next")  BY <1>3, <1>5, <2>1 DEF Takes
    <3> QED  BY <1>2, <3>1, FromList
  <2>4. Kept(reader') /\ reader'.datas # 0  BY <1>2, <2>2, <2>3, SameKept DEF TakenOff
  <2>5. call'.op = call.op  BY <1>2, <2>2 DEF CallInv, CallType
  <2>6. Calling'  BY <1>1, <2>2, <2>5 DEF PlayInv, Calling, Seeks, Nexts, Prevs
  <2>7. Full' /\ Handing'  BY <2>2, <2>4 DEF PlayInv, Full, Handing, Heard, Kept
  <2> QED  BY <1>1, <2>6, <2>7, StampedStays DEF PlayInv
<1> QED  BY <1>4, <1>5

LEMMA NextOpenPlays ==
  ASSUME Inv, PlayInv, NextOpen
  PROVE  PlayInv'
<1>1. UNCHANGED writerVars /\ pc = "opennext" /\ pc \in Nexts  BY DEF NextOpen, Nexts
<1>2. /\ FilesInv /\ CallInv /\ Last \in Nat /\ ReaderOK(reader, Last) /\ reader.datas # 0
  BY <1>1, InPlay
<1>3. call.file \in 1..Last  BY <1>1, <1>2 DEF CallInv
<1>4. /\ reader' = ParseHeader(reader, call.file)
      /\ IF Parsed(call.file) THEN Goes("loadnext") ELSE NextReturns("next", <<>>)
  BY DEF NextOpen
<1>5. Opened(reader', reader, call.file)  BY <1>2, <1>3, <1>4, OpenedOK
<1>6. Kept(reader') /\ reader'.datas # 0  BY <1>2, <1>5, SameKept DEF Opened
<1>7. CASE Parsed(call.file)
  <2>1. Goes("loadnext") /\ Onward(pc, "loadnext")  BY <1>1, <1>4, <1>7 DEF Onward, Nexts
  <2> QED  BY <1>1, <1>6, <2>1, GoesPlays
<1>8. CASE ~Parsed(call.file)
  <2>1. PICK items : items = <<>>  OBVIOUS
  <2>2. NextReturns("next", items)  BY <1>4, <1>8, <2>1
  <2> QED  BY <1>1, <1>2, <1>6, <2>1, <2>2, NextReturnsPlays
<1> QED  BY <1>7, <1>8

LEMMA NextStepsPlay ==
  ASSUME Inv, PlayInv, NextReload \/ NextRetake \/ NextFileLoad \/ NextFileTake
  PROVE  PlayInv'
<1>1. CASE NextReload
  <2>1. PICK at : at = "reload"  OBVIOUS
  <2>2. PICK then : then = "retake"  OBVIOUS
  <2>3. PICK time : time = reader.position  OBVIOUS
  <2>4. NextLoad(at, time, then)  BY <1>1, <2>1, <2>2, <2>3 DEF NextReload
  <2>5. time \in Int  BY <2>3 DEF Inv, ReaderInv, ReaderOK, ReaderType
  <2>6. \A lv : Playable(reader, lv) => Beside(time, lv)  BY <2>3 DEF Playable
  <2> QED  BY <2>1, <2>2, <2>4, <2>5, <2>6, NextLoadPlays
<1>2. CASE NextFileLoad
  <2>1. PICK at : at = "loadnext"  OBVIOUS
  <2>2. PICK then : then = "take"  OBVIOUS
  <2>3. PICK time : time = Stamp(call.file)  OBVIOUS
  <2>4. NextLoad(at, time, then)  BY <1>2, <2>1, <2>2, <2>3 DEF NextFileLoad
  <2>5. call.file \in 1..Last  BY <2>1, <2>4 DEF NextLoad, Inv, CallInv
  <2>6. PICK c \in Chunks : time = Begin(c)  BY <2>3, <2>5 DEF PlayInv, Stamped
  <2>7. time \in Int  BY <2>6, ChunkType
  <2>8. \A lv : Beside(time, lv)  BY <2>6, SeekBegin
  <2> QED  BY <2>1, <2>2, <2>4, <2>7, <2>8, NextLoadPlays
<1>3. CASE NextRetake
  <2>1. PICK at : at = "retake"  OBVIOUS
  <2>2. NextTake(at, "again")  BY <1>3, <2>1 DEF NextRetake
  <2> QED  BY <2>1, <2>2, NextTakePlays
<1>4. CASE NextFileTake
  <2>1. PICK at : at = "take"  OBVIOUS
  <2>2. NextTake(at, "next")  BY <1>4, <2>1 DEF NextFileTake
  <2> QED  BY <2>1, <2>2, NextTakePlays
<1> QED  BY <1>1, <1>2, <1>3, <1>4

LEMMA PrevInFilePlays ==
  ASSUME Inv, PlayInv, PrevInFile
  PROVE  PlayInv'
<1>1. UNCHANGED writerVars /\ pc = "prev" /\ pc \in Prevs  BY DEF PrevInFile, Prevs
<1>2. Last \in Nat /\ ReaderOK(reader, Last) /\ reader.datas # 0  BY <1>1, InPlay
<1>3. PICK found : found = GetPrevData(reader)  OBVIOUS
<1>4. /\ reader' = found.r
      /\ IF found.got # <<>> THEN Returns("prev", found.got) ELSE Goes("prevfile")
  BY <1>3 DEF PrevInFile
<1>5. /\ found.r.datas # 0
      /\ \A lv : /\ found.got = <<>> => (Playable(reader, lv) => Playable(found.r, lv))
                 /\ found.got # <<>> => HandsOut(found.r, found.got, lv)
  BY <1>2, <1>3, PrevPlays
<1>6. CASE found.got # <<>>
  <2>1. Returns("prev", found.got) /\ HandsOut(reader', found.got, Heard)  BY <1>4, <1>5, <1>6
  <2> QED  BY <1>1, <1>2, <1>6, <2>1, ReturnsPlays
<1>7. CASE found.got = <<>>
  <2>1. Goes("prevfile") /\ Onward(pc, "prevfile")  BY <1>1, <1>4, <1>7 DEF Onward, Prevs
  <2>2. Kept(reader')  BY <1>4, <1>5, <1>7 DEF Kept
  <2> QED  BY <1>1, <1>4, <1>5, <2>1, <2>2, GoesPlays
<1> QED  BY <1>6, <1>7

LEMMA PrevFilePlays ==
  ASSUME Inv, PlayInv, PrevFile
  PROVE  PlayInv'
<1>1. UNCHANGED writerVars /\ pc = "prevfile" /\ pc \in Prevs  BY DEF PrevFile, Prevs
<1>2. FilesInv /\ Last \in Nat /\ ReaderOK(reader, Last) /\ reader.datas # 0
  BY <1>1, InPlay
<1>3. PICK time : time = reader.opened - 1  OBVIOUS
<1>4. PICK list : list = Listed(time, "Prev")  OBVIOUS
<1>5. CASE list = <<>>
  <2>1. PICK items : items = <<>>  OBVIOUS
  <2>2. Returns("prev", items) /\ reader' = reader
    BY <1>3, <1>4, <1>5, <2>1 DEF PrevFile, Listed
  <2>3. Kept(reader')  BY <2>2, SameKept
  <2> QED  BY <1>1, <1>2, <2>1, <2>2, <2>3, ReturnsPlays
<1>6. CASE list # <<>>
  <2>1. PICK taken : taken = Pop([reader EXCEPT !.file_list = list], "Prev")  OBVIOUS
  <2>2. /\ reader' = taken.r /\ pc' = "openprev"
        /\ status' = status /\ handed' = handed /\ before' = before
    BY <1>3, <1>4, <1>6, <2>1 DEF PrevFile, Listed, historyVars
  <2>3. TakenOff(taken)
    <3>1. Takes(taken, time, "Prev")  BY <1>4, <1>6, <2>1 DEF Takes
    <3> QED  BY <1>2, <3>1, FromList
  <2>4. Kept(reader') /\ reader'.datas # 0  BY <1>2, <2>2, <2>3, SameKept DEF TakenOff
  <2>5. Calling'  BY <1>1, <2>2 DEF PlayInv, Calling, Seeks, Nexts, Prevs
  <2>6. Full' /\ Handing'  BY <2>2, <2>4 DEF PlayInv, Full, Handing, Heard, Kept
  <2> QED  BY <1>1, <2>5, <2>6, StampedStays DEF PlayInv
<1> QED  BY <1>5, <1>6

LEMMA PrevOpenPlays ==
  ASSUME Inv, PlayInv, PrevOpen
  PROVE  PlayInv'
<1>1. UNCHANGED writerVars /\ pc = "openprev" /\ pc \in Prevs  BY DEF PrevOpen, Prevs
<1>2. /\ FilesInv /\ CallInv /\ Last \in Nat /\ ReaderOK(reader, Last) /\ reader.datas # 0
  BY <1>1, InPlay
<1>3. call.file \in 1..Last  BY <1>1, <1>2 DEF CallInv
<1>4. /\ reader' = ParseHeader(reader, call.file)
      /\ IF Parsed(call.file) THEN Goes("loadprev") ELSE Returns("prev", <<>>)
  BY DEF PrevOpen
<1>5. Opened(reader', reader, call.file)  BY <1>2, <1>3, <1>4, OpenedOK
<1>6. Kept(reader') /\ reader'.datas # 0  BY <1>2, <1>5, SameKept DEF Opened
<1>7. CASE Parsed(call.file)
  <2>1. Goes("loadprev") /\ Onward(pc, "loadprev")  BY <1>1, <1>4, <1>7 DEF Onward, Prevs
  <2> QED  BY <1>1, <1>6, <2>1, GoesPlays
<1>8. CASE ~Parsed(call.file)
  <2>1. PICK items : items = <<>>  OBVIOUS
  <2>2. Returns("prev", items)  BY <1>4, <1>8, <2>1
  <2> QED  BY <1>1, <1>2, <1>6, <2>1, <2>2, ReturnsPlays
<1> QED  BY <1>7, <1>8

LEMMA PrevLoadPlays ==
  ASSUME Inv, PlayInv, PrevLoad
  PROVE  PlayInv'
<1>1. UNCHANGED writerVars /\ pc = "loadprev" /\ pc \in Prevs  BY DEF PrevLoad, Prevs
<1>2. /\ Last \in Nat /\ ReaderOK(reader, Last) /\ reader.datas # 0 /\ reader.file # 0
      /\ call.time \in Int
  BY <1>1, InPlay
<1>3. PICK dir : dir = "Prev"  OBVIOUS
<1>4. PICK loaded : loaded = LoadDataByIndex(reader, call.time, dir)  OBVIOUS
<1>5. /\ loaded.ok \in BOOLEAN /\ loaded.r.datas # 0
      /\ \A lv : ~loaded.ok /\ Playable(reader, lv) => Playable(loaded.r, lv)
  BY <1>2, <1>3, <1>4, LoadKeeps
<1>6. ReaderOK(loaded.r, Last)  BY <1>2, <1>3, <1>4, LoadedOK
<1>7. CASE loaded.ok
  <2>1. PICK target : target = FALSE  OBVIOUS
  <2>2. PICK found : found = GetStreamChunk(loaded.r, target)  OBVIOUS
  <2>3. reader' = found.r /\ Returns("prev", found.got)
    BY <1>3, <1>4, <1>7, <2>1, <2>2 DEF PrevLoad
  <2>4. HandsOut(found.r, found.got, Heard)  BY <1>2, <1>5, <1>6, <2>2, StreamPlays
  <2>5. found.got # <<>>  BY <2>4 DEF HandsOut
  <2> QED  BY <1>1, <1>2, <2>3, <2>4, <2>5, ReturnsPlays
<1>8. CASE ~loaded.ok
  <2>1. PICK items : items = <<>>  OBVIOUS
  <2>2. reader' = loaded.r /\ Returns("prev", items)
    BY <1>3, <1>4, <1>8, <2>1 DEF PrevLoad
  <2>3. Kept(reader')  BY <1>5, <1>8, <2>2 DEF Kept
  <2> QED  BY <1>1, <1>2, <2>1, <2>2, <2>3, ReturnsPlays
<1> QED  BY <1>5, <1>7, <1>8

LEMMA StreamStepPlays ==
  ASSUME Inv, PlayInv, NEW by, NEW target, NEW found, Stream(by, found),
         found = GetStreamGop(reader, target) \/ found = GetStreamChunk(reader, target)
  PROVE  PlayInv'
<1>1. /\ UNCHANGED writerVars /\ pc = "idle" /\ pc' = pc /\ status # "none"
      /\ reader' = found.r /\ handed'.items = found.got /\ before' = Heard
  BY DEF Stream, Heard
<1>2. Last \in Nat /\ ReaderOK(reader, Last) /\ reader.datas # 0
  BY <1>1 DEF Inv, FilesInv, ReaderInv, PlayInv, Full, Last
<1>3. HandsOut(found.r, found.got, Heard)
  <2>1. PICK r : r = reader  OBVIOUS
  <2> QED  BY <1>2, <2>1, StreamPlays
<1>4. DecodableOf(found.got, Heard) /\ Playable(found.r, LastVideo(found.got, Heard))
  BY <1>3 DEF HandsOut
<1>5. Calling'  BY <1>1 DEF Calling, Seeks, Nexts, Prevs
<1>6. Handing'  BY <1>1, <1>4 DEF Handing, Heard
<1>7. Full'  BY <1>1, <1>4 DEF Full, Playable
<1> QED  BY <1>1, <1>5, <1>6, <1>7, StampedStays DEF PlayInv

LEMMA StreamsPlay ==
  ASSUME Inv, PlayInv, StreamGop \/ StreamChunk
  PROVE  PlayInv'
<1>1. PICK by, target, found :
        /\ Stream(by, found)
        /\ found = GetStreamGop(reader, target) \/ found = GetStreamChunk(reader, target)
  BY DEF StreamGop, StreamChunk
<1> QED  BY <1>1, StreamStepPlays

LEMMA StepPlays == Inv /\ PlayInv /\ [Next]_vars => PlayInv'
<1> SUFFICES ASSUME Inv, PlayInv, [Next]_vars PROVE PlayInv'  OBVIOUS
<1>1. CASE Writer  BY <1>1, WriterPlays
<1>2. CASE Seek  BY <1>2, SeekPlays
<1>3. CASE NextCall \/ PrevCall  BY <1>3, CallPlays
<1>4. CASE StreamGop \/ StreamChunk  BY <1>4, StreamsPlay
<1>5. CASE Continues
  <2>1. CASE SeekList \/ SeekOpen \/ SeekLoad \/ SeekSkip
    BY <2>1, SeekListPlays, SeekOpenPlays, SeekLoadPlays, SeekSkipPlays
  <2>2. CASE NextInFile \/ NextIfGrown \/ NextFile \/ NextOpen
    BY <2>2, NextInFilePlays, NextIfGrownPlays, NextFilePlays, NextOpenPlays
  <2>3. CASE NextReload \/ NextRetake \/ NextFileLoad \/ NextFileTake  BY <2>3, NextStepsPlay
  <2>4. CASE PrevInFile \/ PrevFile \/ PrevOpen \/ PrevLoad
    BY <2>4, PrevInFilePlays, PrevFilePlays, PrevOpenPlays, PrevLoadPlays
  <2> QED  BY <1>5, <2>1, <2>2, <2>3, <2>4 DEF Continues
<1>6. CASE UNCHANGED vars
  <2>1. /\ files' = files /\ reader' = reader /\ pc' = pc
        /\ call' = call /\ status' = status /\ handed' = handed /\ before' = before
    BY <1>6 DEF vars, writerVars, historyVars
  <2>2. Stamped'  BY <2>1 DEF PlayInv, Stamped, Stamp, Last
  <2> QED  BY <2>1, <2>2 DEF PlayInv, Calling, Full, Handing, Heard
<1> QED  BY <1>1, <1>2, <1>3, <1>4, <1>5, <1>6 DEF Next

\* Every frame the reader hands out can be decoded: a P frame follows the frame before it in
\* its chunk, or is the one handed out last once more (GetForwardData, GetStreamGop,
\* GetStreamChunk and what LoadDataByIndex leaves loaded), whatever the writer does meanwhile.
THEOREM AlwaysDecodable == Spec => []Decodable
<1>1. Init => Inv /\ PlayInv  BY InitOK, InitPlays
<1>2. Inv /\ PlayInv /\ [Next]_vars => Inv' /\ PlayInv'  BY StepOK, StepPlays
<1>3. PlayInv => Decodable  BY PlayDecodes
<1> QED  BY <1>1, <1>2, <1>3, PTL DEF Spec
=============================================================================
