--------------------------- MODULE WalStoreProofs ---------------------------
(***************************************************************************)
(* Theorems about WalStore: the shape of its state, that an index leads to *)
(* frames and readers find every record, and that the WAL implements       *)
(* AppendOnlyLog.                                                          *)
(*                                                                         *)
(* The recursive functions of the model - recovery, the search in the      *)
(* index, the scan for an offset - are met by induction on sets of         *)
(* numbers: a claim that fails somewhere fails at a least number           *)
(* (MinOfNats).                                                            *)
(***************************************************************************)
EXTENDS WalStore, SelectionProofs, FunctionTheorems

-----------------------------------------------------------------------------
(* Frames.                                                                 *)

(* What is read as fields is fields.                                       *)
LEMMA ReadFields ==
  ASSUME NEW cell \in Cell, Read(cell).kind = "fields"
  PROVE  /\ Read(cell).length \in Nat /\ Read(cell).offset \in Nat
         /\ Read(cell).data \in Payload
<1>1. CASE cell = Zero
  BY <1>1, PayloadAssumption DEF Read, Zero, Fields
<1>2. CASE cell # Zero
  <2>1. Read(cell) = cell
    BY <1>2 DEF Read
  <2>2. cell \in [kind : {"fields"}, length : Nat, offset : Nat, data : Payload]
    BY <1>2, <2>1 DEF Cell, Zero, Magic
  <2> QED BY <2>1, <2>2
<1> QED BY <1>1, <1>2

(* A frame that decodes ends behind its beginning and within the limit.    *)
LEMMA DecodeBounds ==
  ASSUME NEW c \in [Position -> Cell], NEW pos \in 0..MaxSegmentBytes,
         NEW limit \in 0..MaxSegmentBytes, Decodes(c, pos, limit)
  PROVE  /\ FrameAt(c, pos).offset \in Nat /\ FrameAt(c, pos).length \in Nat
         /\ FrameAt(c, pos).data \in Payload
         /\ NextFrame(c, pos) = pos + 2 + FrameAt(c, pos).length
         /\ NextFrame(c, pos) \in pos + 2 .. limit
<1>0. MaxSegmentBytes \in Nat
  BY SegmentAssumption
<1>1. pos + 2 <= limit /\ Read(c[pos + 1]).kind = "fields"
  BY DEF Decodes, HeaderSize
<1>2. c[pos + 1] \in Cell
  BY <1>0, <1>1 DEF Position
<1>3. /\ FrameAt(c, pos).offset \in Nat /\ FrameAt(c, pos).length \in Nat
      /\ FrameAt(c, pos).data \in Payload
  BY <1>1, <1>2, ReadFields DEF FrameAt
<1>4. pos + 2 + FrameAt(c, pos).length <= limit
  BY DEF Decodes, HeaderSize, FrameAt
<1>5. NextFrame(c, pos) = pos + 2 + FrameAt(c, pos).length
  BY DEF NextFrame, HeaderSize
<1> QED BY <1>0, <1>3, <1>4, <1>5

-----------------------------------------------------------------------------
(* Recovery.                                                               *)

\* One step of recover's scan.
ScanStep(scan, base, cells, pos) ==
  IF ~Decodes(cells, pos, MaxSegmentBytes) THEN [end |-> pos, next |-> base]
  ELSE LET rest == scan[NextFrame(cells, pos)] IN
       IF rest.end = NextFrame(cells, pos)
       THEN [end |-> rest.end, next |-> FrameAt(cells, pos).offset + 1]
       ELSE rest

IsScan(scan, base, cells) ==
  scan = [pos \in 0..MaxSegmentBytes |-> ScanStep(scan, base, cells, pos)]

(* A scan from a position depends on the positions behind it alone, so the *)
(* recursion has a solution.                                               *)
LEMMA ScanExists ==
  ASSUME NEW base, NEW c \in [Position -> Cell]
  PROVE  \E scan : IsScan(scan, base, c)
<1> DEFINE M == MaxSegmentBytes
           From(n) == \E f : \A pos \in n..M : f[pos] = ScanStep(f, base, c, pos)
           S == {n \in 0..M + 1 : From(n)}
<1>0. M \in Nat
  BY SegmentAssumption
<1>1. S \in SUBSET Nat /\ S # {}
  <2>1. M + 1 \in 0..M + 1 /\ M + 1 .. M = {}
    BY <1>0
  <2>2. From(M + 1)
    BY <2>1
  <2> QED BY <1>0, <2>1, <2>2
<1>2. PICK n \in S : \A i \in S : n <= i
  BY <1>1, MinOfNats
<1>3. n = 0
  <2> SUFFICES ASSUME n # 0 PROVE FALSE
    OBVIOUS
  <2>1. PICK k : k = n - 1
    OBVIOUS
  <2>2. k \in 0..M /\ n = k + 1 /\ k \notin S
    BY <1>0, <1>2, <2>1
  <2>3. PICK f : \A pos \in n..M : f[pos] = ScanStep(f, base, c, pos)
    BY <1>2
  <2>4. PICK g : g = [pos \in 0..M |-> IF pos = k THEN ScanStep(f, base, c, k) ELSE f[pos]]
    OBVIOUS
  <2>5. ASSUME NEW pos \in k..M PROVE g[pos] = ScanStep(g, base, c, pos)
    <3>1. pos \in 0..M
      BY <1>0, <2>2
    <3>2. Decodes(c, pos, M) => NextFrame(c, pos) \in n..M
      BY <1>0, <2>2, <3>1, DecodeBounds
    <3>3. Decodes(c, pos, M) => g[NextFrame(c, pos)] = f[NextFrame(c, pos)]
      BY <1>0, <2>2, <2>4, <3>2
    <3>4. ScanStep(g, base, c, pos) = ScanStep(f, base, c, pos)
      BY <3>3 DEF ScanStep
    <3>5. g[pos] = ScanStep(f, base, c, pos)
      BY <1>0, <2>2, <2>3, <2>4, <3>1
    <3> QED BY <3>4, <3>5
  <2>6. From(k)
    BY <2>5
  <2> QED BY <1>0, <2>2, <2>6
<1>4. PICK f : \A pos \in 0..M : f[pos] = ScanStep(f, base, c, pos)
  BY <1>2, <1>3
<1>5. PICK g : g = [pos \in 0..M |-> f[pos]]
  OBVIOUS
<1>6. ASSUME NEW pos \in 0..M PROVE g[pos] = ScanStep(g, base, c, pos)
  <2>1. Decodes(c, pos, M) => NextFrame(c, pos) \in 0..M
    BY <1>0, DecodeBounds
  <2>2. ScanStep(g, base, c, pos) = ScanStep(f, base, c, pos)
    BY <1>5, <2>1 DEF ScanStep
  <2> QED BY <1>4, <1>5, <2>2
<1>7. g = [pos \in 0..M |-> ScanStep(g, base, c, pos)]
  BY <1>5, <1>6
<1> QED BY <1>7 DEF IsScan

(* Recovered is what a scan from the beginning of the segment returns.     *)
LEMMA RecoveredScans ==
  ASSUME NEW base, NEW c \in [Position -> Cell]
  PROVE  \E scan : IsScan(scan, base, c) /\ Recovered(base, c) = scan[0]
<1>1. PICK f : IsScan(f, base, c)
  BY ScanExists
<1>2. f = [pos \in 0..MaxSegmentBytes |-> ScanStep(f, base, c, pos)]
  BY <1>1 DEF IsScan
<1>3. \E g : g = [pos \in 0..MaxSegmentBytes |-> ScanStep(g, base, c, pos)] /\ Recovered(base, c) = g[0]
  BY <1>2 DEF Recovered, ScanStep
<1> QED BY <1>3 DEF IsScan

(* Whatever the cells are, recovery ends within the segment.               *)
LEMMA RecoveredTyped ==
  ASSUME NEW base \in Nat, NEW c \in [Position -> Cell]
  PROVE  /\ Recovered(base, c) \in [end : 0..MaxSegmentBytes, next : Nat]
         /\ Recovered(base, c).end \in 0..MaxSegmentBytes
         /\ Recovered(base, c).next \in Nat
<1> DEFINE M == MaxSegmentBytes
<1>0. M \in Nat
  BY SegmentAssumption
<1>1. PICK f : IsScan(f, base, c) /\ Recovered(base, c) = f[0]
  BY RecoveredScans
<1> DEFINE Good(pos) == f[pos] \in [end : 0..M, next : Nat]
           Bad == {n \in 0..M : ~Good(M - n)}
<1>2. \A pos \in 0..M : f[pos] = ScanStep(f, base, c, pos)
  BY <1>1 DEF IsScan
<1>3. Bad = {}
  <2> SUFFICES ASSUME Bad # {} PROVE FALSE
    OBVIOUS
  <2>1. Bad \in SUBSET Nat
    BY <1>0
  <2>2. PICK n \in Bad : \A i \in Bad : n <= i
    BY <2>1, MinOfNats
  <2>3. PICK pos : pos = M - n
    OBVIOUS
  <2>4. pos \in 0..M /\ n = M - pos /\ ~Good(pos)
    BY <1>0, <2>2, <2>3
  <2>5. CASE ~Decodes(c, pos, M)
    <3>1. f[pos] = [end |-> pos, next |-> base]
      BY <1>2, <2>4, <2>5 DEF ScanStep
    <3> QED BY <2>4, <3>1
  <2>6. CASE Decodes(c, pos, M)
    <3>1. PICK q : q = NextFrame(c, pos)
      OBVIOUS
    <3>2. q \in pos + 2 .. M /\ FrameAt(c, pos).offset \in Nat
      BY <1>0, <2>4, <2>6, <3>1, DecodeBounds
    <3>3. M - q \in 0..M /\ M - q < n /\ M - (M - q) = q
      BY <1>0, <2>4, <3>2
    <3>4. M - q \notin Bad
      BY <2>1, <2>2, <3>3
    <3>5. Good(q)
      BY <3>3, <3>4
    <3>6. f[pos] = IF f[q].end = q THEN [end |-> f[q].end, next |-> FrameAt(c, pos).offset + 1] ELSE f[q]
      BY <1>2, <2>4, <2>6, <3>1 DEF ScanStep
    <3> QED BY <2>4, <3>2, <3>5, <3>6
  <2> QED BY <2>5, <2>6
<1>4. Good(0)
  <2>1. M \in 0..M /\ M - M = 0
    BY <1>0
  <2>2. M \notin Bad
    BY <1>3
  <2> QED BY <2>1, <2>2
<1> QED BY <1>1, <1>4

-----------------------------------------------------------------------------
(* The records of a segment.                                               *)

\* Where the frames of the records in s are that have the offsets from b to u - 1.
Layout(s, p, b, u) ==
  /\ s \in Seq(Payload) /\ p \in [Nat -> Nat]
  /\ b \in Nat /\ u \in b..Len(s)
  /\ p[b] = 0 /\ \A o \in b..u : p[o] \in 0..MaxSegmentBytes
  /\ \A o \in b .. u - 1 : p[o + 1] = p[o] + FrameLen(s[o + 1])
  /\ \A o, q \in b..u : o < q => p[o] < p[q]

FrameOf(s, o) == Fields(SizeOf[s[o + 1]], o, s[o + 1])

IsFrame(s, c, p, o) == Decodes(c, p[o], MaxSegmentBytes) /\ FrameAt(c, p[o]) = FrameOf(s, o)

\* The cells decode to these records and to no more.
Laid(s, c, p, b, u) ==
  /\ \A o \in b .. u - 1 : IsFrame(s, c, p, o)
  /\ ~Decodes(c, p[u], MaxSegmentBytes)

\* What a cell may hold: the fields of a record at its place, or of one that was begun at
\* the end; the last cell of a frame only if the frame is whole.
CellOK(s, p, b, u, x, cell) ==
  /\ cell.kind = "fields" =>
       \E o \in b..u : /\ x = p[o] + 1 /\ cell.offset = o /\ cell.length = SizeOf[cell.data]
                       /\ cell.length = 0 => o < u /\ cell.data = s[o + 1]
  /\ cell.kind = "byte" /\ cell.at = SizeOf[cell.data] =>
       \E o \in b .. u - 1 : x + 1 = p[o + 1] /\ cell.data = s[o + 1]

Genuine(s, c, p, b, u) == \A x \in Position : CellOK(s, p, b, u, x, c[x])

(* Sizes and positions are numbers.                                        *)
LEMMA LayoutTypes ==
  ASSUME NEW s, NEW p, NEW b, NEW u, Layout(s, p, b, u)
  PROVE  /\ b \in Nat /\ u \in Nat /\ b <= u /\ MaxSegmentBytes \in Nat
         /\ \A o \in b..u : o \in Nat /\ p[o] \in 0..MaxSegmentBytes /\ p[o] \in Nat
         /\ \A o \in b .. u - 1 : /\ o \in b..u /\ o + 1 \in b..u
                                  /\ s[o + 1] \in Payload /\ SizeOf[s[o + 1]] \in Nat
                                  /\ p[o + 1] = p[o] + 2 + SizeOf[s[o + 1]]
         /\ \A o, q \in b..u : p[o] = p[q] => o = q
<1>1. /\ s \in Seq(Payload) /\ b \in Nat /\ u \in b..Len(s) /\ Len(s) \in Nat
      /\ p \in [Nat -> Nat] /\ MaxSegmentBytes \in Nat
  BY SegmentAssumption, LenProperties DEF Layout
<1>0. u \in Nat /\ b <= u /\ \A o \in b..u : o \in Nat
  BY <1>1
<1>2. ASSUME NEW o \in b .. u - 1
      PROVE  /\ o \in b..u /\ o + 1 \in b..u
             /\ s[o + 1] \in Payload /\ SizeOf[s[o + 1]] \in Nat
             /\ p[o + 1] = p[o] + 2 + SizeOf[s[o + 1]]
  <2>1. o \in b..u /\ o + 1 \in b..u /\ o + 1 \in 1..Len(s)
    BY <1>1
  <2>2. s[o + 1] \in Payload
    BY <1>1, <2>1, ElementOfSeq
  <2>3. SizeOf[s[o + 1]] \in Nat
    BY <2>2, PayloadAssumption
  <2>4. p[o + 1] = p[o] + (2 + SizeOf[s[o + 1]])
    BY DEF Layout, FrameLen, HeaderSize
  <2>5. p[o] \in Nat
    BY <1>0, <1>1, <2>1
  <2> QED BY <2>1, <2>2, <2>3, <2>4, <2>5
<1>3. ASSUME NEW o \in b..u, NEW q \in b..u, p[o] = p[q] PROVE o = q
  <2>1. o \in Nat /\ q \in Nat /\ p[o] \in Nat
    BY SMTT(20), <1>1
  <2>2. (o < q => p[o] < p[q]) /\ (q < o => p[q] < p[o])
    BY DEF Layout
  <2> QED BY <1>3, <2>1, <2>2
<1>4. \A o \in b..u : o \in Nat /\ p[o] \in 0..MaxSegmentBytes /\ p[o] \in Nat
  BY <1>0, <1>1 DEF Layout
<1> QED BY <1>0, <1>1, <1>2, <1>3, <1>4

(* The next frame of a record is at the next position.                     *)
LEMMA FrameFollows ==
  ASSUME NEW s, NEW c, NEW p, NEW b, NEW u, Layout(s, p, b, u), NEW o \in b .. u - 1,
         IsFrame(s, c, p, o)
  PROVE  NextFrame(c, p[o]) = p[o + 1] /\ FrameAt(c, p[o]).offset = o
         /\ FrameAt(c, p[o]).data = s[o + 1]
<1>1. FrameAt(c, p[o]) = FrameOf(s, o)
  BY DEF IsFrame
<1>2. /\ FrameAt(c, p[o]).offset = o /\ FrameAt(c, p[o]).length = SizeOf[s[o + 1]]
      /\ FrameAt(c, p[o]).data = s[o + 1]
  BY <1>1 DEF FrameOf, Fields
<1>3. p[o + 1] = p[o] + 2 + SizeOf[s[o + 1]]
  BY LayoutTypes
<1>4. NextFrame(c, p[o]) = p[o] + 2 + FrameAt(c, p[o]).length
  BY DEF NextFrame, HeaderSize
<1> QED BY <1>2, <1>3, <1>4

(* Recovery finds the end of what is laid out.                             *)
LEMMA RecoveredIs ==
  ASSUME NEW s, NEW c \in [Position -> Cell], NEW p, NEW b, NEW u,
         Layout(s, p, b, u), Laid(s, c, p, b, u)
  PROVE  Recovered(b, c) = [end |-> p[u], next |-> u]
<1>0. /\ b \in Nat /\ u \in Nat /\ b <= u /\ p[b] = 0 /\ p[u] \in 0..MaxSegmentBytes
      /\ \A o \in b..u : p[o] \in 0..MaxSegmentBytes
  BY LayoutTypes DEF Layout
<1>1. PICK f : IsScan(f, b, c) /\ Recovered(b, c) = f[0]
  BY RecoveredScans
<1>2. \A pos \in 0..MaxSegmentBytes : f[pos] = ScanStep(f, b, c, pos)
  BY <1>1 DEF IsScan
<1>3. f[p[u]] = [end |-> p[u], next |-> b]
  BY <1>0, <1>2 DEF Laid, ScanStep
<1> DEFINE R == [end |-> p[u], next |-> u]
           Bad == {n \in Nat : n < u - b /\ f[p[u - 1 - n]] # R}
<1>4. Bad = {}
  <2> SUFFICES ASSUME Bad # {} PROVE FALSE
    OBVIOUS
  <2>1. PICK n \in Bad : \A i \in Bad : n <= i
    BY MinOfNats
  <2>2. PICK o : o = u - 1 - n
    OBVIOUS
  <2>3. n \in Nat /\ o \in b .. u - 1 /\ f[p[o]] # R /\ n = u - 1 - o
    BY <1>0, <2>1, <2>2
  <2>4. IsFrame(s, c, p, o)
    BY <2>3 DEF Laid
  <2>5. NextFrame(c, p[o]) = p[o + 1] /\ FrameAt(c, p[o]).offset = o
    BY <2>3, <2>4, FrameFollows
  <2>6. o \in b..u
    BY <1>0, <2>3
  <2>7. f[p[o]] = IF f[p[o + 1]].end = p[o + 1]
                  THEN [end |-> f[p[o + 1]].end, next |-> o + 1] ELSE f[p[o + 1]]
    BY <1>0, <1>2, <2>4, <2>5, <2>6 DEF ScanStep, IsFrame
  <2>8. CASE o + 1 = u
    BY <1>3, <2>3, <2>7, <2>8
  <2>9. CASE o + 1 # u
    <3>1. o + 1 \in b .. u - 1 /\ o + 1 \in b..u /\ u \in b..u /\ n - 1 \in Nat /\ u - 1 - (n - 1) = o + 1
      BY <1>0, <2>3, <2>9
    <3>2. n - 1 < u - b /\ n - 1 < n
      BY <1>0, <2>3, <3>1
    <3>3. f[p[o + 1]] = R
      BY <2>1, <3>1, <3>2
    <3>4. p[o + 1] < p[u] /\ p[o + 1] \in Nat /\ p[u] \in Nat
      BY <1>0, <3>1, LayoutTypes DEF Layout
    <3> QED BY <2>3, <2>7, <3>3, <3>4
  <2> QED BY <2>8, <2>9
<1>5. CASE b = u
  BY <1>0, <1>1, <1>3, <1>5
<1>6. CASE b # u
  <2>1. u - 1 - b \in Nat /\ u - 1 - b < u - b /\ u - 1 - (u - 1 - b) = b
    BY <1>0, <1>6
  <2>2. f[p[b]] = R
    BY <1>4, <2>1
  <2> QED BY <1>0, <1>1, <2>2
<1> QED BY <1>5, <1>6

(* At the positions of a segment nothing decodes but its own records.      *)
LEMMA OnlyRecordsDecode ==
  ASSUME NEW s, NEW c \in [Position -> Cell], NEW p, NEW b, NEW u, Layout(s, p, b, u),
         Genuine(s, c, p, b, u), HeadersWhole(c),
         NEW o \in b..u, Decodes(c, p[o], MaxSegmentBytes)
  PROVE  o < u /\ FrameAt(c, p[o]) = FrameOf(s, o)
<1>1. PICK pos, cell, d, L : /\ pos = p[o] /\ cell = c[pos + 1] /\ d = cell.data /\ L = cell.length
  OBVIOUS
<1>2. pos \in Nat /\ pos + 2 <= MaxSegmentBytes /\ MaxSegmentBytes \in Nat /\ c[pos] = Magic
      /\ Read(c[pos + 1]).kind = "fields"
  BY <1>1, LayoutTypes DEF Decodes, HeaderSize
<1>3. pos \in Position /\ pos + 1 \in Position
  BY <1>2 DEF Position
<1>4. cell # Zero /\ cell \in Cell
  BY <1>1, <1>2, <1>3 DEF HeadersWhole
<1>5. Read(cell) = cell /\ cell.kind = "fields"
  BY <1>1, <1>2, <1>4 DEF Read
<1>6. cell \in [kind : {"fields"}, length : Nat, offset : Nat, data : Payload]
  BY <1>4, <1>5 DEF Cell, Zero, Magic
<1>7. L \in Nat /\ d \in Payload /\ cell = Fields(L, cell.offset, d)
  BY <1>1, <1>6 DEF Fields
<1>8. PICK q \in b..u : /\ pos + 1 = p[q] + 1 /\ cell.offset = q /\ L = SizeOf[d]
                        /\ L = 0 => q < u /\ d = s[q + 1]
  BY <1>1, <1>3, <1>5 DEF Genuine, CellOK
<1>9. q = o
  <2>1. p[q] \in Nat /\ p[o] \in Nat
    BY LayoutTypes
  <2>2. p[q] = p[o]
    BY <1>1, <1>2, <1>8, <2>1
  <2> QED BY <2>2, LayoutTypes
<1>10. o < u /\ d = s[o + 1]
  <2>1. CASE L = 0
    BY <1>8, <1>9, <2>1
  <2>2. CASE L # 0
    <3>1. L <= MaxPayloadSize /\ pos + 2 + L <= MaxSegmentBytes
          /\ \A i \in 1..L : c[pos + 1 + i] = Byte(d, i)
      BY <1>1, <1>5 DEF Decodes, HeaderSize
    <3>2. L \in 1..L /\ pos + 1 + L \in Position
      BY <1>2, <1>7, <2>2, <3>1 DEF Position
    <3>3. PICK y : y = c[pos + 1 + L] /\ y = Byte(d, L)
      BY <3>1, <3>2
    <3>4. y.kind = "byte" /\ y.at = SizeOf[y.data] /\ y.data = d
      BY <1>8, <3>3 DEF Byte
    <3>5. PICK r \in b .. u - 1 : pos + 1 + L + 1 = p[r + 1] /\ d = s[r + 1]
      BY <3>2, <3>3, <3>4 DEF Genuine, CellOK
    <3>6. p[r + 1] = p[r] + 2 + L /\ r \in b..u /\ p[r] \in Nat
      BY <1>8, <3>5, LayoutTypes
    <3>7. p[r] = p[o]
      BY <1>1, <1>2, <1>7, <3>5, <3>6
    <3>8. r = o
      BY <3>6, <3>7, LayoutTypes
    <3>9. r < u
      BY LayoutTypes
    <3> QED BY <3>5, <3>8, <3>9
  <2> QED BY <2>1, <2>2
<1>11. FrameAt(c, p[o]) = cell
  BY <1>1, <1>5 DEF FrameAt
<1> QED BY <1>7, <1>8, <1>9, <1>10, <1>11 DEF FrameOf

-----------------------------------------------------------------------------
(* The index.                                                              *)

\* One step of sort.Search.
SearchStep(search, entries, target, range) ==
  LET lo == range[1]
      hi == range[2]
      mid == (lo + hi) \div 2
  IN IF lo >= hi THEN lo
     ELSE IF entries[mid].rel > target THEN search[<<lo, mid>>] ELSE search[<<mid + 1, hi>>]

IsSearch(search, entries, target, count) ==
  search = [range \in (0..count) \X (0..count) |-> SearchStep(search, entries, target, range)]

StepOf(search, entries, target, lo, hi) ==
  LET mid == (lo + hi) \div 2
  IN IF lo >= hi THEN lo
     ELSE IF entries[mid].rel > target THEN search[<<lo, mid>>] ELSE search[<<mid + 1, hi>>]

(* A step, with the ends of its range named.                               *)
LEMMA StepOfRange ==
  ASSUME NEW f, NEW entries, NEW target, NEW lo, NEW hi
  PROVE  SearchStep(f, entries, target, <<lo, hi>>) = StepOf(f, entries, target, lo, hi)
BY DEF SearchStep, StepOf

(* The middle lies between the ends.                                       *)
LEMMA Middle ==
  ASSUME NEW lo \in Nat, NEW hi \in Nat, lo < hi
  PROVE  (lo + hi) \div 2 \in lo .. hi - 1
OBVIOUS

(* The search narrows, so the recursion has a solution.                    *)
LEMMA SearchExists ==
  ASSUME NEW entries, NEW count \in Nat, NEW target
  PROVE  \E f : IsSearch(f, entries, target, count)
<1> DEFINE Upto(n) == \E f : \A lo, hi \in 0..count :
                        hi <= lo + n => f[<<lo, hi>>] = StepOf(f, entries, target, lo, hi)
           S == {n \in Nat : ~Upto(n)}
<1>1. S = {}
  <2> SUFFICES ASSUME S # {} PROVE FALSE
    OBVIOUS
  <2>1. PICK n \in S : \A i \in S : n <= i
    BY MinOfNats
  <2>2. n # 0
    <3>1. PICK f : f = [range \in (0..count) \X (0..count) |-> range[1]]
      OBVIOUS
    <3>2. ASSUME NEW lo \in 0..count, NEW hi \in 0..count, hi <= lo + 0
          PROVE  f[<<lo, hi>>] = StepOf(f, entries, target, lo, hi)
      <4>1. lo >= hi
        BY <3>2
      <4>2. f[<<lo, hi>>] = lo
        BY <3>1
      <4> QED BY <4>1, <4>2 DEF StepOf
    <3> QED BY <2>1, <3>2
  <2>3. PICK k : k = n - 1
    OBVIOUS
  <2>4. k \in Nat /\ n = k + 1 /\ k \notin S
    <3>1. n \in Nat
      BY <2>1
    <3>2. k \in Nat /\ n = k + 1 /\ ~(n <= k)
      BY <2>2, <2>3, <3>1
    <3> HIDE DEF S
    <3> QED BY <2>1, <3>2
  <2>5. PICK f : \A lo, hi \in 0..count : hi <= lo + k => f[<<lo, hi>>] = StepOf(f, entries, target, lo, hi)
    BY <2>4
  <2>10. PICK g : g = [range \in (0..count) \X (0..count) |->
                         IF range[2] <= range[1] + k THEN f[range]
                         ELSE StepOf(f, entries, target, range[1], range[2])]
    OBVIOUS
  <2>6. \A lo, hi \in 0..count :
          g[<<lo, hi>>] = IF hi <= lo + k THEN f[<<lo, hi>>] ELSE StepOf(f, entries, target, lo, hi)
    BY <2>10
  <2>7. ASSUME NEW lo \in 0..count, NEW hi \in 0..count, hi <= lo + n
        PROVE  g[<<lo, hi>>] = StepOf(g, entries, target, lo, hi)
    <3>1. g[<<lo, hi>>] = StepOf(f, entries, target, lo, hi)
      BY <2>5, <2>6
    <3>2. CASE lo >= hi
      BY <3>1, <3>2 DEF StepOf
    <3>3. CASE ~(lo >= hi)
      <4>1. PICK mid : mid = (lo + hi) \div 2
        OBVIOUS
      <4>2. mid \in lo .. hi - 1
        BY <3>3, <4>1, Middle
      <4>3. mid \in 0..count /\ mid + 1 \in 0..count /\ mid <= lo + k /\ hi <= (mid + 1) + k
        BY <2>4, <2>7, <4>2
      <4>4. g[<<lo, mid>>] = f[<<lo, mid>>] /\ g[<<mid + 1, hi>>] = f[<<mid + 1, hi>>]
        BY <2>6, <4>3
      <4> QED BY <3>1, <3>3, <4>1, <4>4 DEF StepOf
    <3> QED BY <3>2, <3>3
  <2>8. Upto(n)
    BY <2>7
  <2> QED BY <2>1, <2>8
<1>2. PICK f : \A lo, hi \in 0..count : hi <= lo + count => f[<<lo, hi>>] = StepOf(f, entries, target, lo, hi)
  BY <1>1
<1>3. PICK g : g = [range \in (0..count) \X (0..count) |-> f[range]]
  OBVIOUS
<1>4. ASSUME NEW lo \in 0..count, NEW hi \in 0..count
      PROVE  g[<<lo, hi>>] = StepOf(g, entries, target, lo, hi)
  <2>1. hi <= lo + count
    OBVIOUS
  <2>2. g[<<lo, hi>>] = StepOf(f, entries, target, lo, hi)
    BY <1>2, <1>3, <2>1
  <2>3. CASE lo >= hi
    BY <2>2, <2>3 DEF StepOf
  <2>4. CASE ~(lo >= hi)
    <3>1. PICK mid : mid = (lo + hi) \div 2
      OBVIOUS
    <3>2. mid \in 0..count /\ mid + 1 \in 0..count
      BY <2>4, <3>1, Middle
    <3>3. g[<<lo, mid>>] = f[<<lo, mid>>] /\ g[<<mid + 1, hi>>] = f[<<mid + 1, hi>>]
      BY <1>3, <3>2
    <3> QED BY <2>2, <2>4, <3>1, <3>3 DEF StepOf
  <2> QED BY <2>3, <2>4
<1>5. ASSUME NEW range \in (0..count) \X (0..count)
      PROVE  g[range] = SearchStep(g, entries, target, range)
  <2>1. PICK lo \in 0..count, hi \in 0..count : range = <<lo, hi>>
    OBVIOUS
  <2> QED BY <1>4, <2>1, StepOfRange
<1>6. g = [range \in (0..count) \X (0..count) |-> SearchStep(g, entries, target, range)]
  BY <1>3, <1>5
<1> QED BY <1>6 DEF IsSearch

(* Sorted or not, the entry before the one the search finds is not beyond  *)
(* the target.                                                             *)
LEMMA FirstBeyondIs ==
  ASSUME NEW entries \in [0 .. MaxEntries - 1 -> IndexEntry], NEW count \in 0..MaxEntries,
         NEW target \in Nat
  PROVE  /\ FirstBeyond(entries, count, target) \in 0..count
         /\ \/ FirstBeyond(entries, count, target) = 0
            \/ entries[FirstBeyond(entries, count, target) - 1].rel <= target
<1>0. count \in Nat /\ MaxEntries \in Nat /\ count <= MaxEntries
  BY EntriesAssumption
<1>1. PICK f : IsSearch(f, entries, target, count)
  BY <1>0, SearchExists
<1>2. \E g : /\ IsSearch(g, entries, target, count)
             /\ FirstBeyond(entries, count, target) = g[<<0, count>>]
  BY <1>1 DEF FirstBeyond, IsSearch, SearchStep
<1>3. PICK g : /\ IsSearch(g, entries, target, count)
               /\ FirstBeyond(entries, count, target) = g[<<0, count>>]
  BY <1>2
<1>4. ASSUME NEW lo \in 0..count, NEW hi \in 0..count
      PROVE  g[<<lo, hi>>] = StepOf(g, entries, target, lo, hi)
  <2>1. g[<<lo, hi>>] = SearchStep(g, entries, target, <<lo, hi>>)
    BY <1>3 DEF IsSearch
  <2> QED BY <2>1, StepOfRange
<1> DEFINE Before(i) == i = 0 \/ entries[i - 1].rel <= target
           Good(lo, hi) == Before(lo) => g[<<lo, hi>>] \in lo..hi /\ Before(g[<<lo, hi>>])
           S == {n \in Nat : \E lo, hi \in 0..count : hi = lo + n /\ ~Good(lo, hi)}
<1>5. S = {}
  <2> SUFFICES ASSUME S # {} PROVE FALSE
    OBVIOUS
  <2>1. PICK n \in S : \A i \in S : n <= i
    BY MinOfNats
  <2>2. PICK lo \in 0..count, hi \in 0..count : hi = lo + n /\ ~Good(lo, hi)
    BY <2>1
  <2>3. n \in Nat /\ lo \in Nat /\ hi \in Nat /\ lo <= hi /\ hi <= count
    BY <2>1, <2>2
  <2>4. CASE lo >= hi
    <3>1. g[<<lo, hi>>] = StepOf(g, entries, target, lo, hi)
      BY <1>4
    <3>2. g[<<lo, hi>>] = lo
      BY <2>4, <3>1 DEF StepOf
    <3>3. lo \in lo..hi
      BY <2>3
    <3> QED BY <2>2, <3>2, <3>3
  <2>5. CASE ~(lo >= hi)
    <3>1. PICK mid : mid = (lo + hi) \div 2
      OBVIOUS
    <3>2. mid \in lo .. hi - 1
      BY <2>3, <2>5, <3>1, Middle
    <3>3. mid \in Nat /\ mid \in 0..count /\ mid + 1 \in 0..count /\ mid - lo \in Nat /\ mid - lo < n
          /\ hi - (mid + 1) \in Nat /\ hi - (mid + 1) < n
      BY <2>2, <2>3, <3>2
    <3>4. mid - lo \notin S /\ hi - (mid + 1) \notin S
      <4>1. ~(n <= mid - lo) /\ ~(n <= hi - (mid + 1))
        BY <2>3, <3>3
      <4> HIDE DEF S
      <4> QED BY <2>1, <4>1
    <3>5. mid = lo + (mid - lo) /\ hi = (mid + 1) + (hi - (mid + 1))
      BY <2>3, <3>3
    <3>6. Good(lo, mid) /\ Good(mid + 1, hi)
      BY <3>3, <3>4, <3>5
    <3>7. g[<<lo, hi>>] = IF entries[mid].rel > target THEN g[<<lo, mid>>] ELSE g[<<mid + 1, hi>>]
      BY <1>4, <2>5, <3>1 DEF StepOf
    <3>8. CASE entries[mid].rel > target
      <4>1. lo..mid \subseteq lo..hi
        BY <3>2, <2>3
      <4> QED BY <2>2, <3>6, <3>7, <3>8, <4>1
    <3>9. CASE ~(entries[mid].rel > target)
      <4>1. entries[mid] \in IndexEntry
        BY <1>0, <2>3, <3>2
      <4>2. entries[mid].rel <= target
        BY <3>9, <4>1 DEF IndexEntry
      <4>3. (mid + 1) - 1 = mid /\ (mid + 1) .. hi \subseteq lo..hi
        BY <2>3, <3>2
      <4>4. Before(mid + 1)
        BY <4>2, <4>3
      <4> QED BY <2>2, <3>6, <3>7, <3>9, <4>3, <4>4
    <3> QED BY <3>8, <3>9
  <2> QED BY <2>4, <2>5
<1>6. Good(0, count)
  <2>1. 0 \in 0..count /\ count \in 0..count /\ count = 0 + count
    BY <1>0
  <2>2. count \notin S
    BY <1>5
  <2> QED BY <1>0, <2>1, <2>2
<1> QED BY <1>3, <1>6

(* A lookup begins at the start of the segment or at an entry not beyond   *)
(* the target.                                                             *)
LEMMA LookupIs ==
  ASSUME NEW entries \in [0 .. MaxEntries - 1 -> IndexEntry], NEW count \in 0..MaxEntries,
         NEW target \in Nat
  PROVE  \/ Lookup(entries, count, target) = 0
         \/ \E e \in 0 .. count - 1 : /\ entries[e].rel <= target
                                      /\ Lookup(entries, count, target) = entries[e].pos
<1>1. PICK i : i = FirstBeyond(entries, count, target)
  OBVIOUS
<1>2. i \in 0..count /\ (i = 0 \/ entries[i - 1].rel <= target)
  BY <1>1, FirstBeyondIs
<1>3. count \in Nat
  BY EntriesAssumption
<1>4. CASE i = 0
  BY <1>1, <1>4 DEF Lookup
<1>5. CASE i # 0
  <2>1. i - 1 \in 0 .. count - 1
    BY <1>2, <1>3, <1>5
  <2> QED BY <1>1, <1>2, <1>5, <2>1 DEF Lookup
<1> QED BY <1>4, <1>5

-----------------------------------------------------------------------------
(* Reading.                                                                *)

\* One step of the scan for an offset.
FindStep(find, seg, offset, cells, pos) ==
  IF ~Decodes(cells, pos, seg.writePos) THEN NotFound
  ELSE IF FrameAt(cells, pos).offset = offset THEN FrameAt(cells, pos).data
  ELSE find[NextFrame(cells, pos)]

(* The scan for an offset only looks further on.                           *)
LEMMA FindExists ==
  ASSUME NEW seg, seg.writePos \in 0..MaxSegmentBytes, NEW offset, NEW c \in [Position -> Cell]
  PROVE  \E f : f = [pos \in 0..MaxSegmentBytes |-> FindStep(f, seg, offset, c, pos)]
<1> DEFINE M == MaxSegmentBytes
           From(n) == \E f : \A pos \in n..M : f[pos] = FindStep(f, seg, offset, c, pos)
           S == {n \in 0..M + 1 : From(n)}
<1>0. M \in Nat
  BY SegmentAssumption
<1>8. \A pos \in 0..M : Decodes(c, pos, seg.writePos) => NextFrame(c, pos) \in pos + 1 .. M
  BY <1>0, DecodeBounds
<1>1. S \in SUBSET Nat /\ S # {}
  <2>1. M + 1 \in 0..M + 1 /\ M + 1 .. M = {}
    BY <1>0
  <2>2. From(M + 1)
    BY <2>1
  <2> QED BY <1>0, <2>1, <2>2
<1>2. PICK n \in S : \A i \in S : n <= i
  BY <1>1, MinOfNats
<1>3. n = 0
  <2> SUFFICES ASSUME n # 0 PROVE FALSE
    OBVIOUS
  <2>1. PICK k : k = n - 1
    OBVIOUS
  <2>2. k \in 0..M /\ n = k + 1 /\ k \notin S
    BY <1>0, <1>2, <2>1
  <2>3. PICK f : \A pos \in n..M : f[pos] = FindStep(f, seg, offset, c, pos)
    BY <1>2
  <2>4. PICK g : g = [pos \in 0..M |-> IF pos = k THEN FindStep(f, seg, offset, c, k) ELSE f[pos]]
    OBVIOUS
  <2>5. ASSUME NEW pos \in k..M PROVE g[pos] = FindStep(g, seg, offset, c, pos)
    <3>1. pos \in 0..M
      BY <1>0, <2>2
    <3>2. Decodes(c, pos, seg.writePos) => NextFrame(c, pos) \in n..M
      BY <1>0, <1>8, <2>2, <3>1
    <3>3. Decodes(c, pos, seg.writePos) => g[NextFrame(c, pos)] = f[NextFrame(c, pos)]
      BY <1>0, <2>2, <2>4, <3>2
    <3>4. FindStep(g, seg, offset, c, pos) = FindStep(f, seg, offset, c, pos)
      BY <3>3 DEF FindStep
    <3>5. g[pos] = FindStep(f, seg, offset, c, pos)
      BY <1>0, <2>2, <2>3, <2>4, <3>1
    <3> QED BY <3>4, <3>5
  <2>6. From(k)
    BY <2>5
  <2> QED BY <1>0, <2>2, <2>6
<1>4. PICK f : \A pos \in 0..M : f[pos] = FindStep(f, seg, offset, c, pos)
  BY <1>2, <1>3
<1>5. PICK g : g = [pos \in 0..M |-> f[pos]]
  OBVIOUS
<1>6. ASSUME NEW pos \in 0..M PROVE g[pos] = FindStep(g, seg, offset, c, pos)
  <2>1. Decodes(c, pos, seg.writePos) => NextFrame(c, pos) \in 0..M
    BY <1>0, <1>8
  <2>2. FindStep(g, seg, offset, c, pos) = FindStep(f, seg, offset, c, pos)
    BY <1>5, <2>1 DEF FindStep
  <2> QED BY <1>4, <1>5, <2>2
<1>7. g = [pos \in 0..M |-> FindStep(g, seg, offset, c, pos)]
  BY <1>5, <1>6
<1> QED BY <1>7

\* The entries lead to the positions of records, or to the start.
Leads(entries, p, b, n) ==
  \A e \in 0 .. MaxEntries - 1 : e < n => entries[e].pos = 0 \/ entries[e].pos = p[b + entries[e].rel]

(* Segment.ReadAt returns the record.                                      *)
LEMMA ReadFinds ==
  ASSUME NEW s, NEW c \in [Position -> Cell], NEW p, NEW b, NEW u,
         Layout(s, p, b, u), Laid(s, c, p, b, u),
         NEW seg, seg.base = b, seg.next = u, seg.writePos = p[u], seg.entries \in 0..MaxEntries,
         NEW entries \in [0 .. MaxEntries - 1 -> IndexEntry],
         Leads(entries, p, b, seg.entries),
         NEW o \in b .. u - 1
  PROVE  SegmentReadAt(seg, o, c, entries) = s[o + 1]
<1>12. b \in Nat /\ u \in Nat /\ b <= u /\ MaxSegmentBytes \in Nat
  BY LayoutTypes
<1>0. /\ b \in Nat /\ u \in Nat /\ b <= u /\ o \in Nat /\ o \in b..u /\ b \in b..u /\ u \in b..u
      /\ o < u /\ p[b] = 0 /\ MaxSegmentBytes \in Nat /\ MaxEntries \in Nat
  BY <1>12, EntriesAssumption DEF Layout
<1>1. seg.writePos \in 0..MaxSegmentBytes
  BY <1>0, LayoutTypes
<1>2. PICK start : start = Lookup(entries, seg.entries, o - b)
  OBVIOUS
<1>3. \E f : f = [pos \in 0..MaxSegmentBytes |-> FindStep(f, seg, o, c, pos)]
  BY SMTT(20), <1>1, FindExists
<1>4. \E f : /\ f = [pos \in 0..MaxSegmentBytes |-> FindStep(f, seg, o, c, pos)]
             /\ SegmentReadAt(seg, o, c, entries) = f[start]
  <2>1. ~(o < seg.base \/ o >= seg.next)
    BY <1>0
  <2> QED BY <1>2, <1>3, <2>1 DEF SegmentReadAt, FindStep
<1>5. PICK f : /\ f = [pos \in 0..MaxSegmentBytes |-> FindStep(f, seg, o, c, pos)]
               /\ SegmentReadAt(seg, o, c, entries) = f[start]
  BY <1>4
<1>6. \E q \in b..o : start = p[q]
  <2>1. o - b \in Nat
    BY <1>0
  <2>2. CASE start = 0
    BY <1>0, <2>2
  <2>3. CASE start # 0
    <3>1. PICK e \in 0 .. seg.entries - 1 : entries[e].rel <= o - b /\ start = entries[e].pos
      BY <1>2, <2>1, <2>3, LookupIs
    <3>2. e \in 0 .. MaxEntries - 1 /\ e < seg.entries
      BY <1>0
    <3>3. entries[e].rel \in Nat
      BY <3>2 DEF IndexEntry
    <3>4. start = p[b + entries[e].rel]
      BY <2>3, <3>1, <3>2 DEF Leads
    <3>5. b + entries[e].rel \in b..o
      BY <1>0, <3>1, <3>3
    <3> QED BY <3>4, <3>5
  <2> QED BY <2>2, <2>3
<1>7. ASSUME NEW q \in b..o
      PROVE  f[p[q]] = IF q = o THEN s[o + 1] ELSE f[p[q + 1]]
  <2>1. q \in b .. u - 1 /\ q \in b..u /\ q + 1 \in b..u
    BY <1>0
  <2>2. IsFrame(s, c, p, q)
    BY <2>1 DEF Laid
  <2>3. /\ NextFrame(c, p[q]) = p[q + 1] /\ FrameAt(c, p[q]).offset = q
        /\ FrameAt(c, p[q]).data = s[q + 1]
    BY <2>1, <2>2, FrameFollows
  <2>4. /\ p[q] \in 0..MaxSegmentBytes /\ p[q + 1] \in Nat /\ p[u] \in Nat
        /\ p[q] \in Nat
    <3>1. \A r \in b..u : p[r] \in 0..MaxSegmentBytes /\ p[r] \in Nat
      BY LayoutTypes
    <3> QED BY <1>0, <2>1, <3>1
  <2>5. p[q + 1] <= p[u]
    <3>1. q + 1 < u \/ q + 1 = u
      BY <1>0, <2>1
    <3>2. q + 1 < u => p[q + 1] < p[u]
      BY <1>0, <2>1 DEF Layout
    <3> QED BY <2>4, <3>1, <3>2
  <2>6. Decodes(c, p[q], seg.writePos)
    <3>1. Decodes(c, p[q], MaxSegmentBytes)
      BY <2>2 DEF IsFrame
    <3>2. /\ NextFrame(c, p[q]) = p[q] + 2 + FrameAt(c, p[q]).length
          /\ FrameAt(c, p[q]).length \in Nat
      BY <1>0, <2>4, <3>1, DecodeBounds
    <3>3. p[q] + 2 + FrameAt(c, p[q]).length <= seg.writePos /\ p[q] + 2 <= seg.writePos
      BY <2>3, <2>4, <2>5, <3>2
    <3> QED BY <3>1, <3>3 DEF Decodes, HeaderSize, FrameAt
  <2>7. f[p[q]] = FindStep(f, seg, o, c, p[q])
    BY <1>5, <2>4
  <2> QED BY <2>3, <2>6, <2>7 DEF FindStep
<1> DEFINE Bad == {n \in Nat : n <= o - b /\ f[p[o - n]] # s[o + 1]}
<1>8. Bad = {}
  <2> SUFFICES ASSUME Bad # {} PROVE FALSE
    OBVIOUS
  <2>1. PICK n \in Bad : \A i \in Bad : n <= i
    BY MinOfNats
  <2>2. PICK q : q = o - n
    OBVIOUS
  <2>3. n \in Nat /\ q \in b..o /\ f[p[q]] # s[o + 1] /\ n = o - q
    BY <1>0, <2>1, <2>2
  <2>4. q # o
    BY <1>7, <2>3
  <2>5. n - 1 \in Nat /\ n - 1 < n /\ n - 1 <= o - b /\ o - (n - 1) = q + 1
    BY <1>0, <2>3, <2>4
  <2>6. f[p[q + 1]] = s[o + 1]
    BY <2>1, <2>5
  <2> QED BY <1>7, <2>3, <2>4, <2>6
<1>9. PICK q \in b..o : start = p[q]
  BY <1>6
<1>10. o - q \in Nat /\ o - q <= o - b /\ o - (o - q) = q
  BY <1>0
<1>11. f[p[q]] = s[o + 1]
  BY <1>8, <1>10
<1> QED BY <1>5, <1>9, <1>11

-----------------------------------------------------------------------------
(* Types.                                                                  *)

SegmentType == [base : Base, next : Nat, writePos : 0..MaxSegmentBytes,
                lastIndexByte : Nat, entries : 0..MaxEntries]

LogFiles == [Base -> [Position -> Cell]]
IndexFiles == [Base -> [0 .. MaxEntries - 1 -> IndexEntry]]

(* The cells of a frame, one by one.                                       *)
LEMMA FrameCells ==
  ASSUME NEW o \in Nat, NEW d \in Payload
  PROVE  /\ FrameLen(d) = 2 + SizeOf[d] /\ SizeOf[d] \in Nat /\ FrameLen(d) \in Nat
         /\ EncodeFrame(o, d)[1] = Magic
         /\ EncodeFrame(o, d)[2] = Fields(SizeOf[d], o, d)
         /\ \A i \in 3..FrameLen(d) : EncodeFrame(o, d)[i] = Byte(d, i - 2)
<1>1. SizeOf[d] \in Nat /\ FrameLen(d) = 2 + SizeOf[d]
  BY PayloadAssumption DEF FrameLen, HeaderSize
<1>2. PICK bytes : bytes = [i \in 1..SizeOf[d] |-> Byte(d, i)]
  OBVIOUS
<1>3. PICK head : head = <<Magic, Fields(SizeOf[d], o, d)>>
  OBVIOUS
<1>4. /\ head \in Seq({Magic, Fields(SizeOf[d], o, d)}) /\ Len(head) = 2
      /\ head[1] = Magic /\ head[2] = Fields(SizeOf[d], o, d)
  BY <1>3
<1>5. bytes \in Seq({Byte(d, i) : i \in 1..SizeOf[d]}) /\ Len(bytes) = SizeOf[d]
      /\ \A i \in 1..SizeOf[d] : bytes[i] = Byte(d, i)
  BY <1>1, <1>2
<1>6. PICK C : C = {Magic, Fields(SizeOf[d], o, d)} \cup {Byte(d, i) : i \in 1..SizeOf[d]}
  OBVIOUS
<1>7. head \in Seq(C) /\ bytes \in Seq(C)
  BY <1>4, <1>5, <1>6, SeqMonotonic
<1>8. \A i \in 1 .. Len(head) + Len(bytes) :
        (head \o bytes)[i] = IF i <= Len(head) THEN head[i] ELSE bytes[i - Len(head)]
  BY <1>7, ConcatProperties
<1>9. EncodeFrame(o, d) = head \o bytes
  BY <1>2, <1>3 DEF EncodeFrame
<1>10. ASSUME NEW i \in 3..FrameLen(d) PROVE EncodeFrame(o, d)[i] = Byte(d, i - 2)
  <2>1. i - 2 \in 1..SizeOf[d] /\ i \in 1 .. 2 + SizeOf[d] /\ ~(i <= 2)
    BY <1>1
  <2> QED BY <1>4, <1>5, <1>8, <1>9, <2>1
<1>11. 1 \in 1 .. 2 + SizeOf[d] /\ 2 \in 1 .. 2 + SizeOf[d]
  BY <1>1
<1>12. EncodeFrame(o, d)[1] = head[1] /\ EncodeFrame(o, d)[2] = head[2]
  <2>1. 1 <= Len(head) /\ 2 <= Len(head) /\ Len(head) + Len(bytes) = 2 + SizeOf[d]
    BY <1>4, <1>5
  <2>2. (head \o bytes)[1] = head[1] /\ (head \o bytes)[2] = head[2]
    BY <1>8, <1>11, <2>1
  <2> QED BY <1>9, <2>2
<1>13. FrameLen(d) \in Nat
  BY <1>1
<1> QED BY <1>1, <1>4, <1>10, <1>12, <1>13

(* Every cell of a frame is one, and none is left zero.                    *)
LEMMA FrameCellTypes ==
  ASSUME NEW o \in Nat, NEW d \in Payload, NEW i \in 1..FrameLen(d)
  PROVE  EncodeFrame(o, d)[i] \in Cell \ {Zero}
<1>1. /\ SizeOf[d] \in Nat /\ FrameLen(d) = 2 + SizeOf[d]
      /\ EncodeFrame(o, d)[1] = Magic
      /\ EncodeFrame(o, d)[2] = Fields(SizeOf[d], o, d)
      /\ i \in 3..FrameLen(d) => EncodeFrame(o, d)[i] = Byte(d, i - 2)
  BY FrameCells
<1>2. Magic \in Cell \ {Zero} /\ Fields(SizeOf[d], o, d) \in Cell \ {Zero}
  BY <1>1 DEF Cell, Magic, Zero, Fields
<1>3. ASSUME i \in 3..FrameLen(d) PROVE Byte(d, i - 2) \in Cell \ {Zero}
  <2>1. i - 2 \in Nat
    BY <1>3
  <2> QED BY <2>1 DEF Cell, Byte, Zero
<1>4. i = 1 \/ i = 2 \/ i \in 3..FrameLen(d)
  BY <1>1
<1> QED BY <1>1, <1>2, <1>3, <1>4

(* NewSegment over any contents.                                           *)
LEMMA NewSegmentTyped ==
  ASSUME NEW base \in Base, NEW isNew, NEW c \in [Position -> Cell]
  PROVE  /\ NewSegment(base, isNew, c) \in SegmentType
         /\ NewSegment(base, isNew, c).base = base
<1>1. base \in Nat
  BY WalBoundAssumption DEF Base
<1>2. Recovered(base, c).end \in 0..MaxSegmentBytes /\ Recovered(base, c).next \in Nat
  BY <1>1, RecoveredTyped
<1>3. EntryCount(isNew) \in 0..MaxEntries
  BY EntriesAssumption DEF EntryCount
<1> QED BY <1>2, <1>3 DEF NewSegment, SegmentType

(* A segment after an append.                                             *)
LEMMA AppendedTyped ==
  ASSUME NEW seg \in SegmentType, NEW d \in Payload, Fits(seg, d), nextOffset \in Nat
  PROVE  /\ Appended(seg, d) \in SegmentType
         /\ Appended(seg, d).base = seg.base
         /\ Appended(seg, d).next = nextOffset + 1
         /\ Appended(seg, d).writePos = seg.writePos + FrameLen(d)
         /\ Appended(seg, d).entries = IF Indexed(seg) THEN seg.entries + 1 ELSE seg.entries
         /\ Indexed(seg) => seg.entries \in 0 .. MaxEntries - 1
<1>1. MaxSegmentBytes \in Nat /\ MaxEntries \in Nat /\ FrameLen(d) \in Nat
  BY SegmentAssumption, EntriesAssumption, FrameCells, 0 \in Nat
<1>2. /\ seg.base \in Base /\ seg.writePos \in 0..MaxSegmentBytes
      /\ seg.lastIndexByte \in Nat /\ seg.entries \in 0..MaxEntries
  BY DEF SegmentType
<1>3. seg.writePos + FrameLen(d) \in 0..MaxSegmentBytes
  BY <1>1, <1>2 DEF Fits
<1>4. Indexed(seg) => seg.entries + 1 \in 0..MaxEntries /\ seg.entries \in 0 .. MaxEntries - 1
  BY <1>1, <1>2 DEF Indexed, IndexFull
<1>5. seg.writePos \in Nat
  BY <1>1, <1>2
<1>6. CASE Indexed(seg)
  <2>1. Appended(seg, d) = [base |-> seg.base, next |-> nextOffset + 1,
          writePos |-> seg.writePos + FrameLen(d), lastIndexByte |-> seg.writePos, entries |-> seg.entries + 1]
    BY <1>6 DEF Appended
  <2> QED BY <1>2, <1>3, <1>4, <1>5, <1>6, <2>1 DEF SegmentType
<1>7. CASE ~Indexed(seg)
  <2>1. Appended(seg, d) = [base |-> seg.base, next |-> nextOffset + 1,
          writePos |-> seg.writePos + FrameLen(d), lastIndexByte |-> seg.lastIndexByte, entries |-> seg.entries]
    BY <1>7 DEF Appended
  <2> QED BY <1>2, <1>3, <1>7, <2>1 DEF SegmentType
<1> QED BY <1>6, <1>7

(* The contents of a log with a piece of a frame written to it.            *)
LEMMA WrittenTyped ==
  ASSUME mem \in LogFiles, NEW seg \in SegmentType, NEW d \in Payload, Fits(seg, d),
         nextOffset \in Nat, NEW k \in 0..FrameLen(d)
  PROVE  Written(seg, d, k) \in [Position -> Cell]
<1>1. MaxSegmentBytes \in Nat /\ FrameLen(d) \in Nat /\ seg.writePos \in Nat /\ seg.base \in Base
  BY SegmentAssumption, FrameCells, 0 \in Nat DEF SegmentType
<1>2. ASSUME NEW x \in Position, x \in seg.writePos .. seg.writePos + k - 1
      PROVE  EncodeFrame(nextOffset, d)[x - seg.writePos + 1] \in Cell
  <2>1. x - seg.writePos + 1 \in 1..FrameLen(d)
    BY <1>1, <1>2
  <2> QED BY <2>1, FrameCellTypes
<1>3. \A x \in Position : mem[seg.base][x] \in Cell
  BY <1>1 DEF LogFiles
<1> QED BY <1>2, <1>3 DEF Written

(* The contents of an index with an entry, or half of one, written to it.  *)
LEMMA IndexWrittenTyped ==
  ASSUME indexMem \in IndexFiles, NEW seg \in SegmentType, NEW d \in Payload, Fits(seg, d),
         nextOffset \in Nat, Indexed(seg) => nextOffset - seg.base \in Nat
  PROVE  /\ IndexWritten(seg, d) \in [0 .. MaxEntries - 1 -> IndexEntry]
         /\ IndexTorn(seg) \in [0 .. MaxEntries - 1 -> IndexEntry]
<1>1. indexMem[seg.base] \in [0 .. MaxEntries - 1 -> IndexEntry]
  BY DEF SegmentType, IndexFiles
<1>2. seg.writePos \in Nat
  BY SegmentAssumption DEF SegmentType
<1>3. Indexed(seg) => [rel |-> nextOffset - seg.base, pos |-> seg.writePos] \in IndexEntry
  BY <1>2 DEF IndexEntry
<1>4. IndexWritten(seg, d) \in [0 .. MaxEntries - 1 -> IndexEntry]
  BY <1>1, <1>3 DEF IndexWritten, WithEntry, IndexPos
<1>5. IndexTorn(seg) \in [0 .. MaxEntries - 1 -> IndexEntry]
  BY <1>1 DEF IndexTorn, IndexEntry
<1> QED BY <1>4, <1>5

(* The base offsets in their order.                                        *)
LEMMA SortedFiles ==
  ASSUME files \subseteq Base, files # {}
  PROVE  /\ Cardinality(files) \in Nat \ {0}
         /\ \A i \in 1..Cardinality(files) : Sorted(files)[i] \in files
         /\ \A i, j \in 1..Cardinality(files) : i < j => Sorted(files)[i] < Sorted(files)[j]
         /\ \A b \in files : \E i \in 1..Cardinality(files) : Sorted(files)[i] = b
<1>1. MaxRecords \in Nat /\ files \in SUBSET (0..MaxRecords) /\ 0 \in Nat
  BY WalBoundAssumption DEF Base
<1>2. IsFiniteSet(files) /\ Cardinality(files) \in 0 .. MaxRecords + 1
  BY <1>1, RankTyped
<1>3. Cardinality(files) \in Nat /\ Cardinality(files) # 0
  BY <1>1, <1>2, FS_EmptySet
<1>4. PICK c : c = Cardinality(files)
  OBVIOUS
<1>5. \A i \in 1..c : Sorted(files)[i] = Nth(files, i)
  BY <1>4 DEF Sorted
<1>6. ASSUME NEW i \in 1..c PROVE Nth(files, i) \in files /\ Rank(files, Nth(files, i)) = i
  BY <1>1, <1>4, NthExists
<1>7. ASSUME NEW i \in 1..c, NEW j \in 1..c, i < j PROVE Nth(files, i) < Nth(files, j)
  <2>1. PICK x \in files, y \in files : /\ x = Nth(files, i) /\ y = Nth(files, j)
                                        /\ Rank(files, x) = i /\ Rank(files, y) = j
    BY <1>6
  <2>2. x \in Nat /\ y \in Nat /\ i \in Nat /\ j \in Nat
    BY <1>1, <1>3, <1>4
  <2>3. ~(y < x)
    <3>1. y < x => Rank(files, y) < Rank(files, x)
      BY <1>1, RankGrows
    <3> QED BY <1>7, <2>1, <2>2, <3>1
  <2>4. x # y
    BY <1>7, <2>1, <2>2
  <2> QED BY <2>1, <2>2, <2>3, <2>4
<1>8. ASSUME NEW b \in files PROVE \E i \in 1..c : Nth(files, i) = b
  <2>1. Rank(files, b) \in 1..Cardinality(files) /\ Nth(files, Rank(files, b)) = b
    BY <1>1, NthOfRank
  <2> QED BY <1>4, <2>1
<1> QED BY <1>3, <1>4, <1>5, <1>6, <1>7, <1>8

(* The segments OpenWAL makes.                                             *)
LEMMA OpenedTyped ==
  ASSUME TypeOK
  PROVE  /\ OpenedSegments \in Seq(SegmentType) /\ Len(OpenedSegments) \in Nat \ {0}
         /\ \A i \in 1..Len(OpenedSegments) :
              /\ OpenedSegments[i].next \in Nat
              /\ OpenedSegments[i].entries = MaxEntries \/ OpenedSegments[i].base = 0
<1>1. files \subseteq Base /\ mem \in LogFiles
  BY DEF TypeOK, LogFiles
<1>2. CASE files = {}
  <2>1. 0 \in Base /\ EmptyLog \in [Position -> Cell]
    BY WalBoundAssumption DEF Base, EmptyLog, Cell
  <2>2. PICK seg : seg = NewSegment(0, TRUE, EmptyLog)
    OBVIOUS
  <2>3. seg \in SegmentType /\ seg.base = 0 /\ seg.next \in Nat
    BY <2>1, <2>2, NewSegmentTyped DEF SegmentType
  <2>4. OpenedSegments = <<seg>>
    BY <1>2, <2>2 DEF OpenedSegments
  <2> QED BY <1>2, <2>3, <2>4
<1>3. CASE files # {}
  <2>1. PICK c : c = Cardinality(files)
    OBVIOUS
  <2>2. c \in Nat \ {0} /\ \A i \in 1..c : Sorted(files)[i] \in files
    BY <1>1, <1>3, <2>1, SortedFiles
  <2>3. PICK S : S = OpenedSegments /\
          S = [i \in 1..c |-> NewSegment(Sorted(files)[i], FALSE, mem[Sorted(files)[i]])]
    BY <1>3, <2>1 DEF OpenedSegments
  <2>4. ASSUME NEW i \in 1..c PROVE S[i] \in SegmentType /\ S[i].next \in Nat /\ S[i].entries = MaxEntries
    <3>1. PICK b \in Base : b = Sorted(files)[i]
      BY <1>1, <2>2
    <3>2. mem[b] \in [Position -> Cell]
      BY <1>1 DEF LogFiles
    <3>3. NewSegment(b, FALSE, mem[b]) \in SegmentType
      BY <3>2, NewSegmentTyped
    <3>4. S[i] = NewSegment(b, FALSE, mem[b])
      BY <2>3, <3>1
    <3>5. S[i].entries = MaxEntries
      BY <3>4 DEF NewSegment, EntryCount
    <3> QED BY <3>3, <3>4, <3>5 DEF SegmentType
  <2>5. S \in Seq(SegmentType) /\ Len(S) = c
    <3>1. S \in [1..c -> SegmentType]
      BY <2>3, <2>4
    <3> QED BY <2>2, <3>1
  <2> QED BY <2>2, <2>3, <2>4, <2>5
<1> QED BY <1>2, <1>3

\* A segment whose index is written begins at or before the next offset.
ActiveBehind ==
  isOpen => /\ active # 0
            /\ segments[active].entries < MaxEntries => segments[active].base <= nextOffset

TypeInv == TypeOK /\ ActiveBehind

(* What the actions of appending start from.                               *)
LEMMA AppendTyped ==
  ASSUME TypeInv, MayAppend
  PROVE  /\ segments \in Seq(SegmentType) /\ active \in 1..Len(segments) /\ Len(segments) \in Nat
         /\ segments[active] \in SegmentType
         /\ nextOffset \in Base /\ nextOffset \in Nat /\ nextOffset + 1 \in Nat
         /\ Rolled \in SegmentType /\ Rolled.base = nextOffset
         /\ mem \in LogFiles /\ indexMem \in IndexFiles
         /\ \A seg \in {segments[active], Rolled} : seg.entries < MaxEntries => nextOffset - seg.base \in Nat
<1>1. /\ segments \in Seq(SegmentType) /\ active \in 0..Len(segments) /\ active # 0
      /\ segments[active].entries < MaxEntries => segments[active].base <= nextOffset
      /\ nextOffset \in Nat /\ mem \in LogFiles /\ indexMem \in IndexFiles
  BY DEF TypeInv, TypeOK, ActiveBehind, MayAppend, SegmentType, LogFiles, IndexFiles
<1>2. Len(segments) \in Nat /\ active \in 1..Len(segments)
  BY <1>1, LenProperties
<1>3. segments[active] \in SegmentType
  BY <1>1, <1>2, ElementOfSeq
<1>4. nextOffset \in Base
  <2>1. nextOffset < MaxRecords
    BY DEF MayAppend
  <2> QED BY <1>1, <2>1, WalBoundAssumption DEF Base
<1>5. mem[nextOffset] \in [Position -> Cell]
  BY <1>1, <1>4 DEF LogFiles
<1>6. Rolled \in SegmentType /\ Rolled.base = nextOffset
  BY <1>4, <1>5, NewSegmentTyped DEF Rolled
<1>7. segments[active].base \in Nat
  BY <1>3 DEF SegmentType, Base
<1>8. segments[active].entries < MaxEntries => nextOffset - segments[active].base \in Nat
  BY <1>1, <1>7
<1>9. nextOffset - Rolled.base \in Nat
  BY <1>1, <1>6
<1> QED BY <1>1, <1>2, <1>3, <1>4, <1>6, <1>8, <1>9

(* Writing a record keeps the types of the files.                          *)
LEMMA WriteTyped ==
  ASSUME TypeInv, MayAppend, NEW d \in Payload, NEW seg \in {segments[active], Rolled},
         Writable(seg, d)
  PROVE  /\ Write(seg, d) => /\ mem' \in LogFiles /\ indexMem' \in IndexFiles
                             /\ nextOffset' = nextOffset + 1 /\ records' \in Seq(Payload)
         /\ KilledInWrite(seg, d) => /\ mem' \in LogFiles /\ indexMem' \in IndexFiles
                                     /\ records' \in Seq(Payload)
<1>1. /\ seg \in SegmentType /\ Fits(seg, d) /\ nextOffset \in Nat /\ MaxEntries \in Nat
      /\ mem \in LogFiles /\ indexMem \in IndexFiles /\ records \in Seq(Payload)
  BY AppendTyped, EntriesAssumption DEF Writable, TypeInv, TypeOK
<1>2. Indexed(seg) => nextOffset - seg.base \in Nat
  <2>1. Indexed(seg) => seg.entries < MaxEntries
    BY <1>1 DEF Indexed, IndexFull, SegmentType
  <2> QED BY <2>1, AppendTyped
<1>3. \A k \in 0..FrameLen(d) : Written(seg, d, k) \in [Position -> Cell]
  BY <1>1, WrittenTyped
<1>4. /\ IndexWritten(seg, d) \in [0 .. MaxEntries - 1 -> IndexEntry]
      /\ IndexTorn(seg) \in [0 .. MaxEntries - 1 -> IndexEntry]
  BY <1>1, <1>2, IndexWrittenTyped
<1>5. FrameLen(d) \in 0..FrameLen(d)
  BY <1>1, FrameCells
<1>6. Append(records, d) \in Seq(Payload)
  BY <1>1, AppendProperties
<1>7. ASSUME Write(seg, d)
      PROVE  /\ mem' \in LogFiles /\ indexMem' \in IndexFiles
             /\ nextOffset' = nextOffset + 1 /\ records' \in Seq(Payload)
  BY <1>1, <1>3, <1>4, <1>5, <1>6, <1>7 DEF Write, LogFiles, IndexFiles
<1>8. ASSUME KilledInWrite(seg, d)
      PROVE  mem' \in LogFiles /\ indexMem' \in IndexFiles /\ records' \in Seq(Payload)
  <2>1. CASE /\ indexMem' \in {indexMem, [indexMem EXCEPT ![seg.base] = IndexTorn(seg)]}
             /\ UNCHANGED <<mem, records>>
    BY <1>1, <1>4, <2>1 DEF IndexFiles
  <2>2. CASE \E k \in 0..FrameLen(d) :
               /\ indexMem' = [indexMem EXCEPT ![seg.base] = IndexWritten(seg, d)]
               /\ mem' = [mem EXCEPT ![seg.base] = Written(seg, d, k)]
               /\ records' = IF k = FrameLen(d) THEN Append(records, d) ELSE records
    BY <1>1, <1>3, <1>4, <1>6, <2>2 DEF LogFiles, IndexFiles
  <2>3. CASE /\ indexMem' = [indexMem EXCEPT ![seg.base] = IndexWritten(seg, d)]
             /\ mem' \in {[mem EXCEPT ![seg.base] = cells] : cells \in HeaderTorn(seg, d)}
             /\ UNCHANGED records
    <3>1. Written(seg, d, 1) \in [Position -> Cell]
      <4>1. 1 \in 0..FrameLen(d)
        BY FrameCells, 0 \in Nat
      <4> QED BY <1>3, <4>1
    <3>2. \A offset \in 0..nextOffset : Fields(0, offset, Empty) \in Cell
      BY <1>1, PayloadAssumption DEF Fields, Cell
    <3>3. HeaderTorn(seg, d) \subseteq [Position -> Cell]
      BY <3>1, <3>2 DEF HeaderTorn
    <3> QED BY <1>1, <1>4, <2>3, <3>3 DEF LogFiles, IndexFiles
  <2> QED BY <1>8, <2>1, <2>2, <2>3 DEF KilledInWrite
<1> QED BY <1>7, <1>8

(* What the type invariant says, with the names used here.                 *)
LEMMA TypeParts ==
  /\ TypeOK <=> /\ files \subseteq Base /\ mem \in LogFiles /\ disk \in LogFiles
                /\ indexMem \in IndexFiles /\ indexDisk \in IndexFiles
                /\ isOpen \in BOOLEAN /\ hadOutage \in BOOLEAN
                /\ segments \in Seq(SegmentType)
                /\ closed \in Seq(1..Len(segments)) /\ active \in 0..Len(segments)
                /\ nextOffset \in Nat /\ synced \in Nat /\ records \in Seq(Payload)
  BY DEF TypeOK, LogFiles, IndexFiles, SegmentType

(* A flush writes what is in memory.                                       *)
LEMMA FlushTyped ==
  ASSUME TypeInv, isOpen, FlushActive
  PROVE  disk' \in LogFiles /\ indexDisk' \in IndexFiles
<1>1. /\ segments \in Seq(SegmentType) /\ active \in 0..Len(segments) /\ active # 0
      /\ mem \in LogFiles /\ indexMem \in IndexFiles /\ disk \in LogFiles /\ indexDisk \in IndexFiles
  BY TypeParts DEF TypeInv, ActiveBehind
<1>2. Len(segments) \in Nat /\ active \in 1..Len(segments)
  BY <1>1, LenProperties
<1>3. segments[active] \in SegmentType
  BY <1>1, <1>2, ElementOfSeq
<1>4. segments[active].base \in Base
  BY <1>3 DEF SegmentType
<1> QED BY <1>1, <1>4 DEF FlushActive, LogFiles, IndexFiles

(* A life of the process ends.                                             *)
LEMMA EndedTyped ==
  ASSUME Ended
  PROVE  /\ isOpen' \in BOOLEAN /\ segments' \in Seq(SegmentType)
         /\ closed' \in Seq(1..Len(segments')) /\ active' \in 0..Len(segments')
         /\ nextOffset' \in Nat /\ ActiveBehind'
<1>1. isOpen' = FALSE /\ segments' = <<>> /\ closed' = <<>> /\ active' = 0 /\ nextOffset' = 0
  BY DEF Ended
<1>2. /\ <<>> \in Seq(SegmentType) /\ \A n : <<>> \in Seq(1..n)
      /\ Len(<<>>) = 0 /\ 0 \in 0..0
  OBVIOUS
<1>3. ActiveBehind'
  BY <1>1 DEF ActiveBehind
<1> QED BY <1>1, <1>2, <1>3

(* Another segment, or the active one again, joins the closed ones.        *)
LEMMA RollTyped ==
  ASSUME TypeInv, MayAppend, NEW d, Roll(d)
  PROVE  /\ disk' \in LogFiles /\ indexDisk' \in IndexFiles /\ synced' \in Nat
         /\ \A n \in Nat : n >= Len(segments) => closed' \in Seq(1..n)
<1>1. MayAppend => isOpen
  BY DEF MayAppend
<1>2. /\ active \in 1..Len(segments) /\ Len(segments) \in Nat /\ nextOffset \in Nat
      /\ closed \in Seq(1..Len(segments))
  BY AppendTyped, TypeParts DEF TypeInv
<1>3. ASSUME NEW n \in Nat, n >= Len(segments) PROVE closed' \in Seq(1..n)
  <2>1. 1..Len(segments) \subseteq 1..n
    BY <1>2, <1>3
  <2>2. closed \in Seq(1..n) /\ active \in 1..n
    BY <1>2, <2>1, SeqMonotonic
  <2>3. Append(closed, active) \in Seq(1..n)
    BY <2>2, AppendProperties
  <2> QED BY <2>3 DEF Roll
<1> QED BY <1>1, <1>2, <1>3, FlushTyped DEF Roll

(* OpenWAL keeps the types.                                                *)
LEMMA OpenKeepsTypes ==
  ASSUME TypeInv, OpenWAL
  PROVE  TypeInv'
<1>1. TypeOK
  BY DEF TypeInv
<1>2. PICK S, n : S = OpenedSegments /\ n = Len(OpenedSegments)
  OBVIOUS
<1>3. /\ S \in Seq(SegmentType) /\ n \in Nat \ {0} /\ n = Len(S)
      /\ \A i \in 1..n : S[i].next \in Nat /\ (S[i].entries = MaxEntries \/ S[i].base = 0)
  BY <1>1, <1>2, OpenedTyped
<1>4. /\ isOpen' = TRUE /\ segments' = S /\ active' = n /\ closed' = [i \in 1 .. n - 1 |-> i]
      /\ nextOffset' = S[n].next
      /\ files' = files \cup (IF files = {} THEN {0} ELSE {})
      /\ UNCHANGED <<mem, indexMem, disk, indexDisk, records, synced, hadOutage>>
  BY <1>2 DEF OpenWAL, diskVars
<1>5. files' \subseteq Base
  <2>1. files \subseteq Base /\ 0 \in Base
    BY <1>1, TypeParts, WalBoundAssumption DEF Base
  <2> QED BY <1>4, <2>1
<1>6. closed' \in Seq(1..n)
  <2>1. n - 1 \in Nat /\ \A i \in 1 .. n - 1 : i \in 1..n
    BY <1>3
  <2>2. [i \in 1 .. n - 1 |-> i] \in [1 .. n - 1 -> 1..n]
    BY <2>1
  <2>3. PICK m \in Nat : m = n - 1
    BY <2>1
  <2>4. closed' \in [1..m -> 1..n]
    BY <1>4, <2>2, <2>3
  <2>5. \A R : [1..m -> R] \subseteq Seq(R)
    BY <2>3, SeqDef, Zenon
  <2> QED BY <2>4, <2>5
<1>7. n \in 1..n /\ S[n] \in SegmentType
  BY <1>3, ElementOfSeq
<1>8. S[n].next \in Nat
  BY <1>3, <1>7
<1>9. TypeOK'
  <2>1. active' \in 0..Len(segments') /\ closed' \in Seq(1..Len(segments'))
    BY <1>3, <1>4, <1>6
  <2>2. /\ mem \in LogFiles /\ disk \in LogFiles /\ indexMem \in IndexFiles /\ indexDisk \in IndexFiles
        /\ hadOutage \in BOOLEAN /\ synced \in Nat /\ records \in Seq(Payload)
    BY <1>1, TypeParts
  <2> QED BY <1>3, <1>4, <1>5, <1>8, <2>1, <2>2 DEF TypeOK, SegmentType, LogFiles, IndexFiles
<1>10. ActiveBehind'
  <2>1. S[n].entries < MaxEntries => S[n].base = 0
    BY <1>3, <1>7, EntriesAssumption
  <2> QED BY <1>3, <1>4, <1>8, <2>1 DEF ActiveBehind
<1> QED BY <1>9, <1>10 DEF TypeInv

(* A record in the active segment.                                         *)
LEMMA InPlaceKeepsTypes ==
  ASSUME TypeInv, NEW d \in Payload, AppendInPlace(d)
  PROVE  TypeInv'
<1>1. TypeOK /\ MayAppend /\ Writable(segments[active], d) /\ Write(segments[active], d)
  BY DEF TypeInv, AppendInPlace
<1>2. PICK seg : seg = segments[active]
  OBVIOUS
<1>3. /\ segments \in Seq(SegmentType) /\ active \in 1..Len(segments) /\ Len(segments) \in Nat
      /\ seg \in SegmentType /\ nextOffset \in Nat
      /\ seg.entries < MaxEntries => nextOffset - seg.base \in Nat
  BY <1>1, <1>2, AppendTyped
<1>4. Fits(seg, d)
  BY <1>1, <1>2 DEF Writable
<1>5. PICK new : new = Appended(seg, d)
  OBVIOUS
<1>6. new \in SegmentType /\ new.base = seg.base /\ (new.entries < MaxEntries => seg.entries < MaxEntries)
  <2>1. /\ new \in SegmentType /\ new.base = seg.base
        /\ new.entries = IF Indexed(seg) THEN seg.entries + 1 ELSE seg.entries
    BY <1>3, <1>4, <1>5, AppendedTyped
  <2>2. seg.entries \in Nat /\ MaxEntries \in Nat
    BY <1>3, EntriesAssumption DEF SegmentType
  <2> QED BY <2>1, <2>2
<1>7. segments' = [segments EXCEPT ![active] = new] /\ closed' = closed /\ active' = active
      /\ UNCHANGED <<files, disk, indexDisk, isOpen, synced, hadOutage>>
  BY <1>2, <1>5 DEF AppendInPlace, diskVars
<1>8. segments' \in Seq(SegmentType) /\ Len(segments') = Len(segments) /\ segments'[active] = new
  BY <1>3, <1>6, <1>7, ExceptSeq
<1>9. /\ mem' \in LogFiles /\ indexMem' \in IndexFiles
      /\ nextOffset' = nextOffset + 1 /\ records' \in Seq(Payload)
  BY <1>1, WriteTyped
<1>10. TypeOK'
  <2>1. /\ files \subseteq Base /\ disk \in LogFiles /\ indexDisk \in IndexFiles
        /\ isOpen \in BOOLEAN /\ hadOutage \in BOOLEAN /\ synced \in Nat
        /\ closed \in Seq(1..Len(segments)) /\ active \in 0..Len(segments)
    BY <1>1, TypeParts
  <2>2. closed' \in Seq(1..Len(segments')) /\ active' \in 0..Len(segments')
    BY <1>7, <1>8, <2>1
  <2>3. nextOffset' \in Nat /\ records' \in Seq(Payload)
    BY <1>3, <1>9
  <2> QED BY <1>7, <1>8, <1>9, <2>1, <2>2, <2>3 DEF TypeOK, SegmentType, LogFiles, IndexFiles
<1>11. ActiveBehind'
  <2>1. seg.base \in Nat
    BY <1>3 DEF SegmentType, Base
  <2>2. new.entries < MaxEntries => new.base <= nextOffset + 1
    BY <1>3, <1>6, <2>1
  <2> QED BY <1>3, <1>7, <1>8, <1>9, <2>2 DEF ActiveBehind
<1> QED BY <1>10, <1>11 DEF TypeInv

(* A roll to a segment that exists or is made; the segment is seg.          *)
LEMMA RollsKeepTypes ==
  ASSUME TypeInv, MayAppend, NEW d, Roll(d), NEW seg \in SegmentType, seg.base = nextOffset,
         nextOffset' \in Nat, nextOffset' >= nextOffset,
         segments' = Append(segments, seg), active' = Len(segments) + 1,
         files' = files \cup {nextOffset}, UNCHANGED <<isOpen, hadOutage>>,
         mem' \in LogFiles, indexMem' \in IndexFiles, records' \in Seq(Payload)
  PROVE  TypeInv'
<1>1. /\ segments \in Seq(SegmentType) /\ Len(segments) \in Nat /\ nextOffset \in Base
      /\ nextOffset \in Nat
  BY AppendTyped
<1>2. /\ segments' \in Seq(SegmentType) /\ Len(segments') = Len(segments) + 1
      /\ segments'[active'] = seg
  BY <1>1, AppendProperties
<1>3. /\ disk' \in LogFiles /\ indexDisk' \in IndexFiles /\ synced' \in Nat
      /\ closed' \in Seq(1..Len(segments'))
  <2>1. Len(segments) + 1 \in Nat /\ Len(segments) + 1 >= Len(segments)
    BY <1>1
  <2> QED BY <1>2, <2>1, RollTyped
<1>4. files \subseteq Base /\ isOpen \in BOOLEAN /\ hadOutage \in BOOLEAN
  BY TypeParts DEF TypeInv
<1>5. TypeOK'
  <2>1. active' \in 0..Len(segments') /\ files' \subseteq Base
    BY <1>1, <1>2, <1>4
  <2> QED BY <1>2, <1>3, <1>4, <2>1 DEF TypeOK, SegmentType, LogFiles, IndexFiles
<1>6. ActiveBehind'
  BY <1>1, <1>2 DEF ActiveBehind
<1> QED BY <1>5, <1>6 DEF TypeInv

(* A life of the process ends, and the files keep their types.             *)
LEMMA EndsKeepTypes ==
  ASSUME TypeInv, Ended, files' \subseteq Base, mem' \in LogFiles, disk' \in LogFiles,
         indexMem' \in IndexFiles, indexDisk' \in IndexFiles,
         hadOutage' \in BOOLEAN, synced' \in Nat, records' \in Seq(Payload)
  PROVE  TypeInv'
<1>1. /\ isOpen' \in BOOLEAN /\ segments' \in Seq(SegmentType)
      /\ closed' \in Seq(1..Len(segments')) /\ active' \in 0..Len(segments')
      /\ nextOffset' \in Nat /\ ActiveBehind'
  BY EndedTyped
<1>2. TypeOK'
  BY <1>1 DEF TypeOK, SegmentType, LogFiles, IndexFiles
<1> QED BY <1>1, <1>2 DEF TypeInv

(* A record in a new segment, and a new segment without one.               *)
LEMMA RollingKeepsTypes ==
  ASSUME TypeInv, NEW d \in Payload, AppendToNewSegment(d) \/ AppendRefused(d) \/ RollFails(d)
  PROVE  TypeInv'
<1>1. MayAppend /\ Roll(d) /\ TypeOK
  BY DEF AppendToNewSegment, AppendRefused, RollFails, TypeInv
<1>2. /\ Rolled \in SegmentType /\ Rolled.base = nextOffset /\ nextOffset \in Nat /\ nextOffset \in Base
      /\ nextOffset + 1 \in Nat /\ nextOffset + 1 >= nextOffset
      /\ segments \in Seq(SegmentType) /\ active \in 1..Len(segments) /\ Len(segments) \in Nat
  BY <1>1, AppendTyped
<1>3. CASE AppendToNewSegment(d)
  <2>1. /\ Writable(Rolled, d) /\ Write(Rolled, d)
        /\ segments' = Append(segments, Appended(Rolled, d)) /\ active' = Len(segments) + 1
        /\ files' = files \cup {nextOffset} /\ UNCHANGED <<isOpen, hadOutage>>
    BY <1>3 DEF AppendToNewSegment
  <2>2. /\ mem' \in LogFiles /\ indexMem' \in IndexFiles
        /\ nextOffset' = nextOffset + 1 /\ records' \in Seq(Payload)
    BY <1>1, <2>1, WriteTyped
  <2>3. Fits(Rolled, d)
    BY <2>1 DEF Writable
  <2>4. Appended(Rolled, d) \in SegmentType /\ Appended(Rolled, d).base = nextOffset
    BY <1>2, <2>3, AppendedTyped
  <2> HIDE DEF Rolled
  <2> QED BY <1>1, <1>2, <2>1, <2>2, <2>4, RollsKeepTypes
<1>4. CASE AppendRefused(d)
  <2>1. /\ segments' = Append(segments, Rolled) /\ active' = Len(segments) + 1
        /\ files' = files \cup {nextOffset} /\ UNCHANGED <<isOpen, hadOutage, mem, indexMem, nextOffset, records>>
    BY <1>4 DEF AppendRefused
  <2>2. mem' \in LogFiles /\ indexMem' \in IndexFiles /\ records' \in Seq(Payload)
        /\ nextOffset' \in Nat /\ nextOffset' >= nextOffset
    BY <1>1, <1>2, <2>1, TypeParts
  <2> QED BY <1>1, <1>2, <2>1, <2>2, RollsKeepTypes
<1>5. CASE RollFails(d)
  <2>1. /\ UNCHANGED <<mem, indexMem, isOpen, segments, active, nextOffset, records, hadOutage>>
        /\ files' = files \/ files' = files \cup {nextOffset}
    BY <1>5 DEF RollFails
  <2>2. /\ disk' \in LogFiles /\ indexDisk' \in IndexFiles /\ synced' \in Nat
        /\ closed' \in Seq(1..Len(segments))
    <3>1. Len(segments) >= Len(segments)
      BY <1>2
    <3> QED BY <1>1, <1>2, <3>1, RollTyped
  <2>3. /\ files \subseteq Base /\ mem \in LogFiles /\ indexMem \in IndexFiles
        /\ isOpen \in BOOLEAN /\ hadOutage \in BOOLEAN /\ records \in Seq(Payload)
    BY <1>1, TypeParts
  <2>4. TypeOK'
    <3>1. /\ segments' \in Seq(SegmentType) /\ files' \subseteq Base
          /\ closed' \in Seq(1..Len(segments')) /\ active' \in 0..Len(segments')
      <4>1. segments' = segments /\ active' = active /\ active \in 0..Len(segments)
        BY <1>2, <2>1
      <4>2. files' \subseteq Base
        BY <1>2, <2>1, <2>3
      <4> QED BY <1>2, <2>2, <4>1, <4>2
    <3>2. /\ mem' \in LogFiles /\ indexMem' \in IndexFiles /\ records' \in Seq(Payload)
          /\ isOpen' \in BOOLEAN /\ hadOutage' \in BOOLEAN /\ nextOffset' \in Nat
      BY <1>2, <2>1, <2>3
    <3> QED BY <2>2, <3>1, <3>2 DEF TypeOK, SegmentType, LogFiles, IndexFiles
  <2>5. ActiveBehind'
    BY <2>1 DEF TypeInv, ActiveBehind
  <2> QED BY <2>4, <2>5 DEF TypeInv
<1> QED BY <1>3, <1>4, <1>5

(* A kill inside Append.                                                   *)
LEMMA KillsKeepTypes ==
  ASSUME TypeInv, NEW d \in Payload, KilledInAppend(d) \/ KilledAfterRoll(d)
  PROVE  TypeInv'
<1>1. MayAppend /\ TypeOK /\ isOpen
  BY DEF KilledInAppend, KilledAfterRoll, MayAppend, TypeInv
<1>2. nextOffset \in Nat /\ nextOffset \in Base
  BY <1>1, AppendTyped
<1>3. /\ files \subseteq Base /\ disk \in LogFiles /\ indexDisk \in IndexFiles
      /\ hadOutage \in BOOLEAN /\ synced \in Nat
  BY <1>1, TypeParts
<1>4. CASE KilledInAppend(d)
  <2>1. /\ Writable(segments[active], d) /\ KilledInWrite(segments[active], d)
        /\ UNCHANGED <<files, disk, indexDisk, synced>>
    BY <1>4 DEF KilledInAppend, diskVars
  <2>2. Ended /\ UNCHANGED hadOutage
    BY <2>1 DEF KilledInWrite
  <2>3. mem' \in LogFiles /\ indexMem' \in IndexFiles /\ records' \in Seq(Payload)
    BY <1>1, <2>1, WriteTyped
  <2> QED BY <1>3, <2>1, <2>2, <2>3, EndsKeepTypes
<1>5. CASE KilledAfterRoll(d)
  <2>1. /\ Writable(Rolled, d) /\ KilledInWrite(Rolled, d) /\ FlushActive
        /\ synced' = nextOffset /\ files' = files \cup {nextOffset}
    BY <1>5 DEF KilledAfterRoll
  <2>2. Ended /\ UNCHANGED hadOutage
    BY <2>1 DEF KilledInWrite
  <2>3. mem' \in LogFiles /\ indexMem' \in IndexFiles /\ records' \in Seq(Payload)
    BY <1>1, <2>1, WriteTyped
  <2>4. disk' \in LogFiles /\ indexDisk' \in IndexFiles
    BY <1>1, <2>1, FlushTyped
  <2> QED BY <1>2, <1>3, <2>1, <2>2, <2>3, <2>4, EndsKeepTypes
<1> QED BY <1>4, <1>5

(* The last segment has the highest base.                                  *)
LEMMA LastIs ==
  ASSUME NEW S \in SUBSET Base, S # {}
  PROVE  Last(S) \in S /\ \A b \in S : b <= Last(S)
<1>1. S \in SUBSET Nat /\ MaxRecords \in Nat /\ \A b \in S : b <= MaxRecords
  BY WalBoundAssumption DEF Base
<1>2. \E m \in S : \A b \in S : b <= m
  BY <1>1, MaxOfNats
<1> QED BY <1>2 DEF Last

(* A power failure leaves cells that were in memory or on disk.            *)
LEMMA OutageKeepsTypes ==
  ASSUME TypeInv, Outage
  PROVE  TypeInv'
<1>1. /\ files \subseteq Base /\ mem \in LogFiles /\ disk \in LogFiles
      /\ indexMem \in IndexFiles /\ indexDisk \in IndexFiles /\ records \in Seq(Payload)
  BY TypeParts DEF TypeInv
<1>2. /\ Ended /\ files # {} /\ files' = files /\ mem' = disk' /\ indexMem' = indexDisk' /\ hadOutage' = TRUE
  BY DEF Outage
<1>3. disk' \in LogFiles /\ indexDisk' \in IndexFiles
  <2>1. PICK pages, indexes : WrittenBack(pages, indexes)
    BY DEF Outage
  <2>2. \A b \in Base, p \in Position : mem[b][p] \in Cell /\ disk[b][p] \in Cell
    BY <1>1 DEF LogFiles
  <2>3. disk' \in LogFiles
    BY <2>1, <2>2 DEF WrittenBack, LogFiles
  <2>4. indexDisk' \in IndexFiles
    BY <1>1, <2>1 DEF WrittenBack, IndexFiles
  <2> QED BY <2>3, <2>4
<1>4. synced' \in Nat /\ records' \in Seq(Payload)
  <2>1. PICK b \in Base : b = Last(files)
    BY <1>1, <1>2, LastIs
  <2>2. PICK next : /\ next = Recovered(b, mem'[b]).next
                    /\ synced' = (IF next <= Len(records) THEN next ELSE Len(records))
                    /\ records' = SubSeq(records, 1, IF next <= Len(records) THEN next ELSE Len(records))
    BY <2>1 DEF Outage
  <2>3. b \in Nat /\ mem'[b] \in [Position -> Cell]
    BY <1>2, <1>3, <2>1 DEF Base, LogFiles
  <2>4. next \in Nat
    BY <2>2, <2>3, RecoveredTyped
  <2>5. Len(records) \in Nat /\ (IF next <= Len(records) THEN next ELSE Len(records)) \in 0..Len(records)
    BY <1>1, <2>4, LenProperties
  <2>6. PICK kept : kept = (IF next <= Len(records) THEN next ELSE Len(records))
    OBVIOUS
  <2>7. kept \in 0..Len(records) /\ synced' = kept /\ records' = SubSeq(records, 1, kept)
    BY <2>2, <2>5, <2>6
  <2>8. \A i \in 1..kept : records[i] \in Payload
    BY <1>1, <2>5, <2>7, ElementOfSeq
  <2>9. SubSeq(records, 1, kept) \in Seq(Payload)
    BY <2>5, <2>7, <2>8, <1>1, SubSeqProperties
  <2> QED BY <2>5, <2>7, <2>9
<1>5. files' \subseteq Base /\ hadOutage' \in BOOLEAN
  BY <1>1, <1>2
<1> QED BY <1>2, <1>3, <1>4, <1>5, EndsKeepTypes

(* The first state.                                                        *)
LEMMA TypesAtFirst ==
  ASSUME Init
  PROVE  TypeInv
<1>1. EmptyLog \in [Position -> Cell] /\ EmptyIndex \in [0 .. MaxEntries - 1 -> IndexEntry]
  BY 0 \in Nat DEF EmptyLog, Cell, EmptyIndex, NoEntry, IndexEntry
<1>2. mem \in LogFiles /\ disk \in LogFiles /\ indexMem \in IndexFiles /\ indexDisk \in IndexFiles
  BY <1>1 DEF Init, LogFiles, IndexFiles
<1>3. /\ files = {} /\ isOpen = FALSE /\ hadOutage = FALSE /\ synced = 0 /\ nextOffset = 0
      /\ segments = <<>> /\ closed = <<>> /\ active = 0 /\ records = <<>>
  BY DEF Init
<1>4. /\ <<>> \in Seq(SegmentType) /\ <<>> \in Seq(Payload) /\ \A n : <<>> \in Seq(1..n)
      /\ Len(<<>>) = 0 /\ 0 \in 0..0
  OBVIOUS
<1>5. closed \in Seq(1..Len(segments)) /\ active \in 0..Len(segments)
  BY <1>3, <1>4
<1>6. TypeOK
  BY <1>2, <1>3, <1>4, <1>5, TypeParts
<1> QED BY <1>3, <1>6 DEF TypeInv, ActiveBehind

(* Every step keeps the types.                                             *)
LEMMA TypesKept ==
  ASSUME TypeInv, [Next]_vars
  PROVE  TypeInv'
<1>0. /\ files \subseteq Base /\ mem \in LogFiles /\ disk \in LogFiles
      /\ indexMem \in IndexFiles /\ indexDisk \in IndexFiles
      /\ isOpen \in BOOLEAN /\ hadOutage \in BOOLEAN /\ segments \in Seq(SegmentType)
      /\ closed \in Seq(1..Len(segments)) /\ active \in 0..Len(segments)
      /\ nextOffset \in Nat /\ synced \in Nat /\ records \in Seq(Payload)
  BY TypeParts DEF TypeInv
<1>1. CASE OpenWAL
  BY <1>1, OpenKeepsTypes
<1>2. CASE \E d \in Payload : AppendInPlace(d)
  BY <1>2, InPlaceKeepsTypes
<1>3. CASE \E d \in Payload : AppendToNewSegment(d) \/ AppendRefused(d) \/ RollFails(d)
  BY <1>3, RollingKeepsTypes
<1>4. CASE Sync
  <2>1. /\ FlushActive /\ isOpen /\ synced' = nextOffset
        /\ UNCHANGED <<files, mem, indexMem, isOpen, segments, closed, active, nextOffset, records, hadOutage>>
    BY <1>4 DEF Sync, fileVars, walVars
  <2>2. disk' \in LogFiles /\ indexDisk' \in IndexFiles
    BY <2>1, FlushTyped
  <2>3. TypeOK'
    BY <1>0, <2>1, <2>2 DEF TypeOK, SegmentType, LogFiles, IndexFiles
  <2> QED BY <2>1, <2>3 DEF TypeInv, ActiveBehind
<1>5. CASE Close
  <2>1. /\ Ended /\ UNCHANGED <<files, mem, indexMem, disk, records, synced, hadOutage>>
        /\ indexDisk' = [b \in Base |->
             IF \E i \in 1..Len(segments) : segments[i].base = b THEN indexMem[b] ELSE indexDisk[b]]
    BY <1>5 DEF Close, fileVars
  <2>2. indexDisk' \in IndexFiles
    BY <1>0, <2>1 DEF IndexFiles
  <2> QED BY <1>0, <2>1, <2>2, EndsKeepTypes
<1>6. CASE Killed
  <2>1. Ended /\ UNCHANGED <<files, mem, indexMem, disk, indexDisk, records, synced, hadOutage>>
    BY <1>6 DEF Killed, fileVars, diskVars
  <2> QED BY <1>0, <2>1, EndsKeepTypes
<1>7. CASE \E d \in Payload : KilledInAppend(d) \/ KilledAfterRoll(d)
  BY <1>7, KillsKeepTypes
<1>8. CASE Outage
  BY <1>8, OutageKeepsTypes
<1>9. CASE UNCHANGED vars
  BY <1>9 DEF vars, fileVars, diskVars, walVars, TypeInv, TypeOK, ActiveBehind
<1> QED BY <1>1, <1>2, <1>3, <1>4, <1>5, <1>6, <1>7, <1>8, <1>9 DEF Next

(* Type correctness: every state has the shape TypeOK says, whichever of    *)
(* the faults may happen - the memory-mapped files hold whole cells, no     *)
(* index is written beyond its room, and recovery ends within the segment. *)
THEOREM WalTypes == Spec => []TypeOK
<1>1. Init => TypeInv
  BY TypesAtFirst
<1>2. TypeInv /\ [Next]_vars => TypeInv'
  BY TypesKept
<1>3. TypeInv => TypeOK
  BY DEF TypeInv
<1> QED BY <1>1, <1>2, <1>3, PTL DEF Spec

-----------------------------------------------------------------------------
(* A record is written behind the others.                                  *)

\* The first k cells of the frame of a record, copied to position q.
Put(c, q, o, d, k) ==
  [x \in Position |-> IF x \in q .. q + k - 1 THEN EncodeFrame(o, d)[x - q + 1] ELSE c[x]]

(* A frame is what its cells are.                                          *)
LEMMA SameFrame ==
  ASSUME NEW s, NEW p, NEW b, NEW u, Layout(s, p, b, u), NEW o \in b .. u - 1,
         NEW c, NEW c2, \A x \in p[o] .. p[o + 1] - 1 : c2[x] = c[x],
         IsFrame(s, c, p, o)
  PROVE  IsFrame(s, c2, p, o)
<1>1. PICK pos, n : pos = p[o] /\ n = SizeOf[s[o + 1]]
  OBVIOUS
<1>2. pos \in Nat /\ n \in Nat /\ p[o + 1] = pos + 2 + n
  BY <1>1, LayoutTypes
<1>3. FrameAt(c, pos).length = n /\ Decodes(c, pos, MaxSegmentBytes)
  BY <1>1 DEF IsFrame, FrameOf, Fields
<1>4. /\ pos \in pos .. pos + 2 + n - 1 /\ pos + 1 \in pos .. pos + 2 + n - 1
      /\ \A i \in 1..n : pos + 1 + i \in pos .. pos + 2 + n - 1
  BY <1>2
<1>5. c2[pos] = c[pos] /\ c2[pos + 1] = c[pos + 1] /\ \A i \in 1..n : c2[pos + 1 + i] = c[pos + 1 + i]
  BY <1>1, <1>2, <1>4
<1>6. Decodes(c2, pos, MaxSegmentBytes) /\ FrameAt(c2, pos) = FrameAt(c, pos)
  BY <1>3, <1>5 DEF Decodes, FrameAt
<1> QED BY <1>1, <1>6 DEF IsFrame

(* What EncodeFrame writes decodes.                                        *)
LEMMA FrameDecodes ==
  ASSUME NEW o \in Nat, NEW d \in Payload, Encodable(d), NEW q \in Nat,
         q + FrameLen(d) <= MaxSegmentBytes,
         NEW c, \A i \in 1..FrameLen(d) : c[q + i - 1] = EncodeFrame(o, d)[i]
  PROVE  Decodes(c, q, MaxSegmentBytes) /\ FrameAt(c, q) = Fields(SizeOf[d], o, d)
<1>1. /\ FrameLen(d) = 2 + SizeOf[d] /\ SizeOf[d] \in Nat
      /\ EncodeFrame(o, d)[1] = Magic
      /\ EncodeFrame(o, d)[2] = Fields(SizeOf[d], o, d)
      /\ \A i \in 3..FrameLen(d) : EncodeFrame(o, d)[i] = Byte(d, i - 2)
  BY FrameCells
<1>2. c[q] = Magic /\ c[q + 1] = Fields(SizeOf[d], o, d)
  <2>1. 1 \in 1..FrameLen(d) /\ 2 \in 1..FrameLen(d) /\ q + 1 - 1 = q /\ q + 2 - 1 = q + 1
    BY <1>1
  <2> QED BY <1>1, <2>1
<1>3. ASSUME NEW i \in 1..SizeOf[d] PROVE c[q + 1 + i] = Byte(d, i)
  <2>1. i + 2 \in 3..FrameLen(d) /\ i + 2 \in 1..FrameLen(d) /\ q + (i + 2) - 1 = q + 1 + i /\ (i + 2) - 2 = i
    BY <1>1
  <2> QED BY <1>1, <2>1
<1>4. Read(c[q + 1]) = Fields(SizeOf[d], o, d)
  BY <1>2 DEF Read, Zero, Fields
<1>5. /\ Fields(SizeOf[d], o, d).kind = "fields" /\ Fields(SizeOf[d], o, d).length = SizeOf[d]
      /\ Fields(SizeOf[d], o, d).data = d
  BY DEF Fields
<1>6. /\ q + 2 <= MaxSegmentBytes /\ q + 2 + SizeOf[d] <= MaxSegmentBytes
  BY <1>1, SegmentAssumption
<1>7. Decodes(c, q, MaxSegmentBytes)
  BY <1>2, <1>3, <1>4, <1>5, <1>6 DEF Decodes, HeaderSize, Encodable
<1> QED BY <1>4, <1>7 DEF FrameAt

\* A frame fits behind the records, and k of its cells are written.
Room(p, u, d, k) ==
  /\ d \in Payload /\ Encodable(d) /\ p[u] + FrameLen(d) <= MaxSegmentBytes
  /\ k \in 0..FrameLen(d) /\ k # 1

\* The cells of c2, which is c with a piece of a frame at q.
PutShape(c2, c, q, u, d, k) ==
  /\ q \in Nat /\ FrameLen(d) = 2 + SizeOf[d] /\ SizeOf[d] \in Nat /\ k \in Nat
  /\ c2 \in [Position -> Cell]
  /\ \A x \in Position : x < q => c2[x] = c[x]
  /\ \A x \in Position :
       \/ c2[x] = c[x]
       \/ k > 0 /\ x = q /\ c2[x] = Magic
       \/ k > 1 /\ x = q + 1 /\ c2[x] = Fields(SizeOf[d], u, d)
       \/ \E i \in 1 .. k - 2 : x = q + 1 + i /\ c2[x] = Byte(d, i)
  /\ \A i \in 1..k : c2[q + i - 1] = EncodeFrame(u, d)[i]
  /\ \A x \in q .. q + k - 1 : x \in Position /\ c2[x] # Zero

(* The cells of a piece of a frame.                                        *)
LEMMA PutCells ==
  ASSUME NEW s, NEW c \in [Position -> Cell], NEW p, NEW b, NEW u, Layout(s, p, b, u),
         NEW d, NEW k, Room(p, u, d, k)
  PROVE  PutShape(Put(c, p[u], u, d, k), c, p[u], u, d, k)
<1>1. PICK q, n : q = p[u] /\ n = SizeOf[d]
  OBVIOUS
<1>2. /\ u \in Nat /\ u \in b..u /\ MaxSegmentBytes \in Nat
  BY LayoutTypes
<1>3. q \in Nat
  BY <1>1, <1>2, LayoutTypes
<1>4. /\ n \in Nat /\ FrameLen(d) = 2 + n /\ d \in Payload
      /\ EncodeFrame(u, d)[1] = Magic /\ EncodeFrame(u, d)[2] = Fields(n, u, d)
      /\ \A i \in 3..FrameLen(d) : EncodeFrame(u, d)[i] = Byte(d, i - 2)
  BY <1>1, <1>2, FrameCells DEF Room
<1>5. k \in Nat /\ k <= 2 + n /\ q + k <= MaxSegmentBytes
  BY <1>1, <1>2, <1>3, <1>4 DEF Room
<1>6. PICK c2 : c2 = Put(c, q, u, d, k)
  OBVIOUS
<1>7. \A x \in Position : c2[x] = IF x \in q .. q + k - 1 THEN EncodeFrame(u, d)[x - q + 1] ELSE c[x]
  BY <1>6 DEF Put
<1>8. \A x \in Position : x \in Nat /\ x < MaxSegmentBytes
  BY <1>2 DEF Position
<1>9. \A i \in 1..FrameLen(d) : EncodeFrame(u, d)[i] \in Cell \ {Zero}
  BY <1>2, <1>4, FrameCellTypes
<1>10. ASSUME NEW x \in Position PROVE c2[x] \in Cell
  <2>1. x \in q .. q + k - 1 => x - q + 1 \in 1..FrameLen(d)
    BY <1>3, <1>4, <1>5, <1>8
  <2> QED BY <1>7, <1>9, <2>1
<1>11. ASSUME NEW x \in Position, x < q PROVE c2[x] = c[x]
  BY <1>3, <1>5, <1>7, <1>8, <1>11
<1>12. ASSUME NEW x \in Position
       PROVE  \/ c2[x] = c[x]
              \/ k > 0 /\ x = q /\ c2[x] = Magic
              \/ k > 1 /\ x = q + 1 /\ c2[x] = Fields(n, u, d)
              \/ \E i \in 1 .. k - 2 : x = q + 1 + i /\ c2[x] = Byte(d, i)
  <2>1. CASE x \notin q .. q + k - 1
    BY <1>7, <2>1
  <2>2. CASE x \in q .. q + k - 1
    <3>1. PICK i : i = x - q + 1
      OBVIOUS
    <3>2. i \in 1..k /\ x = q + i - 1 /\ c2[x] = EncodeFrame(u, d)[i] /\ i \in 1..FrameLen(d)
      BY <1>3, <1>4, <1>5, <1>7, <1>8, <2>2, <3>1
    <3>3. CASE i = 1
      BY <1>3, <1>4, <1>5, <3>2, <3>3
    <3>4. CASE i = 2
      BY <1>3, <1>4, <1>5, <3>2, <3>4
    <3>5. CASE i > 2
      <4>1. i \in 3..FrameLen(d) /\ i - 2 \in 1 .. k - 2 /\ x = q + 1 + (i - 2)
        BY <1>3, <1>4, <1>5, <3>2, <3>5
      <4> QED BY <1>4, <3>2, <4>1
    <3>6. i = 1 \/ i = 2 \/ i > 2
      BY <1>5, <3>2
    <3> QED BY <3>3, <3>4, <3>5, <3>6
  <2> QED BY <2>1, <2>2
<1>13. ASSUME NEW i \in 1..k PROVE c2[q + i - 1] = EncodeFrame(u, d)[i]
  <2>1. q + i - 1 \in Position /\ q + i - 1 \in q .. q + k - 1 /\ (q + i - 1) - q + 1 = i
    BY <1>2, <1>3, <1>5 DEF Position
  <2> QED BY <1>7, <2>1
<1>14. ASSUME NEW x \in q .. q + k - 1 PROVE x \in Position /\ c2[x] # Zero
  <2>1. x \in Position /\ x - q + 1 \in 1..FrameLen(d)
    BY <1>2, <1>3, <1>4, <1>5 DEF Position
  <2> QED BY <1>7, <1>9, <2>1
<1>15. c2 \in [Position -> Cell]
  BY <1>6, <1>10 DEF Put
<1>16. n = SizeOf[d]
  BY <1>1
<1>17. PutShape(c2, c, q, u, d, k)
  BY <1>3, <1>4, <1>5, <1>11, <1>12, <1>13, <1>14, <1>15, <1>16 DEF PutShape
<1> QED BY <1>1, <1>6, <1>17

(* No header loses its fields to a frame that is written over it.          *)
LEMMA PutWhole ==
  ASSUME NEW s, NEW c \in [Position -> Cell], NEW p, NEW b, NEW u, Layout(s, p, b, u),
         NEW d, NEW k, Room(p, u, d, k), HeadersWhole(c)
  PROVE  HeadersWhole(Put(c, p[u], u, d, k))
<1>1. PICK q, n, c2 : q = p[u] /\ n = SizeOf[d] /\ c2 = Put(c, p[u], u, d, k)
  OBVIOUS
<1>0. PutShape(c2, c, q, u, d, k)
  BY <1>1, PutCells
<1>2. /\ q \in Nat /\ n \in Nat /\ k \in Nat /\ k # 1 /\ MaxSegmentBytes \in Nat
  BY <1>0, <1>1, SegmentAssumption DEF PutShape, Room
<1>3. \A x \in Position : \/ c2[x] = c[x]
                          \/ k > 0 /\ x = q /\ c2[x] = Magic
                          \/ c2[x] # Magic
  <2> SUFFICES ASSUME NEW x \in Position
               PROVE  c2[x] = c[x] \/ (k > 0 /\ x = q /\ c2[x] = Magic) \/ c2[x] # Magic
    OBVIOUS
  <2>1. \/ c2[x] = c[x] \/ (k > 0 /\ x = q /\ c2[x] = Magic)
        \/ c2[x] = Fields(n, u, d)
        \/ \E i \in 1 .. k - 2 : c2[x] = Byte(d, i)
    BY <1>0, <1>1 DEF PutShape
  <2>2. Fields(n, u, d) # Magic /\ \A i : Byte(d, i) # Magic
    BY DEF Fields, Byte, Magic
  <2> QED BY <2>1, <2>2
<1>4. \A x \in q .. q + k - 1 : x \in Position /\ c2[x] # Zero
  BY <1>0 DEF PutShape
<1>5. ASSUME NEW x \in Position, c2[x] = Magic PROVE x + 1 \in Position /\ c2[x + 1] # Zero
  <2>1. x \in Nat
    BY <1>2 DEF Position
  <2>2. CASE c2[x] = c[x]
    <3>1. x + 1 \in Position /\ c[x + 1] # Zero
      BY <1>5, <2>2 DEF HeadersWhole
    <3>2. c2[x + 1] = c[x + 1] \/ x + 1 \in q .. q + k - 1
      BY <1>1, <3>1 DEF Put
    <3> QED BY <1>4, <3>1, <3>2
  <2>3. CASE k > 0 /\ x = q
    <3>1. q + 1 \in q .. q + k - 1
      BY <1>2, <2>3
    <3> QED BY <1>4, <2>3, <3>1
  <2> QED BY <1>3, <1>5, <2>2, <2>3
<1> QED BY <1>1, <1>5 DEF HeadersWhole

(* A piece of a frame is no record: recovery still ends before it.         *)
LEMMA PiecePut ==
  ASSUME NEW s, NEW c \in [Position -> Cell], NEW p, NEW b, NEW u, Layout(s, p, b, u),
         Laid(s, c, p, b, u), Genuine(s, c, p, b, u), HeadersWhole(c),
         NEW d, NEW k, Room(p, u, d, k), k < FrameLen(d)
  PROVE  /\ Laid(s, Put(c, p[u], u, d, k), p, b, u)
         /\ Genuine(s, Put(c, p[u], u, d, k), p, b, u)
         /\ HeadersWhole(Put(c, p[u], u, d, k))
<1>1. PICK q, n, c2 : q = p[u] /\ n = SizeOf[d] /\ c2 = Put(c, p[u], u, d, k)
  OBVIOUS
<1>0. PutShape(c2, c, q, u, d, k)
  BY <1>1, PutCells
<1>2. /\ q \in Nat /\ n \in Nat /\ k \in Nat /\ k # 1 /\ k < 2 + n
      /\ c2 \in [Position -> Cell] /\ \A x \in Position : x < q => c2[x] = c[x]
  BY <1>0, <1>1 DEF PutShape, Room
<1>3. u \in Nat /\ u \in b..u /\ b \in Nat /\ b <= u /\ MaxSegmentBytes \in Nat
  BY LayoutTypes
<1>4. HeadersWhole(c2)
  BY <1>1, PutWhole
<1>5. ASSUME NEW x \in Position PROVE CellOK(s, p, b, u, x, c2[x])
  <2>1. CellOK(s, p, b, u, x, c[x])
    BY DEF Genuine
  <2>2. \/ c2[x] = c[x] \/ c2[x] = Magic
        \/ (k > 1 /\ x = q + 1 /\ c2[x] = Fields(n, u, d))
        \/ \E i \in 1 .. k - 2 : c2[x] = Byte(d, i)
    BY <1>0, <1>1 DEF PutShape
  <2>3. CASE c2[x] = Magic
    BY <2>3 DEF CellOK, Magic
  <2>4. CASE k > 1 /\ x = q + 1 /\ c2[x] = Fields(n, u, d)
    <3>1. n # 0
      BY <1>2, <2>4
    <3>2. /\ c2[x].kind = "fields" /\ c2[x].offset = u /\ c2[x].length = n /\ c2[x].data = d
      BY <2>4 DEF Fields
    <3> QED BY <1>1, <1>3, <2>4, <3>1, <3>2 DEF CellOK
  <2>5. ASSUME NEW i \in 1 .. k - 2, c2[x] = Byte(d, i) PROVE CellOK(s, p, b, u, x, c2[x])
    <3>1. i # n
      BY <1>2
    <3>2. c2[x].kind = "byte" /\ c2[x].at = i /\ c2[x].data = d
      BY <2>5 DEF Byte
    <3> QED BY <1>1, <3>1, <3>2 DEF CellOK
  <2> QED BY <2>1, <2>2, <2>3, <2>4, <2>5
<1>6. Genuine(s, c2, p, b, u)
  BY <1>5 DEF Genuine
<1>7. ASSUME NEW o \in b .. u - 1 PROVE IsFrame(s, c2, p, o)
  <2>1. o \in b..u /\ o + 1 \in b..u /\ (o + 1 < u \/ o + 1 = u)
    BY <1>3
  <2>2. p[o] \in Nat /\ p[o + 1] \in Nat /\ p[o + 1] <= q
    <3>1. o + 1 < u => p[o + 1] < p[u]
      BY <1>3, <2>1 DEF Layout
    <3>2. p[o] \in Nat /\ p[o + 1] \in Nat
      BY <2>1, LayoutTypes
    <3> QED BY <1>1, <1>2, <2>1, <3>1, <3>2
  <2>3. \A x \in p[o] .. p[o + 1] - 1 : x \in Position /\ x < q
    <3>1. q <= MaxSegmentBytes
      BY <1>1, <1>3, LayoutTypes
    <3> QED BY <1>2, <1>3, <2>2, <3>1 DEF Position
  <2>4. \A x \in p[o] .. p[o + 1] - 1 : c2[x] = c[x]
    BY <1>2, <2>3
  <2>5. IsFrame(s, c, p, o)
    BY DEF Laid
  <2> QED BY <2>4, <2>5, SameFrame
<1>8. ~Decodes(c2, p[u], MaxSegmentBytes)
  <2>1. Decodes(c2, p[u], MaxSegmentBytes) => u < u
    BY <1>2, <1>3, <1>4, <1>6, OnlyRecordsDecode
  <2> QED BY <1>3, <2>1
<1> QED BY <1>1, <1>4, <1>6, <1>7, <1>8 DEF Laid

\* The segment holds the last record.
AtEnd(s, u) == u = Len(s)

\* The positions with one record more.
Further(p, u, d) == [p EXCEPT ![u + 1] = p[u] + FrameLen(d)]

\* What holds of the first records holds still.
Longer(s, t, p, q, u, d) ==
  /\ \A o \in 0..u : q[o] = p[o]
  /\ q[u + 1] = p[u] + FrameLen(d)
  /\ \A o \in 1..u : t[o] = s[o]
  /\ t[u + 1] = d

(* The layout with one record more.                                        *)
LEMMA LayoutGrows ==
  ASSUME NEW s, NEW p, NEW b, NEW u, Layout(s, p, b, u), AtEnd(s, u),
         NEW d \in Payload, p[u] + FrameLen(d) <= MaxSegmentBytes
  PROVE  /\ Layout(Append(s, d), Further(p, u, d), b, u + 1)
         /\ Longer(s, Append(s, d), p, Further(p, u, d), u, d)
<1>1. /\ s \in Seq(Payload) /\ p \in [Nat -> Nat] /\ b \in Nat /\ u \in Nat /\ b <= u
      /\ MaxSegmentBytes \in Nat /\ u + 1 \in Nat /\ p[b] = 0
  <2>1. b \in Nat /\ u \in Nat /\ b <= u /\ MaxSegmentBytes \in Nat
    BY LayoutTypes
  <2>2. s \in Seq(Payload) /\ p \in [Nat -> Nat] /\ p[b] = 0
    BY Zenon DEF Layout
  <2>3. u + 1 \in Nat
    BY <2>1
  <2> QED BY Zenon, <2>1, <2>2, <2>3
<1>2. FrameLen(d) \in Nat /\ FrameLen(d) > 0
  <2>1. FrameLen(d) = 2 + SizeOf[d] /\ SizeOf[d] \in Nat
    BY FrameCells, 0 \in Nat
  <2> QED BY <2>1
<1>3. PICK q, t : q = Further(p, u, d) /\ t = Append(s, d)
  OBVIOUS
<1>4. /\ q \in [Nat -> Nat] /\ q[u + 1] = p[u] + FrameLen(d) /\ \A o \in 0..u : q[o] = p[o]
  <2>1. PICK w \in Nat : w = p[u] + FrameLen(d)
    BY <1>1, <1>2
  <2>2. q = [p EXCEPT ![u + 1] = w]
    BY <1>3, <2>1 DEF Further
  <2>3. \A o \in 0..u : o \in Nat /\ o # u + 1
    BY <1>1
  <2> QED BY <1>1, <2>1, <2>2, <2>3
<1>5. /\ t \in Seq(Payload) /\ Len(t) = u + 1 /\ t[u + 1] = d /\ \A o \in 1..u : t[o] = s[o]
  BY <1>1, <1>3, AppendProperties DEF AtEnd
<1>6. \A o \in b .. u + 1 : (o \in b..u /\ o \in 0..u) \/ o = u + 1
  BY <1>1
<1>7. ASSUME NEW o \in b .. u + 1 PROVE q[o] \in 0..MaxSegmentBytes
  <2>1. \A r \in b..u : p[r] \in 0..MaxSegmentBytes
    BY LayoutTypes
  <2>2. p[u] + FrameLen(d) \in 0..MaxSegmentBytes
    <3>1. p[u] \in Nat
      BY <1>1
    <3>2. p[u] + FrameLen(d) \in Nat
      BY <1>2, <3>1
    <3> QED BY <1>1, <3>2
  <2> QED BY <1>4, <1>6, <2>1, <2>2
<1>8. ASSUME NEW o \in b .. (u + 1) - 1 PROVE q[o + 1] = q[o] + FrameLen(t[o + 1])
  <2>1. CASE o = u
    BY <1>1, <1>4, <1>5, <2>1
  <2>2. CASE o # u
    <3>1. o \in b .. u - 1 /\ o \in 0..u /\ o + 1 \in 0..u /\ o + 1 \in 1..u
      BY <1>1, <2>2
    <3>2. p[o + 1] = p[o] + FrameLen(s[o + 1])
      BY <3>1 DEF Layout
    <3> QED BY <1>4, <1>5, <3>1, <3>2
  <2> QED BY <2>1, <2>2
<1>9. ASSUME NEW o \in b .. u + 1, NEW r \in b .. u + 1, o < r PROVE q[o] < q[r]
  <2>1. o \in b..u /\ o \in 0..u
    BY <1>1, <1>9
  <2>2. CASE r \in b..u
    <3>1. p[o] < p[r] /\ r \in 0..u
      BY <1>1, <1>9, <2>1, <2>2 DEF Layout
    <3> QED BY <1>4, <2>1, <3>1
  <2>3. CASE r = u + 1
    <3>1. p[o] < p[u] \/ o = u
      BY <1>1, <2>1 DEF Layout
    <3>2. p[o] \in Nat /\ p[u] \in Nat
      <4>1. p \in [Nat -> Nat] /\ u \in Nat
        BY Zenon, <1>1
      <4>2. o \in Nat
        BY <2>1
      <4> QED BY <4>1, <4>2
    <3>3. q[o] = p[o] /\ q[r] = p[u] + FrameLen(d)
      BY <1>4, <2>1, <2>3
    <3> QED BY <1>2, <3>1, <3>2, <3>3
  <2> QED BY <1>6, <2>2, <2>3
<1>10. Layout(t, q, b, u + 1)
  <2>1. u + 1 \in b .. Len(t)
    BY <1>1, <1>5
  <2>2. q[b] = 0
    BY <1>1, <1>4
  <2> QED BY <1>1, <1>4, <1>5, <1>7, <1>8, <1>9, <2>1, <2>2 DEF Layout
<1> QED BY <1>3, <1>4, <1>5, <1>10 DEF Longer

(* What was genuine stays so with one record more.                         *)
LEMMA GenuineGrows ==
  ASSUME NEW s, NEW p, NEW b, NEW u, Layout(s, p, b, u), AtEnd(s, u),
         NEW d \in Payload, p[u] + FrameLen(d) <= MaxSegmentBytes,
         NEW x, NEW cell, CellOK(s, p, b, u, x, cell)
  PROVE  CellOK(Append(s, d), Further(p, u, d), b, u + 1, x, cell)
<1>1. PICK q, t : q = Further(p, u, d) /\ t = Append(s, d)
  OBVIOUS
<1>2. /\ \A o \in 0..u : q[o] = p[o]
      /\ \A o \in 1..u : t[o] = s[o]
  <2>1. Longer(s, t, p, q, u, d)
    BY <1>1, LayoutGrows
  <2> QED BY <2>1 DEF Longer
<1>3. b \in Nat /\ u \in Nat /\ b <= u
  BY LayoutTypes
<1>4. \A o \in b..u : o \in b .. u + 1 /\ q[o] = p[o] /\ (o < u => o < u + 1 /\ t[o + 1] = s[o + 1])
  BY <1>2, <1>3
<1>5. \A o \in b .. u - 1 : o \in b .. (u + 1) - 1 /\ q[o + 1] = p[o + 1] /\ t[o + 1] = s[o + 1]
  BY <1>2, <1>3
<1>6. ASSUME cell.kind = "fields"
      PROVE  \E o \in b .. u + 1 : /\ x = q[o] + 1 /\ cell.offset = o /\ cell.length = SizeOf[cell.data]
                                   /\ cell.length = 0 => o < u + 1 /\ cell.data = t[o + 1]
  <2>1. PICK o \in b..u : /\ x = p[o] + 1 /\ cell.offset = o /\ cell.length = SizeOf[cell.data]
                          /\ cell.length = 0 => o < u /\ cell.data = s[o + 1]
    BY <1>6 DEF CellOK
  <2> QED BY <1>4, <2>1
<1>7. ASSUME cell.kind = "byte", cell.at = SizeOf[cell.data]
      PROVE  \E o \in b .. (u + 1) - 1 : x + 1 = q[o + 1] /\ cell.data = t[o + 1]
  <2>1. PICK o \in b .. u - 1 : x + 1 = p[o + 1] /\ cell.data = s[o + 1]
    BY <1>7 DEF CellOK
  <2> QED BY <1>5, <2>1
<1> QED BY <1>1, <1>6, <1>7 DEF CellOK

(* A whole frame is a record more.                                         *)
LEMMA FramePut ==
  ASSUME NEW s, NEW c \in [Position -> Cell], NEW p, NEW b, NEW u, Layout(s, p, b, u),
         AtEnd(s, u), Laid(s, c, p, b, u), Genuine(s, c, p, b, u), HeadersWhole(c),
         NEW d, Room(p, u, d, FrameLen(d))
  PROVE  /\ Layout(Append(s, d), Further(p, u, d), b, u + 1)
         /\ Laid(Append(s, d), Put(c, p[u], u, d, FrameLen(d)), Further(p, u, d), b, u + 1)
         /\ Genuine(Append(s, d), Put(c, p[u], u, d, FrameLen(d)), Further(p, u, d), b, u + 1)
         /\ HeadersWhole(Put(c, p[u], u, d, FrameLen(d)))
<1>1. PICK q, n, k, c2, p2, t : /\ q = p[u] /\ n = SizeOf[d] /\ k = FrameLen(d) /\ c2 = Put(c, p[u], u, d, k)
                                /\ p2 = Further(p, u, d) /\ t = Append(s, d)
  OBVIOUS
<1>2. PutShape(c2, c, q, u, d, k)
  BY <1>1, PutCells
<1>3. /\ q \in Nat /\ n \in Nat /\ k = 2 + n /\ c2 \in [Position -> Cell]
      /\ \A x \in Position : x < q => c2[x] = c[x]
  BY <1>1, <1>2 DEF PutShape
<1>4. u \in Nat /\ u \in b..u /\ b \in Nat /\ b <= u /\ MaxSegmentBytes \in Nat
  BY LayoutTypes
<1>5. d \in Payload /\ Encodable(d) /\ q + FrameLen(d) <= MaxSegmentBytes
  BY <1>1 DEF Room
<1>6. Layout(t, p2, b, u + 1) /\ Longer(s, t, p, p2, u, d)
  BY <1>1, <1>5, LayoutGrows
<1>7. /\ \A o \in 0..u : p2[o] = p[o]
      /\ p2[u + 1] = q + k
      /\ \A o \in 1..u : t[o] = s[o]
      /\ t[u + 1] = d
  BY <1>1, <1>6 DEF Longer
<1>8. HeadersWhole(c2)
  BY <1>1, PutWhole
<1>9. ASSUME NEW x \in Position PROVE CellOK(t, p2, b, u + 1, x, c2[x])
  <2>1. CellOK(t, p2, b, u + 1, x, c[x])
    BY <1>1, <1>5, GenuineGrows DEF Genuine
  <2>2. \/ c2[x] = c[x] \/ c2[x] = Magic
        \/ (x = q + 1 /\ c2[x] = Fields(n, u, d))
        \/ \E i \in 1 .. k - 2 : x = q + 1 + i /\ c2[x] = Byte(d, i)
    BY <1>1, <1>2 DEF PutShape
  <2>3. CASE c2[x] = Magic
    BY <2>3 DEF CellOK, Magic
  <2>4. CASE x = q + 1 /\ c2[x] = Fields(n, u, d)
    <3>1. u \in b .. u + 1 /\ u < u + 1 /\ p2[u] = q
      BY <1>1, <1>4, <1>7
    <3>2. c2[x].kind = "fields" /\ c2[x].offset = u /\ c2[x].length = n /\ c2[x].data = d
      BY <2>4 DEF Fields
    <3> QED BY <1>1, <1>7, <2>4, <3>1, <3>2 DEF CellOK
  <2>5. ASSUME NEW i \in 1 .. k - 2, x = q + 1 + i, c2[x] = Byte(d, i) PROVE CellOK(t, p2, b, u + 1, x, c2[x])
    <3>1. c2[x].kind = "byte" /\ c2[x].at = i /\ c2[x].data = d
      BY <2>5 DEF Byte
    <3>2. i = n => x + 1 = p2[u + 1]
      BY <1>3, <1>7, <2>5
    <3>3. u \in b .. (u + 1) - 1
      BY <1>4
    <3> QED BY <1>1, <1>7, <3>1, <3>2, <3>3 DEF CellOK
  <2> QED BY <2>1, <2>2, <2>3, <2>4, <2>5
<1>10. Genuine(t, c2, p2, b, u + 1)
  BY <1>9 DEF Genuine
<1>11. ASSUME NEW o \in b .. u - 1 PROVE IsFrame(t, c2, p2, o)
  <2>1. o \in b..u /\ o + 1 \in b..u /\ (o + 1 < u \/ o + 1 = u) /\ o \in 0..u /\ o + 1 \in 1..u
    BY <1>4
  <2>2. p[o] \in Nat /\ p[o + 1] \in Nat /\ p[o + 1] <= q
    <3>1. o + 1 < u => p[o + 1] < p[u]
      BY <1>4, <2>1 DEF Layout
    <3>2. p[o] \in Nat /\ p[o + 1] \in Nat
      BY <2>1, LayoutTypes
    <3> QED BY <1>1, <1>3, <2>1, <3>1, <3>2
  <2>3. \A x \in p[o] .. p[o + 1] - 1 : x \in Position /\ x < q
    <3>1. q <= MaxSegmentBytes
      BY <1>1, <1>4, LayoutTypes
    <3> QED BY <1>3, <1>4, <2>2, <3>1 DEF Position
  <2>4. \A x \in p[o] .. p[o + 1] - 1 : c2[x] = c[x]
    BY <1>3, <2>3
  <2>5. IsFrame(s, c, p, o)
    BY DEF Laid
  <2>6. IsFrame(s, c2, p, o)
    BY <2>4, <2>5, SameFrame
  <2>7. p2[o] = p[o] /\ t[o + 1] = s[o + 1]
    BY <1>7, <2>1
  <2> QED BY <2>6, <2>7 DEF IsFrame, FrameOf
<1>12. IsFrame(t, c2, p2, u)
  <2>1. \A i \in 1..FrameLen(d) : c2[q + i - 1] = EncodeFrame(u, d)[i]
    BY <1>1, <1>2 DEF PutShape
  <2>2. Decodes(c2, q, MaxSegmentBytes) /\ FrameAt(c2, q) = Fields(SizeOf[d], u, d)
    BY <1>3, <1>4, <1>5, <2>1, FrameDecodes
  <2>3. p2[u] = q
    BY <1>1, <1>4, <1>7
  <2> QED BY <1>7, <2>2, <2>3 DEF IsFrame, FrameOf
<1>13. ~Decodes(c2, p2[u + 1], MaxSegmentBytes)
  <2>1. u + 1 \in b .. u + 1
    BY <1>4
  <2>2. Decodes(c2, p2[u + 1], MaxSegmentBytes) => u + 1 < u + 1
    BY <1>3, <1>6, <1>8, <1>10, <2>1, OnlyRecordsDecode
  <2> QED BY <1>4, <2>2
<1>14. Laid(t, c2, p2, b, u + 1)
  <2>1. \A o \in b .. (u + 1) - 1 : o \in b .. u - 1 \/ o = u
    BY <1>4
  <2> QED BY <1>11, <1>12, <1>13, <2>1 DEF Laid
<1> QED BY <1>1, <1>6, <1>8, <1>10, <1>14

-----------------------------------------------------------------------------
(* The files of a segment: its log lm and index im in memory, ld and id on *)
(* disk, n records synced.                                                 *)

\* The offset at which the segment at b ends, of the files F that hold n records.
Ends(F, n, b, u) ==
  \/ u = n /\ \A c \in F : c <= b
  \/ u \in F /\ b < u /\ \A c \in F : b < c => u <= c

Flushed(p, b, u, lm, ld, n) ==
  \A o \in b .. u - 1 : o < n => \A x \in p[o] .. p[o + 1] - 1 : ld[x] = lm[x]

\* The entries lead to positions of records, or to where the next one goes.
LeadsWithin(entries, p, b, u) ==
  \A e \in 0 .. MaxEntries - 1 :
    entries[e].pos = 0 \/ (b + entries[e].rel <= u /\ entries[e].pos = p[b + entries[e].rel])

\* What readers and recovery need.
Readable(s, b, u, p, lm, im) ==
  Layout(s, p, b, u) /\ Laid(s, lm, p, b, u) /\ Leads(im, p, b, MaxEntries)

\* What holds as long as the power has not failed.
Sound(s, b, u, p, lm, im, ld, id, n) ==
  /\ Genuine(s, lm, p, b, u) /\ HeadersWhole(lm) /\ LeadsWithin(im, p, b, u)
  /\ Genuine(s, ld, p, b, u) /\ LeadsWithin(id, p, b, u)
  /\ Flushed(p, b, u, lm, ld, n)

\* t begins with the first u records of s.
Agree(s, t, u) == t \in Seq(Payload) /\ u <= Len(t) /\ \A i \in 1..u : t[i] = s[i]

(* What is said of a segment speaks of its own records alone.              *)
LEMMA FileAgrees ==
  ASSUME NEW s, NEW t, NEW b, NEW u, NEW p, NEW lm, NEW im, Agree(s, t, u)
  PROVE  /\ Readable(s, b, u, p, lm, im) => Readable(t, b, u, p, lm, im)
         /\ \A ld, id, n : Layout(s, p, b, u) /\ Sound(s, b, u, p, lm, im, ld, id, n)
                             => Sound(t, b, u, p, lm, im, ld, id, n)
<1> SUFFICES ASSUME Layout(s, p, b, u)
             PROVE  /\ Readable(s, b, u, p, lm, im) => Readable(t, b, u, p, lm, im)
                    /\ \A ld, id, n : Sound(s, b, u, p, lm, im, ld, id, n)
                                        => Sound(t, b, u, p, lm, im, ld, id, n)
  BY DEF Readable
<1>1. b \in Nat /\ u \in Nat /\ b <= u
  BY LayoutTypes
<1>2. \A o \in b .. u - 1 : o + 1 \in 1..u /\ t[o + 1] = s[o + 1]
  <2>1. \A o \in b .. u - 1 : o + 1 \in 1..u
    BY <1>1
  <2> QED BY <2>1 DEF Agree
<1>3. Layout(t, p, b, u)
  <2>1. t \in Seq(Payload) /\ u <= Len(t)
    BY DEF Agree
  <2>2. u \in b..Len(t)
    BY <1>1, <2>1, LenProperties
  <2> QED BY <1>2, <2>1, <2>2 DEF Layout
<1>4. \A o \in b .. u - 1 : IsFrame(s, lm, p, o) => IsFrame(t, lm, p, o)
  BY <1>2 DEF IsFrame, FrameOf
<1>5. Readable(s, b, u, p, lm, im) => Readable(t, b, u, p, lm, im)
  BY <1>3, <1>4 DEF Readable, Laid
<1>6. ASSUME NEW x, NEW cell, CellOK(s, p, b, u, x, cell) PROVE CellOK(t, p, b, u, x, cell)
  <2>1. \A o \in b..u : o < u => o \in b .. u - 1
    BY <1>1
  <2>2. ASSUME cell.kind = "fields"
        PROVE  \E o \in b..u : /\ x = p[o] + 1 /\ cell.offset = o /\ cell.length = SizeOf[cell.data]
                               /\ cell.length = 0 => o < u /\ cell.data = t[o + 1]
    <3>1. PICK o \in b..u : /\ x = p[o] + 1 /\ cell.offset = o /\ cell.length = SizeOf[cell.data]
                            /\ cell.length = 0 => o < u /\ cell.data = s[o + 1]
      BY <1>6, <2>2 DEF CellOK
    <3> QED BY <1>2, <2>1, <3>1
  <2>3. ASSUME cell.kind = "byte", cell.at = SizeOf[cell.data]
        PROVE  \E o \in b .. u - 1 : x + 1 = p[o + 1] /\ cell.data = t[o + 1]
    <3>1. PICK o \in b .. u - 1 : x + 1 = p[o + 1] /\ cell.data = s[o + 1]
      BY <1>6, <2>3 DEF CellOK
    <3> QED BY <1>2, <3>1
  <2> QED BY <2>2, <2>3 DEF CellOK
<1>7. \A c : Genuine(s, c, p, b, u) => Genuine(t, c, p, b, u)
  BY <1>6 DEF Genuine
<1> QED BY <1>5, <1>7 DEF Sound

(* After a flush, disk and memory are the same.                            *)
LEMMA FileFlushes ==
  ASSUME NEW s, NEW b, NEW u, NEW p, NEW lm, NEW im, NEW ld, NEW id, NEW n, NEW m,
         Sound(s, b, u, p, lm, im, ld, id, n)
  PROVE  Sound(s, b, u, p, lm, im, lm, im, m)
BY DEF Sound, Flushed

(* A segment all of whose records are synced needs no further flush.       *)
LEMMA FileSynced ==
  ASSUME NEW s, NEW b \in Nat, NEW u \in Nat, NEW p, NEW lm, NEW im, NEW ld, NEW id,
         NEW n \in Nat, NEW m, u <= n, Sound(s, b, u, p, lm, im, ld, id, n)
  PROVE  Sound(s, b, u, p, lm, im, ld, id, m)
<1>1. \A o \in b .. u - 1 : o < n
  OBVIOUS
<1> QED BY <1>1 DEF Sound, Flushed

(* Index entries lead to the right places with one record more.            *)
LEMMA LeadsOn ==
  ASSUME NEW s, NEW p, NEW b, NEW u, Layout(s, p, b, u), AtEnd(s, u), NEW d, NEW k, Room(p, u, d, k),
         NEW entries \in [0 .. MaxEntries - 1 -> IndexEntry]
  PROVE  /\ LeadsWithin(entries, p, b, u) => LeadsWithin(entries, Further(p, u, d), b, u + 1)
         /\ LeadsWithin(entries, p, b, u) => Leads(entries, p, b, MaxEntries)
<1>1. b \in Nat /\ u \in Nat /\ b <= u
  BY LayoutTypes
<1>2. \A e \in 0 .. MaxEntries - 1 : entries[e].rel \in Nat
  BY DEF IndexEntry
<1>3. ASSUME LeadsWithin(entries, p, b, u), NEW e \in 0 .. MaxEntries - 1, entries[e].pos # 0
      PROVE  b + entries[e].rel <= u + 1 /\ entries[e].pos = Further(p, u, d)[b + entries[e].rel]
  <2>1. b + entries[e].rel <= u /\ entries[e].pos = p[b + entries[e].rel]
    BY <1>3 DEF LeadsWithin
  <2>2. b + entries[e].rel \in 0..u /\ b + entries[e].rel <= u + 1
    BY <1>1, <1>2, <2>1
  <2>3. d \in Payload /\ p[u] + FrameLen(d) <= MaxSegmentBytes
    BY DEF Room
  <2>4. Longer(s, Append(s, d), p, Further(p, u, d), u, d)
    BY <2>3, LayoutGrows
  <2> QED BY <2>1, <2>2, <2>4 DEF Longer
<1>4. LeadsWithin(entries, p, b, u) => Leads(entries, p, b, MaxEntries)
  BY DEF LeadsWithin, Leads
<1> QED BY <1>3, <1>4 DEF LeadsWithin

\* The index with an entry, or half of one, for the next record.
IndexStep(im, im2, p, b, u) ==
  \A e \in 0 .. MaxEntries - 1 :
    \/ im2[e] = im[e]
    \/ im2[e].pos = 0
    \/ im2[e].rel = u - b /\ im2[e].pos = p[u]

(* The new entry leads to where the record goes.                           *)
LEMMA LeadsStep ==
  ASSUME NEW p, NEW b \in Nat, NEW u \in Nat, NEW im, NEW im2,
         LeadsWithin(im, p, b, u), IndexStep(im, im2, p, b, u)
  PROVE  LeadsWithin(im2, p, b, u)
<1>1. ASSUME NEW e \in 0 .. MaxEntries - 1, im2[e].pos # 0
      PROVE  b + im2[e].rel <= u /\ im2[e].pos = p[b + im2[e].rel]
  <2>1. CASE im2[e] = im[e]
    BY <1>1, <2>1 DEF LeadsWithin
  <2>2. CASE im2[e].rel = u - b /\ im2[e].pos = p[u]
    <3>1. b + im2[e].rel = u
      BY <2>2
    <3> QED BY <2>2, <3>1
  <2> QED BY <1>1, <2>1, <2>2 DEF IndexStep
<1> QED BY <1>1 DEF LeadsWithin

(* A record, or a piece of its frame, written to the last segment.         *)
LEMMA FileTakes ==
  ASSUME NEW s, NEW b, NEW u, NEW p, NEW n \in Nat, n <= u, NEW lm \in [Position -> Cell],
         NEW im, NEW im2 \in [0 .. MaxEntries - 1 -> IndexEntry],
         NEW ld, NEW id \in [0 .. MaxEntries - 1 -> IndexEntry],
         Readable(s, b, u, p, lm, im), Sound(s, b, u, p, lm, im, ld, id, n), AtEnd(s, u),
         NEW d, NEW k, Room(p, u, d, k), IndexStep(im, im2, p, b, u)
  PROVE  /\ k = FrameLen(d) =>
              /\ Readable(Append(s, d), b, u + 1, Further(p, u, d), Put(lm, p[u], u, d, k), im2)
              /\ Sound(Append(s, d), b, u + 1, Further(p, u, d), Put(lm, p[u], u, d, k), im2, ld, id, n)
         /\ k < FrameLen(d) =>
              /\ Readable(s, b, u, p, Put(lm, p[u], u, d, k), im2)
              /\ Sound(s, b, u, p, Put(lm, p[u], u, d, k), im2, ld, id, n)
<1>1. /\ Layout(s, p, b, u) /\ Laid(s, lm, p, b, u) /\ Genuine(s, lm, p, b, u) /\ HeadersWhole(lm)
      /\ Genuine(s, ld, p, b, u) /\ LeadsWithin(im, p, b, u) /\ LeadsWithin(id, p, b, u)
      /\ Flushed(p, b, u, lm, ld, n)
  BY DEF Readable, Sound
<1>2. b \in Nat /\ u \in Nat /\ b <= u /\ MaxSegmentBytes \in Nat
  BY <1>1, LayoutTypes
<1>3. PICK c2 : c2 = Put(lm, p[u], u, d, k)
  OBVIOUS
<1>4. PutShape(c2, lm, p[u], u, d, k)
  BY <1>1, <1>3, PutCells
<1>5. LeadsWithin(im2, p, b, u)
  BY <1>1, <1>2, LeadsStep
<1>6. /\ LeadsWithin(im2, Further(p, u, d), b, u + 1) /\ LeadsWithin(id, Further(p, u, d), b, u + 1)
      /\ Leads(im2, p, b, MaxEntries)
  BY <1>1, <1>5, LeadsOn
<1>7. Leads(im2, Further(p, u, d), b, MaxEntries)
  BY <1>6 DEF LeadsWithin, Leads
<1>8. ASSUME NEW o \in b .. u - 1, NEW x \in p[o] .. p[o + 1] - 1 PROVE c2[x] = lm[x]
  <2>1. o \in b..u /\ o + 1 \in b..u /\ u \in b..u /\ (o + 1 < u \/ o + 1 = u)
    BY <1>2
  <2>2. p[o] \in Nat /\ p[o + 1] \in Nat /\ p[u] \in 0..MaxSegmentBytes
    BY <1>1, <2>1, LayoutTypes
  <2>3. p[o + 1] <= p[u]
    <3>1. o + 1 < u => p[o + 1] < p[u]
      BY <1>1, <2>1 DEF Layout
    <3> QED BY <1>2, <2>1, <2>2, <3>1
  <2>4. x \in Position /\ x < p[u]
    BY <1>2, <2>2, <2>3 DEF Position
  <2> QED BY <1>4, <2>4 DEF PutShape
<1>9. Flushed(p, b, u, c2, ld, n)
  BY <1>1, <1>8 DEF Flushed
<1>10. Longer(s, Append(s, d), p, Further(p, u, d), u, d)
  BY <1>1, LayoutGrows DEF Room
<1>11. Flushed(Further(p, u, d), b, u + 1, c2, ld, n)
  <2>1. ASSUME NEW o \in b .. (u + 1) - 1, o < n
        PROVE  \A x \in Further(p, u, d)[o] .. Further(p, u, d)[o + 1] - 1 : ld[x] = c2[x]
    <3>1. o \in b .. u - 1 /\ o \in 0..u /\ o + 1 \in 0..u
      BY <1>2, <2>1
    <3>2. Further(p, u, d)[o] = p[o] /\ Further(p, u, d)[o + 1] = p[o + 1]
      BY <1>10, <3>1 DEF Longer
    <3> QED BY <1>9, <2>1, <3>1, <3>2 DEF Flushed
  <2> QED BY <2>1 DEF Flushed
<1>12. ASSUME k = FrameLen(d)
       PROVE  /\ Readable(Append(s, d), b, u + 1, Further(p, u, d), c2, im2)
              /\ Sound(Append(s, d), b, u + 1, Further(p, u, d), c2, im2, ld, id, n)
  <2>1. /\ Layout(Append(s, d), Further(p, u, d), b, u + 1)
        /\ Laid(Append(s, d), c2, Further(p, u, d), b, u + 1)
        /\ Genuine(Append(s, d), c2, Further(p, u, d), b, u + 1)
        /\ HeadersWhole(c2)
    BY <1>1, <1>3, <1>12, FramePut
  <2>2. d \in Payload /\ p[u] + FrameLen(d) <= MaxSegmentBytes
    BY DEF Room
  <2>3. \A x \in Position : CellOK(s, p, b, u, x, ld[x])
    BY <1>1 DEF Genuine
  <2>4. \A x \in Position : CellOK(Append(s, d), Further(p, u, d), b, u + 1, x, ld[x])
    BY <1>1, <2>2, <2>3, GenuineGrows
  <2>5. Genuine(Append(s, d), ld, Further(p, u, d), b, u + 1)
    BY <2>4 DEF Genuine
  <2> QED BY <1>6, <1>7, <1>11, <2>1, <2>5 DEF Readable, Sound
<1>13. ASSUME k < FrameLen(d)
       PROVE  Readable(s, b, u, p, c2, im2) /\ Sound(s, b, u, p, c2, im2, ld, id, n)
  <2>1. Laid(s, c2, p, b, u) /\ Genuine(s, c2, p, b, u) /\ HeadersWhole(c2)
    BY <1>1, <1>3, <1>13, PiecePut
  <2> QED BY <1>1, <1>5, <1>6, <1>9, <2>1 DEF Readable, Sound
<1> QED BY <1>3, <1>12, <1>13

(* After a power failure the log holds, at every position, what was in     *)
(* memory or on disk: the records up to some offset, those synced at least. *)
LEMMA FileSurvives ==
  ASSUME NEW s, NEW b, NEW u, NEW p, NEW lm, NEW im, NEW ld, NEW id, NEW n \in Nat,
         Readable(s, b, u, p, lm, im), Sound(s, b, u, p, lm, im, ld, id, n),
         NEW c \in [Position -> Cell], \A x \in Position : c[x] = lm[x] \/ c[x] = ld[x],
         HeadersWhole(c), NEW i, i = im \/ i = id
  PROVE  \E v \in b..u : Readable(s, b, v, p, c, i) /\ (v = u \/ n <= v)
<1>1. /\ Layout(s, p, b, u) /\ Laid(s, lm, p, b, u) /\ Genuine(s, lm, p, b, u)
      /\ Genuine(s, ld, p, b, u) /\ LeadsWithin(im, p, b, u) /\ LeadsWithin(id, p, b, u)
      /\ Flushed(p, b, u, lm, ld, n)
  BY DEF Readable, Sound
<1>2. b \in Nat /\ u \in Nat /\ b <= u /\ MaxSegmentBytes \in Nat
  BY <1>1, LayoutTypes
<1>3. Genuine(s, c, p, b, u)
  <2>1. ASSUME NEW x \in Position PROVE CellOK(s, p, b, u, x, c[x])
    <3>1. CellOK(s, p, b, u, x, lm[x]) /\ CellOK(s, p, b, u, x, ld[x])
      BY <1>1 DEF Genuine
    <3>2. c[x] = lm[x] \/ c[x] = ld[x]
      OBVIOUS
    <3> QED BY <3>1, <3>2
  <2> QED BY <2>1 DEF Genuine
<1>4. \A o \in b..u : Decodes(c, p[o], MaxSegmentBytes) => o < u /\ FrameAt(c, p[o]) = FrameOf(s, o)
  BY <1>1, <1>3, OnlyRecordsDecode
<1> DEFINE Stops == {o \in b..u : ~Decodes(c, p[o], MaxSegmentBytes)}
<1>5. Stops \in SUBSET Nat /\ u \in Stops
  <2>1. u \in b..u /\ ~(u < u)
    BY <1>2
  <2> QED BY <1>2, <1>4, <2>1
<1>6. PICK v \in Stops : \A o \in Stops : v <= o
  BY <1>5, MinOfNats
<1>7. v \in b..u /\ v \in Nat /\ ~Decodes(c, p[v], MaxSegmentBytes)
  BY <1>2, <1>6
<1>8. ASSUME NEW o \in b .. v - 1 PROVE IsFrame(s, c, p, o)
  <2>1. o \in b..u /\ ~(v <= o)
    BY <1>2, <1>7
  <2>2. Decodes(c, p[o], MaxSegmentBytes)
    BY <1>6, <2>1
  <2> QED BY <1>4, <2>1, <2>2 DEF IsFrame
<1>9. Layout(s, p, b, v)
  <2>1. \A o \in b..v : o \in b..u
    BY <1>2, <1>7
  <2>2. \A o \in b .. v - 1 : o \in b .. u - 1
    BY <1>2, <1>7
  <2>3. v \in b..Len(s)
    <3>1. u \in b..Len(s) /\ s \in Seq(Payload)
      BY <1>1 DEF Layout
    <3> QED BY <1>2, <1>7, <3>1, LenProperties
  <2> QED BY <1>1, <2>1, <2>2, <2>3 DEF Layout
<1>10. v = u \/ n <= v
  <2> SUFFICES ASSUME v # u, ~(n <= v) PROVE FALSE
    OBVIOUS
  <2>1. v \in b .. u - 1 /\ v < n
    BY <1>2, <1>7
  <2>2. \A x \in p[v] .. p[v + 1] - 1 : ld[x] = lm[x]
    BY <1>1, <2>1 DEF Flushed
  <2>3. \A x \in p[v] .. p[v + 1] - 1 : x \in Position
    <3>1. v + 1 \in b..u
      BY <1>2, <2>1
    <3>2. p[v] \in Nat /\ p[v + 1] \in 0..MaxSegmentBytes
      BY <1>1, <1>7, <3>1, LayoutTypes
    <3> QED BY <1>2, <3>2 DEF Position
  <2>4. \A x \in p[v] .. p[v + 1] - 1 : c[x] = lm[x]
    BY <2>2, <2>3
  <2>5. IsFrame(s, lm, p, v)
    BY <1>1, <2>1 DEF Laid
  <2>6. IsFrame(s, c, p, v)
    BY <1>1, <2>1, <2>4, <2>5, SameFrame
  <2> QED BY <1>7, <2>6 DEF IsFrame
<1>11. Leads(i, p, b, MaxEntries)
  BY <1>1 DEF LeadsWithin, Leads
<1>12. Readable(s, b, v, p, c, i)
  BY <1>7, <1>8, <1>9, <1>11 DEF Readable, Laid
<1> QED BY <1>7, <1>10, <1>12

-----------------------------------------------------------------------------
(* The inductive invariant of the WAL, where none of the faults happens.   *)

\* The segment at b ends before offset u, its record o is at position p[o].
FileAt(b, u, p) ==
  /\ Ends(files, Len(records), b, u)
  /\ Readable(records, b, u, p, mem[b], indexMem[b])
  /\ ~hadOutage => Sound(records, b, u, p, mem[b], indexMem[b], disk[b], indexDisk[b], synced)

FilesOK == \A b \in files : \E u, p : FileAt(b, u, p)

RecordsOK ==
  /\ files = {} => records = <<>> /\ synced = 0 /\ ~isOpen
  /\ files # {} => 0 \in files /\ \A b \in files : b <= synced
  /\ synced <= Len(records)

\* What a power failure has done; before one, the files that are not there are empty.
OutageOK ==
  /\ hadOutage => mem = disk /\ indexMem = indexDisk /\ files # {}
  /\ ~hadOutage => \A b \in Base \ files : /\ mem[b] = EmptyLog /\ disk[b] = EmptyLog
                                           /\ indexMem[b] = EmptyIndex /\ indexDisk[b] = EmptyIndex

\* A failed append leaves an empty segment behind that another one replaces.
Current(i) == \A j \in i + 1 .. Len(segments) : segments[j].base # segments[i].base

ObjectsOK ==
  \A i \in 1..Len(segments) :
    /\ Current(i) => Recovered(segments[i].base, mem[segments[i].base])
                       = [end |-> segments[i].writePos, next |-> segments[i].next]
    /\ ~Current(i) => segments[i].next = segments[i].base

SegmentsOK ==
  /\ ~isOpen => segments = <<>>
  /\ isOpen => /\ active = Len(segments) /\ active # 0 /\ nextOffset = Len(records)
               /\ \A i \in 1..Len(segments) : segments[i].base \in files
               /\ \A b \in files : \E i \in 1..Len(segments) : segments[i].base = b
               /\ \A i, j \in 1..Len(segments) : i < j => segments[i].base <= segments[j].base

ClosedOK ==
  isOpen => /\ \A i, j \in 1..Len(closed) : i < j => closed[i] <= closed[j]
            /\ \A i \in 1 .. active - 1 : \E k \in 1..Len(closed) : closed[k] = i

\* The index of the active segment has room behind its entries.
SlotsFree ==
  isOpen => \A e \in 0 .. MaxEntries - 1 :
    e >= segments[active].entries => indexMem[segments[active].base][e].pos = 0

WalInv == TypeInv /\ FilesOK /\ RecordsOK /\ OutageOK /\ ObjectsOK /\ SegmentsOK /\ ClosedOK /\ SlotsFree

(* The types, spelled out.                                                 *)
LEMMA WalInvTypes ==
  ASSUME WalInv
  PROVE  /\ files \subseteq Base /\ (\A b \in files : b \in Nat) /\ mem \in LogFiles /\ disk \in LogFiles
         /\ indexMem \in IndexFiles /\ indexDisk \in IndexFiles
         /\ isOpen \in BOOLEAN /\ hadOutage \in BOOLEAN
         /\ segments \in Seq(SegmentType) /\ Len(segments) \in Nat
         /\ (\A i \in 1..Len(segments) : segments[i] \in SegmentType /\ segments[i].base \in Nat
                                         /\ segments[i].base \in Base)
         /\ closed \in Seq(1..Len(segments)) /\ active \in 0..Len(segments)
         /\ nextOffset \in Nat /\ synced \in Nat /\ records \in Seq(Payload) /\ Len(records) \in Nat
<1>1. /\ files \subseteq Base /\ mem \in LogFiles /\ disk \in LogFiles
      /\ indexMem \in IndexFiles /\ indexDisk \in IndexFiles
      /\ isOpen \in BOOLEAN /\ hadOutage \in BOOLEAN
      /\ segments \in Seq(SegmentType)
      /\ closed \in Seq(1..Len(segments)) /\ active \in 0..Len(segments)
      /\ nextOffset \in Nat /\ synced \in Nat /\ records \in Seq(Payload)
  BY TypeParts DEF WalInv, TypeInv
<1>2. \A b \in Base : b \in Nat
  BY WalBoundAssumption DEF Base
<1>3. ASSUME NEW i \in 1..Len(segments)
      PROVE  segments[i] \in SegmentType /\ segments[i].base \in Nat /\ segments[i].base \in Base
  <2>1. segments[i] \in SegmentType
    BY <1>1, ElementOfSeq
  <2>2. segments[i].base \in Base
    BY <2>1 DEF SegmentType
  <2> QED BY <1>2, <2>1, <2>2
<1>4. Len(segments) \in Nat /\ Len(records) \in Nat
  BY <1>1, LenProperties
<1> QED BY <1>1, <1>2, <1>3, <1>4

(* The active segment is the last of the files.                            *)
LEMMA ActiveIsLast ==
  ASSUME WalInv, isOpen
  PROVE  /\ active \in 1..Len(segments) /\ active = Len(segments) /\ nextOffset = Len(records)
         /\ segments[active] \in SegmentType
         /\ segments[active].base \in files /\ segments[active].base \in Base
         /\ \A b \in files : b <= segments[active].base
<1>1. /\ active = Len(segments) /\ active # 0 /\ nextOffset = Len(records) /\ Len(segments) \in Nat
      /\ \A i \in 1..Len(segments) : segments[i].base \in files
      /\ \A b \in files : \E i \in 1..Len(segments) : segments[i].base = b
      /\ \A i, j \in 1..Len(segments) : i < j => segments[i].base <= segments[j].base
  BY WalInvTypes DEF WalInv, SegmentsOK
<1>2. active \in 1..Len(segments)
  BY <1>1
<1>3. ASSUME NEW b \in files PROVE b <= segments[active].base
  <2>1. PICK i \in 1..Len(segments) : segments[i].base = b
    BY <1>1
  <2>2. i < active \/ i = active
    BY <1>1
  <2>3. b \in Nat
    BY WalInvTypes
  <2> QED BY <1>1, <1>2, <2>1, <2>2, <2>3
<1> QED BY <1>1, <1>2, <1>3, WalInvTypes

(* The offsets of a segment.                                               *)
LEMMA FileBounds ==
  ASSUME WalInv, NEW b \in files, NEW u, NEW p, FileAt(b, u, p)
  PROVE  /\ b \in Nat /\ u \in Nat /\ b <= u /\ u <= Len(records)
         /\ (\A c \in files : c <= b) => u = Len(records)
         /\ \A c \in files : b < c => u \in files /\ u <= c /\ u <= synced
<1>1. Layout(records, p, b, u) /\ Ends(files, Len(records), b, u)
  BY DEF FileAt, Readable
<1>2. b \in Nat /\ u \in Nat /\ b <= u
  BY <1>1, LayoutTypes
<1>3. u <= Len(records)
  BY <1>1, <1>2, WalInvTypes DEF Layout
<1>4. (\A c \in files : c <= b) => u = Len(records)
  BY <1>1, <1>2 DEF Ends
<1>5. ASSUME NEW c \in files, b < c PROVE u \in files /\ u <= c /\ u <= synced
  <2>1. c \in Nat /\ ~(c <= b)
    BY <1>2, <1>5, WalInvTypes
  <2>2. u \in files /\ u <= c
    BY <1>1, <1>5, <2>1 DEF Ends
  <2>3. u <= synced
    BY <2>2 DEF WalInv, RecordsOK
  <2> QED BY <2>2, <2>3
<1> QED BY <1>2, <1>3, <1>4, <1>5

(* A flush of the active segment leaves nothing to be flushed: the other    *)
(* segments were flushed when they were full.                              *)
LEMMA FlushKeeps ==
  ASSUME WalInv, isOpen, ~hadOutage, FlushActive, NEW b \in files, NEW u, NEW p, FileAt(b, u, p), NEW n
  PROVE  Sound(records, b, u, p, mem[b], indexMem[b], disk'[b], indexDisk'[b], n)
<1>1. PICK base : base = segments[active].base
  OBVIOUS
<1>2. /\ base \in Base /\ base \in files /\ b \in Base /\ b <= base
      /\ disk \in LogFiles /\ indexDisk \in IndexFiles
  BY <1>1, ActiveIsLast, WalInvTypes
<1>3. /\ disk' = [disk EXCEPT ![base] = mem[base]]
      /\ indexDisk' = [indexDisk EXCEPT ![base] = indexMem[base]]
  BY <1>1 DEF FlushActive
<1>4. Sound(records, b, u, p, mem[b], indexMem[b], disk[b], indexDisk[b], synced)
  BY DEF FileAt
<1>5. CASE b = base
  <2>1. disk'[b] = mem[b] /\ indexDisk'[b] = indexMem[b]
    BY <1>2, <1>3, <1>5 DEF LogFiles, IndexFiles
  <2> QED BY <1>4, <2>1, FileFlushes
<1>6. CASE b # base
  <2>1. disk'[b] = disk[b] /\ indexDisk'[b] = indexDisk[b]
    BY <1>2, <1>3, <1>6 DEF LogFiles, IndexFiles
  <2>2. b \in Nat /\ base \in Nat
    BY <1>2, WalInvTypes
  <2>3. b \in Nat /\ u \in Nat /\ u <= synced /\ synced \in Nat
    BY <1>2, <1>6, <2>2, FileBounds, WalInvTypes
  <2> QED BY <1>4, <2>1, <2>3, FileSynced
<1> QED BY <1>5, <1>6

\* The segment at B is the last one, and takes the next record.
TargetAt(B, p, ld, id, n) ==
  /\ B \in Base /\ (\A c \in files : c <= B) /\ (B \in files \/ B = Len(records))
  /\ Readable(records, B, Len(records), p, mem[B], indexMem[B])
  /\ Sound(records, B, Len(records), p, mem[B], indexMem[B], ld, id, n)

\* The other segments keep their contents, and what is to be flushed is.
OthersKeep(B) ==
  /\ \A b \in Base : b # B => mem'[b] = mem[b] /\ indexMem'[b] = indexMem[b]
  /\ \/ UNCHANGED <<disk, indexDisk, synced>>
     \/ FlushActive /\ synced' = nextOffset

(* A step that changes the last segment keeps the others.                  *)
LEMMA FilesStep ==
  ASSUME WalInv, isOpen, ~hadOutage, ~hadOutage', NEW B, OthersKeep(B), files' = files \cup {B},
         \A c \in files : c <= B, B \in files \/ B = Len(records), B \in Nat,
         Agree(records, records', Len(records)), records' \in Seq(Payload),
         \E p : /\ Readable(records', B, Len(records'), p, mem'[B], indexMem'[B])
                /\ Sound(records', B, Len(records'), p, mem'[B], indexMem'[B], disk'[B], indexDisk'[B], synced')
  PROVE  FilesOK'
<1>1. ASSUME NEW b \in files, b # B, NEW u, NEW p, FileAt(b, u, p)
      PROVE  FileAt(b, u, p)'
  <2>1. /\ b \in Nat /\ u \in Nat /\ u <= Len(records) /\ b \in Base
        /\ (\A c \in files : c <= b) => u = Len(records)
        /\ \A c \in files : b < c => u \in files /\ u <= c /\ u <= synced
    BY <1>1, FileBounds, WalInvTypes
  <2>2. b < B
    BY <1>1, <2>1
  <2>3. Ends(files', Len(records'), b, u)
    <3>1. Ends(files, Len(records), b, u)
      BY <1>1 DEF FileAt
    <3>2. CASE B \in files
      <4>1. u \in files /\ b < u /\ \A c \in files : b < c => u <= c
        BY <2>1, <2>2, <3>1, <3>2 DEF Ends
      <4> QED BY <3>2, <4>1 DEF Ends
    <3>3. CASE B \notin files /\ u = Len(records) /\ \A c \in files : c <= b
      <4>1. u \in files' /\ b < u
        BY <2>2, <3>3
      <4>2. \A c \in files' : b < c => u <= c
        <5>1. \A c \in files : c \in Nat
          BY WalInvTypes
        <5> QED BY <2>1, <3>3, <5>1
      <4> QED BY <4>1, <4>2 DEF Ends
    <3>4. CASE u \in files /\ b < u /\ \A c \in files : b < c => u <= c
      BY <3>4 DEF Ends
    <3> QED BY <3>1, <3>2, <3>3, <3>4 DEF Ends
  <2>4. mem'[b] = mem[b] /\ indexMem'[b] = indexMem[b]
    BY <1>1, <2>1 DEF OthersKeep
  <2>5. Sound(records, b, u, p, mem[b], indexMem[b], disk'[b], indexDisk'[b], synced')
    <3>1. CASE UNCHANGED <<disk, indexDisk, synced>>
      BY <1>1, <3>1 DEF FileAt
    <3>2. CASE FlushActive /\ synced' = nextOffset
      BY <1>1, <3>2, FlushKeeps
    <3> QED BY <3>1, <3>2 DEF OthersKeep
  <2>6. Agree(records, records', u)
    <3>1. u <= Len(records') /\ \A i \in 1..u : i \in 1..Len(records)
      <4>1. Len(records) \in Nat /\ Len(records') \in Nat /\ Len(records) <= Len(records')
        BY WalInvTypes, LenProperties DEF Agree
      <4> QED BY <2>1, <4>1
    <3> QED BY <3>1 DEF Agree
  <2>7. Readable(records, b, u, p, mem[b], indexMem[b]) /\ Layout(records, p, b, u)
    BY <1>1 DEF FileAt, Readable
  <2>8. /\ Readable(records', b, u, p, mem[b], indexMem[b])
        /\ Sound(records', b, u, p, mem[b], indexMem[b], disk'[b], indexDisk'[b], synced')
    BY <2>5, <2>6, <2>7, FileAgrees
  <2> QED BY <2>3, <2>4, <2>8 DEF FileAt
<1>2. \E u, p : FileAt(B, u, p)'
  <2>1. PICK p : /\ Readable(records', B, Len(records'), p, mem'[B], indexMem'[B])
                 /\ Sound(records', B, Len(records'), p, mem'[B], indexMem'[B], disk'[B], indexDisk'[B], synced')
    OBVIOUS
  <2>2. Ends(files', Len(records'), B, Len(records'))
    BY DEF Ends
  <2>3. FileAt(B, Len(records), p)'
    BY <2>1, <2>2 DEF FileAt
  <2> QED BY <2>3
<1>3. \A b \in files : \E u, p : FileAt(b, u, p)
  BY DEF WalInv, FilesOK
<1>4. ASSUME NEW b \in files' PROVE \E u, p : FileAt(b, u, p)'
  BY <1>1, <1>2, <1>3
<1> QED BY <1>4 DEF FilesOK

(* The files of a new segment hold no record.                              *)
LEMMA FreshFile ==
  ASSUME NEW s \in Seq(Payload), NEW b \in Nat, b = Len(s), NEW n
  PROVE  \E p : /\ Readable(s, b, b, p, EmptyLog, EmptyIndex)
                /\ Sound(s, b, b, p, EmptyLog, EmptyIndex, EmptyLog, EmptyIndex, n)
<1>1. PICK p : p = [i \in Nat |-> 0]
  OBVIOUS
<1>2. MaxSegmentBytes \in Nat /\ 0 \in 0..MaxSegmentBytes
  BY SegmentAssumption
<1>3. \A x \in Position : EmptyLog[x] = Zero
  BY DEF EmptyLog
<1>4. \A e \in 0 .. MaxEntries - 1 : EmptyIndex[e].pos = 0
  BY DEF EmptyIndex, NoEntry
<1>5. /\ p \in [Nat -> Nat] /\ p[b] = 0 /\ b .. b - 1 = {} /\ b \in b..Len(s)
      /\ \A o \in b..b : o = b
  BY <1>1
<1>6. Layout(s, p, b, b)
  <2>1. \A o, q \in b..b : ~(o < q)
    BY <1>5
  <2> QED BY <1>2, <1>5, <2>1 DEF Layout
<1>7. Laid(s, EmptyLog, p, b, b)
  <2>1. ~Decodes(EmptyLog, 0, MaxSegmentBytes)
    <3>1. 0 + 2 <= MaxSegmentBytes => 0 \in Position
      BY <1>2 DEF Position
    <3>2. Zero # Magic
      BY DEF Zero, Magic
    <3> QED BY <1>3, <3>1, <3>2 DEF Decodes, HeaderSize
  <2> QED BY <1>5, <2>1 DEF Laid
<1>8. Genuine(s, EmptyLog, p, b, b)
  <2>1. \A x \in Position : EmptyLog[x].kind = "zero"
    BY <1>3 DEF Zero
  <2> QED BY <2>1 DEF Genuine, CellOK
<1>9. HeadersWhole(EmptyLog)
  BY <1>3 DEF HeadersWhole, Zero, Magic
<1>10. /\ Leads(EmptyIndex, p, b, MaxEntries) /\ LeadsWithin(EmptyIndex, p, b, b)
       /\ Flushed(p, b, b, EmptyLog, EmptyLog, n)
  BY <1>4 DEF Leads, LeadsWithin, Flushed
<1> QED BY <1>6, <1>7, <1>8, <1>9, <1>10 DEF Readable, Sound

\* Behind its entries, the index of a segment is empty.
FreeSlots(seg) ==
  \A e \in 0 .. MaxEntries - 1 : e >= seg.entries => indexMem[seg.base][e].pos = 0

TargetSegment(seg, p, ld, id, n) ==
  /\ TargetAt(seg.base, p, ld, id, n)
  /\ seg.writePos = p[Len(records)] /\ seg.next = Len(records)
  /\ FreeSlots(seg)

(* What recovery finds in the last segment is where the next record goes.  *)
LEMMA TargetRecovers ==
  ASSUME WalInv, NEW B \in Base, NEW p, Readable(records, B, Len(records), p, mem[B], indexMem[B])
  PROVE  Recovered(B, mem[B]) = [end |-> p[Len(records)], next |-> Len(records)]
<1>1. mem[B] \in [Position -> Cell]
  BY WalInvTypes DEF LogFiles
<1>2. PICK u, c : u = Len(records) /\ c = mem[B]
  OBVIOUS
<1>3. Layout(records, p, B, u) /\ Laid(records, c, p, B, u)
  BY <1>2 DEF Readable
<1>4. Recovered(B, c) = [end |-> p[u], next |-> u]
  BY <1>1, <1>2, <1>3, RecoveredIs
<1> QED BY <1>2, <1>4

(* The active segment takes the next record.                               *)
LEMMA ActiveTarget ==
  ASSUME WalInv, isOpen, ~hadOutage
  PROVE  \E p : TargetSegment(segments[active], p, disk[segments[active].base],
                              indexDisk[segments[active].base], synced)
<1>1. PICK seg, B : seg = segments[active] /\ B = seg.base
  OBVIOUS
<1>2. /\ B \in files /\ B \in Base /\ (\A b \in files : b <= B) /\ active \in 1..Len(segments)
      /\ active = Len(segments)
  BY <1>1, ActiveIsLast
<1>3. PICK u, p : FileAt(B, u, p)
  BY <1>2 DEF WalInv, FilesOK
<1>4. u = Len(records)
  BY <1>2, <1>3, FileBounds
<1>5. /\ Readable(records, B, Len(records), p, mem[B], indexMem[B])
      /\ Sound(records, B, Len(records), p, mem[B], indexMem[B], disk[B], indexDisk[B], synced)
  BY <1>3, <1>4 DEF FileAt
<1>6. TargetAt(B, p, disk[B], indexDisk[B], synced)
  BY <1>2, <1>5 DEF TargetAt
<1>7. Recovered(B, mem[B]) = [end |-> p[Len(records)], next |-> Len(records)]
  BY <1>2, <1>5, TargetRecovers
<1>8. Current(active)
  <2>1. active + 1 .. Len(segments) = {}
    BY <1>2, WalInvTypes
  <2> QED BY <2>1 DEF Current
<1>9. Recovered(B, mem[B]) = [end |-> seg.writePos, next |-> seg.next]
  BY <1>1, <1>2, <1>8 DEF WalInv, ObjectsOK
<1>10. seg.writePos = p[Len(records)] /\ seg.next = Len(records)
  BY <1>7, <1>9
<1>11. FreeSlots(seg)
  BY <1>1 DEF WalInv, SlotsFree, FreeSlots
<1>12. TargetSegment(seg, p, disk[B], indexDisk[B], synced)
  BY <1>1, <1>6, <1>10, <1>11 DEF TargetSegment
<1> QED BY <1>1, <1>12

(* So does the segment a roll makes, or finds empty.                       *)
LEMMA RolledTarget ==
  ASSUME WalInv, isOpen, ~hadOutage, nextOffset \in Base, FlushActive
  PROVE  /\ Rolled.base = nextOffset
         /\ \E p : TargetSegment(Rolled, p, disk'[nextOffset], indexDisk'[nextOffset], nextOffset)
<1>1. PICK n : n = nextOffset
  OBVIOUS
<1>2. /\ n = Len(records) /\ n \in Nat /\ n \in Base /\ records \in Seq(Payload)
      /\ disk \in LogFiles /\ indexDisk \in IndexFiles
  BY <1>1, ActiveIsLast, WalInvTypes
<1>3. \A c \in files : c <= n
  <2>1. \A c \in files : c <= synced /\ c \in Nat
    BY WalInvTypes DEF WalInv, RecordsOK
  <2>2. synced <= n /\ synced \in Nat
    BY <1>2, WalInvTypes DEF WalInv, RecordsOK
  <2> QED BY <1>2, <2>1, <2>2
<1>4. \E p : /\ Readable(records, n, Len(records), p, mem[n], indexMem[n])
             /\ Sound(records, n, Len(records), p, mem[n], indexMem[n], disk'[n], indexDisk'[n], n)
  <2>1. CASE n \in files
    <3>1. PICK u, p : FileAt(n, u, p)
      BY <2>1 DEF WalInv, FilesOK
    <3>2. u = Len(records)
      BY <1>3, <2>1, <3>1, FileBounds
    <3>3. Readable(records, n, u, p, mem[n], indexMem[n])
      BY <3>1 DEF FileAt
    <3>4. Sound(records, n, u, p, mem[n], indexMem[n], disk'[n], indexDisk'[n], n)
      BY <2>1, <3>1, FlushKeeps
    <3> QED BY <3>2, <3>3, <3>4
  <2>2. CASE n \notin files
    <3>1. /\ mem[n] = EmptyLog /\ disk[n] = EmptyLog
          /\ indexMem[n] = EmptyIndex /\ indexDisk[n] = EmptyIndex
      BY <1>2, <2>2 DEF WalInv, OutageOK
    <3>2. segments[active].base # n
      BY <2>2, ActiveIsLast
    <3>3. disk'[n] = EmptyLog /\ indexDisk'[n] = EmptyIndex
      BY <1>2, <3>1, <3>2 DEF FlushActive, LogFiles, IndexFiles
    <3>4. \E p : /\ Readable(records, n, n, p, EmptyLog, EmptyIndex)
                 /\ Sound(records, n, n, p, EmptyLog, EmptyIndex, EmptyLog, EmptyIndex, n)
      BY <1>2, FreshFile
    <3> QED BY <1>2, <3>1, <3>3, <3>4
  <2> QED BY <2>1, <2>2
<1>5. PICK p : /\ Readable(records, n, Len(records), p, mem[n], indexMem[n])
               /\ Sound(records, n, Len(records), p, mem[n], indexMem[n], disk'[n], indexDisk'[n], n)
  BY <1>4
<1>6. PICK seg : seg = Rolled
  OBVIOUS
<1>7. /\ seg.base = n /\ seg.writePos = Recovered(n, mem[n]).end /\ seg.next = Recovered(n, mem[n]).next
      /\ seg.entries = EntryCount(n \notin files)
  BY <1>1, <1>6 DEF Rolled, NewSegment
<1>8. seg.writePos = p[Len(records)] /\ seg.next = Len(records)
  <2>1. n \in Base /\ Readable(records, n, Len(records), p, mem[n], indexMem[n])
    BY <1>2, <1>5
  <2>2. Recovered(n, mem[n]) = [end |-> p[Len(records)], next |-> Len(records)]
    BY <2>1, TargetRecovers
  <2> QED BY <1>7, <2>2
<1>9. TargetAt(n, p, disk'[n], indexDisk'[n], n)
  BY <1>2, <1>3, <1>5 DEF TargetAt
<1>10. FreeSlots(seg)
  <2>1. CASE n \in files
    <3>1. seg.entries = MaxEntries
      BY <1>7, <2>1 DEF EntryCount
    <3>2. \A e \in 0 .. MaxEntries - 1 : ~(e >= MaxEntries)
      BY EntriesAssumption
    <3> QED BY <3>1, <3>2 DEF FreeSlots
  <2>2. CASE n \notin files
    <3>1. indexMem[n] = EmptyIndex
      BY <1>2, <2>2 DEF WalInv, OutageOK
    <3> QED BY <1>7, <3>1 DEF FreeSlots, EmptyIndex, NoEntry
  <2> QED BY <2>1, <2>2
<1>11. TargetSegment(seg, p, disk'[n], indexDisk'[n], n)
  BY <1>7, <1>8, <1>9, <1>10 DEF TargetSegment
<1> QED BY <1>1, <1>6, <1>7, <1>11

(* Writing nothing changes nothing.                                        *)
LEMMA PutNothing ==
  ASSUME NEW c \in [Position -> Cell], NEW q \in Nat, NEW o, NEW d
  PROVE  Put(c, q, o, d, 0) = c
<1>1. q .. q + 0 - 1 = {}
  OBVIOUS
<1> QED BY <1>1 DEF Put

(* What an append may leave in the index is a step of it.                  *)
LEMMA IndexSteps ==
  ASSUME WalInv, NEW seg \in SegmentType, NEW p, FreeSlots(seg), seg.writePos = p[Len(records)],
         nextOffset = Len(records), NEW d, NEW im2,
         im2 = indexMem[seg.base] \/ im2 = IndexTorn(seg) \/ im2 = IndexWritten(seg, d)
  PROVE  IndexStep(indexMem[seg.base], im2, p, seg.base, Len(records))
<1>1. PICK im, e : im = indexMem[seg.base] /\ e = seg.entries
  OBVIOUS
<1>2. im \in [0 .. MaxEntries - 1 -> IndexEntry]
  BY <1>1, WalInvTypes DEF SegmentType, IndexFiles
<1>3. CASE im2 = im
  BY <1>1, <1>3 DEF IndexStep
<1>4. CASE Indexed(seg)
  <2>1. e \in 0 .. MaxEntries - 1
    <3>1. e \in 0..MaxEntries /\ MaxEntries \in Nat
      BY <1>1, EntriesAssumption DEF SegmentType
    <3>2. ~(e >= MaxEntries)
      BY <1>1, <1>4 DEF Indexed, IndexFull
    <3> QED BY <3>1, <3>2
  <2>2. CASE im2 = IndexTorn(seg)
    <3>1. im2 = [im EXCEPT ![e].rel = nextOffset - seg.base]
      BY <1>1, <1>4, <2>2 DEF IndexTorn
    <3>2. im[e].pos = 0
      <4>1. e >= seg.entries
        BY <1>1, <2>1
      <4> QED BY <1>1, <2>1, <4>1 DEF FreeSlots
    <3>3. im[e] \in IndexEntry
      BY <1>2, <2>1
    <3>4. im2[e].pos = 0
      BY <1>2, <2>1, <3>1, <3>2, <3>3 DEF IndexEntry
    <3>5. \A i \in 0 .. MaxEntries - 1 : i # e => im2[i] = im[i]
      BY <1>2, <2>1, <3>1
    <3> QED BY <1>1, <3>4, <3>5 DEF IndexStep
  <2>3. CASE im2 = IndexWritten(seg, d)
    <3>1. im2 = [im EXCEPT ![e] = [rel |-> nextOffset - seg.base, pos |-> seg.writePos]]
      BY <1>1, <1>4, <2>3 DEF IndexWritten, WithEntry, IndexPos
    <3>2. im2[e] = [rel |-> nextOffset - seg.base, pos |-> seg.writePos]
      BY <1>2, <2>1, <3>1
    <3>3. im2[e].rel = Len(records) - seg.base /\ im2[e].pos = p[Len(records)]
      BY <3>2
    <3>4. \A i \in 0 .. MaxEntries - 1 : i # e => im2[i] = im[i]
      BY <1>2, <2>1, <3>1
    <3> QED BY <1>1, <3>3, <3>4 DEF IndexStep
  <2> QED BY <1>1, <1>3, <2>2, <2>3
<1>5. CASE ~Indexed(seg)
  BY <1>1, <1>3, <1>5 DEF IndexTorn, IndexWritten
<1> QED BY <1>4, <1>5

\* The records after an append of d of which the first k cells were written.
RecordsWith(d, k) == IF k = FrameLen(d) THEN Append(records, d) ELSE records

(* The last segment takes a record, or a piece of its frame.               *)
LEMMA TargetTakes ==
  ASSUME WalInv, NEW seg \in SegmentType, NEW p, NEW ld, NEW id \in [0 .. MaxEntries - 1 -> IndexEntry],
         NEW n \in Nat, n <= Len(records), TargetSegment(seg, p, ld, id, n),
         nextOffset = Len(records), NEW d \in Payload, Writable(seg, d),
         NEW k \in 0..FrameLen(d), k # 1, NEW im2 \in [0 .. MaxEntries - 1 -> IndexEntry],
         im2 = indexMem[seg.base] \/ im2 = IndexTorn(seg) \/ im2 = IndexWritten(seg, d),
         NEW r, r = RecordsWith(d, k)
  PROVE  /\ \E q : /\ Readable(r, seg.base, Len(r), q, Written(seg, d, k), im2)
                   /\ Sound(r, seg.base, Len(r), q, Written(seg, d, k), im2, ld, id, n)
         /\ Agree(records, r, Len(records)) /\ r \in Seq(Payload)
         /\ k = FrameLen(d) => Recovered(seg.base, Written(seg, d, k))
                                = [end |-> seg.writePos + FrameLen(d), next |-> nextOffset + 1]
<1>1. PICK B, u, s, lm, im : B = seg.base /\ u = Len(records) /\ s = records /\ lm = mem[B] /\ im = indexMem[B]
  OBVIOUS
<1>2. /\ Readable(s, B, u, p, lm, im) /\ Sound(s, B, u, p, lm, im, ld, id, n) /\ B \in Base
  BY <1>1 DEF TargetSegment, TargetAt
<1>3. /\ seg.writePos = p[u] /\ FreeSlots(seg)
  BY <1>1 DEF TargetSegment
<1>4. lm \in [Position -> Cell] /\ u \in Nat /\ s \in Seq(Payload)
  BY <1>1, <1>2, WalInvTypes DEF LogFiles
<1>5. Room(p, u, d, k)
  BY <1>3 DEF Room, Writable, Fits
<1>6. IndexStep(im, im2, p, B, u)
  <2>1. seg.writePos = p[Len(records)]
    BY <1>1, <1>3
  <2> QED BY <1>1, <1>3, <2>1, IndexSteps
<1>7. Written(seg, d, k) = Put(lm, p[u], u, d, k)
  BY <1>1, <1>3 DEF Written, Put
<1>8. n <= u /\ AtEnd(s, u)
  BY <1>1 DEF AtEnd
<1>9. CASE k = FrameLen(d)
  <2>1. r = Append(s, d)
    BY <1>1, <1>9 DEF RecordsWith
  <2>2. r \in Seq(Payload) /\ Len(r) = u + 1 /\ \A i \in 1..u : r[i] = s[i]
    BY <1>1, <1>4, <2>1, AppendProperties
  <2>3. /\ Readable(r, B, u + 1, Further(p, u, d), Put(lm, p[u], u, d, k), im2)
        /\ Sound(r, B, u + 1, Further(p, u, d), Put(lm, p[u], u, d, k), im2, ld, id, n)
    BY <1>2, <1>4, <1>5, <1>6, <1>8, <1>9, <2>1, FileTakes
  <2>4. Agree(s, r, u)
    <3>1. u <= u + 1
      BY <1>4
    <3> QED BY <2>2, <3>1 DEF Agree
  <2>5. Recovered(B, Put(lm, p[u], u, d, k)) = [end |-> p[u] + FrameLen(d), next |-> u + 1]
    <3>1. Put(lm, p[u], u, d, k) \in [Position -> Cell]
      BY <1>2, <1>4, <1>5, PutCells DEF PutShape, Readable
    <3>2. Layout(r, Further(p, u, d), B, u + 1) /\ Laid(r, Put(lm, p[u], u, d, k), Further(p, u, d), B, u + 1)
      BY <2>3 DEF Readable
    <3>3. Further(p, u, d)[u + 1] = p[u] + FrameLen(d)
      BY <1>2, <1>5, <1>8, LayoutGrows DEF Longer, Readable, Room
    <3> QED BY <3>1, <3>2, <3>3, RecoveredIs
  <2> QED BY <1>1, <1>3, <1>7, <2>2, <2>3, <2>4, <2>5
<1>10. CASE k # FrameLen(d)
  <2>1. r = s
    BY <1>1, <1>10 DEF RecordsWith
  <2>2. k < FrameLen(d)
    <3>1. FrameLen(d) \in Nat
      BY <1>4, FrameCells
    <3> QED BY <1>10, <3>1
  <2>3. /\ Readable(s, B, u, p, Put(lm, p[u], u, d, k), im2)
        /\ Sound(s, B, u, p, Put(lm, p[u], u, d, k), im2, ld, id, n)
    BY <1>2, <1>4, <1>5, <1>6, <1>8, <2>2, FileTakes
  <2>4. Agree(s, s, u)
    <3>1. u <= u
      BY <1>4
    <3> QED BY <1>1, <1>4, <3>1 DEF Agree
  <2> QED BY <1>1, <1>4, <1>7, <1>10, <2>1, <2>3, <2>4
<1> QED BY <1>9, <1>10

\* What the invariant says of the files.
StoreOK == FilesOK /\ RecordsOK /\ OutageOK

(* A step that changes the last segment keeps what is said of the files.   *)
LEMMA StoreStep ==
  ASSUME WalInv, isOpen, ~hadOutage, UNCHANGED hadOutage, NEW B, OthersKeep(B), files' = files \cup {B},
         \A c \in files : c <= B, B \in Base,
         B \in files \/ (B = Len(records) /\ FlushActive /\ synced' = nextOffset),
         Agree(records, records', Len(records)), records' \in Seq(Payload),
         \E p : /\ Readable(records', B, Len(records'), p, mem'[B], indexMem'[B])
                /\ Sound(records', B, Len(records'), p, mem'[B], indexMem'[B], disk'[B], indexDisk'[B], synced')
  PROVE  StoreOK'
<1>1. B \in Nat /\ ~hadOutage' /\ (B \in files \/ B = Len(records))
  BY WalBoundAssumption DEF Base
<1>2. FilesOK'
  BY <1>1, FilesStep
<1>3. /\ nextOffset = Len(records) /\ segments[active].base \in files
      /\ Len(records) \in Nat /\ Len(records') \in Nat /\ Len(records) <= Len(records')
      /\ synced \in Nat /\ synced <= Len(records) /\ \A b \in files : b <= synced /\ b \in Nat
      /\ 0 \in files
  <2>1. files # {}
    BY ActiveIsLast
  <2> QED BY <2>1, ActiveIsLast, WalInvTypes, LenProperties DEF WalInv, RecordsOK, Agree
<1>4. RecordsOK'
  <2>1. CASE UNCHANGED <<disk, indexDisk, synced>> /\ B \in files
    <3>1. files' = files /\ synced' = synced
      BY <2>1
    <3> QED BY <1>3, <3>1 DEF RecordsOK
  <2>2. CASE FlushActive /\ synced' = nextOffset
    <3>1. \A b \in files : b <= Len(records)
      BY <1>3
    <3>2. B <= Len(records)
      BY <1>1, <1>3, <3>1
    <3> QED BY <1>3, <2>2, <3>1, <3>2 DEF RecordsOK
  <2> QED BY <2>1, <2>2 DEF OthersKeep
<1>5. OutageOK'
  <2> SUFFICES ASSUME NEW b \in Base \ files'
               PROVE  /\ mem'[b] = EmptyLog /\ disk'[b] = EmptyLog
                      /\ indexMem'[b] = EmptyIndex /\ indexDisk'[b] = EmptyIndex
    BY <1>1 DEF OutageOK
  <2>1. b \in Base \ files /\ b # B
    OBVIOUS
  <2>2. /\ mem[b] = EmptyLog /\ disk[b] = EmptyLog
        /\ indexMem[b] = EmptyIndex /\ indexDisk[b] = EmptyIndex
    BY <2>1 DEF WalInv, OutageOK
  <2>3. mem'[b] = mem[b] /\ indexMem'[b] = indexMem[b]
    BY <2>1 DEF OthersKeep
  <2>4. disk'[b] = disk[b] /\ indexDisk'[b] = indexDisk[b]
    <3>1. CASE FlushActive
      <4>1. disk \in LogFiles /\ indexDisk \in IndexFiles /\ b # segments[active].base
        BY <1>3, <2>1, WalInvTypes
      <4> QED BY <2>1, <3>1, <4>1 DEF FlushActive, LogFiles, IndexFiles
    <3> QED BY <3>1 DEF OthersKeep
  <2> QED BY <2>2, <2>3, <2>4
<1> QED BY <1>2, <1>4, <1>5 DEF StoreOK

(* Append, whole or killed, to the active segment or to one just rolled.   *)
LEMMA AppendKeepsStore ==
  ASSUME WalInv, isOpen, ~hadOutage, UNCHANGED hadOutage, nextOffset \in Base,
         NEW d \in Payload, NEW seg \in SegmentType, Writable(seg, d),
         NEW k \in 0..FrameLen(d), k # 1, NEW im2,
         im2 = indexMem[seg.base] \/ im2 = IndexTorn(seg) \/ im2 = IndexWritten(seg, d),
         mem' = [mem EXCEPT ![seg.base] = Written(seg, d, k)],
         indexMem' = [indexMem EXCEPT ![seg.base] = im2],
         mem' \in LogFiles, indexMem' \in IndexFiles,
         records' = RecordsWith(d, k), files' = files \cup {seg.base},
         \/ seg = segments[active] /\ UNCHANGED <<disk, indexDisk, synced>>
         \/ seg = Rolled /\ FlushActive /\ synced' = nextOffset
  PROVE  /\ StoreOK' /\ seg.base \in files'
         /\ k = FrameLen(d) => Recovered(seg.base, mem'[seg.base])
                                = [end |-> seg.writePos + FrameLen(d), next |-> nextOffset + 1]
<1>1. PICK B : B = seg.base
  OBVIOUS
<1>2. /\ B \in Base /\ mem \in LogFiles /\ indexMem \in IndexFiles /\ disk \in LogFiles
      /\ indexDisk \in IndexFiles /\ nextOffset = Len(records) /\ nextOffset \in Nat
      /\ synced \in Nat /\ synced <= Len(records)
  BY <1>1, WalInvTypes, ActiveIsLast DEF SegmentType, WalInv, RecordsOK
<1>3. /\ mem'[B] = Written(seg, d, k) /\ indexMem'[B] = im2
      /\ \A b \in Base : b # B => mem'[b] = mem[b] /\ indexMem'[b] = indexMem[b]
  BY <1>1, <1>2 DEF LogFiles, IndexFiles
<1>4. im2 \in [0 .. MaxEntries - 1 -> IndexEntry]
  BY <1>2, <1>3 DEF IndexFiles
<1>5. OthersKeep(B)
  BY <1>3 DEF OthersKeep
<1>6. CASE seg = segments[active] /\ UNCHANGED <<disk, indexDisk, synced>>
  <2>1. PICK p : TargetSegment(seg, p, disk[B], indexDisk[B], synced)
    BY <1>1, <1>6, ActiveTarget
  <2>2. indexDisk[B] \in [0 .. MaxEntries - 1 -> IndexEntry]
    BY <1>2 DEF IndexFiles
  <2>3. PICK r : r = RecordsWith(d, k)
    OBVIOUS
  <2>4. /\ \E q : /\ Readable(r, B, Len(r), q, Written(seg, d, k), im2)
                  /\ Sound(r, B, Len(r), q, Written(seg, d, k), im2, disk[B], indexDisk[B], synced)
        /\ Agree(records, r, Len(records)) /\ r \in Seq(Payload)
        /\ k = FrameLen(d) => Recovered(B, Written(seg, d, k))
                               = [end |-> seg.writePos + FrameLen(d), next |-> nextOffset + 1]
    BY <1>1, <1>2, <1>4, <2>1, <2>2, <2>3, TargetTakes
  <2>5. B \in files /\ \A c \in files : c <= B
    BY <1>1, <1>6, ActiveIsLast
  <2>6. disk'[B] = disk[B] /\ indexDisk'[B] = indexDisk[B] /\ synced' = synced
    BY <1>6
  <2>7. r = records'
    BY <2>3
  <2> QED BY <1>1, <1>2, <1>3, <1>5, <2>4, <2>5, <2>6, <2>7, StoreStep
<1>7. CASE seg = Rolled /\ FlushActive /\ synced' = nextOffset
  <2>1. B = nextOffset /\ \E p : TargetSegment(seg, p, disk'[B], indexDisk'[B], nextOffset)
    BY <1>1, <1>7, RolledTarget
  <2>2. PICK p : TargetSegment(seg, p, disk'[B], indexDisk'[B], nextOffset)
    BY <2>1
  <2>3. indexDisk'[B] \in [0 .. MaxEntries - 1 -> IndexEntry]
    <3>1. indexDisk' \in IndexFiles
      BY <1>7, FlushTyped DEF WalInv
    <3> QED BY <1>2, <3>1 DEF IndexFiles
  <2>4. PICK r : r = RecordsWith(d, k)
    OBVIOUS
  <2>5. nextOffset <= Len(records)
    BY <1>2
  <2>6. /\ \E q : /\ Readable(r, B, Len(r), q, Written(seg, d, k), im2)
                  /\ Sound(r, B, Len(r), q, Written(seg, d, k), im2, disk'[B], indexDisk'[B], nextOffset)
        /\ Agree(records, r, Len(records)) /\ r \in Seq(Payload)
        /\ k = FrameLen(d) => Recovered(B, Written(seg, d, k))
                               = [end |-> seg.writePos + FrameLen(d), next |-> nextOffset + 1]
    BY <1>1, <1>2, <1>4, <2>2, <2>3, <2>4, <2>5, TargetTakes
  <2>7. \A c \in files : c <= B
    BY <1>1, <2>2 DEF TargetSegment, TargetAt
  <2>8. r = records'
    BY <2>4
  <2> QED BY <1>1, <1>2, <1>3, <1>5, <1>7, <2>1, <2>6, <2>7, <2>8, StoreStep
<1> QED BY <1>6, <1>7

(* Syncing, and a roll that takes no record.                               *)
LEMMA FlushKeepsStore ==
  ASSUME WalInv, isOpen, ~hadOutage, FlushActive, synced' = nextOffset,
         UNCHANGED <<mem, indexMem, records, hadOutage>>,
         files' = files \/ (files' = files \cup {nextOffset} /\ nextOffset \in Base)
  PROVE  StoreOK'
<1>1. nextOffset = Len(records) /\ Len(records) \in Nat /\ records \in Seq(Payload)
  BY ActiveIsLast, WalInvTypes
<1>2. Agree(records, records', Len(records))
  BY <1>1 DEF Agree
<1>3. \A B : OthersKeep(B)
  BY DEF OthersKeep
<1>4. CASE files' = files
  <2>1. PICK B : B = segments[active].base
    OBVIOUS
  <2>2. B \in files /\ B \in Base /\ \A c \in files : c <= B
    BY <2>1, ActiveIsLast
  <2>3. PICK u, p : FileAt(B, u, p)
    BY <2>2 DEF WalInv, FilesOK
  <2>4. u = Len(records)
    BY <2>2, <2>3, FileBounds
  <2>5. Readable(records, B, u, p, mem[B], indexMem[B])
    BY <2>3 DEF FileAt
  <2>6. Sound(records, B, u, p, mem[B], indexMem[B], disk'[B], indexDisk'[B], nextOffset)
    BY <2>2, <2>3, FlushKeeps
  <2>7. files' = files \cup {B}
    BY <1>4, <2>2
  <2> QED BY <1>1, <1>2, <1>3, <2>2, <2>4, <2>5, <2>6, <2>7, StoreStep
<1>5. CASE files' = files \cup {nextOffset} /\ nextOffset \in Base
  <2>1. /\ Rolled.base = nextOffset
        /\ \E p : TargetSegment(Rolled, p, disk'[nextOffset], indexDisk'[nextOffset], nextOffset)
    BY <1>5, RolledTarget
  <2>2. PICK p : TargetAt(nextOffset, p, disk'[nextOffset], indexDisk'[nextOffset], nextOffset)
    BY <2>1 DEF TargetSegment
  <2>3. PICK B : B = nextOffset
    OBVIOUS
  <2>4. /\ \A c \in files : c <= B
        /\ Readable(records, B, Len(records), p, mem[B], indexMem[B])
        /\ Sound(records, B, Len(records), p, mem[B], indexMem[B], disk'[B], indexDisk'[B], nextOffset)
    BY <2>2, <2>3 DEF TargetAt
  <2> QED BY <1>1, <1>2, <1>3, <1>5, <2>3, <2>4, StoreStep
<1> QED BY <1>4, <1>5

(* Where nothing is written and the process may end; after a power failure  *)
(* memory and disk are the same.                                           *)
LEMMA StoreRests ==
  ASSUME WalInv, UNCHANGED <<files, mem, indexMem, disk, records, hadOutage>>,
         \A b \in Base : indexDisk'[b] = indexDisk[b] \/ indexDisk'[b] = indexMem[b],
         indexDisk' \in IndexFiles, isOpen' => files # {},
         synced' = synced \/ (hadOutage /\ isOpen /\ synced' = nextOffset)
  PROVE  StoreOK'
<1>1. files \subseteq Base /\ indexMem \in IndexFiles /\ Len(records) \in Nat /\ synced \in Nat
      /\ \A b \in files : b \in Nat
  BY WalInvTypes
<1>2. synced' = synced \/ (hadOutage /\ synced' = Len(records))
  BY ActiveIsLast
<1>3. synced <= Len(records) /\ \A b \in files : b <= synced
  BY DEF WalInv, RecordsOK
<1>4. ASSUME NEW b \in files PROVE \E u, p : FileAt(b, u, p)'
  <2>1. PICK u, p : FileAt(b, u, p)
    BY DEF WalInv, FilesOK
  <2>2. indexDisk'[b] = indexDisk[b] \/ indexDisk'[b] = indexMem[b]
    BY <1>1
  <2>3. ASSUME ~hadOutage
        PROVE  Sound(records, b, u, p, mem[b], indexMem[b], disk[b], indexDisk'[b], synced')
    <3>1. Sound(records, b, u, p, mem[b], indexMem[b], disk[b], indexDisk[b], synced)
      BY <2>1, <2>3 DEF FileAt
    <3>2. synced' = synced
      BY <2>3
    <3> QED BY <2>2, <3>1, <3>2 DEF Sound
  <2>4. FileAt(b, u, p)'
    BY <2>1, <2>3 DEF FileAt
  <2> QED BY <2>4
<1>5. FilesOK'
  BY <1>4 DEF FilesOK
<1>6. RecordsOK'
  <2>1. files = {} => synced' = synced
    BY <1>2 DEF WalInv, OutageOK
  <2>2. \A b \in files : b <= synced'
    BY <1>1, <1>2, <1>3
  <2>3. synced' <= Len(records)
    BY <1>1, <1>2, <1>3
  <2> QED BY <2>1, <2>2, <2>3 DEF WalInv, RecordsOK
<1>7. OutageOK'
  <2>1. hadOutage => indexDisk' = indexMem
    <3>1. hadOutage => indexDisk = indexMem
      BY DEF WalInv, OutageOK
    <3> QED BY <1>1, <3>1 DEF IndexFiles
  <2> QED BY <2>1 DEF WalInv, OutageOK
<1> QED BY <1>5, <1>6, <1>7 DEF StoreOK

\* What the invariant says of the process.
ProcessOK == ObjectsOK /\ SegmentsOK /\ ClosedOK /\ SlotsFree

(* No process, no segments.                                                *)
LEMMA EndedProcess ==
  ASSUME Ended
  PROVE  ProcessOK'
<1>1. isOpen' = FALSE /\ segments' = <<>>
  BY DEF Ended
<1>2. 1..Len(segments') = {}
  BY <1>1
<1> QED BY <1>1, <1>2 DEF ProcessOK, ObjectsOK, SegmentsOK, ClosedOK, SlotsFree

(* The index of a segment is still empty behind its entries.               *)
LEMMA SlotsStep ==
  ASSUME WalInv, NEW seg \in SegmentType, FreeSlots(seg), NEW d
  PROVE  \A e \in 0 .. MaxEntries - 1 : e >= Appended(seg, d).entries => IndexWritten(seg, d)[e].pos = 0
<1>1. PICK im : im = indexMem[seg.base]
  OBVIOUS
<1>2. im \in [0 .. MaxEntries - 1 -> IndexEntry] /\ seg.entries \in Nat /\ MaxEntries \in Nat
  BY <1>1, WalInvTypes, EntriesAssumption DEF SegmentType, IndexFiles
<1>3. ASSUME NEW e \in 0 .. MaxEntries - 1, e >= Appended(seg, d).entries
      PROVE  IndexWritten(seg, d)[e].pos = 0
  <2>1. CASE Indexed(seg)
    <3>1. IndexWritten(seg, d)
            = [im EXCEPT ![seg.entries] = [rel |-> nextOffset - seg.base, pos |-> IndexPos(seg, d)]]
      BY <1>1, <2>1 DEF IndexWritten, WithEntry
    <3>2. e >= seg.entries + 1
      BY <1>3, <2>1 DEF Appended
    <3>3. e # seg.entries /\ e >= seg.entries
      BY <1>2, <3>2
    <3>4. IndexWritten(seg, d)[e] = im[e]
      BY <1>2, <3>1, <3>3
    <3> QED BY <1>1, <3>3, <3>4 DEF FreeSlots
  <2>2. CASE ~Indexed(seg)
    <3>1. IndexWritten(seg, d) = im
      BY <1>1, <2>2 DEF IndexWritten
    <3>2. e >= seg.entries
      BY <1>3, <2>2 DEF Appended
    <3> QED BY <1>1, <3>1, <3>2 DEF FreeSlots
  <2> QED BY <2>1, <2>2
<1> QED BY <1>3

(* A record in the active segment changes that segment alone.              *)
LEMMA InPlaceKeepsProcess ==
  ASSUME WalInv, ~hadOutage, NEW d \in Payload, AppendInPlace(d), mem' \in LogFiles, indexMem' \in IndexFiles,
         Recovered(segments[active].base, mem'[segments[active].base])
           = [end |-> segments[active].writePos + FrameLen(d), next |-> nextOffset + 1]
  PROVE  ProcessOK'
<1>1. PICK seg, B, new : seg = segments[active] /\ B = seg.base /\ new = Appended(seg, d)
  OBVIOUS
<1>2. /\ isOpen /\ active \in 1..Len(segments) /\ active = Len(segments) /\ nextOffset = Len(records)
      /\ seg \in SegmentType /\ B \in files /\ B \in Base /\ (\A b \in files : b <= B)
  BY <1>1, ActiveIsLast DEF AppendInPlace, MayAppend
<1>3. /\ segments \in Seq(SegmentType) /\ Len(segments) \in Nat /\ records \in Seq(Payload)
      /\ mem \in LogFiles /\ indexMem \in IndexFiles
      /\ \A i \in 1..Len(segments) : segments[i].base \in Base /\ segments[i].base \in Nat
  BY WalInvTypes
<1>4. /\ segments' = [segments EXCEPT ![active] = new]
      /\ mem' = [mem EXCEPT ![B] = Written(seg, d, FrameLen(d))]
      /\ indexMem' = [indexMem EXCEPT ![B] = IndexWritten(seg, d)]
      /\ nextOffset' = nextOffset + 1 /\ records' = Append(records, d)
      /\ UNCHANGED <<files, isOpen, closed, active>>
  BY <1>1 DEF AppendInPlace, Write
<1>5. /\ new.base = B /\ new.next = nextOffset + 1 /\ new.writePos = seg.writePos + FrameLen(d)
  BY <1>1 DEF Appended
<1>6. /\ Len(segments') = Len(segments) /\ segments'[active] = new
      /\ \A i \in 1..Len(segments) : i # active => segments'[i] = segments[i]
  BY <1>2, <1>3, <1>4
<1>7. \A i \in 1..Len(segments) : segments'[i].base = segments[i].base
  BY <1>1, <1>5, <1>6
<1>8. \A b \in Base : b # B => mem'[b] = mem[b]
  BY <1>2, <1>3, <1>4 DEF LogFiles
<1>9. ASSUME NEW i \in 1..Len(segments) PROVE Current(i)' <=> Current(i)
  <2>1. \A j \in i + 1 .. Len(segments) : j \in 1..Len(segments)
    BY <1>3
  <2> QED BY <1>6, <1>7, <2>1 DEF Current
<1>10. ASSUME NEW i \in 1..Len(segments)
       PROVE  /\ Current(i)' => Recovered(segments'[i].base, mem'[segments'[i].base])
                                  = [end |-> segments'[i].writePos, next |-> segments'[i].next]
              /\ ~Current(i)' => segments'[i].next = segments'[i].base
  <2>1. CASE i = active
    <3>1. active + 1 .. Len(segments) = {}
      BY <1>2, <1>3
    <3>2. Current(i)
      BY <2>1, <3>1 DEF Current
    <3> QED BY <1>1, <1>5, <1>6, <1>9, <2>1, <3>2
  <2>2. CASE i # active
    <3>1. segments'[i] = segments[i]
      BY <1>6, <2>2
    <3>2. CASE segments[i].base = B
      <4>1. active \in i + 1 .. Len(segments)
        BY <1>2, <1>3, <2>2
      <4>2. ~Current(i)
        BY <1>1, <3>2, <4>1 DEF Current
      <4> QED BY <1>9, <3>1, <4>2 DEF WalInv, ObjectsOK
    <3>3. CASE segments[i].base # B
      <4>1. mem'[segments[i].base] = mem[segments[i].base]
        BY <1>3, <1>8, <3>3
      <4> QED BY <1>9, <3>1, <4>1 DEF WalInv, ObjectsOK
    <3> QED BY <3>2, <3>3
  <2> QED BY <2>1, <2>2
<1>11. ObjectsOK'
  BY <1>6, <1>10 DEF ObjectsOK
<1>12. SegmentsOK'
  <2>1. Len(records') = Len(records) + 1
    BY <1>3, <1>4, AppendProperties
  <2> QED BY <1>2, <1>4, <1>6, <1>7, <2>1 DEF WalInv, SegmentsOK
<1>13. ClosedOK'
  BY <1>4 DEF WalInv, ClosedOK
<1>14. SlotsFree'
  <2>1. FreeSlots(seg)
    BY <1>1, <1>2 DEF WalInv, SlotsFree, FreeSlots
  <2>2. \A e \in 0 .. MaxEntries - 1 : e >= new.entries => IndexWritten(seg, d)[e].pos = 0
    BY <1>1, <1>2, <2>1, SlotsStep
  <2>3. indexMem'[B] = IndexWritten(seg, d)
    BY <1>2, <1>3, <1>4 DEF IndexFiles
  <2> QED BY <1>4, <1>5, <1>6, <2>2, <2>3 DEF SlotsFree
<1> QED BY <1>11, <1>12, <1>13, <1>14 DEF ProcessOK

(* What a roll does to the closed segments.                                *)
LEMMA ClosedStep ==
  ASSUME WalInv, isOpen, isOpen', closed' = Append(closed, active),
         active' = active \/ active' = active + 1
  PROVE  ClosedOK'
<1>1. /\ active \in 1..Len(segments) /\ active = Len(segments) /\ Len(segments) \in Nat
      /\ closed \in Seq(1..Len(segments))
  BY ActiveIsLast, WalInvTypes
<1>2. PICK n : n = Len(closed)
  OBVIOUS
<1>3. n \in Nat /\ \A i \in 1..n : closed[i] \in 1..Len(segments)
  BY <1>1, <1>2, LenProperties, ElementOfSeq
<1>4. /\ Len(closed') = n + 1 /\ closed'[n + 1] = active
      /\ \A i \in 1..n : closed'[i] = closed[i]
  BY <1>1, <1>2, AppendProperties
<1>5. /\ \A i, j \in 1..n : i < j => closed[i] <= closed[j]
      /\ \A i \in 1 .. active - 1 : \E k \in 1..n : closed[k] = i
  BY <1>2 DEF WalInv, ClosedOK
<1>6. ASSUME NEW i \in 1 .. n + 1, NEW j \in 1 .. n + 1, i < j PROVE closed'[i] <= closed'[j]
  <2>1. i \in 1..n
    BY <1>3, <1>6
  <2>2. CASE j \in 1..n
    BY <1>4, <1>5, <1>6, <2>1, <2>2
  <2>3. CASE j = n + 1
    BY <1>1, <1>3, <1>4, <2>1, <2>3
  <2>4. j \in 1..n \/ j = n + 1
    BY <1>3
  <2> QED BY <2>2, <2>3, <2>4
<1>7. ASSUME NEW i \in 1 .. active' - 1 PROVE \E k \in 1 .. n + 1 : closed'[k] = i
  <2>1. CASE i \in 1 .. active - 1
    <3>1. PICK k \in 1..n : closed[k] = i
      BY <1>5, <2>1
    <3>2. k \in 1 .. n + 1
      BY <1>3
    <3> QED BY <1>4, <3>1, <3>2
  <2>2. CASE i = active
    <3>1. n + 1 \in 1 .. n + 1
      BY <1>3
    <3> QED BY <1>4, <2>2, <3>1
  <2>3. i \in 1 .. active - 1 \/ i = active
    BY <1>1
  <2> QED BY <2>1, <2>2, <2>3
<1> QED BY <1>4, <1>6, <1>7 DEF ClosedOK

(* A roll to a segment new at the end of the log.                          *)
LEMMA RollKeepsProcess ==
  ASSUME WalInv, ~hadOutage, isOpen, isOpen', nextOffset \in Base,
         NEW new, segments' = Append(segments, new), new \in SegmentType, new.base = nextOffset,
         active' = Len(segments) + 1, closed' = Append(closed, active),
         files' = files \cup {nextOffset}, nextOffset' = Len(records'),
         Recovered(nextOffset, mem'[nextOffset]) = [end |-> new.writePos, next |-> new.next],
         \A b \in Base : b # nextOffset => mem'[b] = mem[b],
         \A e \in 0 .. MaxEntries - 1 : e >= new.entries => indexMem'[nextOffset][e].pos = 0
  PROVE  ProcessOK'
<1>1. PICK n, N : n = nextOffset /\ N = Len(segments)
  OBVIOUS
<1>2. /\ active = N /\ n = Len(records) /\ n \in Nat /\ n \in Base /\ N \in Nat
      /\ segments \in Seq(SegmentType)
      /\ \A i \in 1..N : segments[i].base \in Base /\ segments[i].base \in Nat
  BY <1>1, ActiveIsLast, WalInvTypes
<1>3. \A b \in files : b <= n
  <2>1. \A b \in files : b <= synced /\ b \in Nat
    BY WalInvTypes DEF WalInv, RecordsOK
  <2>2. synced <= n /\ synced \in Nat
    BY <1>2, WalInvTypes DEF WalInv, RecordsOK
  <2> QED BY <1>2, <2>1, <2>2
<1>4. /\ Len(segments') = N + 1 /\ segments'[N + 1] = new
      /\ \A i \in 1..N : segments'[i] = segments[i]
  BY <1>1, <1>2, AppendProperties
<1>5. \A i \in 1 .. N + 1 : i \in 1..N \/ i = N + 1
  BY <1>2
<1>6. ASSUME NEW i \in 1..N PROVE Current(i)' <=> Current(i) /\ segments[i].base # n
  <2>1. \A j \in i + 1 .. N + 1 : (j \in i + 1 .. N /\ j \in 1..N) \/ j = N + 1
    <3>1. i \in Nat /\ i >= 1 /\ N \in Nat
      BY <1>2
    <3> QED BY <3>1
  <2>2. N + 1 \in i + 1 .. N + 1 /\ \A j \in i + 1 .. N : j \in 1..N /\ j \in i + 1 .. N + 1
    BY <1>2
  <2> QED BY <1>1, <1>4, <2>1, <2>2 DEF Current
<1>7. ASSUME NEW i \in 1 .. N + 1
      PROVE  /\ Current(i)' => Recovered(segments'[i].base, mem'[segments'[i].base])
                                 = [end |-> segments'[i].writePos, next |-> segments'[i].next]
             /\ ~Current(i)' => segments'[i].next = segments'[i].base
  <2>1. CASE i = N + 1
    <3>1. N + 2 .. N + 1 = {} /\ i + 1 = N + 2
      BY <1>2, <2>1
    <3>2. Current(i)'
      BY <1>4, <3>1 DEF Current
    <3> QED BY <1>1, <1>4, <2>1, <3>2
  <2>2. CASE i \in 1..N
    <3>1. segments'[i] = segments[i]
      BY <1>4, <2>2
    <3>2. CASE segments[i].base # n
      <4>1. mem'[segments[i].base] = mem[segments[i].base]
        BY <1>1, <1>2, <2>2, <3>2
      <4> QED BY <1>1, <1>6, <2>2, <3>1, <3>2, <4>1 DEF WalInv, ObjectsOK
    <3>3. CASE segments[i].base = n
      <4>1. segments[i].next = n
        <5>1. CASE ~Current(i)
          BY <1>1, <2>2, <3>3, <5>1 DEF WalInv, ObjectsOK
        <5>2. CASE Current(i)
          <6>1. n \in files
            BY <1>1, <2>2, <3>3 DEF WalInv, SegmentsOK
          <6>2. PICK u, p : FileAt(n, u, p)
            BY <6>1 DEF WalInv, FilesOK
          <6>3. u = Len(records)
            BY <1>3, <6>1, <6>2, FileBounds
          <6>4. Readable(records, n, Len(records), p, mem[n], indexMem[n])
            BY <6>2, <6>3 DEF FileAt
          <6>5. Recovered(n, mem[n]) = [end |-> p[Len(records)], next |-> Len(records)]
            BY <1>2, <6>4, TargetRecovers
          <6>6. Recovered(n, mem[n]) = [end |-> segments[i].writePos, next |-> segments[i].next]
            BY <1>1, <2>2, <3>3, <5>2 DEF WalInv, ObjectsOK
          <6> QED BY <1>2, <6>5, <6>6
        <5> QED BY <5>1, <5>2
      <4> QED BY <1>6, <2>2, <3>1, <3>3, <4>1
    <3> QED BY <3>2, <3>3
  <2> QED BY <1>5, <2>1, <2>2
<1>8. ObjectsOK'
  BY <1>4, <1>7 DEF ObjectsOK
<1>9. SegmentsOK'
  <2>1. /\ \A i \in 1..N : segments[i].base \in files
        /\ \A b \in files : \E i \in 1..N : segments[i].base = b
        /\ \A i, j \in 1..N : i < j => segments[i].base <= segments[j].base
    BY <1>1 DEF WalInv, SegmentsOK
  <2>2. \A i \in 1 .. N + 1 : segments'[i].base \in files'
    BY <1>1, <1>4, <1>5, <2>1
  <2>3. N + 1 \in 1 .. N + 1 /\ \A i \in 1..N : i \in 1 .. N + 1
    BY <1>2
  <2>4. ASSUME NEW b \in files' PROVE \E i \in 1 .. N + 1 : segments'[i].base = b
    <3>1. CASE b = n
      BY <1>1, <1>4, <2>3, <3>1
    <3>2. CASE b \in files
      <4>1. PICK i \in 1..N : segments[i].base = b
        BY <2>1, <3>2
      <4> QED BY <1>4, <2>3, <4>1
    <3> QED BY <1>1, <3>1, <3>2
  <2>5. ASSUME NEW i \in 1 .. N + 1, NEW j \in 1 .. N + 1, i < j
        PROVE  segments'[i].base <= segments'[j].base
    <3>1. i \in 1..N
      BY <1>2, <2>5
    <3>2. CASE j \in 1..N
      BY <1>4, <2>1, <2>5, <3>1, <3>2
    <3>3. CASE j = N + 1
      BY <1>1, <1>3, <1>4, <2>1, <3>1, <3>3
    <3> QED BY <1>5, <3>2, <3>3
  <2>6. N + 1 # 0
    BY <1>2
  <2> QED BY <1>1, <1>4, <2>2, <2>4, <2>5, <2>6 DEF SegmentsOK
<1>10. ClosedOK'
  BY <1>1, <1>2, ClosedStep
<1>11. SlotsFree'
  BY <1>1, <1>4 DEF SlotsFree
<1> QED BY <1>8, <1>9, <1>10, <1>11 DEF ProcessOK

(* The steps of Append.                                                    *)
LEMMA AppendKeeps ==
  ASSUME Faults = {}, WalInv, TypeInv', NEW d \in Payload,
         AppendInPlace(d) \/ AppendToNewSegment(d) \/ AppendRefused(d) \/ RollFails(d)
  PROVE  StoreOK' /\ ProcessOK'
<1>1. MayAppend /\ isOpen /\ ~hadOutage
  BY DEF AppendInPlace, AppendToNewSegment, AppendRefused, RollFails, MayAppend
<1>2. /\ nextOffset = Len(records) /\ segments[active] \in SegmentType /\ segments[active].base \in files
      /\ segments \in Seq(SegmentType) /\ Len(segments) \in Nat /\ active \in 1..Len(segments)
      /\ nextOffset \in Base /\ Rolled \in SegmentType /\ Rolled.base = nextOffset
      /\ nextOffset \in Nat /\ records \in Seq(Payload) /\ mem \in LogFiles /\ indexMem \in IndexFiles
  BY <1>1, ActiveIsLast, WalInvTypes, AppendTyped DEF WalInv
<1>3. mem' \in LogFiles /\ indexMem' \in IndexFiles
  BY DEF TypeInv, TypeOK, LogFiles, IndexFiles
<1>4. PICK k : k = FrameLen(d)
  OBVIOUS
<1>5. k \in 0..FrameLen(d) /\ k # 1 /\ RecordsWith(d, k) = Append(records, d)
  <2>1. FrameLen(d) = 2 + SizeOf[d] /\ SizeOf[d] \in Nat
    BY FrameCells, 0 \in Nat
  <2> QED BY <1>4, <2>1 DEF RecordsWith
<1>6. CASE AppendInPlace(d)
  <2>1. PICK seg : seg = segments[active]
    OBVIOUS
  <2>2. /\ Writable(seg, d) /\ mem' = [mem EXCEPT ![seg.base] = Written(seg, d, k)]
        /\ indexMem' = [indexMem EXCEPT ![seg.base] = IndexWritten(seg, d)]
        /\ records' = Append(records, d)
        /\ UNCHANGED <<files, disk, indexDisk, synced, hadOutage>>
    BY <1>4, <1>6, <2>1 DEF AppendInPlace, Write, diskVars
  <2>3. files' = files \cup {seg.base}
    BY <1>2, <2>1, <2>2
  <2>4. /\ StoreOK'
        /\ k = FrameLen(d) => Recovered(seg.base, mem'[seg.base])
                              = [end |-> seg.writePos + FrameLen(d), next |-> nextOffset + 1]
    BY <1>1, <1>2, <1>3, <1>5, <2>1, <2>2, <2>3, AppendKeepsStore
  <2>5. ProcessOK'
    BY <1>1, <1>3, <1>4, <1>6, <2>1, <2>4, InPlaceKeepsProcess
  <2> QED BY <2>4, <2>5
<1>7. CASE AppendToNewSegment(d)
  <2>1. PICK seg, new : seg = Rolled /\ new = Appended(seg, d)
    OBVIOUS
  <2>2. /\ Writable(seg, d) /\ mem' = [mem EXCEPT ![seg.base] = Written(seg, d, k)]
        /\ indexMem' = [indexMem EXCEPT ![seg.base] = IndexWritten(seg, d)]
        /\ records' = Append(records, d) /\ nextOffset' = nextOffset + 1
        /\ files' = files \cup {nextOffset} /\ segments' = Append(segments, new)
        /\ active' = Len(segments) + 1 /\ closed' = Append(closed, active)
        /\ FlushActive /\ synced' = nextOffset /\ UNCHANGED <<isOpen, hadOutage>>
    BY <1>4, <1>7, <2>1 DEF AppendToNewSegment, Roll, Write
  <2>3. files' = files \cup {seg.base} /\ seg \in SegmentType /\ seg.base = nextOffset
    BY <1>2, <2>1, <2>2
  <2>4. /\ StoreOK'
        /\ k = FrameLen(d) => Recovered(seg.base, mem'[seg.base])
                              = [end |-> seg.writePos + FrameLen(d), next |-> nextOffset + 1]
    BY <1>1, <1>2, <1>3, <1>5, <2>1, <2>2, <2>3, AppendKeepsStore
  <2>5. /\ new \in SegmentType /\ new.base = nextOffset /\ new.next = nextOffset + 1
        /\ new.writePos = seg.writePos + FrameLen(d)
    BY <1>2, <2>1, <2>2, <2>3, AppendedTyped DEF Writable
  <2>6. Recovered(nextOffset, mem'[nextOffset]) = [end |-> new.writePos, next |-> new.next]
    BY <1>4, <2>3, <2>4, <2>5
  <2>7. \A b \in Base : b # nextOffset => mem'[b] = mem[b]
    BY <1>2, <2>2, <2>3 DEF LogFiles
  <2>8. \A e \in 0 .. MaxEntries - 1 : e >= new.entries => indexMem'[nextOffset][e].pos = 0
    <3>1. FreeSlots(seg)
      BY <1>1, <1>2, <2>1, <2>2, RolledTarget DEF TargetSegment
    <3>2. \A e \in 0 .. MaxEntries - 1 : e >= new.entries => IndexWritten(seg, d)[e].pos = 0
      BY <2>1, <2>3, <3>1, SlotsStep
    <3>3. indexMem'[nextOffset] = IndexWritten(seg, d)
      BY <1>2, <2>2, <2>3 DEF IndexFiles
    <3> QED BY <3>2, <3>3
  <2>9. nextOffset' = Len(records')
    BY <1>2, <2>2, AppendProperties
  <2>10. ProcessOK'
    BY <1>1, <1>2, <2>2, <2>5, <2>6, <2>7, <2>8, <2>9, RollKeepsProcess
  <2> QED BY <2>4, <2>10
<1>8. CASE AppendRefused(d)
  <2>1. PICK seg : seg = Rolled
    OBVIOUS
  <2>2. /\ files' = files \cup {nextOffset} /\ segments' = Append(segments, seg)
        /\ active' = Len(segments) + 1 /\ closed' = Append(closed, active)
        /\ FlushActive /\ synced' = nextOffset
        /\ UNCHANGED <<mem, indexMem, isOpen, nextOffset, records, hadOutage>>
    BY <1>8, <2>1 DEF AppendRefused, Roll
  <2>3. StoreOK'
    BY <1>1, <1>2, <2>2, FlushKeepsStore
  <2>4. seg.base = nextOffset /\ seg \in SegmentType
    BY <1>2, <2>1
  <2>5. PICK p : TargetSegment(seg, p, disk'[nextOffset], indexDisk'[nextOffset], nextOffset)
    BY <1>1, <1>2, <2>1, <2>2, RolledTarget
  <2>6. Recovered(nextOffset, mem'[nextOffset]) = [end |-> seg.writePos, next |-> seg.next]
    <3>1. Readable(records, nextOffset, Len(records), p, mem[nextOffset], indexMem[nextOffset])
      BY <2>4, <2>5 DEF TargetSegment, TargetAt
    <3>2. Recovered(nextOffset, mem[nextOffset]) = [end |-> p[Len(records)], next |-> Len(records)]
      BY <1>2, <3>1, TargetRecovers
    <3>3. seg.writePos = p[Len(records)] /\ seg.next = Len(records)
      BY <2>5 DEF TargetSegment
    <3> QED BY <2>2, <3>2, <3>3
  <2>7. \A e \in 0 .. MaxEntries - 1 : e >= seg.entries => indexMem'[nextOffset][e].pos = 0
    BY <2>2, <2>4, <2>5 DEF TargetSegment, FreeSlots
  <2>8. nextOffset' = Len(records') /\ \A b \in Base : b # nextOffset => mem'[b] = mem[b]
    BY <1>2, <2>2
  <2>9. ProcessOK'
    BY <1>1, <1>2, <2>2, <2>4, <2>6, <2>7, <2>8, RollKeepsProcess
  <2> QED BY <2>3, <2>9
<1>9. CASE RollFails(d)
  <2>1. /\ UNCHANGED <<files, mem, indexMem, isOpen, segments, active, nextOffset, records, hadOutage>>
        /\ closed' = Append(closed, active) /\ FlushActive /\ synced' = nextOffset
    BY <1>9 DEF RollFails, Roll
  <2>2. StoreOK'
    BY <1>1, <2>1, FlushKeepsStore
  <2>3. ObjectsOK' /\ SegmentsOK' /\ SlotsFree'
    BY <2>1 DEF WalInv, ObjectsOK, SegmentsOK, SlotsFree, Current
  <2>4. ClosedOK'
    BY <1>1, <2>1, ClosedStep
  <2> QED BY <2>2, <2>3, <2>4 DEF ProcessOK
<1> QED BY <1>6, <1>7, <1>8, <1>9

(* The steps of a killed Append.                                           *)
LEMMA KillKeeps ==
  ASSUME Faults = {}, WalInv, TypeInv', NEW d \in Payload, KilledInAppend(d) \/ KilledAfterRoll(d)
  PROVE  StoreOK' /\ ProcessOK'
<1>1. MayAppend /\ isOpen /\ ~hadOutage
  BY DEF KilledInAppend, KilledAfterRoll, MayAppend
<1>2. PICK seg : /\ KilledInWrite(seg, d) /\ Writable(seg, d) /\ seg \in SegmentType
                 /\ files' = files \cup {seg.base}
                 /\ \/ seg = segments[active] /\ UNCHANGED <<disk, indexDisk, synced>>
                    \/ seg = Rolled /\ FlushActive /\ synced' = nextOffset
  <2>1. CASE KilledInAppend(d)
    <3>1. /\ KilledInWrite(segments[active], d) /\ Writable(segments[active], d)
          /\ UNCHANGED <<files, disk, indexDisk, synced>>
      BY <2>1 DEF KilledInAppend, diskVars
    <3>2. segments[active] \in SegmentType /\ segments[active].base \in files
      BY <1>1, ActiveIsLast
    <3> QED BY <3>1, <3>2
  <2>2. CASE KilledAfterRoll(d)
    <3>1. /\ KilledInWrite(Rolled, d) /\ Writable(Rolled, d) /\ FlushActive /\ synced' = nextOffset
          /\ files' = files \cup {nextOffset}
      BY <2>2 DEF KilledAfterRoll
    <3>2. Rolled \in SegmentType /\ Rolled.base = nextOffset
      BY <1>1, AppendTyped DEF WalInv
    <3> QED BY <3>1, <3>2
  <2> QED BY <2>1, <2>2
<1>3. Ended /\ UNCHANGED hadOutage
  BY <1>2 DEF KilledInWrite
<1>4. /\ mem \in LogFiles /\ indexMem \in IndexFiles /\ nextOffset \in Base /\ nextOffset \in Nat
      /\ mem' \in LogFiles /\ indexMem' \in IndexFiles /\ seg.base \in Base /\ seg.writePos \in Nat
  <2>1. mem' \in LogFiles /\ indexMem' \in IndexFiles
    BY DEF TypeInv, TypeOK, LogFiles, IndexFiles
  <2>2. seg.base \in Base /\ seg.writePos \in Nat
    BY <1>2, SegmentAssumption DEF SegmentType
  <2> QED BY <1>1, <2>1, <2>2, AppendTyped, WalInvTypes DEF WalInv
<1>5. FrameLen(d) = 2 + SizeOf[d] /\ SizeOf[d] \in Nat
  BY FrameCells, 0 \in Nat
<1>6. \E k \in 0..FrameLen(d) : \E im2 :
        /\ k # 1 /\ (im2 = indexMem[seg.base] \/ im2 = IndexTorn(seg) \/ im2 = IndexWritten(seg, d))
        /\ mem' = [mem EXCEPT ![seg.base] = Written(seg, d, k)]
        /\ indexMem' = [indexMem EXCEPT ![seg.base] = im2]
        /\ records' = RecordsWith(d, k)
  <2>1. CASE /\ indexMem' \in {indexMem, [indexMem EXCEPT ![seg.base] = IndexTorn(seg)]}
             /\ UNCHANGED <<mem, records>>
    <3>1. 0 \in 0..FrameLen(d) /\ 0 # 1 /\ RecordsWith(d, 0) = records
      BY <1>5 DEF RecordsWith
    <3>2. mem[seg.base] \in [Position -> Cell]
      BY <1>4 DEF LogFiles
    <3>3. Written(seg, d, 0) = Put(mem[seg.base], seg.writePos, nextOffset, d, 0)
      BY DEF Written, Put
    <3>4. Written(seg, d, 0) = mem[seg.base]
      BY <1>4, <3>2, <3>3, PutNothing
    <3>5. mem = [mem EXCEPT ![seg.base] = mem[seg.base]]
      BY <1>4 DEF LogFiles
    <3>6. indexMem = [indexMem EXCEPT ![seg.base] = indexMem[seg.base]]
      BY <1>4 DEF IndexFiles
    <3>7. mem' = [mem EXCEPT ![seg.base] = Written(seg, d, 0)]
      BY <2>1, <3>4, <3>5
    <3>8. \/ indexMem' = [indexMem EXCEPT ![seg.base] = indexMem[seg.base]]
          \/ indexMem' = [indexMem EXCEPT ![seg.base] = IndexTorn(seg)]
      BY <2>1, <3>6
    <3>9. records' = RecordsWith(d, 0)
      BY <2>1, <3>1
    <3> QED BY <3>1, <3>7, <3>8, <3>9
  <2>2. CASE \E k \in 0..FrameLen(d) :
               /\ k = 1 => "torn header" \in Faults
               /\ indexMem' = [indexMem EXCEPT ![seg.base] = IndexWritten(seg, d)]
               /\ mem' = [mem EXCEPT ![seg.base] = Written(seg, d, k)]
               /\ records' = IF k = FrameLen(d) THEN Append(records, d) ELSE records
    BY <2>2 DEF RecordsWith
  <2>3. CASE "torn header" \in Faults
    BY <2>3
  <2> QED BY <1>2, <2>1, <2>2, <2>3 DEF KilledInWrite
<1>7. StoreOK'
  BY <1>1, <1>2, <1>3, <1>4, <1>6, AppendKeepsStore
<1> QED BY <1>3, <1>7, EndedProcess

-----------------------------------------------------------------------------
(* Opening, syncing, closing, and power failures.                          *)

(* The files of a WAL that is opened for the first time are empty.         *)
LEMMA FirstFile ==
  ASSUME WalInv, files = {}
  PROVE  /\ records = <<>> /\ Len(records) = 0 /\ synced = 0 /\ ~hadOutage /\ 0 \in Base
         /\ mem[0] = EmptyLog /\ indexMem[0] = EmptyIndex
         /\ disk[0] = EmptyLog /\ indexDisk[0] = EmptyIndex
         /\ \A n : \E p : /\ Readable(records, 0, 0, p, EmptyLog, EmptyIndex)
                          /\ Sound(records, 0, 0, p, EmptyLog, EmptyIndex, EmptyLog, EmptyIndex, n)
<1>1. 0 \in Base
  BY WalBoundAssumption DEF Base
<1>2. records = <<>> /\ synced = 0 /\ ~hadOutage
  BY DEF WalInv, RecordsOK, OutageOK
<1>3. /\ mem[0] = EmptyLog /\ indexMem[0] = EmptyIndex
      /\ disk[0] = EmptyLog /\ indexDisk[0] = EmptyIndex
  BY <1>1, <1>2 DEF WalInv, OutageOK
<1>4. ASSUME NEW n
      PROVE  \E p : /\ Readable(records, 0, 0, p, EmptyLog, EmptyIndex)
                    /\ Sound(records, 0, 0, p, EmptyLog, EmptyIndex, EmptyLog, EmptyIndex, n)
  <2>1. records \in Seq(Payload) /\ 0 = Len(records) /\ 0 \in Nat
    BY <1>2
  <2> QED BY <2>1, FreshFile
<1> QED BY <1>1, <1>2, <1>3, <1>4

\* What OpenWAL makes of the files F.
Opened(S, n, F) ==
  /\ n \in Nat \ {0} /\ n = Len(S)
  /\ \A i \in 1..n : /\ S[i].base \in F /\ S[i].base \in Nat
                     /\ Recovered(S[i].base, mem[S[i].base]) = [end |-> S[i].writePos, next |-> S[i].next]
  /\ \A b \in F : \E i \in 1..n : S[i].base = b
  /\ \A i, j \in 1..n : i < j => S[i].base < S[j].base
  /\ S[n].next = Len(records)
  /\ FreeSlots(S[n])

(* A segment is made of what recovery finds in its file.                   *)
LEMMA NewIsRecovered ==
  ASSUME NEW b \in Nat, NEW c \in [Position -> Cell], NEW seg,
         seg.writePos = Recovered(b, c).end, seg.next = Recovered(b, c).next
  PROVE  Recovered(b, c) = [end |-> seg.writePos, next |-> seg.next]
<1>1. PICK r : r = Recovered(b, c)
  OBVIOUS
<1>2. r \in [end : 0..MaxSegmentBytes, next : Nat]
  BY <1>1, RecoveredTyped
<1>3. r = [end |-> r.end, next |-> r.next]
  BY <1>2
<1> QED BY <1>1, <1>3

(* OpenWAL finds the segments, in the order of their offsets, and the end   *)
(* of the log.                                                             *)
LEMMA OpensAll ==
  ASSUME WalInv
  PROVE  Opened(OpenedSegments, Len(OpenedSegments), files \cup (IF files = {} THEN {0} ELSE {}))
<1>1. CASE files = {}
  <2>1. /\ mem[0] = EmptyLog /\ indexMem[0] = EmptyIndex /\ Len(records) = 0 /\ 0 \in Base
        /\ \E p : Readable(records, 0, 0, p, EmptyLog, EmptyIndex)
    BY <1>1, FirstFile
  <2>2. PICK seg : seg = NewSegment(0, TRUE, EmptyLog)
    OBVIOUS
  <2>3. OpenedSegments = <<seg>>
    BY <1>1, <2>2 DEF OpenedSegments
  <2>4. EmptyLog \in [Position -> Cell]
    BY DEF EmptyLog, Cell
  <2>5. /\ seg.base = 0
        /\ Recovered(0, EmptyLog) = [end |-> seg.writePos, next |-> seg.next]
    <3>1. /\ seg.base = 0
          /\ seg.writePos = Recovered(0, EmptyLog).end /\ seg.next = Recovered(0, EmptyLog).next
      BY <2>2 DEF NewSegment
    <3> QED BY <2>4, <3>1, NewIsRecovered, 0 \in Nat
  <2>6. seg.next = Len(records)
    <3>1. PICK p : Readable(records, 0, Len(records), p, mem[0], indexMem[0])
      BY <2>1
    <3>2. Recovered(0, mem[0]) = [end |-> p[Len(records)], next |-> Len(records)]
      BY <2>1, <3>1, TargetRecovers
    <3> QED BY <2>1, <2>5, <3>2
  <2>7. FreeSlots(seg)
    <3>1. indexMem[seg.base] = EmptyIndex
      BY <2>1, <2>5
    <3> QED BY <3>1 DEF FreeSlots, EmptyIndex, NoEntry
  <2>8. Len(<<seg>>) = 1 /\ <<seg>>[1] = seg /\ \A i \in 1..1 : i = 1
    OBVIOUS
  <2>9. \A i, j \in 1..1 : ~(i < j)
    OBVIOUS
  <2>10. Opened(<<seg>>, 1, {0})
    BY <2>1, <2>5, <2>6, <2>7, <2>8, <2>9 DEF Opened
  <2> QED BY <1>1, <2>3, <2>8, <2>10
<1>2. CASE files # {}
  <2>1. PICK c : c = Cardinality(files)
    OBVIOUS
  <2>2. PICK o : o = Sorted(files)
    OBVIOUS
  <2>3. /\ c \in Nat \ {0} /\ \A i \in 1..c : o[i] \in files
        /\ \A i, j \in 1..c : i < j => o[i] < o[j]
        /\ \A b \in files : \E i \in 1..c : o[i] = b
    BY <1>2, <2>1, <2>2, SortedFiles, WalInvTypes
  <2>4. PICK S : S = OpenedSegments /\ S = [i \in 1..c |-> NewSegment(o[i], FALSE, mem[o[i]])]
    BY <1>2, <2>1, <2>2 DEF OpenedSegments
  <2>5. Len(S) = c
    BY <2>3, <2>4
  <2>6. ASSUME NEW i \in 1..c
        PROVE  /\ S[i].base = o[i] /\ o[i] \in Nat /\ S[i].entries = MaxEntries
               /\ Recovered(o[i], mem[o[i]]) = [end |-> S[i].writePos, next |-> S[i].next]
    <3>1. PICK b \in files : b = o[i]
      BY <2>3
    <3>2. b \in Nat /\ mem[b] \in [Position -> Cell]
      BY WalInvTypes DEF LogFiles
    <3>3. PICK seg : seg = NewSegment(b, FALSE, mem[b])
      OBVIOUS
    <3>4. /\ seg.base = b /\ seg.entries = MaxEntries
          /\ seg.writePos = Recovered(b, mem[b]).end /\ seg.next = Recovered(b, mem[b]).next
      BY <3>3 DEF NewSegment, EntryCount
    <3>5. Recovered(b, mem[b]) = [end |-> seg.writePos, next |-> seg.next]
      BY <3>2, <3>4, NewIsRecovered
    <3>6. S[i] = seg
      BY <2>4, <3>1, <3>3
    <3> QED BY <3>1, <3>2, <3>4, <3>5, <3>6
  <2>7. S[c].next = Len(records)
    <3>1. c \in 1..c
      BY <2>3
    <3>2. PICK B \in files : B = o[c]
      BY <2>3, <3>1
    <3>3. \A b \in files : b <= B
      <4>1. ASSUME NEW b \in files PROVE b <= B
        <5>1. PICK i \in 1..c : o[i] = b
          BY <2>3
        <5>2. i < c \/ i = c
          BY <2>3
        <5>3. b < B \/ b = B
          BY <2>3, <3>1, <3>2, <5>1, <5>2
        <5> QED BY <5>3, WalInvTypes
      <4> QED BY <4>1
    <3>4. PICK u, p : FileAt(B, u, p)
      BY DEF WalInv, FilesOK
    <3>5. u = Len(records) /\ B \in Base
      BY <3>3, <3>4, FileBounds, WalInvTypes
    <3>6. Readable(records, B, Len(records), p, mem[B], indexMem[B])
      BY <3>4, <3>5 DEF FileAt
    <3>7. Recovered(B, mem[B]) = [end |-> p[Len(records)], next |-> Len(records)]
      BY <3>5, <3>6, TargetRecovers
    <3>8. Recovered(o[c], mem[o[c]]) = [end |-> S[c].writePos, next |-> S[c].next]
      BY <2>6, <3>1
    <3> QED BY <3>2, <3>7, <3>8
  <2>8. FreeSlots(S[c])
    <3>0. c \in 1..c
      BY <2>3
    <3>1. S[c].entries = MaxEntries
      BY <2>6, <3>0
    <3>2. \A e \in 0 .. MaxEntries - 1 : ~(e >= MaxEntries)
      BY EntriesAssumption
    <3> QED BY <3>1, <3>2 DEF FreeSlots
  <2>9. \A i, j \in 1..c : i < j => S[i].base < S[j].base
    BY <2>3, <2>6
  <2>10. \A b \in files : \E i \in 1..c : S[i].base = b
    BY <2>3, <2>6
  <2>11. \A i \in 1..c : /\ S[i].base \in files /\ S[i].base \in Nat
                         /\ Recovered(S[i].base, mem[S[i].base]) = [end |-> S[i].writePos, next |-> S[i].next]
    BY <2>3, <2>6
  <2>12. Opened(S, c, files)
    BY <2>3, <2>5, <2>7, <2>8, <2>9, <2>10, <2>11 DEF Opened
  <2>13. files \cup (IF files = {} THEN {0} ELSE {}) = files
    BY <1>2
  <2> QED BY <2>4, <2>5, <2>12, <2>13
<1> QED BY <1>1, <1>2

(* OpenWAL.                                                                *)
LEMMA OpenKeeps ==
  ASSUME WalInv, OpenWAL
  PROVE  StoreOK' /\ ProcessOK'
<1>1. PICK S, n, F : S = OpenedSegments /\ n = Len(OpenedSegments)
                     /\ F = files \cup (IF files = {} THEN {0} ELSE {})
  OBVIOUS
<1>2. /\ ~isOpen /\ isOpen' = TRUE /\ files' = F /\ segments' = S /\ active' = n
      /\ closed' = [i \in 1 .. n - 1 |-> i] /\ nextOffset' = S[n].next
      /\ UNCHANGED <<mem, indexMem, disk, indexDisk, records, synced, hadOutage>>
  BY <1>1 DEF OpenWAL, diskVars
<1>3. Opened(S, n, F)
  BY <1>1, OpensAll
<1>4. n \in Nat \ {0} /\ n = Len(S) /\ n \in 1..n
  BY <1>3 DEF Opened
<1>5. StoreOK'
  <2>1. CASE files # {}
    <3>1. files' = files
      BY <1>1, <1>2, <2>1
    <3>2. indexDisk' \in IndexFiles
      BY <1>2, WalInvTypes
    <3> QED BY <1>2, <2>1, <3>1, <3>2, StoreRests
  <2>2. CASE files = {}
    <3>1. files' = {0}
      BY <1>1, <1>2, <2>2
    <3>2. /\ records = <<>> /\ Len(records) = 0 /\ synced = 0 /\ ~hadOutage /\ 0 \in Base
          /\ mem[0] = EmptyLog /\ indexMem[0] = EmptyIndex
          /\ disk[0] = EmptyLog /\ indexDisk[0] = EmptyIndex
      BY <2>2, FirstFile
    <3>3. PICK p : /\ Readable(records, 0, 0, p, EmptyLog, EmptyIndex)
                   /\ Sound(records, 0, 0, p, EmptyLog, EmptyIndex, EmptyLog, EmptyIndex, synced)
      BY <2>2, FirstFile
    <3>4. Ends({0}, Len(records), 0, 0)
      BY <3>2 DEF Ends
    <3>5. FileAt(0, 0, p)'
      BY <1>2, <3>1, <3>2, <3>3, <3>4 DEF FileAt
    <3>6. FilesOK'
      BY <3>1, <3>5 DEF FilesOK
    <3>7. RecordsOK'
      BY <1>2, <3>1, <3>2 DEF RecordsOK
    <3>8. OutageOK'
      BY <1>2, <2>2, <3>1, <3>2 DEF WalInv, OutageOK
    <3> QED BY <3>6, <3>7, <3>8 DEF StoreOK
  <2> QED BY <2>1, <2>2
<1>6. ASSUME NEW i \in 1..n PROVE Current(i)'
  <2>1. ASSUME NEW j \in i + 1 .. n PROVE S[j].base # S[i].base
    <3>1. j \in 1..n /\ i < j
      BY <1>4
    <3>2. S[i].base < S[j].base /\ S[i].base \in Nat /\ S[j].base \in Nat
      BY <1>3, <3>1 DEF Opened
    <3> QED BY <3>2
  <2> QED BY <1>2, <1>4, <2>1 DEF Current
<1>7. ObjectsOK'
  BY <1>2, <1>3, <1>4, <1>6 DEF ObjectsOK, Opened
<1>8. SegmentsOK'
  <2>0. /\ \A i, j \in 1..n : i < j => S[i].base < S[j].base
        /\ \A i \in 1..n : S[i].base \in Nat
    BY <1>3 DEF Opened
  <2>1. \A i, j \in 1..n : i < j => S[i].base <= S[j].base
    BY <2>0
  <2> QED BY <1>2, <1>3, <1>4, <2>1 DEF SegmentsOK, Opened
<1>9. ClosedOK'
  <2>1. Len(closed') = n - 1 /\ \A i \in 1 .. n - 1 : closed'[i] = i
    <3>1. PICK m \in Nat : m = n - 1
      BY <1>4
    <3>2. closed' = [i \in 1..m |-> i]
      BY <1>2, <3>1
    <3> QED BY <3>1, <3>2
  <2>2. \A i, j \in 1 .. n - 1 : i < j => i <= j
    BY <1>4
  <2> QED BY <1>2, <2>1, <2>2 DEF ClosedOK
<1>10. SlotsFree'
  BY <1>2, <1>3 DEF Opened, SlotsFree, FreeSlots
<1> QED BY <1>5, <1>7, <1>8, <1>9, <1>10 DEF ProcessOK

(* Sync.                                                                   *)
LEMMA SyncKeeps ==
  ASSUME WalInv, TypeInv', Sync
  PROVE  StoreOK' /\ ProcessOK'
<1>1. /\ isOpen /\ FlushActive /\ synced' = nextOffset
      /\ UNCHANGED <<files, mem, indexMem, isOpen, segments, closed, active, nextOffset, records, hadOutage>>
  BY DEF Sync, fileVars, walVars
<1>2. ProcessOK'
  BY <1>1 DEF WalInv, ProcessOK, ObjectsOK, SegmentsOK, ClosedOK, SlotsFree, Current
<1>3. CASE ~hadOutage
  BY <1>1, <1>2, <1>3, FlushKeepsStore
<1>4. CASE hadOutage
  <2>1. PICK base : base = segments[active].base
    OBVIOUS
  <2>2. /\ base \in files /\ base \in Base /\ disk \in LogFiles /\ indexDisk \in IndexFiles
        /\ mem \in LogFiles /\ indexMem \in IndexFiles
    BY <1>1, <2>1, ActiveIsLast, WalInvTypes
  <2>3. mem = disk /\ indexMem = indexDisk
    BY <1>4 DEF WalInv, OutageOK
  <2>4. /\ disk' = [disk EXCEPT ![base] = mem[base]]
        /\ indexDisk' = [indexDisk EXCEPT ![base] = indexMem[base]]
    BY <1>1, <2>1 DEF FlushActive
  <2>5. disk' = disk
    BY <2>2, <2>3, <2>4 DEF LogFiles
  <2>6. indexDisk' = indexDisk
    BY <2>2, <2>3, <2>4 DEF IndexFiles
  <2>7. StoreOK'
    BY <1>1, <1>4, <2>2, <2>5, <2>6, StoreRests
  <2> QED BY <1>2, <2>7
<1> QED BY <1>3, <1>4

(* Close, and a kill between two calls.                                    *)
LEMMA ClosingKeeps ==
  ASSUME WalInv, Close \/ Killed
  PROVE  StoreOK' /\ ProcessOK'
<1>1. /\ Ended /\ UNCHANGED <<files, mem, indexMem, disk, records, synced, hadOutage>>
      /\ \/ indexDisk' = indexDisk
         \/ indexDisk' = [b \in Base |-> IF \E i \in 1..Len(segments) : segments[i].base = b
                                         THEN indexMem[b] ELSE indexDisk[b]]
  BY DEF Close, Killed, fileVars, diskVars
<1>2. /\ \A b \in Base : indexDisk'[b] = indexDisk[b] \/ indexDisk'[b] = indexMem[b]
      /\ indexDisk' \in IndexFiles
  BY <1>1, WalInvTypes DEF IndexFiles
<1>3. ~isOpen'
  BY <1>1 DEF Ended
<1>4. StoreOK'
  BY <1>1, <1>2, <1>3, StoreRests
<1> QED BY <1>1, <1>4, EndedProcess

\* Every cell, and every index, is what it was in memory or on disk.
Mixed ==
  /\ mem' \in LogFiles /\ indexMem' \in IndexFiles
  /\ \A b \in Base : /\ \A x \in Position : mem'[b][x] = mem[b][x] \/ mem'[b][x] = disk[b][x]
                     /\ indexMem'[b] = indexMem[b] \/ indexMem'[b] = indexDisk[b]
                     /\ HeadersWhole(mem'[b])

(* What a power failure leaves in the files.                               *)
LEMMA OutageMixes ==
  ASSUME Faults = {}, TypeInv', Outage
  PROVE  Mixed
<1>1. mem' = disk' /\ indexMem' = indexDisk' /\ \A b \in Base : HeadersWhole(disk'[b])
  BY DEF Outage
<1>2. PICK pages, indexes : WrittenBack(pages, indexes)
  BY DEF Outage
<1>3. \A b \in Base, x \in Position : disk'[b][x] = mem[b][x] \/ disk'[b][x] = disk[b][x]
  BY <1>2 DEF WrittenBack
<1>4. \A b \in Base : indexDisk'[b] = indexMem[b] \/ indexDisk'[b] = indexDisk[b]
  BY <1>2 DEF WrittenBack
<1>5. mem' \in LogFiles /\ indexMem' \in IndexFiles
  BY DEF TypeInv, TypeOK, LogFiles, IndexFiles
<1> QED BY <1>1, <1>3, <1>4, <1>5 DEF Mixed

(* Of each file the records up to some offset survive, those synced at      *)
(* least.                                                                  *)
LEMMA MixSurvives ==
  ASSUME WalInv, Mixed, NEW b \in files, NEW u, NEW p, FileAt(b, u, p)
  PROVE  \E v \in b..u : /\ Readable(records, b, v, p, mem'[b], indexMem'[b])
                         /\ v = u \/ synced <= v
<1>1. /\ b \in Base /\ mem[b] \in [Position -> Cell] /\ mem'[b] \in [Position -> Cell]
      /\ synced \in Nat
  BY WalInvTypes DEF Mixed, LogFiles
<1>2. PICK lm, im, ld, id, c, i : /\ lm = mem[b] /\ im = indexMem[b] /\ ld = disk[b] /\ id = indexDisk[b]
                                  /\ c = mem'[b] /\ i = indexMem'[b]
  OBVIOUS
<1>3. /\ \A x \in Position : c[x] = lm[x] \/ c[x] = ld[x]
      /\ i = im \/ i = id
      /\ HeadersWhole(c) /\ c \in [Position -> Cell] /\ lm \in [Position -> Cell]
  BY <1>1, <1>2 DEF Mixed
<1>4. Readable(records, b, u, p, lm, im)
  BY <1>2 DEF FileAt
<1>5. CASE hadOutage
  <2>1. ld = lm /\ id = im
    BY <1>2, <1>5 DEF WalInv, OutageOK
  <2>2. c = lm /\ i = im
    BY <1>3, <2>1
  <2>3. u \in b..u
    BY FileBounds
  <2> QED BY <1>2, <1>4, <2>2, <2>3
<1>6. CASE ~hadOutage
  <2>1. Sound(records, b, u, p, lm, im, ld, id, synced)
    BY <1>2, <1>6 DEF FileAt
  <2>2. \E v \in b..u : Readable(records, b, v, p, c, i) /\ (v = u \/ synced <= v)
    BY <1>1, <1>3, <1>4, <2>1, FileSurvives
  <2> QED BY <1>2, <2>2
<1> QED BY <1>5, <1>6

\* The log keeps the first v records, among them those synced.
Keeps(v) ==
  /\ v \in synced..Len(records) /\ synced' = v /\ records' = SubSeq(records, 1, v) /\ Len(records') = v
  /\ Agree(records, records', v)

(* Recovery of the last file says how many records are kept.               *)
LEMMA OutageKeepsSynced ==
  ASSUME WalInv, Mixed, Outage
  PROVE  \E v \in Nat : /\ Keeps(v)
                        /\ \E p : Readable(records, Last(files), v, p, mem'[Last(files)], indexMem'[Last(files)])
<1>1. PICK B : B = Last(files)
  OBVIOUS
<1>2. files \in SUBSET Base /\ files # {}
  BY WalInvTypes DEF Outage
<1>3. B \in files /\ (\A b \in files : b <= B) /\ B \in Base
  BY <1>1, <1>2, LastIs
<1>4. PICK u, p : FileAt(B, u, p)
  BY <1>3 DEF WalInv, FilesOK
<1>5. u = Len(records) /\ B \in Nat /\ u \in Nat /\ synced \in Nat /\ synced <= u /\ records \in Seq(Payload)
  BY <1>3, <1>4, FileBounds, WalInvTypes DEF WalInv, RecordsOK
<1>6. PICK v \in B..u : /\ Readable(records, B, v, p, mem'[B], indexMem'[B])
                        /\ v = u \/ synced <= v
  BY <1>3, <1>4, MixSurvives
<1>7. v \in Nat /\ v <= u /\ synced <= v
  BY <1>5, <1>6
<1>8. Recovered(B, mem'[B]).next = v
  <2>1. PICK c : c = mem'[B]
    OBVIOUS
  <2>2. c \in [Position -> Cell]
    BY <1>3, <2>1 DEF Mixed, LogFiles
  <2>3. Layout(records, p, B, v) /\ Laid(records, c, p, B, v)
    BY <1>6, <2>1 DEF Readable
  <2>4. Recovered(B, c) = [end |-> p[v], next |-> v]
    BY <2>2, <2>3, RecoveredIs
  <2> QED BY <2>1, <2>4
<1>9. synced' = v /\ records' = SubSeq(records, 1, v)
  <2>1. PICK next : /\ next = Recovered(B, mem'[B]).next
                    /\ synced' = (IF next <= Len(records) THEN next ELSE Len(records))
                    /\ records' = SubSeq(records, 1, IF next <= Len(records) THEN next ELSE Len(records))
    BY <1>1 DEF Outage
  <2>2. next = v /\ v <= Len(records)
    BY <1>5, <1>7, <1>8, <2>1
  <2> QED BY <2>1, <2>2
<1>10. PICK t : t = SubSeq(records, 1, v)
  OBVIOUS
<1>11. t \in Seq(Payload) /\ Len(t) = v /\ \A i \in 1..v : t[i] = records[i]
  <2>1. \A i \in 1..v : i \in 1..Len(records) /\ records[i] \in Payload
    BY <1>5, <1>7, ElementOfSeq
  <2>2. v \in 0..Len(records)
    BY <1>5, <1>7
  <2> QED BY <1>5, <1>7, <1>10, <2>1, <2>2, SubSeqProperties
<1>12. Keeps(v)
  <2>1. v \in synced..Len(records)
    BY <1>5, <1>7
  <2>2. Agree(records, t, v)
    BY <1>7, <1>11 DEF Agree
  <2> QED BY <1>9, <1>10, <1>11, <2>1, <2>2 DEF Keeps
<1> QED BY <1>1, <1>6, <1>7, <1>12

(* A power failure.                                                        *)
LEMMA OutageKeeps ==
  ASSUME Faults = {}, WalInv, TypeInv', Outage
  PROVE  StoreOK' /\ ProcessOK'
<1>1. Mixed
  BY OutageMixes
<1>2. PICK B : B = Last(files)
  OBVIOUS
<1>3. /\ Ended /\ files # {} /\ files' = files /\ mem' = disk' /\ indexMem' = indexDisk' /\ hadOutage' = TRUE
  BY DEF Outage
<1>4. B \in files /\ (\A b \in files : b <= B) /\ \A b \in files : b \in Nat
  BY <1>2, <1>3, LastIs, WalInvTypes
<1>5. PICK v \in Nat : /\ Keeps(v)
                       /\ \E p : Readable(records, B, v, p, mem'[B], indexMem'[B])
  BY <1>1, <1>2, OutageKeepsSynced
<1>6. /\ v \in synced..Len(records) /\ synced' = v /\ Len(records') = v
      /\ Agree(records, records', v) /\ synced \in Nat /\ Len(records) \in Nat
  BY <1>5, WalInvTypes DEF Keeps
<1>7. ASSUME NEW b \in files PROVE \E u, p : FileAt(b, u, p)'
  <2>1. CASE b = B
    <3>1. PICK p : Readable(records, B, v, p, mem'[B], indexMem'[B])
      BY <1>5
    <3>2. Readable(records', B, v, p, mem'[B], indexMem'[B])
      BY <1>6, <3>1, FileAgrees
    <3>3. Ends(files', Len(records'), B, v)
      BY <1>3, <1>4, <1>6 DEF Ends
    <3>4. FileAt(B, v, p)'
      BY <1>3, <3>2, <3>3 DEF FileAt
    <3> QED BY <2>1, <3>4
  <2>2. CASE b # B
    <3>1. PICK u, p : FileAt(b, u, p)
      BY DEF WalInv, FilesOK
    <3>2. b < B /\ b \in Nat
      BY <1>4, <2>2
    <3>3. u \in Nat /\ b <= u /\ u <= synced /\ u <= B
      BY <1>4, <3>1, <3>2, FileBounds
    <3>4. PICK w \in b..u : /\ Readable(records, b, w, p, mem'[b], indexMem'[b])
                            /\ w = u \/ synced <= w
      BY <1>1, <3>1, MixSurvives
    <3>5. w = u
      BY <1>6, <3>2, <3>3, <3>4
    <3>6. Agree(records, records', u)
      <4>1. u <= v
        BY <1>6, <3>3
      <4>2. 1..u \subseteq 1..v
        BY <3>3, <4>1
      <4> QED BY <1>6, <4>1, <4>2 DEF Agree
    <3>7. Readable(records', b, u, p, mem'[b], indexMem'[b])
      BY <3>4, <3>5, <3>6, FileAgrees
    <3>8. Ends(files', Len(records'), b, u)
      <4>1. u \in files /\ b < u /\ \A c \in files : b < c => u <= c
        <5>1. Ends(files, Len(records), b, u)
          BY <3>1 DEF FileAt
        <5>2. ~(B <= b)
          BY <1>4, <3>2
        <5> QED BY <1>4, <5>1, <5>2 DEF Ends
      <4> QED BY <1>3, <4>1 DEF Ends
    <3>9. FileAt(b, u, p)'
      BY <1>3, <3>7, <3>8 DEF FileAt
    <3> QED BY <3>9
  <2> QED BY <2>1, <2>2
<1>8. FilesOK'
  BY <1>3, <1>7 DEF FilesOK
<1>9. RecordsOK'
  <2>1. 0 \in files /\ \A b \in files : b <= synced
    BY <1>3 DEF WalInv, RecordsOK
  <2>2. \A b \in files : b <= v
    BY <1>4, <1>6, <2>1
  <2>3. v <= v
    OBVIOUS
  <2> QED BY <1>3, <1>6, <2>1, <2>2, <2>3 DEF RecordsOK
<1>10. OutageOK'
  BY <1>3 DEF OutageOK
<1> QED BY <1>3, <1>8, <1>9, <1>10, EndedProcess DEF StoreOK

-----------------------------------------------------------------------------
(* The invariant is inductive.                                             *)

(* The first state.                                                        *)
LEMMA WalInvAtFirst ==
  ASSUME Init
  PROVE  WalInv
<1>1. TypeInv
  BY TypesAtFirst
<1>2. /\ files = {} /\ records = <<>> /\ synced = 0 /\ ~isOpen /\ ~hadOutage /\ segments = <<>>
      /\ mem = [b \in Base |-> EmptyLog] /\ disk = mem
      /\ indexMem = [b \in Base |-> EmptyIndex] /\ indexDisk = indexMem
  BY DEF Init
<1>3. FilesOK /\ RecordsOK /\ OutageOK
  <2>1. synced <= Len(records)
    BY <1>2
  <2> QED BY <1>2, <2>1 DEF FilesOK, RecordsOK, OutageOK
<1>4. ObjectsOK /\ SegmentsOK /\ ClosedOK /\ SlotsFree
  <2>1. 1..Len(segments) = {}
    BY <1>2
  <2> QED BY <1>2, <2>1 DEF ObjectsOK, SegmentsOK, ClosedOK, SlotsFree
<1> QED BY <1>1, <1>3, <1>4 DEF WalInv

(* Every step keeps it, as long as none of the faults happens.             *)
LEMMA WalInvKept ==
  ASSUME Faults = {}, WalInv, [Next]_vars
  PROVE  WalInv'
<1>1. TypeInv'
  BY TypesKept DEF WalInv
<1>2. StoreOK' /\ ProcessOK'
  <2>1. CASE OpenWAL
    BY <2>1, OpenKeeps
  <2>2. CASE \E d \in Payload : AppendInPlace(d) \/ AppendToNewSegment(d) \/ AppendRefused(d) \/ RollFails(d)
    BY <1>1, <2>2, AppendKeeps
  <2>3. CASE Sync
    BY <1>1, <2>3, SyncKeeps
  <2>4. CASE Close \/ Killed
    BY <2>4, ClosingKeeps
  <2>5. CASE \E d \in Payload : KilledInAppend(d) \/ KilledAfterRoll(d)
    BY <1>1, <2>5, KillKeeps
  <2>6. CASE Outage
    BY <1>1, <2>6, OutageKeeps
  <2>7. CASE UNCHANGED vars
    <3>1. /\ UNCHANGED <<files, mem, indexMem, disk, indexDisk, isOpen, segments, closed, active,
                         nextOffset, records, synced, hadOutage>>
      BY <2>7 DEF vars, fileVars, diskVars, walVars
    <3>2. FilesOK' /\ RecordsOK' /\ OutageOK'
      BY <3>1 DEF WalInv, FilesOK, FileAt, RecordsOK, OutageOK
    <3>3. ObjectsOK' /\ SegmentsOK' /\ ClosedOK' /\ SlotsFree'
      BY <3>1 DEF WalInv, ObjectsOK, SegmentsOK, ClosedOK, SlotsFree, Current
    <3> QED BY <3>2, <3>3 DEF StoreOK, ProcessOK
  <2> QED BY <2>1, <2>2, <2>3, <2>4, <2>5, <2>6, <2>7 DEF Next
<1> QED BY <1>1, <1>2 DEF WalInv, StoreOK, ProcessOK

(* The invariant holds in every state of every run without these faults.   *)
LEMMA WalInvHolds ==
  ASSUME Faults = {}
  PROVE  Spec => []WalInv
<1>1. Init => WalInv
  BY WalInvAtFirst
<1>2. WalInv /\ [Next]_vars => WalInv'
  BY WalInvKept
<1> QED BY <1>1, <1>2, PTL DEF Spec

-----------------------------------------------------------------------------
(* What readers find.                                                      *)

\* What a reader needs of a segment and its file.
Served(seg, u, p) ==
  /\ seg.next = u /\ seg.writePos = p[u] /\ seg.entries \in 0..MaxEntries
  /\ mem[seg.base] \in [Position -> Cell] /\ indexMem[seg.base] \in [0 .. MaxEntries - 1 -> IndexEntry]
  /\ Layout(records, p, seg.base, u) /\ Laid(records, mem[seg.base], p, seg.base, u)
  /\ Leads(indexMem[seg.base], p, seg.base, seg.entries)

(* A segment that no later one has replaced holds the records of its file.  *)
LEMMA CurrentSegment ==
  ASSUME WalInv, NEW i \in 1..Len(segments), Current(i),
         NEW u, NEW p, FileAt(segments[i].base, u, p)
  PROVE  Served(segments[i], u, p)
<1>0. PICK b : b = segments[i].base
  OBVIOUS
<1>1. PICK seg, c : seg = segments[i] /\ c = mem[b]
  OBVIOUS
<1>2. seg \in SegmentType /\ b \in Base
  BY <1>0, <1>1, WalInvTypes
<1>3. /\ seg.entries \in 0..MaxEntries /\ seg.entries \in Nat /\ seg.entries <= MaxEntries /\ MaxEntries \in Nat
      /\ c \in [Position -> Cell] /\ indexMem[b] \in [0 .. MaxEntries - 1 -> IndexEntry]
  <2>1. seg.entries \in 0..MaxEntries /\ MaxEntries \in Nat
    BY <1>2, EntriesAssumption DEF SegmentType
  <2>2. mem \in LogFiles /\ indexMem \in IndexFiles
    BY WalInvTypes
  <2>3. c \in [Position -> Cell] /\ indexMem[b] \in [0 .. MaxEntries - 1 -> IndexEntry]
    BY <1>1, <1>2, <2>2 DEF LogFiles, IndexFiles
  <2> QED BY <2>1, <2>3
<1>4. Layout(records, p, b, u) /\ Laid(records, c, p, b, u) /\ Leads(indexMem[b], p, b, MaxEntries)
  BY <1>0, <1>1 DEF FileAt, Readable
<1>5. Recovered(b, c) = [end |-> p[u], next |-> u]
  BY <1>3, <1>4, RecoveredIs
<1>6. Recovered(b, c) = [end |-> seg.writePos, next |-> seg.next]
  BY <1>0, <1>1 DEF WalInv, ObjectsOK
<1>7. Leads(indexMem[b], p, b, seg.entries)
  <2>1. \A e \in 0 .. MaxEntries - 1 : e < MaxEntries
    BY <1>3
  <2> QED BY <1>4, <2>1 DEF Leads
<1> QED BY <1>0, <1>1, <1>3, <1>4, <1>5, <1>6, <1>7 DEF Served

(* Its ReadAt finds each of them.                                          *)
LEMMA SegmentReads ==
  ASSUME WalInv, NEW i \in 1..Len(segments), Current(i),
         NEW b, b = segments[i].base, NEW u, NEW p, FileAt(b, u, p), NEW o \in b .. u - 1
  PROVE  SegmentReadAt(segments[i], o, mem[b], indexMem[b]) = records[o + 1]
<1>1. PICK seg, c, entries, s : /\ seg = segments[i] /\ c = mem[b] /\ entries = indexMem[b] /\ s = records
  OBVIOUS
<1>2. /\ seg.next = u /\ seg.writePos = p[u] /\ seg.entries \in 0..MaxEntries /\ seg.base = b
      /\ c \in [Position -> Cell] /\ entries \in [0 .. MaxEntries - 1 -> IndexEntry]
      /\ Layout(s, p, b, u) /\ Laid(s, c, p, b, u) /\ Leads(entries, p, b, seg.entries)
  <2>1. Served(segments[i], u, p)
    BY CurrentSegment
  <2> QED BY <1>1, <2>1 DEF Served
<1>3. SegmentReadAt(seg, o, c, entries) = s[o + 1]
  BY <1>2, ReadFinds
<1> QED BY <1>1, <1>3

(* The active segment has not been replaced.                               *)
LEMMA ActiveIsCurrent ==
  ASSUME WalInv, isOpen
  PROVE  active \in 1..Len(segments) /\ Current(active)
<1>1. active \in 1..Len(segments) /\ active = Len(segments)
  BY ActiveIsLast
<1>2. active + 1 .. Len(segments) = {}
  BY <1>1, WalInvTypes
<1> QED BY <1>1, <1>2 DEF Current

\* The closed segments that may hold the offset, as ReadAt selects them.
Holders(o) == {k \in 1..Len(closed) : o >= segments[closed[k]].base}

(* The newest of them does hold it: a segment comes among the closed ones   *)
(* in the order of its offsets, and one that a failed append has left empty *)
(* comes before the one with its base that is not.                         *)
LEMMA NewestHolds ==
  ASSUME WalInv, isOpen, NEW o \in Nat, o < segments[active].base
  PROVE  \E k \in Holders(o) :
           /\ \A j \in Holders(o) : j <= k
           /\ closed[k] \in 1..Len(segments) /\ Current(closed[k])
           /\ segments[closed[k]].base \in files
           /\ \A u, p : FileAt(segments[closed[k]].base, u, p) => o \in segments[closed[k]].base .. u - 1
<1>1. /\ active \in 1..Len(segments) /\ active = Len(segments) /\ segments[active].base \in files
      /\ \A b \in files : b <= segments[active].base /\ b \in Nat
  BY ActiveIsLast, WalInvTypes
<1>2. /\ Len(segments) \in Nat /\ closed \in Seq(1..Len(segments)) /\ Len(closed) \in Nat
      /\ \A i \in 1..Len(segments) : segments[i].base \in Nat
  BY WalInvTypes, LenProperties
<1>3. /\ \A i \in 1..Len(segments) : segments[i].base \in files
      /\ \A b \in files : \E i \in 1..Len(segments) : segments[i].base = b
      /\ \A i, j \in 1..Len(segments) : i < j => segments[i].base <= segments[j].base
  BY DEF WalInv, SegmentsOK
<1>4. /\ \A i, j \in 1..Len(closed) : i < j => closed[i] <= closed[j]
      /\ \A i \in 1 .. active - 1 : \E k \in 1..Len(closed) : closed[k] = i
  BY DEF WalInv, ClosedOK
<1>5. \A k \in 1..Len(closed) : closed[k] \in 1..Len(segments)
  BY <1>2, ElementOfSeq
<1>6. Holders(o) # {}
  <2>1. 0 \in files
    BY <1>1 DEF WalInv, RecordsOK
  <2>2. PICK i \in 1..Len(segments) : segments[i].base = 0
    BY <1>3, <2>1
  <2>3. i # active
    BY <1>1, <1>2, <2>2
  <2>4. i \in 1 .. active - 1
    BY <1>1, <1>2, <2>3
  <2>5. PICK k \in 1..Len(closed) : closed[k] = i
    BY <1>4, <2>4
  <2>6. o >= segments[closed[k]].base
    BY <2>2, <2>5
  <2> QED BY <2>6 DEF Holders
<1>7. PICK k \in Holders(o) : \A j \in Holders(o) : j <= k
  <2>1. Holders(o) \in SUBSET Nat /\ \A j \in Holders(o) : j <= Len(closed)
    BY <1>2 DEF Holders
  <2> QED BY <1>2, <1>6, <2>1, MaxOfNats
<1>8. PICK c : c = closed[k]
  OBVIOUS
<1>9. k \in 1..Len(closed) /\ c \in 1..Len(segments) /\ o >= segments[c].base
  BY <1>5, <1>7, <1>8 DEF Holders
<1>10. PICK b : b = segments[c].base
  OBVIOUS
<1>11. b \in files /\ b \in Nat /\ b <= o /\ b < segments[active].base /\ segments[active].base \in Nat
  BY <1>1, <1>2, <1>3, <1>9, <1>10
<1>12. ASSUME NEW j \in 1..Len(segments), c < j PROVE o < segments[j].base
  <2>1. CASE j = active
    BY <2>1
  <2>2. CASE j # active
    <3>1. j \in 1 .. active - 1
      BY <1>1, <1>2, <2>2
    <3>2. PICK m \in 1..Len(closed) : closed[m] = j
      BY <1>4, <3>1
    <3>3. k < m
      <4>1. ~(m < k)
        <5>1. m < k => closed[m] <= closed[k]
          BY <1>4, <1>9, <3>2
        <5> QED BY <1>2, <1>8, <1>9, <1>12, <3>2, <5>1
      <4>2. m # k
        BY <1>2, <1>8, <1>9, <1>12, <3>2
      <4> QED BY <1>2, <1>9, <4>1, <4>2
    <3>4. m \notin Holders(o)
      BY <1>2, <1>7, <1>9, <3>3
    <3>5. ~(o >= segments[j].base)
      BY <3>2, <3>4 DEF Holders
    <3> QED BY <1>2, <3>5
  <2> QED BY <2>1, <2>2
<1>13. Current(c)
  <2>1. ASSUME NEW j \in c + 1 .. Len(segments) PROVE segments[j].base # segments[c].base
    <3>1. j \in 1..Len(segments) /\ c < j
      BY <1>2, <1>9
    <3>2. o < segments[j].base /\ segments[j].base \in Nat
      BY <1>2, <1>12, <3>1
    <3> QED BY <1>10, <1>11, <3>2
  <2> QED BY <2>1 DEF Current
<1>14. ASSUME NEW u, NEW p, FileAt(b, u, p) PROVE o \in b .. u - 1
  <2>1. u \in files /\ u \in Nat /\ b < u
    <3>1. Ends(files, Len(records), b, u)
      BY <1>14 DEF FileAt
    <3>2. ~(segments[active].base <= b)
      BY <1>11
    <3> QED BY <1>1, <3>1, <3>2 DEF Ends
  <2>2. PICK j \in 1..Len(segments) : segments[j].base = u
    BY <1>3, <2>1
  <2>3. c < j
    <3>1. j < c => segments[j].base <= segments[c].base
      BY <1>3, <1>9
    <3>2. ~(j < c)
      BY <1>10, <1>11, <2>1, <2>2, <3>1
    <3>3. j # c
      BY <1>10, <1>11, <2>1, <2>2
    <3> QED BY <1>2, <1>9, <3>2, <3>3
  <2>4. o < u
    BY <1>12, <2>2, <2>3
  <2> QED BY <1>11, <2>1, <2>4
<1> QED BY <1>7, <1>8, <1>9, <1>10, <1>11, <1>13, <1>14

(* Every record is found at its offset.                                    *)
LEMMA ReadersFind ==
  ASSUME WalInv
  PROVE  ReadersSeeAll
<1> SUFFICES ASSUME isOpen PROVE ReadersSeeAll
  BY DEF ReadersSeeAll
<1>1. nextOffset = Len(records) /\ Len(records) \in Nat
  BY ActiveIsLast, WalInvTypes
<1>2. ASSUME NEW o \in 0 .. nextOffset - 1 PROVE ReadAt(o) = records[o + 1]
  <2>1. o \in Nat /\ o < Len(records)
    BY <1>1
  <2>2. CASE o >= segments[active].base
    <3>1. PICK b : b = segments[active].base
      OBVIOUS
    <3>2. b \in files /\ b \in Nat /\ (\A c \in files : c <= b) /\ active \in 1..Len(segments) /\ Current(active)
      BY <3>1, ActiveIsLast, ActiveIsCurrent, WalInvTypes
    <3>3. PICK u, p : FileAt(b, u, p)
      BY <3>2 DEF WalInv, FilesOK
    <3>4. u = Len(records)
      BY <3>2, <3>3, FileBounds
    <3>5. o \in b .. u - 1
      BY <1>1, <2>1, <2>2, <3>1, <3>2, <3>4
    <3>6. SegmentReadAt(segments[active], o, mem[b], indexMem[b]) = records[o + 1]
      BY <3>1, <3>2, <3>3, <3>5, SegmentReads
    <3> QED BY <2>2, <3>1, <3>6 DEF ReadAt
  <2>3. CASE ~(o >= segments[active].base)
    <3>1. o < segments[active].base
      BY <2>1, <2>3, ActiveIsLast, WalInvTypes
    <3>2. PICK k \in Holders(o) :
           /\ \A j \in Holders(o) : j <= k
           /\ closed[k] \in 1..Len(segments) /\ Current(closed[k])
           /\ segments[closed[k]].base \in files
           /\ \A u, p : FileAt(segments[closed[k]].base, u, p) => o \in segments[closed[k]].base .. u - 1
      BY <2>1, <3>1, NewestHolds
    <3>3. (CHOOSE i \in Holders(o) : \A j \in Holders(o) : j <= i) = k
      <4>1. \A i \in Holders(o) : i \in Nat
        BY DEF Holders
      <4>2. \A i \in Holders(o) : (\A j \in Holders(o) : j <= i) => i = k
        BY <3>2, <4>1
      <4> QED BY <3>2, <4>2
    <3>4. PICK i, b : i = closed[k] /\ b = segments[i].base
      OBVIOUS
    <3>5. PICK u, p : FileAt(b, u, p)
      BY <3>2, <3>4 DEF WalInv, FilesOK
    <3>6. SegmentReadAt(segments[i], o, mem[b], indexMem[b]) = records[o + 1]
      <4>1. i \in 1..Len(segments) /\ Current(i)
        BY <3>2, <3>4
      <4>2. o \in b .. u - 1
        BY <3>2, <3>4, <3>5
      <4>3. b = segments[i].base
        BY <3>4
      <4> QED BY <3>5, <4>1, <4>2, <4>3, SegmentReads
    <3>7. ReadAt(o) = SegmentReadAt(segments[i], o, mem[b], indexMem[b])
      <4>1. Holders(o) # {}
        BY <3>2
      <4> QED BY <2>3, <3>3, <3>4, <4>1 DEF ReadAt, Holders
    <3> QED BY <3>6, <3>7
  <2> QED BY <2>2, <2>3
<1> QED BY <1>1, <1>2 DEF ReadersSeeAll

(* The index leads readers to the frames.                                  *)
LEMMA IndexLeads ==
  ASSUME WalInv
  PROVE  IndexPointsAtFrames
<1>1. ASSUME NEW i \in 1..Len(segments), NEW e \in 0 .. segments[i].entries - 1,
             indexMem[segments[i].base][e].rel < segments[i].next - segments[i].base
      PROVE  LET seg == segments[i]
                 index == indexMem[seg.base]
             IN /\ index[e].pos = 0 \/ Decodes(mem[seg.base], index[e].pos, seg.writePos)
                /\ index[e].pos > 0 => FrameAt(mem[seg.base], index[e].pos).offset = seg.base + index[e].rel
  <2>1. PICK seg, b, index, c : seg = segments[i] /\ b = seg.base /\ index = indexMem[b] /\ c = mem[b]
    OBVIOUS
  <2>2. seg \in SegmentType /\ b \in Base /\ b \in Nat /\ isOpen
    <3>1. Len(segments) # 0
      BY WalInvTypes
    <3>2. ~isOpen => Len(segments) = 0
      BY DEF WalInv, SegmentsOK
    <3> QED BY <2>1, <3>1, <3>2, WalInvTypes
  <2>3. /\ seg.entries \in 0..MaxEntries /\ MaxEntries \in Nat /\ e \in 0 .. MaxEntries - 1 /\ e < seg.entries
        /\ index \in [0 .. MaxEntries - 1 -> IndexEntry]
    <3>1. seg.entries \in 0..MaxEntries /\ MaxEntries \in Nat /\ e \in 0 .. seg.entries - 1
      BY <2>1, <2>2, EntriesAssumption DEF SegmentType
    <3>2. indexMem \in IndexFiles
      BY WalInvTypes
    <3>3. index \in [0 .. MaxEntries - 1 -> IndexEntry]
      BY <2>1, <2>2, <3>2 DEF IndexFiles
    <3> QED BY <3>1, <3>3
  <2>4. PICK rel, pos : rel = index[e].rel /\ pos = index[e].pos
    OBVIOUS
  <2>5. rel \in Nat /\ pos \in Nat
    BY <2>3, <2>4 DEF IndexEntry
  <2>6. rel < seg.next - b
    BY <1>1, <2>1, <2>4
  <2>7. Current(i)
    <3>1. seg.next # b
      BY <2>2, <2>5, <2>6
    <3> QED BY <2>1, <3>1 DEF WalInv, ObjectsOK
  <2>8. b \in files
    BY <2>1, <2>2 DEF WalInv, SegmentsOK
  <2>9. PICK u, p : FileAt(b, u, p)
    BY <2>8 DEF WalInv, FilesOK
  <2>10. /\ seg.next = u /\ seg.writePos = p[u] /\ Layout(records, p, b, u) /\ Laid(records, c, p, b, u)
         /\ Leads(index, p, b, seg.entries) /\ c \in [Position -> Cell]
    <3>1. FileAt(segments[i].base, u, p)
      BY <2>1, <2>9
    <3>2. Served(segments[i], u, p)
      BY <2>7, <3>1, CurrentSegment
    <3> QED BY <2>1, <3>2 DEF Served
  <2>11. pos = 0 \/ pos = p[b + rel]
    BY <2>3, <2>4, <2>10 DEF Leads
  <2>12. PICK o : o = b + rel
    OBVIOUS
  <2>13. b \in Nat /\ u \in Nat /\ o \in b .. u - 1
    <3>1. u \in Nat
      BY <2>10, LayoutTypes
    <3> QED BY <2>2, <2>5, <2>6, <2>10, <2>12, <3>1
  <2>14. ASSUME pos > 0
         PROVE  Decodes(c, pos, seg.writePos) /\ FrameAt(c, pos).offset = b + rel
    <3>1. pos = p[o]
      BY <2>5, <2>11, <2>12, <2>14
    <3>2. IsFrame(records, c, p, o)
      BY <2>10, <2>13 DEF Laid
    <3>3. NextFrame(c, p[o]) = p[o + 1] /\ FrameAt(c, p[o]).offset = o
      BY <2>10, <2>13, <3>2, FrameFollows
    <3>4. p[o + 1] <= p[u]
      <4>1. o + 1 \in b..u /\ u \in b..u /\ (o + 1 < u \/ o + 1 = u)
        BY <2>13
      <4>2. o + 1 < u => p[o + 1] < p[u]
        BY <2>10, <4>1 DEF Layout
      <4>3. p[o + 1] \in Nat /\ p[u] \in Nat
        BY <2>10, <4>1, LayoutTypes
      <4> QED BY <4>1, <4>2, <4>3
    <3>5. Decodes(c, p[o], MaxSegmentBytes)
      BY <3>2 DEF IsFrame
    <3>6. FrameAt(c, p[o]) = FrameOf(records, o)
      BY <3>2 DEF IsFrame
    <3>7. /\ p[o] \in Nat /\ p[o + 1] \in Nat /\ p[u] \in Nat /\ SizeOf[records[o + 1]] \in Nat
          /\ p[o + 1] = p[o] + 2 + SizeOf[records[o + 1]]
          /\ Read(c[p[o] + 1]).length = SizeOf[records[o + 1]]
      <4>1. o \in b..u /\ o + 1 \in b..u /\ u \in b..u
        BY <2>13
      <4>2. FrameAt(c, p[o]).length = SizeOf[records[o + 1]]
        BY <3>6 DEF FrameOf, Fields
      <4>3. p[o] \in Nat /\ p[o + 1] \in Nat /\ p[u] \in Nat
        BY <2>10, <4>1, LayoutTypes
      <4>4. SizeOf[records[o + 1]] \in Nat /\ p[o + 1] = p[o] + 2 + SizeOf[records[o + 1]]
        <5>1. Layout(records, p, b, u) /\ o \in b .. u - 1
          BY <2>10, <2>13
        <5> QED BY <5>1, LayoutTypes
      <4> QED BY <4>2, <4>3, <4>4 DEF FrameAt
    <3>8. Decodes(c, p[o], p[u])
      <4>1. p[o] + 2 <= p[u] /\ p[o] + 2 + Read(c[p[o] + 1]).length <= p[u]
        BY <3>4, <3>7
      <4> QED BY <3>5, <4>1 DEF Decodes, HeaderSize
    <3> QED BY <2>10, <2>12, <3>1, <3>3, <3>8
  <2> QED BY <2>1, <2>4, <2>5, <2>14
<1> QED BY <1>1 DEF IndexPointsAtFrames

(* The theorem of the readers: as long as none of AllFaults happens, every  *)
(* record is found at the offset Append gave it - through rolls, refused    *)
(* records, failed rolls, kills inside Append and Roll, torn frames, full   *)
(* and reopened indexes, and power failures as far as records are synced -  *)
(* whatever the sizes of records, segments, indexes and pages.             *)
THEOREM ReadersAreServed ==
  ASSUME Faults = {}
  PROVE  Spec => []ReadersSeeAll
<1>1. WalInv => ReadersSeeAll
  BY ReadersFind
<1> QED BY <1>1, WalInvHolds, PTL

(* An index entry never points past the frame it was written for, nor       *)
(* between two frames.                                                     *)
THEOREM IndexesAreSound ==
  ASSUME Faults = {}
  PROVE  Spec => []IndexPointsAtFrames
<1>1. WalInv => IndexPointsAtFrames
  BY IndexLeads
<1> QED BY <1>1, WalInvHolds, PTL

-----------------------------------------------------------------------------
(* The refinement of AppendOnlyLog.                                        *)

(* A step that appends a record or none, and syncs what there was or nothing. *)
LEMMA LogGrows ==
  ASSUME WalInv, isOpen, synced' = synced \/ synced' = nextOffset,
         UNCHANGED records \/ \E d \in Payload : records' = Append(records, d)
  PROVE  Log!Next
<1>1. /\ nextOffset = Len(records) /\ synced \in Nat /\ Len(records) \in Nat /\ synced <= Len(records)
      /\ records \in Seq(Payload)
  BY ActiveIsLast, WalInvTypes DEF WalInv, RecordsOK
<1>2. Len(records') = Len(records) \/ Len(records') = Len(records) + 1
  BY <1>1, AppendProperties
<1>3. synced' \in synced .. Len(records')
  BY <1>1, <1>2
<1> QED BY <1>3 DEF Log!Next, Log!AppendRecord, Log!WriteBack, Log!SyncGrows

(* Every step of the WAL is one of the log, or none.                       *)
LEMMA LogStep ==
  ASSUME Faults = {}, WalInv, TypeInv', [Next]_vars
  PROVE  [Log!Next]_<<records, synced>>
<1>1. CASE \E d \in Payload : AppendInPlace(d) \/ AppendToNewSegment(d) \/ AppendRefused(d) \/ RollFails(d)
  <2>1. /\ isOpen
        /\ synced' = synced \/ synced' = nextOffset
        /\ UNCHANGED records \/ \E d \in Payload : records' = Append(records, d)
    BY <1>1 DEF AppendInPlace, AppendToNewSegment, AppendRefused, RollFails, MayAppend, Roll, Write
  <2> QED BY <2>1, LogGrows
<1>2. CASE \E d \in Payload : KilledInAppend(d) \/ KilledAfterRoll(d)
  <2>1. PICK d \in Payload : KilledInAppend(d) \/ KilledAfterRoll(d)
    BY <1>2
  <2>2. isOpen /\ (synced' = synced \/ synced' = nextOffset) /\ \E seg : KilledInWrite(seg, d)
    BY <2>1 DEF KilledInAppend, KilledAfterRoll, MayAppend
  <2>3. UNCHANGED records \/ records' = Append(records, d)
    BY <2>2 DEF KilledInWrite
  <2> QED BY <2>2, <2>3, LogGrows
<1>3. CASE Sync
  BY <1>3, LogGrows DEF Sync
<1>4. CASE OpenWAL \/ Close \/ Killed \/ UNCHANGED vars
  BY <1>4 DEF OpenWAL, Close, Killed, vars
<1>5. CASE Outage
  <2>1. PICK v \in Nat : Keeps(v)
    BY <1>5, OutageMixes, OutageKeepsSynced
  <2>2. /\ v \in synced..Len(records) /\ records' = SubSeq(records, 1, v) /\ synced' = Len(records')
    BY <2>1 DEF Keeps
  <2>3. Log!PowerFails
    BY <2>2 DEF Log!PowerFails
  <2> QED BY <2>3 DEF Log!Next
<1> QED BY <1>1, <1>2, <1>3, <1>4, <1>5 DEF Next

(* The WAL implements the log its name promises, as long as none of         *)
(* AllFaults happens: no kill between the writes of Append takes more than  *)
(* the record being appended, and no power failure takes a synced one,      *)
(* whichever pages the disk has seen.                                      *)
THEOREM ImplementsAppendOnlyLog ==
  ASSUME Faults = {}
  PROVE  Spec => IsALog
<1>1. Init => Log!Init
  BY DEF Init, Log!Init
<1>2. WalInv /\ WalInv' /\ [Next]_vars => [Log!Next]_<<records, synced>>
  BY LogStep DEF WalInv
<1> QED BY <1>1, <1>2, WalInvHolds, PTL DEF Spec, IsALog, Log!Spec
=============================================================================
