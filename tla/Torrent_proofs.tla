--------------------------- MODULE Torrent_proofs ---------------------------
(***************************************************************************)
(* Theorems about downloads, for any files, pieces, slices and reads.      *)
(***************************************************************************)
EXTENDS Torrent, RecursionTheorems, SequenceTheorems, TLAPS

-----------------------------------------------------------------------------
(***************************************************************************)
(* Files lie one behind the other.                                         *)
(***************************************************************************)

LEMMA Sizes ==
  /\ Len(FileLens) \in Nat \ {0} /\ Files = 1 .. Len(FileLens)
  /\ \A f \in Files : FileLens[f] \in Nat \ {0}
  /\ PieceLength \in Nat \ {0} /\ SliceSize \in Nat \ {0} /\ MaxRead \in Nat \ {0}
<1>1. FileLens \in Seq(Nat \ {0}) /\ FileLens # <<>>
  BY TorrentAssumption
<1>2. Len(FileLens) \in Nat \ {0} /\ Files = 1 .. Len(FileLens)
  BY <1>1, LenProperties, EmptySeq DEF Files
<1>3. \A f \in Files : FileLens[f] \in Nat \ {0}
  BY <1>1, <1>2, ElementOfSeq
<1> QED
  BY <1>2, <1>3, TorrentAssumption

LEMMA FileEndIs ==
  /\ FileEnd \in [0 .. Len(FileLens) -> Nat]
  /\ FileEnd[0] = 0
  /\ \A f \in Files : FileEnd[f] = FileEnd[f - 1] + FileLens[f]
<1> DEFINE N == Len(FileLens)
           step == [n \in 1 .. N |-> [k \in Nat |-> k + FileLens[n]]]
           Rec(g) == [f \in {0} \cup Files |-> IF f = 0 THEN 0 ELSE g[f - 1] + FileLens[f]]
<1>1. N \in Nat /\ Files = 1 .. N /\ \A f \in 1 .. N : FileLens[f] \in Nat
  BY Sizes
<1>2. {0} \cup Files = 0 .. N
  BY <1>1
<1>3. step \in Steps(N, Nat)
  BY <1>1 DEF Steps
<1> HIDE DEF N
<1>4. \A n \in 1 .. N : \A k \in Nat : step[n][k] = k + FileLens[n]
  OBVIOUS
<1> HIDE DEF step
<1>5. PICK g \in [0 .. N -> Nat] : g[0] = 0 /\ \A n \in 1 .. N : g[n] = step[n][g[n - 1]]
  <2>1. 0 \in Nat /\ N \in Nat
    BY <1>1
  <2>2. Recursions(N, Nat, 0, step) # {}
    BY <1>3, <2>1, Recursion
  <2> QED
    BY <2>2 DEF Recursions
<1>6. \A n \in 1 .. N : g[n] = g[n - 1] + FileLens[n]
  <2> SUFFICES ASSUME NEW n \in 1 .. N
               PROVE  g[n] = g[n - 1] + FileLens[n]
    OBVIOUS
  <2>1. n - 1 \in 0 .. N
    BY <1>1
  <2>2. g[n - 1] \in Nat
    BY <1>5, <2>1
  <2> QED
    BY <1>4, <1>5, <2>2
<1>7. g = Rec(g)
  <2>1. \A f \in 0 .. N : g[f] = IF f = 0 THEN 0 ELSE g[f - 1] + FileLens[f]
    BY <1>1, <1>5, <1>6
  <2>2. g = [f \in 0 .. N |-> g[f]]
    BY <1>5
  <2> QED
    BY <1>2, <2>1, <2>2
<1>8. FileEnd = Rec(FileEnd)
  BY <1>7 DEF FileEnd
<1>9. \A f \in 0 .. N : FileEnd[f] = IF f = 0 THEN 0 ELSE FileEnd[f - 1] + FileLens[f]
  BY <1>2, <1>8
<1>10. FileEnd = [f \in 0 .. N |-> FileEnd[f]]
  BY <1>2, <1>8
<1> HIDE DEF Rec
<1>11. \A f \in 0 .. N : FileEnd[f] \in Nat
  <2> DEFINE S == {m \in Nat : m <= N => FileEnd[m] \in Nat}
  <2>1. 0 \in S
    BY <1>1, <1>9
  <2>2. ASSUME NEW m \in Nat, m \in S
        PROVE  m + 1 \in S
    <3> SUFFICES ASSUME m + 1 <= N
                 PROVE  FileEnd[m + 1] \in Nat
      OBVIOUS
    <3>1. m + 1 \in 0 .. N /\ m + 1 # 0 /\ (m + 1) - 1 = m /\ m + 1 \in 1 .. N
      BY <1>1
    <3>2. FileEnd[m + 1] = FileEnd[m] + FileLens[m + 1]
      BY <1>9, <3>1
    <3>3. FileEnd[m] \in Nat
      BY <1>1, <2>2
    <3> QED
      BY <1>1, <3>1, <3>2, <3>3
  <2> HIDE DEF S
  <2>3. Nat \subseteq S
    BY <2>1, <2>2, SetInduction
  <2> QED
    BY <1>1, <2>3 DEF S
<1>12. FileEnd \in [0 .. N -> Nat]
  <2>1. [f \in 0 .. N |-> FileEnd[f]] \in [0 .. N -> Nat]
    BY <1>11
  <2> QED
    BY <1>10, <2>1
<1>13. 0 \in 0 .. N /\ \A f \in 1 .. N : f \in 0 .. N /\ f # 0
  BY <1>1
<1>14. FileEnd[0] = 0 /\ \A f \in 1 .. N : FileEnd[f] = FileEnd[f - 1] + FileLens[f]
  BY <1>9, <1>13
<1> QED
  BY <1>1, <1>12, <1>14 DEF N

LEMMA EndsRise ==
  ASSUME NEW f \in 0 .. Len(FileLens), NEW g \in 0 .. Len(FileLens), f <= g
  PROVE  FileEnd[f] <= FileEnd[g]
<1> DEFINE N == Len(FileLens)
           S == {d \in Nat : f + d <= N => FileEnd[f] <= FileEnd[f + d]}
<1>1. N \in Nat /\ f \in 0 .. N /\ g \in 0 .. N
  BY Sizes
<1>2. \A h \in 0 .. N : FileEnd[h] \in Nat
  BY FileEndIs
<1>3. \A h \in 1 .. N : FileEnd[h] = FileEnd[h - 1] + FileLens[h] /\ FileLens[h] \in Nat
  BY FileEndIs, Sizes
<1> HIDE DEF N
<1>4. 0 \in S
  BY <1>1, <1>2
<1>5. ASSUME NEW d \in Nat, d \in S
      PROVE  d + 1 \in S
  <2> SUFFICES ASSUME f + (d + 1) <= N
               PROVE  FileEnd[f] <= FileEnd[f + (d + 1)]
    OBVIOUS
  <2>1. /\ f + d <= N /\ f + d \in 0 .. N /\ f + (d + 1) \in 1 .. N
        /\ (f + (d + 1)) - 1 = f + d
    BY <1>1
  <2>2. FileEnd[f] <= FileEnd[f + d]
    BY <1>5, <2>1
  <2>3. FileEnd[f + (d + 1)] = FileEnd[f + d] + FileLens[f + (d + 1)]
    BY <1>3, <2>1
  <2> QED
    BY <1>1, <1>2, <1>3, <2>1, <2>2, <2>3
<1> HIDE DEF S
<1>6. Nat \subseteq S
  BY <1>4, <1>5, SetInduction
<1>7. g - f \in Nat /\ f + (g - f) = g /\ g <= N
  BY <1>1
<1> QED
  BY <1>6, <1>7 DEF S

(* Where a file lies; no other file has a byte in the same place.          *)
LEMMA FileLies ==
  ASSUME NEW f \in Files
  PROVE  /\ FileBegin(f) \in Nat /\ FileEnd[f] \in Nat
         /\ FileEnd[f] = FileBegin(f) + FileLens[f] /\ FileBegin(f) < FileEnd[f]
         /\ FileEnd[f] <= TotalSize /\ TotalSize \in Nat
<1> DEFINE N == Len(FileLens)
<1>1. N \in Nat \ {0} /\ f \in 1 .. N /\ f - 1 \in 0 .. N /\ f \in 0 .. N /\ N \in 0 .. N
  BY Sizes
<1>2. FileEnd[f] = FileEnd[f - 1] + FileLens[f] /\ FileLens[f] \in Nat \ {0}
  BY FileEndIs, Sizes
<1>3. FileEnd[f - 1] \in Nat /\ FileEnd[f] \in Nat /\ FileEnd[N] \in Nat
  BY <1>1, FileEndIs
<1>4. FileEnd[f] <= FileEnd[N]
  BY <1>1, EndsRise
<1> QED
  BY <1>2, <1>3, <1>4 DEF FileBegin, TotalSize

LEMMA FilesApart ==
  ASSUME NEW f \in Files, NEW g \in Files, f # g
  PROVE  FileEnd[f] <= FileBegin(g) \/ FileEnd[g] <= FileBegin(f)
<1> DEFINE N == Len(FileLens)
<1>1. /\ N \in Nat /\ f \in 0 .. N /\ g \in 0 .. N /\ f - 1 \in 0 .. N /\ g - 1 \in 0 .. N
      /\ f <= g - 1 \/ g <= f - 1
  BY Sizes
<1>2. CASE f <= g - 1
  BY <1>1, <1>2, EndsRise DEF FileBegin
<1>3. CASE g <= f - 1
  BY <1>1, <1>3, EndsRise DEF FileBegin
<1> QED
  BY <1>1, <1>2, <1>3

-----------------------------------------------------------------------------
(***************************************************************************)
(* Pieces and slices.                                                      *)
(***************************************************************************)

GoodSlices ==
  {s \in [index : 0 .. Npieces - 1, begin : Nat, length : Nat \ {0}] :
     s.begin + s.length <= PieceLen(s.index)}

(* The slice s lies in file f, and in no other one.                        *)
Off(s, f) == Begin(s) - FileBegin(f)
Holds(f, s) ==
  /\ f \in Files /\ Touched(s) = {f}
  /\ Part(s, f) = [begin |-> Off(s, f), length |-> s.length]
  /\ Off(s, f) \in Nat /\ s.length \in Nat \ {0} /\ Off(s, f) + s.length <= FileLens[f]

LEMMA PieceLengths ==
  ASSUME NEW i
  PROVE  PieceLen(i) \in Nat \ {0}
<1>1. TotalSize \in Nat
  <2>1. Len(FileLens) \in Files
    BY Sizes
  <2> QED
    BY <2>1, FileLies
<1>2. TotalSize % PieceLength \in Nat
  BY <1>1, Sizes
<1> DEFINE r == TotalSize % PieceLength
<1> HIDE DEF r
<1>3. r \in Nat /\ LastLen = IF r # 0 THEN r ELSE PieceLength
  BY <1>2 DEF LastLen, r
<1>4. LastLen \in Nat \ {0}
  BY <1>3, Sizes
<1> QED
  BY <1>4, Sizes DEF PieceLen

LEMMA WholeIsGood ==
  ASSUME NEW i \in 0 .. Npieces - 1
  PROVE  WholePiece(i) \in GoodSlices
<1>1. PieceLen(i) \in Nat \ {0} /\ 0 \in Nat /\ 0 + PieceLen(i) <= PieceLen(i)
  BY PieceLengths
<1> QED
  BY <1>1 DEF WholePiece, GoodSlices

LEMMA SliceInFile ==
  ASSUME OneFileEach, NEW s \in GoodSlices
  PROVE  \E f \in Files :
           /\ Holds(f, s)
           /\ Holds(f, WholePiece(s.index))
<1> DEFINE i == s.index
           p == i * PieceLength
           L == PieceLen(i)
           w == WholePiece(i)
<1>1. /\ i \in 0 .. Npieces - 1 /\ s.begin \in Nat /\ s.length \in Nat \ {0}
      /\ s.begin + s.length <= L
  BY DEF GoodSlices
<1>2. L \in Nat \ {0}
  BY PieceLengths
<1>3. p \in Int
  <2>1. i \in Int /\ PieceLength \in Int
    BY <1>1, Sizes
  <2> QED
    BY <2>1
<1>4. PICK f \in Files : FileBegin(f) <= p /\ p + L <= FileEnd[f]
  BY <1>1 DEF OneFileEach
<1>5. Begin(s) = p + s.begin
  BY DEF Begin
<1>6. Begin(w) = p + 0 /\ w.length = L
  BY DEF Begin, WholePiece
<1>7. ASSUME NEW t, NEW b \in Nat, NEW n \in Nat \ {0}, b + n <= L,
             Begin(t) = p + b, t.length = n
      PROVE  Holds(f, t)
  <2> HIDE DEF p, L
  <2>1. /\ FileBegin(f) \in Nat /\ FileEnd[f] \in Nat /\ FileEnd[f] = FileBegin(f) + FileLens[f]
    BY FileLies
  <2>2. FileLens[f] \in Nat
    BY Sizes
  <2>3. /\ FileEnd[f] > Begin(t) /\ FileBegin(f) < Begin(t) + t.length
        /\ FileBegin(f) <= Begin(t) /\ Begin(t) + t.length <= FileEnd[f] /\ Begin(t) \in Int
    BY <1>2, <1>3, <1>4, <1>7, <2>1
  <2>4. \A g \in Files : g # f => ~ (FileEnd[g] > Begin(t) /\ FileBegin(g) < Begin(t) + t.length)
    <3> SUFFICES ASSUME NEW g \in Files, g # f
                 PROVE  ~ (FileEnd[g] > Begin(t) /\ FileBegin(g) < Begin(t) + t.length)
      OBVIOUS
    <3>1. FileEnd[f] <= FileBegin(g) \/ FileEnd[g] <= FileBegin(f)
      BY FilesApart
    <3>2. FileEnd[g] \in Nat /\ FileBegin(g) \in Nat
      BY FileLies
    <3> QED
      BY <1>7, <2>1, <2>3, <3>1, <3>2
  <2>5. Touched(t) = {f}
    BY <2>3, <2>4 DEF Touched
  <2>6. Upper(FileBegin(f), Begin(t)) = Begin(t)
    BY <2>1, <2>3 DEF Upper
  <2>7. Lower(FileEnd[f], Begin(t) + t.length) = Begin(t) + t.length
    BY <1>7, <2>1, <2>3 DEF Lower
  <2>8. (Begin(t) + t.length) - Begin(t) = t.length
    BY <1>7, <2>3
  <2>9. Part(t, f) = [begin |-> Off(t, f), length |-> t.length]
    BY <2>6, <2>7, <2>8 DEF Part, Off
  <2>10. Off(t, f) \in Nat /\ Off(t, f) + t.length <= FileLens[f]
    BY <1>7, <2>1, <2>2, <2>3 DEF Off
  <2> QED
    BY <1>7, <2>5, <2>9, <2>10 DEF Holds
<1>8. Holds(f, s)
  BY <1>1, <1>5, <1>7
<1>9. Holds(f, w)
  <2>1. 0 \in Nat /\ 0 + L <= L
    BY <1>2
  <2> QED
    BY <1>2, <1>6, <1>7, <2>1
<1> QED
  BY <1>8, <1>9

(* What sliceop reads and writes of a slice that lies in one file.         *)
Stored(d, f, s) == [k \in 0 .. s.length - 1 |-> d[f][Off(s, f) + k]]

LEMMA ReadsInFile ==
  ASSUME NEW s, NEW f, Holds(f, s), NEW d
  PROVE  ReadSlice(d, s) = Stored(d, f, s)
<1>1. /\ Touched(s) = {f} /\ f \in Files
      /\ Part(s, f).begin = Off(s, f) /\ Part(s, f).length = s.length /\ s.length \in Nat
  BY DEF Holds
<1>2. f <= f
  BY <1>1, Sizes
<1>3. ASSUME NEW k \in 0 .. s.length - 1
      PROVE  {g \in Touched(s) : k < Part(s, g).length} = {f}
  BY <1>1
<1>4. (CHOOSE g \in {f} : \A h \in {f} : h <= g) = f
  BY <1>2
<1> DEFINE Here(k) == {g \in Touched(s) : k < Part(s, g).length}
           Last1(k) == CHOOSE g \in Here(k) : \A h \in Here(k) : h <= g
           Value(k) == IF Here(k) = {} THEN 0 ELSE d[Last1(k)][Part(s, Last1(k)).begin + k]
<1>5. \A k \in 0 .. s.length - 1 : Here(k) = {f}
  BY <1>3
<1> HIDE DEF Here
<1>6. \A k \in 0 .. s.length - 1 : Last1(k) = f
  BY <1>4, <1>5
<1> HIDE DEF Last1
<1>7. \A k \in 0 .. s.length - 1 : Value(k) = d[f][Off(s, f) + k]
  BY <1>1, <1>5, <1>6
<1> HIDE DEF Value
<1>8. ReadSlice(d, s) = [k \in 0 .. s.length - 1 |-> Value(k)]
  BY DEF ReadSlice, Value, Last1, Here
<1> QED
  BY <1>7, <1>8 DEF Stored

Overwritten(d, f, s, data) ==
  [pos \in 0 .. FileLens[f] - 1 |->
     IF pos - Off(s, f) \in 0 .. s.length - 1 THEN data[pos - Off(s, f)]
     ELSE IF d[f] = Missing THEN 0 ELSE d[f][pos]]

LEMMA WritesInFile ==
  ASSUME NEW s, NEW f, Holds(f, s), NEW d, NEW data, NEW g \in Files
  PROVE  WriteSlice(d, s, data)[g] =
           IF g # f \/ d[f] = NoPlace THEN d[g] ELSE Overwritten(d, f, s, data)
<1>1. /\ Touched(s) = {f} /\ f \in Files
      /\ Part(s, f).begin = Off(s, f) /\ Part(s, f).length = s.length
  BY DEF Holds
<1>2. f <= f
  BY <1>1, Sizes
<1>3. CASE g # f
  BY <1>1, <1>3 DEF WriteSlice
<1>4. CASE g = f /\ d[f] = NoPlace
  BY <1>1, <1>2, <1>4 DEF WriteSlice
<1>5. CASE g = f /\ d[f] # NoPlace
  BY <1>1, <1>2, <1>5 DEF WriteSlice, Overwritten
<1> QED
  BY <1>3, <1>4, <1>5

-----------------------------------------------------------------------------
(***************************************************************************)
(* check_piece.                                                            *)
(***************************************************************************)

LEMMA CheckIsRight ==
  ASSUME OneFileEach, NEW p \in Peers, NEW i \in 0 .. Npieces - 1
  PROVE  CheckPiece(disk[p], i) <=> Right(p, i)
<1> DEFINE w == WholePiece(i)
           L == PieceLen(i)
           start == i * PieceLength
<1>1. w.index = i /\ w.length = L /\ Begin(w) = start + 0
  BY DEF WholePiece, Begin
<1>2. L \in Nat \ {0}
  BY PieceLengths
<1>3. start \in Int
  <2>1. i \in Int /\ PieceLength \in Int
    BY Sizes
  <2> QED
    BY <2>1
<1>4. PICK f \in Files : Holds(f, w)
  BY <1>1, WholeIsGood, SliceInFile
<1> DEFINE o == Off(w, f)
           F == disk[p][f]
<1>5. /\ Touched(w) = {f} /\ o \in Nat /\ o + L <= FileLens[f]
      /\ Part(w, f).begin = o /\ Part(w, f).length = L
  BY <1>1, <1>4 DEF Holds
<1>6. FileLens[f] \in Nat /\ FileBegin(f) \in Nat /\ o = (start + 0) - FileBegin(f)
  BY <1>1, Sizes, FileLies DEF Off
<1>7. ReadSlice(disk[p], w) = [k \in 0 .. L - 1 |-> F[o + k]]
  <2> HIDE DEF w
  <2>1. ReadSlice(disk[p], w) = Stored(disk[p], f, w)
    BY <1>4, ReadsInFile
  <2> QED
    BY <1>1, <2>1 DEF Stored
<1>8. ProperPiece(i) = [k \in 0 .. L - 1 |-> start + k + 1]
  BY DEF ProperPiece
<1>9. CheckPiece(disk[p], i) <=> \A k \in 0 .. L - 1 : F[o + k] = start + k + 1
  <2> HIDE DEF L, o, F, start, w
  <2>1. ([k \in 0 .. L - 1 |-> F[o + k]] = [k \in 0 .. L - 1 |-> start + k + 1])
          <=> \A k \in 0 .. L - 1 : F[o + k] = start + k + 1
    OBVIOUS
  <2> QED
    BY <1>7, <1>8, <2>1 DEF CheckPiece, w
<1>10. Right(p, i) <=> \A pos \in o .. o + L - 1 : F[pos] = Proper[f][pos]
  BY <1>5 DEF Right
<1> HIDE DEF L, o, F, start, w
<1>11. \A pos \in o .. o + L - 1 : Proper[f][pos] = FileBegin(f) + pos + 1
  <2>1. \A pos \in o .. o + L - 1 : pos \in 0 .. FileLens[f] - 1
    BY <1>2, <1>5, <1>6
  <2> QED
    BY <2>1 DEF Proper
<1>12. ASSUME \A k \in 0 .. L - 1 : F[o + k] = start + k + 1, NEW pos \in o .. o + L - 1
       PROVE  F[pos] = FileBegin(f) + pos + 1
  <2> DEFINE k == pos - o
  <2>1. k \in 0 .. L - 1 /\ o + k = pos /\ start + k + 1 = FileBegin(f) + pos + 1
    BY <1>2, <1>3, <1>5, <1>6
  <2> QED
    BY <1>12, <2>1
<1>13. ASSUME \A pos \in o .. o + L - 1 : F[pos] = FileBegin(f) + pos + 1, NEW k \in 0 .. L - 1
       PROVE  F[o + k] = start + k + 1
  <2>1. o + k \in o .. o + L - 1 /\ FileBegin(f) + (o + k) + 1 = start + k + 1
    BY <1>2, <1>3, <1>5, <1>6
  <2> QED
    BY <1>13, <2>1
<1>14. (\A pos \in o .. o + L - 1 : F[pos] = Proper[f][pos])
         <=> \A pos \in o .. o + L - 1 : F[pos] = FileBegin(f) + pos + 1
  BY <1>11
<1> QED
  BY <1>9, <1>10, <1>12, <1>13, <1>14

(* As long as no piece lies in two files, check_piece finds a piece right  *)
(* exactly when each of its bytes is in its place on the disk.             *)
THEOREM ChecksAreRight ==
  ASSUME OneFileEach
  PROVE  Spec => []ChecksAgree
<1>1. ChecksAgree
  BY CheckIsRight DEF ChecksAgree
<1> QED
  BY <1>1, PTL

-----------------------------------------------------------------------------
(***************************************************************************)
(* What is on the way to either side.                                      *)
(***************************************************************************)

Cells(M) == [msg : M, part : Nat]

(* Whole messages, one behind the other.                                   *)
Follows(st, k) ==
  /\ st[k].part \in 1 .. Size(st[k].msg)
  /\ st[k].part = 1 \/ (k > 1 /\ st[k - 1].msg = st[k].msg /\ st[k - 1].part = st[k].part - 1)
  /\ st[k].part = Size(st[k].msg) \/ (k < Len(st) /\ st[k + 1].part = st[k].part + 1)
Framed(M) == {st \in Seq(Cells(M)) : \A k \in 1 .. Len(st) : Follows(st, k)}

LEMMA Sequence ==
  ASSUME NEW S, NEW s \in Seq(S)
  PROVE  Len(s) \in Nat /\ DOMAIN s = 1 .. Len(s) /\ \A k \in 1 .. Len(s) : s[k] \in S
  BY LenProperties, ElementOfSeq

LEMMA Sizeable ==
  ASSUME NEW m
  PROVE  Size(m) \in {2, 3}
  BY DEF Size

LEMMA Joined ==
  ASSUME NEW S, NEW a \in Seq(S), NEW b \in Seq(S)
  PROVE  /\ a \o b \in Seq(S) /\ Len(a \o b) = Len(a) + Len(b)
         /\ Len(a) \in Nat /\ Len(b) \in Nat
         /\ \A k \in 1 .. Len(a) : (a \o b)[k] = a[k]
         /\ \A k \in 1 .. Len(b) : (a \o b)[Len(a) + k] = b[k]
  BY ConcatProperties, LenProperties

LEMMA FramedJoined ==
  ASSUME NEW M, NEW a \in Framed(M), NEW b \in Framed(M)
  PROVE  a \o b \in Framed(M)
<1> DEFINE c == a \o b
           m == Len(a)
           n == Len(b)
<1>1. a \in Seq(Cells(M)) /\ b \in Seq(Cells(M))
  BY DEF Framed
<1>2. /\ c \in Seq(Cells(M)) /\ Len(c) = m + n /\ m \in Nat /\ n \in Nat
      /\ \A k \in 1 .. m : c[k] = a[k]
      /\ \A k \in 1 .. n : c[m + k] = b[k]
  BY <1>1, Joined
<1>3. \A k \in 1 .. m : Follows(a, k)
  BY DEF Framed
<1>4. \A k \in 1 .. n : Follows(b, k)
  BY DEF Framed
<1> HIDE DEF c
<1>5. ASSUME NEW k \in 1 .. m
      PROVE  Follows(c, k)
  <2> DEFINE before == k - 1
             after == k + 1
  <2>1. /\ c[k] = a[k] /\ Follows(a, k)
        /\ k > 1 => c[k - 1] = a[k - 1]
        /\ k < m => c[k + 1] = a[k + 1]
        /\ k < m => k < Len(c)
    <3> HIDE DEF m, n
    <3>1. k > 1 => k - 1 \in 1 .. m
      BY <1>2
    <3>2. k < m => k + 1 \in 1 .. m
      BY <1>2
    <3>3. k < m => k < Len(c)
      BY <1>2
    <3> QED
      BY <1>2, <1>3, <3>1, <3>2, <3>3
  <2> HIDE DEF m, n
  <2>2. m = Len(a)
    BY DEF m
  <2> QED
    BY <2>1, <2>2 DEF Follows
<1>6. ASSUME NEW j \in 1 .. n
      PROVE  Follows(c, m + j)
  <2>1. /\ c[m + j] = b[j] /\ Follows(b, j)
        /\ j > 1 => c[(m + j) - 1] = b[j - 1] /\ m + j > 1
        /\ j < n => c[(m + j) + 1] = b[j + 1] /\ m + j < Len(c)
    <3>1. ASSUME j > 1
          PROVE  c[(m + j) - 1] = b[j - 1] /\ m + j > 1
      <4>1. j - 1 \in 1 .. n /\ (m + j) - 1 = m + (j - 1) /\ m + j > 1
        BY <1>2, <3>1
      <4> QED
        BY <1>2, <4>1
    <3> HIDE DEF m, n
    <3>3. ASSUME j < n
          PROVE  c[(m + j) + 1] = b[j + 1] /\ m + j < Len(c)
      <4>1. j + 1 \in 1 .. n /\ (m + j) + 1 = m + (j + 1) /\ m + j < m + n
        BY <1>2, <3>3
      <4> QED
        BY <1>2, <4>1
    <3>4. c[m + j] = b[j] /\ Follows(b, j)
      BY <1>2, <1>4
    <3> QED
      BY <3>1, <3>3, <3>4
  <2> HIDE DEF m, n
  <2>2. n = Len(b)
    BY DEF n
  <2> QED
    BY <2>1, <2>2 DEF Follows
<1>7. ASSUME NEW k \in 1 .. m + n
      PROVE  Follows(c, k)
  <2>1. CASE k \in 1 .. m
    BY <1>5, <2>1
  <2>2. CASE k \notin 1 .. m
    <3>1. k - m \in 1 .. n /\ m + (k - m) = k
      BY <1>2, <2>2
    <3> QED
      BY <1>6, <3>1
  <2> QED
    BY <2>1, <2>2
<1> QED
  BY <1>2, <1>7 DEF Framed, c

LEMMA FramedBytes ==
  ASSUME NEW M, NEW m \in M
  PROVE  /\ Bytes(m) \in Framed(M) /\ Len(Bytes(m)) = Size(m)
         /\ \A k \in 1 .. Size(m) : Bytes(m)[k] = [msg |-> m, part |-> k]
<1> DEFINE n == Size(m)
           b == Bytes(m)
<1>1. n \in Nat /\ n \in {2, 3}
  BY Sizeable
<1>2. b = [k \in 1 .. n |-> [msg |-> m, part |-> k]]
  BY DEF Bytes
<1> HIDE DEF n, b
<1>3. \A k \in 1 .. n : [msg |-> m, part |-> k] \in Cells(M)
  BY <1>1 DEF Cells
<1>4. b \in Seq(Cells(M)) /\ Len(b) = n
  BY <1>1, <1>2, <1>3
<1>5. \A k \in 1 .. n : b[k].msg = m /\ b[k].part = k
  BY <1>2
<1>6. ASSUME NEW k \in 1 .. n
      PROVE  Follows(b, k)
  <2>1. b[k].msg = m /\ b[k].part = k /\ Size(m) = n
    BY <1>5 DEF n
  <2>2. k = 1 \/ (k > 1 /\ k - 1 \in 1 .. n)
    BY <1>1
  <2>3. k = n \/ (k < n /\ k + 1 \in 1 .. n)
    BY <1>1
  <2> QED
    BY <1>1, <1>4, <1>5, <2>1, <2>2, <2>3 DEF Follows
<1>7. b \in Framed(M)
  BY <1>4, <1>6 DEF Framed
<1> QED
  BY <1>2, <1>4, <1>7 DEF n, b

(* The first message, and what is behind it.                               *)
LEMMA FramedHead ==
  ASSUME NEW M, NEW st \in Framed(M), st # <<>>
  PROVE  /\ st[1].msg \in M /\ Size(st[1].msg) \in 2 .. Len(st) /\ Len(st) \in Nat
         /\ \A k \in 1 .. Size(st[1].msg) : st[k].msg = st[1].msg /\ st[k].part = k
<1> DEFINE n == Size(st[1].msg)
           N == Len(st)
<1>1. st \in Seq(Cells(M)) /\ \A k \in 1 .. N : Follows(st, k)
  BY DEF Framed
<1>2. N \in Nat \ {0}
  BY <1>1, EmptySeq
<1>3. st[1] \in Cells(M)
  BY <1>1, <1>2, ElementOfSeq
<1>4. n \in {2, 3}
  BY Sizeable
<1> HIDE DEF N
<1>5. \A k \in 1 .. N : k > 1 /\ st[k].part # 1 => st[k - 1].msg = st[k].msg
  BY <1>1 DEF Follows
<1>6. \A k \in 1 .. N : st[k].part # Size(st[k].msg) => k < N /\ st[k + 1].part = st[k].part + 1
  BY <1>1 DEF Follows, N
<1>7. 1 \in 1 .. N /\ Follows(st, 1)
  BY <1>1, <1>2
<1>8. st[1].part = 1
  BY <1>7 DEF Follows
<1>9. 2 \in 1 .. N /\ st[2].part = 2
  <2>1. 1 < N /\ st[1 + 1].part = 1 + 1
    BY <1>4, <1>6, <1>7, <1>8
  <2> QED
    BY <1>2, <2>1
<1>10. st[2].msg = st[1].msg
  <2>1. st[2 - 1].msg = st[2].msg
    BY <1>5, <1>9
  <2> QED
    BY <2>1
<1>11. CASE n = 2
  BY <1>2, <1>3, <1>8, <1>9, <1>10, <1>11 DEF Cells, N
<1>12. CASE n = 3
  <2>1. 2 < N /\ st[2 + 1].part = 2 + 1
    BY <1>6, <1>9, <1>10, <1>12
  <2>2. 3 \in 1 .. N /\ st[3].part = 3
    BY <1>2, <2>1
  <2>3. st[3 - 1].msg = st[3].msg
    BY <1>5, <2>2
  <2>4. st[3].msg = st[1].msg
    BY <1>10, <2>3
  <2>5. \A k \in 1 .. n : k = 1 \/ k = 2 \/ k = 3
    BY <1>12
  <2>6. n \in 2 .. N
    BY <1>2, <1>12, <2>2
  <2> QED
    BY <1>2, <1>3, <1>8, <1>9, <1>10, <2>2, <2>4, <2>5, <2>6 DEF Cells, N
<1> QED
  BY <1>4, <1>11, <1>12

LEMMA Dropped ==
  ASSUME NEW S, NEW s \in Seq(S), NEW n \in 0 .. Len(s)
  PROVE  /\ SubSeq(s, n + 1, Len(s)) \in Seq(S)
         /\ Len(SubSeq(s, n + 1, Len(s))) = Len(s) - n
         /\ \A j \in 1 .. Len(s) - n : SubSeq(s, n + 1, Len(s))[j] = s[n + j]
<1> DEFINE t == SubSeq(s, n + 1, Len(s))
<1>1. Len(s) \in Nat /\ \A k \in 1 .. Len(s) : s[k] \in S
  BY Sequence
<1>2. t = [j \in 1 .. (Len(s) - (n + 1)) + 1 |-> s[(j + (n + 1)) - 1]]
  OBVIOUS
<1>3. (Len(s) - (n + 1)) + 1 = Len(s) - n /\ Len(s) - n \in Nat
  BY <1>1
<1>4. \A j \in 1 .. Len(s) - n : (j + (n + 1)) - 1 = n + j /\ n + j \in 1 .. Len(s)
  BY <1>1
<1>5. t = [j \in 1 .. Len(s) - n |-> s[n + j]]
  BY <1>2, <1>3, <1>4
<1>6. \A j \in 1 .. Len(s) - n : s[n + j] \in S
  BY <1>1, <1>4
<1> HIDE DEF t
<1>7. t \in Seq(S) /\ Len(t) = Len(s) - n
  BY <1>3, <1>5, <1>6
<1> QED
  BY <1>5, <1>7 DEF t

Rest(st) == SubSeq(st, Size(st[1].msg) + 1, Len(st))

LEMMA FramedRest ==
  ASSUME NEW M, NEW st \in Framed(M), st # <<>>
  PROVE  /\ Rest(st) \in Framed(M) /\ Len(Rest(st)) = Len(st) - Size(st[1].msg)
         /\ \A j \in 1 .. Len(Rest(st)) : Rest(st)[j] = st[Size(st[1].msg) + j]
<1> DEFINE rest == Rest(st)
           n == Size(st[1].msg)
           N == Len(st)
<1>1. st \in Seq(Cells(M)) /\ \A k \in 1 .. N : Follows(st, k)
  BY DEF Framed
<1>2. /\ N \in Nat /\ n \in 2 .. N
      /\ \A k \in 1 .. n : st[k].msg = st[1].msg /\ st[k].part = k
  BY FramedHead
<1>3. n \in 0 .. N
  BY <1>2
<1>4. /\ rest \in Seq(Cells(M)) /\ Len(rest) = N - n
      /\ \A j \in 1 .. N - n : rest[j] = st[n + j]
  BY <1>1, <1>3, Dropped DEF Rest
<1>5. st[n].msg = st[1].msg /\ st[n].part = n
  BY <1>2
<1>6. n = Size(st[1].msg)
  OBVIOUS
<1> HIDE DEF n, rest
<1>7. ASSUME NEW j \in 1 .. N - n
      PROVE  Follows(rest, j)
  <2>1. /\ n + j \in 1 .. N /\ Follows(st, n + j) /\ rest[j] = st[n + j]
    BY <1>1, <1>2, <1>4
  <2>2. j < N - n => rest[j + 1] = st[(n + j) + 1]
    <3> SUFFICES ASSUME j < N - n
                 PROVE  rest[j + 1] = st[(n + j) + 1]
      OBVIOUS
    <3>1. j + 1 \in 1 .. N - n /\ n + (j + 1) = (n + j) + 1
      BY <1>2
    <3> QED
      BY <1>4, <3>1
  <2>3. n + j < N => j < N - n
    BY <1>2
  <2>4. j > 1 => rest[j - 1] = st[(n + j) - 1]
    <3> SUFFICES ASSUME j > 1
                 PROVE  rest[j - 1] = st[(n + j) - 1]
      OBVIOUS
    <3>1. j - 1 \in 1 .. N - n /\ n + (j - 1) = (n + j) - 1
      BY <1>2
    <3> QED
      BY <1>4, <3>1
  <2>5. j = 1 => st[n + j].part = 1
    <3> SUFFICES ASSUME j = 1, st[n + 1].part # 1
                 PROVE  FALSE
      OBVIOUS
    <3>1. st[(n + 1) - 1].msg = st[n + 1].msg /\ st[(n + 1) - 1].part = st[n + 1].part - 1
      BY <2>1 DEF Follows
    <3>2. (n + 1) - 1 = n
      BY <1>2
    <3>3. n = st[n + 1].part - 1 /\ Size(st[n + 1].msg) = n
      BY <1>5, <1>6, <3>1, <3>2
    <3>4. st[n + 1].part \in 1 .. n
      BY <2>1, <3>3 DEF Follows
    <3> QED
      BY <1>2, <3>3, <3>4
  <2>6. j = 1 \/ j > 1
    BY <1>2
  <2>7. /\ rest[j].part \in 1 .. Size(rest[j].msg)
        /\ rest[j].part = Size(rest[j].msg) \/ (j < Len(rest) /\ rest[j + 1].part = rest[j].part + 1)
    BY <1>4, <2>1, <2>2, <2>3 DEF Follows
  <2>8. rest[j].part = 1 \/ (j > 1 /\ rest[j - 1].msg = rest[j].msg /\ rest[j - 1].part = rest[j].part - 1)
    BY <2>1, <2>4, <2>5, <2>6 DEF Follows
  <2> QED
    BY <2>7, <2>8 DEF Follows
<1>8. rest \in Framed(M)
  BY <1>4, <1>7 DEF Framed
<1> QED
  BY <1>4, <1>8 DEF n, rest

(* FlattenSeq keeps what joining keeps.                                    *)
LEMMA Flattened ==
  ASSUME NEW Q, NEW seqs, Len(seqs) \in Nat \ {0}, seqs[1] \in Q,
         \A i \in 2 .. Len(seqs) : \A q \in Q : q \o seqs[i] \in Q
  PROVE  FlattenSeq(seqs) \in Q
<1> DEFINE L == Len(seqs)
           step == [n \in 1 .. L - 1 |-> [q \in Q |-> q \o seqs[n + 1]]]
           Rec(g) == [i \in 1 .. L |-> IF i = 1 THEN seqs[i] ELSE g[i - 1] \o seqs[i]]
           flatten == CHOOSE g : g = Rec(g)
<1>1. L \in Nat \ {0} /\ L - 1 \in Nat
  OBVIOUS
<1> HIDE DEF L
<1>2. step \in Steps(L - 1, Q)
  <2>1. \A n \in 1 .. L - 1 : n + 1 \in 2 .. L
    BY <1>1
  <2>2. \A n \in 1 .. L - 1 : \A q \in Q : q \o seqs[n + 1] \in Q
    BY <2>1 DEF L
  <2> QED
    BY <2>2 DEF Steps
<1>3. \A n \in 1 .. L - 1 : \A q \in Q : step[n][q] = q \o seqs[n + 1]
  OBVIOUS
<1> HIDE DEF step
<1>4. Recursions(L - 1, Q, seqs[1], step) # {}
  BY <1>1, <1>2, Recursion
<1>5. PICK h \in [0 .. L - 1 -> Q] :
        h[0] = seqs[1] /\ \A n \in 1 .. L - 1 : h[n] = step[n][h[n - 1]]
  BY <1>4 DEF Recursions
<1> DEFINE g == [i \in 1 .. L |-> h[i - 1]]
<1>6. \A i \in 1 .. L : g[i] = IF i = 1 THEN seqs[i] ELSE g[i - 1] \o seqs[i]
  <2> SUFFICES ASSUME NEW i \in 1 .. L
               PROVE  g[i] = IF i = 1 THEN seqs[i] ELSE g[i - 1] \o seqs[i]
    OBVIOUS
  <2>1. CASE i = 1
    BY <1>1, <1>5, <2>1
  <2>2. CASE i # 1
    <3>1. i - 1 \in 1 .. L - 1 /\ i - 1 \in 1 .. L /\ (i - 1) + 1 = i /\ (i - 1) - 1 \in 0 .. L - 1
      BY <1>1, <2>2
    <3>2. g[i] = h[i - 1] /\ g[i - 1] = h[(i - 1) - 1] /\ h[(i - 1) - 1] \in Q
      BY <1>5, <3>1
    <3>3. h[i - 1] = step[i - 1][h[(i - 1) - 1]]
      BY <1>5, <3>1
    <3>4. step[i - 1][h[(i - 1) - 1]] = h[(i - 1) - 1] \o seqs[(i - 1) + 1]
      BY <1>3, <3>1, <3>2
    <3> HIDE DEF g
    <3> QED
      BY <2>2, <3>1, <3>2, <3>3, <3>4
  <2> QED
    BY <2>1, <2>2
<1>7. g = Rec(g)
  BY <1>6
<1> HIDE DEF g
<1>8. flatten = Rec(flatten)
  BY <1>7
<1> HIDE DEF flatten
<1>9. \A i \in 1 .. L : flatten[i] = IF i = 1 THEN seqs[i] ELSE flatten[i - 1] \o seqs[i]
  BY <1>8
<1> DEFINE S == {m \in Nat : m + 1 <= L => flatten[m + 1] \in Q}
<1>10. 0 \in S
  BY <1>1, <1>9
<1>11. ASSUME NEW m \in Nat, m \in S
       PROVE  m + 1 \in S
  <2> SUFFICES ASSUME (m + 1) + 1 <= L
               PROVE  flatten[(m + 1) + 1] \in Q
    OBVIOUS
  <2> DEFINE i == (m + 1) + 1
  <2>1. i \in 2 .. L /\ i \in 1 .. L /\ i # 1 /\ i - 1 = m + 1 /\ m + 1 <= L
    BY <1>1
  <2>2. flatten[m + 1] \in Q
    BY <1>11, <2>1
  <2>3. flatten[i] = flatten[m + 1] \o seqs[i]
    BY <1>9, <2>1
  <2> QED
    BY <2>1, <2>2, <2>3 DEF L
<1> HIDE DEF S
<1>12. L - 1 \in S
  BY <1>1, <1>10, <1>11, SetInduction
<1>13. flatten[L] \in Q
  <2>1. (L - 1) + 1 = L /\ L <= L
    BY <1>1
  <2> QED
    BY <1>12, <2>1 DEF S
<1>14. FlattenSeq(seqs) = flatten[L]
  BY <1>1 DEF FlattenSeq, flatten, L
<1> QED
  BY <1>13, <1>14

-----------------------------------------------------------------------------
(***************************************************************************)
(* What is sent.                                                           *)
(***************************************************************************)

Hello == Plain("HANDSHAKE")

(* As long as a handshake is expected, it comes first, and later never.    *)
Greeted(st, waiting) == \A k \in 1 .. Len(st) : st[k].msg = Hello <=> (waiting /\ k <= 2)

LEMMA GreetedJoined ==
  ASSUME NEW M, NEW a \in Framed(M), NEW b \in Framed(M), NEW w \in BOOLEAN,
         Greeted(a, w), Greeted(b, FALSE), w => Len(a) >= 2
  PROVE  Greeted(a \o b, w)
<1> DEFINE m == Len(a)
           n == Len(b)
           c == a \o b
<1>1. /\ Len(c) = m + n /\ m \in Nat /\ n \in Nat
      /\ \A k \in 1 .. m : c[k] = a[k]
      /\ \A k \in 1 .. n : c[m + k] = b[k]
  <2>1. a \in Seq(Cells(M)) /\ b \in Seq(Cells(M))
    BY DEF Framed
  <2> QED
    BY <2>1, Joined
<1>2. /\ \A k \in 1 .. m : a[k].msg = Hello <=> (w /\ k <= 2)
      /\ \A k \in 1 .. n : b[k].msg # Hello
      /\ w => m >= 2
  BY DEF Greeted
<1> HIDE DEF c, m, n
<1>3. ASSUME NEW k \in 1 .. m + n
      PROVE  c[k].msg = Hello <=> (w /\ k <= 2)
  <2>1. CASE k \in 1 .. m
    BY <1>1, <1>2, <2>1
  <2>2. CASE k \notin 1 .. m
    <3>1. k - m \in 1 .. n /\ m + (k - m) = k /\ (w => ~ (k <= 2))
      BY <1>1, <1>2, <2>2
    <3>2. c[k] = b[k - m]
      BY <1>1, <3>1
    <3>3. c[k].msg # Hello
      BY <1>2, <3>1, <3>2
    <3> QED
      BY <3>1, <3>3
  <2> QED
    BY <2>1, <2>2
<1> QED
  BY <1>1, <1>3 DEF Greeted, c

LEMMA OtherBytes ==
  ASSUME NEW m, m # Hello
  PROVE  Greeted(Bytes(m), FALSE)
<1>1. Len(Bytes(m)) = Size(m) /\ \A k \in 1 .. Size(m) : Bytes(m)[k] = [msg |-> m, part |-> k]
  <2>1. m \in {m}
    OBVIOUS
  <2> QED
    BY <2>1, FramedBytes
<1> QED
  BY <1>1 DEF Greeted

LEMMA HelloBytes ==
  Len(Bytes(Hello)) = 2 /\ Greeted(Bytes(Hello), TRUE)
<1>1. Size(Hello) = 2
  BY DEF Size, Hello, Plain
<1>2. /\ Len(Bytes(Hello)) = Size(Hello)
      /\ \A k \in 1 .. Size(Hello) : Bytes(Hello)[k] = [msg |-> Hello, part |-> k]
  <2>1. Hello \in {Hello}
    OBVIOUS
  <2> QED
    BY <2>1, FramedBytes
<1> QED
  BY <1>1, <1>2 DEF Greeted

(* Messages encoded one behind the other; a handshake only as the first.   *)
LEMMA Encoded ==
  ASSUME NEW M, NEW ms \in Seq(M), NEW w \in BOOLEAN,
         w => ms # <<>>,
         \A i \in 1 .. Len(ms) : ms[i] = Hello <=> (w /\ i = 1)
  PROVE  /\ Encode(ms) \in Framed(M) /\ Greeted(Encode(ms), w)
         /\ w => Len(Encode(ms)) >= 2
<1> DEFINE n == Len(ms)
           seqs == [k \in DOMAIN ms |-> Bytes(ms[k])]
           Q == {st \in Framed(M) : Greeted(st, w) /\ (w => Len(st) >= 2)}
<1>1. n \in Nat /\ DOMAIN ms = 1 .. n /\ \A i \in 1 .. n : ms[i] \in M
  BY Sequence
<1>2. seqs = [k \in 1 .. n |-> Bytes(ms[k])]
  BY <1>1
<1> HIDE DEF seqs
<1>3. Len(seqs) = n /\ \A i \in 1 .. n : seqs[i] = Bytes(ms[i])
  BY <1>1, <1>2
<1>4. Encode(ms) = FlattenSeq(seqs)
  BY DEF Encode, seqs
<1>5. CASE n = 0
  <2>1. seqs \in Seq(Cells(M)) /\ Len(seqs) = 0
    BY <1>2, <1>3, <1>5
  <2>2. seqs \in Framed(M) /\ Greeted(seqs, w)
    BY <2>1 DEF Framed, Greeted
  <2>3. FlattenSeq(seqs) = seqs
    BY <2>1 DEF FlattenSeq
  <2>4. ~ w
    <3>1. ms = <<>>
      BY <1>5
    <3> QED
      BY <3>1
  <2> QED
    BY <1>4, <2>2, <2>3, <2>4
<1>6. CASE n # 0
  <2>1. n \in Nat \ {0} /\ 1 \in 1 .. n
    BY <1>1, <1>6
  <2>2. seqs[1] = Bytes(ms[1]) /\ ms[1] \in M /\ (ms[1] = Hello <=> w)
    BY <1>1, <1>3, <2>1
  <2>3. Bytes(ms[1]) \in Framed(M)
    BY <2>2, FramedBytes
  <2>4. seqs[1] \in Q
    <3>1. CASE w = TRUE
      <4>0. seqs[1] = Bytes(Hello)
        BY <2>2, <3>1
      <4>2. Len(seqs[1]) = 2 /\ Greeted(seqs[1], TRUE)
        BY <4>0, HelloBytes
      <4>3. Greeted(seqs[1], w)
        BY <3>1, <4>2 DEF Greeted
      <4>1. Len(seqs[1]) >= 2 /\ Greeted(seqs[1], w)
        BY <4>2, <4>3
      <4> QED
        BY <2>2, <2>3, <4>1
    <3>2. CASE w = FALSE
      <4>1. Greeted(seqs[1], w)
        BY <2>2, <3>2, OtherBytes
      <4> QED
        BY <2>2, <2>3, <3>2, <4>1
    <3> QED
      BY <3>1, <3>2
  <2>5. ASSUME NEW i \in 2 .. n, NEW q \in Q
        PROVE  q \o seqs[i] \in Q
    <3>1. i \in 1 .. n /\ i # 1
      BY <1>1
    <3>2. seqs[i] = Bytes(ms[i]) /\ ms[i] \in M /\ ms[i] # Hello
      BY <1>1, <1>3, <3>1
    <3>3. seqs[i] \in Framed(M) /\ Greeted(seqs[i], FALSE)
      BY <3>2, FramedBytes, OtherBytes
    <3>4. q \o seqs[i] \in Framed(M)
      BY <3>3, FramedJoined
    <3>5. Greeted(q \o seqs[i], w)
      BY <3>3, GreetedJoined
    <3>6. w => Len(q \o seqs[i]) >= 2
      <4>1. q \in Seq(Cells(M)) /\ seqs[i] \in Seq(Cells(M))
        BY <3>3 DEF Framed
      <4>2. Len(q \o seqs[i]) = Len(q) + Len(seqs[i]) /\ Len(q) \in Nat /\ Len(seqs[i]) \in Nat
        BY <4>1, Joined
      <4> QED
        BY <4>2
    <3> QED
      BY <3>4, <3>5, <3>6
  <2> HIDE DEF Q
  <2>6. FlattenSeq(seqs) \in Q
    BY <1>3, <2>1, <2>4, <2>5, Flattened
  <2> QED
    BY <1>4, <2>6 DEF Q
<1> QED
  BY <1>5, <1>6

(* The slices of a piece are parts of it.                                  *)
LEMMA Floor ==
  ASSUME NEW a \in Nat, NEW b \in Nat \ {0}
  PROVE  a \div b \in Nat /\ (a \div b) * b <= a
  OBVIOUS

LEMMA Times ==
  ASSUME NEW x \in Int, NEW y \in Int, NEW b \in Nat, x <= y
  PROVE  x * b <= y * b /\ x * b \in Int /\ y * b \in Int
  OBVIOUS

LEMMA SlicesAreGood ==
  ASSUME NEW i \in 0 .. Npieces - 1
  PROVE  Slices(i) \in Seq(GoodSlices)
<1> DEFINE P == PieceLen(i)
           n == (P + SliceSize - 1) \div SliceSize
           slice(k) == [index |-> i, begin |-> (k - 1) * SliceSize,
                        length |-> Lower(SliceSize, P - (k - 1) * SliceSize)]
<1>1. P \in Nat \ {0} /\ SliceSize \in Nat \ {0}
  BY PieceLengths, Sizes
<1> HIDE DEF P
<1>2. n \in Nat /\ n * SliceSize <= P + SliceSize - 1
  <2>1. P + SliceSize - 1 \in Nat
    BY <1>1
  <2> QED
    BY <1>1, <2>1, Floor
<1>3. Slices(i) = [k \in 1 .. n |-> slice(k)]
  BY DEF Slices, P
<1> HIDE DEF n
<1>4. ASSUME NEW k \in 1 .. n
      PROVE  slice(k) \in GoodSlices
  <2> DEFINE b == (k - 1) * SliceSize
             l == Lower(SliceSize, P - b)
  <2>1. 0 * SliceSize <= (k - 1) * SliceSize /\ (k - 1) * SliceSize \in Int
    BY <1>1, <1>2, Times
  <2>2. b \in Nat
    BY <1>1, <2>1
  <2>3. (k - 1) * SliceSize <= (n - 1) * SliceSize
    BY <1>1, <1>2, Times
  <2>4. (n - 1) * SliceSize = n * SliceSize - SliceSize
    BY <1>1, <1>2
  <2>5. n * SliceSize \in Int
    BY <1>1, <1>2
  <2>6. b < P
    BY <1>1, <1>2, <2>2, <2>3, <2>4, <2>5
  <2> HIDE DEF b
  <2>7. l \in Nat \ {0} /\ b + l <= P
    BY <1>1, <2>2, <2>6 DEF Lower
  <2> HIDE DEF l
  <2>8. [index |-> i, begin |-> b, length |-> l] \in GoodSlices
    BY <2>2, <2>7 DEF GoodSlices, P
  <2> QED
    BY <2>8 DEF b, l
<1> HIDE DEF slice
<1> QED
  BY <1>2, <1>3, <1>4

(* What either side may be sent: the data of a slice is what the seeder    *)
(* has on its disk.                                                        *)
Inbox(p, d) ==
  IF p = "seeder" THEN {Hello, Plain("BITFIELD")} \cup {Request(s) : s \in GoodSlices}
  ELSE {Hello} \cup {Piece(s, ReadSlice(d, s)) : s \in GoodSlices}

LEMMA MessageKinds ==
  /\ \A s : Request(s) # Hello /\ Request(s).type = "REQUEST" /\ Request(s).slice = s
  /\ \A s, data : /\ Piece(s, data) # Hello /\ Piece(s, data).type = "PIECE"
                  /\ Piece(s, data).slice = s /\ Piece(s, data).data = data
  /\ Hello.type = "HANDSHAKE"
  /\ Plain("BITFIELD") # Hello /\ Plain("BITFIELD").type = "BITFIELD"
<1>1. \A s : Request(s).type = "REQUEST" /\ Request(s).slice = s
  BY DEF Request
<1>2. \A s, data : /\ Piece(s, data).type = "PIECE"
                   /\ Piece(s, data).slice = s /\ Piece(s, data).data = data
  BY DEF Piece
<1>3. Hello.type = "HANDSHAKE" /\ Plain("BITFIELD").type = "BITFIELD"
  BY DEF Hello, Plain
<1> QED
  BY <1>1, <1>2, <1>3

LEMMA PiecesCount == Npieces \in Nat
<1>1. TotalSize \in Nat
  <2>1. Len(FileLens) \in Files
    BY Sizes
  <2> QED
    BY <2>1, FileLies
<1>2. TotalSize \div PieceLength \in Nat
  BY <1>1, Sizes, Floor
<1> QED
  BY <1>2 DEF Npieces

LEMMA RequestsAreGood ==
  ASSUME next \in Nat, NEW d
  PROVE  /\ NextRequests \in Seq(Inbox("seeder", d))
         /\ \A k \in 1 .. Len(NextRequests) : NextRequests[k] # Hello
<1>1. CASE next < Npieces
  <2> DEFINE ss == Slices(next)
             M == Inbox("seeder", d)
  <2>1. next \in 0 .. Npieces - 1
    BY <1>1, PiecesCount
  <2>2. ss \in Seq(GoodSlices)
    BY <2>1, SlicesAreGood
  <2>3. NextRequests = [k \in DOMAIN ss |-> Request(ss[k])]
    BY <1>1 DEF NextRequests
  <2> HIDE DEF ss
  <2>4. Len(ss) \in Nat /\ DOMAIN ss = 1 .. Len(ss) /\ \A k \in 1 .. Len(ss) : ss[k] \in GoodSlices
    BY <2>2, Sequence
  <2>5. \A k \in 1 .. Len(ss) : Request(ss[k]) \in M /\ Request(ss[k]) # Hello
    BY <2>4, MessageKinds DEF Inbox
  <2> HIDE DEF M
  <2>6. NextRequests = [k \in 1 .. Len(ss) |-> Request(ss[k])]
    BY <2>3, <2>4
  <2>7. NextRequests \in Seq(M) /\ Len(NextRequests) = Len(ss)
    BY <2>4, <2>5, <2>6
  <2> QED
    BY <2>5, <2>6, <2>7 DEF M
<1>2. CASE ~ (next < Npieces)
  BY <1>2 DEF NextRequests
<1> QED
  BY <1>1, <1>2

-----------------------------------------------------------------------------
(***************************************************************************)
(* The two streams.  A step takes the first message out of one, puts       *)
(* messages behind the other, or moves bytes from the wire to the stash.   *)
(***************************************************************************)

Stream(p) == stash[p] \o wire[p]
Due(p) == Inbox(p, disk["seeder"])

FlowInv ==
  /\ DOMAIN disk = Peers /\ DOMAIN stash = Peers /\ DOMAIN wire = Peers
  /\ \A p \in Peers : /\ stash[p] \in Seq(Cells(Due(p)))
                      /\ wire[p] \in Seq(Cells(Due(p)))
                      /\ Stream(p) \in Framed(Due(p))

LEMMA TwoPeers ==
  ASSUME NEW p \in Peers
  PROVE  /\ Other(p) \in Peers /\ Other(p) # p /\ Other(Other(p)) = p
         /\ \A q \in Peers : q = p \/ q = Other(p)
  BY DEF Peers, Other

LEMMA FrontTaken ==
  ASSUME NEW S, NEW a \in Seq(S), NEW b \in Seq(S), NEW n \in 0 .. Len(a)
  PROVE  SubSeq(a, n + 1, Len(a)) \o b = SubSeq(a \o b, n + 1, Len(a \o b))
<1> DEFINE ta == SubSeq(a, n + 1, Len(a))
           c == a \o b
           tc == SubSeq(c, n + 1, Len(c))
           x == ta \o b
<1>1. /\ c \in Seq(S) /\ Len(c) = Len(a) + Len(b) /\ Len(a) \in Nat /\ Len(b) \in Nat
      /\ \A k \in 1 .. Len(a) : c[k] = a[k]
      /\ \A k \in 1 .. Len(b) : c[Len(a) + k] = b[k]
  BY Joined
<1>2. ta \in Seq(S) /\ Len(ta) = Len(a) - n /\ \A j \in 1 .. Len(a) - n : ta[j] = a[n + j]
  BY Dropped
<1> HIDE DEF c
<1>3. n \in 0 .. Len(c)
  BY <1>1
<1>4. tc \in Seq(S) /\ Len(tc) = Len(c) - n /\ \A j \in 1 .. Len(c) - n : tc[j] = c[n + j]
  BY <1>1, <1>3, Dropped
<1> HIDE DEF ta, tc
<1>5. /\ x \in Seq(S) /\ Len(x) = Len(ta) + Len(b)
      /\ \A k \in 1 .. Len(ta) : x[k] = ta[k]
      /\ \A k \in 1 .. Len(b) : x[Len(ta) + k] = b[k]
  <2>1. ta \in Seq(S)
    BY <1>2
  <2> QED
    BY <2>1, Joined
<1> HIDE DEF x
<1>6. Len(x) = Len(tc)
  BY <1>1, <1>2, <1>4, <1>5
<1>7. ASSUME NEW k \in 1 .. Len(x)
      PROVE  x[k] = tc[k]
  <2>1. tc[k] = c[n + k]
    BY <1>1, <1>2, <1>4, <1>5
  <2>2. CASE k \in 1 .. Len(ta)
    <3>1. x[k] = a[n + k] /\ n + k \in 1 .. Len(a)
      BY <1>1, <1>2, <1>5, <2>2
    <3> QED
      BY <1>1, <2>1, <3>1
  <2>3. CASE k \notin 1 .. Len(ta)
    <3>1. /\ k - Len(ta) \in 1 .. Len(b) /\ Len(ta) + (k - Len(ta)) = k
          /\ Len(a) + (k - Len(ta)) = n + k
      BY <1>1, <1>2, <1>5, <2>3
    <3>2. x[k] = b[k - Len(ta)] /\ c[n + k] = b[k - Len(ta)]
      BY <1>1, <1>5, <3>1
    <3> QED
      BY <2>1, <3>2
  <2> QED
    BY <2>2, <2>3
<1>8. x = tc
  BY <1>4, <1>5, <1>6, <1>7, SeqEqual
<1> QED
  BY <1>8 DEF x, ta, tc, c

Associative(a, b, c) == (a \o b) \o c = a \o (b \o c)

LEMMA ThreeJoined ==
  ASSUME NEW S, NEW a \in Seq(S), NEW b \in Seq(S), NEW c \in Seq(S)
  PROVE  Associative(a, b, c)
  BY ConcatAssociative DEF Associative

Beginning(b, n) == SubSeq(b, 1, n)
Remainder(b, n) == SubSeq(b, n + 1, Len(b))
Rejoined(a, b, n) == (a \o Beginning(b, n)) \o Remainder(b, n) = a \o b

LEMMA Split ==
  ASSUME NEW S, NEW a \in Seq(S), NEW b \in Seq(S), NEW n \in 1 .. Len(b)
  PROVE  /\ Beginning(b, n) \in Seq(S) /\ Len(Beginning(b, n)) = n
         /\ Remainder(b, n) \in Seq(S)
         /\ Rejoined(a, b, n)
<1> DEFINE f == SubSeq(b, 1, n)
           t == SubSeq(b, n + 1, Len(b))
           x == f \o t
<1>1. Len(b) \in Nat /\ \A k \in 1 .. Len(b) : b[k] \in S
  BY Sequence
<1>2. f \in Seq(S) /\ Len(f) = n /\ \A k \in 1 .. n : f[k] = b[k]
  <2>1. f = [k \in 1 .. n |-> b[k]]
    BY <1>1
  <2>2. \A k \in 1 .. n : b[k] \in S
    BY <1>1
  <2> HIDE DEF f
  <2> QED
    BY <1>1, <2>1, <2>2
<1>3. n \in 0 .. Len(b)
  BY <1>1
<1>4. t \in Seq(S) /\ Len(t) = Len(b) - n /\ \A j \in 1 .. Len(b) - n : t[j] = b[n + j]
  BY <1>3, Dropped
<1> HIDE DEF f, t
<1>5. /\ x \in Seq(S) /\ Len(x) = Len(f) + Len(t)
      /\ \A k \in 1 .. Len(f) : x[k] = f[k]
      /\ \A k \in 1 .. Len(t) : x[Len(f) + k] = t[k]
  <2>1. f \in Seq(S) /\ t \in Seq(S)
    BY <1>2, <1>4
  <2> QED
    BY <2>1, Joined
<1> HIDE DEF x
<1>6. Len(x) = Len(b)
  BY <1>1, <1>2, <1>4, <1>5
<1>7. ASSUME NEW k \in 1 .. Len(x)
      PROVE  x[k] = b[k]
  <2>1. CASE k \in 1 .. n
    BY <1>2, <1>5, <2>1
  <2>2. CASE k \notin 1 .. n
    <3> DEFINE j == k - n
    <3>1. j \in 1 .. Len(b) - n /\ n + j = k
      BY <1>1, <1>6, <2>2
    <3> HIDE DEF j
    <3>2. x[n + j] = t[j]
      BY <1>2, <1>4, <1>5, <3>1
    <3>3. t[j] = b[n + j]
      BY <1>4, <3>1
    <3> QED
      BY <3>1, <3>2, <3>3
  <2> QED
    BY <2>1, <2>2
<1>8. x = b
  BY <1>5, <1>6, <1>7, SeqEqual
<1>9. (a \o f) \o t = a \o x
  <2>1. f \in Seq(S) /\ t \in Seq(S)
    BY <1>2, <1>4
  <2>2. (a \o f) \o t = a \o (f \o t)
    <3>1. Associative(a, f, t)
      BY <2>1, ThreeJoined
    <3> QED
      BY <3>1 DEF Associative
  <2> QED
    BY <2>2 DEF x
<1> QED
  BY <1>2, <1>4, <1>8, <1>9 DEF f, t, Beginning, Remainder, Rejoined

(* The first message of a stream is what the side takes it for.            *)
LEMMA InFront ==
  ASSUME FlowInv, NEW p \in Peers, Complete(stash[p])
  PROVE  /\ Message(p) \in Due(p) /\ Type(p) = Message(p).type
         /\ Stream(p) # <<>> /\ Stream(p)[1].msg = Message(p)
         /\ Size(Message(p)) \in 0 .. Len(stash[p])
<1> DEFINE S == Cells(Due(p))
           st == stash[p]
           m == Message(p)
           n == Size(m)
           all == Stream(p)
<1>1. st \in Seq(S) /\ wire[p] \in Seq(S) /\ all \in Framed(Due(p))
  BY DEF FlowInv
<1>2. all \in Seq(S) /\ all = st \o wire[p]
  BY <1>1 DEF Framed, Stream
<1> HIDE DEF S
<1>3. st # <<>> /\ Len(st) >= n /\ m = Head(st).msg
  BY DEF Complete, Message
<1>4. n \in {2, 3}
  BY Sizeable
<1> HIDE DEF all, st, n
<1>5. /\ Len(all) = Len(st) + Len(wire[p]) /\ Len(st) \in Nat /\ Len(wire[p]) \in Nat
      /\ \A k \in 1 .. Len(st) : all[k] = st[k]
  BY <1>1, <1>2, Joined
<1>6. Head(st) = st[1] /\ all[1] = st[1]
  <2>1. 1 \in 1 .. Len(st)
    BY <1>3, <1>4, <1>5
  <2>2. Head(st) = st[1]
    BY <1>3
  <2> QED
    BY <1>5, <2>1, <2>2
<1>7. all # <<>>
  <2>1. Len(all) # 0
    BY <1>3, <1>4, <1>5
  <2> QED
    BY <2>1
<1>8. m = all[1].msg
  BY <1>3, <1>6
<1> HIDE DEF m
<1>9. m \in Due(p) /\ \A k \in 1 .. Size(m) : all[k].part = k
  BY <1>1, <1>7, <1>8, FramedHead
<1>10. 1 \in 1 .. Size(m)
  BY <1>4 DEF n
<1>11. Type(p) = m.type
  <2>1. Head(st).part = 1
    BY <1>6, <1>9, <1>10
  <2> QED
    BY <2>1 DEF Type, st, m, Message
<1>12. n \in 0 .. Len(st)
  BY <1>3, <1>4, <1>5
<1> QED
  BY <1>7, <1>8, <1>9, <1>11, <1>12 DEF m, n, st, all

(* What is left when the message is taken out is whole messages again,     *)
(* with no handshake.                                                      *)
LEMMA Taken ==
  ASSUME FlowInv, NEW p \in Peers, NEW w \in BOOLEAN, Greeted(Stream(p), w),
         Complete(stash[p]), Take(p), wire'[p] = wire[p]
  PROVE  /\ DOMAIN stash' = Peers /\ stash'[Other(p)] = stash[Other(p)]
         /\ stash'[p] \in Seq(Cells(Due(p))) /\ Len(stash'[p]) <= Len(stash[p])
         /\ Stream(p)' \in Framed(Due(p)) /\ Greeted(Stream(p)', FALSE)
<1> DEFINE S == Cells(Due(p))
           st == stash[p]
           m == Message(p)
           n == Size(m)
           all == Stream(p)
<1>1. /\ st \in Seq(S) /\ wire[p] \in Seq(S) /\ all \in Framed(Due(p))
      /\ all = st \o wire[p] /\ DOMAIN stash = Peers
  BY DEF FlowInv, Stream
<1>2. all # <<>> /\ m = all[1].msg /\ n \in 0 .. Len(st) /\ m = Head(st).msg
  BY InFront DEF Message
<1>3. n \in {2, 3} /\ Len(st) \in Nat
  BY <1>1, Sizeable, Sequence
<1>4. n = Size(m)
  OBVIOUS
<1>5. Size(all[1].msg) \in 2 .. Len(all) /\ Len(all) \in Nat
  BY <1>1, <1>2, FramedHead
<1> HIDE DEF S, m, all, n, st
<1> DEFINE rest == SubSeq(all, n + 1, Len(all))
           left == SubSeq(st, n + 1, Len(st))
<1>6. /\ rest \in Framed(Due(p)) /\ Len(rest) = Len(all) - n
      /\ \A j \in 1 .. Len(rest) : rest[j] = all[n + j]
  <2>1. rest = Rest(all)
    BY <1>2, <1>4 DEF Rest
  <2>2. n = Size(all[1].msg)
    BY <1>2, <1>4
  <2>3. /\ Rest(all) \in Framed(Due(p)) /\ Len(Rest(all)) = Len(all) - Size(all[1].msg)
        /\ \A j \in 1 .. Len(Rest(all)) : Rest(all)[j] = all[Size(all[1].msg) + j]
    BY <1>1, <1>2, FramedRest
  <2> HIDE DEF rest
  <2> QED
    BY <2>1, <2>2, <2>3
<1>7. left \in Seq(S) /\ Len(left) = Len(st) - n
  BY <1>1, <1>2, Dropped
<1>8. left \o wire[p] = rest
  BY <1>1, <1>2, FrontTaken
<1> HIDE DEF rest
<1>9. stash' = [stash EXCEPT ![p] = left]
  <2>1. Shift(stash[p], Head(stash[p]).msg) = left
    BY <1>2, <1>4 DEF Shift, st
  <2> QED
    BY <2>1 DEF Take
<1> HIDE DEF left
<1>10. stash'[p] = left /\ stash'[Other(p)] = stash[Other(p)] /\ DOMAIN stash' = Peers
  BY <1>1, <1>9, TwoPeers
<1>11. Stream(p)' = rest
  BY <1>8, <1>10 DEF Stream
<1>12. Greeted(rest, FALSE)
  <2> SUFFICES ASSUME NEW j \in 1 .. Len(rest)
               PROVE  rest[j].msg # Hello
    BY DEF Greeted
  <2>1. n + j \in 1 .. Len(all) /\ ~ (n + j <= 2)
    BY <1>3, <1>5, <1>6
  <2> QED
    BY <1>6, <2>1 DEF Greeted, all
<1>13. Len(left) <= Len(st)
  BY <1>2, <1>3, <1>7
<1> QED
  BY <1>6, <1>7, <1>10, <1>11, <1>12, <1>13 DEF S, st

(* What is sent comes to stand behind what was sent before.                *)
LEMMA Sent ==
  ASSUME FlowInv, NEW p \in Peers, NEW q, q = Other(p),
         NEW ms \in Seq(Due(q)), NEW w \in BOOLEAN, w => ms # <<>>,
         \A i \in 1 .. Len(ms) : ms[i] = Hello <=> (w /\ i = 1),
         Send(p, ms), stash'[q] = stash[q]
  PROVE  /\ DOMAIN wire' = Peers /\ wire'[p] = wire[p] /\ wire'[q] \in Seq(Cells(Due(q)))
         /\ Stream(q)' = Stream(q) \o Encode(ms) /\ Stream(q)' \in Framed(Due(q))
         /\ Encode(ms) \in Framed(Due(q)) /\ Greeted(Encode(ms), w)
         /\ w => Len(Encode(ms)) >= 2
<1> DEFINE S == Cells(Due(q))
           e == Encode(ms)
<1>1. /\ q \in Peers /\ q # p /\ stash[q] \in Seq(S) /\ wire[q] \in Seq(S)
      /\ Stream(q) \in Framed(Due(q)) /\ DOMAIN wire = Peers
  BY TwoPeers DEF FlowInv
<1>2. e \in Framed(Due(q)) /\ Greeted(e, w) /\ (w => Len(e) >= 2)
  BY Encoded
<1>3. e \in Seq(S)
  BY <1>2 DEF Framed
<1> HIDE DEF e, S
<1>4. wire' = [wire EXCEPT ![q] = wire[q] \o e]
  BY DEF Send, e
<1>5. wire'[q] = wire[q] \o e /\ wire'[p] = wire[p] /\ DOMAIN wire' = Peers
  BY <1>1, <1>4
<1>6. wire[q] \o e \in Seq(S)
  BY <1>1, <1>3, Joined
<1>7. Associative(stash[q], wire[q], e)
  BY <1>1, <1>3, ThreeJoined
<1>8. Stream(q)' = Stream(q) \o e
  BY <1>5, <1>7 DEF Associative, Stream
<1>9. Stream(q) \o e \in Framed(Due(q))
  BY <1>1, <1>2, FramedJoined
<1> QED
  BY <1>2, <1>5, <1>6, <1>8, <1>9 DEF e, S

Waiting(p) == state[p] = "WAITING_HANDSHAKE"

(* Who has greeted whom.  The seeder answers the downloader's handshake,   *)
(* so nothing is on the way to the downloader before it has done so.       *)
StateInv ==
  /\ state \in [Peers -> {"WAITING_HANDSHAKE", "READING_MESSAGE_LENGTH"}]
  /\ next \in 0 .. Npieces
  /\ \A p \in Peers : /\ Waiting(p) => Greeted(Stream(p), TRUE)
                      /\ ~ Waiting(p) => Greeted(Stream(p), FALSE)
  /\ link = "none" => \A p \in Peers : Waiting(p) /\ Stream(p) = <<>>
  /\ Waiting("seeder") => Waiting("downloader") /\ Stream("downloader") = <<>>
  /\ Waiting("downloader") /\ ~ Waiting("seeder") => Len(Stream("downloader")) >= 2
  /\ StashIsSmall

StreamsInv == FlowInv /\ StateInv

LEMMA FlowKept ==
  ASSUME DOMAIN disk' = Peers, disk'["seeder"] = disk["seeder"],
         DOMAIN stash' = Peers, DOMAIN wire' = Peers,
         \A q \in Peers : /\ stash'[q] \in Seq(Cells(Due(q)))
                          /\ wire'[q] \in Seq(Cells(Due(q)))
                          /\ Stream(q)' \in Framed(Due(q))
  PROVE  FlowInv'
<1>1. \A q \in Peers : Due(q)' = Due(q)
  BY DEF Due
<1> QED
  BY <1>1 DEF FlowInv

LEMMA StreamKept ==
  ASSUME NEW q, stash'[q] = stash[q], wire'[q] = wire[q]
  PROVE  Stream(q)' = Stream(q)
  BY DEF Stream

LEMMA InitStreams ==
  ASSUME Init
  PROVE  StreamsInv
<1>1. \A p \in Peers : stash[p] = <<>> /\ wire[p] = <<>> /\ Waiting(p)
  BY DEF Init, Waiting
<1>2. DOMAIN disk = Peers /\ DOMAIN stash = Peers /\ DOMAIN wire = Peers
  <2>1. DOMAIN stash = Peers /\ DOMAIN wire = Peers
    BY DEF Init
  <2>2. \A a, b : DOMAIN [seeder |-> a, downloader |-> b] = {"seeder", "downloader"}
    OBVIOUS
  <2>3. \E a, b : disk = [seeder |-> a, downloader |-> b]
    BY DEF Init
  <2>4. DOMAIN disk = Peers
    BY <2>2, <2>3 DEF Peers
  <2> QED
    BY <2>1, <2>4
<1>3. \A p \in Peers : Stream(p) = <<>>
  BY <1>1 DEF Stream
<1>4. \A M : <<>> \in Framed(M)
  BY DEF Framed
<1>5. FlowInv
  <2>0. \A S : <<>> \in Seq(S)
    OBVIOUS
  <2>1. \A p \in Peers : stash[p] \in Seq(Cells(Due(p))) /\ wire[p] \in Seq(Cells(Due(p)))
    BY <1>1, <2>0
  <2> QED
    BY <1>2, <1>3, <1>4, <2>1 DEF FlowInv
<1>6. Greeted(<<>>, TRUE)
  BY DEF Greeted
<1>7. state \in [Peers -> {"WAITING_HANDSHAKE", "READING_MESSAGE_LENGTH"}] /\ next \in 0 .. Npieces
  BY PiecesCount DEF Init
<1>8. StashIsSmall
  <2>1. \A p \in Peers : Len(stash[p]) = 0
    BY <1>1
  <2> QED
    BY <2>1, Sizes DEF StashIsSmall
<1>9. \A p \in Peers : p = "seeder" \/ p = "downloader"
  BY DEF Peers
<1>10. StateInv
  BY <1>1, <1>3, <1>6, <1>7, <1>8 DEF StateInv, Peers
<1> QED
  BY <1>5, <1>10 DEF StreamsInv

LEMMA ReceiveStep ==
  ASSUME StreamsInv, NEW p \in Peers, Receive(p)
  PROVE  StreamsInv'
<1> DEFINE S == Cells(Due(p))
           q == Other(p)
<1>1. FlowInv /\ StateInv
  BY DEF StreamsInv
<1>2. /\ stash[p] \in Seq(S) /\ wire[p] \in Seq(S)
      /\ DOMAIN disk = Peers /\ DOMAIN stash = Peers /\ DOMAIN wire = Peers
  BY <1>1 DEF FlowInv
<1>3. q \in Peers /\ q # p /\ \A r \in Peers : r = p \/ r = q
  BY TwoPeers
<1> HIDE DEF S, q
<1>4. PICK n \in 1 .. Lower(MaxRead, Len(wire[p])) :
        /\ stash' = [stash EXCEPT ![p] = stash[p] \o SubSeq(wire[p], 1, n)]
        /\ wire' = [wire EXCEPT ![p] = SubSeq(wire[p], n + 1, Len(wire[p]))]
  BY DEF Receive
<1>5. Len(wire[p]) \in Nat /\ Len(stash[p]) \in Nat
  BY <1>2, Sequence
<1>6. n \in 1 .. Len(wire[p]) /\ n <= MaxRead
  BY <1>4, <1>5, Sizes DEF Lower
<1> DEFINE f == Beginning(wire[p], n)
           t == Remainder(wire[p], n)
<1>7. f \in Seq(S) /\ Len(f) = n /\ t \in Seq(S) /\ (stash[p] \o f) \o t = stash[p] \o wire[p]
  <2>1. stash[p] \in Seq(S) /\ wire[p] \in Seq(S) /\ n \in 1 .. Len(wire[p])
    BY <1>2, <1>6
  <2>2. Rejoined(stash[p], wire[p], n)
    BY <2>1, Split
  <2>3. f \in Seq(S) /\ Len(f) = n /\ t \in Seq(S)
    BY <2>1, Split
  <2> QED
    BY <2>2, <2>3 DEF Rejoined
<1>8. /\ stash' = [stash EXCEPT ![p] = stash[p] \o f]
      /\ wire' = [wire EXCEPT ![p] = t]
  BY <1>4 DEF Beginning, Remainder
<1> HIDE DEF f, t
<1>9. /\ stash'[p] = stash[p] \o f /\ wire'[p] = t
      /\ stash'[q] = stash[q] /\ wire'[q] = wire[q]
      /\ DOMAIN stash' = Peers /\ DOMAIN wire' = Peers
  BY <1>2, <1>3, <1>8
<1>10. stash[p] \o f \in Seq(S) /\ Len(stash[p] \o f) = Len(stash[p]) + n
  BY <1>2, <1>7, Joined
<1>11. \A r \in Peers : Stream(r)' = Stream(r)
  <2>1. Stream(p)' = Stream(p)
    BY <1>7, <1>9 DEF Stream
  <2>2. Stream(q)' = Stream(q)
    BY <1>9, StreamKept
  <2> QED
    BY <1>3, <2>1, <2>2
<1>12. UNCHANGED <<disk, state, next, link>> /\ link = "up"
  BY DEF Receive
<1>13. FlowInv'
  <2>1. \A r \in Peers : /\ stash'[r] \in Seq(Cells(Due(r)))
                         /\ wire'[r] \in Seq(Cells(Due(r)))
                         /\ Stream(r)' \in Framed(Due(r))
    <3>1. stash'[p] \in Seq(Cells(Due(p))) /\ wire'[p] \in Seq(Cells(Due(p)))
      BY <1>7, <1>9, <1>10 DEF S
    <3>2. stash'[q] \in Seq(Cells(Due(q))) /\ wire'[q] \in Seq(Cells(Due(q)))
      BY <1>1, <1>3, <1>9 DEF FlowInv
    <3>3. \A r \in Peers : Stream(r)' \in Framed(Due(r))
      BY <1>1, <1>11 DEF FlowInv
    <3> QED
      BY <1>3, <3>1, <3>2, <3>3
  <2> QED
    BY <1>2, <1>9, <1>12, <2>1, FlowKept
<1>14. StashIsSmall'
  <2>1. ~ Complete(stash[p])
    BY DEF Receive
  <2>2. Len(stash[p]) < 3
    <3>1. CASE stash[p] = <<>>
      BY <3>1
    <3>2. CASE stash[p] # <<>>
      <4>1. Len(stash[p]) < Size(Head(stash[p]).msg)
        <5> DEFINE z == Size(Head(stash[p]).msg)
        <5>1. z \in {2, 3}
          BY Sizeable
        <5>2. ~ (Len(stash[p]) >= z)
          BY <2>1, <3>2 DEF Complete
        <5> HIDE DEF z
        <5>3. Len(stash[p]) < z
          BY <1>5, <5>1, <5>2
        <5> QED
          BY <5>3 DEF z
      <4>2. Size(Head(stash[p]).msg) \in {2, 3}
        BY Sizeable
      <4> QED
        BY <1>5, <4>1, <4>2
    <3> QED
      BY <3>1, <3>2
  <2>3. Len(stash'[p]) < 3 + MaxRead
    BY <1>5, <1>6, <1>9, <1>10, <2>2, Sizes
  <2>4. Len(stash'[q]) < 3 + MaxRead
    BY <1>1, <1>3, <1>9 DEF StateInv, StashIsSmall
  <2> QED
    BY <1>3, <2>3, <2>4 DEF StashIsSmall
<1>15. \A r : Waiting(r)' <=> Waiting(r)
  BY <1>12 DEF Waiting
<1>16. StateInv'
  BY <1>1, <1>11, <1>12, <1>14, <1>15 DEF StateInv, Peers
<1> QED
  BY <1>13, <1>16 DEF StreamsInv

(* The next message of a side is the handshake if that is what it waits    *)
(* for, and only then.                                                     *)
LEMMA Heard ==
  ASSUME StreamsInv, NEW p \in Peers, Ready(p)
  PROVE  /\ Message(p) \in Due(p) /\ Type(p) = Message(p).type
         /\ Message(p) = Hello <=> Waiting(p)
<1> DEFINE all == Stream(p)
<1>1. FlowInv /\ Complete(stash[p])
  BY DEF StreamsInv, Ready
<1>2. /\ Waiting(p) => Greeted(all, TRUE)
      /\ ~ Waiting(p) => Greeted(all, FALSE)
  BY DEF StreamsInv, StateInv
<1>3. /\ Message(p) \in Due(p) /\ Type(p) = Message(p).type
      /\ all # <<>> /\ all[1].msg = Message(p)
  BY <1>1, InFront
<1>4. all \in Framed(Due(p))
  BY <1>1 DEF FlowInv
<1> HIDE DEF all
<1>5. 1 \in 1 .. Len(all) /\ 1 <= 2
  <2>1. Size(all[1].msg) \in 2 .. Len(all) /\ Len(all) \in Nat
    BY <1>3, <1>4, FramedHead
  <2> QED
    BY <2>1, Sizeable
<1>6. Message(p) = Hello <=> Waiting(p)
  BY <1>2, <1>3, <1>5 DEF Greeted
<1> QED
  BY <1>3, <1>6

LEMMA Consumed ==
  ASSUME StreamsInv, NEW p \in Peers, Ready(p), Take(p), wire'[p] = wire[p]
  PROVE  /\ DOMAIN stash' = Peers /\ stash'[Other(p)] = stash[Other(p)]
         /\ stash'[p] \in Seq(Cells(Due(p))) /\ Len(stash'[p]) <= Len(stash[p])
         /\ Stream(p)' \in Framed(Due(p)) /\ Greeted(Stream(p)', FALSE)
<1>1. FlowInv /\ Complete(stash[p])
  BY DEF StreamsInv, Ready
<1>2. Greeted(Stream(p), TRUE) \/ Greeted(Stream(p), FALSE)
  BY DEF StreamsInv, StateInv
<1>3. TRUE \in BOOLEAN /\ FALSE \in BOOLEAN
  OBVIOUS
<1> QED
  BY <1>1, <1>2, <1>3, Taken

LEMMA SeederGreeted ==
  ASSUME StreamsInv, Ready("downloader")
  PROVE  ~ Waiting("seeder")
<1>1. "downloader" \in Peers
  BY DEF Peers
<1>2. /\ stash["downloader"] \in Seq(Cells(Due("downloader")))
      /\ wire["downloader"] \in Seq(Cells(Due("downloader")))
  BY <1>1 DEF StreamsInv, FlowInv
<1>3. stash["downloader"] # <<>>
  BY DEF Ready, Complete
<1>4. Stream("downloader") # <<>>
  <2> DEFINE a == stash["downloader"]
             b == wire["downloader"]
  <2>1. Len(a \o b) = Len(a) + Len(b) /\ Len(a) \in Nat /\ Len(b) \in Nat
    BY <1>2, Joined
  <2>2. Len(a) # 0
    BY <1>2, <1>3
  <2>3. Len(a \o b) # 0
    <3> HIDE DEF a, b
    <3> QED
      BY <2>1, <2>2
  <2>4. a \o b # <<>>
    <3> HIDE DEF a, b
    <3> QED
      BY <2>3
  <2> QED
    BY <2>4 DEF Stream
<1> QED
  BY <1>4 DEF StreamsInv, StateInv

(* p has taken a message out, and the other side's stream is in order.     *)
LEMMA Acted ==
  ASSUME StreamsInv, NEW p \in Peers, Ready(p), Take(p), NEW q, q = Other(p),
         DOMAIN disk' = Peers, disk'["seeder"] = disk["seeder"],
         next' \in 0 .. Npieces, link' # "none",
         state' = [state EXCEPT ![p] = "READING_MESSAGE_LENGTH"],
         DOMAIN wire' = Peers, wire'[p] = wire[p], wire'[q] \in Seq(Cells(Due(q))),
         Stream(q)' \in Framed(Due(q)),
         Waiting(q) => Greeted(Stream(q)', TRUE) /\ Len(Stream(q)') >= 2,
         ~ Waiting(q) => Greeted(Stream(q)', FALSE)
  PROVE  StreamsInv'
<1>1. /\ DOMAIN stash' = Peers /\ stash'[q] = stash[q]
      /\ stash'[p] \in Seq(Cells(Due(p))) /\ Len(stash'[p]) <= Len(stash[p])
      /\ Stream(p)' \in Framed(Due(p)) /\ Greeted(Stream(p)', FALSE)
  BY Consumed
<1>2. q \in Peers /\ q # p /\ \A r \in Peers : r = p \/ r = q
  BY TwoPeers
<1>3. FlowInv /\ StateInv
  BY DEF StreamsInv
<1>4. wire[p] \in Seq(Cells(Due(p))) /\ stash[p] \in Seq(Cells(Due(p)))
      /\ stash[q] \in Seq(Cells(Due(q)))
  BY <1>2, <1>3 DEF FlowInv
<1>5. FlowInv'
  <2>1. ASSUME NEW r \in Peers
        PROVE  /\ stash'[r] \in Seq(Cells(Due(r)))
               /\ wire'[r] \in Seq(Cells(Due(r)))
               /\ Stream(r)' \in Framed(Due(r))
    <3>1. CASE r = p
      BY <1>1, <1>4, <3>1
    <3>2. CASE r = q
      BY <1>1, <1>4, <3>2
    <3> QED
      BY <1>2, <3>1, <3>2
  <2> QED
    BY <1>1, <2>1, FlowKept
<1>6. /\ state' \in [Peers -> {"WAITING_HANDSHAKE", "READING_MESSAGE_LENGTH"}]
      /\ state'[p] = "READING_MESSAGE_LENGTH" /\ state'[q] = state[q]
  BY <1>2, <1>3 DEF StateInv
<1>7. ~ Waiting(p)' /\ (Waiting(q)' <=> Waiting(q))
  BY <1>6 DEF Waiting
<1>8. StashIsSmall'
  <2>1. Len(stash[p]) < 3 + MaxRead /\ Len(stash[q]) < 3 + MaxRead
    BY <1>2, <1>3 DEF StateInv, StashIsSmall
  <2>2. Len(stash'[p]) \in Nat /\ Len(stash[p]) \in Nat
    BY <1>1, <1>4, Sequence
  <2>3. Len(stash'[p]) < 3 + MaxRead
    BY <1>1, <2>1, <2>2, Sizes
  <2>4. Len(stash'[q]) < 3 + MaxRead
    BY <1>1, <2>1
  <2> QED
    BY <1>2, <2>3, <2>4 DEF StashIsSmall
<1>9. p = "downloader" => ~ Waiting("seeder")
  BY SeederGreeted
<1>10. p \in {"downloader", "seeder"} /\ q \in {"downloader", "seeder"}
  BY <1>2 DEF Peers
<1>11. \A r \in Peers : /\ Waiting(r)' => Greeted(Stream(r)', TRUE)
                        /\ ~ Waiting(r)' => Greeted(Stream(r)', FALSE)
  BY <1>1, <1>2, <1>7
<1>12. ~ Waiting("seeder")'
  BY <1>2, <1>7, <1>9, <1>10
<1>13. Waiting("downloader")' => Len(Stream("downloader")') >= 2
  BY <1>2, <1>7, <1>10
<1>14. StateInv'
  BY <1>6, <1>8, <1>11, <1>12, <1>13 DEF StateInv
<1> QED
  BY <1>5, <1>14 DEF StreamsInv

(* p has taken a message out and says nothing.                             *)
LEMMA Quiet ==
  ASSUME StreamsInv, NEW p \in Peers, Ready(p), Take(p), wire' = wire,
         DOMAIN disk' = Peers, disk'["seeder"] = disk["seeder"],
         next' \in 0 .. Npieces, link' # "none",
         state' = [state EXCEPT ![p] = "READING_MESSAGE_LENGTH"],
         p = "seeder" => ~ Waiting(p)
  PROVE  StreamsInv'
<1> DEFINE q == Other(p)
<1>1. q \in Peers /\ q # p
  BY TwoPeers
<1>2. stash'[q] = stash[q]
  BY Consumed
<1> HIDE DEF q
<1>3. Stream(q)' = Stream(q)
  BY <1>2, StreamKept
<1>4. FlowInv /\ StateInv
  BY DEF StreamsInv
<1>5. DOMAIN wire' = Peers /\ wire'[q] \in Seq(Cells(Due(q))) /\ Stream(q)' \in Framed(Due(q))
  BY <1>1, <1>3, <1>4 DEF FlowInv
<1>6. p = "downloader" => ~ Waiting("seeder")
  BY SeederGreeted
<1>7. /\ Waiting(q) => Greeted(Stream(q)', TRUE)
      /\ ~ Waiting(q) => Greeted(Stream(q)', FALSE)
  BY <1>1, <1>3, <1>4 DEF StateInv
<1>8. Waiting(q) => Len(Stream(q)') >= 2
  BY <1>1, <1>3, <1>4, <1>6 DEF StateInv, Peers
<1> QED
  BY <1>5, <1>7, <1>8, Acted DEF q

(* p has taken a message other than the handshake out and sends others.    *)
LEMMA Answered ==
  ASSUME StreamsInv, NEW p \in Peers, Ready(p), Take(p), ~ Waiting(p),
         NEW ms \in Seq(Due(Other(p))), \A i \in 1 .. Len(ms) : ms[i] # Hello,
         Send(p, ms),
         DOMAIN disk' = Peers, disk'["seeder"] = disk["seeder"],
         next' \in 0 .. Npieces, link' # "none", state' = state
  PROVE  StreamsInv'
<1> DEFINE q == Other(p)
           e == Encode(ms)
<1>1. q \in Peers /\ q # p
  BY TwoPeers
<1>2. FlowInv /\ StateInv
  BY DEF StreamsInv
<1>3. wire'[p] = wire[p]
  <2>1. p \in DOMAIN wire
    BY <1>2 DEF FlowInv
  <2> QED
    BY <1>1, <2>1 DEF Send
<1>4. stash'[q] = stash[q]
  BY <1>3, Consumed
<1>5. \A i \in 1 .. Len(ms) : ms[i] = Hello <=> (FALSE /\ i = 1)
  OBVIOUS
<1>6. /\ DOMAIN wire' = Peers /\ wire'[q] \in Seq(Cells(Due(q)))
      /\ Stream(q)' = Stream(q) \o e /\ Stream(q)' \in Framed(Due(q))
      /\ e \in Framed(Due(q)) /\ Greeted(e, FALSE)
  <2>1. FALSE \in BOOLEAN /\ ~ FALSE
    OBVIOUS
  <2> QED
    BY <1>2, <1>4, <1>5, <2>1, Sent
<1>7. Stream(q) \in Framed(Due(q))
  BY <1>1, <1>2 DEF FlowInv
<1> HIDE DEF e
<1>8. p = "downloader" => ~ Waiting("seeder")
  BY SeederGreeted
<1>9. ~ Waiting(q) => Greeted(Stream(q)', FALSE)
  <2> SUFFICES ASSUME ~ Waiting(q) PROVE Greeted(Stream(q)', FALSE)
    OBVIOUS
  <2>1. Greeted(Stream(q), FALSE)
    BY <1>1, <1>2 DEF StateInv
  <2> HIDE DEF q
  <2>2. Greeted(Stream(q) \o e, FALSE)
    BY <1>6, <1>7, <2>1, GreetedJoined
  <2> QED
    BY <1>6, <2>2
<1>10. Waiting(q) => Greeted(Stream(q)', TRUE) /\ Len(Stream(q)') >= 2
  <2> SUFFICES ASSUME Waiting(q) PROVE Greeted(Stream(q)', TRUE) /\ Len(Stream(q)') >= 2
    OBVIOUS
  <2>1. p = "seeder" /\ q = "downloader"
    BY <1>1, <1>8 DEF Peers
  <2>2. Greeted(Stream(q), TRUE) /\ Len(Stream(q)) >= 2
    BY <1>1, <1>2, <2>1 DEF StateInv
  <2> HIDE DEF q
  <2>3. Greeted(Stream(q) \o e, TRUE)
    BY <1>6, <1>7, <2>2, GreetedJoined
  <2>4. Len(Stream(q) \o e) >= 2
    <3>1. Stream(q) \in Seq(Cells(Due(q))) /\ e \in Seq(Cells(Due(q)))
      BY <1>6, <1>7 DEF Framed
    <3>2. /\ Len(Stream(q) \o e) = Len(Stream(q)) + Len(e)
          /\ Len(Stream(q)) \in Nat /\ Len(e) \in Nat
      BY <3>1, Joined
    <3> QED
      BY <2>2, <3>2
  <2> QED
    BY <1>6, <2>3, <2>4
<1>11. state' = [state EXCEPT ![p] = "READING_MESSAGE_LENGTH"]
  BY <1>2 DEF StateInv, Waiting
<1> HIDE DEF q
<1> QED
  BY <1>3, <1>6, <1>9, <1>10, <1>11, Acted DEF q

(* Nobody takes a message out: the connection is made or lost.             *)
LEMMA ConnectedStep ==
  ASSUME StreamsInv, Connected
  PROVE  StreamsInv'
<1> DEFINE greeting == <<Hello, Plain("BITFIELD")>>
           rs == NextRequests
           ms == greeting \o rs
           M == Due("seeder")
<1>1. FlowInv /\ StateInv /\ link = "none"
  BY DEF StreamsInv, Connected
<1>2. \A p \in Peers : Waiting(p) /\ Stream(p) = <<>>
  BY <1>1 DEF StateInv
<1>3. UNCHANGED <<disk, stash, state>> /\ link' = "up"
  BY DEF Connected
<1>4. Send("downloader", ms)
  BY DEF Connected, RequestPieces, Hello
<1>5. next \in Nat /\ next' \in 0 .. Npieces
  <2>1. next \in 0 .. Npieces
    BY <1>1 DEF StateInv
  <2>2. next' = next \/ (next < Npieces /\ next' = next + 1)
    BY DEF Connected, RequestPieces
  <2> QED
    BY <2>1, <2>2, PiecesCount
<1>6. rs \in Seq(M) /\ \A k \in 1 .. Len(rs) : rs[k] # Hello
  BY <1>5, RequestsAreGood DEF Due
<1>7. greeting \in Seq(M) /\ Len(greeting) = 2 /\ greeting[1] = Hello /\ greeting[2] # Hello
  <2>1. Hello \in M /\ Plain("BITFIELD") \in M
    BY DEF Due, Inbox
  <2> QED
    BY <2>1, MessageKinds
<1> HIDE DEF greeting, M, rs
<1>8. /\ ms \in Seq(M) /\ Len(ms) = 2 + Len(rs) /\ Len(rs) \in Nat
      /\ \A k \in 1 .. 2 : ms[k] = greeting[k]
      /\ \A k \in 1 .. Len(rs) : ms[2 + k] = rs[k]
  <2>1. greeting \in Seq(M) /\ rs \in Seq(M)
    BY <1>6, <1>7
  <2>2. /\ ms \in Seq(M) /\ Len(ms) = Len(greeting) + Len(rs) /\ Len(rs) \in Nat
        /\ \A k \in 1 .. Len(greeting) : ms[k] = greeting[k]
        /\ \A k \in 1 .. Len(rs) : ms[Len(greeting) + k] = rs[k]
    BY <2>1, Joined
  <2> QED
    BY <1>7, <2>2
<1> HIDE DEF ms
<1>9. ms # <<>>
  <2>1. Len(ms) # 0
    BY <1>8
  <2> QED
    BY <2>1
<1>10. ASSUME NEW i \in 1 .. Len(ms)
       PROVE  ms[i] = Hello <=> (TRUE /\ i = 1)
  <2>1. CASE i \in 1 .. 2
    BY <1>7, <1>8, <2>1
  <2>2. CASE i \notin 1 .. 2
    <3>1. i - 2 \in 1 .. Len(rs) /\ 2 + (i - 2) = i
      BY <1>8, <2>2
    <3>2. ms[i] = rs[i - 2]
      BY <1>8, <3>1
    <3> QED
      BY <1>6, <2>2, <3>1, <3>2
  <2> QED
    BY <2>1, <2>2
<1>11. "downloader" \in Peers /\ Other("downloader") = "seeder" /\ "seeder" \in Peers
  BY DEF Peers, Other
<1>12. stash'["seeder"] = stash["seeder"]
  BY <1>3
<1> DEFINE e == Encode(ms)
<1>13. /\ DOMAIN wire' = Peers /\ wire'["downloader"] = wire["downloader"]
       /\ wire'["seeder"] \in Seq(Cells(M))
       /\ Stream("seeder")' = Stream("seeder") \o e /\ Stream("seeder")' \in Framed(M)
       /\ e \in Framed(M) /\ Greeted(e, TRUE)
  <2>1. "seeder" = Other("downloader") /\ TRUE \in BOOLEAN
    BY <1>11
  <2>2. ms \in Seq(Due("seeder"))
    BY <1>8 DEF M
  <2> QED
    BY <1>1, <1>4, <1>9, <1>10, <1>11, <1>12, <2>1, <2>2, Sent DEF M
<1> HIDE DEF e
<1>14. Stream("seeder")' = e
  <2>1. Stream("seeder") = <<>>
    BY <1>2, <1>11
  <2>2. e \in Seq(Cells(M))
    BY <1>13 DEF Framed
  <2>3. <<>> \o e = e
    BY <2>2, ConcatEmptySeq
  <2> QED
    BY <1>13, <2>1, <2>3
<1>15. Stream("downloader")' = Stream("downloader")
  BY <1>3, <1>13, StreamKept
<1>16. FlowInv'
  <2>1. DOMAIN disk' = Peers /\ DOMAIN stash' = Peers
    BY <1>1, <1>3 DEF FlowInv
  <2>2. \A r \in Peers : stash'[r] \in Seq(Cells(Due(r)))
    BY <1>1, <1>3 DEF FlowInv
  <2>3. wire'["downloader"] \in Seq(Cells(Due("downloader")))
        /\ Stream("downloader")' \in Framed(Due("downloader"))
    BY <1>1, <1>11, <1>13, <1>15 DEF FlowInv
  <2>4. wire'["seeder"] \in Seq(Cells(Due("seeder")))
        /\ Stream("seeder")' \in Framed(Due("seeder"))
    BY <1>13 DEF M
  <2>5. \A r \in Peers : r = "downloader" \/ r = "seeder"
    BY DEF Peers
  <2>6. \A r \in Peers : /\ stash'[r] \in Seq(Cells(Due(r)))
                         /\ wire'[r] \in Seq(Cells(Due(r)))
                         /\ Stream(r)' \in Framed(Due(r))
    BY <2>2, <2>3, <2>4, <2>5
  <2>7. disk'["seeder"] = disk["seeder"]
    BY <1>3
  <2> QED
    BY <1>13, <2>1, <2>6, <2>7, FlowKept
<1>17. \A r \in Peers : Waiting(r)'
  BY <1>2, <1>3 DEF Waiting
<1>18. StashIsSmall'
  BY <1>1, <1>3 DEF StateInv, StashIsSmall
<1>19. Greeted(Stream("seeder")', TRUE) /\ Greeted(Stream("downloader")', TRUE)
  <2>1. Greeted(Stream("downloader"), TRUE)
    BY <1>1, <1>2, <1>11 DEF StateInv
  <2> QED
    BY <1>13, <1>14, <1>15, <2>1
<1>20. state' \in [Peers -> {"WAITING_HANDSHAKE", "READING_MESSAGE_LENGTH"}]
  BY <1>1, <1>3 DEF StateInv
<1>21. Stream("downloader")' = <<>>
  BY <1>2, <1>11, <1>15
<1>22. \A r \in Peers : Greeted(Stream(r)', TRUE)
  BY <1>19 DEF Peers
<1>23. StateInv'
  BY <1>3, <1>5, <1>11, <1>17, <1>18, <1>20, <1>21, <1>22 DEF StateInv
<1> QED
  BY <1>16, <1>23 DEF StreamsInv

LEMMA StillStep ==
  ASSUME StreamsInv, UNCHANGED <<disk, wire, stash, state, next>>, link' \in {link, "lost"}
  PROVE  StreamsInv'
<1>1. \A q : Stream(q)' = Stream(q)
  BY StreamKept
<1>2. \A q : (Waiting(q)' <=> Waiting(q)) /\ Due(q)' = Due(q)
  BY DEF Waiting, Due
<1>3. FlowInv'
  BY <1>1, <1>2 DEF StreamsInv, FlowInv
<1>4. StashIsSmall'
  BY DEF StreamsInv, StateInv, StashIsSmall
<1>5. StateInv'
  BY <1>1, <1>2, <1>4 DEF StreamsInv, StateInv
<1> QED
  BY <1>3, <1>5 DEF StreamsInv

(* What a side has taken out is of the kind it acts on.                    *)
LEMMA SeederHears ==
  ASSUME NEW m \in Due("seeder"), m # Hello
  PROVE  m = Plain("BITFIELD") \/ \E s \in GoodSlices : m = Request(s)
  BY DEF Due, Inbox

LEMMA DownloaderHears ==
  ASSUME NEW m \in Due("downloader"), m # Hello
  PROVE  \E s \in GoodSlices : m = Piece(s, ReadSlice(disk["seeder"], s))
  BY DEF Due, Inbox

LEMMA LaterIs ==
  ASSUME NEW p \in Peers, Later(p)
  PROVE  Ready(p) /\ ~ Waiting(p) /\ link = "up"
  BY DEF Later, Ready, Waiting

LEMMA HandshakeStep ==
  ASSUME StreamsInv, NEW p \in Peers, Handshake(p)
  PROVE  StreamsInv' /\ link' = link
<1>1. Ready(p) /\ Take(p) /\ Waiting(p) /\ UNCHANGED <<disk, next>> /\ link = "up"
  BY DEF Handshake, Waiting, Ready
<1>2. FlowInv /\ StateInv
  BY DEF StreamsInv
<1>3. state' = [state EXCEPT ![p] = "READING_MESSAGE_LENGTH"] /\ next' \in 0 .. Npieces
  BY <1>1, <1>2 DEF Handshake, StateInv
<1>4. DOMAIN disk' = Peers /\ disk'["seeder"] = disk["seeder"]
  BY <1>1, <1>2 DEF FlowInv
<1> DEFINE q == Other(p)
<1>5. q \in Peers /\ q # p
  BY TwoPeers
<1>6. CASE p = "downloader"
  <2>1. wire' = wire
    BY <1>6 DEF Handshake
  <2>2. Message(p) = Hello /\ Type(p) = Message(p).type
    BY <1>1, Heard
  <2>3. link' = link
    <3>1. Type(p) = "HANDSHAKE"
      BY <2>2, MessageKinds
    <3> QED
      BY <3>1 DEF Handshake
  <2>4. StreamsInv'
    BY <1>1, <1>3, <1>4, <1>6, <2>1, <2>3, Quiet
  <2> QED
    BY <2>3, <2>4
<1>7. CASE p = "seeder"
  <2> DEFINE ms == <<Hello>>
             e == Encode(ms)
  <2>1. Send(p, ms)
    BY <1>7 DEF Handshake, Hello
  <2>2. wire'[p] = wire[p]
    BY <1>5, <2>1 DEF Send
  <2>3. Message(p) = Hello /\ Type(p) = Message(p).type /\ stash'[q] = stash[q]
    BY <1>1, <2>2, Heard, Consumed
  <2>4. link' = link
    <3>1. Type(p) = "HANDSHAKE"
      BY <2>3, MessageKinds
    <3> QED
      BY <3>1 DEF Handshake
  <2>5. q = "downloader"
    BY <1>7 DEF Other
  <2>6. Waiting(q) /\ Stream(q) = <<>>
    BY <1>1, <1>2, <1>7, <2>5 DEF StateInv
  <2>7. Hello \in Due(q)
    BY <2>5 DEF Due, Inbox
  <2> HIDE DEF q
  <2>8. ms \in Seq(Due(q)) /\ Len(ms) = 1 /\ ms[1] = Hello /\ ms # <<>>
    BY <2>7
  <2> HIDE DEF ms
  <2>9. \A i \in 1 .. Len(ms) : ms[i] = Hello <=> (TRUE /\ i = 1)
    BY <2>8
  <2>10. q = Other(p)
    BY DEF q
  <2>11. /\ DOMAIN wire' = Peers /\ wire'[q] \in Seq(Cells(Due(q)))
         /\ Stream(q)' = Stream(q) \o e /\ Stream(q)' \in Framed(Due(q))
         /\ e \in Framed(Due(q)) /\ Greeted(e, TRUE) /\ Len(e) >= 2
    <3>1. TRUE \in BOOLEAN /\ (TRUE => ms # <<>>)
      BY <2>8
    <3>2. (TRUE => Len(e) >= 2) => Len(e) >= 2
      OBVIOUS
    <3>3. TRUE => Len(e) >= 2
      BY <1>2, <2>1, <2>3, <2>8, <2>9, <2>10, <3>1, Sent
    <3>4. /\ DOMAIN wire' = Peers /\ wire'[q] \in Seq(Cells(Due(q)))
          /\ Stream(q)' = Stream(q) \o e /\ Stream(q)' \in Framed(Due(q))
          /\ e \in Framed(Due(q)) /\ Greeted(e, TRUE)
      BY <1>2, <2>1, <2>3, <2>8, <2>9, <2>10, <3>1, Sent
    <3> QED
      BY <3>2, <3>3, <3>4
  <2> HIDE DEF e
  <2>12. Stream(q)' = e
    <3>1. e \in Seq(Cells(Due(q)))
      BY <2>11 DEF Framed
    <3>2. <<>> \o e = e
      BY <3>1, ConcatEmptySeq
    <3> QED
      BY <2>6, <2>11, <3>2
  <2>13. StreamsInv'
    BY <1>1, <1>3, <1>4, <2>2, <2>4, <2>6, <2>10, <2>11, <2>12, Acted
  <2> QED
    BY <2>4, <2>13
<1> QED
  BY <1>6, <1>7 DEF Peers

LEMMA BitfieldStep ==
  ASSUME StreamsInv, NEW p \in Peers, Bitfield(p)
  PROVE  StreamsInv' /\ (FewPieces => link' = link)
<1>1. Ready(p) /\ Take(p) /\ ~ Waiting(p) /\ UNCHANGED <<disk, wire, state, next>> /\ link = "up"
  BY LaterIs DEF Bitfield
<1>2. FlowInv /\ StateInv
  BY DEF StreamsInv
<1>3. state' = [state EXCEPT ![p] = "READING_MESSAGE_LENGTH"] /\ next' \in 0 .. Npieces
  BY <1>1, <1>2 DEF StateInv, Waiting
<1>4. DOMAIN disk' = Peers /\ disk'["seeder"] = disk["seeder"]
  BY <1>1, <1>2 DEF FlowInv
<1>5. Message(p) # Hello /\ Message(p) \in Due(p) /\ Type(p) = Message(p).type
  BY <1>1, Heard
<1>6. Type(p) \notin {"REQUEST", "PIECE"}
  BY DEF Bitfield
<1>7. Type(p) = "BITFIELD"
  <2>1. CASE p = "seeder"
    BY <1>5, <1>6, <2>1, SeederHears, MessageKinds
  <2>2. CASE p = "downloader"
    BY <1>5, <1>6, <2>2, DownloaderHears, MessageKinds
  <2> QED
    BY <2>1, <2>2 DEF Peers
<1>8. link' \in {link, "panic"} /\ (FewPieces => link' = link)
  BY <1>7 DEF Bitfield
<1>9. link' # "none"
  BY <1>1, <1>8
<1> QED
  BY <1>1, <1>3, <1>4, <1>8, <1>9, Quiet

LEMMA ServeStep ==
  ASSUME StreamsInv, NEW p \in Peers, Serve(p)
  PROVE  /\ StreamsInv'
         /\ p = "seeder" /\ \E s \in GoodSlices : /\ Message(p) = Request(s)
                                                  /\ ~ Readable(disk["seeder"], s) \/ link' = link
<1>1. Ready(p) /\ Take(p) /\ ~ Waiting(p) /\ UNCHANGED <<disk, state, next>> /\ link = "up"
  BY LaterIs DEF Serve
<1>2. FlowInv /\ StateInv
  BY DEF StreamsInv
<1>3. state' = [state EXCEPT ![p] = "READING_MESSAGE_LENGTH"] /\ next' \in 0 .. Npieces
  BY <1>1, <1>2 DEF StateInv, Waiting
<1>4. DOMAIN disk' = Peers /\ disk'["seeder"] = disk["seeder"]
  BY <1>1, <1>2 DEF FlowInv
<1> DEFINE s == Message(p).slice
           d == ReadSlice(disk[p], s)
<1>5. \/ wire' = wire /\ link' = "panic" /\ ~ Readable(disk[p], s)
      \/ Send(p, <<Piece(s, d)>>) /\ link' = link
  BY DEF Serve
<1>6. Message(p) # Hello /\ Message(p) \in Due(p) /\ Type(p) = Message(p).type
  BY <1>1, Heard
<1>7. Message(p).type = "REQUEST"
  BY <1>6 DEF Serve
<1>8. p = "seeder"
  <2>1. CASE p = "downloader"
    BY <1>6, <1>7, <2>1, DownloaderHears, MessageKinds
  <2> QED
    BY <2>1 DEF Peers
<1>9. PICK g \in GoodSlices : Message(p) = Request(g)
  BY <1>6, <1>7, <1>8, SeederHears, MessageKinds
<1>10. s = g
  BY <1>9, MessageKinds
<1>11. link' # "none"
  BY <1>1, <1>5
<1>12. StreamsInv'
  <2>1. CASE wire' = wire
    BY <1>1, <1>3, <1>4, <1>11, <2>1, Quiet
  <2>2. CASE Send(p, <<Piece(s, d)>>)
    <3> DEFINE m == Piece(s, d)
               ms == <<m>>
    <3>1. Other(p) = "downloader"
      BY <1>8 DEF Other
    <3>2. m \in Due(Other(p)) /\ m # Hello
      BY <1>8, <1>10, <3>1, MessageKinds DEF Due, Inbox
    <3> HIDE DEF m
    <3>3. ms \in Seq(Due(Other(p))) /\ \A i \in 1 .. Len(ms) : ms[i] # Hello
      BY <3>2
    <3> HIDE DEF ms
    <3>4. Send(p, ms)
      BY <2>2 DEF ms, m
    <3> QED
      BY <1>1, <1>3, <1>4, <1>11, <3>3, <3>4, Answered
  <2> QED
    BY <1>5, <2>1, <2>2
<1>13. ~ Readable(disk["seeder"], g) \/ link' = link
  BY <1>5, <1>8, <1>10
<1> QED
  BY <1>8, <1>9, <1>12, <1>13

LEMMA StoreStep ==
  ASSUME StreamsInv, NEW p \in Peers, Store(p)
  PROVE  /\ StreamsInv'
         /\ p = "downloader"
         /\ \E s \in GoodSlices : Message(p) = Piece(s, ReadSlice(disk["seeder"], s))
<1>1. Ready(p) /\ Take(p) /\ ~ Waiting(p) /\ UNCHANGED state /\ link = "up"
  BY LaterIs DEF Store
<1>2. FlowInv /\ StateInv
  BY DEF StreamsInv
<1>3. state' = [state EXCEPT ![p] = "READING_MESSAGE_LENGTH"] /\ next \in 0 .. Npieces
  BY <1>1, <1>2 DEF StateInv, Waiting
<1>4. PICK d : disk' = [disk EXCEPT ![p] = d]
  BY DEF Store
<1>5. \/ wire' = wire /\ next' = next
      \/ Send("downloader", <<>> \o NextRequests) /\ (next' = next \/ (next < Npieces /\ next' = next + 1))
  BY DEF Store, RequestPieces
<1>6. link' # "none"
  BY <1>1 DEF Store
<1>7. next' \in 0 .. Npieces
  BY <1>3, <1>5, PiecesCount
<1>8. Message(p) # Hello /\ Message(p) \in Due(p) /\ Type(p) = Message(p).type
  BY <1>1, Heard
<1>9. Message(p).type = "PIECE"
  BY <1>8 DEF Store
<1>10. p = "downloader"
  <2>1. CASE p = "seeder"
    BY <1>8, <1>9, <2>1, SeederHears, MessageKinds
  <2> QED
    BY <2>1 DEF Peers
<1>11. PICK g \in GoodSlices : Message(p) = Piece(g, ReadSlice(disk["seeder"], g))
  BY <1>8, <1>10, DownloaderHears
<1>12. DOMAIN disk' = Peers /\ disk'["seeder"] = disk["seeder"]
  BY <1>2, <1>4, <1>10 DEF FlowInv
<1>13. StreamsInv'
  <2>1. CASE wire' = wire
    BY <1>1, <1>3, <1>6, <1>7, <1>10, <1>12, <2>1, Quiet
  <2>2. CASE Send("downloader", <<>> \o NextRequests)
    <3> DEFINE ms == NextRequests
               M == Due("seeder")
    <3>1. Other(p) = "seeder"
      BY <1>10 DEF Other
    <3>2. ms \in Seq(M) /\ \A i \in 1 .. Len(ms) : ms[i] # Hello
      <4>1. next \in Nat
        BY <1>3, PiecesCount
      <4> QED
        BY <4>1, RequestsAreGood DEF Due
    <3> HIDE DEF ms, M
    <3>3. <<>> \o ms = ms
      BY <3>2, ConcatEmptySeq
    <3>4. Send(p, ms)
      BY <1>10, <2>2, <3>3 DEF ms
    <3>5. ms \in Seq(Due(Other(p)))
      BY <3>1, <3>2 DEF M
    <3> QED
      BY <1>1, <1>6, <1>7, <1>12, <3>2, <3>4, <3>5, Answered
  <2> QED
    BY <1>5, <2>1, <2>2
<1> QED
  BY <1>10, <1>11, <1>13

LEMMA StreamsNext ==
  ASSUME StreamsInv, [Next]_vars
  PROVE  StreamsInv'
<1>1. CASE Connected
  BY <1>1, ConnectedStep
<1>2. ASSUME NEW p \in Peers, Step(p)
      PROVE  StreamsInv'
  BY <1>2, ReceiveStep, HandshakeStep, BitfieldStep, ServeStep, StoreStep DEF Step
<1>3. CASE Lose
  BY <1>3, StillStep DEF Lose
<1>4. CASE UNCHANGED vars
  BY <1>4, StillStep DEF vars
<1> QED
  BY <1>1, <1>2, <1>3, <1>4 DEF Next, Over

(* However the stream is cut up, either side has whole messages before it, *)
(* the handshake first and only once.                                      *)
THEOREM StreamsAreWhole == Spec => []StreamsInv
<1>1. Init => StreamsInv
  BY InitStreams
<1>2. StreamsInv /\ [Next]_vars => StreamsInv'
  BY StreamsNext
<1> QED
  BY <1>1, <1>2, PTL DEF Spec

(* The stash of either side never holds a message and a whole read         *)
(* ("stash too small", peer.c:50), whatever the sizes.                     *)
THEOREM StashStaysSmall == Spec => []StashIsSmall
<1>1. StreamsInv => StashIsSmall
  BY DEF StreamsInv, StateInv
<1> QED
  BY <1>1, StreamsAreWhole, PTL

-----------------------------------------------------------------------------
(***************************************************************************)
(* The disks, as long as no piece lies in two files: the seeder's stays as *)
(* it is, and what the downloader stores comes from there.                 *)
(***************************************************************************)

Buffer(f) == [0 .. FileLens[f] - 1 -> Contents]

DiskInv ==
  \A f \in Files : /\ disk["seeder"][f] \in Buffer(f)
                   /\ disk["downloader"][f] \in {Missing, NoPlace} \cup Buffer(f)

PanicsAreApt == FewPieces /\ link = "panic" => \E f \in Files : disk.downloader[f] = NoPlace

LEMMA BuffersAreReadable ==
  ASSUME NEW f \in Files, NEW b \in Buffer(f)
  PROVE  b # Missing /\ b # NoPlace
  BY NamesAssumption DEF Buffer

LEMMA SizesOfAll ==
  ASSUME NEW f \in Files, NEW pos \in 0 .. FileLens[f] - 1
  PROVE  FileBegin(f) + pos + 1 \in Contents
<1>1. FileBegin(f) \in Nat /\ FileEnd[f] = FileBegin(f) + FileLens[f] /\ FileLens[f] \in Nat
  BY FileLies, Sizes
<1>2. Len(FileLens) \in Files /\ Len(FileLens) \in Nat /\ f \in Int /\ f <= Len(FileLens)
  BY Sizes
<1>3. FileEnd[f] <= TotalSize /\ TotalSize \in Nat
  <2>1. TotalSize \in Nat
    BY <1>2, FileLies
  <2>2. f \in 0 .. Len(FileLens) /\ Len(FileLens) \in 0 .. Len(FileLens)
    BY <1>2, Sizes
  <2> QED
    BY <1>2, <2>1, <2>2, EndsRise DEF TotalSize
<1> QED
  BY <1>1, <1>3 DEF Contents

LEMMA SliceStored ==
  ASSUME OneFileEach, DiskInv, NEW s \in GoodSlices, NEW d,
         d = WriteSlice(disk["downloader"], s, ReadSlice(disk["seeder"], s)),
         NEW g \in Files
  PROVE  /\ d[g] \in {Missing, NoPlace} \cup Buffer(g)
         /\ d[g] = NoPlace <=> disk["downloader"][g] = NoPlace
         /\ d[g] = Missing => disk["downloader"][g] = Missing
         /\ Holds(g, s) => d[g] # Missing
         /\ disk["downloader"][g] \notin {Missing, NoPlace} =>
              \A pos \in 0 .. FileLens[g] - 1 :
                d[g][pos] \in {disk["downloader"][g][pos], disk["seeder"][g][pos]}
<1> DEFINE old == disk["downloader"]
           src == disk["seeder"]
           data == ReadSlice(src, s)
<1>1. PICK f \in Files : Holds(f, s)
  BY SliceInFile
<1> DEFINE o == Off(s, f)
           n == s.length
           byte(pos) == IF pos - o \in 0 .. n - 1 THEN data[pos - o]
                        ELSE IF old[f] = Missing THEN 0 ELSE old[f][pos]
<1>2. o \in Nat /\ n \in Nat \ {0} /\ o + n <= FileLens[f] /\ FileLens[f] \in Nat
  BY <1>1, Sizes DEF Holds
<1>3. \A k \in 0 .. n - 1 : data[k] = src[f][o + k]
  <2>1. data = Stored(src, f, s)
    BY <1>1, ReadsInFile
  <2> QED
    BY <2>1 DEF Stored
<1>4. src[f] \in Buffer(f) /\ \A h \in Files : old[h] \in {Missing, NoPlace} \cup Buffer(h)
  BY DEF DiskInv
<1>5. d[g] = IF g # f \/ old[f] = NoPlace THEN old[g]
             ELSE [pos \in 0 .. FileLens[f] - 1 |-> byte(pos)]
  <2>1. d[g] = IF g # f \/ old[f] = NoPlace THEN old[g] ELSE Overwritten(old, f, s, data)
    BY <1>1, WritesInFile
  <2>2. Overwritten(old, f, s, data) = [pos \in 0 .. FileLens[f] - 1 |-> byte(pos)]
    BY DEF Overwritten
  <2> HIDE DEF byte, old, data
  <2> QED
    BY <2>1, <2>2
<1>6. Holds(g, s) => g = f
  BY <1>1 DEF Holds
<1>7. Missing # NoPlace
  BY NamesAssumption
<1>8. CASE g # f
  <2>1. d[g] = old[g]
    BY <1>5, <1>8
  <2> QED
    BY <1>4, <1>6, <1>8, <2>1
<1>9. CASE g = f /\ old[f] = NoPlace
  <2>1. d[g] = old[g]
    BY <1>5, <1>9
  <2> QED
    BY <1>7, <1>9, <2>1
<1>10. CASE g = f /\ old[f] # NoPlace
  <2>1. d[f] = [pos \in 0 .. FileLens[f] - 1 |-> byte(pos)]
    BY <1>5, <1>10
  <2> HIDE DEF data, o, n, old, src
  <2>2. ASSUME NEW pos \in 0 .. FileLens[f] - 1
        PROVE  /\ byte(pos) \in Contents
               /\ old[f] # Missing => byte(pos) \in {old[f][pos], src[f][pos]}
    <3>1. CASE pos - o \in 0 .. n - 1
      <4>1. o + (pos - o) = pos
        BY <1>2
      <4>2. byte(pos) = src[f][pos]
        BY <1>3, <3>1, <4>1
      <4> QED
        BY <1>4, <4>2 DEF Buffer
    <3>2. CASE pos - o \notin 0 .. n - 1
      <4>1. CASE old[f] = Missing
        <5>1. byte(pos) = 0
          BY <3>2, <4>1
        <5>2. TotalSize \in Nat
          <6>1. Len(FileLens) \in Files
            BY Sizes
          <6> QED
            BY <6>1, FileLies
        <5> QED
          BY <4>1, <5>1, <5>2 DEF Contents
      <4>2. CASE old[f] # Missing
        <5>1. byte(pos) = old[f][pos]
          BY <3>2, <4>2
        <5>2. old[f] \in Buffer(f)
          BY <1>4, <1>10, <4>2
        <5> QED
          BY <5>1, <5>2 DEF Buffer
      <4> QED
        BY <4>1, <4>2
    <3> QED
      BY <3>1, <3>2
  <2> HIDE DEF byte
  <2>3. d[f] \in Buffer(f)
    BY <2>1, <2>2 DEF Buffer
  <2>4. d[f] # Missing /\ d[f] # NoPlace
    BY <2>3, BuffersAreReadable
  <2>5. old[f] # Missing =>
          \A pos \in 0 .. FileLens[f] - 1 : d[f][pos] \in {old[f][pos], src[f][pos]}
    BY <2>1, <2>2
  <2> QED
    BY <1>10, <2>3, <2>4, <2>5 DEF old, src
<1> QED
  BY <1>8, <1>9, <1>10

(* A slice is stored unless there is no place for its file.                *)
LEMMA StoredOrNoPlace ==
  ASSUME OneFileEach, DiskInv, NEW s \in GoodSlices, NEW d,
         d = WriteSlice(disk["downloader"], s, ReadSlice(disk["seeder"], s)),
         ~ Writable(disk["downloader"], s) \/ ~ Readable(d, WholePiece(s.index))
  PROVE  \E f \in Files : d[f] = NoPlace
<1>1. PICK f \in Files : Holds(f, s) /\ Holds(f, WholePiece(s.index))
  BY SliceInFile
<1>2. Touched(s) = {f} /\ Touched(WholePiece(s.index)) = {f}
  BY <1>1 DEF Holds
<1>3. disk["downloader"][f] = NoPlace \/ d[f] \in {Missing, NoPlace}
  BY <1>2 DEF Writable, Readable
<1>4. (d[f] = NoPlace <=> disk["downloader"][f] = NoPlace) /\ d[f] # Missing
  BY <1>1, SliceStored
<1> QED
  BY <1>3, <1>4

LEMMA Served ==
  ASSUME OneFileEach, DiskInv, NEW s \in GoodSlices
  PROVE  Readable(disk["seeder"], s)
<1>1. PICK f \in Files : Holds(f, s)
  BY SliceInFile
<1>2. Touched(s) = {f} /\ disk["seeder"][f] \in Buffer(f)
  BY <1>1 DEF Holds, DiskInv
<1> QED
  BY <1>2, BuffersAreReadable DEF Readable

LEMMA InitDisk ==
  ASSUME Init
  PROVE  DiskInv
<1>1. PICK wrong, d : /\ disk = [seeder |-> SeederDisk(wrong), downloader |-> d]
                      /\ \A f \in Files : d[f] \in LeftOver(f)
  BY DEF Init
<1>2. disk["seeder"] = SeederDisk(wrong) /\ disk["downloader"] = d
  BY <1>1
<1>3. TotalSize \in Nat /\ 0 \in Contents
  <2>1. Len(FileLens) \in Files
    BY Sizes
  <2>2. TotalSize \in Nat
    BY <2>1, FileLies
  <2> QED
    BY <2>2 DEF Contents
<1>4. ASSUME NEW f \in Files
      PROVE  /\ SeederDisk(wrong)[f] \in Buffer(f)
             /\ LeftOver(f) \subseteq {Missing, NoPlace} \cup Buffer(f)
  <2>1. \A pos \in 0 .. FileLens[f] - 1 : Proper[f][pos] \in Contents
    BY SizesOfAll DEF Proper
  <2> DEFINE N == FileLens[f]
             P(pos) == Proper[f][pos]
  <2> HIDE DEF P, N
  <2>2. \A pos \in 0 .. N - 1 : P(pos) \in Contents
    BY <2>1 DEF P, N
  <2>3. \A X : [pos \in 0 .. N - 1 |-> IF pos \in X THEN P(pos) ELSE 0] \in [0 .. N - 1 -> Contents]
    BY <1>3, <2>2
  <2>4. [pos \in 0 .. N - 1 |-> IF <<f, pos>> \in wrong THEN 0 ELSE P(pos)] \in [0 .. N - 1 -> Contents]
    BY <1>3, <2>2
  <2>5. SeederDisk(wrong)[f] = [pos \in 0 .. N - 1 |-> IF <<f, pos>> \in wrong THEN 0 ELSE P(pos)]
    BY DEF SeederDisk, P, N
  <2>6. LeftOver(f) = {Missing, NoPlace} \cup
          {[pos \in 0 .. N - 1 |-> IF pos \in X THEN P(pos) ELSE 0] : X \in SUBSET (0 .. N - 1)}
    BY DEF LeftOver, P, N
  <2>7. LeftOver(f) \subseteq {Missing, NoPlace} \cup [0 .. N - 1 -> Contents]
    BY <2>3, <2>6
  <2> QED
    BY <2>4, <2>5, <2>7 DEF Buffer, N
<1> QED
  BY <1>1, <1>2, <1>4 DEF DiskInv

(* The slice s of the seeder's disk goes to the downloader's.              *)
Copied(s) ==
  /\ disk'["seeder"] = disk["seeder"]
  /\ disk'["downloader"] = WriteSlice(disk["downloader"], s, ReadSlice(disk["seeder"], s))
  /\ \/ link' = link
     \/ ~ Writable(disk["downloader"], s)
     \/ ~ Readable(disk'["downloader"], WholePiece(s.index))

LEMMA StoreStores ==
  ASSUME StreamsInv, NEW p \in Peers, Store(p)
  PROVE  \E s \in GoodSlices : Copied(s)
<1>1. p = "downloader"
  BY StoreStep
<1>2. PICK s \in GoodSlices : Message(p) = Piece(s, ReadSlice(disk["seeder"], s))
  BY StoreStep
<1>3. Message(p).slice = s /\ Message(p).data = ReadSlice(disk["seeder"], s)
  BY <1>2, MessageKinds
<1> DEFINE d == WriteSlice(disk["downloader"], s, ReadSlice(disk["seeder"], s))
<1>4. disk' = [disk EXCEPT ![p] = d]
  BY <1>1, <1>3 DEF Store
<1>5. ~ Writable(disk["downloader"], s) \/ ~ Readable(d, WholePiece(s.index)) \/ link' = link
  BY <1>1, <1>3 DEF Store
<1> HIDE DEF d
<1>6. disk'["downloader"] = d /\ disk'["seeder"] = disk["seeder"]
  <2>1. "downloader" \in DOMAIN disk
    BY DEF StreamsInv, FlowInv, Peers
  <2> QED
    BY <1>1, <1>4, <2>1
<1> QED
  BY <1>5, <1>6 DEF Copied, d

(* Of the other steps only a bitfield of many pieces can bring a side down.*)
LEMMA OtherSteps ==
  ASSUME OneFileEach, StreamsInv, DiskInv, [Next]_vars, \A p \in Peers : ~ Store(p)
  PROVE  disk' = disk /\ (FewPieces /\ link' = "panic" => link = "panic")
<1>1. CASE Connected
  BY <1>1 DEF Connected
<1>2. ASSUME NEW p \in Peers, Receive(p)
      PROVE  disk' = disk /\ (link' = "panic" => link = "panic")
  BY <1>2 DEF Receive
<1>3. ASSUME NEW p \in Peers, Handshake(p)
      PROVE  disk' = disk /\ (link' = "panic" => link = "panic")
  <2>1. link' = link
    BY <1>3, HandshakeStep
  <2> QED
    BY <1>3, <2>1 DEF Handshake
<1>4. ASSUME NEW p \in Peers, Bitfield(p)
      PROVE  disk' = disk /\ (FewPieces /\ link' = "panic" => link = "panic")
  <2>1. FewPieces => link' = link
    BY <1>4, BitfieldStep
  <2> QED
    BY <1>4, <2>1 DEF Bitfield
<1>5. ASSUME NEW p \in Peers, Serve(p)
      PROVE  disk' = disk /\ (link' = "panic" => link = "panic")
  <2>1. link' = link
    BY <1>5, ServeStep, Served
  <2> QED
    BY <1>5, <2>1 DEF Serve
<1>6. CASE Lose
  BY <1>6 DEF Lose
<1>7. CASE UNCHANGED vars
  BY <1>7 DEF vars
<1> QED
  BY <1>1, <1>2, <1>3, <1>4, <1>5, <1>6, <1>7 DEF Next, Step, Over

LEMMA DiskNext ==
  ASSUME OneFileEach, StreamsInv, DiskInv, PanicsAreApt, [Next]_vars
  PROVE  DiskInv' /\ PanicsAreApt'
<1>1. CASE \E p \in Peers : Store(p)
  <2>1. PICK s \in GoodSlices : Copied(s)
    BY <1>1, StoreStores
  <2> DEFINE d == disk'["downloader"]
  <2>2. /\ d = WriteSlice(disk["downloader"], s, ReadSlice(disk["seeder"], s))
        /\ disk'["seeder"] = disk["seeder"]
        /\ \/ link' = link
           \/ ~ Writable(disk["downloader"], s)
           \/ ~ Readable(d, WholePiece(s.index))
    BY <2>1 DEF Copied
  <2> HIDE DEF d
  <2>3. \A g \in Files : /\ d[g] \in {Missing, NoPlace} \cup Buffer(g)
                         /\ d[g] = NoPlace <=> disk["downloader"][g] = NoPlace
    BY <2>2, SliceStored
  <2>4. DiskInv'
    BY <2>2, <2>3 DEF DiskInv, d
  <2>5. ASSUME FewPieces, link' = "panic"
        PROVE  \E g \in Files : d[g] = NoPlace
    <3>1. CASE link' = link
      BY <2>3, <2>5, <3>1 DEF PanicsAreApt
    <3>2. CASE link' # link
      BY <2>2, <3>2, StoredOrNoPlace
    <3> QED
      BY <3>1, <3>2
  <2> QED
    BY <2>4, <2>5 DEF PanicsAreApt, d
<1>2. CASE \A p \in Peers : ~ Store(p)
  <2>1. disk' = disk /\ (FewPieces /\ link' = "panic" => link = "panic")
    BY <1>2, OtherSteps
  <2> QED
    BY <2>1 DEF DiskInv, PanicsAreApt
<1> QED
  BY <1>1, <1>2

(* While no piece lies in two files, the files have their types, and no    *)
(* message brings a side down but one for a file without a directory, and  *)
(* a bitfield of more pieces than a message has room for.                  *)
THEOREM DisksAreRight ==
  ASSUME OneFileEach
  PROVE  Spec => [](DiskInv /\ PanicsAreApt)
<1>1. Init => DiskInv /\ PanicsAreApt
  BY InitDisk DEF Init, PanicsAreApt
<1>2. StreamsInv /\ (DiskInv /\ PanicsAreApt) /\ [Next]_vars
        => (DiskInv /\ PanicsAreApt)'
  BY DiskNext
<1> QED
  BY <1>1, <1>2, StreamsAreWhole, PTL DEF Spec

(* While no piece lies in two files, and the bitfield's flags fit a msg_t, *)
(* which is to say that there are up to 1000 pieces, neither side is       *)
(* brought down by what the other one sends: only a directory that is      *)
(* missing brings one of them (the downloader) down, however the stream is *)
(* cut up.                                                                 *)
THEOREM OnlyPlacesPanic ==
  ASSUME OneFileEach, FewPieces
  PROVE  Spec => []PanicsForNoPlace
<1>1. StashIsSmall /\ PanicsAreApt => PanicsForNoPlace
  BY DEF PanicsForNoPlace, PanicsAreApt
<1> QED
  BY <1>1, StashStaysSmall, DisksAreRight, PTL

(* While no piece lies in two files, a byte on the downloader's disk that  *)
(* is right is never written over, except with one that the seeder has     *)
(* wrong.                                                                  *)
THEOREM RightBytesAreKept ==
  ASSUME OneFileEach
  PROVE  Spec => RightBytesStay
<1>1. ASSUME StreamsInv, DiskInv, [Next]_vars,
             NEW f \in Files, disk.downloader[f] \notin {Missing, NoPlace},
             NEW pos \in 0 .. FileLens[f] - 1, disk.downloader[f][pos] = Proper[f][pos]
      PROVE  disk'.downloader[f][pos] \in {Proper[f][pos], disk.seeder[f][pos]}
  <2>1. CASE \E p \in Peers : Store(p)
    <3>1. PICK s \in GoodSlices : Copied(s)
      BY <1>1, <2>1, StoreStores
    <3> DEFINE d == disk'["downloader"]
    <3>2. d = WriteSlice(disk["downloader"], s, ReadSlice(disk["seeder"], s))
      BY <3>1 DEF Copied
    <3> HIDE DEF d
    <3>3. d[f][pos] \in {disk["downloader"][f][pos], disk["seeder"][f][pos]}
      BY <1>1, <3>2, SliceStored
    <3> QED
      BY <1>1, <3>3 DEF d
  <2>2. CASE \A p \in Peers : ~ Store(p)
    BY <1>1, <2>2, OtherSteps
  <2> QED
    BY <2>1, <2>2
<1>2. StreamsInv /\ (DiskInv /\ PanicsAreApt) /\ [Next]_vars
        => [\A f \in Files : disk.downloader[f] \notin {Missing, NoPlace} =>
              \A pos \in 0 .. FileLens[f] - 1 :
                disk.downloader[f][pos] = Proper[f][pos] =>
                  disk'.downloader[f][pos] \in {Proper[f][pos], disk.seeder[f][pos]}]_vars
  BY <1>1
<1> QED
  BY <1>2, StreamsAreWhole, DisksAreRight, PTL DEF Spec, RightBytesStay
=============================================================================
