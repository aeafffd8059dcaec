------------------------------- MODULE Bencode ------------------------------
(* Bencode: the writer and the reader of lib/formats, the program that     *)
(* prints what is read, the torrents of lib/formats/torrent.c and the      *)
(* answers of a tracker.  Data are sequences of signs; the name of a field *)
(* is one sign.  What reads data gives a value and the place p behind it,  *)
(* or panics, or never ends, or reads behind the end of the data, which is *)
(* undefined.                                                              *)
EXTENDS Integers, SequencesExt

CONSTANTS StackSize,       \* nodes that can be entered at once; 10 in the code
          Room,            \* of each text field; 200 in a torrent, 100 and 20 in a peer
          KeyRoom,         \* of a key; 1000
          MaxFiles,        \* 10000
          MaxPeers,        \* 100
          HashSize         \* 20

IntVal(n) == <<"int", n>>
StrVal(s) == <<"str", s>>
ListVal(items) == <<"list", items>>
DictVal(entries) == <<"dict", entries>>               \* a sequence of keys with their values

Digit == {"0", "1", "2", "3", "4", "5", "6", "7", "8", "9"}
DigitOf(d) == CHOOSE n \in 0 .. 9 : ToString(n) = d
INT_MAX == 2147483647
-----------------------------------------------------------------------------
(* The writer: digits from the greatest magnitude m on.  A buffer keeps    *)
(* the signs that it has room for.                                         *)
RECURSIVE Magnitude(_, _), FromMagnitude(_, _, _)
Magnitude(n, m) == IF m * 10 <= n THEN Magnitude(n, m * 10) ELSE m
FromMagnitude(n, rest, m) ==
  IF m = 0 THEN <<>> ELSE <<ToString(rest \div m)>> \o FromMagnitude(n, n % m, m \div 10)
WriteNum(n) ==
  LET size == IF n < 0 THEN -n ELSE n
  IN (IF n < 0 THEN <<"-">> ELSE <<>>) \o FromMagnitude(size, size, Magnitude(size, 1))
WriteBuf(s) == WriteNum(Len(s)) \o <<":">> \o s

RECURSIVE Written(_)
Written(v) ==
  CASE v[1] = "int"  -> <<"i">> \o WriteNum(v[2]) \o <<"e">>
    [] v[1] = "str"  -> WriteBuf(v[2])
    [] v[1] = "list" -> <<"l">> \o FlattenSeq([k \in DOMAIN v[2] |-> Written(v[2][k])]) \o <<"e">>
    [] v[1] = "dict" -> <<"d">> \o FlattenSeq([k \in DOMAIN v[2] |-> WriteBuf(v[2][k][1]) \o Written(v[2][k][2])]) \o <<"e">>
Kept(v, size) == LET s == Written(v) IN SubSeq(s, 1, IF Len(s) < size THEN Len(s) ELSE size)
-----------------------------------------------------------------------------
(* The reader.                                                             *)
EOF == "EOF"
Peek(s, p) == IF p <= Len(s) THEN s[p] ELSE EOF
Panic == [ends |-> "panic"]
Never == [ends |-> "never"]
Outside == [ends |-> "outside"]
Got(v, p) == [ends |-> "got", val |-> v, p |-> p]
Is(x) == x.ends = "got"
As(Kind(_), x) == IF Is(x) THEN Got(Kind(x.val), x.p) ELSE x

(* A sign that must be there.                                              *)
Consume(x, s, c) ==
  CASE ~Is(x) -> x
    [] Is(x) /\ x.p > Len(s) -> Outside
    [] Is(x) /\ x.p <= Len(s) -> IF s[x.p] = c THEN Got(x.val, x.p + 1) ELSE Panic

RECURSIVE Digits(_, _)
Digits(s, p) == IF Peek(s, p) \in Digit THEN Digits(s, p + 1) ELSE p
Num(s, p) ==
  LET first == IF Peek(s, p) = "-" THEN p + 1 ELSE p
      end == Digits(s, first)
      n == FoldLeft(LAMBDA m, d : 10 * m + DigitOf(d), 0, SubSeq(s, first, end - 1))
  IN IF end = first THEN Panic ELSE Got(IF first = p THEN n ELSE -n, end)
ReadNum(s, p) ==
  LET i == Consume(Got("i", p), s, "i") IN IF Is(i) THEN Consume(Num(s, i.p), s, "e") ELSE i

(* So many signs, after the colon.                                         *)
Take(n, s) ==
  LET colon == Consume(n, s, ":")
      end == IF n.val < 0 THEN colon.p ELSE colon.p + n.val
  IN IF ~Is(colon) THEN colon ELSE IF end > Len(s) + 1 THEN Outside ELSE Got(SubSeq(s, colon.p, end - 1), end)
ReadBuf(s, p, room) ==
  LET n == Num(s, p) IN IF Is(n) /\ n.val \in 0 .. room THEN Take(n, s) ELSE Panic

Enter(s, p, depth, v) == IF depth = StackSize THEN Panic ELSE IF p > Len(s) THEN Outside ELSE Got(v, p + 1)

(* What is inside of a node, until its e, is read in the way that is       *)
(* asked for; x has what there is so far.                                  *)
RECURSIVE Inside(_, _, _, _), Step(_, _, _, _), Skip(_, _, _), ReadVal(_, _, _)
Inside(s, x, depth, way) ==
  IF ~Is(x) \/ Peek(s, x.p) = "e" THEN Consume(x, s, "e") ELSE Inside(s, Step(s, x, depth, way), depth, way)
Open(s, p, depth, v, way) == Inside(s, Enter(s, p, depth, v), depth + 1, way)

(* At the end of the data there is nothing to skip, which inside of a node *)
(* is found again and again.                                               *)
Skip(s, p, depth) ==
  LET c == Peek(s, p)
      n == Num(s, p)
  IN CASE c = EOF -> Got(FALSE, p)
       [] c = "i" -> As(LAMBDA v : TRUE, ReadNum(s, p))
       [] c \in {"l", "d"} -> Open(s, p, depth, TRUE, "skip")
       [] c \notin {EOF, "i", "l", "d"} -> IF Is(n) THEN As(LAMBDA v : TRUE, Take(n, s)) ELSE n

(* What is printed: a value of the type that its first sign tells.         *)
PrintKeyRoom == 100
ReadVal(s, p, depth) ==
  LET c == Peek(s, p)
  IN CASE c = EOF -> Panic
       [] c = "i" -> As(IntVal, ReadNum(s, p))
       [] c = "l" -> As(ListVal, Open(s, p, depth, <<>>, "items"))
       [] c = "d" -> As(DictVal, Open(s, p, depth, <<>>, "entries"))
       [] c \notin {EOF, "i", "l", "d"} -> As(StrVal, ReadBuf(s, p, INT_MAX))
RECURSIVE ReadAll(_, _)
ReadAll(s, x) ==
  IF ~Is(x) \/ Peek(s, x.p) = EOF THEN x
  ELSE LET v == ReadVal(s, x.p, 0) IN ReadAll(s, IF Is(v) THEN Got(Append(x.val, v.val), v.p) ELSE v)

SkipOne(s, x, depth) == IF Peek(s, x.p) = EOF THEN Never ELSE Skip(s, x.p, depth)
Item(s, x, depth) == LET v == ReadVal(s, x.p, depth) IN As(LAMBDA item : Append(x.val, item), v)
Entry(s, x, depth) ==
  LET k == ReadBuf(s, x.p, PrintKeyRoom)
      v == ReadVal(s, k.p, depth)
  IN IF Is(k) THEN As(LAMBDA val : Append(x.val, <<k.val, val>>), v) ELSE k
-----------------------------------------------------------------------------
(* Torrents: the fields of the file, of its info and of each of its files. *)
TorrentTexts == {"announce", "created by", "comment"}
NoFile == [length |-> 0, path |-> <<>>]
NoInfo ==
  [k \in TorrentTexts \cup {"name"} |-> <<>>] @@ [k \in {"creation date", "piece length", "length"} |-> 0]
  @@ [private |-> FALSE, pieces |-> <<>>, files |-> <<>>, hashed |-> <<>>]

Field(x, k, v) == As(LAMBDA val : [x.val EXCEPT ![k] = val], v)
Text(s, x, k, p) == Field(x, k, ReadBuf(s, p, Room[k]))
Number(s, x, k, p) == Field(x, k, ReadNum(s, p))

(* The signs of the info are what is hashed; what is not known is skipped. *)
MetaEntry(s, x, k, p, depth) ==
  CASE k \in TorrentTexts -> Text(s, x, k, p)
    [] k = "creation date" -> Number(s, x, k, p)
    [] k = "info" -> LET y == Open(s, p, depth, x.val, "info")
                     IN As(LAMBDA info : [info EXCEPT !.hashed = SubSeq(s, p, y.p - 1)], y)
    [] k \notin TorrentTexts \cup {"creation date", "info"} -> As(LAMBDA more : x.val, Skip(s, p, depth))
InfoEntry(s, x, k, p, depth) ==
  CASE k = "name" -> Text(s, x, k, p)
    [] k \in {"piece length", "length"} -> Number(s, x, k, p)
    [] k = "private" -> Field(x, k, As(LAMBDA n : n # 0, ReadNum(s, p)))
    [] k = "pieces" -> Field(x, k, ReadBuf(s, p, INT_MAX))
    [] k = "files" -> Open(s, p, depth, x.val, "files")
    [] k \notin {"name", "piece length", "length", "private", "pieces", "files"} -> Panic
File(s, x, depth) ==
  LET file == Open(s, x.p, depth, NoFile, "file")
  IN IF Len(x.val.files) = MaxFiles THEN Panic
     ELSE As(LAMBDA f : [x.val EXCEPT !.files = Append(@, f)], file)

(* The parts of a path are joined, and must fit in.                        *)
Joined(parts) == Tail(FlattenSeq([k \in DOMAIN parts |-> <<"/">> \o parts[k]]))
Part(s, x) ==
  LET part == ReadBuf(s, x.p, KeyRoom)
      parts == Append(x.val, part.val)
  IN IF Is(part) /\ Len(Joined(parts)) <= Room["path"] THEN Got(parts, part.p) ELSE IF Is(part) THEN Panic ELSE part
FileEntry(s, x, k, p, depth) ==
  CASE k = "path" -> Field(x, k, As(LAMBDA parts : IF parts = <<>> THEN <<>> ELSE Joined(parts), Open(s, p, depth, <<>>, "path")))
    [] k = "length" -> Number(s, x, k, p)
    [] k \notin {"path", "length"} -> Panic

(* The answers of the tracker, which leave their peers behind those of the *)
(* answers before.                                                         *)
Counts == {"complete", "incomplete", "interval"}
NoAnswer == [k \in Counts |-> 0] @@ [peers |-> <<>>]
NoPeer == [k \in {"ip", "peer id"} |-> <<>>] @@ [port |-> 0]
AnswerEntry(s, x, k, p, depth) ==
  CASE k \in Counts -> Number(s, x, k, p)
    [] k = "peers" -> Open(s, p, depth, x.val, "peers")
    [] k \notin Counts \cup {"peers"} -> Panic
Peer(s, x, depth) ==
  LET peer == Open(s, x.p, depth, NoPeer, "peer")
  IN IF Len(x.val.peers) = MaxPeers THEN Outside
     ELSE As(LAMBDA q : [x.val EXCEPT !.peers = Append(@, q)], peer)
PeerEntry(s, x, k, p) ==
  CASE k \in {"ip", "peer id"} -> Text(s, x, k, p)
    [] k = "port" -> Number(s, x, k, p)
    [] k \notin {"ip", "peer id", "port"} -> Panic

Step(s, x, depth, way) ==
  LET key == ReadBuf(s, x.p, KeyRoom)
      k == IF Len(key.val) = 1 THEN key.val[1] ELSE "another"
  IN CASE way = "skip"    -> SkipOne(s, x, depth)
       [] way = "items"   -> Item(s, x, depth)
       [] way = "entries" -> Entry(s, x, depth)
       [] way = "path"    -> Part(s, x)
       [] way = "files"   -> File(s, x, depth)
       [] way = "peers"   -> Peer(s, x, depth)
       [] way = "meta"    -> IF Is(key) THEN MetaEntry(s, x, k, key.p, depth) ELSE key
       [] way = "info"    -> IF Is(key) THEN InfoEntry(s, x, k, key.p, depth) ELSE key
       [] way = "file"    -> IF Is(key) THEN FileEntry(s, x, k, key.p, depth) ELSE key
       [] way = "answer"  -> IF Is(key) THEN AnswerEntry(s, x, k, key.p, depth) ELSE key
       [] way = "peer"    -> IF Is(key) THEN PeerEntry(s, x, k, key.p) ELSE key

Parse(s) == Open(s, 1, 0, NoInfo, "meta")
read_tracker_response(s, last) == Open(s, 1, 0, last, "answer")
-----------------------------------------------------------------------------
(* The sizes of a torrent, the hash of a piece, and the file of a torrent  *)
(* that has one file.                                                      *)
totalsize(info) ==
  IF info.files = <<>> THEN info.length ELSE FoldLeft(LAMBDA n, f : n + f.length, 0, info.files)
npieces_Short(info) == totalsize(info) \div info["piece length"]         \* a slip: without the last, shorter one
npieces(info) ==
  LET t == totalsize(info)
      pl == info["piece length"]
  IN IF t % pl = 0 THEN t \div pl ELSE t \div pl + 1
lastlen(info) ==
  LET rem == totalsize(info) % info["piece length"] IN IF rem = 0 THEN info["piece length"] ELSE rem
piecehash(info, index) == SubSeq(info.pieces, index * HashSize + 1, (index + 1) * HashSize)

InfoWritten(info) ==
  LET single == [info EXCEPT !.files = <<>>]
  IN DictVal(<<<<<<"length">>, IntVal(info.length)>>, <<<<"name">>, StrVal(info.name)>>,
            <<<<"piece length">>, IntVal(info["piece length"])>>,
            <<<<"pieces">>, StrVal(SubSeq(info.pieces, 1, npieces(single) * HashSize))>>>>)
writefile(info) ==
  Written(DictVal(<<<<<<"announce">>, StrVal(info.announce)>>, <<<<"comment">>, StrVal(info.comment)>>,
                 <<<<"created by">>, StrVal(info["created by"])>>, <<<<"creation date">>, IntVal(info["creation date"])>>,
                 <<<<"info">>, InfoWritten(info)>>>>))
-----------------------------------------------------------------------------
(* What is written is read, or skipped, as a whole; nothing less than it   *)
(* is, at whatever sign a buffer or a file ends.                           *)
IsRead(v) ==
  LET s == Written(v)
      whole == Len(s)
  IN /\ ReadVal(s, 1, 0) = Got(v, whole + 1)
     /\ ReadAll(s \o s, Got(<<>>, 1)) = Got(<<v, v>>, 2 * whole + 1)
     /\ Skip(s, 1, 0) = Got(TRUE, whole + 1)
     /\ \A n \in 1 .. whole - 1 : ~Is(ReadVal(Kept(v, n), 1, 0)) /\ ~Is(Skip(Kept(v, n), 1, 0))

(* Lists can be as deep as the stack.                                      *)
RECURSIVE Nested(_)
Nested(n) == IF n = 0 THEN IntVal(n) ELSE ListVal(<<Nested(n - 1)>>)
IsDeep(n) == LET v == ReadVal(Written(Nested(n)), 1, 0)
             IN IF n <= StackSize THEN Is(v) /\ v.val = Nested(n) ELSE v = Panic

(* Whatever signs are read as a value, are skipped as one; the value can   *)
(* be written and read again.                                              *)
IsSkipped(s) ==
  LET v == ReadVal(s, 1, 0)
  IN Is(v) => /\ Skip(s, 1, 0) = Got(TRUE, v.p)
              /\ ReadVal(Written(v.val), 1, 0) = Got(v.val, Len(Written(v.val)) + 1)

(* A torrent is read as it was written, its info is what is hashed, and    *)
(* its pieces are those of its files.                                      *)
IsTorrent(info) ==
  Parse(writefile(info)) = Got([info EXCEPT !.hashed = Written(InfoWritten(info))], Len(writefile(info)) + 1)
IsSized(info) ==
  LET total == totalsize(info)
  IN /\ lastlen(info) \in 1 .. info["piece length"]
     /\ total > 0 => (npieces(info) - 1) * info["piece length"] + lastlen(info) = total
     /\ FlattenSeq([k \in 1 .. npieces(info) |-> piecehash(info, k - 1)]) = SubSeq(info.pieces, 1, npieces(info) * HashSize)

(* The fields of a torrent are read in any order, with what is not known   *)
(* among them; a field of the info that is not known ends the program.     *)
IsDescribed(meta, inner, info) ==
  LET d == DictVal([k \in DOMAIN meta |-> IF meta[k][1] = <<"info">> THEN <<<<"info">>, DictVal(inner)>> ELSE meta[k]])
      s == Written(d)
      known == \A k \in DOMAIN inner : inner[k][1] # <<"another">>
  IN Parse(s) = IF known THEN Got([info EXCEPT !.hashed = Written(DictVal(inner))], Len(s) + 1) ELSE Panic

(* Of two answers of the tracker, the last one tells the counts, and both  *)
(* tell peers.                                                             *)
PeerWritten(q) ==
  DictVal(<<<<<<"ip">>, StrVal(q.ip)>>, <<<<"peer id">>, StrVal(q["peer id"])>>, <<<<"port">>, IntVal(q.port)>>>>)
AnswerWritten(a) ==
  Written(DictVal(<<<<<<"complete">>, IntVal(a.complete)>>, <<<<"incomplete">>, IntVal(a.incomplete)>>, <<<<"interval">>, IntVal(a.interval)>>,
                 <<<<"peers">>, ListVal([k \in DOMAIN a.peers |-> PeerWritten(a.peers[k])])>>>>))
AreAnswers(a, b) ==
  LET first == read_tracker_response(AnswerWritten(a), NoAnswer)
      peers == a.peers \o b.peers
      both == read_tracker_response(AnswerWritten(b), first.val)
  IN /\ first = Got(a, Len(AnswerWritten(a)) + 1)
     /\ both = IF Len(peers) > MaxPeers THEN Outside ELSE Got([b EXCEPT !.peers = peers], Len(AnswerWritten(b)) + 1)

AsMeant(x) ==
  CASE x[1] = "value"   -> IsRead(x[2])
    [] x[1] = "deep"    -> IsDeep(x[2])
    [] x[1] = "signs"   -> \A t \in x[3] : IsSkipped(x[2] \o t)
    [] x[1] = "torrent" -> IsTorrent(x[2]) /\ IsSized(x[2])
    [] x[1] = "files"   -> IsSized(x[2])
    [] x[1] = "fields"  -> IsDescribed(x[2], x[3], x[4])
    [] x[1] = "answers" -> AreAnswers(x[2], x[3])
=============================================================================
