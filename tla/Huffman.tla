------------------------------- MODULE Huffman ------------------------------
(* Huffman coding as lib/compress/huffman.c does it, over the bits of      *)
(* lib/bits.c, which are packed into the bytes of lib/writer.c and taken   *)
(* from those of lib/reader.c.                                             *)
EXTENDS Integers, SequencesExt

CONSTANT PoolSize          \* the nodes of a tree; 512 in the code

EOF == -1
-----------------------------------------------------------------------------
(* A buffer in memory, that is written and read in portions: the reader    *)
(* gets nothing at the end, the writer an error.                           *)
Buffer(size) == [data |-> <<>>, size |-> size, nwritten |-> 0]
Least(m, n) == IF m < n THEN m ELSE n
mem_write(w, data) ==
  IF Len(w.data) >= w.size THEN EOF ELSE Least(Len(data), w.size - Len(w.data))
WriteBytes(w, data) ==
  LET r == mem_write(w, data)
  IN IF r > 0 THEN [w EXCEPT !.data = @ \o SubSeq(data, 1, r), !.nwritten = @ + r] ELSE w
mem_read(r, n) == SubSeq(r.data, r.pos + 1, Least(Len(r.data), r.pos + n))
ReadBytes(r, n) == LET got == mem_read(r, n) IN [r EXCEPT !.pos = @ + Len(got), !.got = Append(@, got)]
-----------------------------------------------------------------------------
(* The bits of a byte, the most significant first; a byte is reversed by   *)
(* swapping neighbours, then pairs, then halves.                           *)
Value(bits) == FoldLeft(LAMBDA n, b : 2 * n + b, 0, bits)
getbits_msfirst(byte) == [k \in 1 .. 8 |-> (byte \div 2 ^ (8 - k)) % 2]
getbits_lsfirst(byte) == [k \in 1 .. 8 |-> (byte \div 2 ^ (k - 1)) % 2]
Swapped(bits, w) == [k \in 1 .. 8 |-> IF ((k - 1) \div w) % 2 = 0 THEN bits[k + w] ELSE bits[k - w]]
reversebyte(byte) == Value(Swapped(Swapped(Swapped(getbits_msfirst(byte), 1), 2), 4))

(* The writer of bits: what is left over for the last byte is its          *)
(* beginning; after an error, nothing more is written.                     *)
Bytes(bits, order) ==
  LET Bit(k) == IF k <= Len(bits) THEN bits[k] ELSE 0
      Byte(i) == Value([k \in 1 .. 8 |-> Bit(8 * i + k)])
  IN [i \in 1 .. (Len(bits) + 7) \div 8 |-> IF order = "reversed" THEN reversebyte(Byte(i - 1)) ELSE Byte(i - 1)]
WriteBits(w, bits, order) ==
  LET bytes == Bytes(bits, order)
  IN [ok |-> Len(bytes) <= w.size - Len(w.data), out |-> FoldLeft(LAMBDA v, b : WriteBytes(v, <<b>>), w, bytes)]

(* The reader of bits, for the bit that comes after k others.  At the end  *)
(* of a file there is no next byte; at the end of a memory, nothing is     *)
(* put into the byte, and so its bits come once more.                      *)
read1(in, k) ==
  LET n == Len(in.data)
      i == k \div 8 + 1
      byte == IF i <= n THEN in.data[i] ELSE IF n = 0 THEN 0 ELSE in.data[n]
      bits == IF in.order = "reversed" THEN getbits_lsfirst(byte) ELSE getbits_msfirst(byte)
  IN IF in.from = "file" /\ i > n THEN EOF ELSE bits[(k % 8) + 1]
readn(in, k, n) ==
  LET bits == [i \in 1 .. n |-> read1(in, k + i - 1)]
  IN IF \E i \in 1 .. n : bits[i] = EOF THEN EOF ELSE Value(bits)
-----------------------------------------------------------------------------
(* Trees.  One of a text comes from its letters, by merging the two rarest *)
(* again and again; which ones these are of equally rare ones, the sorting *)
(* does not tell.                                                          *)
Null == [kind |-> "null"]
Leaf(v) == [kind |-> "leaf", val |-> v]
Fork(l, r) == [kind |-> "fork", left |-> l, right |-> r]

Merged(p, q) == [tree |-> Fork(p.tree, q.tree), count |-> p.count + q.count]
Rarest_Not(p, list) == \A q \in list \ {p} : p.count >= q.count       \* a slip: sorted in the other direction
Rarest(p, list) == \A q \in list \ {p} : p.count <= q.count
RECURSIVE Trees(_)
Trees(list) ==
  IF Cardinality(list) = 1 THEN {p.tree : p \in list}
  ELSE UNION {UNION {Trees((list \ {p, q}) \cup {Merged(p, q)}) : q \in {q \in list \ {p} : Rarest(q, list \ {p})}}
                : p \in {p \in list : Rarest(p, list)}}
buildtree(s) ==
  Trees({[tree |-> Leaf(c), count |-> Cardinality({k \in DOMAIN s : s[k] = c})] : c \in ToSet(s)})

(* A canonical one comes from the number of values at each depth, each of  *)
(* which gets the leftmost place that there is.                            *)
RECURSIVE createnode(_, _, _)
createnode(n, depth, v) ==
  LET Below(m) == CASE m.kind = "null" -> createnode(Fork(Null, Null), depth - 1, v)
                    [] m.kind = "fork" -> createnode(m, depth - 1, v)
                    [] m.kind = "leaf" -> Null
      New(m) == IF depth > 1 THEN Below(m) ELSE IF m = Null THEN Leaf(v) ELSE Null
      left == New(n.left)
      right == New(n.right)
  IN CASE left # Null -> [n EXCEPT !.left = left]
       [] left = Null /\ right # Null -> [n EXCEPT !.right = right]
       [] left = Null /\ right = Null -> Null

RECURSIVE Size(_)
Size(n) == CASE n.kind = "null" -> 0
             [] n.kind = "leaf" -> 1
             [] n.kind = "fork" -> 1 + Size(n.left) + Size(n.right)

Panic == "panic"
treefrom(lencounts, vals) ==
  LET depths == FlattenSeq([i \in DOMAIN lencounts |-> [j \in 1 .. lencounts[i] |-> i]])
      Add(n, c) == IF n = Null THEN Null
                   ELSE LET m == createnode(n, depths[c], vals[c]) IN IF Size(m) > PoolSize THEN Null ELSE m
      tree == FoldLeft(Add, Fork(Null, Null), [c \in DOMAIN depths |-> c])
  IN IF tree = Null THEN [ends |-> Panic] ELSE [ends |-> "built", tree |-> tree]
-----------------------------------------------------------------------------
(* The writer's table of codes, and the codes that are printed.            *)
RECURSIVE inittable(_, _), outputnode(_, _)
inittable(n, pref) ==
  IF n.kind = "leaf" THEN {<<n.val, pref>>}
  ELSE inittable(n.left, Append(pref, 0)) \cup inittable(n.right, Append(pref, 1))
outputnode(n, prefix) ==
  CASE n.kind = "null" -> <<>>
    [] n.kind = "leaf" -> <<<<n.val, prefix>>>>
    [] n.kind = "fork" -> outputnode(n.left, Append(prefix, 0)) \o outputnode(n.right, Append(prefix, 1))

(* A letter that has no code is written as nothing.                        *)
CodeOf(table, c) == IF \E e \in table : e[1] = c THEN (CHOOSE e \in table : e[1] = c)[2] ELSE <<>>
Encoded(tree, s) ==
  LET table == inittable(tree, <<>>)
  IN WriteBits(Buffer(Len(s)), FlattenSeq([k \in DOMAIN s |-> CodeOf(table, s[k])]), "straight").out.data

(* The reader, which is at node n of the tree after k bits: it ends at a   *)
(* node that has nothing to the left.  A null is followed no further.      *)
RECURSIVE Walk(_, _, _, _)
Walk(tree, n, in, k) ==
  LET bit == read1(in, k)
      next == IF bit = 1 THEN n.right ELSE n.left
  IN CASE bit = EOF -> [ends |-> IF n = tree THEN EOF ELSE Panic]
       [] bit # EOF /\ (n.kind = "leaf" \/ next = Null) -> [ends |-> "null"]
       [] bit # EOF /\ n.kind = "fork" /\ next.kind = "leaf" -> [ends |-> "got", val |-> next.val, k |-> k + 1]
       [] bit # EOF /\ n.kind = "fork" /\ next.kind = "fork" -> Walk(tree, next, in, k + 1)
read(tree, in, k) == Walk(tree, tree, in, k)
RECURSIVE ReadLetters(_, _, _, _)
ReadLetters(tree, in, k, n) ==
  IF n = 0 THEN <<>>
  ELSE LET c == read(tree, in, k) IN IF c.ends = "got" THEN <<c.val>> \o ReadLetters(tree, in, c.k, n - 1) ELSE <<c.ends>>
-----------------------------------------------------------------------------
In(data, order, from) == [data |-> data, order |-> order, from |-> from]
Sources(data, order) == {In(data, order, "file"), In(data, order, "memory")}

(* A byte is reversed, and reversed again it is the same.                  *)
IsByte(byte) ==
  /\ Value(getbits_msfirst(byte)) = byte
  /\ getbits_lsfirst(byte) = Reverse(getbits_msfirst(byte))
  /\ reversebyte(byte) = Value(getbits_lsfirst(byte))
  /\ reversebyte(reversebyte(byte)) = byte

(* Bits are read as they were written, one by one and as numbers, in both  *)
(* orders; after the last byte of a file there are none.  A buffer that is *)
(* too small holds what it can, and the writer knows.                      *)
AreBits(bits) ==
  \A order \in {"straight", "reversed"} :
    LET n == Len(bits)
        all == 8 * ((n + 7) \div 8)
        data == WriteBits(Buffer(n), bits, order).out.data
        small == WriteBits(Buffer(1), bits, order)
    IN /\ \A in \in Sources(data, order) : \A k \in 0 .. n :
            /\ [i \in 1 .. n |-> read1(in, i - 1)] = bits
            /\ readn(in, k, n - k) = Value(SubSeq(bits, k + 1, n))
       /\ read1(In(data, order, "file"), all) = EOF
       /\ readn(In(data, order, "file"), n, all - n + 1) = EOF
       /\ small.ok <=> n <= 8
       /\ small.out.data = SubSeq(data, 1, Least(1, Len(data)))

(* In whatever portions data are written and read, they are the same, as   *)
(* far as there is room.                                                   *)
ArePortions(portions, reads, size) ==
  LET data == FlattenSeq(portions)
      w == FoldLeft(WriteBytes, Buffer(size), portions)
      r == FoldLeft(ReadBytes, [data |-> w.data, pos |-> 0, got |-> <<>>], reads)
      asked == FoldLeft(LAMBDA m, n : m + n, 0, reads)
  IN /\ w.data = SubSeq(data, 1, Least(Len(data), size))
     /\ w.nwritten = Len(w.data)
     /\ FlattenSeq(r.got) = SubSeq(w.data, 1, Least(Len(w.data), asked))
     /\ r.pos = Len(FlattenSeq(r.got))

(* A text is read as it was written; no code begins another one; no code   *)
(* of any lengths that a prefix code can have makes the text shorter.      *)
Begins(a, b) == Len(a) <= Len(b) /\ SubSeq(b, 1, Len(a)) = a
Kraft(S, Length(_), most) == MapThenSumSet(LAMBDA c : 2 ^ (most - Length(c)), S) <= 2 ^ most
IsText(s) ==
  LET letters == ToSet(s)
      most == Cardinality(letters) - 1
      Count(c) == Cardinality({k \in DOMAIN s : s[k] = c})
      Total(Length(_)) == MapThenSumSet(LAMBDA c : Count(c) * Length(c), letters)
      prefixes == {l \in [letters -> 1 .. most] : Kraft(letters, LAMBDA c : l[c], most)}
  IN \A tree \in buildtree(s) :
       LET table == inittable(tree, <<>>)
           data == Encoded(tree, s)
       IN /\ \A in \in Sources(data, "straight") : ReadLetters(tree, in, 0, Len(s)) = s
          /\ {e[1] : e \in table} = letters
          /\ \A e, f \in table : e # f => ~Begins(e[2], f[2])
          /\ \A l \in prefixes : Total(LAMBDA c : Len(CodeOf(table, c))) <= Total(LAMBDA c : l[c])
          /\ Encoded(tree, s \o <<"none">> \o s) = Encoded(tree, s \o s)

(* The codes of a canonical tree count upwards, and a zero is added to the *)
(* count with each depth; they are printed in this order.  There is such a *)
(* tree unless it is too large, or the depths are not those of a code.     *)
IsCanonical(lencounts) ==
  LET most == Len(lencounts)
      depths == FlattenSeq([i \in 1 .. most |-> [j \in 1 .. lencounts[i] |-> i]])
      Code(c) == MapThenSumSet(LAMBDA d : 2 ^ (depths[c] - depths[d]), 1 .. c - 1)
      Bits(n, length) == [k \in 1 .. length |-> (n \div 2 ^ (length - k)) % 2]
      codes == [c \in DOMAIN depths |-> <<c, Bits(Code(c), depths[c])>>]
      nodes == {SubSeq(codes[c][2], 1, Least(k, depths[c])) : c \in DOMAIN codes, k \in 0 .. most} \cup {<<>>}
      isCode == Kraft(DOMAIN depths, LAMBDA c : depths[c], most)
      t == treefrom(lencounts, [c \in DOMAIN depths |-> c])
  IN IF ~isCode \/ Cardinality(nodes) > PoolSize THEN t.ends = Panic
     ELSE /\ t.ends = "built"
          /\ outputnode(t.tree, <<>>) = codes
          /\ \A in \in Sources(Bytes(FlattenSeq([c \in DOMAIN codes |-> codes[c][2]]), "straight"), "straight") :
               ReadLetters(t.tree, in, 0, Len(codes)) = [c \in DOMAIN codes |-> c]

AsMeant(x) ==
  CASE x[1] = "byte"     -> IsByte(x[2])
    [] x[1] = "bits"     -> AreBits(x[2])
    [] x[1] = "portions" -> ArePortions(x[2], x[3], x[4])
    [] x[1] = "text"     -> IsText(x[2])
    [] x[1] = "lengths"  -> IsCanonical(x[2])
=============================================================================
