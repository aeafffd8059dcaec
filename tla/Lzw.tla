-------------------------------- MODULE Lzw ---------------------------------
(***************************************************************************)
(* lib/compress/lzw.c over the bit writer and reader of lib/bits.c: a      *)
(* message is compressed into a file and decompressed from it.             *)
(*                                                                         *)
(* The reader of the message gives as many bytes as it is asked for until  *)
(* there are no more (memory or a file), so that what the compressor has   *)
(* peeked at is always all that is left of a short message.                *)
(***************************************************************************)
EXTENDS Integers, Sequences

CONSTANTS Messages,     \* records: the alphabet's size and a text over 0 .. size - 1
          MaxDict,      \* MAX_DICT_LENGTH, 4096 in the code
          LenLimit,     \* a word's length is kept modulo this, 256 in the code
          ByteBits      \* 8

VARIABLES message,
          rest,         \* what the compressor has not encoded yet
          dict,         \* the compressor's dictionary: the words, code 0 first
          stream,       \* the bits written
          pos,          \* how many of them have been read
          known,        \* the decompressor's dictionary
          prev,         \* the last word it decoded
          out,          \* what it has written
          phase         \* "compress", "decode", "done" or "panicked"

vars == <<message, rest, dict, stream, pos, known, prev, out, phase>>

Reset == message.size
End == message.size + 1

Entry(word) == [len |-> Len(word) % LenLimit, word |-> word]

(* One word for every letter and two codes without a word.                 *)
NewDict(n) == [i \in 1 .. n + 2 |-> IF i <= n THEN Entry(<<i - 1>>) ELSE Entry(<<>>)]

Word(d, code) == SubSeq(d[code + 1].word, 1, d[code + 1].len)

CodeWidth(size) == CHOOSE w \in 1 .. size : /\ 2 ^ (w - 1) >= size - 1
                                            /\ \A v \in 1 .. w - 1 : 2 ^ (v - 1) < size - 1

(* writebits: the least significant bit first.                             *)
Bits(code, width) == [i \in 1 .. width |-> (code \div 2 ^ (i - 1)) % 2]

(* The value of the n bits behind p.                                       *)
Value(bits, p, n) ==
  LET Of[i \in 0 .. n] == IF i = 0 THEN 0 ELSE Of[i - 1] + bits[p + i] * 2 ^ (i - 1)
  IN  Of[n]

(* closewriter fills the last byte with zeros.                             *)
Padded(bits) == bits \o [i \in 1 .. (-Len(bits)) % ByteBits |-> 0]

Init ==
  /\ message \in Messages
  /\ rest = message.text
  /\ dict = NewDict(message.size)
  /\ known = NewDict(message.size)
  /\ stream = <<>> /\ pos = 0
  /\ prev = <<>> /\ out = <<>>
  /\ phase = "compress"

Fits(d, i) == /\ d[i].len \in 1 .. Len(rest)
              /\ SubSeq(rest, 1, d[i].len) = SubSeq(d[i].word, 1, d[i].len)

(* match: the first of the longest words that the message goes on with.    *)
Match == LET best == CHOOSE i \in DOMAIN dict :
               /\ Fits(dict, i)
               /\ \A j \in DOMAIN dict : Fits(dict, j) => \/ dict[j].len < dict[i].len
                                                          \/ dict[j].len = dict[i].len /\ i <= j
         IN  best - 1

Emit(code, size) == Bits(code, CodeWidth(size))

Compress_ResetFirst ==       \* a slip: the dictionary is reset before the code is written
  /\ phase = "compress" /\ rest # <<>>
  /\ LET n == dict[Match + 1].len
         code == Emit(Match, Len(dict))
         d == IF Len(dict) = MaxDict THEN NewDict(message.size) ELSE dict
     IN  IF n = Len(rest)
           THEN /\ stream' = stream \o code
                /\ rest' = <<>>
                /\ UNCHANGED dict
           ELSE /\ stream' = stream \o code \o
                     (IF d = dict THEN <<>> ELSE Emit(Reset, Len(d)))
                /\ dict' = Append(d, Entry(SubSeq(rest, 1, n + 1)))
                /\ rest' = SubSeq(rest, n + 1, Len(rest))
  /\ UNCHANGED <<message, pos, known, prev, out, phase>>

(* A turn of the loop of compress.                                         *)
Compress ==
  /\ phase = "compress" /\ rest # <<>>
  /\ LET n == dict[Match + 1].len
         full == Len(dict) = MaxDict
         code == Emit(Match, Len(dict))
     IN  IF n = Len(rest)
           THEN /\ stream' = stream \o code
                /\ rest' = <<>>
                /\ UNCHANGED dict
           ELSE /\ stream' = stream \o code \o (IF full THEN Emit(Reset, MaxDict) ELSE <<>>)
                /\ dict' = Append(IF full THEN NewDict(message.size) ELSE dict,
                                  Entry(SubSeq(rest, 1, n + 1)))
                /\ rest' = SubSeq(rest, n + 1, Len(rest))
  /\ UNCHANGED <<message, pos, known, prev, out, phase>>

Close ==
  /\ phase = "compress" /\ rest = <<>>
  /\ stream' = Padded(stream \o Emit(End, Len(dict)))
  /\ phase' = "decode"
  /\ UNCHANGED <<message, rest, dict, pos, known, prev, out>>

(* readbits, into the step that goes on with the code.                     *)
Width == CodeWidth(Len(known) + 1)
CanRead == pos + Width <= Len(stream)
Code == Value(stream, pos, Width)

(* decode goes back to reading after a RESET.                              *)
DecodeReset ==
  /\ phase = "decode" /\ CanRead /\ Code = Reset
  /\ known' = NewDict(message.size)
  /\ pos' = pos + Width
  /\ UNCHANGED <<message, rest, dict, stream, prev, out, phase>>

DecodeEnd ==
  /\ phase = "decode" /\ CanRead /\ Code = End
  /\ phase' = "done"
  /\ pos' = pos + Width
  /\ UNCHANGED <<message, rest, dict, stream, known, prev, out>>

(* The two panics: the stream ends within a code, or the code is not known. *)
Broken == \/ ~CanRead
          \/ Code > Len(known)
          \/ Code = Len(known) /\ prev = <<>>

(* A word, or the one that the compressor has just made of the previous    *)
(* word and is the first to use.                                           *)
Decode ==
  /\ phase = "decode"
  /\ CanRead => Code \notin {Reset, End}
  /\ IF Broken
       THEN phase' = "panicked" /\ UNCHANGED <<pos, known, prev, out>>
       ELSE LET curr == IF Code = Len(known) THEN Append(prev, prev[1]) ELSE Word(known, Code)
                d == IF Len(known) = MaxDict THEN NewDict(message.size) ELSE known
            IN  /\ out' = out \o curr
                /\ known' = IF prev = <<>> THEN known ELSE Append(d, Entry(Append(prev, curr[1])))
                /\ prev' = curr
                /\ pos' = pos + Width
                /\ UNCHANGED phase
  /\ UNCHANGED <<message, rest, dict, stream>>

Ended == phase \in {"done", "panicked"} /\ UNCHANGED vars

Next == Compress \/ Close \/ DecodeReset \/ DecodeEnd \/ Decode \/ Ended

Spec == Init /\ [][Next]_vars
-----------------------------------------------------------------------------
(* Every variable has its type.                                            *)
TypeOK ==
  /\ message \in Messages
  /\ rest \in Seq(Nat) /\ out \in Seq(Nat) /\ prev \in Seq(Nat)
  /\ Len(dict) \in message.size + 2 .. MaxDict
  /\ Len(known) \in message.size + 2 .. MaxDict
  /\ stream \in Seq({0, 1}) /\ pos \in 0 .. Len(stream)
  /\ phase \in {"compress", "decode", "done", "panicked"}

(* The decompressor follows the compressor's dictionary one entry behind,  *)
(* across words that it does not know yet, changes of the code width and   *)
(* resets: it never panics, what it writes is a beginning of the message,  *)
(* and all of it when it has read END.                                     *)
RoundTrip ==
  /\ phase # "panicked"
  /\ phase = "decode" => out = SubSeq(message.text, 1, Len(out))
  /\ phase = "done" => out = message.text
=============================================================================
