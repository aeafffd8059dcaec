-------------------------------- MODULE Json --------------------------------
(* The values of lib/formats/json.c, their text, and the parser, which     *)
(* reads the characters of a text through lib/tokenizer.c: p is the place  *)
(* of the next one.  A number is counted in millionths, the least that is  *)
(* written.                                                                *)
EXTENDS Integers, SequencesExt

Null == <<"null">>
Bool(b) == <<"bool", b>>
Num(n) == <<"num", n>>
Str(s) == <<"str", s>>
Arr(vals) == <<"arr", vals>>
Obj(entries) == <<"obj", entries>>               \* a sequence of keys with their values
Type(v) == v[1]

Put_Again(entries, k, v) == Append(entries, <<k, v>>)          \* a slip: of a key that is there
Put(entries, k, v) ==
  IF \E i \in DOMAIN entries : entries[i][1] = k
  THEN [i \in DOMAIN entries |-> IF entries[i][1] = k THEN <<k, v>> ELSE entries[i]]
  ELSE Append(entries, <<k, v>>)

Get(v, k) ==
  LET at == IF Type(v) = "obj" THEN {i \in DOMAIN v[2] : v[2][i][1] = k} ELSE {}
  IN IF at = {} THEN Null ELSE v[2][CHOOSE i \in at : \A j \in at : i <= j][2]

(* clone has no case for null: it panics there, and where there is a null  *)
(* inside.                                                                 *)
RECURSIVE Clones(_), Clone(_)
Clones(v) ==
  CASE Type(v) = "obj" -> \A i \in DOMAIN v[2] : Clones(v[2][i][2])
    [] Type(v) = "arr" -> \A i \in DOMAIN v[2] : Clones(v[2][i])
    [] Type(v) \notin {"obj", "arr"} -> v # Null
Clone(v) ==
  CASE Type(v) = "obj" -> Obj(FoldLeft(LAMBDA es, e : Put(es, e[1], Clone(e[2])), <<>>, v[2]))
    [] Type(v) = "arr" -> Arr(FoldLeft(LAMBDA vals, x : Append(vals, Clone(x)), <<>>, v[2]))
    [] Type(v) \notin {"obj", "arr"} -> v
-----------------------------------------------------------------------------
EOF == "EOF"
Digit == {"0", "1", "2", "3", "4", "5", "6", "7", "8", "9"}
DigitOf(d) == CHOOSE n \in 0 .. 9 : ToString(n) = d

Peek(s, p) == IF p <= Len(s) THEN s[p] ELSE EOF
RECURSIVE After(_, _, _)
After(s, p, S) == IF Peek(s, p) \in S THEN After(s, p + 1, S) ELSE p
Spaces(s, p) == After(s, p, {" ", "\t", "\n", "\r"})
Follows(s, p, t) == p + Len(t) - 1 <= Len(s) /\ SubSeq(s, p, p + Len(t) - 1) = t

Failed == [ok |-> FALSE]
Read(v, p) == [ok |-> TRUE, val |-> v, p |-> p]

(* A number of C: digits, a part behind the point and an exponent.         *)
Whole(s) == FoldLeft(LAMBDA n, d : 10 * n + DigitOf(d), 0, s)
Scaled(n, e) == IF e >= 0 THEN n * 10 ^ e ELSE n \div 10 ^ (-e)
ReadNum(s, p) ==
  LET digits == IF Peek(s, p) = "-" THEN p + 1 ELSE p
      point == After(s, digits, Digit)
      fraction == IF Peek(s, point) = "." THEN point + 1 ELSE point
      behind == IF fraction = point THEN point ELSE After(s, fraction, Digit)
      marked == Peek(s, behind) \in {"e", "E"}
      power == IF ~marked THEN behind ELSE IF Peek(s, behind + 1) \in {"-", "+"} THEN behind + 2 ELSE behind + 1
      end == IF marked THEN After(s, power, Digit) ELSE behind
      n == Whole(SubSeq(s, digits, point - 1) \o SubSeq(s, fraction, behind - 1))
      e == IF marked THEN Whole(SubSeq(s, power, end - 1)) ELSE 0
  IN IF point = digits \/ (fraction > point /\ behind = fraction) \/ (marked /\ end = power) THEN Failed
     ELSE Read(Num((IF digits = p THEN 1 ELSE -1)
                   * Scaled(n, 6 - (behind - fraction) + (IF Peek(s, power - 1) = "-" /\ marked THEN -e ELSE e))), end)

(* What follows a backslash is taken as it is.                             *)
RECURSIVE ReadChars(_, _, _)
ReadChars(s, p, got) ==
  CASE Peek(s, p) = EOF -> Failed
    [] Peek(s, p) = "\"" -> Read(Str(got), p + 1)
    [] Peek(s, p) = "\\" -> IF Peek(s, p + 1) = EOF THEN Failed ELSE ReadChars(s, p + 2, Append(got, s[p + 1]))
    [] Peek(s, p) \notin {EOF, "\"", "\\"} -> ReadChars(s, p + 1, Append(got, s[p]))
ReadStr(s, p) == LET q == Spaces(s, p) IN IF Peek(s, q) = "\"" THEN ReadChars(s, q + 1, <<>>) ELSE Failed

Literals == <<[text |-> <<"t", "r", "u", "e">>, val |-> Bool(TRUE)], [text |-> <<"f", "a", "l", "s", "e">>, val |-> Bool(FALSE)],
              [text |-> <<"n", "u", "l", "l">>, val |-> Null]>>
ReadKw(s, p) ==
  IF \E k \in DOMAIN Literals : Follows(s, p, Literals[k].text)
  THEN LET l == Literals[CHOOSE k \in DOMAIN Literals : Follows(s, p, Literals[k].text)] IN Read(l.val, p + Len(l.text))
  ELSE Failed

RECURSIVE ReadNode(_, _), ReadItems(_, _, _), ReadEntries(_, _, _)
ReadNode(s, from) ==
  LET p == Spaces(s, from)
  IN CASE Peek(s, p) = EOF -> Failed
       [] Peek(s, p) = "[" -> IF Peek(s, Spaces(s, p + 1)) = "]" THEN Read(Arr(<<>>), Spaces(s, p + 1) + 1)
                              ELSE ReadItems(s, p + 1, <<>>)
       [] Peek(s, p) = "{" -> IF Peek(s, Spaces(s, p + 1)) = "}" THEN Read(Obj(<<>>), Spaces(s, p + 1) + 1)
                              ELSE ReadEntries(s, p + 1, <<>>)
       [] Peek(s, p) = "\"" -> ReadStr(s, p)
       [] Peek(s, p) \in Digit \cup {"-"} -> ReadNum(s, p)
       [] Peek(s, p) \notin Digit \cup {"-", "\"", "[", "{", EOF} -> ReadKw(s, p)

ReadItems(s, p, vals) ==
  LET x == ReadNode(s, p)
      q == Spaces(s, x.p)
      all == Append(vals, x.val)
  IN CASE ~x.ok -> Failed
       [] x.ok /\ Peek(s, q) = "," -> ReadItems(s, q + 1, all)
       [] x.ok /\ Peek(s, q) = "]" -> Read(Arr(all), q + 1)
       [] x.ok /\ Peek(s, q) \notin {",", "]"} -> Failed

ReadEntries(s, p, entries) ==
  LET k == ReadStr(s, p)
      colon == Spaces(s, k.p)
      x == ReadNode(s, colon + 1)
      q == Spaces(s, x.p)
      all == Put(entries, k.val[2], x.val)
  IN IF ~k.ok \/ Peek(s, colon) # ":" THEN Failed
     ELSE CASE ~x.ok -> Failed
            [] x.ok /\ Peek(s, q) = "," -> ReadEntries(s, q + 1, all)
            [] x.ok /\ Peek(s, q) = "}" -> Read(Obj(all), q + 1)
            [] x.ok /\ Peek(s, q) \notin {",", "}"} -> Failed

(* What follows the value is not read.                                     *)
Parse(s) == ReadNode(s, 1)
-----------------------------------------------------------------------------
(* A number that is whole is written without a point, another with six     *)
(* digits behind it.                                                       *)
RECURSIVE Digits(_, _)
Digits(n, least) ==
  (IF n > 9 \/ least > 1 THEN Digits(n \div 10, least - 1) ELSE <<>>) \o <<ToString(n % 10)>>
WriteNum(n) ==
  LET m == IF n < 0 THEN -n ELSE n
  IN (IF n < 0 THEN <<"-">> ELSE <<>>) \o Digits(m \div 10 ^ 6, 1)
     \o (IF m % 10 ^ 6 = 0 THEN <<>> ELSE <<".">> \o Digits(m % 10 ^ 6, 6))

(* The letter of a line break or a tab is written behind two backslashes.  *)
WriteStr(s) ==
  LET Written(c) == CASE c = "\n" -> <<"\\", "\\", "n">> [] c = "\t" -> <<"\\", "\\", "t">>
                      [] c \in {"\\", "\"", "/"} -> <<"\\", c>>
                      [] c \notin {"\n", "\t", "\\", "\"", "/"} -> <<c>>
  IN <<"\"">> \o FlattenSeq([k \in DOMAIN s |-> Written(s[k])]) \o <<"\"">>

Joined(parts) == FoldLeft(LAMBDA t, part : IF t = <<>> THEN part ELSE t \o <<",">> \o part, <<>>, parts)
RECURSIVE Format(_)
Format(v) ==
  CASE Type(v) = "obj" -> <<"{">> \o Joined([i \in DOMAIN v[2] |-> <<"\"">> \o v[2][i][1] \o <<"\"", ":">> \o Format(v[2][i][2])])
                          \o <<"}">>
    [] Type(v) = "arr" -> <<"[">> \o Joined([i \in DOMAIN v[2] |-> Format(v[2][i])]) \o <<"]">>
    [] Type(v) = "str" -> WriteStr(v[2])
    [] Type(v) = "num" -> WriteNum(v[2])
    [] Type(v) \in {"bool", "null"} -> Literals[CHOOSE k \in DOMAIN Literals : Literals[k].val = v].text

(* The other way to write a string.                                        *)
WriteString(s) ==
  LET Written(c) == CASE c = "\n" -> <<"\\", "n">> [] c = "\r" -> <<"\\", "r">> [] c = "\t" -> <<"\\", "t">>
                      [] c \in {"\\", "\""} -> <<"\\", c>>
                      [] c \notin {"\n", "\r", "\t", "\\", "\""} -> <<c>>
  IN <<"\"">> \o FlattenSeq([k \in DOMAIN s |-> Written(s[k])]) \o <<"\"">>
-----------------------------------------------------------------------------
(* A value comes back from its text, which no part of it is, and a copy of *)
(* it is the same value.  What the code does otherwise is excepted by name:*)
(*  - Broken: line breaks and tabs in strings come back as a backslash and *)
(*    their letters, or, from write_string, as the letters alone;          *)
(*  - BareKeys: keys are written as they are (json.c:476-491), and one with*)
(*    a quote or a backslash does not come back;                           *)
(*  - Clones: a value with a null in it has no copy, though clone "creates *)
(*    a deep copy of the value" (json.c:63).                               *)
Letter(c) == CASE c = "\n" -> "n" [] c = "\t" -> "t" [] c = "\r" -> "r" [] c \notin {"\n", "\t", "\r"} -> c
Broken(s, signs, slash) ==
  FlattenSeq([k \in DOMAIN s |-> IF s[k] \in signs THEN slash \o <<Letter(s[k])>> ELSE <<s[k]>>])
RECURSIVE Back(_)
Back(v) ==
  CASE Type(v) = "obj" -> Obj([i \in DOMAIN v[2] |-> <<v[2][i][1], Back(v[2][i][2])>>])
    [] Type(v) = "arr" -> Arr([i \in DOMAIN v[2] |-> Back(v[2][i])])
    [] Type(v) = "str" -> Str(Broken(v[2], {"\n", "\t"}, <<"\\">>))
    [] Type(v) \notin {"obj", "arr", "str"} -> v
RECURSIVE BareKeys(_)
BareKeys(v) ==
  CASE Type(v) = "obj" -> \A i \in DOMAIN v[2] : {"\"", "\\"} \cap Range(v[2][i][1]) = {} /\ BareKeys(v[2][i][2])
    [] Type(v) = "arr" -> \A i \in DOMAIN v[2] : BareKeys(v[2][i])
    [] Type(v) \notin {"obj", "arr"} -> TRUE
ComesBack(v) ==
  LET s == Format(v)
  IN /\ BareKeys(v) => Parse(s) = Read(Back(v), Len(s) + 1)
     /\ BareKeys(v) /\ Type(v) # "num" => \A n \in 0 .. Len(s) - 1 : ~Parse(SubSeq(s, 1, n)).ok
     /\ Clones(v) => Clone(v) = v
     /\ Type(v) = "str" => Parse(WriteString(v[2])).val = Str(Broken(v[2], {"\n", "\r", "\t"}, <<>>))

(* The sentences of n signs of the grammar, with what they mean: of the    *)
(* entries with the same key the first gives the place, the last the value.*)
Atoms == {<<"1", Num(10 ^ 6)>>, <<"a", Str(<<"a">>)>>, <<"b", Str(<<"b">>)>>}
Keys == {<<"a">>, <<"b">>}
Meant(entries) ==
  LET firsts == SelectSeq([i \in DOMAIN entries |-> i], LAMBDA i : \A j \in 1 .. i - 1 : entries[j][1] # entries[i][1])
      Latest(k) == CHOOSE i \in DOMAIN entries : entries[i][1] = k /\ \A j \in i + 1 .. Len(entries) : entries[j][1] # k
  IN [n \in DOMAIN firsts |-> entries[Latest(entries[firsts[n]][1])]]
Listed(n, Item(_), List(_)) ==
  {<<x[1], <<x[2]>>>> : x \in Item(n)}
  \cup UNION {{<<x[1] \o <<",">> \o l[1], <<x[2]>> \o l[2]>> : x \in Item(k), l \in List(n - k - 1)} : k \in 1 .. n - 2}
RECURSIVE Sentences(_), Items(_), Entries(_)
Items(n) == Listed(n, Sentences, Items)
Entries(n) ==
  LET Entry(m) == IF m < 3 THEN {} ELSE {<<k \o <<":">> \o x[1], <<k, x[2]>>>> : k \in Keys, x \in Sentences(m - 2)}
  IN Listed(n, Entry, Entries)
Sentences(n) ==
  CASE n = 1 -> {<<<<x[1]>>, x[2]>> : x \in Atoms}
    [] n = 2 -> {<<<<"[", "]">>, Arr(<<>>)>>, <<<<"{", "}">>, Obj(<<>>)>>}
    [] n > 2 -> {<<<<"[">> \o l[1] \o <<"]">>, Arr(l[2])>> : l \in Items(n - 2)}
                \cup {<<<<"{">> \o l[1] \o <<"}">>, Obj(Meant(l[2]))>> : l \in Entries(n - 2)}
MaxSigns == 9
Grammar == [n \in 1 .. MaxSigns |-> Sentences(n)]

(* A text is read as the sentence that it begins with, if any, spaces or   *)
(* not, and its entries are got by their keys.                             *)
Spelled(w, space) ==
  FlattenSeq([k \in DOMAIN w |-> space \o (IF w[k] \in {"a", "b"} THEN <<"\"", w[k], "\"">> ELSE <<w[k]>>)])
ReadAsGrammar(w, space) ==
  LET s == Spelled(w, space)
      begins == {n \in DOMAIN w : \E x \in Grammar[n] : x[1] = SubSeq(w, 1, n)}
  IN IF begins = {} THEN ~Parse(s).ok
     ELSE \A n \in begins :
            LET x == CHOOSE y \in Grammar[n] : y[1] = SubSeq(w, 1, n)
            IN /\ Parse(s) = Read(x[2], Len(Spelled(x[1], space)) + 1)
               /\ Type(x[2]) = "obj" => \A i \in DOMAIN x[2][2] : Get(Parse(s).val, x[2][2][i][1]) = x[2][2][i][2]

(* An input is a value, or signs of the grammar and those that may follow. *)
AsMeant(x) ==
  CASE x[1] = "value" -> ComesBack(x[2])
    [] x[1] = "signs" -> \A w \in x[3] : ReadAsGrammar(x[2] \o w, <<" ">>)
    [] x[1] = "close" -> \A w \in x[3] : ReadAsGrammar(x[2] \o w, <<>>)
=============================================================================
