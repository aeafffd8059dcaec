---------------------------- MODULE Expressions -----------------------------
(***************************************************************************)
(* Expressions on their way through che: src/parser.rs makes a tree of the *)
(* tokens, src/translator.rs keeps its shape, src/format_c.rs writes it as *)
(* C. Parentheses are not part of the tree: the writer must put back those *)
(* that C needs. Tokens are strings; a word is a name or a number, except  *)
(* the typedef names, which the preparser has found.                       *)
(*                                                                         *)
(* A parser takes tokens and a position and returns the set of its         *)
(* results, each a tree and the position behind it: one, or none where the *)
(* code returns an error or panics.                                        *)
(***************************************************************************)
EXTENDS Integers, Sequences, FiniteSetsExt

CONSTANTS Words, Typenames,
          Numbers       \* the words that are numbers

Names == Words \ Numbers

(* src/nodes.rs and src/c.rs.                                              *)
Word(w) == [kind |-> "word", word |-> w]
Binary(op, a, b) == [kind |-> "binary", op |-> op, a |-> a, b |-> b]
PrefixOp(op, e) == [kind |-> "prefix", op |-> op, operand |-> e]
PostfixOp(op, e) == [kind |-> "postfix", op |-> op, operand |-> e]
Field(op, e, name) == [kind |-> "field", op |-> op, operand |-> e, name |-> name]
Index(e, i) == [kind |-> "index", operand |-> e, index |-> i]
Call(f, args) == [kind |-> "call", operand |-> f, args |-> args]
Cast(t, hops, e) == [kind |-> "cast", type |-> t, hops |-> hops, operand |-> e]
Sizeof(e) == [kind |-> "sizeof", operand |-> e]
SizeofType(t, hops) == [kind |-> "sizeof type", type |-> t, hops |-> hops]
Entry(how, key, value) == [how |-> how, key |-> key, value |-> value]
List(entries) == [kind |-> "list", entries |-> entries]

(* operator_strength: the level of the table that has the operator; the    *)
(* higher, the stronger it binds.                                          *)
Levels == << {","},
             {"=", "+=", "-=", "*=", "/=", "%=", "<<=", ">>=", "&=", "^=", "|="},
             {"||"}, {"&&"}, {"|"}, {"^"}, {"&"}, {"!=", "=="}, {">", "<", ">=", "<="},
             {"<<", ">>"}, {"+", "-"}, {"*", "/", "%"}, {"prefix"}, {"->", ".", "suffix"} >>
Strength(op) == CHOOSE s \in DOMAIN Levels : op \in Levels[s]

BinaryOps == UNION {Levels[s] : s \in 2 .. 12}
PrefixOps == {"!", "--", "++", "*", "~", "&", "-"}
PostfixOps == {"++", "--"}

At(ts, i) == IF i \in DOMAIN ts THEN ts[i] ELSE "end of file"

Found(tree, i) == [tree |-> tree, at |-> i]
Expect(ts, token, r) == IF At(ts, r.at) = token THEN {[r EXCEPT !.at = @ + 1]} ELSE {}

(* The stars behind a type name.                                           *)
Hops(ts, i) == Max({n \in 0 .. Len(ts) - i + 1 : \A k \in i .. i + n - 1 : ts[k] = "*"})

RECURSIVE ParseExpr(_, _, _), SeqExpr(_, _, _), PrefixExpr(_, _), Suffixes(_, _), Args(_, _), Entries(_, _)

(* parse_expr at one strength: a chain of operators of that strength over  *)
(* operands of the next one, grouped from the left.                        *)
ParseExpr(ts, strength, i) ==
  IF strength = Strength("prefix")
    THEN PrefixExpr(ts, i)
    ELSE UNION {SeqExpr(ts, strength, r) : r \in ParseExpr(ts, strength + 1, i)}

SeqExpr(ts, strength, r) ==
  IF At(ts, r.at) \in BinaryOps /\ Strength(At(ts, r.at)) = strength
    THEN UNION {SeqExpr(ts, strength, Found(Binary(ts[r.at], r.tree, s.tree), s.at)) :
                  s \in ParseExpr(ts, strength + 1, r.at + 1)}
    ELSE {r}

(* parse_composite_literal: values, with a field or an index in front.     *)
ParseEntry(ts, i) ==
  LET valued(how, key, at) == {Found(Entry(how, key, r.tree), r.at) : r \in ParseExpr(ts, 1, at)}
      behind(r) == UNION {Expect(ts, "=", s) : s \in Expect(ts, "]", r)}
  IN  CASE At(ts, i) = "." -> IF At(ts, i + 1) \in Names /\ At(ts, i + 2) = "="
                                THEN valued(".", Word(ts[i + 1]), i + 3) ELSE {}
        [] At(ts, i) = "[" -> UNION {valued("[", k.tree, k.at) : k \in UNION {behind(r) : r \in ParseExpr(ts, 1, i + 1)}}
        [] OTHER -> valued("", Word(""), i)

Entries(ts, i) ==
  IF At(ts, i) = "}" THEN {Found(<<>>, i)}
  ELSE UNION { IF At(ts, r.at) = ","
                 THEN {Found(<<r.tree>> \o s.tree, s.at) : s \in Entries(ts, r.at + 1)}
                 ELSE {Found(<<r.tree>>, r.at)} : r \in ParseEntry(ts, i) }

(* read_expression_atom                                                    *)
Atom(ts, i) ==
  CASE At(ts, i) \in Words -> {Found(Word(ts[i]), i + 1)}
    [] At(ts, i) = "(" -> UNION {Expect(ts, ")", r) : r \in ParseExpr(ts, 1, i + 1)}
    [] At(ts, i) = "{" -> {Found(List(r.tree), r.at) : r \in UNION {Expect(ts, "}", s) : s \in Entries(ts, i + 1)}}
    [] OTHER -> {}

ParseSizeof(ts, i) ==
  UNION {Expect(ts, ")", r) : r \in
    IF At(ts, i + 2) \in Typenames
      THEN LET n == Hops(ts, i + 3) IN {Found(SizeofType(ts[i + 2], n), i + 3 + n)}
      ELSE {Found(Sizeof(r.tree), r.at) : r \in ParseExpr(ts, 1, i + 2)}}

(* parse_prefix_expr: a prefix operator, a cast, sizeof or a base.         *)
PrefixExpr(ts, i) ==
  CASE At(ts, i) \in PrefixOps ->
         {Found(PrefixOp(ts[i], r.tree), r.at) : r \in PrefixExpr(ts, i + 1)}
    [] At(ts, i) = "(" /\ At(ts, i + 1) \in Typenames ->
         LET n == Hops(ts, i + 2)
         IN  UNION {{Found(Cast(ts[i + 1], n, r.tree), r.at) : r \in PrefixExpr(ts, c.at)} :
                      c \in Expect(ts, ")", Found("", i + 2 + n))}
    [] At(ts, i) = "sizeof" /\ At(ts, i + 1) = "(" -> ParseSizeof(ts, i)
    [] OTHER -> UNION {Suffixes(ts, r) : r \in Atom(ts, i)}

(* base: calls, indexes, postfix operators and fields behind an atom.      *)
Suffixes(ts, r) ==
  CASE At(ts, r.at) = "(" ->
         UNION {Suffixes(ts, Found(Call(r.tree, a.tree), a.at)) : a \in Args(ts, r.at + 1)}
    [] At(ts, r.at) = "[" ->
         UNION {Suffixes(ts, Found(Index(r.tree, e.tree), e.at)) :
                  e \in UNION {Expect(ts, "]", s) : s \in ParseExpr(ts, 1, r.at + 1)}}
    [] At(ts, r.at) \in PostfixOps -> Suffixes(ts, Found(PostfixOp(ts[r.at], r.tree), r.at + 1))
    [] At(ts, r.at) \in {"->", "."} ->
         IF At(ts, r.at + 1) \in Names
           THEN Suffixes(ts, Found(Field(ts[r.at], r.tree, ts[r.at + 1]), r.at + 2))
           ELSE {}
    [] OTHER -> {r}

(* parse_call: the arguments and the closing parenthesis.                  *)
Args(ts, i) ==
  IF At(ts, i) = ")"
    THEN {Found(<<>>, i + 1)}
    ELSE UNION { IF At(ts, r.at) = ","
                   THEN {Found(<<r.tree>> \o a.tree, a.at) :
                           a \in {b \in Args(ts, r.at + 1) : b.tree # <<>>}}
                   ELSE Expect(ts, ")", Found(<<r.tree>>, r.at)) : r \in ParseExpr(ts, 1, i) }

(* The tree of a whole string of tokens.                                   *)
Parse(ts) == {r.tree : r \in {s \in ParseExpr(ts, 1, 1) : s.at = Len(ts) + 1}}
-----------------------------------------------------------------------------
(* tr_comp_literal: the key of an entry must be a bare name, a field's or  *)
(* an index's; any other, a number too, is a panic.                        *)
Parts(e) ==
  CASE e.kind \in {"word", "sizeof type"} -> {}
    [] e.kind = "binary" -> {e.a, e.b}
    [] e.kind = "index" -> {e.operand, e.index}
    [] e.kind = "call" -> {e.operand} \cup {e.args[i] : i \in DOMAIN e.args}
    [] e.kind = "list" -> {e.entries[i].value : i \in DOMAIN e.entries}
    [] OTHER -> {e.operand}

RECURSIVE Panics(_)
Panics(e) ==
  \/ /\ e.kind = "list"
     /\ \E i \in DOMAIN e.entries : /\ e.entries[i].how # ""
                                    /\ e.entries[i].key \notin {Word(n) : n \in Names}
  \/ \E x \in Parts(e) : Panics(x)
-----------------------------------------------------------------------------
(* format_c: nothing is written between a prefix operator and its operand, *)
(* so that two of them may become another operator.                        *)
Glue(op, ts) ==
  CASE op = "-" /\ ts[1] = "-"  -> <<"--">> \o Tail(ts)
    [] op = "-" /\ ts[1] = "--" -> <<"--", "-">> \o Tail(ts)
    [] op = "&" /\ ts[1] = "&"  -> <<"&&">> \o Tail(ts)
    [] OTHER -> <<op>> \o ts

Brackets(ts) == <<"(">> \o ts \o <<")">>
Stars(n) == [i \in 1 .. n |-> "*"]

(* is_op: an operand that is no operation is never put in brackets.        *)
IsOp(e) == e.kind \in {"binary", "prefix", "postfix"}
OpStrength(e) == Strength(IF e.kind = "binary" THEN e.op ELSE "prefix")

RECURSIVE Format(_), FormatArgs(_), FormatEntries(_)

FormatOperand_Bare(op, e) ==     \* a slip: the brackets are not put back
  Format(e)

FormatOperand(op, e) ==
  IF IsOp(e) /\ (OpStrength(e) < Strength(op) \/ op \in {"&", ">>", "<<"})
    THEN Brackets(Format(e))
    ELSE Format(e)

(* fmt_expr                                                                *)
Format(e) ==
  CASE e.kind = "word" -> <<e.word>>
    [] e.kind = "binary" -> FormatOperand(e.op, e.a) \o <<e.op>> \o FormatOperand(e.op, e.b)
    [] e.kind = "prefix" -> Glue(e.op, IF e.operand.kind = "binary"
                                         THEN Brackets(Format(e.operand))
                                         ELSE Format(e.operand))
    [] e.kind = "postfix" -> Format(e.operand) \o <<e.op>>
    [] e.kind = "field" ->
         (IF IsOp(e.operand) /\ OpStrength(e.operand) < Strength(e.op)
            THEN Brackets(Format(e.operand))
            ELSE Format(e.operand)) \o <<e.op, e.name>>
    [] e.kind = "index" -> Format(e.operand) \o <<"[">> \o Format(e.index) \o <<"]">>
    [] e.kind = "call" -> Format(e.operand) \o Brackets(FormatArgs(e.args))
    [] e.kind = "cast" ->
         Brackets(<<e.type>> \o Stars(e.hops)) \o Brackets(Format(e.operand))
    [] e.kind = "sizeof" -> <<"sizeof">> \o Brackets(Format(e.operand))
    [] e.kind = "sizeof type" -> <<"sizeof">> \o Brackets(<<e.type>> \o Stars(e.hops))
    [] e.kind = "list" -> <<"{">> \o (IF e.entries = <<>> THEN <<"0">> ELSE FormatEntries(e.entries)) \o <<"}">>

FormatEntries(es) ==
  LET key == CASE es[1].how = "" -> <<>>
               [] es[1].how = "." -> <<".">> \o Format(es[1].key) \o <<"=">>
               [] es[1].how = "[" -> <<"[">> \o Format(es[1].key) \o <<"]", "=">>
  IN  key \o Format(es[1].value) \o (IF Len(es) = 1 THEN <<>> ELSE <<",">> \o FormatEntries(Tail(es)))

FormatArgs(args) ==
  IF Len(args) <= 1 THEN (IF args = <<>> THEN <<>> ELSE Format(args[1]))
  ELSE Format(args[1]) \o <<",">> \o FormatArgs(Tail(args))
-----------------------------------------------------------------------------
(* C's own reading of tokens, by C99 6.5: the weakest operator outside     *)
(* brackets splits an expression, the last of its level, or the first      *)
(* assignment; without one, what stands in front is applied last.          *)
Opening == {"(", "[", "{"}
Closing == {")", "]", "}"}
Depth(ts, i) == Cardinality({k \in 1 .. i - 1 : ts[k] \in Opening})
                - Cardinality({k \in 1 .. i : ts[k] \in Closing})
Match(ts, i) == CHOOSE k \in 1 .. i : ts[k] \in Opening /\ Depth(ts, k) = Depth(ts, i)
                                      /\ \A j \in k + 1 .. i - 1 : ts[j] \in Opening => Depth(ts, j) > Depth(ts, i)

RECURSIVE EndsOperand(_, _), CReads(_), CArgs(_), CEntries(_)

EndsOperand(ts, i) ==
  \/ ts[i] \in Words \cup {"]"}
  \/ ts[i] = ")" /\ \/ ts[Match(ts, i) + 1] \notin Typenames
                    \/ At(ts, Match(ts, i) - 1) = "sizeof"
  \/ ts[i] \in PostfixOps /\ i > 1 /\ EndsOperand(ts, i - 1)

Splits(ts) == {i \in 2 .. Len(ts) : ts[i] \in BinaryOps /\ Depth(ts, i) = 0 /\ EndsOperand(ts, i - 1)}
Before(ts, i) == SubSeq(ts, 1, i - 1)
Behind(ts, i) == SubSeq(ts, i + 1, Len(ts))

CReads(ts) ==
  LET n == Len(ts)
      weakest == {i \in Splits(ts) : \A j \in Splits(ts) : Strength(ts[i]) <= Strength(ts[j])}
      split == IF \E i \in weakest : Strength(ts[i]) = 2 THEN Min(weakest) ELSE Max(weakest)
      inner == SubSeq(ts, Match(ts, n) + 1, n - 1)
  IN  CASE weakest # {} -> Binary(ts[split], CReads(Before(ts, split)), CReads(Behind(ts, split)))
        [] weakest = {} /\ ts[1] \in PrefixOps -> PrefixOp(ts[1], CReads(Tail(ts)))
        [] weakest = {} /\ ts[1] = "(" /\ ts[2] \in Typenames ->
             Cast(ts[2], Hops(ts, 3), CReads(Behind(ts, 3 + Hops(ts, 3))))
        [] weakest = {} /\ ts[1] = "sizeof" ->
             IF ts[3] \in Typenames THEN SizeofType(ts[3], Hops(ts, 4)) ELSE Sizeof(CReads(Tail(ts)))
        [] weakest = {} /\ ts[1] \notin PrefixOps \cup {"sizeof"} /\ ~(ts[1] = "(" /\ ts[2] \in Typenames) ->
             CASE n = 1 /\ ts[1] \in Words -> Word(ts[1])
               [] ts[n] = "]" -> Index(CReads(Before(ts, Match(ts, n))), CReads(inner))
               [] ts[n] = ")" /\ Match(ts, n) = 1 -> CReads(inner)
               [] ts[n] = ")" /\ Match(ts, n) > 1 -> Call(CReads(Before(ts, Match(ts, n))), CArgs(inner))
               [] ts[n] = "}" /\ ts[1] = "{" -> List(CEntries(inner))
               [] ts[n] \in PostfixOps -> PostfixOp(ts[n], CReads(Before(ts, n)))
               [] n > 2 /\ ts[n - 1] \in {"->", "."} -> Field(ts[n - 1], CReads(Before(ts, n - 1)), ts[n])
               [] OTHER -> Word("not C")

CArgs(ts) ==
  LET commas == {i \in DOMAIN ts : ts[i] = "," /\ Depth(ts, i) = 0}
  IN  CASE ts = <<>> -> <<>>
        [] ts # <<>> /\ commas = {} -> <<CReads(ts)>>
        [] OTHER -> <<CReads(Before(ts, Min(commas)))>> \o CArgs(Behind(ts, Min(commas)))

CEntry(ts) ==
  IF ts[1] = "." THEN Entry(".", Word(ts[2]), CReads(SubSeq(ts, 4, Len(ts))))
  ELSE IF ts[1] = "["
  THEN LET close == CHOOSE k \in DOMAIN ts : ts[k] = "]" /\ Match(ts, k) = 1
       IN  Entry("[", CReads(SubSeq(ts, 2, close - 1)), CReads(Behind(ts, close + 1)))
  ELSE Entry("", Word(""), CReads(ts))

CEntries(ts) ==
  LET commas == {i \in DOMAIN ts : ts[i] = "," /\ Depth(ts, i) = 0}
  IN  IF commas = {} THEN <<CEntry(ts)>>
      ELSE <<CEntry(Before(ts, Min(commas)))>> \o CEntries(Behind(ts, Min(commas)))

(* An expression as a careful programmer writes it: all in brackets.       *)
RECURSIVE InBrackets(_), AllInBrackets(_), EntriesInBrackets(_)
InBrackets(e) ==
  LET of(x) == IF x.kind = "word" THEN <<x.word>> ELSE Brackets(InBrackets(x))
  IN  CASE e.kind = "word" -> <<e.word>>
        [] e.kind = "binary" -> of(e.a) \o <<e.op>> \o of(e.b)
        [] e.kind = "prefix" -> <<e.op>> \o of(e.operand)
        [] e.kind = "postfix" -> of(e.operand) \o <<e.op>>
        [] e.kind = "field" -> of(e.operand) \o <<e.op, e.name>>
        [] e.kind = "index" -> of(e.operand) \o <<"[">> \o InBrackets(e.index) \o <<"]">>
        [] e.kind = "call" -> of(e.operand) \o Brackets(AllInBrackets(e.args))
        [] e.kind = "cast" -> Brackets(<<e.type>> \o Stars(e.hops)) \o of(e.operand)
        [] e.kind = "sizeof" -> <<"sizeof">> \o Brackets(InBrackets(e.operand))
        [] e.kind = "sizeof type" -> <<"sizeof">> \o Brackets(<<e.type>> \o Stars(e.hops))
        [] e.kind = "list" -> <<"{">> \o EntriesInBrackets(e.entries) \o <<"}">>
EntriesInBrackets(es) ==
  IF es = <<>> THEN <<>>
  ELSE (CASE es[1].how = "" -> <<>>
          [] es[1].how = "." -> <<".">> \o InBrackets(es[1].key) \o <<"=">>
          [] es[1].how = "[" -> <<"[">> \o InBrackets(es[1].key) \o <<"]", "=">>)
       \o InBrackets(es[1].value) \o <<",">> \o EntriesInBrackets(Tail(es))
AllInBrackets(args) ==
  CASE args = <<>> -> <<>>
    [] Len(args) = 1 -> InBrackets(args[1])
    [] OTHER -> InBrackets(args[1]) \o <<",">> \o AllInBrackets(Tail(args))

(* The expressions whose brackets format_c loses: a right operand as       *)
(* strong as its operator, an assignment on the left of another, a minus   *)
(* or an ampersand before its like, and what is not a name, a call, an     *)
(* index or a field before an index, a call or a postfix operator.         *)
RECURSIVE KeepsBrackets(_)
KeepsBrackets(e) ==
  LET binary(x) == x.kind = "binary"
      primary(x) == x.kind \in {"word", "postfix", "field", "index", "call"}
      wrapped == e.op \in {"&", ">>", "<<"}
  IN  CASE e.kind \in {"word", "sizeof type"} -> TRUE
        [] e.kind = "binary" ->
             /\ KeepsBrackets(e.a) /\ KeepsBrackets(e.b)
             /\ binary(e.b) /\ ~wrapped /\ Strength(e.b.op) = Strength(e.op) => Strength(e.op) = 2
             /\ binary(e.a) /\ Strength(e.a.op) = 2 => Strength(e.op) # 2
        [] e.kind = "prefix" ->
             /\ KeepsBrackets(e.operand)
             /\ e.operand.kind = "prefix" => \/ e.op = "-" /\ e.operand.op \notin {"-", "--"}
                                             \/ e.op = "&" /\ e.operand.op # "&"
                                             \/ e.op \notin {"-", "&"}
        [] e.kind = "field" -> KeepsBrackets(e.operand) /\ e.operand.kind \notin {"cast", "sizeof", "sizeof type"}
        [] e.kind = "postfix" -> KeepsBrackets(e.operand) /\ primary(e.operand)
        [] e.kind = "index" -> KeepsBrackets(e.operand) /\ KeepsBrackets(e.index) /\ primary(e.operand)
        [] e.kind = "call" -> /\ KeepsBrackets(e.operand) /\ primary(e.operand)
                              /\ \A i \in DOMAIN e.args : KeepsBrackets(e.args[i])
        [] e.kind \in {"cast", "sizeof"} -> KeepsBrackets(e.operand)
        [] e.kind = "list" -> /\ e.entries # <<>>     \* C has no empty list
                              /\ \A i \in DOMAIN e.entries :
                                   /\ KeepsBrackets(e.entries[i].value)
                                   /\ e.entries[i].how = "[" => KeepsBrackets(e.entries[i].key)

(* che reads an expression in brackets as it is meant, and C reads what    *)
(* che writes as the same expression, but for those named above; che writes*)
(* nothing, where C reads it, for a literal with a key that is no bare     *)
(* name.                                                                   *)
SameInC(e) ==
  /\ Parse(InBrackets(e)) = {e}
  /\ ~Panics(e) => (CReads(Format(e)) = e <=> KeepsBrackets(e))
=============================================================================
