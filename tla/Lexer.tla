-------------------------------- MODULE Lexer --------------------------------
(***************************************************************************)
(* Tokens of a source text, as src/lexer.rs takes them from the buffer of  *)
(* src/buf.rs. A text is a sequence of characters, and a cursor the place  *)
(* of the next one with the line and column that errors are reported at.   *)
(* What a reader returns is a token and the cursor behind it; a token of   *)
(* kind "panic" stands for an unwrap of nothing at the end of the text.    *)
(***************************************************************************)
EXTENDS Integers, Sequences, FiniteSetsExt, Functions

CONSTANTS Letters,      \* letters of words
          Keywords      \* words that are tokens of their own

Digits == {"0", "1", "2", "3", "4", "5", "6", "7", "8", "9"}
HexDigits == Digits \cup {"A", "B", "C", "D", "E", "F", "a", "b", "c", "d", "e", "f"}
Spaces == {"\r", "\n", "\t", " "}

Symbols ==
  {<<"<", "<", "=">>, <<">", ">", "=">>, <<".", ".", ".">>, <<"+", "+">>, <<"-", "-">>, <<"-", ">">>, <<"<", "<">>,
   <<">", ">">>, <<"&", "&">>, <<"|", "|">>}
  \cup {<<c, "=">> : c \in {"<", ">", "+", "-", "*", "/", "%", "&", "^", "|", "=", "!"}}
  \cup {<<c>> : c \in {"!", "~", "&", "^", "*", "/", "%", "=", "|", ":", ",", "<", ">", "+", "-", "{", "}", ";", "[",
                       "]", "(", ")", ".", "?"}}
-----------------------------------------------------------------------------
(* Buf                                                                     *)
Start == [at |-> 1, line |-> 1, col |-> 1]
More(s, c) == c.at <= Len(s)
Peek(s, c) == IF More(s, c) THEN s[c.at] ELSE "nothing"
Get(s, c) ==
  CASE ~More(s, c) -> c
    [] More(s, c) /\ s[c.at] = "\n" -> [at |-> c.at + 1, line |-> c.line + 1, col |-> 1]
    [] OTHER -> [c EXCEPT !.at = @ + 1, !.col = @ + 1]

RECURSIVE GetN(_, _, _), ReadSet(_, _, _), UntilLiteral(_, _, _)
GetN(s, c, n) == IF n = 0 THEN c ELSE GetN(s, Get(s, c), n - 1)
ReadSet(s, c, set) == IF Peek(s, c) \in set THEN ReadSet(s, Get(s, c), set) ELSE c
SkipUntil(s, c, ch) == ReadSet(s, c, Range(s) \ {ch})
LiteralFollows(s, c, lit) ==
  c.at + Len(lit) <= Len(s) + 1 /\ SubSeq(s, c.at, c.at + Len(lit) - 1) = lit
SkipLiteral(s, c, lit) == IF LiteralFollows(s, c, lit) THEN GetN(s, c, Len(lit)) ELSE c
UntilLiteral(s, c, lit) ==
  IF ~More(s, c) \/ LiteralFollows(s, c, lit) THEN c ELSE UntilLiteral(s, Get(s, c), lit)
-----------------------------------------------------------------------------
Text(s, c, d) == SubSeq(s, c.at, d.at - 1)
Token(kind, content, c, next) == [kind |-> kind, content |-> content, pos |-> <<c.line, c.col>>, next |-> next]
Panic(c) == Token("panic", <<>>, c, c)

ReadHex(s, c) ==
  LET d == ReadSet(s, ReadSet(s, GetN(s, c, 2), HexDigits), {"U", "L"}) IN Token("num", Text(s, c, d), c, d)

ReadExponent(s, c) ==
  LET d == Get(s, c) IN ReadSet(s, IF Peek(s, d) = "-" THEN Get(s, d) ELSE d, Digits)

(* A word must not follow, and the error is at the word.                   *)
ReadNumber(s, c) ==
  LET whole == ReadSet(s, c, Digits)
      dot == Peek(s, whole) = "."
      fraction == IF dot THEN ReadSet(s, Get(s, whole), Digits) ELSE whole
      exponent == Peek(s, fraction) \in {"e", "E"}
      number == IF exponent THEN ReadExponent(s, fraction) ELSE fraction
      d == ReadSet(s, number, {"U", "L"} \cup (IF dot THEN {"f"} ELSE {}))
  IN  CASE LiteralFollows(s, c, <<"0", "x">>) -> ReadHex(s, c)
        [] ~LiteralFollows(s, c, <<"0", "x">>) /\ exponent /\ ~More(s, Get(s, fraction)) -> Panic(c)
        [] OTHER -> IF Peek(s, d) \in Letters THEN Token("error", <<>>, d, d)
                    ELSE Token("num", Text(s, c, d), c, d)

(* The parts of a string literal, to the last quote; at is behind an       *)
(* opening quote. Nothing is unwrapped after a backslash at the very end.  *)
RECURSIVE StringPart(_, _, _), StringParts(_, _, _, _)
StringPart(s, c, from) ==
  CASE Peek(s, c) = "nothing" -> [end |-> "error", next |-> c]
    [] Peek(s, c) = "\"" -> [end |-> "quote", content |-> Text(s, from, c), next |-> Get(s, c)]
    [] Peek(s, c) = "\\" -> IF More(s, Get(s, c)) THEN StringPart(s, GetN(s, c, 2), from)
                            ELSE [end |-> "panic", next |-> c]
    [] OTHER -> StringPart(s, Get(s, c), from)
StringParts(s, c, first, content) ==
  LET part == StringPart(s, Get(s, c), Get(s, c))
  IN  CASE Peek(s, c) # "\"" -> Token("string", content, first, c)
        [] Peek(s, c) = "\"" /\ part.end = "quote" ->
             StringParts(s, ReadSet(s, part.next, Spaces), first, content \o part.content)
        [] Peek(s, c) = "\"" /\ part.end # "quote" -> Token(part.end, <<>>, first, part.next)

ReadCharLiteral(s, c) ==
  LET from == Get(s, c)
      last == IF Peek(s, from) = "\\" THEN Get(s, from) ELSE from
      d == Get(s, last)
  IN  CASE ~More(s, last) \/ ~More(s, d) -> Panic(c)
        [] More(s, d) /\ s[d.at] = "'" -> Token("char", Text(s, from, d), c, Get(s, d))
        [] OTHER -> Token("error", <<>>, c, Get(s, d))

Calloc == <<"c", "a", "l", "l", "o", "c">>
ReadWord(s, c) ==
  LET d == ReadSet(s, c, Letters \cup Digits \cup {"_"})
      end == IF Text(s, c, d) = Calloc /\ Peek(s, d) = "!" THEN Get(s, d) ELSE d
  IN  IF Text(s, c, d) \in Keywords THEN Token("keyword", Text(s, c, d), c, d)
      ELSE Token("word", Text(s, c, end), c, end)

ReadComment(s, c) ==
  LET from == GetN(s, c, 2)
      d == UntilLiteral(s, from, <<"*", "/">>)
  IN  IF More(s, d) THEN Token("comment", Text(s, from, d), c, GetN(s, d, 2)) ELSE Token("error", <<>>, c, d)

(* The table has the longer symbols first. What is no symbol either is not *)
(* consumed.                                                               *)
ReadSymbol_Shortest(s, c) ==     \* a slip: the table has the shorter ones first
  LET found == {sym \in Symbols : LiteralFollows(s, c, sym)}
      sym == CHOOSE x \in found : \A y \in found : Len(x) <= Len(y)
  IN  IF found = {} THEN Token("error", <<>>, c, c) ELSE Token("symbol", sym, c, GetN(s, c, Len(sym)))

ReadSymbol(s, c) ==
  LET found == {sym \in Symbols : LiteralFollows(s, c, sym)}
      sym == CHOOSE x \in found : \A y \in found : Len(x) >= Len(y)
  IN  IF found = {} THEN Token("error", <<>>, c, c) ELSE Token("symbol", sym, c, GetN(s, c, Len(sym)))

Import == <<"#", "i", "m", "p", "o", "r", "t">>
TrimEnd(u) == SubSeq(u, 1, Max({0} \cup {i \in DOMAIN u : u[i] \notin Spaces}))
ReadLine(kind, s, c, from) == LET d == SkipUntil(s, from, "\n") IN Token(kind, Text(s, from, d), c, d)

ReadToken(s, before) ==
  LET c == ReadSet(s, before, Spaces)
      next == Peek(s, c)
  IN  CASE ~More(s, c) -> Token("none", <<>>, c, c)
        [] LiteralFollows(s, c, Import) ->
             LET t == ReadLine("import", s, c, ReadSet(s, GetN(s, c, 7), Spaces))
             IN  [t EXCEPT !.content = TrimEnd(@)]
        [] next = "#" /\ ~LiteralFollows(s, c, Import) -> ReadLine("macro", s, c, c)
        [] LiteralFollows(s, c, <<"/", "*">>) -> ReadComment(s, c)
        [] LiteralFollows(s, c, <<"/", "/">>) -> ReadLine("comment", s, c, GetN(s, c, 2))
        [] next \in Letters \cup {"_"} -> ReadWord(s, c)
        [] next \in Digits -> ReadNumber(s, c)
        [] next = "\"" -> StringParts(s, c, c, <<>>)
        [] next = "'" -> ReadCharLiteral(s, c)
        [] OTHER -> ReadSymbol(s, c)

(* Lexer.get, until the text or its sense ends.                            *)
RECURSIVE TokensFrom(_, _)
TokensFrom(s, c) ==
  LET t == ReadToken(s, c)
  IN  CASE t.kind \in {"none", "error", "panic"} -> <<t>>
        [] t.kind = "comment" -> TokensFrom(s, t.next)
        [] OTHER -> <<t>> \o TokensFrom(s, t.next)
Tokens(s) == TokensFrom(s, Start)
-----------------------------------------------------------------------------
(* C's lexemes, by C99 6.4, with what che adds to them: calloc! is a word, *)
(* a string may go on behind a line's end, a quote or a line's end needs   *)
(* no backslash between quotes, and a # line may start anywhere and an     *)
(* import name its module on another line.                                 *)
All(u, set) == \A i \in DOMAIN u : u[i] \in set
Part(u, i, j) == SubSeq(u, i + 1, j)
IsWord(u) == \/ u[1] \in Letters \cup {"_"} /\ All(u, Letters \cup Digits \cup {"_"})
             \/ u = Calloc \o <<"!">>
IsNumber(u) ==                   \* a preprocessing number, 6.4.8
  LET first == IF u[1] = "." THEN 2 ELSE 1
  IN  /\ Len(u) >= first /\ u[first] \in Digits
      /\ \A i \in first + 1 .. Len(u) :
           \/ u[i] \in Letters \cup Digits \cup {"_", "."}
           \/ u[i] \in {"+", "-"} /\ u[i - 1] \in {"e", "E", "p", "P"}
Quoted(u, quote) ==
  /\ Len(u) > 1 /\ u[1] = quote /\ u[Len(u)] = quote
  /\ LET escaped[i \in 1 .. Len(u)] == i > 2 /\ u[i - 1] = "\\" /\ ~escaped[i - 1]
     IN  \A i \in 2 .. Len(u) : (u[i] = quote /\ ~escaped[i]) <=> i = Len(u)
IsString(u) == Quoted(u, "\"")
IsChar(u) ==
  \/ Quoted(u, "'") /\ Len(u) > 2 /\ ("\n" \in Range(u) => Len(u) = IF u[2] = "\\" THEN 4 ELSE 3)
  \/ u = <<"'", "'", "'">>
IsWide(u) == Len(u) > 1 /\ u[1] = "L" /\ (IsString(Tail(u)) \/ IsChar(Tail(u)))
Ends(u, from) == {i \in from .. Len(u) : u[i] = "\n" /\ u[i - 1] # "\\"}
IsComment(u) ==
  \/ Len(u) > 3 /\ Part(u, 0, 2) = <<"/", "*">>
     /\ {i \in 3 .. Len(u) - 1 : u[i] = "*" /\ u[i + 1] = "/"} = {Len(u) - 1}
  \/ Len(u) > 1 /\ Part(u, 0, 2) = <<"/", "/">> /\ Ends(u, 3) = {}
IsImport(u) == Len(u) > 6 /\ SubSeq(u, 1, 7) = Import
IsLine(u) ==
  IF IsImport(u) THEN "\n" \notin Range(SubSeq(u, ReadSet(u, GetN(u, Start, 7), Spaces).at, Len(u)))
  ELSE u[1] = "#" /\ Ends(u, 2) = {}
Digraphs == {<<"<", ":">>, <<":", ">">>, <<"<", "%">>, <<"%", ">">>, <<"%", ":">>}
IsLexeme(u) == \/ IsWord(u) \/ IsNumber(u) \/ IsString(u) \/ IsChar(u) \/ IsWide(u) \/ IsComment(u) \/ IsLine(u)
               \/ u \in Symbols \cup Digraphs

(* The lexemes of C that are foreign to che, which refuses them or takes   *)
(* them in pieces: numbers that begin with a point or have a plus, a point *)
(* or a letter where che knows none, such as .1, 1e+5, 1.2.3 and 1u; wide  *)
(* strings and characters; characters of several letters or digits; lines  *)
(* that a backslash continues; digraphs.                                   *)
Integer(u) == u # <<>> /\ All(u, Digits)
Familiar(u) ==
  LET n == Len(u)
      fraction(part) == part = <<>> \/ (part[1] = "." /\ All(Tail(part), Digits))
      exponent(part) == part = <<>> \/ (part[1] \in {"e", "E"} /\
                          LET sign == Len(part) > 1 /\ part[2] = "-"
                          IN  All(SubSeq(part, IF sign THEN 3 ELSE 2, Len(part)), Digits))
  IN  \/ \E a, b, c \in 0 .. n : /\ a <= b /\ b <= c
                                /\ Integer(Part(u, 0, a)) /\ fraction(Part(u, a, b)) /\ exponent(Part(u, b, c))
                                /\ All(Part(u, c, n), {"U", "L"} \cup (IF b > a THEN {"f"} ELSE {}))
      \/ /\ LiteralFollows(u, Start, <<"0", "x">>)
         /\ \E k \in 2 .. n : All(Part(u, 2, k), HexDigits) /\ All(Part(u, k, n), {"U", "L"})
Foreign(u) ==
  \/ IsNumber(u) /\ ~Familiar(u)
  \/ IsWide(u)
  \/ IsChar(u) /\ Len(u) > (IF u[2] = "\\" THEN 4 ELSE 3)
  \/ "\n" \in Range(u) /\ \/ LiteralFollows(u, Start, <<"/", "/">>)
                          \/ u[1] = "#" /\ ~IsImport(u)
  \/ u \in Digraphs

Lexemes(s, i) ==
  {n \in 1 .. Len(s) - i + 1 :
     LET u == SubSeq(s, i, i + n - 1)
     IN  IF i < Len(s) /\ SubSeq(s, i, i + 1) = <<"/", "*">> THEN IsComment(u) ELSE IsLexeme(u)}

(* The lexemes of a text, the place of each and what is left there, up to  *)
(* a character of no lexeme or a foreign one.                              *)
RECURSIVE Reads(_, _)
Reads(s, i) ==
  LET n == IF Lexemes(s, i) = {} THEN 0 ELSE Max(Lexemes(s, i))
      line == 1 + Cardinality({k \in 1 .. i - 1 : s[k] = "\n"})
      col == i - Max({0} \cup {k \in 1 .. i - 1 : s[k] = "\n"})
      u == SubSeq(s, i, i + n - 1)
      read == [lexeme |-> u, ok |-> n > 0 /\ ~Foreign(u), pos |-> <<line, col>>, rest |-> SubSeq(s, i, Len(s))]
  IN  CASE i > Len(s) -> <<>>
        [] i <= Len(s) /\ s[i] \in Spaces -> Reads(s, i + 1)
        [] OTHER -> <<read>> \o (IF read.ok THEN Reads(s, i + n) ELSE <<>>)

(* What they mean: adjacent strings are one, and comments are nothing.     *)
Content(u) ==
  CASE IsString(u) \/ IsChar(u) -> SubSeq(u, 2, Len(u) - 1)
    [] IsImport(u) -> TrimEnd(SubSeq(u, ReadSet(u, GetN(u, Start, 7), Spaces).at, Len(u)))
    [] OTHER -> u

RECURSIVE Meanings(_)
Meanings(rs) ==
  IF rs = <<>> THEN <<>>
  ELSE LET first == [content |-> IF rs[1].ok THEN Content(rs[1].lexeme) ELSE rs[1].lexeme,
                     pos |-> rs[1].pos, rest |-> rs[1].rest, ok |-> rs[1].ok]
           others == Meanings(Tail(rs))
       IN  CASE rs[1].ok /\ IsComment(rs[1].lexeme) -> others
             [] rs[1].ok /\ IsString(rs[1].lexeme) /\ Len(rs) > 1 /\ rs[2].rest[1] = "\"" ->
                  <<[first EXCEPT !.content = @ \o others[1].content, !.ok = others[1].ok]>> \o Tail(others)
             [] OTHER -> <<first>> \o others

(* A text is cut where C cuts it, and every token has its place, up to the *)
(* first lexeme of C that is foreign to che; from there on nothing is      *)
(* said, but that an error in a number is inside it.  An error is at what  *)
(* is no lexeme of C, or foreign.  The text can end so that che panics:    *)
(* behind a quote and behind the e of a number.                            *)
LexesLikeC(s) ==
  LET ts == Tokens(s)
      ms == Meanings(Reads(s, 1))
      n == Len(ts)
      known == Len(SelectSeq(ms, LAMBDA m : m.ok))
      bad == ms[known + 1]
      foreign == known < Len(ms) /\ bad.content # <<>> /\ Foreign(bad.content)
      endless == /\ known = Len(ms) /\ known > 0 /\ ms[known].rest = ms[known].content
                 /\ ms[known].rest[1] \in Digits /\ ~LiteralFollows(ms[known].rest, Start, <<"0", "x">>)
                 /\ ms[known].rest[Len(ms[known].rest)] \in {"e", "E"}
  IN  /\ \A i \in 1 .. Min({known, n - 1}) : <<ms[i].content, ms[i].pos>> = <<ts[i].content, ts[i].pos>>
      /\ known = Len(ms) /\ ~endless => n = known + 1 /\ ts[n].kind = "none"
      /\ endless => n = known /\ ts[n].kind = "panic"
      /\ known < Len(ms) =>
           /\ n > known
           /\ ~foreign => /\ n = known + 1
                          /\ \/ ts[n].kind = "error"
                             \/ ts[n].kind = "panic" /\ bad.rest[1] \in {"'", "\""}
           /\ foreign /\ IsNumber(bad.content) /\ ts[known + 1].kind = "error" =>
                /\ ts[known + 1].pos[1] = bad.pos[1]
                /\ ts[known + 1].pos[2] - bad.pos[2] \in 1 .. Len(bad.content) - 1
=============================================================================
