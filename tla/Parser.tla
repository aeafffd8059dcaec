------------------------------- MODULE Parser --------------------------------
(***************************************************************************)
(* The statements and declarations of src/parser.rs, with the type names   *)
(* that src/preparser.rs finds before. A token is a string: a word is one  *)
(* of Words, everything else is of its own kind; an expression is a word   *)
(* or the token "e" (Expressions.tla has their grammar).                   *)
(*                                                                         *)
(* The state of a parse is what is left to read, how many errors were      *)
(* collected, and its fate: "fine", "error" while an error is returned up  *)
(* the calls, "panic", or "hang" in a loop that nothing ends. Every        *)
(* operator leaves a state alone that is not fine.                         *)
(***************************************************************************)
EXTENDS Integers, Sequences, SequencesExt

CONSTANTS Words, Builtin, Namespaces, ImportedTypes,
          TypeHints     \* the type that each #type line names

Kind(token) ==
  CASE token \in Words -> "word"
    [] token \in DOMAIN TypeHints -> "#macro"
    [] OTHER -> token

Start(ts) == [rest |-> ts, errors |-> 0, fate |-> "fine"]
Fine(p) == p.fate = "fine"
Fate(p, f) == IF Fine(p) THEN [p EXCEPT !.fate = f] ELSE p

(* Lexer: more, follows, get, eat; peek().unwrap() panics at the end.      *)
More(p) == Fine(p) /\ p.rest # <<>>
KindAt(p, n) == IF Len(p.rest) >= n THEN Kind(p.rest[n]) ELSE "end of file"
Follows(p, kind) == More(p) /\ KindAt(p, 1) = kind
Get(p) == IF More(p) THEN [p EXCEPT !.rest = Tail(@)] ELSE p
Eat(p, kind) == IF Follows(p, kind) THEN Get(p) ELSE p
Peek(p) == IF Fine(p) /\ ~More(p) THEN Fate(p, "panic") ELSE p
Expect(p, kind) == IF Follows(p, kind) THEN Get(p) ELSE Fate(p, "error")

(* type_follows and is_type, for the type names known in this module.      *)
IsType(types, word) == word \in Builtin \cup types
TypeFollows(types, p) ==
  /\ More(p)
  /\ \/ KindAt(p, 1) = "const"
     \/ /\ KindAt(p, 1) = "word"
        /\ \/ Len(p.rest) >= 3 /\ KindAt(p, 2) = "." /\ <<p.rest[1], p.rest[3]>> \in ImportedTypes
           \/ IsType(types, p.rest[1])

(* read_ns_id                                                              *)
ReadName(p) ==
  LET qualified == /\ Follows(p, "word") /\ p.rest[1] \in Namespaces
                   /\ KindAt(p, 2) = "." /\ KindAt(p, 3) = "word"
  IN  IF qualified THEN Get(Get(Get(p))) ELSE Expect(p, "word")

ParseTypename(p) == ReadName(Eat(p, "const"))

(* A token is taken before it is looked at: what is no expression is gone, *)
(* and nothing, at the end of the text, is unwrapped.                      *)
ParseExpr(p) ==
  CASE ~More(p) -> Fate(p, "panic")
    [] Follows(p, "word") -> ReadName(p)
    [] Follows(p, "e") -> Get(p)
    [] OTHER -> Fate(Get(p), "error")

RECURSIVE Stars(_), Indexes(_), BareTypeforms(_)
Stars(p) == IF Follows(p, "*") THEN Stars(Get(p)) ELSE p
Indexes(p) ==
  IF ~Follows(p, "[") THEN p
  ELSE LET q == Get(p)
       IN  Indexes(Expect(IF More(q) /\ ~Follows(q, "]") THEN ParseExpr(q) ELSE q, "]"))

(* parse_form                                                              *)
ParseForm(p) == Indexes(Expect(Stars(Peek(p)), "word"))

BareTypeforms(p) ==
  LET q == Stars(ParseTypename(p))
  IN  CASE Follows(q, ",") /\ Follows(Get(q), "...") -> Get(Get(q))
        [] Follows(q, ",") /\ ~Follows(Get(q), "...") -> BareTypeforms(Get(q))
        [] OTHER -> q
ParseAnonymousParameters(p) ==
  LET q == Expect(p, "(") IN Expect(IF Follows(q, ")") THEN q ELSE BareTypeforms(q), ")")
-----------------------------------------------------------------------------
RECURSIVE ParseStatement(_, _), Cases(_, _), CaseValues(_), Statements(_, _)

(* read_body: at the end of the file the loop goes round for ever, with an *)
(* error each time. A statement's error drops those collected inside it    *)
(* and skips to the next semicolon or closing brace.                       *)
Skip_Before(ts) ==               \* a slip: stops in front of the semicolon
  LET stops == {i \in DOMAIN ts : ts[i] \in {"}", ";"}}
  IN  IF stops = {} THEN <<>> ELSE SubSeq(ts, CHOOSE i \in stops : \A j \in stops : i <= j, Len(ts))

Skip(ts) ==
  LET stops == {i \in DOMAIN ts : ts[i] \in {"}", ";"}}
      first == CHOOSE i \in stops : \A j \in stops : i <= j
  IN  CASE stops = {} -> <<>>
        [] stops # {} /\ ts[first] = ";" -> SubSeq(ts, first + 1, Len(ts))
        [] OTHER -> SubSeq(ts, first, Len(ts))
Recover(p, failed) == [rest |-> Skip(failed.rest), errors |-> p.errors + 1, fate |-> "fine"]

Statements(types, p) ==
  CASE ~Fine(p) \/ Follows(p, "}") -> p
    [] Fine(p) /\ ~More(p) -> Fate(p, "hang")
    [] OTHER -> LET q == ParseStatement(types, p)
                IN  Statements(types, IF q.fate = "error" THEN Recover(p, q) ELSE q)
ReadBody(types, p) == Expect(Statements(types, Expect(p, "{")), "}")

ParseBlock(types, p) == IF Follows(p, "{") THEN ReadBody(types, p) ELSE ParseStatement(types, p)

ParseVariable(p) ==
  LET q == ParseForm(ParseTypename(Peek(p)))
  IN  Expect(IF Follows(q, "=") THEN ParseExpr(Get(q)) ELSE q, ";")

ParseReturn(p) ==
  LET q == Peek(Expect(p, "return"))
  IN  IF Follows(q, ";") THEN Get(q) ELSE Expect(ParseExpr(q), ";")

InParens(p, word) == Expect(ParseExpr(Expect(Expect(p, word), "(")), ")")
ParseWhile(types, p) == ParseBlock(types, InParens(p, "while"))
ParseIf(types, p) ==
  LET q == ParseBlock(types, InParens(p, "if"))
  IN  IF Follows(q, "else") THEN ParseBlock(types, Get(q)) ELSE q

(* The counter's type must be a plain one: no const and no namespace.      *)
ParseFor(types, p) ==
  LET head == Expect(Expect(p, "for"), "(")
      first == IF Follows(head, ";") THEN head ELSE Peek(head)
      counter == Follows(first, "word") /\ IsType(types, first.rest[1])
      init == CASE Follows(first, ";") -> first
                [] counter -> ParseExpr(Expect(ParseForm(ParseTypename(first)), "="))
                [] OTHER -> ParseExpr(first)
      unless(q, end) == IF Follows(q, end) THEN q ELSE ParseExpr(q)
      condition == Expect(unless(Expect(init, ";"), ";"), ";")
  IN  ParseBlock(types, Expect(unless(condition, ")"), ")"))

(* read_switch                                                             *)
Literal(p) == LET q == Peek(p) IN IF Follows(q, "num") THEN Get(q) ELSE Fate(q, "error")
CaseValues(p) ==
  LET q == IF Follows(p, "word") THEN ReadName(p) ELSE Literal(p)
  IN  IF Follows(q, ",") THEN CaseValues(Get(q)) ELSE q
Cases(types, p) ==
  IF Follows(p, "case") THEN Cases(types, ReadBody(types, Expect(CaseValues(Get(p)), ":"))) ELSE p
ParseSwitch(types, p) ==
  LET word == Expect(p, "switch")
      str == IF More(word) /\ word.rest[1] = "str" THEN Get(word) ELSE word
      cases == Cases(types, Expect(Expect(ParseExpr(Expect(str, "(")), ")"), "{"))
      default == IF Follows(cases, "default") THEN ReadBody(types, Expect(Get(cases), ":")) ELSE cases
  IN  Expect(default, "}")

ParseStatement(types, p) ==
  CASE ~More(p) -> Fate(p, "error")
    [] TypeFollows(types, p) -> ParseVariable(p)
    [] OTHER -> CASE KindAt(p, 1) \in {"break", "continue"} -> Expect(Get(p), ";")
                  [] KindAt(p, 1) = "for" -> ParseFor(types, p)
                  [] KindAt(p, 1) = "if" -> ParseIf(types, p)
                  [] KindAt(p, 1) = "return" -> ParseReturn(p)
                  [] KindAt(p, 1) = "switch" -> ParseSwitch(types, p)
                  [] KindAt(p, 1) = "while" -> ParseWhile(types, p)
                  [] OTHER -> Expect(ParseExpr(p), ";")
-----------------------------------------------------------------------------
RECURSIVE Parameter(_, _), Parameters(_, _), Fields(_), Forms(_), UnionFields(_), EnumEntries(_), Elements(_, _)

(* parse_function_parameter: a comma may go on with this type's next name. *)
Parameter(types, p) ==
  LET q == Get(p)
  IN  CASE ~Follows(p, ",") \/ TypeFollows(types, q) \/ Follows(q, "...") -> p
        [] OTHER -> Parameter(types, ParseForm(q))
Parameters(types, p) ==
  IF ~TypeFollows(types, p) THEN p
  ELSE LET q == Parameter(types, ParseForm(ParseTypename(p)))
       IN  IF Follows(q, ",") THEN Parameters(types, Get(q)) ELSE q
ParseFunction(types, p) ==
  ParseBlock(types, Expect(Eat(Parameters(types, Expect(p, "(")), "..."), ")"))

EnumEntries(p) ==
  LET name == Expect(p, "word")
      q == IF Follows(name, "=") THEN ParseExpr(Get(name)) ELSE name
  IN  IF Follows(q, ",") /\ ~Follows(Get(q), "}") THEN EnumEntries(Get(q)) ELSE Eat(q, ",")
ParseEnum(p) == Eat(Expect(EnumEntries(Expect(Expect(p, "enum"), "{")), "}"), ";")

UnionFields(p) ==
  IF ~Fine(p) \/ Follows(p, "}") THEN p ELSE UnionFields(Expect(ParseForm(ParseTypename(p)), ";"))
ParseUnion(p) ==
  Expect(ParseForm(Expect(UnionFields(Expect(Expect(p, "union"), "{")), "}")), ";")

Forms(p) == LET q == ParseForm(p) IN IF Follows(q, ",") THEN Forms(Get(q)) ELSE q
ParseTypeAndForms(p) ==
  Expect(Forms(ParseTypename(IF Follows(p, "struct") THEN Fate(p, "error") ELSE p)), ";")
Fields(p) ==
  CASE ~More(p) \/ Follows(p, "}") -> p
    [] Follows(p, "union") -> Fields(ParseUnion(p))
    [] OTHER -> Fields(ParseTypeAndForms(p))

(* parse_typedef: a struct, an alias of a C struct, or of another type.    *)
ParseTypedef(p) ==
  LET q == Expect(p, "typedef")
      alias == Expect(Stars(ParseTypename(q)), "word")
      called == IF Follows(alias, "(") THEN ParseAnonymousParameters(alias) ELSE alias
      sized == IF Follows(called, "[") THEN Expect(Expect(Get(called), "num"), "]") ELSE called
  IN  CASE Follows(q, "{") -> Expect(Expect(Expect(Fields(Get(q)), "}"), "word"), ";")
        [] Follows(q, "struct") -> Expect(Expect(Expect(Get(q), "word"), "word"), ";")
        [] OTHER -> Expect(sized, ";")

(* parse_module_object                                                     *)
ParseElement(types, p) ==
  LET q == Eat(Peek(p), "pub")
      form == Peek(ParseForm(ParseTypename(q)))
      variable == Expect(form, "=")
  IN  CASE Follows(q, "enum") -> ParseEnum(q)
        [] Follows(q, "typedef") -> ParseTypedef(q)
        [] OTHER -> CASE Follows(form, "(") -> ParseFunction(types, form)
                      [] Follows(p, "pub") -> Fate(variable, "error")
                      [] OTHER -> Expect(ParseExpr(variable), ";")

(* parse_module: the first error that is not inside a body ends it.        *)
Elements(types, p) ==
  IF ~More(p) THEN p
  ELSE Elements(types, IF KindAt(p, 1) \in {"#import", "#macro"} THEN Get(p) ELSE ParseElement(types, p))
ParseModule(types, ts) ==
  LET p == Elements(types, Start(ts))
  IN  CASE p.fate = "error" -> [p EXCEPT !.errors = @ + 1]
        [] Fine(p) /\ p.errors > 0 -> [p EXCEPT !.fate = "error"]
        [] OTHER -> p
-----------------------------------------------------------------------------
(* preparse: the name that each typedef declares, found without parsing    *)
(* it: the word behind a struct's braces, or else the last word before the *)
(* semicolon and before a list of parameters.                              *)
RECURSIVE Closing(_, _, _), Preparse(_)
Closing(ts, i, depth) ==
  CASE i > Len(ts) -> 0
    [] i <= Len(ts) /\ ts[i] = "{" -> Closing(ts, i + 1, depth + 1)
    [] i <= Len(ts) /\ ts[i] = "}" -> IF depth = 1 THEN i ELSE Closing(ts, i + 1, depth - 1)
    [] OTHER -> Closing(ts, i + 1, depth)

Upto(ts, kind) == IF Contains(ts, kind) THEN SelectInSeq(ts, LAMBDA t : t = kind) ELSE Len(ts) + 1

GetTypename(ts) ==
  LET close == Closing(ts, 1, 0)
      end == Upto(ts, ";")
      back == Reverse(SubSeq(ts, 1, end - 1))
      named == IF back # <<>> /\ back[1] = ")" THEN SubSeq(back, Upto(back, "(") + 1, Len(back)) ELSE back
      words == SelectSeq(named, LAMBDA t : Kind(t) = "word")
  IN  IF ts # <<>> /\ ts[1] = "{"
        THEN CASE close = 0 \/ close + 1 > Len(ts) -> [fate |-> "panic"]
               [] close # 0 /\ close + 1 <= Len(ts) ->
                    CASE Kind(ts[close + 1]) # "word" -> [fate |-> "panic"]
                      [] Kind(ts[close + 1]) = "word" /\ (close + 2 > Len(ts) \/ ts[close + 2] # ";") -> [fate |-> "error"]
                      [] OTHER -> [fate |-> "fine", name |-> ts[close + 1], rest |-> SubSeq(ts, close + 3, Len(ts))]
        ELSE IF words = <<>> THEN [fate |-> "error"]
             ELSE [fate |-> "fine", name |-> words[1], rest |-> SubSeq(ts, end + 1, Len(ts))]

Preparse(ts) ==
  IF ts = <<>> THEN [fate |-> "fine", types |-> {}]
  ELSE IF ts[1] \in DOMAIN TypeHints
  THEN LET r == Preparse(Tail(ts)) IN [r EXCEPT !.types = @ \cup {TypeHints[ts[1]]}]
  ELSE IF ts[1] # "typedef" THEN Preparse(Tail(ts))
  ELSE LET t == GetTypename(Tail(ts))
       IN  IF t.fate # "fine" THEN [fate |-> t.fate, types |-> {}]
           ELSE LET r == Preparse(t.rest) IN [r EXCEPT !.types = @ \cup {t.name}]

(* A file is preparsed, and parsed if that went well.                      *)
Compile(ts) ==
  LET pre == Preparse(ts)
  IN  IF pre.fate # "fine" THEN [rest |-> ts, errors |-> 1, fate |-> pre.fate] ELSE ParseModule(pre.types, ts)
-----------------------------------------------------------------------------
(* The text of a module is given element by element, a body statement by   *)
(* statement.                                                              *)
Ends(p) == p.fate # "hang"

(* A module that follows the grammar is taken, with the types it declares. *)
TakesModule(elements, types) ==
  LET ts == FlattenSeq(elements) IN Compile(ts) = Start(<<>>) /\ Preparse(ts).types = types

(* A file cut short is taken only between two elements; cut inside a       *)
(* function's body nothing is ever reported: the parser panics or hangs.   *)
Depth(ts) == Len(SelectSeq(ts, LAMBDA t : t = "{")) - Len(SelectSeq(ts, LAMBDA t : t = "}"))
CutIsNoticed(before, element, isFunction, k) ==
  LET cut == SubSeq(element, 1, k)
      p == Compile(FlattenSeq(before) \o cut)
  IN  /\ k > 0 => p.fate # "fine"
      /\ Ends(p) \/ (isFunction /\ Depth(cut) > 0)
      /\ isFunction /\ Depth(cut) > 0 => p.fate \in {"hang", "panic"}

(* A statement without its semicolon is always reported, and nothing but   *)
(* that, with the rest of the file still read, if the statement behind it  *)
(* ends with its first semicolon or there is none. Otherwise the skip ends *)
(* inside that statement, in the head of a for or between two braces, and  *)
(* what is left of it is read for something else: a second error follows.  *)
EndsAtFirst(s) == \A i \in 1 .. Len(s) - 1 : s[i] \notin {";", "}"}
SemicolonIsMissed(before, statement, behind, after) ==
  LET p == Compile(before \o Front(statement) \o FlattenSeq(behind) \o after)
  IN  /\ p.fate = "error"
      /\ p.errors = 1 /\ p.rest = <<>> <=> behind = <<>> \/ EndsAtFirst(behind[1])
=============================================================================
