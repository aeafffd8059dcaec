----------------------------- MODULE MCCompiler ------------------------------
(* One state space for what che does to a program: it loads the project    *)
(* (Build.tla), parses a module, types and translates its expressions and  *)
(* writes the C file. Loading is a machine; the others are algorithms,     *)
(* which look at one input each.                                           *)
EXTENDS Build, SequencesExt, TLC

CONSTANTS main, web, net

ThreeFiles == {main, web, net}
UpTo(n, S) == UNION {[1 .. k -> S] : k \in 0 .. n}
Lists == UpTo(2, Files)
NoFault == [f \in Files |-> "none"]
OneFault == {[NoFault EXCEPT ![f] = x] : f \in Files, x \in Faults}

VARIABLES program,      \* what is looked at in this behaviour
          input         \* the input of an algorithm, when one is chosen

all == <<vars, program, input>>
Waiting(name) == program = name /\ input = <<>> /\ UNCHANGED <<vars, program>>

D == [op |-> "deref", args |-> <<>>]
A == [op |-> "index", args |-> <<>>]
Of(ops, name) == [base |-> <<"", name>>, ops |-> ops]
FnOf(args, t) == [t EXCEPT !.ops = <<[op |-> "call", args |-> args]>> \o @]
Scope ==
  [n |-> Of(<<>>, "number"), i |-> Of(<<>>, "int"), z |-> Of(<<>>, "size_t"), x |-> Of(<<>>, "double"),
   c |-> Of(<<>>, "char"), b |-> Of(<<>>, "bool"), u |-> Of(<<>>, "*** TODO ***"),
   ip |-> Of(<<D>>, "int"), ipp |-> Of(<<D, D>>, "int"), s |-> Of(<<D>>, "char"),
   a |-> Of(<<A>>, "int"), aa |-> Of(<<A, A>>, "int"), ap |-> Of(<<A, D>>, "int"),
   r |-> Of(<<>>, "rec"), rp |-> Of(<<D>>, "rec"), k |-> Of(<<>>, "num"), kp |-> Of(<<D>>, "num"), l |-> Of(<<>>, "link"), la |-> Of(<<A>>, "link"),
   f |-> FnOf(<<Of(<<>>, "int")>>, Of(<<>>, "int")), g |-> FnOf(<<>>, Of(<<D>>, "char")),
   m |-> FnOf(<<Of(<<D>>, "char"), Of(<<>>, "...")>>, Of(<<>>, "void")), h |-> Of(<<>>, "fn"), hp |-> Of(<<D>>, "fn")]

X == INSTANCE Expressions WITH Words <- DOMAIN Scope \cup {"1"}, Numbers <- {"1"}, Typenames <- {"T"}
Y == INSTANCE Types WITH
       Bindings <- Scope,
       Typedefs <- [num |-> Of(<<>>, "int"), link |-> Of(<<D>>, "rec"), fn |-> FnOf(<<Of(<<>>, "int")>>, Of(<<D>>, "int"))],
       Structs <- [rec |-> [v |-> Of(<<>>, "int"), w |-> Of(<<D>>, "rec"), y |-> Of(<<A>>, "char")]]
-----------------------------------------------------------------------------
(* Every expression of two levels of operators, of all the forms and of    *)
(* operators that bind from the weakest to the strongest.                  *)
Over(e1, e2) ==
  {X!Binary(op, e1, e2) : op \in {"=", "||", "&", "==", "<<", "-", "*"}}
  \cup {X!PrefixOp(op, e1) : op \in {"-", "&", "*", "--"}}
  \cup {X!PostfixOp("++", e1), X!Field("->", e1, "b"), X!Index(e1, e2), X!Call(e1, <<>>), X!Call(e1, <<e2, X!Word("b")>>),
        X!Cast("T", 0, e1), X!Cast("T", 1, e1), X!Sizeof(e1), X!SizeofType("T", 1)}
Literals(e1, e2) ==
  {X!List(<<>>), X!List(<<X!Entry("", X!Word(""), e1)>>), X!List(<<X!Entry("[", X!Word("1"), e1)>>),
   X!List(<<X!Entry(".", X!Word("b"), e1), X!Entry("[", e1, e2), X!Entry("", X!Word(""), X!List(<<X!Entry("", X!Word(""), e2)>>))>>)}
Small == {X!Word("a")} \cup Over(X!Word("a"), X!Word("a"))

ReadExpression == Waiting("expressions") /\ \E e1, e2 \in Small : \E e \in Over(e1, e2) \cup Literals(e1, e2) : input' = <<e>>

(* Every word with one operator, or with two when the first is well typed. *)
Words == {X!Word(w) : w \in DOMAIN Scope}
Unary(e) ==
  {X!PrefixOp(op, e) : op \in {"++", "!", "-", "&", "*"}} \cup {X!Field(op, e, n) : op \in {".", "->"}, n \in {"v", "w", "y"}}
  \cup {X!Call(e, args) : args \in {<<>>, <<X!Word("i")>>, <<X!Word("s"), X!Word("i")>>}}
  \cup {X!PostfixOp("++", e), X!Index(e, X!Word("i")), X!Cast("int", 0, e), X!Cast("int", 1, e), X!Sizeof(e)}
Both(e1, e2) == {X!Binary(op, e1, e2) : op \in {"=", "||", "==", "<", "+", "-", "*", "&"}}
Typed(e) == Y!TypeOf(e) # {} /\ Y!CTypeOf(e) # {}

TypeExpression ==
  /\ Waiting("types")
  /\ \E e1, e2 \in Words : \E e \in Unary(e1) \cup Both(e1, e2) :
       \/ input' = <<e>>
       \/ Typed(e) /\ \E o \in Unary(e) : input' = <<o>>
       \/ Typed(e) /\ e \in Unary(e1) /\ \E o \in Both(e, e2) \cup Both(e2, e) : input' = <<o>>
-----------------------------------------------------------------------------
S == INSTANCE Statements

Jumps == {S!Do("a"), S!Simple("break"), S!Simple("continue"), S!Simple("return")}
Holding(b) ==
  {S!If(b, <<>>), S!If(b, <<<<S!Do("c")>>>>), S!While(b), S!For(b, TRUE), S!For(b, FALSE)}
  \cup {S!Switch(str, call, <<S!Case(<<1, 2>>, b), S!Case(<<3>>, <<S!Do("d")>>)>>, default) :
          str, call \in BOOLEAN, default \in {<<>>, <<b>>}}
Flow == UNION {Holding(<<j>>) \cup Holding(<<S!Do("b"), j>>) : j \in Jumps}

TranslateFlow ==
  /\ Waiting("statements")
  /\ \E x \in Flow : \E y \in Holding(<<x, S!Do("e")>>) : input' = <<<<y, S!Do("f")>>>>

-----------------------------------------------------------------------------
T == INSTANCE Translator WITH Builtin <- {"int", "void"}, Library <- {"puts", "true"}

OfC(id) == <<"", id>>
OfLib(id) == <<"lib", id>>
Key(ns, id) == <<ns, id, "key">>
Number == OfC("int")
Returning(names) == [kind |-> "return", names |-> names]
Local(id, t) == [kind |-> "declare", type |-> t, name |-> OfC(id), names |-> <<>>]
Define(id) == [kind |-> "define", name |-> id]
EnumOf(id, pub) == [kind |-> "enum", names |-> <<id>>, pub |-> pub]
Struct(id, t, pub) == [kind |-> "struct", name |-> id, types |-> <<t>>, pub |-> pub]
Variable(id) == [kind |-> "var", name |-> id, type |-> Number, names |-> <<>>]
Function(id, params, t, body, pub) ==
  [kind |-> "function", name |-> id, type |-> t, params |-> params, types |-> [n \in DOMAIN params |-> t],
   body |-> body, pub |-> pub]

(* A library: a type t, a constant k, a function f and a struct with t.    *)
Library(t, const, type, param, s) ==
  [id |-> "lib", imports |-> <<>>,
   elements |-> t \o const \o <<Function("f", <<param>>, type, <<Returning(<<OfC("k"), OfC(param)>>)>>, TRUE)>> \o s]
PublicLibrary == Library(<<Struct("t", Number, TRUE)>>, <<EnumOf("k", TRUE)>>, OfC("t"), "x", <<Struct("s", OfC("t"), TRUE)>>)
Libraries ==
  {Library(t, const, type, param, s) :
     t \in {<<>>, <<[kind |-> "typedef", name |-> "t", type |-> Number, pub |-> TRUE]>>}
           \cup {<<Struct("t", Number, pub)>> : pub \in BOOLEAN},
     const \in {<<Define("k")>>, <<EnumOf("k", TRUE)>>, <<EnumOf("k", FALSE)>>, <<Variable("k")>>},
     type \in {Number, OfC("t")}, param \in {"x", "f"},
     s \in {<<>>, <<Struct("s", OfC("t"), TRUE)>>, <<Struct("s", OfC("t"), TRUE), Struct("u", OfC("s"), TRUE)>>} }

(* Bodies: a use of names, after a local or not, inside each statement.    *)
Plain == {<<Returning(<<OfLib("f")>>)>>, <<Returning(<<OfC("k"), OfLib("k")>>)>>}
Keyed == {<<Returning(<<Key("", "k"), OfLib("f")>>)>>, <<Returning(<<Key("lib", "k")>>)>>,
          <<Local("k", Number), Returning(<<Key("", "k"), OfC("k"), OfLib("f")>>)>>}
Simple == Plain \cup Keyed
          \cup {<<Local(id, t), Returning(<<OfC(id), OfLib("f")>>)>> : id \in {"x", "k"}, t \in {Number, OfLib("t")}}
Around(b) ==
  {b, <<[kind |-> "if", names |-> <<OfC("x")>>, body |-> b, otherwise |-> <<<<Returning(<<OfC("x")>>)>>>>]>>,
   <<[kind |-> "for", init |-> Local("x", Number), names |-> <<OfC("x")>>, body |-> b], Returning(<<OfC("x")>>)>>,
   <<Local("x", Number), [kind |-> "while", names |-> <<OfC("true")>>, body |-> b]>>,
   <<[kind |-> "switch", names |-> <<OfC("x")>>, cases |-> <<[names |-> <<OfLib("k")>>, body |-> b]>>,
      default |-> <<<<Returning(<<OfC("x")>>)>>>>]>>}
MainModule(before, params, body, after) ==
  [id |-> "main", imports |-> <<"lib">>, elements |-> before \o <<Function("main", params, Number, body, FALSE)>> \o after]
BeforeMain == {<<>>, <<Struct("s", OfLib("t"), FALSE)>>, <<Define("k")>>}
AfterMain == {<<>>, <<Variable("x")>>, <<Function("x", <<>>, Number, <<Returning(<<OfC("k")>>)>>, TRUE), EnumOf("k", FALSE)>>,
              <<EnumOf("k", TRUE)>>}

TranslateProgram ==
  /\ Waiting("translator")
  /\ \/ \E lib \in Libraries, body \in Simple, before \in {<<>>, <<Struct("s", OfLib("t"), FALSE)>>} :
          input' = <<lib, MainModule(before, <<>>, body, <<>>)>>
     \/ \E simple \in Simple, before \in BeforeMain, params \in {<<>>, <<"x">>}, after \in AfterMain :
          \E body \in Around(simple) : input' = <<PublicLibrary, MainModule(before, params, body, after)>>
-----------------------------------------------------------------------------
K == INSTANCE Lexer WITH
       Letters <- {"a", "b", "c", "e", "f", "i", "l", "m", "o", "p", "r", "t", "x", "L", "U"}, Keywords <- {<<"i", "f">>}

Chunks ==
  {K!Import, K!Calloc, <<"0", "x">>, <<"i", "f">>, <<"<", "<">>, <<"<", ":">>, <<"/", "*">>, <<"/", "/">>}
  \cup {<<c>> : c \in {"a", "e", "x", "0", "1", "f", "L", "U", "!", ".", "-", "+", "=", "/", "*", "#", "\"", "'", "\\", "\n", " ", "@"}}
Awkward == {<<"1">>, <<"e">>, <<"/">>, <<"*">>, <<"\"">>, <<"'">>, <<"\\">>, <<"\n">>, <<".">>}

ReadText ==
  /\ Waiting("lexer")
  /\ \/ \E c1, c2, c3 \in Chunks : input' = <<c1 \o c2 \o c3>>
     \/ \E c1, c2, c3, c4 \in Awkward : input' = <<c1 \o c2 \o c3 \o c4>>
-----------------------------------------------------------------------------
P == INSTANCE Parser WITH Words <- {"a", "f", "g", "int", "T", "m", "t", "str"}, Builtin <- {"int"},
                          Namespaces <- {"m"}, ImportedTypes <- {<<"m", "t">>},
                          TypeHints <- [hint |-> "T"]

Braced(s) == <<"{">> \o s \o <<"}">>
Statements ==
  {<<"e", ";">>, <<"a", ";">>, <<"return", "e", ";">>, <<"break", ";">>, <<"continue", ";">>}
  \cup {t \o f : t \in {<<"int">>, <<"const", "T">>, <<"m", ".", "t">>}, f \in {<<"a", ";">>, <<"*", "a", "=", "e", ";">>, <<"a", "[", "e", "]", "[", "]", ";">>}}
Compound(s) ==
  {s, <<"return", ";">>, <<"if", "(", "e", ")">> \o s, <<"if", "(", "e", ")">> \o Braced(s) \o <<"else">> \o s,
   <<"while", "(", "a", ")">> \o Braced(s \o s), <<"for", "(", ";", ";", ")">> \o s,
   <<"for", "(", "T", "a", "=", "e", ";", "e", ";", "e", ")">> \o Braced(s), <<"for", "(", "e", ";", "e", ";", ")">> \o Braced(s),
   <<"switch", "(", "e", ")", "{", "case", "num", ",", "m", ".", "a", ":">> \o Braced(s) \o <<"default", ":">> \o Braced(s) \o <<"}">>,
   <<"switch", "str", "(", "e", ")", "{", "case", "a", ":">> \o Braced(s) \o <<"}">>}
FunctionText(params, body) == <<"pub", "int", "f", "(">> \o params \o <<")", "{">> \o body \o <<"}">>
Typedefs ==
  {<<"typedef", "{", "int", "a", ",", "*", "f", ";", "union", "{", "int", "a", ";", "}", "g", ";", "}", "T", ";">>,
   <<"hint">>, <<"typedef", "struct", "a", "T", ";">>, <<"pub", "typedef", "int", "T", "[", "num", "]", ";">>,
   <<"typedef", "int", "*", "T", "(", "int", "*", ",", "...", ")", ";">>, <<"pub", "typedef", "m", ".", "t", "*", "T", ";">>}
Parameters == {<<>>, <<"int", "a", ",", "f", ",", "const", "T", "*", "g">>, <<"m", ".", "t", "a", ",", "...">>}
Declarations ==
  {<<"pub", "enum", "{", "a", "=", "e", ",", "g", ",", "}">>, <<"enum", "{", "a", "}">>,
   <<"int", "g", "[", "]", "=", "e", ";">>, <<"m", ".", "t", "*", "g", "=", "e", ";">>}
StructT == <<"typedef", "{", "int", "a", ";", "}", "T", ";">>

ParseWhole ==
  /\ Waiting("parser")
  /\ \E type \in Typedefs :
       \/ \E s \in Statements, params \in Parameters : \E body \in Compound(s) :
            input' = <<"whole", <<<<"#import">>, type, FunctionText(params, body)>>>>
       \/ \E d \in Declarations : input' = <<"whole", <<type, d, FunctionText(<<>>, <<"return", ";">>), d>>>>

ParseCut ==
  /\ Waiting("parser")
  /\ \/ \E s \in Statements, params \in Parameters : \E body \in Compound(s) :
          LET text == FunctionText(params, body)
          IN  \E n \in 0 .. Len(text) - 1 : input' = <<"cut", <<StructT>>, text, TRUE, n>>
     \/ \E type \in Typedefs, d \in Declarations : \E n \in 0 .. Len(d) - 1 : input' = <<"cut", <<type>>, d, FALSE, n>>
     \/ \E type \in Typedefs : \E n \in 0 .. Len(type) - 1 : input' = <<"cut", <<>>, type, FALSE, n>>

ParseWithoutSemicolon ==
  /\ Waiting("parser")
  /\ \E s, t \in Statements : \E body \in Compound(t) :
       \E behind \in {<<>>, <<body>>, <<s, body>>} :
         input' = <<"semicolon", StructT \o Front(FunctionText(<<>>, body)), s, behind,
                    <<"}">> \o FunctionText(<<>>, <<"return", ";">>)>>
-----------------------------------------------------------------------------
CompilerInit ==
  /\ input = <<>>
  /\ \/ program = "build" /\ Init
     \/ /\ program \in {"lexer", "parser", "expressions", "types", "statements", "translator"}
        /\ imports = [f \in Files |-> <<>>]
        /\ fault = [NoFault EXCEPT ![main] = "unreadable"]
        /\ phase = "unreadable"
        /\ stack = <<>> /\ cache = {} /\ walk = <<>> /\ left = 0
        /\ order = <<>> /\ parsed = 0 /\ units = <<>>

BuildProject == program = "build" /\ Next /\ UNCHANGED <<program, input>>

Examined == input # <<>> /\ UNCHANGED all

CompilerNext ==
  \/ BuildProject
  \/ ReadText \/ ReadExpression \/ TypeExpression \/ TranslateFlow \/ TranslateProgram
  \/ ParseWhole \/ ParseCut \/ ParseWithoutSemicolon
  \/ Examined

CompilerSpec == CompilerInit /\ [][CompilerNext]_all /\ WF_all(BuildProject)

Given(name) == program = name /\ input # <<>>

(* The inputs of the algorithms are judged as they are chosen.             *)
Chosen(name) == program = name /\ input # input'

SyntaxRight(x) ==
  CASE x[1] = "whole" -> P!TakesModule(x[2], {"T"})
    [] x[1] = "cut" -> P!CutIsNoticed(x[2], x[3], x[4], x[5])
    [] x[1] = "semicolon" -> P!SemicolonIsMissed(x[2], x[3], x[4], x[5])

RunsAlike(x) == \A choices \in [1 .. 3 -> 1 .. 3], variable \in 1 .. 4 : S!SameRun(x[1], choices, variable)
FlowRight(x) == S!Differs(x[1]) \/ RunsAlike(x)

(* Texts are cut into tokens where C cuts them, up to a lexeme that che    *)
(* does not have (Foreign), and errors have their place; a module is parsed*)
(* if it follows the grammar, a missing semicolon is reported, and only    *)
(* that if the next statement ends with its first one, and a file cut short*)
(* is not parsed.                                                          *)
SyntaxIsChecked ==
  [][/\ Chosen("lexer") => K!LexesLikeC(input'[1])
     /\ Chosen("parser") => SyntaxRight(input')]_all

(* The types that expressions are given are C's, but for those of numbers  *)
(* plus pointers, of the addresses of arrays and functions, of assignments *)
(* and of comparisons of two bools (Types.tla); the last get a type that   *)
(* there is not.                                                           *)
TypesAreTrue == [][Chosen("types") => Y!SameType(input'[1])]_all

(* What che writes is the C that was meant: expressions group as they did, *)
(* control goes where it went, and names refer to what they referred to.   *)
(* Each has its exceptions, where che differs from C or from its README:   *)
(* the brackets that it loses (KeepsBrackets), keys of composite literals  *)
(* that are no bare names (Panics) or lose their prefix (KeyIsLost), what  *)
(* it takes and C refuses (CRefuses, Exposes), and a switch over strings   *)
(* with a break in it or over a call (Differs), which the next is about.   *)
MeaningSurvives ==
  [][/\ Chosen("expressions") => X!SameInC(input'[1])
     /\ Chosen("statements") => FlowRight(input')
     /\ Chosen("translator") => T!SameProgram(input'[1], input'[2])]_all

(* `switch str` behaves like a switch, as the README has it. In the code   *)
(* it becomes a chain of ifs, which a break does not leave, and the value  *)
(* that it is over is worked out for every comparison.                     *)
StrSwitchIsASwitch == [][Chosen("statements") => RunsAlike(input')]_all
=============================================================================
