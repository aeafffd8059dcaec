----------------------------- MODULE MCPrograms -----------------------------
(* The values of the programs' constants, and the programs that are        *)
(* algorithms: the first step of one of these is to choose its input.      *)
EXTENDS Programs, TLC

CONSTANTS Selected,    \* the programs that a run looks at
          t1, t2, t3

VARIABLE input         \* of the programs that are algorithms, once it is chosen

(* che run and che build, two at once: two runs and a build of projects    *)
(* that use the same libraries, strings and net, in which strings has      *)
(* different positions, and a build that has nothing to do with them.      *)
FourCommands == {"run hello", "build web", "run chat", "build sum"}
TwoRuns == {"run hello", "run chat"}

SharedFiles == {"hello", "web", "chat", "sum", "strings", "net"}
SharedImports == [hello |-> {"strings"}, web |-> {"strings", "net"}, chat |-> {"strings"},
                  sum   |-> {}, net |-> {}, strings |-> {}]
SharedProject == [c \in FourCommands |->
                    CASE c = "run hello" -> <<"strings", "hello">>
                      [] c = "build web" -> <<"net", "strings", "web">>
                      [] c = "run chat"  -> <<"strings", "chat">>
                      [] c = "build sum" -> <<"sum">>]

Outputs == [c \in Commands |-> IF c \in Runs THEN "/tmp/chebuild" ELSE c]

(* che test: three tests, in any two of five directories.                  *)
TheTests == {t1, t2, t3}
TheDirs == {<<>>, <<t1>>, <<t2, t3>>, <<t1, t2, t3>>, <<t3, t1>>}
TheOutcomes == {"passes", "fails", "does not compile", "prints no text"}

(* Battleship on three small boards, one for each way to play; the player  *)
(* shoots from the first square to the last.                               *)
Row == [w |-> 7, d |-> 1, lengths |-> <<4>>, mode |-> "blitz"]
Pair == [w |-> 6, d |-> 1, lengths |-> <<2, 2>>, mode |-> "salvo"]
Field == [w |-> 3, d |-> 2, lengths |-> <<2>>, mode |-> "regular"]
InOrder(cells) == {c \in cells : \A d \in cells : c[1] + 10 * c[2] <= d[1] + 10 * d[2]}

TheGames == {Row, Pair, Field}
TheTries == {<<<<2, 0>>, 0>>, <<<<2, 1>>, 6>>}

(* The LZW of messages of up to nine letters, of two, with room for three  *)
(* or four words between resets.                                           *)
TheMessages == {[size |-> 2, text |-> s] : s \in UNION {[1 .. n -> {0, 1}] : n \in 0 .. 9}}

(* One message over the sixteen letters of a GIF or a half-byte, of such a  *)
(* length that END is written where the code width is about to change and   *)
(* ends a byte.                                                             *)
Text == [i \in 1 .. 143 |-> (i * i + i \div 5) % 16]
OneMessage == {[size |-> 16, text |-> Text]}

(* The web server: two clients, and scripts each with a way of its own to  *)
(* write or to end; two units are read at once, and a pipe holds four.     *)
Script(reads, err, writes, head, plain, code) ==
  [input |-> reads, err |-> err, out |-> writes, head |-> head, plain |-> plain, status |-> code]
ServerScripts ==
  [brief |-> Script(FALSE, 1, <<2>>, 1, TRUE, 0),       slow |-> Script(FALSE, 0, <<1, 1, 1>>, 1, TRUE, 0),
   long  |-> Script(FALSE, 0, <<2, 2, 2, 1>>, 2, TRUE, 0), full |-> Script(FALSE, 0, <<2, 2, 1>>, 1, TRUE, 0),
   loud  |-> Script(FALSE, 5, <<2>>, 1, TRUE, 0),       reads |-> Script(TRUE, 0, <<2>>, 1, TRUE, 0),
   fails |-> Script(FALSE, 0, <<2>>, 1, TRUE, 1),       halting |-> Script(FALSE, 0, <<1, 1>>, 2, TRUE, 0)]
TheClients == {t1, t2}
TheWanted == {<<name>> : name \in DOMAIN ServerScripts}
             \cup {<<"brief", "slow">>, <<"file", "/">>, <<"missing", "brief">>}
TheSizes == {1, 2}

(* The torrent list: two torrents, which may have the same name, and up to *)
(* three lines in the list of what is hidden.                              *)
TheIds == {1, 2}
TheNames == {t1, t2}
-----------------------------------------------------------------------------
(* The inputs of the programs that are algorithms: each looks at one.      *)
R == INSTANCE Regexp
L == INSTANCE Wisp
M16 == INSTANCE Lc3
M8 == INSTANCE Chip8
H == INSTANCE Http
U == INSTANCE Utf

UpTo(n, S) == UNION {[1 .. k -> S] : k \in 0 .. n}
-----------------------------------------------------------------------------
(* Regular expressions, and the texts they are looked for in.              *)
Expressions ==
  UpTo(4, {"a", "b", "|", "*", "(", ")"}) \cup UpTo(3, {"a", "^", "$", ".", "?", "+"})
  \cup {<<"(", "a">> \o e \o <<")", op>> : e \in UpTo(3, {"a", "b", "|", "*"}), op \in {"*", "+", "?"}}
Spans == {<<"a">>, <<"b">>, <<"c">>, <<"a", "-", "b">>, <<"b", "-", "c">>, <<"a", "-", "c">>}
Classes == {<<"[">> \o n \o s1 \o s2 \o s3 \o <<"]">> : n \in {<<>>, <<"^">>}, s1, s2 \in Spans, s3 \in Spans \cup {<<>>}}
TextsFor(e) == IF \E k \in DOMAIN e : e[k] \in {"^", "$"} THEN UpTo(3, {"a", "\n"}) ELSE UpTo(3, {"a", "b"})
Letters == UpTo(1, {"a", "b", "c", "-", "\n"})
-----------------------------------------------------------------------------
(* Programs of wisp: a form, around it another, around that a third.       *)
Q(x) == L!L(<<L!S("quote"), x>>)
Form(name, given) == L!L(<<L!S(name)>> \o given)
Lambda(params, body) == L!L(<<L!S("lambda"), L!L(params), body>>)
List(items) == L!L(items)
N(n) == L!N(n)
X == L!S("x")
Y == L!S("y")
Optional == L!S("&optional")
Rest == L!S("&rest")
NIL == L!S("nil")
Tag(c) == Q(L!S(c))
Throw == Form("throw", <<Tag("a"), N(5)>>)
Quoted == Q(List(<<L!S("a"), N(1)>>))
Atoms == {N(2), X, Tag("a"), NIL}

Unary == {"car", "f", "list", "not", "symbolp", "numberp", "listp", "funcp", "-", "print", "value", "eval", "quote"}
Binary == {"+", "-", "*", "/", "%", "<", "<=", ">", "=", "eq", "eql", "cons", "set", "list", "apply"}
Simple ==
  Atoms \cup {Throw, Form("throw", <<Tag("b"), N(5)>>), Form("+", <<X, N(2)>>), Form("cons", <<N(2), X>>), Form("set", <<X, N(2)>>)}
  \cup {Form(fn, <<x>>) : fn \in Unary, x \in {X, Quoted}}
Inner ==
  Simple \cup {Form(fn, <<N(2)>>) : fn \in Unary} \cup {Form(fn, <<x, y>>) : fn \in Binary, x, y \in Atoms \cup {N(0)}}
  \cup {List(<<Lambda(v, X)>> \o given) :
          v \in {<<>>, <<X>>, <<X, Optional, Y>>, <<Y, Rest, X>>, <<Rest, Y, X>>},
          given \in {<<>>, <<N(2)>>, <<N(2), X>>, <<N(1), N(2), N(3)>>}}
Few == {X, Throw, Quoted}

Control(h) ==
  {Form("if", <<h, N(1), X>>), Form("if", <<X, h, N(2)>>), Form("and", <<h, X>>), Form("or", <<h, X>>), Form("or", <<X, h>>),
   Form("cond", <<List(<<h, N(1)>>), List(<<L!S("t"), X>>)>>), Form("cond", <<List(<<NIL, N(1)>>), List(<<X, h>>)>>),
   Form("cond", <<List(<<h>>)>>), Form("progn", <<h, X>>), Form("catch", <<Tag("a"), h>>), Form("catch", <<h, Throw>>),
   Form("throw", <<Tag("a"), h>>), Form("throw", <<h, X>>),
   Form("let", <<List(<<List(<<Y, L!S("t")>>)>>), Form("while", <<Y, Form("set", <<Q(Y), NIL>>), h>>)>>)}
Binding(h) ==
  {Form("let", <<List(<<List(<<X, h>>)>>), Form("list", <<X, Y>>)>>),
   Form("let", <<List(<<List(<<X, N(1)>>), List(<<Y, h>>)>>), h>>),
   Form("let", <<List(<<h>>), X>>), Form("let", <<h, X>>),
   List(<<Lambda(<<X>>, Form("list", <<X, h>>)), N(5)>>), List(<<Lambda(<<X, Optional, Y>>, h), h>>),
   List(<<Lambda(<<Rest, X>>, X), h, X>>), Form("set", <<Q(X), h>>),
   Form("apply", <<Lambda(<<X>>, h), Form("list", <<h>>)>>), Form("apply", <<L!S("list"), h>>),
   Form("progn", <<Form("defmacro", <<L!S("f"), List(<<L!S("m")>>), Form("list", <<Q(L!S("list")), L!S("m"), L!S("m")>>)>>),
                   Form("f", <<h>>)>>),
   Form("progn", <<Form("defun", <<L!S("f"), List(<<X, Y>>), h>>), Form("f", <<h, N(2)>>)>>),
   Form("list", <<Form("set", <<Q(X), N(2)>>), h, X>>)}
Values(h) ==
  {h, List(<<h, N(1)>>), Form("list", <<h, X>>), Form("cons", <<X, h>>), Form("car", <<h>>), Form("cdr", <<h>>),
   Form("eval", <<h>>), Form("eval", <<Q(h)>>), Form("+", <<N(1), h>>), Form("-", <<h>>), Form("/", <<N(6), h>>),
   Form("<", <<h, N(2)>>), Form("eq", <<h, Tag("a")>>), Form("eql", <<h, N(2)>>), Form("not", <<h>>), Form("print", <<h>>)}
Around(h) == Control(h) \cup Binding(h) \cup Values(h)
Afterwards == Form("list", <<X, Y>>)
-----------------------------------------------------------------------------
(* Texts that wisp reads.                                                  *)
Signs == {"(", ")", "'", ".", " ", "a", "1", "\n", "[", "]", "\"", ";", "-", "@"}
ListSigns == {"(", ")", "'", ".", " ", "a"}
-----------------------------------------------------------------------------
(* Words, bytes, sprites and what is typed, for the programs of the        *)
(* emulated machines.                                                      *)
Words == {0, 1, 2, 255, 256, 4660, 32767, 32768, 32769, 65280, 65534, 65535}
Bytes == {0, 1, 2, 9, 10, 127, 128, 129, 200, 254, 255}
Sprites == UpTo(3, {0, 1, 128, 150, 255})
Opcodes == {16 * c + x : c \in 0 .. 15, x \in {0, 7}}
Pressed == UpTo(3, {"x", "1", "k"})
Typed == UpTo(3, {1, 10, 127})
-----------------------------------------------------------------------------
(* Messages of HTTP, to be read at once or in up to three portions.        *)
HeaderField(name, value) == H!Header(name, value)
Fields == {<<>>, <<HeaderField(<<"h">>, <<"v">>)>>, <<HeaderField(<<"ho", "st">>, <<"v", ";", " ", "w">>), HeaderField(<<"h", "-">>, <<":">>)>>}
Param(name, value) == [name |-> name, value |-> value]
Params == {<<>>, <<Param(<<"a">>, <<"1">>)>>, <<Param(<<"a">>, <<"&", "=">>), Param(<<"b">>, <<"?", "x", " ">>)>>}
Uris == {<<"/">> \o u : u \in UpTo(4, {"/", "a", "?"})}
Request(uri, fields, params) == [method |-> <<"GET">>, uri |-> uri, headers |-> fields, params |-> params]
Bodies == UpTo(2, {"a", "\r", "255"})
Closing == HeaderField(H!Connection, <<"close">>)
Length(n) == HeaderField(H!ContentLength, <<n>>)
Framings == {<<Closing>>, <<HeaderField(H!Connection, <<"keep-alive">>)>>, <<Closing, Length("2")>>, <<Length("0")>>, <<Length("1")>>,
             <<Length("3"), Length("1")>>, <<>>}
-----------------------------------------------------------------------------
(* Runes at the ends of what one, two, three and four bytes can hold, bytes *)
(* that begin and that go on, and the blocks in which letters have cases.  *)
Boundary ==
  {1, \h7E, \h7F, \h80, \h7FE, \h7FF, \h800, \hFFF, \h1000, \hD7FF, \hD800, \hDFFF, \hFFFC, \hFFFD, \hFFFE, \hFFFF,
   \h10000, \h10FFFE, \h10FFFF, \h110000, \h7FFFFFFF}
Firsts == {1, \h61, \h7F, \h80, \hBF, \hC0, \hC1, \hC2, \hDF, \hE0, \hE1, \hED, \hEF, \hF0, \hF1, \hF4, \hF5, \hF7, \hF8, \hFF}
Nexts == {\h61, \h80, \h8F, \h90, \h9F, \hA0, \hBF, \hC2}
Runes == {\h61, \hE9, \h20AC, \h1F600}
Found == UpTo(4, {\h61, \hC3, \hA9, \hE2, \hEF})
Sought == UpTo(2, {\h61, \hE9, \h20AC})
Blocks == {256 * n : n \in (0 .. 5) \cup {16, 30, 31, 32, 33, 36, 48, 254, 255}}
-----------------------------------------------------------------------------
(* Values of JSON, and the signs of its grammar.                           *)
J == INSTANCE Json
Plain ==
  {J!Null, J!Bool(TRUE), J!Bool(FALSE)} \cup {J!Str(t) : t \in UpTo(2, {"a", "\"", "\\", "/", "\n", "\r", "\t"})}
  \cup {J!Num(n) : n \in {0, 1000000, -12000000, 1500000, -1, 305000000, 100001}}
Parts == {J!Null, J!Bool(FALSE), J!Num(10000000), J!Str(<<"]">>), J!Str(<<"\\", "\"">>), J!Arr(<<>>), J!Obj(<<>>)}
Lists(V) == {J!Arr(<<v>>) : v \in V} \cup {J!Arr(<<v, u>>) : v, u \in V}
Objects(V) ==
  {J!Obj(<<<<k, v>>>>) : k \in {<<>>, <<"a">>, <<":">>, <<"/">>, <<"\"">>, <<"a", "\\">>}, v \in V} \cup {J!Obj(<<<<<<"a">>, v>>, <<<<",">>, u>>>>) : v, u \in V}
Jsons == Plain \cup Lists(Parts) \cup Objects(Parts)
JsonSigns == {"[", "]", "{", "}", ",", ":", "1", "a"}
-----------------------------------------------------------------------------
(* Values of bencode, torrents of one file and of two, the entries of one  *)
(* in all orders, and the answers of a tracker; five nodes can be entered, *)
(* and there is room for two peers.                                        *)
TextRoom == [k \in {"announce", "created by", "comment", "name", "ip", "peer id"} |-> 3] @@ [path |-> 4]
E == INSTANCE Bencode WITH StackSize <- 5, Room <- TextRoom, KeyRoom <- 3, MaxFiles <- 2, MaxPeers <- 2, HashSize <- 2
Leaves ==
  {E!IntVal(n) : n \in {0, 7, 10, 1203, 65536, -1, -10, -901}} \cup {E!StrVal(t) : t \in UpTo(2, {"a", "e", "1"})}
  \cup {E!StrVal([k \in 1 .. 12 |-> "i"])}
Items == {E!IntVal(0), E!IntVal(-10), E!StrVal(<<>>), E!StrVal(<<"e">>), E!ListVal(<<>>), E!DictVal(<<>>)}
Pairs == {E!ListVal(<<v, u>>) : v, u \in Items} \cup {E!DictVal(<<<<<<"e">>, v>>, <<<<>>, u>>>>) : v, u \in Items}
Within(V) == {E!ListVal(<<v>>) : v \in V} \cup {E!DictVal(<<<<<<"a">>, v>>>>) : v \in V}
Bencodes == Leaves \cup Pairs \cup Within(Leaves \cup Pairs)
BencodeSigns == {"i", "l", "d", "e", ":", "-", "0", "1", "2", "a"}

Info(length, pl, files, name) ==
  LET info == [E!NoInfo EXCEPT !.announce = name, !.name = name, !.length = length, !["piece length"] = pl, !.files = files]
  IN [info EXCEPT !.pieces = SubSeq(<<"a", "b", "c", "d", "e", "f", "g", "h">>, 1, 2 * E!npieces(info))]
Singles == {Info(length, pl, <<>>, name) : length \in 0 .. 4, pl \in {1, 2, 3, 5}, name \in UpTo(1, {"a", "1"})}
           \cup {Info(length, 3, <<>>, <<"a">>) : length \in 5 .. 9}
Several == {Info(0, pl, <<[length |-> a, path |-> <<>>], [length |-> b, path |-> <<>>]>>, <<>>) : a, b \in 0 .. 4, pl \in 2 .. 4}
Of(k, v) == <<<<k>>, v>>
Announced == Of("announce", E!StrVal(<<"a", "b">>))
Described == Of("info", E!DictVal(<<>>))
Unknown == Of("another", E!IntVal(1))
OneFile == E!DictVal(<<Of("length", E!IntVal(3)), Of("path", E!ListVal(<<E!StrVal(<<"a">>), E!StrVal(<<"b", "c">>)>>))>>)
Unnamed == E!DictVal(<<Of("path", E!ListVal(<<>>)), Of("length", E!IntVal(4))>>)
InfoFields ==
  {Of("length", E!IntVal(10)), Of("files", E!ListVal(<<OneFile, Unnamed>>)), Of("private", E!IntVal(1)), Of("piece length", E!IntVal(2))}
InnerOrders == E!SetToSeqs(InfoFields)
MetaOrders == E!SetToSeqs({Announced, Described, Unknown, Of("encoding", E!DictVal(<<Of("a", E!StrVal(<<"e">>))>>))})
TheInfo ==
  [Info(10, 2, <<[length |-> 3, path |-> <<"a", "/", "b", "c">>], [length |-> 4, path |-> <<>>]>>, <<>>)
     EXCEPT !.announce = <<"a", "b">>, !.private = TRUE, !.pieces = <<>>]
PeersAnswered == UpTo(2, {("peer id" :> <<"e">>) @@ [ip |-> <<"1", ".">>, port |-> 80], ("peer id" :> <<"a", "b", "c">>) @@ [ip |-> <<>>, port |-> 1]})
Answer(n, peers) == [complete |-> n, incomplete |-> 10, interval |-> n + 1, peers |-> peers]
-----------------------------------------------------------------------------
(* Texts for Huffman codes, bits and portions of data.                     *)
F == INSTANCE Huffman WITH PoolSize <- 12
Times(n, c) == [k \in 1 .. n |-> c]
Texts ==
  {Times(n[1], "a") \o Times(n[2], "b") \o Times(n[3], "c") \o Times(n[4], "d") :
     n \in {n \in [1 .. 4 -> 0 .. 3] : \E k, m \in 1 .. 4 : k # m /\ n[k] > 0 /\ n[m] > 0}}
  \cup {<<"c", "a", "b", "a", "c", "a", "b", "d">>}
Depths == UpTo(3, 0 .. 4) \cup UpTo(4, 0 .. 2)
Portions == UpTo(3, {<<1>>, <<2, 3, 4>>})
Readings == UpTo(3, {1, 3})
-----------------------------------------------------------------------------
(* The programs, and the choice of one and of its input.                  *)
Machines == {"che", "che test", "battleship", "lzw", "web server", "torrent list"}
Algorithms == {"regexp", "wisp", "wisp reader", "lc3", "chip8", "http", "utf", "json", "bencode", "huffman"}

AllPrograms == Machines \cup Algorithms

ProgramsInit == program \in Selected /\ input = <<>> /\ MachinesInit

Waiting(p) == Chosen(p) /\ input = <<>> /\ UNCHANGED machines
Search ==
  /\ Waiting("regexp")
  /\ \/ \E e \in Expressions : input' = <<e, TextsFor(e)>>
     \/ \E e \in Classes : input' = <<e, Letters>>
Run ==
  /\ Waiting("wisp")
  /\ \/ \E h \in Inner : input' = <<h, Afterwards>>
     \/ \E h \in Simple : \E x \in Around(h) : input' = <<x, Afterwards>>
     \/ \E h \in Few : \E x \in Around(h) : \E y \in Around(x) : input' = <<y, Afterwards>>
Read ==
  /\ Waiting("wisp reader")
  /\ \/ \E t \in UpTo(3, Signs) : input' = <<t>> \/ input' = <<<<"(">> \o t \o <<")", " ", "a">>>>
     \/ \E t \in UpTo(6, ListSigns) : input' = <<t>>
     \/ \E t \in UpTo(4, ListSigns) : input' = <<<<"(", "a", " ", ".">> \o t \o <<")">>>>
Exchange ==
  /\ Waiting("http")
  /\ \/ \E f \in Fields : \E p \in Params :
          \/ \E u \in Uris : input' = [kind |-> "request", request |-> Request(u, f, p)]
          \/ input' = [kind |-> "cut request", request |-> Request(<<"/", "a">>, f, p)]
     \/ \E f \in Framings : \E b \in Bodies : input' = [kind |-> "response", headers |-> f, body |-> b]
     \/ \E f \in Fields \ {<<>>} : \E b \in Bodies : input' = [kind |-> "head", headers |-> f, body |-> b]
Emulate16 ==
  /\ Waiting("lc3")
  /\ \/ \E a \in Words : input' \in {<<"words", a, Words>>, <<"multiples", a, 0 .. 8>>, <<"calls", a>>, <<"pointers", a>>}
     \/ \E t \in Typed : input' = <<"terminal", t>>
Emulate8 ==
  /\ Waiting("chip8")
  /\ \/ \E a \in Words : input' = <<"words", a, Words>>
     \/ \E b \in Bytes : input' \in {<<"bytes", b, Bytes>>, <<"dump", b>>, <<"numbers", b>>}
     \/ \E n \in 1 .. 17 : input' = <<"depth", n>>
     \/ \E rows \in Sprites : input' = <<"sprite", rows>>
     \/ \E keys \in Pressed : input' = <<"keys", keys>>
     \/ \E b \in Opcodes : input' = <<"code", b>>
Spell ==
  /\ Waiting("utf")
  /\ \/ \E c \in Boundary : input' = <<"rune", c>>
     \/ \E b \in Firsts : input' = <<"bytes", b, UpTo(3, Nexts)>>
     \/ \E r \in UpTo(3, Runes) : input' = <<"text", r, UpTo(2, Runes), Runes>>
     \/ \E b \in Found : input' = <<"find", b, Sought>>
     \/ \E n \in 1 .. 8 : input' = <<"table", n>>
     \/ \E n \in Blocks : input' = <<"runes", n>>
Parse ==
  /\ Waiting("json")
  /\ \/ \E v \in Jsons : input' = <<"value", v>>
     \/ \E a, b \in JsonSigns : input' = <<"signs", <<a, b>>, UpTo(3, JsonSigns)>>
     \/ \E a \in {"a", "b", "1"}, b \in JsonSigns :
          input' = <<"signs", <<"{", "a", ":", a, b>>, UpTo(3, JsonSigns \cup {"b"})>>
     \/ \E a, b \in {"a", "b"} :
          input' = <<"close", <<"{", a, ":", "1", ",", b>>, {<<":", "1">> \o t : t \in UpTo(1, JsonSigns)}>>
Decode ==
  /\ Waiting("bencode")
  /\ \/ \E v \in Bencodes : input' = <<"value", v>>
     \/ \E n \in 0 .. 7 : input' = <<"deep", n>>
     \/ \E a, b \in BencodeSigns : input' = <<"signs", <<a, b>>, UpTo(3, BencodeSigns)>>
     \/ \E info \in Singles : input' = <<"torrent", info>>
     \/ \E info \in Several : input' = <<"files", info>>
     \/ \E meta \in MetaOrders, inner \in InnerOrders :
          /\ meta = <<Announced, Described, Unknown>> \o SubSeq(meta, 4, 4) \/ inner = CHOOSE x \in InnerOrders : TRUE
          /\ input' \in {<<"fields", meta, f, TheInfo>> : f \in {inner, Append(inner, Unknown)}}
     \/ \E p, q \in PeersAnswered : input' = <<"answers", Answer(1, p), Answer(20, q)>>
Compress ==
  /\ Waiting("huffman")
  /\ \/ \E b \in 0 .. 255 : input' = <<"byte", b>>
     \/ \E bits \in UpTo(9, {0, 1}) : input' = <<"bits", bits>>
     \/ \E p \in Portions, r \in Readings, size \in {1, 4} : input' = <<"portions", p, r, size>>
     \/ \E t \in Texts : input' = <<"text", t>>
     \/ \E l \in Depths : input' = <<"lengths", l>>
Examined == input # <<>> /\ UNCHANGED <<machines, input>>

ProgramsNext ==
  \/ (UNCHANGED input /\ Che) \/ (UNCHANGED input /\ CheTest) \/ (UNCHANGED input /\ LZW)
  \/ (UNCHANGED input /\ Battleship) \/ (UNCHANGED input /\ WebServer) \/ (UNCHANGED input /\ TorrentList)
  \/ Search \/ Run \/ Read \/ Exchange \/ Emulate16 \/ Emulate8
  \/ Spell \/ Parse \/ Decode \/ Compress \/ Examined

(* Only Battleship is fair: its computer and its player go on playing.     *)
ProgramsSpec ==
  /\ ProgramsInit
  /\ [][ProgramsNext]_<<machines, input>>
  /\ WF_battleship(UNCHANGED input /\ Battleship)
-----------------------------------------------------------------------------
(* The inputs of the algorithms are judged as they are chosen.             *)
Given(p) == Chosen(p) /\ input # input'

(* A regular expression finds in each text what it stands for, a text of   *)
(* wisp is read as the expressions that it is written as, and a message of *)
(* HTTP arrives as it was sent, wherever the connection cuts it but between*)
(* a request's last two characters.  What is written as UTF-8, JSON,       *)
(* bencode, a torrent, or in a Huffman code, is read back from what is     *)
(* written, and nothing else is read.  What the code is known to do        *)
(* otherwise has a name where it is excepted: InLastLine of Http, Broken,  *)
(* BareKeys and Clones of Json, BehindTheNewline of Regexp.                *)
Matches(x) == \A t \in x[2] : R!MatchesAsWritten(x[1], t)
ReadAsWritten ==
  [][/\ Given("regexp") => Matches(input')
     /\ Given("wisp reader") => L!ReadsAsWritten(input'[1])
     /\ Given("http") => H!ReadsAsWritten(input')
     /\ Given("utf") => U!AsMeant(input')
     /\ Given("json") => J!AsMeant(input')
     /\ Given("bencode") => E!AsMeant(input')
     /\ Given("huffman") => F!AsMeant(input')]_input

(* A program of wisp does what its forms say, and the reference counts and *)
(* the bindings of symbols are in order when it ends.                      *)
LispIsMeant == [][Given("wisp") => L!RunsAsMeant(input')]_input

(* A program for an emulated machine computes what it is written for:      *)
(* numbers of two bytes are added and multiplied, routines return where    *)
(* they were called, what is stored is loaded, a sprite that is drawn twice*)
(* is gone, keys and characters are read in their order, and the listing of*)
(* a program is that program.  Excepted, in Differences of Chip8, is what  *)
(* disagrees with the code's own "VF = not borrow" (chip8.c:377): the flag *)
(* after SUB, and a difference that Borrows.                               *)
MachinesCompute ==
  [][/\ Given("lc3") => M16!Computes(input')
     /\ Given("chip8") => M8!Computes(input')]_input
=============================================================================
