-------------------------------- MODULE Regexp --------------------------------
(* prog/libregexp9/regexp9.c: a regular expression is compiled to the      *)
(* instructions of a machine by an operator precedence parser, and the     *)
(* machine is run over a text with a list of threads for each character.   *)
(* A character is a string; the NUL that ends a text is "", and Code gives *)
(* the order that the ranges of a class go by.                             *)
EXTENDS Integers, SequencesExt

Code ==                 \* some characters, each with its number
  [c \in {"\n", "-", "a", "b", "c"} |-> CASE c = "\n" -> 10 [] c = "-" -> 45 [] c = "a" -> 97 [] c = "b" -> 98 [] c = "c" -> 99]
NStack == 20            \* NSTACK, of the operands and of the operators
NSubExp == 32           \* NSUBEXP
NClasses == 16          \* MAX_CLASSES
NSpans == 32            \* half the length of Reclass.spans
ListSize == 10          \* LISTSIZE, the threads of a run
BigListSize == 25 * ListSize

RECURSIVE Lex(_), Spans(_, _), EvalUntil(_, _), SkipNops(_, _), RunInst(_, _, _, _), RunList(_, _, _, _),
          RunText(_, _, _), Substitute(_, _, _), Units(_), EndsOf(_, _, _), Closure(_, _, _)

NUL == ""
Token(type, arg) == [type |-> type, arg |-> arg]
Strength ==
  [BOTTOM |-> -1, START |-> 0, RBRA |-> 1, LBRA |-> 2, OR |-> 3, CAT |-> 4, STAR |-> 5, PLUS |-> 6, QUEST |-> 7]
Operators == {"RBRA", "LBRA", "OR", "CAT", "STAR", "PLUS", "QUEST"}
TypeOfChar ==
  [c \in {"*", "?", "+", "|", ".", "(", ")", "^", "$"} |->
     CASE c = "*" -> "STAR" [] c = "?" -> "QUEST" [] c = "+" -> "PLUS" [] c = "|" -> "OR" [] c = "." -> "ANY"
       [] c = "(" -> "LBRA" [] c = ")" -> "RBRA" [] c = "^" -> "BOL" [] c = "$" -> "EOL"]

-----------------------------------------------------------------------------
(* Reading the expression.                                                 *)

(* nextc: a character, whether a backslash is before it, and what follows. *)
Nextc(s) ==
  CASE s = <<>> -> [c |-> NUL, quoted |-> FALSE, rest |-> <<>>]
    [] s # <<>> /\ s[1] # "\\" -> [c |-> s[1], quoted |-> FALSE, rest |-> Tail(s)]
    [] Len(s) = 1 /\ s[1] = "\\" -> [c |-> NUL, quoted |-> TRUE, rest |-> <<>>]
    [] Len(s) > 1 /\ s[1] = "\\" -> [c |-> s[2], quoted |-> TRUE, rest |-> Tail(Tail(s))]

(* The spans of a class as they are written, up to the bracket that ends   *)
(* it; a hyphen moves the end of the last span.                            *)
Spans(s, spans) ==
  LET n == Nextc(s)
      m == Nextc(n.rest)
      Is(r, c) == ~r.quoted /\ r.c = c
  IN  IF Len(spans) >= NSpans \/ n.c = NUL THEN [ok |-> FALSE]
      ELSE CASE Is(n, "]") -> [ok |-> TRUE, spans |-> spans, rest |-> n.rest]
             [] Is(n, "-") -> IF spans = <<>> \/ Is(m, "]") \/ m.c = NUL THEN [ok |-> FALSE]
                              ELSE Spans(m.rest, [spans EXCEPT ![Len(spans)][2] = Code[m.c]])
             [] OTHER -> Spans(n.rest, Append(spans, <<Code[n.c], Code[n.c]>>))

Merge_Ends(spans) ==        \* a slip: a span that ends within the last one cuts it short
  LET Add(merged, p) ==
        IF merged # <<>> /\ p[1] <= Last(merged)[2] + 1
          THEN [merged EXCEPT ![Len(merged)][2] = p[2]]
          ELSE Append(merged, p)
  IN  FoldLeft(Add, <<>>, SortSeq(spans, LAMBDA p, q : p[1] < q[1]))

(* bldcclass sorts the spans and joins those that overlap or touch.        *)
Merge(spans) ==
  LET Add(merged, p) ==
        IF merged # <<>> /\ p[1] <= Last(merged)[2] + 1
          THEN IF p[2] >= Last(merged)[2] THEN [merged EXCEPT ![Len(merged)][2] = p[2]] ELSE merged
          ELSE Append(merged, p)
  IN  FoldLeft(Add, <<>>, SortSeq(spans, LAMBDA p, q : p[1] < q[1]))

(* A negated class does not match a newline.                               *)
Bldcclass(s) ==
  LET n == Nextc(s)
      negated == ~n.quoted /\ n.c = "^"
      r == IF negated THEN Spans(n.rest, <<<<Code["\n"], Code["\n"]>>>>) ELSE Spans(s, <<>>)
  IN  [type |-> IF negated THEN "NCCLASS" ELSE "CCLASS"] @@ r

(* lex: the tokens of the expression, up to END or to one that is          *)
(* malformed.                                                              *)
Lex(s) ==
  LET n == Nextc(s)
      k == Bldcclass(n.rest)
  IN  CASE n.c = NUL -> <<>>
        [] n.c # NUL /\ n.quoted -> <<Token("RUNE", n.c)>> \o Lex(n.rest)
        [] ~n.quoted /\ n.c \in DOMAIN TypeOfChar -> <<Token(TypeOfChar[n.c], NUL)>> \o Lex(n.rest)
        [] ~n.quoted /\ n.c = "[" /\ ~k.ok -> <<Token("malformed", NUL)>>
        [] ~n.quoted /\ n.c = "[" /\ k.ok -> <<Token(k.type, Merge(k.spans))>> \o Lex(k.rest)
        [] OTHER -> <<Token("RUNE", n.c)>> \o Lex(n.rest)

-----------------------------------------------------------------------------
(* The compiler: operands are pieces of the program, with their first and  *)
(* last instruction.                                                       *)

Reprog == [inst |-> <<>>, operands |-> <<>>, operators |-> <<>>, lastwasand |-> FALSE, nbra |-> 0, subid |-> 0, ok |-> TRUE]

Rcerror(c) == [c EXCEPT !.ok = FALSE]
Pushand(c, first, last) ==
  IF Len(c.operands) >= NStack THEN Rcerror(c) ELSE [c EXCEPT !.operands = Append(@, <<first, last>>)]
Pushator(c, op) ==
  IF Len(c.operators) >= NStack THEN Rcerror(c) ELSE [c EXCEPT !.operators = Append(@, [op |-> op, subid |-> c.subid])]
Newinst(c, type, arg, next) == [c EXCEPT !.inst = Append(@, [type |-> type, arg |-> arg, next |-> next])]
Link(c, from, to) == [c EXCEPT !.inst[from].next = to]
Popand(c, n) == [c EXCEPT !.operands = SubSeq(@, 1, Len(@) - n)]

(* What evaluntil does with an operator it pops: op2 is the operand on     *)
(* top, op1 the one below it, and i the next free instruction.             *)
Evaluate(c, top) ==
  LET k == Len(c.operands)
      i == Len(c.inst) + 1
      op2 == c.operands[k]
      op1 == c.operands[k - 1]
      arity == IF top.op \in {"OR", "CAT"} THEN 2 ELSE 1
      d == Popand(c, arity)
  IN  IF k < arity THEN Rcerror(c)
      ELSE CASE top.op = "LBRA" ->
                  Pushand(Newinst(Newinst(Link(d, op2[2], i), "RBRA", top.subid, 0), "LBRA", top.subid, op2[1]), i + 1, i)
             [] top.op = "OR" ->
                  Pushand(Newinst(Newinst(Link(Link(d, op2[2], i), op1[2], i), "NOP", 0, 0), "OR", op1[1], op2[1]), i + 1, i)
             [] top.op = "CAT" -> Pushand(Link(d, op1[2], op2[1]), op1[1], op2[2])
             [] top.op = "STAR" -> Pushand(Newinst(Link(d, op2[2], i), "OR", op2[1], 0), i, i)
             [] top.op = "PLUS" -> Pushand(Newinst(Link(d, op2[2], i), "OR", op2[1], 0), op2[1], i)
             [] top.op = "QUEST" ->
                  Pushand(Newinst(Newinst(Link(d, op2[2], i + 1), "OR", op2[1], i + 1), "NOP", 0, 0), i, i + 1)
             [] OTHER -> Rcerror(c)

(* evaluntil: the operators that bind at least as tightly as pri; a right  *)
(* bracket evaluates down to its left one.                                 *)
EvalUntil(c, pri) ==
  IF ~c.ok \/ c.operators = <<>> THEN Rcerror(c)
  ELSE LET top == Last(c.operators)
           d == Evaluate([c EXCEPT !.operators = Front(@)], top)
       IN  IF pri # "RBRA" /\ Strength[top.op] < Strength[pri] THEN c
           ELSE IF top.op = "LBRA" THEN d ELSE EvalUntil(d, pri)

Concatenate(c) ==
  IF c.lastwasand THEN [Pushator(EvalUntil(c, "CAT"), "CAT") EXCEPT !.lastwasand = FALSE] ELSE c

Operand(c, t) ==
  LET d == Newinst(Concatenate(c), t.type, t.arg, 0)
  IN  [Pushand(d, Len(d.inst), Len(d.inst)) EXCEPT !.lastwasand = TRUE]

Operator(c, op) ==
  CASE op = "LBRA" ->
         LET d == [c EXCEPT !.subid = @ + 1, !.nbra = @ + 1]
         IN  IF d.subid >= NSubExp THEN Rcerror(d) ELSE [Pushator(Concatenate(d), op) EXCEPT !.lastwasand = FALSE]
    [] op = "RBRA" ->
         IF c.nbra = 0 THEN Rcerror(c) ELSE [EvalUntil([c EXCEPT !.nbra = @ - 1], op) EXCEPT !.lastwasand = TRUE]
    [] OTHER -> [Pushator(EvalUntil(c, op), op) EXCEPT !.lastwasand = op # "OR"]

(* optimize: no instruction leads to a NOP.                                *)
SkipNops(inst, i) == IF i # 0 /\ inst[i].type = "NOP" THEN SkipNops(inst, inst[i].next) ELSE i
Optimize(inst) == [i \in DOMAIN inst |-> [inst[i] EXCEPT !.next = SkipNops(inst, @)]]

(* regcomp: ok is FALSE where it has called regerror, which ends the       *)
(* program.                                                                *)
Regcomp(s) ==
  LET tokens == Lex(s)
      Take(c, t) ==
        CASE ~c.ok -> c
          [] c.ok /\ t.type = "malformed" -> Rcerror(c)
          [] c.ok /\ t.type \in Operators -> Operator(c, t.type)
          [] OTHER -> Operand(c, t)
      read == FoldLeft(Take, Pushator(Reprog, "BOTTOM"), tokens)
      closed == EvalUntil(read, "START")
      ended == EvalUntil(Operand(closed, Token("END", NUL)), "START")
      classes == Len(SelectSeq(tokens, LAMBDA t : t.type \in {"CCLASS", "NCCLASS"}))
  IN  IF ~read.ok \/ ~closed.ok \/ ~ended.ok \/ ended.nbra # 0 \/ classes > NClasses
        THEN [ok |-> FALSE]
        ELSE [ok |-> TRUE, start |-> Last(ended.operands)[1], inst |-> Optimize(ended.inst), subs |-> ended.subid]

-----------------------------------------------------------------------------
(* The machine. A thread is an instruction and the subexpressions matched  *)
(* so far; 0 is no position.                                               *)

NoMatch(prog) == [i \in 0 .. prog.subs |-> <<0, 0>>]
At(text, s) == IF s <= Len(text) THEN text[s] ELSE NUL
LineBegins(text, s) == s = 1 \/ text[s - 1] = "\n"
LineEnds(text, s) == At(text, s) \in {NUL, "\n"}
InClass(spans, c) == LET n == IF c = NUL THEN 0 ELSE Code[c] IN \E i \in DOMAIN spans : spans[i][1] <= n /\ n <= spans[i][2]

Renewthread_Last(list, from, i, se, size) ==   \* a slip: the thread that came last stays
  LET same == {k \in from .. Len(list) : list[k].inst = i}
  IN  IF same # {} THEN [list |-> [list EXCEPT ![CHOOSE k \in same : TRUE].se = se], full |-> FALSE]
      ELSE [list |-> Append(list, [inst |-> i, se |-> se]), full |-> Len(list) + 1 = size - 2]

(* _renewthread, _renewemptythread: one thread for an instruction, the one *)
(* whose match begins first. A list is full two before its end.            *)
Renewthread(list, from, i, se, size) ==
  LET same == {k \in from .. Len(list) : list[k].inst = i}
  IN  IF same # {}
        THEN [list |-> [k \in DOMAIN list |-> IF k \in same /\ se[0][1] < list[k].se[0][1]
                                                THEN [list[k] EXCEPT !.se = se] ELSE list[k]],
              full |-> FALSE]
        ELSE [list |-> Append(list, [inst |-> i, se |-> se]), full |-> Len(list) + 1 = size - 2]

(* _renewmatch: the leftmost match, and of those the longest.              *)
Renewmatch(mp, se) ==
  IF mp[0][1] = 0 \/ se[0][1] < mp[0][1] \/ (se[0][1] = mp[0][1] /\ se[0][2] > mp[0][2]) THEN se ELSE mp

(* One thread, the k-th of this list, at one character: w has this list,   *)
(* the next one and the match.                                             *)
RunInst(j, w, k, i) ==
  LET x == j.prog.inst[i]
      c == At(j.text, w.s)
      se == w.tl[k].se
      Step == LET r == Renewthread(w.nl, 1, x.next, se, w.size) IN [w EXCEPT !.nl = r.list, !.full = r.full]
      Fork == LET r == Renewthread(w.tl, k, x.arg, se, w.size) IN [w EXCEPT !.tl = r.list, !.full = r.full]
      Goes(v) == RunInst(j, v, k, x.next)
  IN  CASE x.type = "RUNE" -> IF x.arg = c THEN Step ELSE w
        [] x.type = "LBRA" -> Goes([w EXCEPT !.tl[k].se[x.arg][1] = w.s])
        [] x.type = "RBRA" -> Goes([w EXCEPT !.tl[k].se[x.arg][2] = w.s])
        [] x.type = "ANY" -> IF c # "\n" THEN Step ELSE w
        [] x.type = "BOL" -> IF LineBegins(j.text, w.s) THEN Goes(w) ELSE w
        [] x.type = "EOL" -> IF LineEnds(j.text, w.s) THEN Goes(w) ELSE w
        [] x.type = "CCLASS" -> IF InClass(x.arg, c) THEN Step ELSE w
        [] x.type = "NCCLASS" -> IF ~InClass(x.arg, c) THEN Step ELSE w
        [] x.type = "OR" -> IF Fork.full THEN Fork ELSE Goes(Fork)
        [] x.type = "END" -> [w EXCEPT !.match = TRUE, !.mp = Renewmatch(@, [se EXCEPT ![0][2] = w.s])]

RunList(j, w, k, size) ==
  IF w.full \/ k > Len(w.tl) THEN w ELSE RunList(j, RunInst(j, w, k, w.tl[k].inst), k + 1, size)

(* The fast check: where the next match can begin when no thread is left;  *)
(* 0 when it cannot begin.                                                 *)
Skip(j, s) ==
  LET from(c) == {t \in s .. Len(j.text) : j.text[t] = c}
      first(set) == CHOOSE t \in set : \A u \in set : t <= u
  IN  CASE j.start = "RUNE" -> IF from(j.startchar) = {} THEN 0 ELSE first(from(j.startchar))
        [] j.start = "BOL" /\ s = 1 -> s
        [] j.start = "BOL" /\ s # 1 -> IF from("\n") = {} THEN 0 ELSE first(from("\n")) + 1
        [] OTHER -> s

(* regexec1: the machine at every character, the NUL included. A match     *)
(* that was found ends the search for later ones.                          *)
RunText(j, w, check) ==
  LET s == IF check THEN Skip(j, w.s) ELSE w.s
      first == [NoMatch(j.prog) EXCEPT ![0][1] = s]
      tl == IF w.match /\ ~j.wide THEN w.nl
            ELSE Renewthread(w.nl, 1, j.prog.start, first, w.size).list
      v == RunList(j, [w EXCEPT !.tl = tl, !.nl = <<>>, !.s = s], 1, w.size)
  IN  CASE s = 0 -> w
        [] s # 0 /\ (v.full \/ s > Len(j.text)) -> v
        [] OTHER -> RunText(j, [v EXCEPT !.s = s + 1], j.checks /\ v.nl = <<>>)

Run(prog, text, wide, size) ==
  LET x == prog.inst[prog.start]
      start == IF x.type \in {"RUNE", "BOL"} THEN x.type ELSE ""
      j == [prog |-> prog, text |-> text, wide |-> wide, start |-> start,
            startchar |-> IF start = "RUNE" THEN x.arg ELSE NUL,
            checks |-> IF wide THEN start = "RUNE" ELSE start # ""]
      w == [s |-> 1, tl |-> <<>>, nl |-> <<>>, match |-> FALSE, mp |-> NoMatch(prog), full |-> FALSE, size |-> size]
  IN  RunText(j, w, j.checks)

(* regexec and rregexec, on characters and on runes: the lists are small   *)
(* at first, and larger when those have been full.                         *)
Regexec(prog, text) ==
  LET small == Run(prog, text, FALSE, ListSize)
  IN  IF small.full THEN Run(prog, text, FALSE, BigListSize) ELSE small
Rregexec(prog, text) ==
  LET small == Run(prog, text, TRUE, ListSize)
  IN  IF small.full THEN Run(prog, text, TRUE, 5 * ListSize) ELSE small

(* regsub: & and \0 to \9 stand for what was matched; the copy is cut to   *)
(* dlen - 1 characters.                                                    *)
Digit == [c \in {"0", "1", "2", "3"} |-> CASE c = "0" -> 0 [] c = "1" -> 1 [] c = "2" -> 2 [] c = "3" -> 3]
Matched(text, mp, i) ==
  IF i \in DOMAIN mp /\ mp[i][1] # 0 THEN SubSeq(text, mp[i][1], mp[i][2] - 1) ELSE <<>>
Substitute(sp, text, mp) ==
  CASE sp = <<>> \/ sp = <<"\\">> -> <<>>
    [] Len(sp) > 1 /\ sp[1] = "\\" ->
         (IF sp[2] \in DOMAIN Digit THEN Matched(text, mp, Digit[sp[2]]) ELSE <<sp[2]>>)
         \o Substitute(SubSeq(sp, 3, Len(sp)), text, mp)
    [] sp # <<>> /\ sp[1] = "&" -> Matched(text, mp, 0) \o Substitute(Tail(sp), text, mp)
    [] OTHER -> <<sp[1]>> \o Substitute(Tail(sp), text, mp)
Regsub(sp, text, mp, dlen) == LET r == Substitute(sp, text, mp) IN SubSeq(r, 1, IF Len(r) < dlen THEN Len(r) ELSE dlen - 1)

-----------------------------------------------------------------------------
(* What an expression means, by the grammar at the head of the file        *)
(* (regexp9.c:26-71). A unit is an operator or a set of characters.        *)

Among(chars) == [op |-> "", chars |-> chars]
Members(body) ==
  {c \in DOMAIN Code : \E i \in DOMAIN body :
     \/ body[i] = c /\ c # "-"
     \/ i + 2 \in DOMAIN body /\ body[i + 1] = "-" /\ Code[body[i]] <= Code[c] /\ Code[c] <= Code[body[i + 2]]}
Units(s) ==
  CASE s = <<>> -> <<>>
    [] s # <<>> /\ s[1] = "\\" -> <<Among({s[2]})>> \o Units(SubSeq(s, 3, Len(s)))
    [] s # <<>> /\ s[1] = "." -> <<Among(DOMAIN Code \ {"\n"})>> \o Units(Tail(s))
    [] s # <<>> /\ s[1] = "[" ->
         LET close == SelectInSeq(s, LAMBDA c : c = "]")
             body == SubSeq(s, 2, close - 1)
             set == IF body[1] = "^" THEN DOMAIN Code \ (Members(Tail(body)) \cup {"\n"}) ELSE Members(body)
         IN  <<Among(set)>> \o Units(SubSeq(s, close + 1, Len(s)))
    [] s # <<>> /\ s[1] \in DOMAIN TypeOfChar \ {"."} -> <<[op |-> s[1], chars |-> {}]>> \o Units(Tail(s))
    [] OTHER -> <<Among({s[1]})>> \o Units(Tail(s))

Reps == {"*", "+", "?"}
Opened(u, k) == Cardinality({i \in 1 .. k : u[i].op = "("}) - Cardinality({i \in 1 .. k : u[i].op = ")"})
Partner(u, k) == CHOOSE m \in k .. Len(u) : u[m].op = ")" /\ Opened(u, m) = Opened(u, k) - 1
                                            /\ \A i \in k .. m - 1 : Opened(u, i) >= Opened(u, k)
Valid(u) ==
  /\ \A k \in DOMAIN u : Opened(u, k) >= 0
  /\ u # <<>> => Opened(u, Len(u)) = 0 /\ u[1].op \notin Reps \cup {"|"} /\ u[Len(u)].op # "|"
  /\ \A k \in 1 .. Len(u) - 1 : u[k].op \in {"(", "|"} => u[k + 1].op \notin Reps \cup {"|", ")"}

(* The ends of the matches of u that begin at i.                           *)
Closure(u, text, ends) ==
  LET more == ends \cup UNION {EndsOf(u, text, i) : i \in ends}
  IN  IF more = ends THEN ends ELSE Closure(u, text, more)
EndsOf(u, text, i) ==
  LET n == Len(u)
      bars == {k \in DOMAIN u : u[k].op = "|" /\ Opened(u, k) = 0}
      Left(k) == SubSeq(u, 1, k)
      heads == {k \in 1 .. n - 1 : Opened(u, k) = 0 /\ u[k + 1].op \notin Reps}
      head == CHOOSE k \in heads : \A m \in heads : k <= m
  IN  CASE n = 0 -> {i}
        [] bars # {} -> LET k == CHOOSE k \in bars : TRUE
                        IN  EndsOf(Left(k - 1), text, i) \cup EndsOf(SubSeq(u, k + 1, n), text, i)
        [] bars = {} /\ heads # {} -> UNION {EndsOf(SubSeq(u, head + 1, n), text, j) : j \in EndsOf(Left(head), text, i)}
        [] bars = {} /\ heads = {} ->
             CASE u[n].op = "*" -> Closure(Left(n - 1), text, {i})
               [] u[n].op = "+" -> Closure(Left(n - 1), text, EndsOf(Left(n - 1), text, i))
               [] u[n].op = "?" -> {i} \cup EndsOf(Left(n - 1), text, i)
               [] u[n].op = ")" -> EndsOf(SubSeq(u, 2, n - 1), text, i)
               [] u[n].op = "^" -> IF LineBegins(text, i) THEN {i} ELSE {}
               [] u[n].op = "$" -> IF LineEnds(text, i) THEN {i} ELSE {}
               [] OTHER -> IF i <= Len(text) /\ text[i] \in u[n].chars THEN {i + 1} ELSE {}

(* The i-th left bracket of the expression opens the i-th subexpression.   *)
Subexpression(u, i) ==
  LET k == CHOOSE k \in DOMAIN u : u[k].op = "(" /\ Cardinality({m \in 1 .. k : u[m].op = "("}) = i
  IN  SubSeq(u, k + 1, Partner(u, k) - 1)

(* The leftmost of the matches is found, and of those the longest; what a  *)
(* subexpression has matched lies within it and does match it. What        *)
(* repeats something that can be empty may put itself on the list again    *)
(* and again, until the list is full.                                      *)
RepeatsNothing(u) ==
  \E k \in DOMAIN u : /\ u[k].op \in {"*", "+"}
                      /\ \/ u[k - 1].op \in Reps \cup {"^", "$", ")"}
                         \/ k < Len(u) /\ u[k + 1].op \in Reps
Finds(r, u, text) ==
  LET starts == {i \in 1 .. Len(text) + 1 : EndsOf(u, text, i) # {}}
      whole == r.mp[0]
  IN  /\ r.full => RepeatsNothing(u)
      /\ ~r.full => r.match = (starts # {})
      /\ ~r.full /\ r.match =>
           /\ whole[1] \in starts /\ \A i \in starts : whole[1] <= i
           /\ whole[2] \in EndsOf(u, text, whole[1]) /\ \A j \in EndsOf(u, text, whole[1]) : j <= whole[2]
           /\ \A i \in DOMAIN r.mp \ {0} : r.mp[i] # <<0, 0>> =>
                /\ whole[1] <= r.mp[i][1] /\ r.mp[i][2] <= whole[2]
                /\ r.mp[i][2] \in EndsOf(Subexpression(u, i), text, r.mp[i][1])
           /\ Regsub(<<"<", "&", "\\", "1", ">">>, text, r.mp, 2 * Len(text) + 3)
                = <<"<">> \o SubSeq(text, whole[1], whole[2] - 1) \o Matched(text, r.mp, 1) \o <<">">>

(* ^ "matches the beginning of a line" (regexp9.c:59), but regexec on bytes*)
(* looks for the next line behind a newline that it is still to read: a    *)
(* line that begins where it has just arrived is stepped over. What begins *)
(* with ^ finds a match of its first line, or of some other.               *)
BehindTheNewline(s, text) == s # <<>> /\ s[1] = "^" /\ "\n" \in Range(text)
FindsSomeLine(r, u, text) ==
  LET whole == r.mp[0]
  IN  /\ ~r.full /\ EndsOf(u, text, 1) # {} => r.match /\ whole[1] = 1
      /\ ~r.full /\ r.match => /\ whole[2] \in EndsOf(u, text, whole[1])
                               /\ \A j \in EndsOf(u, text, whole[1]) : j <= whole[2]

(* An expression compiles if the grammar has it, and finds its match in    *)
(* the text.                                                               *)
MatchesAsWritten(s, text) ==
  LET prog == Regcomp(s)
      u == Units(s)
      bytes == Regexec(prog, text)
  IN  /\ prog.ok = Valid(u)
      /\ prog.ok => /\ Finds(Rregexec(prog, text), u, text)
                    /\ IF BehindTheNewline(s, text) THEN FindsSomeLine(bytes, u, text) ELSE Finds(bytes, u, text)
=============================================================================
