----------------------------- MODULE Statements ------------------------------
(***************************************************************************)
(* What becomes of control flow: src/translator.rs turns the dialect's     *)
(* statements into C's, a switch over strings into a chain of ifs, and     *)
(* src/format_c.rs writes a switch whose cases do not fall through.        *)
(*                                                                         *)
(* A condition is answered by the next of a sequence of choices, and so is *)
(* the value of a switch if it is a call; the value of a variable stays.   *)
(* A run is what was done, in order, and how it ended.                     *)
(***************************************************************************)
EXTENDS Integers, Sequences, SequencesExt

Simple(kind) == [kind |-> kind]
Do(name) == [kind |-> "do", name |-> name]
If(body, else) == [kind |-> "if", body |-> body, else |-> else]
While(body) == [kind |-> "while", body |-> body]
For(body, bounded) == [kind |-> "for", body |-> body, bounded |-> bounded]
Case(values, body) == [values |-> values, body |-> body]
Switch(str, call, cases, default) ==
  [kind |-> "switch", str |-> str, call |-> call, cases |-> cases, default |-> default]

(* C's: an if that compares, and a switch of labels and statements.        *)
IfEqual(values, call, body, else) ==
  [kind |-> "if equal", values |-> values, call |-> call, body |-> body, else |-> else]
Labels(values) == [kind |-> "labels", values |-> values]
Block(body) == [kind |-> "block", body |-> body]
-----------------------------------------------------------------------------
RECURSIVE TrBody(_), SwitchstrElse(_, _, _)

(* mk_str_switch, with mk_switchstr_cond and mk_switchstr_else.            *)
SwitchstrElse(x, i, default) ==
  IF i > Len(x.cases) THEN default
  ELSE <<<<IfEqual(x.cases[i].values, x.call, TrBody(x.cases[i].body), SwitchstrElse(x, i + 1, default))>>>>
StrSwitch(x) ==
  SwitchstrElse(x, 1, [i \in DOMAIN x.default |-> TrBody(x.default[i])])[1][1]

(* mk_old_switch and fmt_switch.                                           *)
FmtSwitch_Falling(x) ==          \* a slip: nothing ends a case
  [kind |-> "c switch", call |-> x.call,
   items |-> FlattenSeq([i \in DOMAIN x.cases |-> <<Labels(x.cases[i].values), Block(TrBody(x.cases[i].body))>>])
             \o (IF x.default = <<>> THEN <<>> ELSE <<Simple("default"), Block(TrBody(x.default[1]))>>)]

FmtSwitch(x) ==
  [kind |-> "c switch", call |-> x.call,
   items |-> FlattenSeq([i \in DOMAIN x.cases |->
                           <<Labels(x.cases[i].values), Block(Append(TrBody(x.cases[i].body), Simple("break")))>>])
             \o (IF x.default = <<>> THEN <<>> ELSE <<Simple("default"), Block(TrBody(x.default[1]))>>)]

FormatStatement(x) ==
  CASE x.kind = "if" -> [x EXCEPT !.body = TrBody(@), !.else = [i \in DOMAIN @ |-> TrBody(@[i])]]
    [] x.kind \in {"while", "for"} -> [x EXCEPT !.body = TrBody(@)]
    [] x.kind = "switch" -> IF x.str THEN StrSwitch(x) ELSE FmtSwitch(x)
    [] x.kind \in {"do", "break", "continue", "return"} -> x

TrBody(body) == [i \in DOMAIN body |-> FormatStatement(body[i])]
-----------------------------------------------------------------------------
(* Runs, of both: the statements are C's, a switch is the dialect's.       *)
RECURSIVE Run(_, _), Step(_, _), Loop(_, _), Compare(_, _, _)

Begin(choices, variable) == [choices |-> choices, variable |-> variable, done |-> <<>>, out |-> "on", value |-> 0]
On(r) == r.out = "on"
Ask(r) == IF r.choices = <<>> THEN [r EXCEPT !.out = "waiting"]
          ELSE [r EXCEPT !.choices = Tail(@), !.value = Head(r.choices)]
Value(r, call) ==
  IF call THEN Ask([r EXCEPT !.done = Append(@, "call")]) ELSE [r EXCEPT !.value = r.variable]

Run(r, body) == FoldLeft(Step, r, body)
RunEither(r, x) ==
  CASE ~On(r) -> r
    [] On(r) /\ r.value = 1 -> Run(r, x.body)
    [] OTHER -> IF x.else = <<>> THEN r ELSE Run(r, x.else[1])

Leaves(r, out) == IF r.out = out THEN [r EXCEPT !.out = "on"] ELSE r

Loop(r, x) ==
  LET asked == Ask(r)
      turn == Leaves(Run(asked, x.body), "continue")
      acted == IF On(turn) /\ x.kind = "for" THEN [turn EXCEPT !.done = Append(@, "action")] ELSE turn
  IN  IF On(asked) /\ asked.value # 1 /\ (x.kind = "while" \/ x.bounded) THEN asked
      ELSE IF On(acted) THEN Loop(acted, x) ELSE Leaves(acted, "break")

(* strcmp after strcmp, the value being worked out for each.               *)
Compare(r, values, call) ==
  LET v == Value(r, call)
  IN  CASE values = <<>> -> [r EXCEPT !.value = 0]
        [] values # <<>> /\ ~On(v) -> v
        [] OTHER -> IF v.value = Head(values) THEN [v EXCEPT !.value = 1] ELSE Compare(v, Tail(values), call)

Matches(item, v) == item.kind = "labels" /\ Contains(item.values, v)
Entry(items, v) ==
  LET hits == {i \in DOMAIN items : Matches(items[i], v)}
      others == {i \in DOMAIN items : items[i].kind = "default"}
  IN  CASE hits # {} -> CHOOSE i \in hits : \A j \in hits : i <= j
        [] hits = {} /\ others # {} -> CHOOSE i \in others : TRUE
        [] OTHER -> Len(items) + 1

Step(r, x) ==
  CASE ~On(r) -> r
    [] On(r) /\ x.kind \in {"break", "continue", "return"} -> [r EXCEPT !.out = x.kind]
    [] On(r) /\ x.kind = "do" -> [r EXCEPT !.done = Append(@, x.name)]
    [] On(r) /\ x.kind = "if" -> RunEither(Ask(r), x)
    [] On(r) /\ x.kind \in {"while", "for"} -> Loop(r, x)
    [] On(r) /\ x.kind = "block" -> Run(r, x.body)
    [] On(r) /\ x.kind \in {"labels", "default"} -> r
    [] On(r) /\ x.kind = "if equal" -> RunEither(Compare(r, x.values, x.call), x)
    [] On(r) /\ x.kind = "c switch" ->
         LET v == Value(r, x.call)
         IN  IF On(v) THEN Leaves(Run(v, SubSeq(x.items, Entry(x.items, v.value), Len(x.items))), "break") ELSE v
    [] On(r) /\ x.kind = "switch" ->
         LET v == Value(r, x.call)
             cases == {i \in DOMAIN x.cases : Contains(x.cases[i].values, v.value)}
         IN  IF ~On(v) THEN v
             ELSE IF cases # {}
             THEN Leaves(Run(v, x.cases[CHOOSE i \in cases : \A j \in cases : i <= j].body), "break")
             ELSE IF x.default # <<>> THEN Leaves(Run(v, x.default[1]), "break") ELSE v

(* A break in a switch over strings leaves something else than the switch, *)
(* and a call that such a switch is over is made for every comparison.     *)
RECURSIVE Breaks(_), Differs(_)
Breaks(body) ==
  \E i \in DOMAIN body :
    LET x == body[i]
    IN  CASE x.kind = "break" -> TRUE
          [] x.kind = "if" -> Breaks(x.body) \/ \E j \in DOMAIN x.else : Breaks(x.else[j])
          [] x.kind = "switch" -> x.str /\ (\/ \E j \in DOMAIN x.cases : Breaks(x.cases[j].body)
                                            \/ \E j \in DOMAIN x.default : Breaks(x.default[j]))
          [] OTHER -> FALSE
Differs(body) ==
  \E i \in DOMAIN body :
    LET x == body[i]
    IN  CASE x.kind = "if" -> Differs(x.body) \/ \E j \in DOMAIN x.else : Differs(x.else[j])
          [] x.kind \in {"while", "for"} -> Differs(x.body)
          [] x.kind = "switch" -> \/ x.str /\ (x.call \/ Breaks(<<x>>))
                                  \/ \E j \in DOMAIN x.cases : Differs(x.cases[j].body)
                                  \/ \E j \in DOMAIN x.default : Differs(x.default[j])
          [] OTHER -> FALSE

(* A body and its C do the same under these answers.                       *)
SameRun(body, choices, variable) ==
  LET a == Run(Begin(choices, variable), body)
      b == Run(Begin(choices, variable), TrBody(body))
  IN  <<a.done, a.out, a.choices>> = <<b.done, b.out, b.choices>>
=============================================================================
