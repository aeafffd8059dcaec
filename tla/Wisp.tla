-------------------------------- MODULE Wisp ---------------------------------
(* prog/wisp/eval.c: the evaluator of a lisp with dynamic scoping and      *)
(* counted references. A value is the number of an object in the heap;     *)
(* symbols are never released and keep a stack of values. A world w is     *)
(* the heap with the globals of eval.c; w.r is the value a function has    *)
(* returned. Where the code reads what is no cons, or goes on with what it *)
(* has released, anything may happen: w.undef.                             *)
EXTENDS Integers, SequencesExt

RECURSIVE Release(_, _), Eval(_, _), Build(_, _), Show(_, _), EvalList(_, _), EvalBody(_, _), AssignArgs(_, _, _, _, _, _), Unassign(_, _), Call(_, _, _),
          LetBind(_, _, _, _), And(_, _, _), Or(_, _), Cond(_, _), While(_, _, _, _)

Specials == {"and", "or", "quote", "lambda", "defun", "defmacro", "if", "progn", "let", "while", "cond", "catch"}
Cfuncs ==
  {"+", "*", "-", "/", "%", "=", "<", "<=", ">", ">=", "apply", "car", "cdr", "list", "not", "eval", "print", "cons",
   "set", "value", "symbol-name", "concat2", "eq", "eql", "nullp", "funcp", "listp", "symbolp", "stringp", "numberp",
   "integerp", "floatp", "vectorp", "throw", "vset", "vget", "vlength", "make-vector", "vconcat2", "vsub", "refcount",
   "eval-depth", "max-eval-depth", "exit"}
Errors ==
  {"index-out-of-bounds", "wisp-error", "void-function", "wrong-number-of-arguments", "wrong-type-argument",
   "improper-list", "improper-list-ending", "bad-function-form", "bad-let-form", "bad-form", "max-eval-depth", "macro",
   "lambda", "&rest", "&optional", "vfunc", "t", "nil"}
InSomeOrder(set) == FoldSet(LAMBDA x, seq : Append(seq, x), <<>>, set)
Names == InSomeOrder(Specials \cup Cfuncs \cup Errors)
Sym == [s \in Range(Names) |-> CHOOSE i \in DOMAIN Names : Names[i] = s]

NIL == Sym["nil"]
T == Sym["t"]
ErrSymbol == Sym["wisp-error"]
Truth(b) == IF b THEN T ELSE NIL
Many == 1000

SymStack == 8            \* the values a symbol has room for
MaxDepth == 20000        \* max_stack_depth, which a program may change

(* How many arguments the functions that check this take.                  *)
Arity ==
  [s \in {"quote", "car", "cdr", "not", "print", "value", "symbol-name", "nullp", "funcp", "listp", "symbolp", "stringp",
          "numberp", "integerp", "floatp", "vectorp", "vlength", "refcount"} |-> <<1, 1>>]
  @@ [s \in {"apply", "cons", "set", "concat2", "eq", "eql", "vget", "make-vector", "vconcat2"} |-> <<2, 2>>]
  @@ [s \in {"if", "/", "=", "<", "<=", ">", ">=", "vsub"} |-> <<2, Many>>]
  @@ [s \in {"while"} |-> <<1, Many>>] @@ [s \in {"vset"} |-> <<3, 3>>]
  @@ [s \in {"max-eval-depth", "exit"} |-> <<0, 1>>] @@ [s \in {"eval-depth"} |-> <<0, 0>>]

Complaint(s) ==
  CASE s = "if" -> "wrong-number-of-arguments" [] s = "/" -> "div" [] s \in {"=", "<", "<=", ">", ">="} -> "compare-func"
    [] s = "not" -> "nullp" [] s = "concat2" -> "concat" [] s = "vsub" -> "subv" [] OTHER -> s

(* wisp_init: every name has its symbol, and the names of functions their  *)
(* functions for values.                                                   *)
Init ==
  LET n == Len(Names)
      functions == InSomeOrder(Specials \cup Cfuncs)
      Initial(s) == IF s \in Specials \cup Cfuncs THEN n + (CHOOSE i \in DOMAIN functions : functions[i] = s)
                    ELSE IF s \in {"t", "wisp-error"} THEN Sym[s] ELSE NIL
  IN  [heap |-> [i \in 1 .. n |-> [type |-> "SYMBOL", name |-> Names[i], refs |-> 1, vals |-> <<Initial(Names[i])>>]]
                \o [i \in DOMAIN functions |->
                      [type |-> IF functions[i] \in Specials THEN "SPECIAL" ELSE "CFUNC", fval |-> functions[i], refs |-> 1]],
       symbols |-> Sym, depth |-> 0, max |-> MaxDepth, thrown |-> NIL, attach |-> NIL, r |-> NIL, out |-> <<>>,
       undef |-> FALSE, exited |-> FALSE, over |-> FALSE]

-----------------------------------------------------------------------------
(* Objects and references.                                                 *)

Type(w, o) == w.heap[o].type
Iscons(w, o) == Type(w, o) = "CONS"
Islist(w, o) == Iscons(w, o) \/ o = NIL
Isnumber(w, o) == Type(w, o) \in {"INT", "FLOAT"}
Car(w, o) == w.heap[o].car
Cdr(w, o) == w.heap[o].cdr
Isfunc(w, o) == Type(w, o) \in {"CFUNC", "SPECIAL"} \/ (Iscons(w, o) /\ Car(w, o) \in {Sym["lambda"], Sym["macro"]})

Returns(w, o) == [w EXCEPT !.r = o]
Undefined(w) == [w EXCEPT !.undef = TRUE]
Stopped(w) == w.undef \/ w.exited
Failed(w) == w.r = ErrSymbol \/ Stopped(w)
Increfs(w, o) == [w EXCEPT !.heap[o].refs = @ + 1, !.over = @ \/ w.heap[o].refs = 0]
Gives(w, o) == Returns(Increfs(w, o), o)
Throw(w, to, ao) == [w EXCEPT !.thrown = to, !.attach = ao, !.r = ErrSymbol]
Throws(w, to, ao) == Throw(Increfs(w, ao), Sym[to], ao)     \* THROW (to, increfs (ao))
New(w, x) == [w EXCEPT !.heap = Append(@, x), !.r = Len(w.heap) + 1]
NewCons(w, x, rest) == New(w, [type |-> "CONS", refs |-> 1, car |-> x, cdr |-> rest])
NewInt(w, n) == New(w, [type |-> "INT", refs |-> 1, num |-> n])
NewVec(w, items) == New(FoldLeft(Increfs, w, items), [type |-> "VECTOR", refs |-> 1, v |-> items])

Children(x) == CASE x.type = "CONS" -> <<x.car, x.cdr>> [] x.type = "VECTOR" -> x.v [] OTHER -> <<>>
Release(w, o) ==
  LET x == w.heap[o]
      v == [w EXCEPT !.heap[o].refs = @ - 1]
  IN  CASE x.type = "SYMBOL" -> w
        [] x.type # "SYMBOL" /\ x.refs = 0 -> [w EXCEPT !.over = TRUE]
        [] x.type # "SYMBOL" /\ x.refs = 1 -> FoldLeft(Release, v, Children(x))
        [] OTHER -> v

(* symbol: the object of a name, made when the name is first met.          *)
Symbol(w, name) ==
  LET o == New(w, [type |-> "SYMBOL", name |-> name, refs |-> 1, vals |-> <<NIL>>])
  IN  IF name \in DOMAIN w.symbols THEN Returns(w, w.symbols[name]) ELSE [o EXCEPT !.symbols = @ @@ (name :> o.r)]

Value(w, s) == Last(w.heap[s].vals)
SetValue(w, s, o) ==
  LET v == Increfs(Release(w, Value(w, s)), o) IN [v EXCEPT !.heap[s].vals[Len(w.heap[s].vals)] = o]
Sympush(w, s, o) ==
  IF Len(w.heap[s].vals) = SymStack THEN Undefined(w) ELSE [Increfs(w, o) EXCEPT !.heap[s].vals = Append(@, o)]
Sympop(w, s) == [Release(w, Value(w, s)) EXCEPT !.heap[s].vals = Front(@)]

(* The items of a list; Proper if it ends with nil.                        *)
Items(w, lst) ==
  LET from[o \in DOMAIN w.heap] == IF Iscons(w, o) THEN <<Car(w, o)>> \o from[Cdr(w, o)] ELSE <<>> IN from[lst]
Proper(w, lst) ==
  LET ends[o \in DOMAIN w.heap] == IF Iscons(w, o) THEN ends[Cdr(w, o)] ELSE o = NIL IN ends[lst]

(* req_length, reqm_length and reqx_length look no further than they must. *)
Require(w, lst, thr, lo, hi) ==
  LET n == Len(Items(w, lst))
      named == Symbol(w, thr)
  IN  CASE ~Proper(w, lst) /\ n = 0 -> Undefined(w)
        [] ~Proper(w, lst) /\ 0 < n /\ n <= (IF hi = Many THEN lo ELSE hi + 1) -> Throw(w, Sym["improper-list"], lst)
        [] n < lo \/ n > hi -> Throw(named, Sym["wrong-number-of-arguments"], named.r)
        [] OTHER -> Returns(named, T)

(* is_func_form: a list of symbols, &rest the last but one of them.        *)
HasVariables(w, lst) == Iscons(w, lst) /\ (Islist(w, Car(w, lst)) => Proper(w, Car(w, lst)))
IsFuncForm(w, lst) ==
  /\ Islist(w, Car(w, lst))
  /\ LET vars == Items(w, Car(w, lst))
     IN  \A i \in DOMAIN vars : Type(w, vars[i]) = "SYMBOL" /\ (vars[i] = Sym["&rest"] => i = Len(vars) - 1)

-----------------------------------------------------------------------------
(* Evaluation.                                                             *)

EvalList(w, lst) ==
  LET x == Eval(w, Car(w, lst))
      rest == EvalList(x, Cdr(w, lst))
  IN  CASE lst = NIL -> Returns(w, NIL)
        [] lst # NIL /\ ~Iscons(w, lst) -> Throws(w, "improper-list-ending", lst)
        [] OTHER -> IF Failed(x) THEN x
                    ELSE IF Stopped(rest) THEN rest
                    ELSE IF rest.r = ErrSymbol THEN Release(rest, x.r)
                    ELSE NewCons(rest, x.r, rest.r)

EvalBody(w, body) ==
  LET items == Items(w, body)
      Then(v, x) == IF Failed(v) THEN v ELSE Eval(Release(v, v.r), x)
  IN  IF Proper(w, body) THEN FoldLeft(Then, Returns(w, NIL), items) ELSE Undefined(w)

(* assign_args. When there are too few arguments, the variables that have  *)
(* been bound are released; when there are too many they are not.          *)
AssignArgs(w, vars, vals, all, len, optional) ==
  LET var == Car(w, vars)
      TooFew == FoldLeft(Sympop, w, SubSeq(Items(w, all), 1, len))
      Next(v, n) == AssignArgs(v, Cdr(w, vars), IF vals = NIL THEN NIL ELSE Cdr(w, vals), all, n, optional)
  IN  CASE Stopped(w) -> w
        [] ~Stopped(w) /\ vars = NIL ->
             IF vals = NIL THEN Returns(w, T) ELSE Throw(w, Sym["wrong-number-of-arguments"], NIL)
        [] ~Stopped(w) /\ vars # NIL ->
             CASE var = Sym["&optional"] -> AssignArgs(w, Cdr(w, vars), vals, all, len, TRUE)
               [] var = Sym["&rest"] -> Returns(Sympush(w, Car(w, Cdr(w, vars)), vals), T)
               [] OTHER -> IF vals # NIL THEN Next(Sympush(w, var, Car(w, vals)), len + 1)
                           ELSE IF optional THEN Next(Sympush(w, var, NIL), len)
                           ELSE Throw(TooFew, Sym["wrong-number-of-arguments"], NIL)

Unassign_FromFirst(w, vars) ==  \* a slip: the first variable only
  IF vars = NIL THEN w ELSE Sympop(w, Car(w, vars))

Unassign(w, vars) ==
  CASE vars = NIL -> w
    [] vars # NIL /\ Car(w, vars) \in {Sym["&rest"], Sym["&optional"]} -> Unassign(w, Cdr(w, vars))
    [] OTHER -> Unassign(Sympop(w, Car(w, vars)), Cdr(w, vars))

-----------------------------------------------------------------------------
(* Special forms.                                                          *)

(* lisp_and, lisp_or: what they return has one reference too many.         *)
And(w, lst, r) ==
  LET v == Eval(Release(w, r), Car(w, lst))
  IN  CASE lst = NIL -> Gives(w, r)
        [] lst # NIL /\ ~Iscons(w, lst) -> Gives(Throws(w, "improper-list", lst), r)
        [] OTHER -> IF Failed(v) \/ v.r = NIL THEN v ELSE And(v, Cdr(w, lst), v.r)
Or(w, lst) ==
  LET v == Eval(w, Car(w, lst))
  IN  CASE lst = NIL -> Returns(w, NIL)
        [] lst # NIL /\ ~Iscons(w, lst) -> Throws(w, "improper-list", lst)
        [] OTHER -> IF Failed(v) THEN v ELSE IF v.r # NIL THEN Increfs(v, v.r) ELSE Or(v, Cdr(w, lst))

(* lisp_cond: a test that fails is as good as one that is true, and a      *)
(* clause that is a test alone is returned without being evaluated.        *)
Cond(w, lst) ==
  LET pair == Car(w, lst)
      v == Eval(w, Car(w, pair))
  IN  CASE lst = NIL -> Returns(w, NIL)
        [] lst # NIL /\ ~Iscons(w, lst) -> Throws(w, "improper-list", lst)
        [] OTHER ->
             CASE ~Iscons(w, pair) -> Throws(w, "wrong-type-argument", pair)
               [] Iscons(w, pair) /\ ~Islist(w, Cdr(w, pair)) -> Throws(w, "improper-list", pair)
               [] Iscons(w, pair) /\ Cdr(w, pair) = NIL -> Gives(w, Car(w, pair))
               [] Iscons(w, pair) /\ Iscons(w, Cdr(w, pair)) ->
                    IF Cdr(w, Cdr(w, pair)) # NIL THEN Throws(w, "bad-form", pair)
                    ELSE IF Stopped(v) THEN v
                    ELSE IF v.r # NIL THEN Eval(Release(v, v.r), Car(w, Cdr(w, pair)))
                    ELSE Cond(v, Cdr(w, lst))

(* let: the values are bound one after the other, and unbound when one of  *)
(* them fails.                                                             *)
LetVariable(w, pair) == Car(w, pair)
PopPairs(w, pairs, n) == FoldLeft(LAMBDA v, p : Sympop(v, LetVariable(v, p)), w, SubSeq(pairs, 1, n))
LetBind(w, pairs, k, body) ==
  LET e == Eval(w, Car(w, Cdr(w, pairs[k])))
      r == EvalBody(w, body)
  IN  CASE k > Len(pairs) -> IF Stopped(r) THEN r ELSE PopPairs(r, pairs, Len(pairs))
        [] k <= Len(pairs) /\ Cdr(w, pairs[k]) = NIL -> Undefined(w)
        [] OTHER -> IF Stopped(e) THEN e
                    ELSE IF e.r = ErrSymbol THEN PopPairs(e, pairs, k - 1)
                    ELSE LET bound == Sympush(e, LetVariable(w, pairs[k]), e.r)
                         IN  IF bound.undef THEN bound ELSE LetBind(Release(bound, e.r), pairs, k + 1, body)
Let(w, lst) ==
  LET pairs == Items(w, Car(w, lst))
      Bad(p) == ~Islist(w, p) \/ (p # NIL /\ Type(w, Car(w, p)) # "SYMBOL")
  IN  CASE lst = NIL -> Undefined(w)
        [] lst # NIL /\ (~Islist(w, Car(w, lst)) \/ \E i \in DOMAIN pairs : Bad(pairs[i])) -> Throws(w, "bad-let-form", lst)
        [] OTHER -> IF NIL \in Range(pairs) THEN Undefined(w) ELSE LetBind(w, pairs, 1, Cdr(w, lst))

(* lisp_while does not look whether its body has failed.                   *)
While(w, cond, body, r) ==
  LET c == Eval(w, cond)
      d == Release(Release(c, r), c.r)
      b == EvalBody(d, body)
  IN  CASE Stopped(c) -> c
        [] ~Stopped(c) /\ c.r = NIL -> Returns(c, r)
        [] OTHER -> IF c.r = ErrSymbol THEN d ELSE IF Stopped(b) THEN b ELSE While(b, cond, body, b.r)

(* catch returns the attachment of what it was waiting for.                *)
Catch(w, lst) ==
  LET c == Eval(w, Car(w, lst))
      b == EvalBody(c, Cdr(w, lst))
  IN  IF lst = NIL THEN Undefined(w)
      ELSE IF Failed(c) THEN c
      ELSE IF b.r = ErrSymbol /\ ~Stopped(b) /\ b.thrown = c.r
             THEN Returns(Release(Release(b, c.r), b.thrown), b.attach) ELSE b

Define(w, kind, lst) ==
  IF ~Iscons(w, lst) THEN Undefined(w)
  ELSE IF Type(w, Car(w, lst)) # "SYMBOL" THEN Throws(w, "bad-function-form", lst)
  ELSE IF ~HasVariables(w, Cdr(w, lst)) THEN Undefined(w)
  ELSE IF ~IsFuncForm(w, Cdr(w, lst)) THEN Throws(w, "bad-function-form", lst)
  ELSE LET f == NewCons(Increfs(w, Cdr(w, lst)), Sym[kind], Cdr(w, lst))
       IN  Returns(SetValue(f, Car(w, lst), f.r), Car(w, lst))

If(w, lst) ==
  LET r == Eval(w, Car(w, lst))
  IN  IF Failed(r) THEN r
      ELSE IF r.r # NIL THEN Eval(Release(r, r.r), Car(w, Cdr(w, lst)))
      ELSE EvalBody(r, Cdr(w, Cdr(w, lst)))

Lambda(w, lst) ==
  IF ~HasVariables(w, lst) THEN Undefined(w)
  ELSE IF ~IsFuncForm(w, lst) THEN Throws(w, "bad-function-form", lst)
  ELSE NewCons(Increfs(w, lst), Sym["lambda"], lst)

Special(w, s, lst) ==
  CASE s = "and" -> And(w, lst, T)
    [] s = "or" -> Or(w, lst)
    [] s = "cond" -> Cond(w, lst)
    [] s = "let" -> Let(w, lst)
    [] s = "catch" -> Catch(w, lst)
    [] s = "progn" -> EvalBody(w, lst)
    [] s = "quote" -> Gives(w, Car(w, lst))
    [] s = "while" -> While(w, Car(w, lst), Cdr(w, lst), NIL)
    [] s = "if" -> If(w, lst)
    [] s = "lambda" -> Lambda(w, lst)
    [] s = "defun" -> Define(w, "lambda", lst)
    [] s = "defmacro" -> Define(w, "macro", lst)

-----------------------------------------------------------------------------
(* Functions.                                                              *)

Quotient(a, b) == LET q == (IF a < 0 THEN -a ELSE a) \div (IF b < 0 THEN -b ELSE b) IN IF (a < 0) = (b < 0) THEN q ELSE -q
Compute(op, a, b) == CASE op = "+" -> a + b [] op = "*" -> a * b [] op = "-" -> a - b [] op = "/" -> Quotient(a, b)

(* arith: whole numbers until the first that is not. It releases its       *)
(* accumulators at an argument it cannot take, and goes on.                *)
Arith(w, op, lst) ==
  LET nums == [i \in DOMAIN Items(w, lst) |-> w.heap[Items(w, lst)[i]]]
      inverse == op \in {"-", "/"}
      Is(x) == x.type \in {"INT", "FLOAT"}
      Number(type, n) == [type |-> type, refs |-> 1, num |-> n]
      Step(a, x) == Number(IF a.type = "INT" THEN x.type ELSE "FLOAT", Compute(op, a.num, x.num))
      rest == IF inverse THEN Tail(nums) ELSE nums
  IN  CASE inverse /\ nums = <<>> -> Undefined(w)
        [] inverse /\ nums # <<>> /\ ~Is(nums[1]) -> Throws(w, "wrong-type-argument", Items(w, lst)[1])
        [] OTHER ->
             IF \E i \in DOMAIN rest : ~Is(rest[i]) \/ (op = "/" /\ rest[i].num = 0) THEN Undefined(w)
             ELSE IF op = "-" /\ rest = <<>> THEN New(w, Number(nums[1].type, 0 - nums[1].num))
             ELSE New(w, FoldLeft(Step, IF inverse THEN Number(nums[1].type, nums[1].num)
                                        ELSE Number("INT", IF op = "+" THEN 0 ELSE 1), rest))
NumCmp(w, op, lst) ==
  LET a == Car(w, lst)
      b == Car(w, Cdr(w, lst))
      x == w.heap[a].num
      y == w.heap[b].num
  IN  IF ~Isnumber(w, a) THEN Throws(w, "wrong-type-argument", a)
      ELSE IF ~Isnumber(w, b) THEN Throws(w, "wrong-type-argument", b)
      ELSE Returns(w, Truth(CASE op = "=" -> x = y [] op = "<" -> x < y [] op = "<=" -> x <= y [] op = ">" -> x > y
                              [] op = ">=" -> x >= y))
Modulus(w, lst) ==
  LET args == Items(w, lst)
      x == w.heap[args[1]]
      y == w.heap[args[2]]
  IN  IF Len(args) < 2 THEN Undefined(w)
      ELSE IF x.type # "INT" THEN Throws(w, "wrong-type-argument", args[1])
      ELSE IF y.type # "INT" THEN Throws(w, "wrong-type-argument", args[2])
      ELSE IF y.num = 0 THEN Undefined(w) ELSE NewInt(w, x.num - y.num * Quotient(x.num, y.num))

Eql(w, a, b) ==
  LET x == w.heap[a]
      y == w.heap[b]
  IN  x.type = y.type /\ CASE x.type \in {"INT", "FLOAT"} -> x.num = y.num
                           [] x.type \in {"SYMBOL", "CONS"} -> a = b
                           [] x.type = "STRING" -> x.raw = y.raw
                           [] x.type = "VECTOR" -> FALSE
                           [] x.type \in {"CFUNC", "SPECIAL"} -> x.fval = y.fval

Holds(w, s, x) ==
  CASE s \in {"not", "nullp"} -> x = NIL [] s = "funcp" -> Isfunc(w, x) [] s = "listp" -> Islist(w, x)
    [] s = "symbolp" -> Type(w, x) = "SYMBOL" [] s = "stringp" -> Type(w, x) = "STRING"
    [] s = "numberp" -> Isnumber(w, x) [] s = "integerp" -> Type(w, x) = "INT"
    [] s = "floatp" -> Type(w, x) = "FLOAT" [] s = "vectorp" -> Type(w, x) = "VECTOR"
Predicates == {"not", "nullp", "funcp", "listp", "symbolp", "stringp", "numberp", "integerp", "floatp", "vectorp"}

(* The functions of vectors go on after an argument they cannot take.      *)
Vectors(w, s, args) ==
  LET a == args[1]
      items == w.heap[a].v
      index == w.heap[args[2]].num
      Whole(k) == Type(w, args[k]) = "INT"
      last == IF Len(args) = 2 THEN Len(items) - 1 ELSE w.heap[args[3]].num
      outside == Throws(w, "index-out-of-bounds", args[2])
  IN  CASE s = "make-vector" ->
             IF Type(w, a) # "INT" \/ w.heap[a].num < 0 THEN Undefined(w)
             ELSE NewVec(w, [i \in 1 .. w.heap[a].num |-> args[2]])
        [] s = "vconcat2" ->
             IF Type(w, a) # "VECTOR" THEN Throws(w, "wrong-type-argument", a)
             ELSE IF Type(w, args[2]) # "VECTOR" THEN Throws(w, "wrong-type-argument", args[2])
             ELSE NewVec(w, items \o w.heap[args[2]].v)
        [] OTHER ->
             IF Type(w, a) # "VECTOR" \/ (s # "vlength" /\ ~Whole(2)) THEN Undefined(w)
             ELSE CASE s = "vlength" -> NewInt(w, Len(items))
                    [] s = "vget" -> IF index \notin 0 .. Len(items) - 1 THEN outside ELSE Gives(w, items[index + 1])
                    [] s = "vset" ->
                         IF index \notin 0 .. Len(items) - 1 THEN outside
                         ELSE Gives([Release(Increfs(w, args[3]), items[index + 1]) EXCEPT !.heap[a].v[index + 1] = args[3]], args[3])
                    [] s = "vsub" ->
                         IF index \notin 0 .. Len(items) - 1 \/ (Len(args) > 2 /\ ~Whole(3)) THEN Undefined(w)
                         ELSE IF last < index \/ last >= Len(items) THEN Undefined(w)
                         ELSE NewVec(w, SubSeq(items, index + 1, last + 1))

(* What car and cdr attach to their error is not counted.                  *)
CarOrCdr(w, s, a) ==
  IF a = NIL THEN Returns(w, NIL)
  ELSE IF ~Iscons(w, a) THEN Throw(w, Sym["wrong-type-argument"], a)
  ELSE Gives(w, IF s = "car" THEN Car(w, a) ELSE Cdr(w, a))

Assign(w, a, b) ==
  LET pair == NewCons(w, Sym["set"], a)
  IN  IF Type(w, a) = "SYMBOL" THEN Gives(SetValue(w, a, b), b) ELSE Throw(pair, Sym["wrong-type-argument"], pair.r)

NewString(w, raw) == New(w, [type |-> "STRING", refs |-> 1, raw |-> raw])
SymbolName(w, a) ==
  IF Type(w, a) = "SYMBOL" THEN NewString(w, <<w.heap[a].name>>) ELSE Throws(w, "wrong-type-argument", a)
Concat(w, a, b) ==
  IF Type(w, a) # "STRING" THEN Throws(w, "wrong-type-argument", a)
  ELSE IF Type(w, b) # "STRING" THEN Throws(w, "wrong-type-argument", b)
  ELSE NewString(w, w.heap[a].raw \o w.heap[b].raw)

LimitDepth(w, args) ==
  IF args = <<>> THEN NewInt(w, w.max)
  ELSE LET a == args[1]
       IN  IF Type(w, a) # "INT" THEN Undefined(w)
           ELSE IF w.heap[a].num < 10 THEN Returns(w, NIL) ELSE [Gives(w, a) EXCEPT !.max = w.heap[a].num]
Exit(w, args) ==
  IF args # <<>> /\ Type(w, args[1]) # "INT" THEN Throws(w, "wrong-type-argument", args[1])
  ELSE [w EXCEPT !.exited = TRUE]

(* apply: a list that begins with lambda or macro binds its variables.     *)
Apply(w, f, args) ==
  LET form == w.heap[f]
      vars == Car(w, Cdr(w, f))
      bound == AssignArgs(w, vars, args, vars, 0, FALSE)
      body == EvalBody(bound, Cdr(w, Cdr(w, f)))
      again == Eval(body, body.r)
      ret == IF form.car = Sym["lambda"] THEN body
             ELSE IF Stopped(again) THEN again ELSE [Release(again, body.r) EXCEPT !.r = again.r]
  IN  CASE form.type \in {"CFUNC", "SPECIAL"} -> Call(w, form.fval, args)
        [] form.type \notin {"CFUNC", "SPECIAL"} /\ (~Iscons(w, f) \/ ~Iscons(w, form.cdr) \/ ~Islist(w, args)) -> Undefined(w)
        [] OTHER -> IF Stopped(bound) THEN bound
                    ELSE IF bound.r = ErrSymbol THEN [Increfs(bound, args) EXCEPT !.attach = args]
                    ELSE IF Stopped(body) \/ Stopped(ret) THEN ret ELSE Unassign(ret, vars)

(* The functions and special forms that wisp_init binds.                   *)
Call(w0, s, lst) ==
  LET w == IF s \in DOMAIN Arity THEN Require(w0, lst, Complaint(s), Arity[s][1], Arity[s][2]) ELSE w0
      args == Items(w, lst)
      a == args[1]
      b == args[2]
  IN  CASE Stopped(w) \/ (s \in DOMAIN Arity /\ w.r # T) -> w
        [] OTHER ->
             CASE s \in Specials -> Special(w, s, lst)
               [] s \in Predicates -> Returns(w, Truth(Holds(w, s, a)))
               [] s \in {"+", "-", "*", "/"} -> Arith(w, s, lst)
               [] s \in {"=", "<", "<=", ">", ">="} -> NumCmp(w, s, lst)
               [] s = "%" -> Modulus(w, lst)
               [] s \in {"vset", "vget", "vlength", "make-vector", "vconcat2", "vsub"} -> Vectors(w, s, args)
               [] s = "apply" -> Apply(w, a, b)
               [] s = "eval" -> EvalBody(w, lst)
               [] s = "list" -> Gives(w, lst)
               [] s = "cons" -> NewCons(Increfs(Increfs(w, a), b), a, b)
               [] s \in {"car", "cdr"} -> CarOrCdr(w, s, a)
               [] s = "set" -> Assign(w, a, b)
               [] s = "value" -> IF Type(w, a) = "SYMBOL" THEN Gives(w, Value(w, a)) ELSE Undefined(w)
               [] s = "symbol-name" -> SymbolName(w, a)
               [] s = "concat2" -> Concat(w, a, b)
               [] s = "eq" -> Returns(w, Truth(a = b))
               [] s = "eql" -> Returns(w, Truth(Eql(w, a, b)))
               [] s = "print" -> [Returns(w, NIL) EXCEPT !.out = Append(@, Show(w, a))]
               [] s = "throw" -> IF Len(args) < 2 THEN Undefined(w) ELSE Throw(Increfs(Increfs(w, a), b), a, b)
               [] s = "refcount" -> NewInt(w, w.heap[a].refs)
               [] s = "eval-depth" -> NewInt(w, w.depth)
               [] s = "max-eval-depth" -> LimitDepth(w, args)
               [] s = "exit" -> Exit(w, args)

(* eval: where the arguments fail, the depth stays as it is.               *)
Eval(w, o) ==
  LET f == Eval(w, Car(w, o))
      wrapped == NewCons(Increfs(Increfs(f, f.r), o), f.r, o)
      vector == Type(f, f.r) = "VECTOR"
      form == IF vector THEN wrapped.r ELSE o
      extrao == IF vector THEN wrapped.r ELSE NIL
      g == IF vector THEN Eval(wrapped, Sym["vfunc"]) ELSE f
      deep == [g EXCEPT !.depth = @ + 1]
      counted == Type(g, g.r) = "CFUNC" \/ (Iscons(g, g.r) /\ Car(g, g.r) = Sym["lambda"])
      args == IF counted THEN EvalList(deep, Cdr(deep, form)) ELSE Gives(deep, Cdr(deep, form))
      ret == Apply(args, g.r, args.r)
      done == Release(Release(Release([ret EXCEPT !.depth = @ - 1], g.r), args.r), extrao)
  IN  CASE Stopped(w) -> w
        [] ~Stopped(w) /\ Type(w, o) \notin {"CONS", "SYMBOL"} -> Gives(w, o)
        [] ~Stopped(w) /\ Type(w, o) = "SYMBOL" -> Gives(w, Value(w, o))
        [] ~Stopped(w) /\ Iscons(w, o) ->
             IF Failed(f) THEN f
             ELSE IF Failed(g) THEN Release(g, extrao)
             ELSE IF ~Isfunc(g, g.r) THEN Throws(Release(g, g.r), "void-function", Car(g, form))
             ELSE IF deep.depth >= deep.max
               THEN LET n == NewInt(deep, deep.depth) IN [Throw(n, Sym["max-eval-depth"], n.r) EXCEPT !.depth = @ - 1]
             ELSE IF Stopped(args) THEN args
             ELSE IF counted /\ args.r = ErrSymbol THEN Release(Release(args, g.r), extrao)
             ELSE IF Stopped(ret) THEN ret ELSE done

(* load_file: an expression after another, each evaluated from depth 0; of *)
(* an error what was thrown is printed.                                    *)
Load(w, sexp) ==
  LET v == Eval([w EXCEPT !.depth = 0], sexp)
      c == NewCons(NewCons(v, v.attach, NIL), v.thrown, Len(v.heap) + 1)
  IN  IF Stopped(v) THEN v
      ELSE IF v.r = ErrSymbol THEN Release(Release([c EXCEPT !.out = Append(@, Show(c, c.r))], c.r), sexp)
      ELSE Release(Release([v EXCEPT !.out = Append(@, Show(v, v.r))], sexp), v.r)

-----------------------------------------------------------------------------
(* Expressions as trees: what the reader makes of a text, and obj_print of *)
(* an object.                                                              *)

S(name) == [name |-> name]
N(num) == [num |-> num]
L(items) == FoldRight(LAMBDA x, rest : [car |-> x, cdr |-> rest], items, S("nil"))

Build(w, x) ==
  CASE DOMAIN x = {"name"} -> Symbol(w, x.name)
    [] DOMAIN x = {"num"} -> NewInt(w, x.num)
    [] DOMAIN x = {"car", "cdr"} -> LET a == Build(w, x.car)
                                        d == Build(a, x.cdr)
                                    IN  NewCons(d, a.r, d.r)
Show(w, o) ==
  LET x == w.heap[o]
  IN  CASE x.type = "SYMBOL" -> S(x.name)
        [] x.type = "CONS" -> [car |-> Show(w, x.car), cdr |-> Show(w, x.cdr)]
        [] x.type \in {"INT", "FLOAT"} -> N(x.num)
        [] x.type = "STRING" -> [raw |-> x.raw]
        [] x.type = "VECTOR" -> [items |-> [i \in DOMAIN x.v |-> Show(w, x.v[i])]]
        [] x.type \in {"CFUNC", "SPECIAL"} -> [fval |-> x.fval]

Run(forms) ==
  FoldLeft(LAMBDA w, x : IF Stopped(w) THEN w ELSE LET b == Build(w, x) IN Load(b, b.r), Init, forms)
-----------------------------------------------------------------------------
(* What a program of wisp means, and that the evaluator above gives       *)
(* it that meaning and keeps its books. A world e has, for every name, the *)
(* values it is bound to, the innermost last; values are trees. What wisp  *)
(* is known to do in a way of its own is odd, and ends the comparison.     *)

RECURSIVE ItemsOf(_), Means(_, _), Repeats(_, _, _), Chosen(_, _), First(_, _, _)

Nil == S("nil")
Bool(b) == IF b THEN S("t") ELSE Nil
IsName(x) == DOMAIN x = {"name"}
IsNum(x) == DOMAIN x = {"num"}
IsPair(x) == DOMAIN x = {"car", "cdr"}
IsFunction(x) == DOMAIN x = {"fval"} \/ (IsPair(x) /\ x.car \in {S("lambda"), S("macro")})
ItemsOf(x) == IF IsPair(x) THEN <<x.car>> \o ItemsOf(x.cdr) ELSE <<>>

Gets(e, v) == [e EXCEPT !.v = v]
Odd(e) == [e EXCEPT !.odd = TRUE]
Raises(e, name, attach) == [e EXCEPT !.err = TRUE, !.thrown = S(name), !.attach = attach]
Over(e) == e.err \/ e.odd

Values(e, n) == IF n \in DOMAIN e.env THEN e.env[n] ELSE <<Nil>>
Rebinds(e, n, values) == [e EXCEPT !.env = (n :> values) @@ @]
Sets(e, n, v) == Rebinds(e, n, [Values(e, n) EXCEPT ![Len(Values(e, n))] = v])
Binds(e, n, v) == IF Len(Values(e, n)) = SymStack THEN Odd(e) ELSE Rebinds(e, n, Append(Values(e, n), v))
Unbinds(e, n) == Rebinds(e, n, Front(Values(e, n)))
UnbindsAll(e, names) == FoldLeft(Unbinds, e, names)

Steps(e, xs) == FoldLeft(Means, Gets(e, Nil), xs)
Arguments(e, xs) ==
  LET Then(a, x) == LET v == Means(a.e, x) IN [e |-> v, vs |-> Append(a.vs, v.v)]
  IN  FoldLeft(Then, [e |-> e, vs |-> <<>>], xs)

(* A call of a list that begins with lambda or macro: what comes before    *)
(* &optional must be given, and only &rest takes more than its names.      *)
Within(e, f, vals) ==
  LET vars == [i \in DOMAIN ItemsOf(f.cdr.car) |-> ItemsOf(f.cdr.car)[i].name]
      At(s) == SelectInSeq(vars, LAMBDA v : v = s)
      named == SelectSeq(IF At("&rest") = 0 THEN vars ELSE SubSeq(vars, 1, At("&rest") - 1), LAMBDA v : v # "&optional")
      required == IF At("&optional") = 0 THEN Len(named) ELSE At("&optional") - 1
      names == IF At("&rest") = 0 THEN named ELSE Append(named, Last(vars))
      Given(i) == IF i > Len(named) THEN L(SubSeq(vals, i, Len(vals))) ELSE IF i > Len(vals) THEN Nil ELSE vals[i]
      bound == FoldLeft(LAMBDA v, i : Binds(v, names[i], Given(i)), e, [i \in DOMAIN names |-> i])
      body == Steps(bound, ItemsOf(f.cdr.cdr))
      ret == IF f.car = S("macro") THEN Means(body, body.v) ELSE body
  IN  CASE Len(vals) < required -> Raises(e, "wrong-number-of-arguments", L(vals))
        [] At("&rest") = 0 /\ Len(vals) > Len(named) -> Odd(e)      \* its variables stay bound
        [] OTHER -> IF bound.odd THEN bound ELSE UnbindsAll(ret, names)

-----------------------------------------------------------------------------
(* The first of some tests to give a value that is, or is not, nil.        *)
First(e, xs, isnil) ==
  LET v == Means(e, xs[1])
  IN  IF xs = <<>> THEN e ELSE IF Over(v) \/ (v.v = Nil) = isnil THEN v ELSE First(v, Tail(xs), isnil)

Chosen(e, clauses) ==
  LET items == ItemsOf(clauses[1])
      test == Means(e, items[1])
  IN  IF clauses = <<>> THEN Gets(e, Nil)
      ELSE IF ~IsPair(clauses[1]) THEN Raises(e, "wrong-type-argument", clauses[1])
      ELSE IF Len(items) = 1 THEN Odd(e)            \* returned as it is written
      ELSE IF Len(items) > 2 THEN Raises(e, "bad-form", clauses[1])
      ELSE IF test.err THEN Odd(test)               \* taken for true
      ELSE IF test.odd THEN test ELSE IF test.v # Nil THEN Means(test, items[2]) ELSE Chosen(test, Tail(clauses))

Repeats(e, cond, body) ==
  LET c == Means(e, cond)
      b == Steps(c, body)
  IN  IF Over(c) THEN c
      ELSE IF c.v = Nil THEN Gets(c, e.v)
      ELSE IF b.err THEN Odd(b)                     \* not looked at
      ELSE IF b.odd THEN b ELSE Repeats(b, cond, body)

BindsPairs(e, pairs, body) ==
  LET Name(k) == ItemsOf(pairs[k])[1]
      Then(a, k) == LET v == Means(a.e, ItemsOf(pairs[k])[2])
                    IN  IF Over(v) THEN [a EXCEPT !.e = v]
                        ELSE [e |-> Binds(v, Name(k).name, v.v), names |-> Append(a.names, Name(k).name)]
      bound == FoldLeft(Then, [e |-> e, names |-> <<>>], [k \in DOMAIN pairs |-> k])
  IN  IF \E k \in DOMAIN pairs : pairs[k] = Nil \/ (IsPair(pairs[k]) /\ Len(ItemsOf(pairs[k])) = 1) THEN Odd(e)
      ELSE IF \E k \in DOMAIN pairs : ~IsPair(pairs[k]) \/ ~IsName(Name(k)) THEN Raises(e, "bad-let-form", e.v)
      ELSE UnbindsAll(Steps(bound.e, body), bound.names)

IsForm(xs) ==
  LET vars == ItemsOf(xs[1])
  IN  (IsPair(xs[1]) \/ xs[1] = Nil)
      /\ \A i \in DOMAIN vars : IsName(vars[i]) /\ (vars[i] = S("&rest") => i = Len(vars) - 1)

Defines(e, kind, xs) ==
  IF ~IsName(xs[1]) \/ ~IsForm(Tail(xs)) THEN Raises(e, "bad-function-form", L(xs))
  ELSE Gets(Sets(e, xs[1].name, [car |-> S(kind), cdr |-> L(Tail(xs))]), xs[1])

Specially(e, s, xs) ==
  LET value == Means(e, xs[1])
      Catches(b) == IF ~b.err \/ b.odd \/ b.thrown # value.v THEN b
                    ELSE IF ~IsName(value.v) THEN Odd(b) ELSE Gets([b EXCEPT !.err = FALSE], b.attach)
  IN  CASE s = "quote" -> Gets(e, xs[1])
        [] s = "progn" -> Steps(e, xs)
        [] s = "and" -> First(Gets(e, S("t")), xs, TRUE)
        [] s = "or" -> First(Gets(e, Nil), xs, FALSE)
        [] s = "cond" -> Chosen(e, xs)
        [] s = "if" -> IF Over(value) THEN value
                       ELSE IF value.v # Nil THEN Means(value, xs[2]) ELSE Steps(value, SubSeq(xs, 3, Len(xs)))
        [] s = "while" -> Repeats(Gets(e, Nil), xs[1], Tail(xs))
        [] OTHER ->
             IF xs = <<>> THEN Odd(e)
             ELSE CASE s = "lambda" -> IF IsForm(xs) THEN Gets(e, [car |-> S("lambda"), cdr |-> L(xs)])
                                       ELSE Raises(e, "bad-function-form", L(xs))
                    [] s \in {"defun", "defmacro"} ->
                         IF Len(xs) = 1 THEN Odd(e) ELSE Defines(e, IF s = "defun" THEN "lambda" ELSE "macro", xs)
                    [] s = "catch" -> IF Over(value) THEN value ELSE Catches(Steps(value, Tail(xs)))
                    [] s = "let" -> IF ~IsPair(xs[1]) /\ xs[1] # Nil THEN Raises(e, "bad-let-form", L(xs))
                                    ELSE BindsPairs(Gets(e, L(xs)), ItemsOf(xs[1]), Tail(xs))

-----------------------------------------------------------------------------
Calculates(e, op, xs) ==
  LET rest == [i \in 1 .. Len(xs) - 1 |-> xs[i + 1].num]
      sum == FoldLeft(LAMBDA a, n : a + n, 0, rest)
      product == FoldLeft(LAMBDA a, n : a * n, 1, rest)
      first == xs[1].num
  IN  CASE xs = <<>> -> IF op = "+" THEN Gets(e, N(0)) ELSE IF op = "*" THEN Gets(e, N(1)) ELSE Odd(e)
        [] xs # <<>> /\ ~IsNum(xs[1]) /\ op \in {"-", "/"} -> Raises(e, "wrong-type-argument", xs[1])
        [] OTHER ->
             IF \E i \in DOMAIN xs : ~IsNum(xs[i]) \/ (op = "/" /\ i > 1 /\ xs[i].num = 0) THEN Odd(e)
             ELSE Gets(e, N(CASE op = "+" -> first + sum [] op = "*" -> first * product
                              [] op = "-" -> IF rest = <<>> THEN 0 - first ELSE first - sum
                              [] op = "/" -> FoldLeft(Quotient, first, rest)))

Compares(e, op, x, y) ==
  IF ~IsNum(x) \/ ~IsNum(y) THEN Raises(e, "wrong-type-argument", IF IsNum(x) THEN y ELSE x)
  ELSE Gets(e, Bool(CASE op = "=" -> x.num = y.num [] op \in {"<", "<="} -> x.num < y.num \/ (op = "<=" /\ x.num = y.num)
                      [] op \in {">", ">="} -> x.num > y.num \/ (op = ">=" /\ x.num = y.num)))

Is(s, x) ==
  CASE s \in {"not", "nullp"} -> x = Nil [] s = "symbolp" -> IsName(x) [] s \in {"numberp", "integerp"} -> IsNum(x)
    [] s = "listp" -> IsPair(x) \/ x = Nil [] s = "funcp" -> IsFunction(x) [] OTHER -> FALSE

Ordinarily(e, s, xs) ==
  LET x == xs[1]
      y == xs[2]
  IN  CASE s \in {"+", "-", "*", "/"} -> Calculates(e, s, xs)
        [] s \in {"=", "<", "<=", ">", ">="} -> Compares(e, s, x, y)
        [] s \in Predicates -> Gets(e, Bool(Is(s, x)))
        [] s = "%" -> IF Len(xs) < 2 \/ y = N(0) THEN Odd(e)
                      ELSE IF ~IsNum(x) \/ ~IsNum(y) THEN Raises(e, "wrong-type-argument", IF IsNum(x) THEN y ELSE x)
                      ELSE Gets(e, N(x.num - y.num * Quotient(x.num, y.num)))
        [] s = "list" -> Gets(e, L(xs))
        [] s = "cons" -> Gets(e, [car |-> x, cdr |-> y])
        [] s \in {"car", "cdr"} -> IF IsPair(x) THEN Gets(e, IF s = "car" THEN x.car ELSE x.cdr)
                                   ELSE IF x = Nil THEN Gets(e, x) ELSE Odd(e)
        [] s = "set" -> IF IsName(x) THEN Gets(Sets(e, x.name, y), y) ELSE Odd(e)
        [] s = "value" -> IF IsName(x) THEN Gets(e, Last(Values(e, x.name))) ELSE Odd(e)
        [] s = "eq" -> IF IsName(x) /\ IsName(y) THEN Gets(e, Bool(x = y)) ELSE Odd(e)
        [] s = "eql" -> IF IsPair(x) \/ IsPair(y) THEN Odd(e) ELSE Gets(e, Bool(x = y))
        [] s = "throw" -> IF Len(xs) < 2 THEN Odd(e) ELSE [e EXCEPT !.err = TRUE, !.thrown = x, !.attach = y]
        [] s = "eval" -> Steps(e, xs)
        [] s = "print" -> [Gets(e, Nil) EXCEPT !.out = Append(@, x)]
        [] s = "apply" -> IF ~IsPair(y) /\ y # Nil THEN Odd(e)
                          ELSE IF IsPair(x) /\ IsFunction(x) THEN Within(e, x, ItemsOf(y)) ELSE Odd(e)
        [] OTHER -> Odd(e)

Means(e, x) ==
  LET f == Means(e, x.car)
      xs == ItemsOf(x.cdr)
      args == Arguments(f, xs)
      Enough(s, given) ==
        s \in DOMAIN Arity => Arity[s][1] <= Len(given) /\ Len(given) <= Arity[s][2]
      TooFew(v, s) == Raises(v, "wrong-number-of-arguments", S(Complaint(s)))
  IN  CASE Over(e) -> e
        [] ~Over(e) /\ IsName(x) -> Gets(e, Last(Values(e, x.name)))
        [] ~Over(e) /\ IsPair(x) ->
             IF Over(f) THEN f
             ELSE IF ~IsFunction(f.v) THEN Raises(f, "void-function", x.car)
             ELSE IF IsPair(f.v) /\ f.v.car = S("macro") THEN Within(f, f.v, xs)
             ELSE IF DOMAIN f.v = {"fval"} /\ f.v.fval \in Specials
               THEN IF Enough(f.v.fval, xs) THEN Specially(f, f.v.fval, xs) ELSE TooFew(f, f.v.fval)
             ELSE IF Over(args.e) THEN args.e
             ELSE IF IsPair(f.v) THEN Within(args.e, f.v, args.vs)
             ELSE IF Enough(f.v.fval, args.vs) THEN Ordinarily(args.e, f.v.fval, args.vs) ELSE TooFew(args.e, f.v.fval)
        [] OTHER -> Gets(e, x)

Meaning(forms) ==
  LET start == [env |-> [s \in Specials \cup Cfuncs |-> <<[fval |-> s]>>] @@ ("t" :> <<S("t")>>),
                v |-> Nil, err |-> FALSE, thrown |-> Nil, attach |-> Nil, odd |-> FALSE, out |-> <<>>]
      Then(e, x) == LET r == Means([e EXCEPT !.err = FALSE], x)
                    IN  IF e.odd THEN e ELSE [r EXCEPT !.out = Append(@, IF r.err THEN L(<<r.thrown, r.attach>>) ELSE r.v)]
  IN  FoldLeft(Then, start, forms)

(* Nil that can be reached has been released: every object that is not *)
(* has at least the references that the others and the symbols hold. Every *)
(* symbol is back at its first value.                                      *)
InBooks(w) ==
  LET From(o) == IF Type(w, o) = "SYMBOL" THEN w.heap[o].vals
                 ELSE IF w.heap[o].refs > 0 THEN Children(w.heap[o]) ELSE <<>>
      uses == UNION {{<<o, i, From(o)[i]>> : i \in DOMAIN From(o)} : o \in DOMAIN w.heap}
  IN  /\ \A o \in DOMAIN w.heap : Type(w, o) = "SYMBOL" => Len(w.heap[o].vals) = 1
      /\ \A use \in uses : LET p == use[3] IN
           Type(w, p) # "SYMBOL" => w.heap[p].refs >= Cardinality({u \in uses : u[3] = p})

RunsAsMeant(forms) ==
  LET e == Meaning(forms)
      w == Run(forms)
  IN  e.odd \/ (w.out = e.out /\ ~w.undef /\ ~w.over /\ InBooks(w))
-----------------------------------------------------------------------------
(* prog/wisp/eater.c and the reader of eval.c: expressions are read from a *)
(* text, with a stack of the lists that are open. A tree is a symbol, a    *)
(* number, a string, a pair or a vector; a reader r has what is left of    *)
(* the text, what is put back included.                                    *)

RECURSIVE BufRead(_, _, _), ReadAll(_), Datum(_), ItemsTo(_, _)

EndOfText == "EOF"
Blank == {" ", "\t", "\r"}
Delimiters == Blank \cup {"\n", "(", ")"}
Digits == {"0", "1"}
AtomChars == {"a", "b", "-", "+", ".", "\\"} \cup Digits

Name(name) == [name |-> name]
Number(digits) == [digits |-> digits]
Text(raw) == [raw |-> raw]
Pair(car, cdr) == [car |-> car, cdr |-> cdr]
Vector(items) == [items |-> items]
NilName == Name(<<"n", "i", "l">>)
NoSexp == Name(<<"error">>)
Quote == Name(<<"q", "u", "o", "t", "e">>)
ListOf(items, rest) == FoldRight(Pair, items, rest)

-----------------------------------------------------------------------------
(* The eater.                                                              *)

Getc(text) == IF text = <<>> THEN EndOfText ELSE text[1]
After(text) == IF text = <<>> THEN <<>> ELSE Tail(text)
Putc(text, c) == IF c = EndOfText THEN text ELSE <<c>> \o text

LineEnd(text) == SelectInSeq(text, LAMBDA c : c = "\n")
ConsumeLine(text) == IF LineEnd(text) = 0 THEN <<>> ELSE SubSeq(text, LineEnd(text) + 1, Len(text))
ConsumeWhitespace(text) ==
  LET k == SelectInSeq(text, LAMBDA c : c \notin Blank)
      rest == SubSeq(text, k, Len(text))
  IN  IF k = 0 THEN <<>> ELSE IF rest[1] = "\n" THEN Tail(rest) ELSE rest

(* buf_read: up to a character that halts; a backslash takes the next one  *)
(* as it is.                                                               *)
BufRead(text, halt, buf) ==
  LET escaped == Getc(text) = "\\"
      t == IF escaped THEN After(text) ELSE text
      c == Getc(t)
  IN  IF c = EndOfText \/ (~escaped /\ c \in halt) THEN [buf |-> buf, rest |-> t]
      ELSE BufRead(After(t), halt, Append(buf, c))

-----------------------------------------------------------------------------
(* The reader. A list that is open has its items, what is behind its dot,  *)
(* and its modes; the first of the stack is that of the whole text.        *)

Open == [items |-> <<>>, rest |-> NilName, quote |-> FALSE, dot |-> 0, vector |-> FALSE]
Start(text) == [text |-> text, stack |-> <<>>, eof |-> FALSE, error |-> FALSE, done |-> FALSE, undef |-> FALSE]

Top(r) == Last(r.stack)
Height(r) == Len(r.stack)
Push(r) == [r EXCEPT !.stack = Append(@, Open)]
SetTop(r, s) == [r EXCEPT !.stack[Len(r.stack)] = s]
ListEmpty(r) == Top(r).items = <<>> /\ Top(r).dot < 2

Reset(r) == [r EXCEPT !.stack = <<>>, !.done = FALSE]
ReadError(r) == [Reset(r) EXCEPT !.text = ConsumeLine(@), !.error = TRUE]

(* pop: the list on top, as a tree; in a vector nothing is behind a dot.   *)
Tree(s) == IF s.vector THEN Vector(s.items) ELSE ListOf(s.items, s.rest)
Pop(r) ==
  IF ~r.done /\ (Height(r) <= 1 \/ Top(r).dot = 1) THEN ReadError(r) ELSE [r EXCEPT !.stack = Front(@)]

(* add: a quote is complete with the object that follows it.               *)
RECURSIVE Add(_, _)
AddPop(r) == LET p == Pop(r) IN IF p.error THEN p ELSE Add(p, Tree(Top(r)))
Add_DotStays(r, o) ==          \* a slip: what is behind the dot is taken for an item
  LET t == [Top(r) EXCEPT !.items = Append(@, o)]
  IN  IF t.quote THEN AddPop(SetTop(r, t)) ELSE SetTop(r, t)
Add(r, o) ==
  LET s == Top(r)
      t == IF s.dot = 0 THEN [s EXCEPT !.items = Append(@, o)] ELSE [s EXCEPT !.rest = o, !.dot = 2]
  IN  IF s.dot = 2 THEN ReadError(r) ELSE IF s.quote THEN AddPop(SetTop(r, t)) ELSE SetTop(r, t)

(* parse_atom: what strtol, or strtod, reads to its end is a number.       *)
Unsigned(buf) == IF buf # <<>> /\ buf[1] \in {"+", "-"} THEN Tail(buf) ELSE buf
IsNumber(buf) ==
  LET u == Unsigned(buf)
  IN  /\ \E i \in DOMAIN u : u[i] \in Digits
      /\ \A i \in DOMAIN u : u[i] \in Digits \cup {"."}
      /\ Cardinality({i \in DOMAIN u : u[i] = "."}) <= 1
ParseAtom(r, buf) ==
  IF IsNumber(buf) THEN Add(r, Number(buf))
  ELSE IF \E i \in DOMAIN buf : buf[i] \notin AtomChars THEN ReadError(r) ELSE Add(r, Name(buf))

Dot(r) ==                \* r is behind the dot
  LET nc == Getc(r.text)
      next == [r EXCEPT !.text = After(@)]
  IN  IF nc \notin Delimiters THEN [r EXCEPT !.text = <<"0", ".">> \o @]
      ELSE IF Top(r).dot > 0 \/ Top(r).vector THEN ReadError(next)
      ELSE SetTop(r, [Top(r) EXCEPT !.dot = 1])

Close(r, vector) == IF Top(r).quote \/ Top(r).vector # vector THEN ReadError(r) ELSE AddPop(r)

(* One turn of the loop of read_sexp.                                      *)
Turn(r) ==
  LET c == Getc(r.text)
      next == [r EXCEPT !.text = After(@)]
      str == BufRead(next.text, {"\""}, <<>>)
      atom == BufRead(next.text, Delimiters \cup {"[", "]", ";"}, <<c>>)
  IN  CASE c = EndOfText -> [r EXCEPT !.eof = TRUE]
        [] c = ";" -> [r EXCEPT !.text = ConsumeLine(After(@))]
        [] c = "." -> Dot(next)
        [] c \in Blank \cup {"\n"} -> next
        [] c = "(" -> Push(next)
        [] c = ")" -> Close(next, FALSE)
        [] c = "[" -> LET p == Push(next) IN SetTop(p, [Open EXCEPT !.vector = TRUE])
        [] c = "]" -> Close(next, TRUE)
        [] c = "'" -> LET p == Push(next) IN SetTop(p, [Open EXCEPT !.items = <<Quote>>, !.quote = TRUE])
        [] c = "\"" -> LET a == Add([r EXCEPT !.text = str.rest], Text(str.buf)) IN [a EXCEPT !.text = After(@)]
        [] OTHER -> ParseAtom([r EXCEPT !.text = atom.rest], atom.buf)

(* read_sexp: sexp is what it returns, NoSexp for err_symbol. What is read *)
(* behind a dot outside of lists is taken for a list of results.           *)
ReadAll(r) ==
  IF ~r.eof /\ ~r.error /\ (ListEmpty(r) \/ Height(r) > 1) THEN ReadAll(Turn(r)) ELSE r
ReadSexp(text) ==
  LET r == ReadAll(Push(Start(text)))
      rest == IF r.eof THEN r.text ELSE ConsumeWhitespace(r.text)
      wrap == Tree(Top(r))
  IN  IF r.error THEN [sexp |-> NoSexp, rest |-> r.text, eof |-> r.eof]
      ELSE IF Height(r) > 1 \/ Top(r).quote \/ Top(r).dot = 1 THEN [sexp |-> NoSexp, rest |-> ConsumeLine(rest), eof |-> r.eof]
      ELSE [sexp |-> IF ListEmpty(r) THEN NilName ELSE IF DOMAIN wrap = {"car", "cdr"} THEN wrap.car ELSE Name(<<"undefined">>),
            rest |-> rest, eof |-> r.eof]

-----------------------------------------------------------------------------
(* What a text has written: a datum and what is behind it. A dot that is   *)
(* not between two objects of a list, and a string that is not closed, are *)
(* odd: the reader makes something of them.                                *)

Result(tree, rest) == [kind |-> "tree", tree |-> tree, rest |-> rest]
Wrong == [kind |-> "wrong"]
Strange == [kind |-> "odd"]
Ended == [kind |-> "end"]

Spaces == Blank \cup {"\n"}
AtomOf(text) == LET k == SelectInSeq(text, LAMBDA c : c \in Delimiters \cup {"[", "]", ";"})
                IN  IF k = 0 THEN text ELSE SubSeq(text, 1, k - 1)

Datum(text) ==
  LET c == text[1]
      rest == Tail(text)
      quoted == Datum(rest)
      atom == AtomOf(text)
      close == SelectInSeq(rest, LAMBDA d : d = "\"")
  IN  CASE text = <<>> -> Ended
        [] text # <<>> /\ c \in Spaces -> Datum(rest)
        [] text # <<>> /\ c = ";" -> Datum(ConsumeLine(text))
        [] text # <<>> /\ c \in {")", "]"} -> Wrong
        [] text # <<>> /\ c \in {"(", "["} -> ItemsTo(rest, [open |-> c, items |-> <<>>])
        [] text # <<>> /\ c = "'" ->
             IF quoted.kind = "tree" THEN Result(ListOf(<<Quote, quoted.tree>>, NilName), quoted.rest)
             ELSE IF quoted.kind = "end" THEN Wrong ELSE quoted
        [] text # <<>> /\ c = "\"" ->
             IF close = 0 \/ "\\" \in Range(rest) THEN Strange
             ELSE Result(Text(SubSeq(rest, 1, close - 1)), SubSeq(rest, close + 1, Len(rest)))
        [] text # <<>> /\ c = "." ->
             IF rest # <<>> /\ rest[1] \in Digits THEN Datum(<<"0">> \o text) ELSE Strange
        [] OTHER -> IF "\\" \in Range(atom) THEN Strange
                    ELSE IF ~IsNumber(atom) /\ \E i \in DOMAIN atom : atom[i] \notin AtomChars THEN Wrong
                    ELSE Result(IF IsNumber(atom) THEN Number(atom) ELSE Name(atom), SubSeq(text, Len(atom) + 1, Len(text)))

(* The rest of a list or a vector, of which items have been read.          *)
ItemsTo(text, l) ==
  LET c == text[1]
      rest == Tail(text)
      d == Datum(text)
      behind == Datum(rest)
      closed == Datum(behind.rest)
      isdot == c = "." /\ rest # <<>> /\ rest[1] \in Delimiters
      Close2(t) == LET k == SelectInSeq(t, LAMBDA x : x \notin Spaces) IN IF k = 0 THEN <<>> ELSE SubSeq(t, k, Len(t))
  IN  CASE text = <<>> -> Wrong
        [] text # <<>> /\ c \in Spaces -> ItemsTo(rest, l)
        [] text # <<>> /\ c = ";" -> ItemsTo(ConsumeLine(text), l)
        [] text # <<>> /\ c = ")" -> IF l.open = "(" THEN Result(ListOf(l.items, NilName), rest) ELSE Wrong
        [] text # <<>> /\ c = "]" -> IF l.open = "[" THEN Result(Vector(l.items), rest) ELSE Wrong
        [] text # <<>> /\ isdot ->
             IF l.open = "[" THEN Wrong
             ELSE IF l.items = <<>> THEN Strange
             ELSE IF behind.kind = "odd" THEN Strange
             ELSE IF behind.kind # "tree" THEN Wrong
             ELSE IF ";" \in Range(behind.rest) THEN Strange
             ELSE IF Close2(behind.rest) # <<>> /\ Close2(behind.rest)[1] = ")"
               THEN Result(ListOf(l.items, behind.tree), Tail(Close2(behind.rest)))
             ELSE IF "." \in Range(behind.rest) \/ "\"" \in Range(behind.rest) THEN Strange ELSE Wrong
        [] OTHER -> IF d.kind = "tree" THEN ItemsTo(d.rest, [l EXCEPT !.items = Append(@, d.tree)])
                    ELSE IF d.kind = "end" THEN Wrong ELSE d

ReadsAsWritten(text) ==
  LET d == Datum(text)
      r == ReadSexp(text)
  IN  CASE d.kind = "tree" -> r.sexp = d.tree /\ r.rest = ConsumeWhitespace(d.rest)
        [] d.kind = "wrong" -> r.sexp = NoSexp
        [] d.kind = "end" -> r.sexp = NilName /\ r.eof
        [] d.kind = "odd" -> TRUE
=============================================================================
