-------------------------------- MODULE Types --------------------------------
(***************************************************************************)
(* The types that src/types.rs and src/translator.rs give to expressions.  *)
(* A type is a base, a pair of a namespace and a name, and the operations  *)
(* that lead to it, outermost first. The result of a typing rule is the    *)
(* set of its types: one, or none where the code returns an error.         *)
(* Expressions are the trees of Expressions.tla.                           *)
(***************************************************************************)
EXTENDS Integers, Sequences

CONSTANTS Bindings,     \* the type of every name in scope
          Typedefs,     \* other_typedefs: the type behind an alias
          Structs       \* struct_typedefs: the types of the fields before a union

Deref == [op |-> "deref", args |-> <<>>]
Index == [op |-> "index", args |-> <<>>]
Call(args) == [op |-> "call", args |-> args]

Mk(ops, ns, name) == [base |-> <<ns, name>>, ops |-> ops]
Just(name) == Mk(<<>>, "", name)
Todo == Just("*** TODO ***")
Ellipsis == Just("...")

Inner(t) == [t EXCEPT !.ops = Tail(@)]
Starts(t, op) == t.ops # <<>> /\ Head(t.ops).op = op
IsTodo(t) == t = Todo
-----------------------------------------------------------------------------
Signed == {"int", "int16_t", "int32_t", "int64_t", "int8_t", "ptrdiff_t"}
Unsigned == {"size_t", "uint16_t", "uint32_t", "uint64_t", "uint8_t"}

Classify(t) ==
  CASE Starts(t, "deref") -> "PTR"
    [] Starts(t, "index") -> "ARR"
    [] Starts(t, "call") \/ (t.ops = <<>> /\ t.base[1] # "") -> "NONE"
    [] OTHER -> CASE t.base[2] \in Signed -> "SINT"
                  [] t.base[2] \in Unsigned -> "UINT"
                  [] t.base[2] \in {"float", "double"} -> "FLT"
                  [] t.base[2] = "number" -> "CONSTNUM"
                  [] t.base[2] = "char" -> "CHAR"
                  [] IsTodo(t) -> "UNK"
                  [] t.base[2] = "bool" -> "BOOL"
                  [] OTHER -> "NONE"

(* typesize panics for every other type.                                   *)
Sizes == [size_t |-> 64, uint64_t |-> 64, int64_t |-> 64, uint32_t |-> 32, int32_t |-> 32, uint16_t |-> 16,
          int16_t |-> 16, uint8_t |-> 8, int8_t |-> 8, int |-> 32, char |-> 8, double |-> 64, float |-> 32,
          time_t |-> 32, ptrdiff_t |-> 64]
WidestType(a, b) == IF Sizes[a.base[2]] > Sizes[b.base[2]] THEN a ELSE b

IsBooly(t) == Classify(t) \in {"PTR", "SINT", "UINT", "BOOL", "UNK"}

TypeofAddr(t) == [t EXCEPT !.ops = Append(@, Deref)]

TypeofDeref(t) ==
  CASE IsTodo(t) -> {t}
    [] Starts(t, "deref") -> {Inner(t)}
    [] OTHER -> {}

Integers2 == {"SINT", "UINT"}
Numbers == Integers2 \cup {"FLT"}

TypeofArith(a, b) ==
  LET x == Classify(a)
      y == Classify(b)
  IN  CASE x = "CONSTNUM" /\ y = "CONSTNUM" -> {a}
        [] x = y /\ x \in Numbers -> {WidestType(a, b)}
        [] {x, y} = {"CHAR", "CONSTNUM"} -> {Just("int")}
        [] x = "CONSTNUM" /\ y \in Numbers -> {b}
        [] x \in Numbers /\ y = "CONSTNUM" -> {a}
        [] y = "UNK" -> {b}
        [] x = "UNK" /\ y # "UNK" -> {a}
        [] {x, y} = Integers2 -> {WidestType(a, b)}
        [] x \in Integers2 /\ y = "FLT" -> {b}
        [] x = "FLT" /\ y \in Integers2 -> {a}
        [] OTHER -> {}

TypeofPlusminus(op, a, b) ==
  LET x == Classify(a)
      y == Classify(b)
      counts == {"CONSTNUM"} \cup Integers2
  IN  CASE x = "CONSTNUM" /\ y = "CONSTNUM" -> {a}
        [] x = y /\ x \in Numbers -> {WidestType(a, b)}
        [] {x, y} \cap Numbers # {} /\ "CONSTNUM" \in {x, y} -> {b}
        [] x = "UNK" -> {a}
        [] x # "UNK" /\ y = "UNK" -> {b}
        [] op = "-" /\ x = "PTR" /\ y = "PTR" -> {Just("ptrdiff_t")}
        [] x \in {"PTR", "ARR"} /\ y \in counts -> {a}
        [] x \in counts /\ y \in {"PTR", "ARR"} -> {a}
        [] OTHER -> {}

TypeofCmp(a, b) ==
  LET x == Classify(a)
      y == Classify(b)
  IN  CASE x = "BOOL" /\ y = "BOOL" -> {Just("boo")}
        [] \/ x = y /\ x \in Numbers \cup {"CHAR", "PTR", "CONSTNUM"}
           \/ "UNK" \in {x, y}
           \/ "CONSTNUM" \in {x, y} /\ {x, y} \cap (Numbers \cup {"CHAR"}) # {}
           \/ {x, y} = {"CHAR", "SINT"} -> {Just("bool")}
        [] OTHER -> {}

TypeofBoolcomp(a, b) == IF IsBooly(a) /\ IsBooly(b) THEN {Just("bool")} ELSE {}

TypeofIndex(arr) ==
  CASE IsTodo(arr) \/ arr.ops = <<>> -> {Todo}
    [] Starts(arr, "index") \/ Starts(arr, "deref") -> {Inner(arr)}
    [] OTHER -> {}
-----------------------------------------------------------------------------
(* translator.rs. The aliases are this module's own; C's own types are not *)
(* among them.                                                             *)
RootType_Inside(t) ==            \* a slip: the alias's operations come first
  IF t.base[1] = "" /\ t.base[2] \in DOMAIN Typedefs
    THEN [Typedefs[t.base[2]] EXCEPT !.ops = @ \o t.ops] ELSE t

RootType(t) ==
  CASE t.base[1] # "" -> Todo
    [] t.base[1] = "" /\ t.base[2] \in DOMAIN Typedefs ->
         [Typedefs[t.base[2]] EXCEPT !.ops = t.ops \o @]
    [] OTHER -> t

TypeofBinary(op, a, b) ==
  CASE op \in {"||", "&&"} -> TypeofBoolcomp(a, b)
    [] op \in {"==", "<", ">", "!=", ">=", "<="} -> TypeofCmp(RootType(a), RootType(b))
    [] op \in {"-", "+"} -> TypeofPlusminus(op, RootType(a), RootType(b))
    [] op \in {"*", "/", "%", "<<", ">>", "&", "|", "^"} -> TypeofArith(RootType(a), RootType(b))
    [] op \in {"=", "+=", "-=", "/=", "*=", "|=", "%=", "&=", "^="} -> {Just("void")}

TypeofPrefix(op, t) ==
  CASE op \in {"++", "--", "-", "~"} -> {t}
    [] op = "!" -> {Just("bool")}
    [] op = "&" -> {TypeofAddr(t)}
    [] op = "*" -> TypeofDeref(t)

(* A field of anything whose base is a struct of this module, or unknown.  *)
TypeofStructField(t, field) ==
  IF ~IsTodo(t) /\ t.base[1] = "" /\ t.base[2] \in DOMAIN Structs
     /\ field \in DOMAIN Structs[t.base[2]]
    THEN Structs[t.base[2]][field] ELSE Todo

(* A function, or an alias of one or a pointer to an alias of one.         *)
Callee(t) ==
  LET aliased == Len(t.ops) <= 1 /\ (t.ops = <<>> \/ Starts(t, "deref"))
                 /\ t.base[1] = "" /\ t.base[2] \in DOMAIN Typedefs
  IN  IF Starts(t, "call") \/ ~aliased THEN t ELSE Typedefs[t.base[2]]

TypeofCall(t, n) ==
  LET f == Callee(t)
      params == Head(f.ops).args
      variadic == params # <<>> /\ params[Len(params)] = Ellipsis
  IN  CASE IsTodo(t) \/ IsTodo(f) -> {Todo}
        [] ~IsTodo(f) /\ Starts(f, "call") ->
             IF (variadic /\ n >= Len(params) - 1) \/ (~variadic /\ n = Len(params)) THEN {Inner(f)} ELSE {}
        [] OTHER -> {}

(* tr_expr; the operands are typed first, so that their errors come first. *)
RECURSIVE TypeOf(_)
TypeOf(e) ==
  CASE e.kind = "word" -> {Bindings[e.word]}
    [] e.kind = "binary" -> UNION {TypeofBinary(e.op, a, b) : a \in TypeOf(e.a), b \in TypeOf(e.b)}
    [] e.kind = "prefix" -> UNION {TypeofPrefix(e.op, t) : t \in TypeOf(e.operand)}
    [] e.kind = "postfix" -> TypeOf(e.operand)
    [] e.kind = "field" -> {TypeofStructField(t, e.name) : t \in TypeOf(e.operand)}
    [] e.kind = "index" -> UNION {IF TypeOf(e.index) = {} THEN {} ELSE TypeofIndex(t) : t \in TypeOf(e.operand)}
    [] e.kind = "call" ->
         IF \E i \in DOMAIN e.args : TypeOf(e.args[i]) = {} THEN {}
         ELSE UNION {TypeofCall(t, Len(e.args)) : t \in TypeOf(e.operand)}
    [] e.kind = "cast" ->
         IF TypeOf(e.operand) = {} THEN {} ELSE {Mk([i \in 1 .. e.hops |-> Deref], "", e.type)}
    [] e.kind = "sizeof" -> IF TypeOf(e.operand) = {} THEN {} ELSE {Just("size_t")}
-----------------------------------------------------------------------------
(* C's types, of expressions that C accepts: aliases stand for what they   *)
(* name, at any depth, and arrays and functions become pointers in use.    *)
RECURSIVE Expand(_)
Expand(t) ==
  IF t.base[1] = "" /\ t.base[2] \in DOMAIN Typedefs
    THEN Expand([Typedefs[t.base[2]] EXCEPT !.ops = t.ops \o @]) ELSE t

Value(t) ==
  CASE Starts(t, "index") -> [t EXCEPT !.ops = <<Deref>> \o Tail(@)]
    [] Starts(t, "call") -> [t EXCEPT !.ops = <<Deref>> \o @]
    [] OTHER -> t

IsNumber(t) == t.ops = <<>> /\ (t.base[2] \in Signed \cup Unsigned \cup {"float", "double", "char", "bool", "number"})
IsPointer(t) == Starts(Value(t), "deref")
IsScalar(t) == IsNumber(t) \/ IsPointer(t)
SameValue(a, b) ==
  \/ IsNumber(a) /\ IsNumber(b)
  \/ ~IsNumber(a) /\ ~IsNumber(b) /\ Value(a) = Value(b)

CBinary(op, a, b) ==
  CASE op \in {"||", "&&"} -> IF IsScalar(a) /\ IsScalar(b) THEN {Just("int")} ELSE {}
    [] op \in {"==", "<"} -> IF IsScalar(a) /\ SameValue(a, b) THEN {Just("int")} ELSE {}
    [] op \in {"+", "-"} ->
         CASE IsNumber(a) /\ IsNumber(b) -> {Just("int")}
           [] IsPointer(a) /\ IsNumber(b) -> {Value(a)}
           [] IsNumber(a) /\ IsPointer(b) /\ op = "+" -> {Value(b)}
           [] IsPointer(a) /\ IsPointer(b) /\ op = "-" -> {Just("ptrdiff_t")}
           [] OTHER -> {}
    [] op \in {"*", "&"} -> IF IsNumber(a) /\ IsNumber(b) THEN {Just("int")} ELSE {}
    [] op = "=" -> IF SameValue(a, b) THEN {a} ELSE {}

Addressable(e) == e.kind \in {"word", "index", "field"} \/ (e.kind = "prefix" /\ e.op = "*")

CPrefix(op, t) ==
  CASE op \in {"++", "!"} -> IF IsScalar(t) THEN {IF op = "!" THEN Just("int") ELSE t} ELSE {}
    [] op = "-" -> IF IsNumber(t) THEN {t} ELSE {}
    [] op = "&" -> {[t EXCEPT !.ops = <<Deref>> \o @]}
    [] op = "*" -> IF IsPointer(t) THEN {Inner(Value(t))} ELSE {}

CField(op, t, field) ==
  LET s == IF op = "->" /\ IsPointer(t) THEN Inner(Value(t)) ELSE t
  IN  IF (op = "->") = IsPointer(t) /\ s.ops = <<>> /\ s.base[2] \in DOMAIN Structs
      THEN {Structs[s.base[2]][field]} ELSE {}

CCall(t) ==
  LET f == IF Starts(t, "call") THEN t ELSE IF IsPointer(t) THEN Inner(Value(t)) ELSE t
  IN  IF Starts(f, "call") THEN {Inner(f)} ELSE {}

RECURSIVE CTypeOf(_)
CTypeOf(e) ==
  {Expand(t) : t \in
    CASE e.kind = "word" -> {Bindings[e.word]}
      [] e.kind = "binary" -> UNION {CBinary(e.op, a, b) : a \in CTypeOf(e.a), b \in CTypeOf(e.b)}
      [] e.kind = "prefix" ->
           IF e.op = "&" /\ ~Addressable(e.operand) THEN {}
           ELSE UNION {CPrefix(e.op, x) : x \in CTypeOf(e.operand)}
      [] e.kind = "postfix" -> {x \in CTypeOf(e.operand) : IsScalar(x)}
      [] e.kind = "field" -> UNION {CField(e.op, x, e.name) : x \in CTypeOf(e.operand)}
      [] e.kind = "index" -> {Inner(Value(x)) : x \in {y \in CTypeOf(e.operand) : IsPointer(y)}}
      [] e.kind = "call" -> UNION {CCall(x) : x \in CTypeOf(e.operand)}
      [] e.kind = "cast" -> {Mk([i \in 1 .. e.hops |-> Deref], "", e.type)}
      [] e.kind = "sizeof" -> {Just("size_t")}}

(* What che takes for something else: a number plus a pointer, which it    *)
(* calls a number, and the address of an array or of a function.           *)
RECURSIVE Mistaken(_)
Mistaken(e) ==
  CASE e.kind = "word" -> FALSE
    [] e.kind = "binary" ->
         \/ Mistaken(e.a) \/ Mistaken(e.b)
         \/ e.op = "+" /\ (\E a \in CTypeOf(e.a) : IsNumber(a)) /\ (\E b \in CTypeOf(e.b) : IsPointer(b))
    [] e.kind = "prefix" ->
         \/ Mistaken(e.operand)
         \/ e.op = "&" /\ \E t \in CTypeOf(e.operand) : Starts(t, "index") \/ Starts(t, "call")
    [] e.kind = "index" -> Mistaken(e.operand)
    [] OTHER -> Mistaken(e.operand)

(* A comparison of two bools gets a type that does not exist: typeof_cmp   *)
(* has a slip of the pen, and types are looked up by name. So che refuses  *)
(* (a == b) && c of three bools, and !=, which C takes.                    *)
Misspelt == Just("boo")
RECURSIVE ComparesBools(_)
ComparesBools(e) ==
  CASE e.kind = "binary" -> /\ e.op \in {"==", "<", ">", "!=", ">=", "<="}
                            /\ \A t \in TypeOf(e.a) \cup TypeOf(e.b) : Classify(RootType(t)) = "BOOL"
    [] e.kind \in {"prefix", "postfix"} -> ComparesBools(e.operand)
    [] OTHER -> FALSE

(* A type that che gives to an expression that C accepts is C's type, up   *)
(* to which number it is, unless it is unknown, an assignment's or the     *)
(* misspelt one, which only comparisons of two bools have.                 *)
SameType(e) ==
  \A t \in TypeOf(e) : \A c \in CTypeOf(e) :
    IF t.base = Misspelt.base
      THEN ComparesBools(e)
      ELSE t.base # Todo.base /\ t # Just("void") /\ ~Mistaken(e) => SameValue(Expand(t), c)
=============================================================================
