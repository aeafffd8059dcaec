----------------------------- MODULE Translator -----------------------------
(***************************************************************************)
(* src/translator.rs: a module of the dialect becomes a C file. Names get  *)
(* scopes, public ones a prefix, imports are replaced by what they declare *)
(* and everything is put in an order that C accepts.                       *)
(*                                                                         *)
(* A name is a pair of a namespace, "" without one, and an identifier; a C *)
(* name a pair of a prefix and an identifier. An expression is the names   *)
(* that it mentions, in order; an index of a composite literal is a name   *)
(* with "key" behind it. The operators work on a context, which keeps the  *)
(* first error.                                                            *)
(***************************************************************************)
EXTENDS Integers, Sequences, SequencesExt, TLC

CONSTANTS Builtin,      \* the C types of cspec.rs
          Library       \* the C symbols of cspec.rs

Plain(id) == <<"", id>>
Names(s) == {s[i] : i \in DOMAIN s}

(* tr_mod_elem's view of a module: its elements of one kind.               *)
Elements(m, kinds) == SelectSeq(m.elements, LAMBDA e : e.kind \in kinds)
IsPub(e) == "pub" \in DOMAIN e /\ e.pub

(* get_exports of parser.rs: aliases of structs are not among them.        *)
Exports(m) ==
  LET pub(kinds) == {e \in Names(Elements(m, kinds)) : e.pub}
  IN  [consts |-> UNION {Names(e.names) : e \in pub({"enum"})},
       fns    |-> {e.name : e \in pub({"function"})},
       types  |-> {e.name : e \in pub({"typedef", "struct"})}]

ExportsHas(x, id) == id \in x.consts \cup x.fns \cup x.types

(* TrCtx                                                                   *)
Context(m, mods) == [mod |-> m, mods |-> mods, scopes |-> <<>>, used |-> {}, failed |-> ""]
Fail(ctx, why) == IF ctx.failed = "" THEN [ctx EXCEPT !.failed = why] ELSE ctx

BeginScope(ctx) == [ctx EXCEPT !.scopes = Append(@, <<>>)]

EndScope(ctx) ==
  LET popped == [ctx EXCEPT !.scopes = Front(@)]
  IN  IF \E b \in Names(Last(ctx.scopes)) : ~b.pub /\ ~b.used
        THEN Fail(popped, "is unused") ELSE popped

AddBinding(ctx, id, pub) ==
  IF \E b \in Names(Last(ctx.scopes)) : b.name = id
    THEN Fail(ctx, "panic: was already defined")
    ELSE [ctx EXCEPT !.scopes[Len(ctx.scopes)] = Append(@, [name |-> id, pub |-> pub, used |-> FALSE])]

(* find_binding: the scopes from the inside out.                           *)
ScopesWith(ctx, id) == {s \in DOMAIN ctx.scopes : \E b \in Names(ctx.scopes[s]) : b.name = id}
Innermost(ctx, id) == CHOOSE s \in ScopesWith(ctx, id) : \A t \in ScopesWith(ctx, id) : t <= s
BoundAt(ctx, id) == CHOOSE i \in DOMAIN ctx.scopes[Innermost(ctx, id)] : ctx.scopes[Innermost(ctx, id)][i].name = id
IsBound(ctx, id) == ScopesWith(ctx, id) # {}
BoundPub_Anywhere(ctx, id) ==    \* a slip: hidden bindings count too
  \E s \in DOMAIN ctx.scopes : \E b \in Names(ctx.scopes[s]) : b.name = id /\ b.pub

BoundPub(ctx, id) == IsBound(ctx, id) /\ ctx.scopes[Innermost(ctx, id)][BoundAt(ctx, id)].pub

MarkUse(ctx, id) == [ctx EXCEPT !.scopes[Innermost(ctx, id)][BoundAt(ctx, id)].used = TRUE]

Prefixed(ctx, id, pub) == IF pub THEN <<ctx.mod.id, id>> ELSE Plain(id)

(* tr_comp_literal: a key is written as it is, its binding is not looked   *)
(* up and does not count as used.                                          *)
IsKey(x) == Len(x) = 3
TrKey(ctx, x) ==
  [ctx |-> IF x[1] = "" THEN ctx ELSE Fail(ctx, "panic: expected field name"), c |-> x]

(* tr_nsid and tr_nsid_in_expr                                             *)
TrName(ctx, x) ==
  LET ns == x[1]
      id == x[2]
      exports == Exports(ctx.mods[ns])
      used == [ctx EXCEPT !.used = @ \cup {ns}]
  IN  CASE ns = "OS" -> [ctx |-> ctx, c |-> Plain(id)]
        [] ns = "" ->
             [c   |-> Prefixed(ctx, id, BoundPub(ctx, id)),
              ctx |-> CASE IsBound(ctx, id) -> MarkUse(ctx, id)
                        [] ~IsBound(ctx, id) /\ id \in Library -> ctx
                        [] OTHER -> Fail(ctx, "is undefined")]
        [] OTHER ->
             [c   |-> <<ns, id>>,
              ctx |-> CASE ~ExportsHas(exports, id) -> Fail(used, "doesn't have exported")
                        [] id \in exports.types -> Fail(used, "panic: a type in an expression")
                        [] OTHER -> used]

TrNames(ctx, xs) ==
  FoldLeft(LAMBDA r, x : LET t == IF IsKey(x) THEN TrKey(r.ctx, x) ELSE TrName(r.ctx, x) IN [ctx |-> t.ctx, c |-> Append(r.c, t.c)],
           [ctx |-> ctx, c |-> <<>>], xs)

OwnTypes(m) == Names(Elements(m, {"typedef", "struct", "alias"}))

(* find_type and tr_typename                                               *)
TrType(ctx, x) ==
  LET ns == x[1]
      id == x[2]
      own == {e \in OwnTypes(ctx.mod) : e.name = id}
  IN  CASE ns = "OS" -> [ctx |-> ctx, c |-> Plain(id)]
        [] ns = "" ->
             [c   |-> Prefixed(ctx, id, id \notin Builtin /\ \E e \in own : e.pub),
              ctx |-> IF id \in Builtin \/ own # {} THEN ctx ELSE Fail(ctx, "unknown type")]
        [] OTHER ->
             [c   |-> <<ns, id>>,
              ctx |-> IF ExportsHas(Exports(ctx.mods[ns]), id)
                        THEN [ctx EXCEPT !.used = @ \cup {ns}]
                        ELSE Fail(ctx, "doesn't have exported")]

TrTypes(ctx, xs) ==
  FoldLeft(LAMBDA r, x : LET t == TrType(r.ctx, x) IN [ctx |-> t.ctx, c |-> Append(r.c, t.c)],
           [ctx |-> ctx, c |-> <<>>], xs)
-----------------------------------------------------------------------------
RECURSIVE TrBody(_, _), TrStatement(_, _), TrCases(_, _)

(* tr_body                                                                 *)
TrBody(ctx, body) ==
  LET r == FoldLeft(LAMBDA s, x : LET t == TrStatement(s.ctx, x) IN [ctx |-> t.ctx, c |-> Append(s.c, t.c)],
                    [ctx |-> BeginScope(ctx), c |-> <<>>], body)
  IN  [r EXCEPT !.ctx = EndScope(@)]

TrBodies(ctx, bodies) ==
  FoldLeft(LAMBDA r, b : LET t == TrBody(r.ctx, b) IN [ctx |-> t.ctx, c |-> Append(r.c, t.c)],
           [ctx |-> ctx, c |-> <<>>], bodies)

(* tr_vardecl and the counter of a for loop: the name is bound before its  *)
(* type and value are translated.                                          *)
TrDeclare(ctx, x) ==
  LET t == TrType(AddBinding(ctx, x.name[2], FALSE), x.type)
      v == TrNames(t.ctx, x.names)
  IN  [ctx |-> v.ctx, c |-> [x EXCEPT !.type = t.c, !.names = v.c]]

(* tr_if: the else branch comes first.                                     *)
TrIf(ctx, x) ==
  LET e == TrBodies(ctx, x.otherwise)
      n == TrNames(e.ctx, x.names)
      b == TrBody(n.ctx, x.body)
  IN  [ctx |-> b.ctx, c |-> [x EXCEPT !.names = n.c, !.body = b.c, !.otherwise = e.c]]

(* tr_for: a scope of its own around the head and the body.                *)
TrFor(ctx, x) ==
  LET i == TrDeclare(BeginScope(ctx), x.init)
      n == TrNames(i.ctx, x.names)
      b == TrBody(n.ctx, x.body)
  IN  [ctx |-> EndScope(b.ctx), c |-> [x EXCEPT !.init = i.c, !.names = n.c, !.body = b.c]]

TrWhile(ctx, x) ==
  LET n == TrNames(ctx, x.names)
      b == TrBody(n.ctx, x.body)
  IN  [ctx |-> b.ctx, c |-> [x EXCEPT !.names = n.c, !.body = b.c]]

(* mk_old_switch: the cases, then the value, then the default.             *)
TrCases(ctx, cases) ==
  FoldLeft(LAMBDA r, x : LET n == TrNames(r.ctx, x.names)
                             b == TrBody(n.ctx, x.body)
                         IN  [ctx |-> b.ctx, c |-> Append(r.c, [names |-> n.c, body |-> b.c])],
           [ctx |-> ctx, c |-> <<>>], cases)

TrSwitch(ctx, x) ==
  LET k == TrCases(ctx, x.cases)
      n == TrNames(k.ctx, x.names)
      d == TrBodies(n.ctx, x.default)
  IN  [ctx |-> d.ctx, c |-> [x EXCEPT !.cases = k.c, !.names = n.c, !.default = d.c]]

TrStatement(ctx, x) ==
  CASE x.kind = "declare" -> TrDeclare(ctx, x)
    [] x.kind = "if" -> TrIf(ctx, x)
    [] x.kind = "for" -> TrFor(ctx, x)
    [] x.kind = "while" -> TrWhile(ctx, x)
    [] x.kind = "switch" -> TrSwitch(ctx, x)
    [] x.kind \in {"expression", "return", "panic"} ->
         LET n == TrNames(ctx, x.names) IN [ctx |-> n.ctx, c |-> [x EXCEPT !.names = n.c]]

(* body_returns of node_queries.rs                                         *)
RECURSIVE Returns(_)
Returns(body) ==
  /\ body # <<>>
  /\ LET last == Last(body)
     IN  CASE last.kind \in {"return", "panic"} -> TRUE
           [] last.kind = "if" -> Returns(last.body)
           [] last.kind = "switch" -> /\ last.default # <<>> /\ Returns(last.default[1])
                                      /\ \A k \in DOMAIN last.cases : Returns(last.cases[k].body)
           [] last.kind = "while" -> last.names = <<Plain("true")>> \/ Returns(last.body)
           [] last.kind \in {"declare", "for", "expression"} -> FALSE
-----------------------------------------------------------------------------
(* A C element: its place among the others, the name it declares, what it  *)
(* mentions and which declaration of the dialect it stands for.            *)
CElem(kind, name, hidden, uses, body, of) ==
  [kind |-> kind, name |-> name, hidden |-> hidden, uses |-> uses, body |-> body, of |-> of]

Origin(ctx, id) == <<ctx.mod.id, id>>

TrTypedef(ctx, x) ==
  LET t == TrType(ctx, x.type)
      name == Prefixed(ctx, x.name, x.pub)
  IN  [ctx |-> t.ctx, c |-> <<CElem("typedef", name, ~x.pub, <<t.c>>, <<>>, Origin(ctx, x.name))>>]

TrStructAlias(ctx, x) ==
  [ctx |-> ctx, c |-> <<CElem("typedef", Prefixed(ctx, x.name, x.pub), ~x.pub, <<>>, <<>>, Origin(ctx, x.name))>>]

StructTag(name) == <<name[1] \o "__struct", name[2]>>

TrStruct(ctx, x) ==
  LET name == Prefixed(ctx, x.name, x.pub)
      t == TrTypes(ctx, x.types)
      tag == StructTag(name)
  IN  [ctx |-> t.ctx,
       c |-> << CElem("forward struct", tag, FALSE, <<>>, <<>>, Origin(ctx, x.name)),
                CElem("struct", tag, ~x.pub, t.c, <<>>, Origin(ctx, x.name)),
                CElem("typedef", name, ~x.pub, <<>>, <<>>, Origin(ctx, x.name)) >>]

TrEnum(ctx, x) ==
  [ctx |-> ctx,
   c |-> <<[kind |-> "enum", names |-> [i \in DOMAIN x.names |-> Prefixed(ctx, x.names[i], x.pub)],
            hidden |-> ~x.pub, of |-> [i \in DOMAIN x.names |-> Origin(ctx, x.names[i])]]>>]

TrDefine(ctx, x) == [ctx |-> ctx, c |-> <<CElem("macro", Plain(x.name), FALSE, <<>>, <<>>, Origin(ctx, x.name))>>]

(* tr_form: the name of a declaration, looked up among the bindings.       *)
FormName(ctx, id) == Prefixed(ctx, id, BoundPub(ctx, id) /\ id # "main")

TrModvar(ctx, x) ==
  LET t == TrType(ctx, x.type)
      v == TrNames(t.ctx, x.names)
  IN  [ctx |-> v.ctx, c |-> <<CElem("var", FormName(ctx, x.name), TRUE, <<t.c>> \o v.c, <<>>, Origin(ctx, x.name))>>]

(* tr_func_decl: a scope for the parameters, in which the body has its     *)
(* own, and in which the function's name is looked up again.               *)
TrFunction(ctx, x) ==
  LET params == FoldLeft(LAMBDA c, p : AddBinding(c, p, FALSE), BeginScope(ctx), x.params)
      b == TrBody(params, x.body)
      t == TrTypes(b.ctx, <<x.type>> \o x.types)
      name == FormName(b.ctx, x.name)
      checked == IF x.type # Plain("void") /\ ~Returns(x.body)
                   THEN Fail(EndScope(t.ctx), "missing return") ELSE EndScope(t.ctx)
      elem(kind) == CElem(kind, name, ~x.pub, t.c, [params |-> x.params, body |-> b.c], Origin(ctx, x.name))
  IN  [ctx |-> checked,
       c |-> <<elem("function")>> \o (IF x.name # "main" THEN <<elem("forward function")>> ELSE <<>>)]

TrElement(ctx, x) ==
  CASE x.kind = "define" -> TrDefine(ctx, x)
    [] x.kind = "enum" -> TrEnum(ctx, x)
    [] x.kind = "alias" -> TrStructAlias(ctx, x)
    [] x.kind = "typedef" -> TrTypedef(ctx, x)
    [] x.kind = "struct" -> TrStruct(ctx, x)
    [] x.kind = "var" -> TrModvar(ctx, x)
    [] x.kind = "function" -> TrFunction(ctx, x)

(* The module-level bindings: defines, enums, variables and functions.     *)
BindElement(ctx, x) ==
  CASE x.kind = "enum" -> FoldLeft(LAMBDA c, n : AddBinding(c, n, x.pub), ctx, x.names)
    [] x.kind \in {"define", "var"} -> AddBinding(ctx, x.name, FALSE)
    [] x.kind = "function" -> AddBinding(ctx, x.name, x.pub \/ x.name = "main")
    [] OTHER -> ctx

(* get_module_synopsis: what an importer sees of a C file.                 *)
Synopsis(file) ==
  SelectSeq(file, LAMBDA e : \/ e.kind = "macro"
                             \/ e.kind \in {"typedef", "struct", "enum", "forward function"} /\ ~e.hidden)

(* get_obj_key                                                             *)
ObjKey(e) == IF e.kind = "enum" THEN <<"enum", e.names>> ELSE <<"", e.name>>

(* expand_imports: the synopses, without what is there already.            *)
ExpandImports(m, files) ==
  LET all == FlattenSeq([i \in DOMAIN m.imports |-> Synopsis(files[m.imports[i]])])
  IN  SelectSeq([i \in DOMAIN all |-> [elem |-> all[i], at |-> i]],
                LAMBDA x : \A j \in 1 .. x.at - 1 : ObjKey(all[j]) # ObjKey(x.elem))

(* reorder_elems: by groups; a typedef or struct is not repeated.          *)
Order(e) ==
  CASE e.kind = "macro" -> 0
    [] e.kind = "forward struct" -> 1
    [] e.kind = "typedef" -> 2
    [] e.kind \in {"struct", "enum"} -> 3
    [] e.kind = "forward function" -> 4
    [] e.kind = "var" -> 5
    [] e.kind = "function" -> 6

Reorder(elems) ==
  LET kept == [i \in DOMAIN elems |-> ~ /\ elems[i].kind \in {"typedef", "struct"}
                                        /\ \E j \in 1 .. i - 1 : /\ elems[j].kind = elems[i].kind
                                                                 /\ <<elems[j].name, elems[j].uses>> = <<elems[i].name, elems[i].uses>>]
      group(o) == SelectSeq([i \in DOMAIN elems |-> <<i, elems[i]>>], LAMBDA x : kept[x[1]] /\ Order(x[2]) = o)
      sorted == FlattenSeq([o \in 1 .. 7 |-> group(o - 1)])
  IN  [i \in DOMAIN sorted |-> sorted[i][2]]

(* translate                                                               *)
Translate(m, mods, files) ==
  LET top == FoldLeft(BindElement, BeginScope(Context(m, mods)), m.elements)
      r == FoldLeft(LAMBDA s, x : LET t == TrElement(s.ctx, x) IN [ctx |-> t.ctx, c |-> s.c \o t.c],
                    [ctx |-> top, c |-> <<>>], m.elements)
      done == EndScope(r.ctx)
      unused == Names(m.imports) \ done.used
      head == ExpandImports(m, files)
  IN  [failed |-> IF done.failed = "" /\ unused # {} THEN "unused import" ELSE done.failed,
       file   |-> Reorder([i \in DOMAIN head |-> head[i].elem] \o r.c)]
-----------------------------------------------------------------------------
(* What the names of a function refer to, by the scoping that the dialect  *)
(* and C have in common: the innermost declaration before the use. The     *)
(* outermost scope is given; locals are numbered as they are declared.     *)
Refers(w, x) ==
  LET known == {s \in DOMAIN w.env : x \in DOMAIN w.env[s]}
  IN  IF known = {} THEN <<"unknown", x>>
      ELSE w.env[CHOOSE s \in known : \A t \in known : t <= s][x]

Mention(w, xs) ==
  [w EXCEPT !.refs = @ \o [i \in DOMAIN xs |-> IF IsKey(xs[i]) THEN Append(Refers(w, Front(xs[i])), "key")
                                                ELSE Refers(w, xs[i])]]
Lost(ref) == IsKey(ref) /\ ref[1] = "unknown" /\ ref[2][2] \notin Library
Declare(w, x) == [w EXCEPT !.n = @ + 1, !.env[Len(w.env)] = (x :> <<"local", w.n + 1>>) @@ @]
Enter(w) == [w EXCEPT !.env = Append(@, <<>>)]
Leave(w) == [w EXCEPT !.env = Front(@)]

RECURSIVE Walk(_, _), WalkStatement(_, _)
Walk(w, body) == Leave(FoldLeft(WalkStatement, Enter(w), body))
WalkAll(w, bodies) == FoldLeft(Walk, w, bodies)
WalkDeclare(w, x) == Mention(Mention(Declare(w, x.name), <<x.type>>), x.names)
WalkStatement(w, x) ==
  CASE x.kind = "declare" -> WalkDeclare(w, x)
    [] x.kind = "if" -> WalkAll(Walk(Mention(w, x.names), x.body), x.otherwise)
    [] x.kind = "for" -> Leave(Walk(Mention(WalkDeclare(Enter(w), x.init), x.names), x.body))
    [] x.kind = "while" -> Walk(Mention(w, x.names), x.body)
    [] x.kind = "switch" -> WalkAll(FoldLeft(LAMBDA v, c : Walk(Mention(v, c.names), c.body),
                                             Mention(w, x.names), x.cases), x.default)
    [] OTHER -> Mention(w, x.names)

References(outer, params, body) ==
  Walk(FoldLeft(LAMBDA w, p : Declare(w, Plain(p)), [env |-> <<outer, <<>>>>, refs |-> <<>>, n |-> 0], params),
       body).refs

(* The scope around the functions of a module.                             *)
DeclaredBy(e) == IF e.kind = "enum" THEN Names(e.names) ELSE {e.name}
ModuleScope(m, mods) ==
  LET own == UNION {DeclaredBy(e) : e \in Names(m.elements)}
      imported == UNION {{i} \X (LET x == Exports(mods[i]) IN x.consts \cup x.fns \cup x.types) : i \in Names(m.imports)}
  IN  [x \in ({""} \X own) \cup imported |-> IF x[1] = "" THEN <<m.id, x[2]>> ELSE x]

(* A C file, element by element: what it mentions has been declared,       *)
(* structs that are fields are complete, nothing is declared twice.        *)
DeclaresC(e) == IF e.kind = "enum" THEN {<<e.names[i], e.of[i]>> : i \in DOMAIN e.names} ELSE {<<e.name, e.of>>}
ScopeBefore(file, i) ==
  LET ds == UNION {DeclaresC(file[j]) : j \in 1 .. i - 1}
  IN  [c \in {d[1] : d \in ds} |-> (CHOOSE d \in ds : d[1] = c)[2]]

RECURSIVE Locals(_)
Locals(body) ==
  UNION {CASE x.kind = "declare" -> {x.name}
           [] x.kind = "for" -> {x.init.name} \cup Locals(x.body)
           [] x.kind = "while" -> Locals(x.body)
           [] x.kind = "if" -> Locals(x.body) \cup UNION {Locals(b) : b \in Names(x.otherwise)}
           [] x.kind = "switch" -> UNION ({Locals(c.body) : c \in Names(x.cases)} \cup {Locals(b) : b \in Names(x.default)})
           [] OTHER -> {} : x \in Names(body)}

CompilesAt(file, i) ==
  LET e == file[i]
      scope == ScopeBefore(file, i)
      macros == {file[j].name : j \in {k \in DOMAIN file : file[k].kind = "macro"}}
      structs == {file[j].of : j \in {k \in DOMAIN file : file[k].kind = "struct"}}
      earlier(kinds) == UNION {DeclaresC(file[j]) : j \in {k \in 1 .. i - 1 : file[k].kind \in kinds}}
  IN  /\ e.kind # "macro" => macros \cap {d[1] : d \in DeclaresC(e)} = {}
      /\ e.kind # "enum" => {SubSeq(u, 1, 2) : u \in Names(e.uses)} \subseteq DOMAIN scope \cup ({""} \X (Builtin \cup Library))
      /\ e.kind = "struct" => \A u \in Names(e.uses) \cap DOMAIN scope :
                                scope[u] \in structs => scope[u] \in {d[2] : d \in earlier({"struct"})}
      /\ e.kind \in {"macro", "typedef", "enum", "var", "function"} =>
           \A d \in DeclaresC(e) : d[1] \notin {o[1] : o \in earlier({e.kind})}
      /\ e.kind = "function" =>
           /\ ({Plain(p) : p \in Names(e.body.params)} \cup Locals(e.body.body)) \cap macros = {}
           /\ {x.name : x \in {s \in Names(e.body.body) : s.kind = "declare"}}
                \cap {Plain(p) : p \in Names(e.body.params)} = {}

FunctionIn(file, m, id) ==
  LET fs == SelectSeq(file, LAMBDA e : e.kind = "function" /\ e.of = <<m.id, id>>) IN fs[1]

(* The C file compiles and its functions mean what the module's mean; a    *)
(* public function has the name by which importers call it.                *)
SameMeaning(m, mods, file) ==
  /\ \A i \in DOMAIN file : CompilesAt(file, i)
  /\ \A f \in Names(Elements(m, {"function"})) :
       LET c == FunctionIn(file, m, f.name)
           refs == References(ScopeBefore(file, Len(file) + 1), f.params, c.body.body)
       IN  /\ refs = References(ModuleScope(m, mods), f.params, f.body)
           /\ \A i \in DOMAIN refs : ~Lost(refs[i])
           /\ f.pub /\ f.name # "main" => c.name = <<m.id, f.name>>

(* What che takes and C does not: a define with a name that something else *)
(* has, also in an importer; a public function with a parameter of its own *)
(* name; a parameter and a local of the same name; a public declaration    *)
(* that mentions a private type; a struct within one that comes first; an  *)
(* index of a composite literal that nothing declares, or that a public    *)
(* enum of the module does, since it is written without the prefix.        *)
Defines(m) == {e.name : e \in Names(Elements(m, {"define"}))}
Functions(m) == Names(Elements(m, {"function"}))
Captures(macros, m) ==
  macros \cap (UNION {DeclaredBy(e) : e \in Names(m.elements) \ Names(Elements(m, {"define"}))}
               \cup UNION {Names(f.params) \cup {x[2] : x \in Locals(f.body)} : f \in Functions(m)}) # {}
HidesItself(f) == f.pub /\ f.name \in Names(f.params)
Redeclares(f) == \E x \in Names(f.body) : x.kind = "declare" /\ x.name[2] \in Names(f.params)
TypesOf(e) == CASE e.kind = "function" -> {e.type} \cup Names(e.types)
                [] e.kind = "struct" -> Names(e.types)
                [] e.kind = "typedef" -> {e.type}
                [] OTHER -> {}
Exposes(m) == \E e \in Names(m.elements) : IsPub(e) /\ \E t \in OwnTypes(m) : ~t.pub /\ Plain(t.name) \in TypesOf(e)
TooLate(m) == \E i, j \in DOMAIN m.elements : /\ m.elements[i].kind = "struct" /\ m.elements[j].kind = "struct"
                                              /\ i <= j /\ Plain(m.elements[j].name) \in TypesOf(m.elements[i])
KeyIsLost(m, mods) ==
  \E f \in Functions(m) : \E ref \in Names(References(ModuleScope(m, mods), f.params, f.body)) :
    \/ Lost(ref)
    \/ IsKey(ref) /\ \E e \in Names(m.elements) : IsPub(e) /\ ref[1] = m.id /\ ref[2] \in DeclaredBy(e)
CRefuses(m) == \/ Captures(Defines(m), m)
               \/ \E f \in Functions(m) : HidesItself(f) \/ Redeclares(f)
               \/ TooLate(m)

(* A program of a library and a module that imports it: if che translates  *)
(* both then C compiles them and they mean the same, but for those above.  *)
SameProgram(lib, main) ==
  LET mods == lib.id :> lib @@ main.id :> main
      l == Translate(lib, mods, <<>>)
      p == Translate(main, mods, lib.id :> l.file)
      same == SameMeaning(lib, mods, l.file) /\ SameMeaning(main, mods, p.file)
      refused == \/ CRefuses(lib) \/ CRefuses(main) \/ Exposes(lib)
                 \/ KeyIsLost(lib, mods) \/ KeyIsLost(main, mods)
                 \/ Captures(Defines(lib), main) \/ Defines(lib) \cap Defines(main) # {}
  IN  l.failed = "" /\ p.failed = "" => (same <=> ~refused)
=============================================================================
