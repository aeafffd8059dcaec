-------------------------------- MODULE Build --------------------------------
(***************************************************************************)
(* How the translator turns a main file into an ordered project and        *)
(* translates it: parse_project of src/build.rs and what translate of      *)
(* src/translator.rs needs of it.                                          *)
(*                                                                         *)
(* load_tree walks the imports depth first, every import of every visit,   *)
(* with the path from the main file (crumbs) to notice import loops; the   *)
(* walk is then reversed and its duplicates are dropped, which should put  *)
(* every module behind the modules it imports; the modules are parsed and  *)
(* translated in that order, and translating a module looks up the already *)
(* translated modules it imports.  The recursion is an explicit stack.     *)
(***************************************************************************)
EXTENDS Integers, Sequences, FiniteSets

CONSTANTS Files,        \* module paths
          MainFile,     \* the file given on the command line
          ImportLists,  \* the import lists a file may have
          FaultMaps     \* which file has which fault

Faults == {"none", "unreadable", "unparsable", "untranslatable"}

ASSUME FilesAssumption ==
  /\ IsFiniteSet(Files)
  /\ MainFile \in Files
  /\ ImportLists \subseteq Seq(Files)
  /\ FaultMaps \subseteq [Files -> Faults]

VARIABLES imports,   \* what each file imports, in the order of its #import lines
          fault,     \* what is wrong with each file
          phase,     \* "loading", "ordering", "parsing", "translating" or how it ended
          stack,     \* the calls of load_tree under way: [path, next import]
          cache,     \* files preparsed so far
          walk,      \* every visit of the walk, in order
          left,      \* visits of the reversed walk that are still to be filtered
          order,     \* the project's modules, dependencies first
          parsed,    \* modules parsed
          units      \* for each translated module the modules whose public
                     \* elements its C unit declares

vars == <<imports, fault, phase, stack, cache, walk, left, order, parsed, units>>

SetOf(s) == {s[i] : i \in DOMAIN s}

Init ==
  /\ imports \in [Files -> ImportLists]
  /\ fault \in FaultMaps
  /\ phase = "loading"
  /\ stack = <<>>
  /\ cache = {}
  /\ walk = <<>>
  /\ left = 0
  /\ order = <<>>
  /\ parsed = 0
  /\ units = <<>>

-----------------------------------------------------------------------------
(* load_tree                                                               *)

Crumbs == {stack[k].path : k \in DOMAIN stack}

Top == stack[Len(stack)]

(* load_tree(path) up to its loop, the caller's loop having moved on.  A   *)
(* file that cannot be read, has a lexical error or imports a path that    *)
(* does not exist fails here, when it is first preparsed.                  *)
Enter(path, callers) ==
  IF path \notin cache /\ fault[path] = "unreadable"
  THEN /\ phase' = "unreadable"
       /\ UNCHANGED <<stack, cache, walk>>
  ELSE /\ cache' = cache \cup {path}
       /\ walk' = Append(walk, path)
       /\ stack' = Append(callers, [path |-> path, next |-> 1])
       /\ UNCHANGED phase

LoadMain ==
  /\ phase = "loading"
  /\ walk = <<>>
  /\ Enter(MainFile, <<>>)
  /\ UNCHANGED <<imports, fault, left, order, parsed, units>>

LoadImport_OnlyOnce ==           \* a slip: skips a module that is known already
  /\ phase = "loading"
  /\ stack # <<>>
  /\ Top.next <= Len(imports[Top.path])
  /\ LET path    == imports[Top.path][Top.next]
         callers == [stack EXCEPT ![Len(stack)].next = @ + 1]
     IN IF path \in Crumbs
        THEN /\ phase' = "import loop"
             /\ UNCHANGED <<stack, cache, walk>>
        ELSE IF path \in cache
        THEN /\ stack' = callers
             /\ UNCHANGED <<phase, cache, walk>>
        ELSE Enter(path, callers)
  /\ UNCHANGED <<imports, fault, left, order, parsed, units>>

LoadImport_LoopIfSeen ==         \* a slip: takes a second visit for a loop
  /\ phase = "loading"
  /\ stack # <<>>
  /\ Top.next <= Len(imports[Top.path])
  /\ LET path    == imports[Top.path][Top.next]
         callers == [stack EXCEPT ![Len(stack)].next = @ + 1]
     IN IF path \in cache
        THEN /\ phase' = "import loop"
             /\ UNCHANGED <<stack, cache, walk>>
        ELSE Enter(path, callers)
  /\ UNCHANGED <<imports, fault, left, order, parsed, units>>

LoadImport ==
  /\ phase = "loading"
  /\ stack # <<>>
  /\ Top.next <= Len(imports[Top.path])
  /\ LET path    == imports[Top.path][Top.next]
         callers == [stack EXCEPT ![Len(stack)].next = @ + 1]
     IN IF path \in Crumbs
        THEN /\ phase' = "import loop"
             /\ UNCHANGED <<stack, cache, walk>>
        ELSE Enter(path, callers)
  /\ UNCHANGED <<imports, fault, left, order, parsed, units>>

LoadReturn_Early ==              \* a slip: the last import may be left out
  /\ phase = "loading"
  /\ stack # <<>>
  /\ Top.next >= Len(imports[Top.path])
  /\ stack' = SubSeq(stack, 1, Len(stack) - 1)
  /\ IF Len(stack) = 1
     THEN phase' = "ordering" /\ left' = Len(walk)
     ELSE UNCHANGED <<phase, left>>
  /\ UNCHANGED <<imports, fault, cache, walk, order, parsed, units>>

LoadReturn ==
  /\ phase = "loading"
  /\ stack # <<>>
  /\ Top.next > Len(imports[Top.path])
  /\ stack' = SubSeq(stack, 1, Len(stack) - 1)
  /\ IF Len(stack) = 1
     THEN phase' = "ordering" /\ left' = Len(walk)
     ELSE UNCHANGED <<phase, left>>
  /\ UNCHANGED <<imports, fault, cache, walk, order, parsed, units>>

-----------------------------------------------------------------------------
(* paths.reverse(), then uniq keeps the first of each path.                *)

Uniq_Forward ==                  \* a slip: the walk is not reversed
  /\ phase = "ordering"
  /\ left > 0
  /\ LET path == walk[Len(walk) + 1 - left]
     IN order' = IF path \in SetOf(order) THEN order ELSE Append(order, path)
  /\ left' = left - 1
  /\ phase' = IF left = 1 THEN "parsing" ELSE phase
  /\ UNCHANGED <<imports, fault, stack, cache, walk, parsed, units>>

Uniq_Stuck ==                    \* a slip: a duplicate is not stepped over
  /\ phase = "ordering"
  /\ left > 0
  /\ walk[left] \notin SetOf(order)
  /\ order' = Append(order, walk[left])
  /\ left' = left - 1
  /\ phase' = IF left = 1 THEN "parsing" ELSE phase
  /\ UNCHANGED <<imports, fault, stack, cache, walk, parsed, units>>

Uniq ==
  /\ phase = "ordering"
  /\ left > 0
  /\ order' = IF walk[left] \in SetOf(order) THEN order ELSE Append(order, walk[left])
  /\ left' = left - 1
  /\ phase' = IF left = 1 THEN "parsing" ELSE phase
  /\ UNCHANGED <<imports, fault, stack, cache, walk, parsed, units>>

(* parse_mods: the first module that does not parse ends the build.        *)
Parse ==
  /\ phase = "parsing"
  /\ IF fault[order[parsed + 1]] = "unparsable"
     THEN phase' = "unparsable" /\ UNCHANGED parsed
     ELSE /\ parsed' = parsed + 1
          /\ phase' = IF parsed + 1 = Len(order) THEN "translating" ELSE phase
  /\ UNCHANGED <<imports, fault, stack, cache, walk, left, order, units>>

-----------------------------------------------------------------------------
(* translate_mods and expand_imports                                       *)

(* The already translated units of the imports, one after the other, less  *)
(* the elements that are present already.                                  *)
Present(s, m) == \E i \in DOMAIN s : s[i] = m
Add(s, m) == IF Present(s, m) THEN s ELSE Append(s, m)

Merge_KeepingDuplicates(s, t) == s \o t     \* a slip: nothing is filtered

Merge(s, t) ==
  LET upto[n \in 0 .. Len(t)] == IF n = 0 THEN s ELSE Add(upto[n - 1], t[n])
  IN upto[Len(t)]

Headers(paths, unitOf) ==
  LET upto[n \in 0 .. Len(paths)] ==
        IF n = 0 THEN <<>> ELSE Merge(upto[n - 1], unitOf[paths[n]])
  IN upto[Len(paths)]

(* Translating m fails on the first error in its body, on an unused        *)
(* binding and on an unused import; only then come the imports' elements,  *)
(* where cmods[pos] of expand_imports panics if an import has no unit yet. *)
Translate ==
  /\ phase = "translating"
  /\ LET m      == order[Len(units) + 1]
         known  == SubSeq(order, 1, Len(units))
         unitOf == [p \in SetOf(known) |->
                      units[CHOOSE i \in DOMAIN known : known[i] = p]]
     IN IF fault[m] = "untranslatable"
        THEN phase' = "untranslatable" /\ UNCHANGED units
        ELSE IF \E d \in SetOf(imports[m]) : d \notin SetOf(known)
        THEN phase' = "panic" /\ UNCHANGED units
        ELSE /\ units' = Append(units, Append(Headers(imports[m], unitOf), m))
             /\ phase' = IF Len(units) + 1 = Len(order) THEN "done" ELSE phase
  /\ UNCHANGED <<imports, fault, stack, cache, walk, left, order, parsed>>

Ends == {"done", "import loop", "unreadable", "unparsable", "untranslatable", "panic"}

Ended == phase \in Ends /\ UNCHANGED vars

Next == \/ LoadMain \/ LoadImport \/ LoadReturn
        \/ Uniq \/ Parse \/ Translate
        \/ Ended

Spec == Init /\ [][Next]_vars

FairSpec == Spec /\ WF_vars(Next)

-----------------------------------------------------------------------------
(* Every variable has its type; the recursion is no deeper than there are  *)
(* files.                                                                  *)
TypeOK ==
  /\ imports \in [Files -> ImportLists]
  /\ fault \in [Files -> Faults]
  /\ phase \in {"loading", "ordering", "parsing", "translating"} \cup Ends
  /\ stack \in Seq([path : Files, next : Nat \ {0}])
  /\ cache \subseteq Files
  /\ walk \in Seq(Files)
  /\ left \in 0 .. Len(walk)
  /\ order \in Seq(Files)
  /\ parsed \in 0 .. Len(order)
  /\ units \in Seq(Seq(Files))
  /\ Len(units) <= Len(order)

(* expand_imports relies on "the modules being parsed in the order where   *)
(* we are guaranteed to have all current module's dependencies already     *)
(* parsed" (translator.rs:439): it never indexes a unit that is not there. *)
NeverPanics == phase # "panic"

(* When the order is complete each module comes once, behind everything it *)
(* imports, and the main file is the last one: deptree and exports take    *)
(* the last module for the main one.                                       *)
Ordered == phase \notin {"loading", "ordering", "import loop", "unreadable"}

OrderIsTopological ==
  Ordered =>
    /\ \A i, j \in DOMAIN order : order[i] = order[j] => i = j
    /\ \A i \in DOMAIN order : \A d \in SetOf(imports[order[i]]) :
         \E j \in 1 .. i - 1 : order[j] = d
    /\ order[Len(order)] = MainFile

(* load_tree keeps the chain of importers apart: nobody is entered twice   *)
(* on one chain, so the recursion is no deeper than there are files.       *)
ChainHasNoRepeat ==
  /\ \A i, j \in DOMAIN stack : stack[i].path = stack[j].path => i = j
  /\ Len(stack) <= Cardinality(Files)

(* What the build may depend on: the smallest set with the main file that  *)
(* is closed under imports.                                                *)
ClosedUnderImports(S) == \A m \in S : SetOf(imports[m]) \subseteq S

Reachable(m) ==
  {f \in Files : \A S \in SUBSET Files : m \in S /\ ClosedUnderImports(S) => f \in S}

CyclicAmong(S) == \E C \in SUBSET S : C # {} /\ \A m \in C : SetOf(imports[m]) \cap C # {}

(* An import loop is reported only for a loop, and no project with one     *)
(* gets past the walk; two paths to one module are no loop.                *)
LoopIffCyclic ==
  /\ phase = "import loop" => CyclicAmong(Reachable(MainFile))
  /\ Ordered => ~CyclicAmong(Reachable(MainFile))

(* The project is what the main file needs, no more and no less.           *)
OrderIsReachable == Ordered => SetOf(order) = Reachable(MainFile)

(* Every C unit declares the public elements of every module it can reach, *)
(* exactly once: the units of its imports carry those of their imports.    *)
HeadersComplete ==
  \A i \in DOMAIN units :
    /\ SetOf(units[i]) = Reachable(order[i])
    /\ \A j, k \in DOMAIN units[i] : units[i][j] = units[i][k] => j = k

(* The build always ends, import loops or not.                             *)
Terminates == <>(phase \in Ends)
=============================================================================
