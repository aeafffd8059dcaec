---------------------------- MODULE Build_proofs ----------------------------
(***************************************************************************)
(* Theorems about the build order of src/build.rs, for any finite set of   *)
(* files, any imports among them and any faults.                           *)
(***************************************************************************)
EXTENDS Build, RecursionTheorems, FiniteSetTheorems, SequenceTheorems, TLAPS

Frames == [path : Files, next : Nat \ {0}]

(* The types of everything but the units, which HeadersInv is about.       *)
LoaderTypes ==
  /\ imports \in [Files -> Seq(Files)]
  /\ phase \in {"loading", "ordering", "parsing", "translating"} \cup Ends
  /\ stack \in Seq(Frames)
  /\ walk \in Seq(Files)
  /\ left \in 0 .. Len(walk)
  /\ order \in Seq(Files)
  /\ parsed \in Nat
  /\ \E S : units \in Seq(S)

(* f has been entered and its import d not yet.                            *)
Pending(f, d) ==
  \E k \in DOMAIN stack :
    /\ stack[k].path = f
    /\ \E n \in DOMAIN imports[f] : n >= stack[k].next /\ imports[f][n] = d

VisitedAfter(i, d) == \E j \in DOMAIN walk : j > i /\ walk[j] = d

(* The walk starts at the main file and comes back to it never; what a     *)
(* visited file imports is visited after it or still pending.              *)
WalkInv ==
  /\ walk # <<>> => walk[1] = MainFile
  /\ \A i \in DOMAIN walk : i > 1 => walk[i] # MainFile
  /\ \A i \in DOMAIN walk : \A d \in SetOf(imports[walk[i]]) :
       VisitedAfter(i, d) \/ Pending(walk[i], d)

(* The main file is at the bottom of the stack until the walk is over.     *)
StackInv ==
  /\ walk = <<>> => stack = <<>> /\ phase \in {"loading", "unreadable"}
  /\ phase = "loading" /\ walk # <<>> => stack # <<>>
  /\ stack # <<>> => stack[1].path = MainFile
  /\ \A i, j \in DOMAIN stack : stack[i].path = stack[j].path => i = j
  /\ phase \notin {"loading", "import loop", "unreadable"} => stack = <<>>

(* Every file visited is needed: it is in each set with the main file that *)
(* is closed under imports.                                                *)
NeededInv ==
  \A S \in SUBSET Files :
    MainFile \in S /\ ClosedUnderImports(S) =>
      /\ \A i \in DOMAIN walk : walk[i] \in S
      /\ \A k \in DOMAIN stack : stack[k].path \in S

(* The order so far is the end of the walk without repetitions, each       *)
(* module behind its imports.                                              *)
Filtered == {walk[i] : i \in left + 1 .. Len(walk)}

OrderInv ==
  /\ phase = "loading" => order = <<>> /\ units = <<>> /\ parsed = 0
  /\ phase \in {"import loop", "unreadable"} => order = <<>> /\ units = <<>>
  /\ phase = "ordering" => left > 0
  /\ Ordered => left = 0
  /\ phase = "ordering" \/ Ordered =>
       /\ \A i, j \in DOMAIN order : order[i] = order[j] => i = j
       /\ \A i \in DOMAIN order : \A d \in SetOf(imports[order[i]]) :
            \E j \in 1 .. i - 1 : order[j] = d
       /\ SetOf(order) = Filtered
  /\ Ordered => order # <<>> /\ order[Len(order)] = MainFile

(* There is a module left to parse or to translate.                        *)
ProgressInv ==
  /\ phase = "ordering" => units = <<>> /\ parsed = 0
  /\ phase = "parsing" => parsed < Len(order) /\ units = <<>>
  /\ phase = "translating" => Len(units) < Len(order)

BuildInv ==
  /\ LoaderTypes /\ WalkInv /\ StackInv /\ NeededInv /\ OrderInv /\ ProgressInv
  /\ NeverPanics

-----------------------------------------------------------------------------

LEMMA InitInv == Init => BuildInv
<1> SUFFICES ASSUME Init
             PROVE  BuildInv
  OBVIOUS
<1>1. imports \in [Files -> Seq(Files)]
  BY FilesAssumption DEF Init
<1>2. units \in Seq({})
  BY DEF Init
<1>3. LoaderTypes
  BY <1>1, <1>2 DEF Init, LoaderTypes
<1> QED
  BY <1>3 DEF Init, BuildInv, WalkInv, StackInv, NeededInv, OrderInv,
              ProgressInv, NeverPanics, Ordered

(* What entering a file does to the stack and the walk.                    *)
LEMMA EnterEffect ==
  ASSUME NEW path \in Files, NEW callers \in Seq(Frames),
         walk \in Seq(Files), Enter(path, callers)
  PROVE  \/ phase' = "unreadable" /\ UNCHANGED <<stack, walk>>
         \/ /\ UNCHANGED phase
            /\ walk' \in Seq(Files) /\ Len(walk') = Len(walk) + 1
            /\ \A i \in 1 .. Len(walk) : walk'[i] = walk[i]
            /\ walk'[Len(walk) + 1] = path
            /\ stack' \in Seq(Frames)
            /\ Len(stack') = Len(callers) + 1
            /\ \A k \in 1 .. Len(callers) : stack'[k] = callers[k]
            /\ stack'[Len(callers) + 1] = [path |-> path, next |-> 1]
<1> DEFINE frame == [path |-> path, next |-> 1]
<1>1. frame \in Frames
  BY DEF Frames
<1>2. CASE path \notin cache /\ fault[path] = "unreadable"
  BY <1>2 DEF Enter
<1>3. CASE ~(path \notin cache /\ fault[path] = "unreadable")
  <2>1. UNCHANGED phase /\ walk' = Append(walk, path) /\ stack' = Append(callers, frame)
    BY <1>3 DEF Enter
  <2> QED
    BY <1>1, <2>1, AppendProperties
<1> QED
  BY <1>2, <1>3

(* The frames of callers wait for whatever was pending but for path.       *)
StillPending(callers, f, d) ==
  \E k \in DOMAIN callers :
    /\ callers[k].path = f
    /\ \E n \in DOMAIN imports[f] : n >= callers[k].next /\ imports[f][n] = d

(* Giving up the walk.                                                     *)
LEMMA StopKeepsInv ==
  ASSUME BuildInv, phase = "loading",
         \/ phase' = "unreadable"
         \/ phase' = "import loop" /\ walk # <<>>,
         UNCHANGED <<imports, stack, walk, left, order, parsed, units>>
  PROVE  BuildInv'
<1>1. phase' \in {"unreadable", "import loop"}
  OBVIOUS
<1>2. LoaderTypes'
  BY <1>1 DEF BuildInv, LoaderTypes, Ends
<1>3. WalkInv'
  <2>1. \A i, d : VisitedAfter(i, d)' <=> VisitedAfter(i, d)
    BY DEF VisitedAfter
  <2>2. \A f, d : Pending(f, d)' <=> Pending(f, d)
    BY DEF Pending
  <2> QED
    BY <2>1, <2>2 DEF BuildInv, WalkInv
<1>4. StackInv'
  BY <1>1 DEF BuildInv, StackInv
<1>5. NeededInv'
  BY DEF BuildInv, NeededInv, ClosedUnderImports
<1>6. OrderInv' /\ ProgressInv' /\ NeverPanics'
  BY <1>1 DEF BuildInv, OrderInv, ProgressInv, NeverPanics, Ordered
<1> QED
  BY <1>2, <1>3, <1>4, <1>5, <1>6 DEF BuildInv

LEMMA EnterKeepsInv ==
  ASSUME BuildInv, phase = "loading",
         NEW path \in Files, path \notin Crumbs, walk = <<>> => path = MainFile,
         NEW callers \in Seq(Frames),
         Len(callers) = Len(stack),
         \A k \in 1 .. Len(stack) : callers[k].path = stack[k].path,
         \A f \in Files : \A d \in SetOf(imports[f]) :
           Pending(f, d) => d = path \/ StillPending(callers, f, d),
         \A S \in SUBSET Files :
           MainFile \in S /\ ClosedUnderImports(S) => path \in S,
         Enter(path, callers),
         UNCHANGED <<imports, fault, left, order, parsed, units>>
  PROVE  BuildInv'
<1> USE DEF BuildInv
<1>0. walk \in Seq(Files) /\ stack \in Seq(Frames) /\ imports \in [Files -> Seq(Files)]
  BY DEF LoaderTypes
<1>1. CASE phase' = "unreadable" /\ UNCHANGED <<stack, walk>>
  BY <1>1, StopKeepsInv
<1>2. CASE /\ UNCHANGED phase
           /\ walk' \in Seq(Files) /\ Len(walk') = Len(walk) + 1
           /\ \A i \in 1 .. Len(walk) : walk'[i] = walk[i]
           /\ walk'[Len(walk) + 1] = path
           /\ stack' \in Seq(Frames)
           /\ Len(stack') = Len(callers) + 1
           /\ \A k \in 1 .. Len(callers) : stack'[k] = callers[k]
           /\ stack'[Len(callers) + 1] = [path |-> path, next |-> 1]
  <2>0. /\ DOMAIN walk' = 1 .. Len(walk) + 1
        /\ DOMAIN walk = 1 .. Len(walk)
        /\ DOMAIN stack = 1 .. Len(stack)
        /\ DOMAIN callers = 1 .. Len(stack)
        /\ DOMAIN stack' = 1 .. Len(stack) + 1
        /\ Len(walk) \in Nat /\ Len(stack) \in Nat
    BY <1>0, <1>2
  <2>1. LoaderTypes'
    BY <1>2, <2>0 DEF LoaderTypes
  <2>2. WalkInv'
    <3>1. walk'[1] = MainFile
      BY <1>2, <2>0 DEF WalkInv
    <3>2. ASSUME NEW i \in DOMAIN walk', i > 1
          PROVE  walk'[i] # MainFile
      <4>1. CASE i \in 1 .. Len(walk)
        BY <1>2, <2>0, <3>2, <4>1 DEF WalkInv
      <4>2. CASE i = Len(walk) + 1
        <5>1. walk # <<>>
          BY <2>0, <3>2, <4>2
        <5>2. stack # <<>> /\ stack[1].path = MainFile
          BY <5>1 DEF StackInv
        <5> QED
          BY <1>2, <2>0, <4>2, <5>2 DEF Crumbs
      <4> QED
        BY <2>0, <4>1, <4>2
    <3>3. ASSUME NEW i \in DOMAIN walk', NEW d \in SetOf(imports[walk'[i]])
          PROVE  VisitedAfter(i, d)' \/ Pending(walk[i], d)'
      <4>0. walk'[i] \in Files /\ imports[walk'[i]] \in Seq(Files)
        BY <1>0, <1>2
      <4>1. CASE i = Len(walk) + 1
        <5>1. \E n \in DOMAIN imports[path] : n >= 1 /\ imports[path][n] = d
          BY <1>2, <4>0, <4>1 DEF SetOf
        <5>2. stack'[Len(stack) + 1].path = path /\ stack'[Len(stack) + 1].next = 1
          BY <1>2
        <5>3. walk'[i] = path /\ Len(stack) + 1 \in DOMAIN stack' /\ imports' = imports
          BY <1>2, <2>0, <4>1
        <5> QED
          BY <5>1, <5>2, <5>3 DEF Pending
      <4>2. CASE i \in 1 .. Len(walk)
        <5>1. walk'[i] = walk[i] /\ walk[i] \in Files
          BY <1>0, <1>2, <4>2
        <5>2. CASE VisitedAfter(i, d)
          BY <1>2, <2>0, <5>2 DEF VisitedAfter
        <5>3. CASE d = path
          BY <1>2, <2>0, <4>2, <5>3 DEF VisitedAfter
        <5>4. CASE StillPending(callers, walk[i], d)
          <6>1. PICK k \in 1 .. Len(stack) :
                  /\ callers[k].path = walk[i]
                  /\ \E n \in DOMAIN imports[walk[i]] :
                       n >= callers[k].next /\ imports[walk[i]][n] = d
            BY <2>0, <5>4 DEF StillPending
          <6>2. k \in DOMAIN stack' /\ stack'[k] = callers[k]
            BY <1>2, <2>0
          <6> QED
            BY <5>1, <6>1, <6>2 DEF Pending
        <5> QED
          BY <2>0, <4>2, <5>1, <5>2, <5>3, <5>4 DEF WalkInv
      <4> QED
        BY <2>0, <4>1, <4>2
    <3> QED
      BY <3>1, <3>2, <3>3 DEF WalkInv
  <2>3. StackInv'
    <3>1. walk' # <<>> /\ stack' # <<>>
      BY <1>2, <2>0
    <3>2. stack'[1].path = MainFile
      BY <1>2, <2>0 DEF StackInv
    <3>3. ASSUME NEW i \in DOMAIN stack', NEW j \in DOMAIN stack',
                 stack'[i].path = stack'[j].path
          PROVE  i = j
      <4>1. \A k \in 1 .. Len(stack) : stack'[k].path = stack[k].path
        BY <1>2, <2>0
      <4>2. stack'[Len(stack) + 1].path = path
        BY <1>2
      <4>3. \A k \in 1 .. Len(stack) : stack[k].path # path
        BY <2>0 DEF Crumbs
      <4> QED
        BY <2>0, <3>3, <4>1, <4>2, <4>3 DEF StackInv
    <3> QED
      BY <1>2, <3>1, <3>2, <3>3 DEF StackInv
  <2>4. NeededInv'
    <3> SUFFICES ASSUME NEW S \in SUBSET Files, MainFile \in S, ClosedUnderImports(S)
                 PROVE  /\ \A i \in DOMAIN walk' : walk'[i] \in S
                        /\ \A k \in DOMAIN stack' : stack'[k].path \in S
      BY DEF NeededInv, ClosedUnderImports
    <3>1. path \in S
      OBVIOUS
    <3>2. /\ \A i \in DOMAIN walk : walk[i] \in S
          /\ \A k \in DOMAIN stack : stack[k].path \in S
      BY DEF NeededInv
    <3>3. \A i \in DOMAIN walk' : walk'[i] \in S
      BY <1>2, <2>0, <3>1, <3>2
    <3>4. \A k \in DOMAIN stack' : stack'[k].path \in S
      BY <1>2, <2>0, <3>1, <3>2
    <3> QED
      BY <3>3, <3>4
  <2>5. OrderInv' /\ ProgressInv' /\ NeverPanics'
    BY <1>2 DEF OrderInv, ProgressInv, NeverPanics, Ordered
  <2> QED
    BY <2>1, <2>2, <2>3, <2>4, <2>5
<1> QED
  BY <1>0, <1>1, <1>2, EnterEffect

LEMMA LoadMainKeepsInv == BuildInv /\ LoadMain => BuildInv'
<1> SUFFICES ASSUME BuildInv, LoadMain
             PROVE  BuildInv'
  OBVIOUS
<1>1. phase = "loading" /\ walk = <<>> /\ stack = <<>> /\ Enter(MainFile, <<>>)
  BY DEF LoadMain, BuildInv, StackInv
<1>2. MainFile \in Files /\ MainFile \notin Crumbs
  BY <1>1, FilesAssumption DEF Crumbs
<1>3. \A f \in Files : \A d \in SetOf(imports[f]) : ~Pending(f, d)
  BY <1>1 DEF Pending
<1>4. UNCHANGED <<imports, fault, left, order, parsed, units>>
  BY DEF LoadMain
<1>5. <<>> \in Seq(Frames) /\ Len(<<>>) = Len(stack) /\ 1 .. Len(stack) = {}
  BY <1>1
<1> QED
  BY <1>1, <1>2, <1>3, <1>4, <1>5, EnterKeepsInv

(* The caller's loop moves on, whatever it then finds.                     *)
LEMMA CallersAre ==
  ASSUME stack \in Seq(Frames), Len(stack) \in 1 .. Len(stack), Top \in Frames,
         NEW callers, callers = [stack EXCEPT ![Len(stack)].next = @ + 1]
  PROVE  /\ callers \in Seq(Frames)
         /\ Len(callers) = Len(stack)
         /\ DOMAIN callers = 1 .. Len(stack)
         /\ \A k \in 1 .. Len(stack) : callers[k].path = stack[k].path
         /\ \A k \in 1 .. Len(stack) - 1 : callers[k] = stack[k]
         /\ callers[Len(stack)].next = Top.next + 1
<1> DEFINE frame == [Top EXCEPT !.next = @ + 1]
<1>1. frame \in Frames /\ frame.path = Top.path /\ frame.next = Top.next + 1
  BY DEF Frames
<1>2. callers = [stack EXCEPT ![Len(stack)] = frame]
  BY DEF Top
<1>3. stack[Len(stack)].path = Top.path
  BY DEF Top
<1> HIDE DEF frame
<1> DEFINE c == [stack EXCEPT ![Len(stack)] = frame]
<1>4. /\ c \in Seq(Frames)
      /\ Len(c) = Len(stack)
      /\ \A k \in 1 .. Len(stack) : c[k] = IF k = Len(stack) THEN frame ELSE stack[k]
  BY <1>1, ExceptSeq
<1>5. /\ callers \in Seq(Frames)
      /\ Len(callers) = Len(stack)
      /\ \A k \in 1 .. Len(stack) :
           callers[k] = IF k = Len(stack) THEN frame ELSE stack[k]
  BY <1>2, <1>4
<1>6. callers[Len(stack)] = frame /\ Len(stack) \in Nat
  BY <1>5
<1>7. \A k \in 1 .. Len(stack) - 1 : callers[k] = stack[k]
  BY <1>5, <1>6
<1>8. \A k \in 1 .. Len(stack) : callers[k].path = stack[k].path
  BY <1>1, <1>3, <1>5
<1>9. DOMAIN callers = 1 .. Len(stack)
  BY <1>5
<1> QED
  BY <1>1, <1>5, <1>6, <1>7, <1>8, <1>9

LEMMA LoadImportKeepsInv == BuildInv /\ LoadImport => BuildInv'
<1> SUFFICES ASSUME BuildInv, LoadImport
             PROVE  BuildInv'
  OBVIOUS
<1> DEFINE path == imports[Top.path][Top.next]
           callers == [stack EXCEPT ![Len(stack)].next = @ + 1]
<1>1. /\ phase = "loading" /\ stack # <<>>
      /\ Top.next <= Len(imports[Top.path])
      /\ UNCHANGED <<imports, fault, left, order, parsed, units>>
  BY DEF LoadImport
<1>2. /\ stack \in Seq(Frames) /\ Len(stack) \in Nat \ {0}
      /\ DOMAIN stack = 1 .. Len(stack)
      /\ imports \in [Files -> Seq(Files)]
      /\ Len(stack) \in DOMAIN stack
  BY <1>1 DEF BuildInv, LoaderTypes
<1>3. /\ Top \in Frames
      /\ Top.next \in DOMAIN imports[Top.path]
      /\ path \in Files
      /\ path \in SetOf(imports[Top.path])
  <2>1. Top \in Frames
    BY <1>2 DEF Top
  <2>2. Top.path \in Files /\ Top.next \in Nat \ {0}
    BY <2>1 DEF Frames
  <2>3. imports[Top.path] \in Seq(Files)
    BY <1>2, <2>2
  <2>4. Top.next \in DOMAIN imports[Top.path]
    BY <1>1, <2>2, <2>3
  <2> HIDE DEF Top
  <2> QED
    BY <2>1, <2>3, <2>4 DEF SetOf
<1>4. CASE path \in Crumbs
  <2>1. phase' = "import loop" /\ UNCHANGED <<stack, walk>>
    BY <1>4 DEF LoadImport
  <2>2. walk # <<>>
    BY <1>1 DEF BuildInv, StackInv
  <2> QED
    BY <1>1, <2>1, <2>2, StopKeepsInv
<1>5. CASE path \notin Crumbs
  <2>1. Enter(path, callers)
    BY <1>5 DEF LoadImport
  <2>2. /\ callers \in Seq(Frames)
        /\ Len(callers) = Len(stack)
        /\ DOMAIN callers = 1 .. Len(stack)
        /\ \A k \in 1 .. Len(stack) : callers[k].path = stack[k].path
        /\ \A k \in 1 .. Len(stack) - 1 : callers[k] = stack[k]
        /\ callers[Len(stack)].next = Top.next + 1
    <3>1. Len(stack) \in 1 .. Len(stack)
      BY <1>2
    <3> QED
      BY <1>2, <1>3, <3>1, CallersAre
  <2>3. walk # <<>>
    BY <1>1 DEF BuildInv, StackInv
  <2>4. ASSUME NEW f \in Files, NEW d \in SetOf(imports[f]), Pending(f, d)
        PROVE  d = path \/ StillPending(callers, f, d)
    <3>1. PICK k \in 1 .. Len(stack) :
            /\ stack[k].path = f
            /\ \E n \in DOMAIN imports[f] : n >= stack[k].next /\ imports[f][n] = d
      BY <1>2, <2>4 DEF Pending
    <3>2. PICK n \in DOMAIN imports[f] : n >= stack[k].next /\ imports[f][n] = d
      BY <3>1
    <3>3. CASE k < Len(stack)
      BY <1>2, <2>2, <3>1, <3>2, <3>3 DEF StillPending
    <3>4. CASE k = Len(stack) /\ n = Top.next
      BY <3>1, <3>2, <3>4 DEF Top
    <3>5. CASE k = Len(stack) /\ n # Top.next
      <4>1. n \in Nat /\ Top.next \in Nat
        <5>1. imports[f] \in Seq(Files)
          BY <1>2
        <5> QED
          BY <1>3, <3>2, <5>1 DEF Frames
      <4>2. n >= Top.next
        BY <3>2, <3>5 DEF Top
      <4>3. n >= callers[k].next
        BY <2>2, <3>5, <4>1, <4>2
      <4> QED
        BY <1>2, <2>2, <3>1, <3>2, <4>3 DEF StillPending
    <3> QED
      BY <1>2, <3>3, <3>4, <3>5
  <2>5. ASSUME NEW S \in SUBSET Files, MainFile \in S, ClosedUnderImports(S)
        PROVE  path \in S
    <3>1. \A k \in DOMAIN stack : stack[k].path \in S
      BY <2>5 DEF BuildInv, NeededInv
    <3>2. Top.path \in S
      BY <1>2, <3>1 DEF Top
    <3> QED
      BY <1>3, <2>5, <3>2 DEF ClosedUnderImports
  <2> HIDE DEF path, callers
  <2> QED
    BY <1>1, <1>3, <1>5, <2>1, <2>2, <2>3, <2>4, <2>5, EnterKeepsInv
<1> QED
  BY <1>4, <1>5

LEMMA LoadReturnKeepsInv == BuildInv /\ LoadReturn => BuildInv'
<1> SUFFICES ASSUME BuildInv, LoadReturn
             PROVE  BuildInv'
  OBVIOUS
<1>1. /\ phase = "loading" /\ stack # <<>> /\ walk # <<>>
      /\ Top.next > Len(imports[Top.path])
      /\ stack' = SubSeq(stack, 1, Len(stack) - 1)
      /\ UNCHANGED <<imports, walk, order, parsed, units>>
      /\ \/ Len(stack) = 1 /\ phase' = "ordering" /\ left' = Len(walk)
         \/ Len(stack) # 1 /\ UNCHANGED <<phase, left>>
  BY DEF BuildInv, LoadReturn, StackInv
<1>2. /\ stack \in Seq(Frames) /\ Len(stack) \in Nat \ {0}
      /\ DOMAIN stack = 1 .. Len(stack)
      /\ imports \in [Files -> Seq(Files)]
      /\ walk \in Seq(Files) /\ Len(walk) \in Nat \ {0}
  BY <1>1 DEF BuildInv, LoaderTypes
<1> DEFINE depth == Len(stack)
<1>3. depth \in Nat \ {0} /\ DOMAIN stack = 1 .. depth
  BY <1>2
<1>4. /\ stack' \in Seq(Frames)
      /\ Len(stack') = Len(stack) - 1
      /\ DOMAIN stack' = 1 .. Len(stack) - 1
      /\ \A k \in 1 .. Len(stack) - 1 : stack'[k] = stack[k]
  <2>1. \A k \in 1 .. Len(stack) - 1 : stack[k] \in Frames
    BY <1>2
  <2> QED
    BY <1>1, <1>2, <2>1, SubSeqProperties
<1>5. /\ DOMAIN stack' = 1 .. depth - 1
       /\ \A k \in 1 .. depth - 1 : stack'[k] = stack[k]
  BY <1>4
<1> HIDE DEF depth
<1>6. \A k \in DOMAIN stack' : k \in DOMAIN stack /\ stack'[k] = stack[k]
  BY <1>3, <1>5
<1>7. \A k \in DOMAIN stack : k # depth => k \in DOMAIN stack' /\ stack'[k] = stack[k]
  BY <1>3, <1>5
<1>8. depth # 1 <=> stack' # <<>>
  <2>1. depth # 1 => 1 \in DOMAIN stack'
    BY <1>3, <1>5
  <2>2. depth = 1 => stack' = <<>>
    BY <1>1, SubSeqEmpty DEF depth
  <2>3. stack' = <<>> => DOMAIN stack' = {}
    OBVIOUS
  <2> QED
    BY <2>1, <2>2, <2>3
<1>9. LoaderTypes'
  <2>1. left' \in 0 .. Len(walk') /\ phase' \in {"loading", "ordering"}
    BY <1>1, <1>2 DEF BuildInv, LoaderTypes
  <2> QED
    BY <1>1, <1>4, <2>1 DEF BuildInv, LoaderTypes, Ends
<1>10. WalkInv'
  <2>1. ASSUME NEW f, NEW d, Pending(f, d)
        PROVE  Pending(f, d)'
    <3>1. PICK k \in 1 .. Len(stack) :
            /\ stack[k].path = f
            /\ \E n \in DOMAIN imports[f] : n >= stack[k].next /\ imports[f][n] = d
      BY <1>2, <2>1 DEF Pending
    <3>2. k # depth
      <4> SUFFICES ASSUME k = depth
                   PROVE  FALSE
        OBVIOUS
      <4>1. Top = stack[k] /\ Top \in Frames
        BY <1>2 DEF Top, depth
      <4>2. PICK m \in DOMAIN imports[f] : m >= Top.next
        BY <3>1, <4>1
      <4>3. f \in Files /\ Top.path = f /\ Top.next \in Nat
        BY <3>1, <4>1 DEF Frames
      <4>4. m \in 1 .. Len(imports[f]) /\ Len(imports[f]) \in Nat
        BY <1>2, <4>2, <4>3
      <4> QED
        BY <1>1, <4>2, <4>3, <4>4
    <3>3. k \in DOMAIN stack' /\ stack'[k] = stack[k]
      BY <1>3, <1>7, <3>2 DEF depth
    <3> QED
      BY <1>1, <3>1, <3>3 DEF Pending
  <2>2. \A i, d : VisitedAfter(i, d) => VisitedAfter(i, d)'
    BY <1>1 DEF VisitedAfter
  <2> QED
    BY <1>1, <2>1, <2>2 DEF BuildInv, WalkInv
<1>11. StackInv'
  <2>1. phase' = "loading" => stack' # <<>>
    BY <1>1, <1>8 DEF depth
  <2>2. stack' # <<>> => stack'[1].path = MainFile
    <3>1. depth # 1 => stack'[1] = stack[1]
      BY <1>3, <1>5
    <3> QED
      BY <1>1, <1>8, <3>1 DEF BuildInv, StackInv
  <2>3. \A i, j \in DOMAIN stack' : stack'[i].path = stack'[j].path => i = j
    BY <1>6 DEF BuildInv, StackInv
  <2>4. phase' \notin {"loading", "import loop", "unreadable"} => stack' = <<>>
    BY <1>1, <1>8 DEF depth
  <2> QED
    BY <1>1, <2>1, <2>2, <2>3, <2>4 DEF StackInv
<1>12. NeededInv'
  <2> SUFFICES ASSUME NEW S \in SUBSET Files, MainFile \in S, ClosedUnderImports(S)
               PROVE  /\ \A i \in DOMAIN walk' : walk'[i] \in S
                      /\ \A k \in DOMAIN stack' : stack'[k].path \in S
    BY <1>1 DEF BuildInv, NeededInv, ClosedUnderImports
  <2> QED
    BY <1>1, <1>6 DEF BuildInv, NeededInv
<1>13. OrderInv'
  <2>1. order = <<>> /\ units = <<>> /\ parsed = 0
    BY <1>1 DEF BuildInv, OrderInv
  <2>2. phase' = "ordering" => left' > 0 /\ Filtered' = {} /\ SetOf(order') = {}
    BY <1>1, <1>2, <2>1 DEF Filtered, SetOf
  <2>3. phase' \in {"loading", "ordering"} /\ order' = <<>> /\ units' = <<>> /\ parsed' = 0
    BY <1>1, <2>1
  <2>4. DOMAIN order' = {}
    BY <2>3
  <2>5. ~Ordered' /\ phase' \notin {"import loop", "unreadable"}
    BY <2>3 DEF Ordered
  <2>6. phase' = "loading" => order' = <<>> /\ units' = <<>> /\ parsed' = 0
    BY <2>3
  <2>7. phase' = "ordering" => left' > 0 /\ SetOf(order') = Filtered'
    BY <2>2
  <2> QED
    BY <2>4, <2>5, <2>6, <2>7 DEF OrderInv
<1>14. ProgressInv' /\ NeverPanics'
  BY <1>1 DEF BuildInv, ProgressInv, NeverPanics, OrderInv
<1> QED
  BY <1>9, <1>10, <1>11, <1>12, <1>13, <1>14 DEF BuildInv

-----------------------------------------------------------------------------

(* Once the walk is over nothing is pending.                               *)
LEMMA WalkStays ==
  ASSUME BuildInv, phase \notin {"loading", "import loop", "unreadable"},
         phase' \notin {"loading", "import loop", "unreadable"},
         UNCHANGED <<imports, stack, walk>>
  PROVE  WalkInv' /\ StackInv' /\ NeededInv'
<1>1. \A i, d : VisitedAfter(i, d)' <=> VisitedAfter(i, d)
  BY DEF VisitedAfter
<1>2. \A f, d : Pending(f, d)' <=> Pending(f, d)
  BY DEF Pending
<1>3. WalkInv'
  BY <1>1, <1>2 DEF BuildInv, WalkInv
<1>4. StackInv'
  BY DEF BuildInv, StackInv
<1>5. NeededInv'
  BY DEF BuildInv, NeededInv, ClosedUnderImports
<1> QED
  BY <1>3, <1>4, <1>5

(* Once the order is complete it stays what it is.                         *)
LEMMA OrderStays ==
  ASSUME BuildInv, phase \notin {"loading", "ordering", "import loop", "unreadable"},
         phase' \notin {"loading", "ordering", "import loop", "unreadable"},
         UNCHANGED <<imports, walk, left, order>>
  PROVE  OrderInv'
<1>1. Ordered /\ Ordered'
  BY DEF Ordered
<1>2. /\ left = 0 /\ SetOf(order) = Filtered
      /\ order # <<>> /\ order[Len(order)] = MainFile
      /\ \A i, j \in DOMAIN order : order[i] = order[j] => i = j
      /\ \A i \in DOMAIN order : \A d \in SetOf(imports[order[i]]) :
           \E j \in 1 .. i - 1 : order[j] = d
  BY <1>1 DEF BuildInv, OrderInv
<1>3. Filtered' = Filtered
  BY DEF Filtered
<1>4. SetOf(order)' = Filtered'
  BY <1>2, <1>3 DEF SetOf
<1>5. /\ \A i, j \in DOMAIN order' : order'[i] = order'[j] => i = j
      /\ \A i \in DOMAIN order' : \A d \in SetOf(imports'[order'[i]]) :
           \E j \in 1 .. i - 1 : order'[j] = d
  <2>1. imports' = imports /\ order' = order
    OBVIOUS
  <2>2. ASSUME NEW i \in DOMAIN order', NEW d \in SetOf(imports'[order'[i]])
        PROVE  \E j \in 1 .. i - 1 : order'[j] = d
    <3>1. i \in DOMAIN order /\ d \in SetOf(imports[order[i]])
      BY <2>1
    <3> QED
      BY <1>2, <2>1, <3>1
  <2>3. \A i, j \in DOMAIN order' : order'[i] = order'[j] => i = j
    BY <1>2, <2>1
  <2> QED
    BY <2>2, <2>3
<1>6. left' = 0 /\ order' # <<>> /\ order'[Len(order')] = MainFile
  BY <1>2
<1> QED
  BY <1>1, <1>4, <1>5, <1>6 DEF OrderInv

LEMMA UniqKeepsInv == BuildInv /\ Uniq => BuildInv'
<1> SUFFICES ASSUME BuildInv, Uniq
             PROVE  BuildInv'
  OBVIOUS
<1> DEFINE f == walk[left]
<1>1. /\ phase = "ordering" /\ left > 0
      /\ order' = IF f \in SetOf(order) THEN order ELSE Append(order, f)
      /\ left' = left - 1
      /\ phase' = IF left = 1 THEN "parsing" ELSE phase
      /\ UNCHANGED <<imports, stack, walk, parsed, units>>
  BY DEF Uniq
<1>2. /\ walk \in Seq(Files) /\ left \in 1 .. Len(walk) /\ Len(walk) \in Nat
      /\ order \in Seq(Files) /\ DOMAIN order = 1 .. Len(order) /\ Len(order) \in Nat
      /\ f \in Files /\ DOMAIN walk = 1 .. Len(walk)
      /\ parsed = 0 /\ units = <<>>
  BY <1>1 DEF BuildInv, LoaderTypes, ProgressInv
<1>3. stack = <<>> /\ walk # <<>>
  BY <1>1 DEF BuildInv, StackInv
<1>4. /\ \A i, j \in DOMAIN order : order[i] = order[j] => i = j
      /\ \A i \in DOMAIN order : \A d \in SetOf(imports[order[i]]) :
           \E j \in 1 .. i - 1 : order[j] = d
      /\ SetOf(order) = Filtered
  BY <1>1 DEF BuildInv, OrderInv
<1>5. \A d \in SetOf(imports[f]) : d \in SetOf(order)
  <2> TAKE d \in SetOf(imports[f])
  <2>1. ~Pending(f, d)
    BY <1>3 DEF Pending
  <2>2. VisitedAfter(left, d)
    BY <1>2, <2>1 DEF BuildInv, WalkInv
  <2>3. d \in Filtered
    BY <1>2, <2>2 DEF VisitedAfter, Filtered
  <2> QED
    BY <1>4, <2>3
<1>6. Filtered' = Filtered \cup {f}
  BY <1>1, <1>2 DEF Filtered
<1>7. /\ order' \in Seq(Files)
      /\ SetOf(order') = Filtered'
      /\ order' # <<>>
      /\ \A i, j \in DOMAIN order' : order'[i] = order'[j] => i = j
      /\ \A i \in DOMAIN order' : \A d \in SetOf(imports[order'[i]]) :
           \E j \in 1 .. i - 1 : order'[j] = d
      /\ f \notin SetOf(order) => order'[Len(order')] = f
  <2>1. CASE f \in SetOf(order)
    <3>1. order' = order /\ Filtered' = Filtered
      BY <1>1, <1>4, <1>6, <2>1
    <3>2. order # <<>>
      BY <2>1 DEF SetOf
    <3> QED
      BY <1>2, <1>4, <2>1, <3>1, <3>2
  <2>2. CASE f \notin SetOf(order)
    <3>1. /\ order' \in Seq(Files) /\ Len(order') = Len(order) + 1
          /\ DOMAIN order' = 1 .. Len(order) + 1
          /\ \A i \in 1 .. Len(order) : order'[i] = order[i]
          /\ order'[Len(order) + 1] = f
          /\ order' # <<>>
      BY <1>1, <1>2, <2>2, AppendProperties
    <3>2. SetOf(order') = SetOf(order) \cup {f}
      BY <1>2, <3>1 DEF SetOf
    <3>3. \A i, j \in DOMAIN order' : order'[i] = order'[j] => i = j
      BY <1>2, <1>4, <2>2, <3>1 DEF SetOf
    <3>4. ASSUME NEW i \in DOMAIN order', NEW d \in SetOf(imports[order'[i]])
          PROVE  \E j \in 1 .. i - 1 : order'[j] = d
      <4>1. CASE i = Len(order) + 1
        <5>1. d \in SetOf(order)
          BY <1>5, <3>1, <4>1
        <5> QED
          BY <1>2, <3>1, <4>1, <5>1 DEF SetOf
      <4>2. CASE i \in 1 .. Len(order)
        <5>1. PICK j \in 1 .. i - 1 : order[j] = d
          BY <1>2, <1>4, <3>1, <4>2
        <5>2. order'[j] = d
          BY <1>2, <3>1, <4>2, <5>1
        <5> QED
          BY <5>1, <5>2
      <4> QED
        BY <1>2, <3>1, <4>1, <4>2
    <3> QED
      BY <1>2, <1>4, <1>6, <3>1, <3>2, <3>3, <3>4
  <2> QED
    BY <2>1, <2>2
<1>8. left = 1 => f = MainFile /\ f \notin SetOf(order)
  BY <1>2, <1>3, <1>4 DEF BuildInv, WalkInv, Filtered
<1>9. LoaderTypes'
  BY <1>1, <1>2, <1>7 DEF BuildInv, LoaderTypes, Ends
<1>10. WalkInv' /\ StackInv' /\ NeededInv'
  BY <1>1, WalkStays
<1>11. OrderInv'
  <2>1. Ordered' => left' = 0 /\ order' # <<>> /\ order'[Len(order')] = MainFile
    BY <1>1, <1>2, <1>7, <1>8 DEF Ordered
  <2>2. phase' = "ordering" => left' > 0
    BY <1>1, <1>2
  <2>3. phase' \in {"ordering", "parsing"}
    BY <1>1
  <2>4. /\ \A i, j \in DOMAIN order' : order'[i] = order'[j] => i = j
        /\ \A i \in DOMAIN order' : \A d \in SetOf(imports'[order'[i]]) :
             \E j \in 1 .. i - 1 : order'[j] = d
        /\ SetOf(order') = Filtered'
    BY <1>1, <1>7
  <2> QED
    BY <2>1, <2>2, <2>3, <2>4 DEF OrderInv
<1>12. ProgressInv' /\ NeverPanics'
  <2>1. Len(order') > 0
    BY <1>7
  <2> QED
    BY <1>1, <1>2, <2>1 DEF ProgressInv, NeverPanics
<1> QED
  BY <1>9, <1>10, <1>11, <1>12 DEF BuildInv

LEMMA ParseKeepsInv == BuildInv /\ Parse => BuildInv'
<1> SUFFICES ASSUME BuildInv, Parse
             PROVE  BuildInv'
  OBVIOUS
<1>1. /\ phase = "parsing"
      /\ UNCHANGED <<imports, stack, walk, left, order, units>>
      /\ \/ phase' = "unparsable" /\ UNCHANGED parsed
         \/ /\ parsed' = parsed + 1
            /\ phase' = IF parsed + 1 = Len(order) THEN "translating" ELSE phase
  BY DEF Parse
<1>2. phase' \in {"unparsable", "parsing", "translating"}
  BY <1>1
<1>3. /\ parsed \in Nat /\ parsed < Len(order) /\ units = <<>>
      /\ order \in Seq(Files) /\ Len(order) \in Nat
  BY <1>1 DEF BuildInv, LoaderTypes, ProgressInv
<1>4. LoaderTypes'
  <2>1. parsed' \in Nat
    BY <1>1, <1>3
  <2>2. \E S : units' \in Seq(S)
    BY <1>1 DEF BuildInv, LoaderTypes
  <2> QED
    BY <1>1, <1>2, <2>1, <2>2 DEF BuildInv, LoaderTypes, Ends
<1>5. WalkInv' /\ StackInv' /\ NeededInv'
  BY <1>1, <1>2, WalkStays
<1>6. OrderInv'
  BY <1>1, <1>2, OrderStays
<1>7. ProgressInv' /\ NeverPanics'
  <2>1. phase' = "parsing" => parsed' < Len(order')
    BY <1>1, <1>3
  <2>2. phase' = "translating" => Len(units') < Len(order')
    BY <1>1, <1>3
  <2> QED
    BY <1>1, <1>2, <1>3, <2>1, <2>2 DEF ProgressInv, NeverPanics
<1> QED
  BY <1>4, <1>5, <1>6, <1>7 DEF BuildInv

(* The modules before a module in the order include all it imports, so     *)
(* there is a unit for each of them.                                       *)
LEMMA TranslateKeepsInv == BuildInv /\ Translate => BuildInv'
<1> SUFFICES ASSUME BuildInv, Translate
             PROVE  BuildInv'
  OBVIOUS
<1> DEFINE n == Len(units)
           m == order[n + 1]
           known == SubSeq(order, 1, n)
<1>1. phase = "translating" /\ UNCHANGED <<imports, stack, walk, left, order, parsed>>
  BY DEF Translate
<1>2. PICK S : units \in Seq(S)
  BY DEF BuildInv, LoaderTypes
<1>3. /\ n \in Nat /\ n < Len(order)
      /\ order \in Seq(Files) /\ Len(order) \in Nat /\ DOMAIN order = 1 .. Len(order)
  BY <1>1, <1>2 DEF BuildInv, LoaderTypes, ProgressInv
<1>4. /\ Ordered
      /\ \A i \in DOMAIN order : \A d \in SetOf(imports[order[i]]) :
           \E j \in 1 .. i - 1 : order[j] = d
  BY <1>1 DEF BuildInv, OrderInv, Ordered
<1>5. \A d \in SetOf(imports[m]) : d \in SetOf(known)
  <2> TAKE d \in SetOf(imports[m])
  <2>1. PICK j \in 1 .. n : order[j] = d
    <3>1. n + 1 \in DOMAIN order
      BY <1>3
    <3>2. \E j \in 1 .. (n + 1) - 1 : order[j] = d
      BY <1>4, <3>1
    <3>3. (n + 1) - 1 = n
      BY <1>3
    <3> QED
      BY <3>2, <3>3
  <2>2. /\ known \in Seq(Files) /\ Len(known) = n
        /\ \A i \in 1 .. n : known[i] = order[i]
    <3>1. \A i \in 1 .. n : order[i] \in Files
      BY <1>3
    <3> QED
      BY <1>3, <3>1, SubSeqProperties
  <2> HIDE DEF known
  <2> QED
    BY <2>1, <2>2 DEF SetOf
<1>6. \/ phase' = "untranslatable" /\ UNCHANGED units
      \/ /\ \E u : units' = Append(units, u)
         /\ phase' = IF n + 1 = Len(order) THEN "done" ELSE phase
  BY <1>5 DEF Translate
<1>7. /\ phase' \in {"untranslatable", "done", "translating"}
      /\ \E T : units' \in Seq(T)
      /\ phase' = "translating" => Len(units') < Len(order')
  <2>1. CASE phase' = "untranslatable" /\ UNCHANGED units
    BY <1>2, <2>1
  <2>2. CASE /\ \E u : units' = Append(units, u)
             /\ phase' = IF n + 1 = Len(order) THEN "done" ELSE phase
    <3>1. PICK u : units' = Append(units, u)
      BY <2>2
    <3>2. units \in Seq(S \cup {u})
      BY <1>2, SeqMonotonic
    <3>3. units' \in Seq(S \cup {u}) /\ Len(units') = n + 1
      BY <3>1, <3>2, AppendProperties
    <3> QED
      <4>1. phase' = "translating" => n + 1 < Len(order)
        <5> SUFFICES ASSUME phase' = "translating"
                     PROVE  n + 1 < Len(order)
          OBVIOUS
        <5>1. n + 1 # Len(order)
          BY <2>2
        <5>2. n \in Nat /\ Len(order) \in Nat /\ n < Len(order)
          BY <1>3
        <5> HIDE DEF n
        <5> QED
          BY <5>1, <5>2
      <4>2. phase' \in {"done", "translating"}
        BY <1>1, <2>2
      <4> QED
        BY <1>1, <3>3, <4>1, <4>2
  <2> QED
    BY <1>6, <2>1, <2>2
<1>8. LoaderTypes'
  BY <1>1, <1>7 DEF BuildInv, LoaderTypes, Ends
<1>9. WalkInv' /\ StackInv' /\ NeededInv'
  BY <1>1, <1>7, WalkStays
<1>10. OrderInv'
  BY <1>1, <1>7, OrderStays
<1>11. ProgressInv' /\ NeverPanics'
  BY <1>1, <1>7 DEF ProgressInv, NeverPanics
<1> QED
  BY <1>8, <1>9, <1>10, <1>11 DEF BuildInv

LEMMA StutterKeepsInv == BuildInv /\ UNCHANGED vars => BuildInv'
<1> SUFFICES ASSUME BuildInv, UNCHANGED vars
             PROVE  BuildInv'
  OBVIOUS
<1>1. UNCHANGED <<imports, phase, stack, walk, left, order, parsed, units>>
  BY DEF vars
<1>2. LoaderTypes' /\ StackInv' /\ NeededInv' /\ NeverPanics' /\ ProgressInv'
  BY <1>1 DEF BuildInv, LoaderTypes, StackInv, NeededInv, ClosedUnderImports,
              NeverPanics, ProgressInv
<1>3. WalkInv'
  BY <1>1 DEF BuildInv, WalkInv, VisitedAfter, Pending
<1>4. OrderInv'
  <2>1. Filtered' = Filtered /\ Ordered' = Ordered
    BY <1>1 DEF Filtered, Ordered
  <2>2. OrderInv
    BY DEF BuildInv
  <2>3. SetOf(order') = SetOf(order) /\ imports' = imports /\ order' = order
    BY <1>1
  <2>4. ASSUME NEW i \in DOMAIN order', NEW d \in SetOf(imports'[order'[i]]),
               phase = "ordering" \/ Ordered
        PROVE  \E j \in 1 .. i - 1 : order'[j] = d
    <3>1. i \in DOMAIN order /\ d \in SetOf(imports[order[i]])
      BY <2>3
    <3> QED
      BY <2>2, <2>3, <2>4, <3>1 DEF OrderInv
  <2>5. phase = "ordering" \/ Ordered =>
          /\ \A i, j \in DOMAIN order' : order'[i] = order'[j] => i = j
          /\ SetOf(order') = Filtered'
    BY <2>1, <2>2, <2>3 DEF OrderInv
  <2>6. /\ Ordered => left = 0 /\ order # <<>> /\ order[Len(order)] = MainFile
        /\ phase = "loading" => order = <<>> /\ units = <<>> /\ parsed = 0
        /\ phase \in {"import loop", "unreadable"} => order = <<>> /\ units = <<>>
        /\ phase = "ordering" => left > 0
    BY <2>2 DEF OrderInv
  <2>7. /\ Ordered' => left' = 0 /\ order' # <<>> /\ order'[Len(order')] = MainFile
        /\ phase' = "loading" => order' = <<>> /\ units' = <<>> /\ parsed' = 0
        /\ phase' \in {"import loop", "unreadable"} => order' = <<>> /\ units' = <<>>
        /\ phase' = "ordering" => left' > 0
    BY <1>1, <2>1, <2>6
  <2>8. phase' = "ordering" \/ Ordered' =>
          /\ \A i, j \in DOMAIN order' : order'[i] = order'[j] => i = j
          /\ SetOf(order') = Filtered'
    BY <1>1, <2>1, <2>5
  <2>9. phase' = "ordering" \/ Ordered' =>
          \A i \in DOMAIN order' : \A d \in SetOf(imports'[order'[i]]) :
            \E j \in 1 .. i - 1 : order'[j] = d
    BY <1>1, <2>1, <2>4
  <2> QED
    BY <2>7, <2>8, <2>9, Zenon DEF OrderInv
<1> QED
  BY <1>2, <1>3, <1>4 DEF BuildInv

LEMMA NextKeepsInv == BuildInv /\ [Next]_vars => BuildInv'
  BY LoadMainKeepsInv, LoadImportKeepsInv, LoadReturnKeepsInv, UniqKeepsInv,
     ParseKeepsInv, TranslateKeepsInv, StutterKeepsInv DEF Next, Ended

THEOREM BuildInvariant == Spec => []BuildInv
  BY InitInv, NextKeepsInv, PTL DEF Spec

-----------------------------------------------------------------------------

(* Translation finds the unit of every import (translator.rs:439): cmods   *)
(* is never indexed out of range, whatever the import graph.               *)
THEOREM ImportsAreTranslated == Spec => []NeverPanics
<1>1. BuildInv => NeverPanics
  BY DEF BuildInv
<1> QED
  BY <1>1, BuildInvariant, PTL

(* parse_project orders any project whose walk succeeds: each module once, *)
(* behind all its imports, the main file last.                             *)
THEOREM DependenciesComeFirst == Spec => []OrderIsTopological
<1>1. BuildInv => OrderIsTopological
  BY DEF BuildInv, OrderInv, OrderIsTopological
<1> QED
  BY <1>1, BuildInvariant, PTL

(* load_tree never enters a module twice on one chain of importers, so its *)
(* recursion is no deeper than there are files.                            *)
THEOREM RecursionIsBounded == Spec => []ChainHasNoRepeat
<1>1. BuildInv => ChainHasNoRepeat
  <2> SUFFICES ASSUME BuildInv
               PROVE  ChainHasNoRepeat
    OBVIOUS
  <2>1. /\ stack \in Seq(Frames) /\ DOMAIN stack = 1 .. Len(stack)
        /\ Len(stack) \in Nat
    BY DEF BuildInv, LoaderTypes
  <2>2. \A i, j \in DOMAIN stack : stack[i].path = stack[j].path => i = j
    BY DEF BuildInv, StackInv
  <2> DEFINE g == [i \in 1 .. Len(stack) |-> stack[i].path]
  <2>3. g \in Injection(1 .. Len(stack), Files)
    <3>1. \A i \in 1 .. Len(stack) : stack[i] \in Frames
      BY <2>1
    <3>2. \A i \in 1 .. Len(stack) : stack[i].path \in Files
      BY <3>1 DEF Frames
    <3> QED
      BY <2>1, <2>2, <3>2 DEF Injection, IsInjective
  <2>4. Cardinality(1 .. Len(stack)) <= Cardinality(Files)
    BY <2>3, FilesAssumption, FS_Injection
  <2>5. Cardinality(1 .. Len(stack)) = Len(stack)
    BY <2>1, FS_Interval
  <2> QED
    BY <2>2, <2>4, <2>5 DEF ChainHasNoRepeat
<1> QED
  BY <1>1, BuildInvariant, PTL

LEMMA OrderedIsReachable ==
  ASSUME BuildInv, Ordered
  PROVE  SetOf(order) = Reachable(MainFile)
<1>0. /\ order \in Seq(Files) /\ Len(order) \in Nat
      /\ DOMAIN order = 1 .. Len(order)
      /\ walk \in Seq(Files)
  BY DEF BuildInv, LoaderTypes
<1>1. /\ left = 0
      /\ SetOf(order) = Filtered
      /\ order # <<>> /\ order[Len(order)] = MainFile
      /\ \A i \in DOMAIN order : \A d \in SetOf(imports[order[i]]) :
           \E j \in 1 .. i - 1 : order[j] = d
  BY DEF BuildInv, OrderInv
<1>2. SetOf(order) \subseteq Files /\ MainFile \in SetOf(order)
  BY <1>0, <1>1 DEF SetOf
<1>3. ClosedUnderImports(SetOf(order))
  <2> SUFFICES ASSUME NEW m \in SetOf(order), NEW d \in SetOf(imports[m])
               PROVE  d \in SetOf(order)
    BY DEF ClosedUnderImports
  <2>1. PICK i \in DOMAIN order : order[i] = m
    BY DEF SetOf
  <2>2. PICK j \in 1 .. i - 1 : order[j] = d
    BY <1>0, <1>1, <2>1
  <2>3. j \in DOMAIN order
    BY <1>0, <1>1, <2>2
  <2> QED
    BY <2>2, <2>3 DEF SetOf
<1>4. ASSUME NEW f \in SetOf(order), NEW S \in SUBSET Files,
             MainFile \in S, ClosedUnderImports(S)
      PROVE  f \in S
  <2>1. \A i \in DOMAIN walk : walk[i] \in S
    BY <1>4 DEF BuildInv, NeededInv
  <2>2. PICK i \in 1 .. Len(walk) : f = walk[i]
    BY <1>0, <1>1 DEF Filtered
  <2> QED
    BY <1>0, <2>1, <2>2
<1> QED
  BY <1>2, <1>3, <1>4 DEF Reachable

(* The project holds what the main file needs, no more and no less.        *)
THEOREM OrderIsWhatMainNeeds == Spec => []OrderIsReachable
<1>1. BuildInv => OrderIsReachable
  BY OrderedIsReachable DEF OrderIsReachable
<1> QED
  BY <1>1, BuildInvariant, PTL


-----------------------------------------------------------------------------
(***************************************************************************)
(* Import loops.  Each file on the stack is imported by the one below it,  *)
(* and the walk ends in a loop only when the file at the top imports one   *)
(* on the stack.                                                           *)
(***************************************************************************)

Chained(s) ==
  \A k \in DOMAIN s : k + 1 \in DOMAIN s => s[k + 1].path \in SetOf(imports[s[k].path])

LoopInv ==
  /\ Chained(stack)
  /\ phase = "import loop" =>
       stack # <<>> /\ \E k \in DOMAIN stack : stack[k].path \in SetOf(imports[Top.path])

LEMMA StackFacts ==
  ASSUME BuildInv
  PROVE  /\ stack \in Seq(Frames) /\ Len(stack) \in Nat /\ DOMAIN stack = 1 .. Len(stack)
         /\ \A k \in DOMAIN stack : stack[k].path \in Files /\ stack[k].next \in Nat \ {0}
         /\ imports \in [Files -> Seq(Files)] /\ walk \in Seq(Files)
<1>1. stack \in Seq(Frames) /\ imports \in [Files -> Seq(Files)] /\ walk \in Seq(Files)
  BY DEF BuildInv, LoaderTypes
<1>2. Len(stack) \in Nat /\ DOMAIN stack = 1 .. Len(stack)
      /\ \A k \in DOMAIN stack : stack[k] \in Frames
  BY <1>1
<1> QED
  BY <1>1, <1>2 DEF Frames

LEMMA LoadImportChains ==
  ASSUME BuildInv, LoopInv, LoadImport
  PROVE  LoopInv'
<1> DEFINE n == Len(stack)
           path == imports[Top.path][Top.next]
           callers == [stack EXCEPT ![n].next = @ + 1]
<1>1. /\ stack \in Seq(Frames) /\ n \in Nat \ {0} /\ DOMAIN stack = 1 .. n /\ n \in DOMAIN stack
      /\ \A k \in DOMAIN stack : stack[k].path \in Files /\ stack[k].next \in Nat \ {0}
      /\ imports \in [Files -> Seq(Files)] /\ walk \in Seq(Files)
  <2>1. stack # <<>>
    BY DEF LoadImport
  <2> QED
    BY <2>1, StackFacts
<1>2. phase = "loading" /\ imports' = imports /\ stack # <<>> /\ Top.next <= Len(imports[Top.path])
  BY DEF LoadImport
<1>3. path \in Files /\ path \in SetOf(imports[Top.path])
  <2>1. Top.path \in Files /\ Top.next \in Nat \ {0}
    BY <1>1 DEF Top
  <2>2. imports[Top.path] \in Seq(Files)
    BY <1>1, <2>1
  <2>3. Top.next \in DOMAIN imports[Top.path]
    BY <1>2, <2>1, <2>2
  <2> HIDE DEF Top
  <2> QED
    BY <2>2, <2>3 DEF SetOf
<1>4. CASE path \in Crumbs
  <2>1. stack' = stack
    BY <1>4 DEF LoadImport
  <2>2. \E k \in DOMAIN stack : stack[k].path = path
    BY <1>4 DEF Crumbs
  <2>3. Top' = Top
    BY <2>1 DEF Top
  <2> HIDE DEF path, Top
  <2> QED
    BY <1>2, <1>3, <2>1, <2>2, <2>3 DEF LoopInv, Chained
<1>5. CASE path \notin Crumbs
  <2>1. Enter(path, callers)
    BY <1>5 DEF LoadImport
  <2>2. /\ callers \in Seq(Frames) /\ Len(callers) = n
        /\ \A k \in 1 .. n : callers[k].path = stack[k].path
    <3>1. Len(stack) \in 1 .. Len(stack) /\ Top \in Frames
      BY <1>1 DEF Top
    <3> QED
      BY <1>1, <3>1, CallersAre
  <2> HIDE DEF path, callers, n
  <2>3. CASE stack' = stack /\ phase' = "unreadable"
    BY <1>2, <2>3 DEF LoopInv, Chained
  <2>4. CASE /\ phase' = phase /\ stack' \in Seq(Frames) /\ Len(stack') = n + 1
             /\ \A k \in 1 .. n : stack'[k] = callers[k]
             /\ stack'[n + 1] = [path |-> path, next |-> 1]
    <3>1. DOMAIN stack' = 1 .. n + 1
      BY <2>4
    <3>2. stack'[n + 1].path = path
      BY <2>4
    <3>3. \A k \in 1 .. n : stack'[k].path = stack[k].path
      BY <2>2, <2>4
    <3>4. ASSUME NEW k \in 1 .. n + 1, k + 1 \in 1 .. n + 1
          PROVE  stack'[k + 1].path \in SetOf(imports[stack'[k].path])
      <4>1. CASE k = n
        <5>1. stack'[k].path = Top.path
          BY <1>1, <3>3, <4>1 DEF Top, n
        <5> QED
          BY <1>3, <3>2, <4>1, <5>1
      <4>2. CASE k # n
        <5>1. k \in 1 .. n /\ k + 1 \in 1 .. n
          BY <1>1, <3>4, <4>2
        <5> QED
          BY <1>1, <3>3, <5>1 DEF LoopInv, Chained
      <4> QED
        BY <4>1, <4>2
    <3> QED
      BY <1>2, <2>4, <3>1, <3>4 DEF LoopInv, Chained
  <2>5. walk \in Seq(Files) /\ path \in Files
    BY <1>1, <1>3
  <2>6. \/ phase' = "unreadable" /\ stack' = stack
        \/ /\ phase' = phase /\ stack' \in Seq(Frames) /\ Len(stack') = n + 1
           /\ \A k \in 1 .. n : stack'[k] = callers[k]
           /\ stack'[n + 1] = [path |-> path, next |-> 1]
    BY <2>1, <2>2, <2>5, EnterEffect
  <2> QED
    BY <2>3, <2>4, <2>6
<1> QED
  BY <1>4, <1>5

LEMMA LoopNext ==
  ASSUME BuildInv, LoopInv, [Next]_vars
  PROVE  LoopInv'
<1>1. /\ stack \in Seq(Frames) /\ Len(stack) \in Nat /\ DOMAIN stack = 1 .. Len(stack)
      /\ walk \in Seq(Files)
  BY StackFacts
<1>2. CASE LoadMain
  <2>1. /\ phase = "loading" /\ walk = <<>> /\ stack = <<>> /\ Enter(MainFile, <<>>)
        /\ imports' = imports
    BY <1>2 DEF LoadMain, BuildInv, StackInv
  <2>2. <<>> \in Seq(Frames) /\ Len(<<>>) = 0 /\ MainFile \in Files
    BY FilesAssumption
  <2>3. \/ phase' = "unreadable" /\ stack' = stack
        \/ phase' = phase /\ stack' \in Seq(Frames) /\ Len(stack') = 0 + 1
    BY <1>1, <2>1, <2>2, EnterEffect
  <2>4. CASE phase' = "unreadable" /\ stack' = stack
    BY <2>1, <2>4 DEF LoopInv, Chained
  <2>5. CASE phase' = phase /\ stack' \in Seq(Frames) /\ Len(stack') = 0 + 1
    <3>1. DOMAIN stack' = 1 .. 1
      BY <2>5
    <3>2. \A k \in 1 .. 1 : ~ (k + 1 \in 1 .. 1)
      OBVIOUS
    <3> QED
      BY <2>1, <2>5, <3>1, <3>2 DEF LoopInv, Chained
  <2> QED
    BY <2>3, <2>4, <2>5
<1>3. CASE LoadImport
  BY <1>3, LoadImportChains
<1>4. CASE LoadReturn
  <2> DEFINE n == Len(stack) - 1
             s == SubSeq(stack, 1, n)
  <2>1. stack' = s /\ stack # <<>> /\ imports' = imports /\ phase = "loading"
        /\ phase' \in {"loading", "ordering"}
    BY <1>4 DEF LoadReturn
  <2>2. n \in Nat
    BY <1>1, <2>1
  <2>3. Len(s) = n /\ DOMAIN s = 1 .. n /\ \A k \in 1 .. n : s[k] = stack[k]
    BY <1>1, <2>2, SubSeqProperties
  <2> HIDE DEF s
  <2>4. 1 .. n \subseteq DOMAIN stack
    BY <1>1, <2>2
  <2> HIDE DEF n
  <2>5. Chained(s)
    BY <2>3, <2>4 DEF LoopInv, Chained
  <2> QED
    BY <2>1, <2>5 DEF LoopInv, Chained
<1>5. CASE Uniq \/ Parse \/ Translate \/ Ended \/ UNCHANGED vars
  <2>1. imports' = imports /\ stack' = stack /\ (phase' = "import loop" => phase = "import loop")
    BY <1>5 DEF Uniq, Parse, Translate, Ended, vars
  <2> QED
    BY <2>1 DEF LoopInv, Chained, Top
<1> QED
  BY <1>2, <1>3, <1>4, <1>5 DEF Next

(* Only what the main file needs is ever entered.                          *)
LEMMA NeededIsReachable ==
  ASSUME BuildInv
  PROVE  \A k \in DOMAIN stack : stack[k].path \in Reachable(MainFile)
<1>1. \A k \in DOMAIN stack : stack[k].path \in Files
  BY StackFacts
<1>2. \A S \in SUBSET Files : MainFile \in S /\ ClosedUnderImports(S) =>
        \A k \in DOMAIN stack : stack[k].path \in S
  BY DEF BuildInv, NeededInv
<1> QED
  BY <1>1, <1>2 DEF Reachable

LEMMA Between ==
  ASSUME NEW n \in Nat, NEW j \in 1 .. n
  PROVE  /\ j \in j .. n /\ n \in j .. n
         /\ \A k \in j .. n :
              k \in 1 .. n /\ (k # n => k + 1 \in j .. n /\ k + 1 \in 1 .. n)
  OBVIOUS

(* The files on the stack from the one imported to the top are a loop.     *)
LEMMA LoopIsCyclic ==
  ASSUME BuildInv, LoopInv, phase = "import loop"
  PROVE  CyclicAmong(Reachable(MainFile))
<1> DEFINE n == Len(stack)
<1>1. /\ n \in Nat \ {0} /\ DOMAIN stack = 1 .. n
      /\ \A k \in DOMAIN stack : stack[k].path \in Reachable(MainFile)
  <2>1. stack # <<>>
    BY DEF LoopInv
  <2>2. stack \in Seq(Frames) /\ n \in Nat /\ DOMAIN stack = 1 .. n
    BY StackFacts
  <2>3. n # 0
    BY <2>1, <2>2, EmptySeq
  <2> QED
    BY <2>2, <2>3, NeededIsReachable
<1>2. n \in Nat
  BY <1>1
<1>3. PICK j : j \in 1 .. n /\ stack[j].path \in SetOf(imports[stack[n].path])
  BY <1>1 DEF LoopInv, Top
<1> DEFINE C == {stack[k].path : k \in j .. n}
<1>4. /\ j \in j .. n /\ n \in j .. n
      /\ \A k \in j .. n : k \in 1 .. n /\ (k # n => k + 1 \in j .. n /\ k + 1 \in 1 .. n)
  BY <1>2, <1>3, Between
<1>5. C \subseteq Reachable(MainFile)
  <2>1. \A k \in j .. n : k \in 1 .. n
    BY <1>4
  <2> QED
    BY <1>1, <2>1
<1>6. \A k \in j .. n : stack[k].path \in C
  OBVIOUS
<1>7. j \in j .. n /\ n \in j .. n
  BY <1>4
<1>8. C # {}
  BY <1>6, <1>7
<1>9. ASSUME NEW m \in C
      PROVE  SetOf(imports[m]) \cap C # {}
  <2>1. PICK k \in j .. n : m = stack[k].path
    OBVIOUS
  <2> HIDE DEF C
  <2>2. CASE k = n
    BY <1>3, <1>6, <1>7, <2>1, <2>2
  <2>3. CASE k # n
    <3>1. k + 1 \in j .. n /\ k \in 1 .. n /\ k + 1 \in 1 .. n
      BY <1>4, <2>1, <2>3
    <3>2. stack[k + 1].path \in SetOf(imports[m])
      BY <1>1, <2>1, <3>1 DEF LoopInv, Chained
    <3> QED
      BY <1>6, <3>1, <3>2
  <2> QED
    BY <2>2, <2>3
<1> HIDE DEF C
<1> QED
  BY <1>5, <1>8, <1>9 DEF CyclicAmong

(* In the order imports come first, so no set of its modules can be one    *)
(* whose members all import one another: its first member in the order     *)
(* would have no import in it.                                             *)
LEMMA OrderedIsAcyclic ==
  ASSUME BuildInv, Ordered
  PROVE  ~CyclicAmong(Reachable(MainFile))
<1> SUFFICES ASSUME NEW C \in SUBSET Reachable(MainFile), C # {},
                    \A m \in C : SetOf(imports[m]) \cap C # {}
             PROVE  FALSE
  BY DEF CyclicAmong
<1>1. C \subseteq SetOf(order)
  BY OrderedIsReachable
<1>2. /\ order \in Seq(Files) /\ Len(order) \in Nat /\ DOMAIN order = 1 .. Len(order)
      /\ \A i \in DOMAIN order : \A d \in SetOf(imports[order[i]]) :
           \E j \in 1 .. i - 1 : order[j] = d
  <2>1. order \in Seq(Files)
    BY DEF BuildInv, LoaderTypes
  <2>2. \A i \in DOMAIN order : \A d \in SetOf(imports[order[i]]) :
          \E j \in 1 .. i - 1 : order[j] = d
    BY DEF BuildInv, OrderInv
  <2> QED
    BY <2>1, <2>2
<1> DEFINE S == {n \in Nat : \A i \in 1 .. Len(order) : i <= n => order[i] \notin C}
<1>3. 0 \in S
  BY <1>2
<1>4. ASSUME NEW n \in Nat, n \in S
      PROVE  n + 1 \in S
  <2> SUFFICES ASSUME NEW i \in 1 .. Len(order), i <= n + 1, order[i] \in C
               PROVE  FALSE
    OBVIOUS
  <2>1. PICK d : d \in SetOf(imports[order[i]]) /\ d \in C
    OBVIOUS
  <2>2. PICK j \in 1 .. i - 1 : order[j] = d
    BY <1>2, <2>1
  <2>3. j \in 1 .. Len(order) /\ j <= n
    BY <1>2, <2>2
  <2> QED
    BY <1>4, <2>1, <2>2, <2>3
<1> HIDE DEF S
<1>5. Nat \subseteq S
  BY <1>3, <1>4, SetInduction
<1>6. PICK i \in 1 .. Len(order) : order[i] \in C
  BY <1>1, <1>2 DEF SetOf
<1> QED
  BY <1>2, <1>5, <1>6 DEF S

(* load_tree says that there is an import loop when there is one and only  *)
(* then: two ways to the same module are none (build.rs:60).               *)
THEOREM LoopsAreCycles == Spec => []LoopIffCyclic
<1>1. Init => LoopInv
  BY DEF Init, LoopInv, Chained
<1>2. BuildInv /\ LoopInv /\ [Next]_vars => LoopInv'
  BY LoopNext
<1>3. BuildInv /\ LoopInv => LoopIffCyclic
  BY LoopIsCyclic, OrderedIsAcyclic DEF LoopIffCyclic
<1> QED
  BY <1>1, <1>2, <1>3, BuildInvariant, PTL DEF Spec

-----------------------------------------------------------------------------
(***************************************************************************)
(* The headers of the C units: Add, Merge and Headers build sequences      *)
(* without repetitions that hold just what was put in.                     *)
(***************************************************************************)

NoRepeat(s) == \A j, k \in DOMAIN s : s[j] = s[k] => j = k

LEMMA AddIs ==
  ASSUME NEW s \in Seq(Files), NEW m \in Files
  PROVE  /\ Add(s, m) \in Seq(Files)
         /\ SetOf(Add(s, m)) = SetOf(s) \cup {m}
         /\ NoRepeat(s) => NoRepeat(Add(s, m))
<1>1. Len(s) \in Nat /\ DOMAIN s = 1 .. Len(s)
  OBVIOUS
<1>2. CASE Present(s, m)
  <2>1. m \in SetOf(s) /\ Add(s, m) = s
    BY <1>2 DEF Present, SetOf, Add
  <2> QED
    BY <2>1
<1>3. CASE ~Present(s, m)
  <2> DEFINE a == Add(s, m)
  <2>1. a = Append(s, m)
    BY <1>3 DEF Add
  <2>2. /\ a \in Seq(Files) /\ DOMAIN a = 1 .. Len(s) + 1
        /\ \A k \in 1 .. Len(s) : a[k] = s[k]
        /\ a[Len(s) + 1] = m
    BY <2>1, AppendProperties
  <2> HIDE DEF a
  <2>3. \A k \in 1 .. Len(s) + 1 : k = Len(s) + 1 \/ k \in 1 .. Len(s)
    BY <1>1
  <2>4. \A k \in 1 .. Len(s) : s[k] # m
    BY <1>1, <1>3 DEF Present
  <2>5. SetOf(a) = SetOf(s) \cup {m}
    BY <1>1, <2>2, <2>3 DEF SetOf
  <2>6. NoRepeat(s) => NoRepeat(a)
    BY <1>1, <2>2, <2>3, <2>4 DEF NoRepeat
  <2> QED
    BY <2>2, <2>5, <2>6 DEF a
<1> QED
  BY <1>2, <1>3

(* Merge(s, t) is s with what t adds to it.                                *)
LEMMA MergeIs ==
  ASSUME NEW s \in Seq(Files), NEW t \in Seq(Files)
  PROVE  /\ Merge(s, t) \in Seq(Files)
         /\ SetOf(Merge(s, t)) = SetOf(s) \cup SetOf(t)
         /\ NoRepeat(s) => NoRepeat(Merge(s, t))
<1> DEFINE N == Len(t)
           step == [n \in 1 .. N |-> [u \in Seq(Files) |-> Add(u, t[n])]]
           Rec(g) == [n \in 0 .. N |-> IF n = 0 THEN s ELSE Add(g[n - 1], t[n])]
           upto == CHOOSE g : g = Rec(g)
<1>1. N \in Nat /\ DOMAIN t = 1 .. N /\ \A n \in 1 .. N : t[n] \in Files
  OBVIOUS
<1>2. step \in Steps(N, Seq(Files))
  <2>1. \A n \in 1 .. N : \A u \in Seq(Files) : Add(u, t[n]) \in Seq(Files)
    BY <1>1, AddIs
  <2> QED
    BY <2>1 DEF Steps
<1>3. Merge(s, t) = upto[N]
  BY DEF Merge
<1> HIDE DEF N
<1>4. \A n \in 1 .. N : \A u \in Seq(Files) : step[n][u] = Add(u, t[n])
  OBVIOUS
<1> HIDE DEF step
<1>5. PICK g \in [0 .. N -> Seq(Files)] : g[0] = s /\ \A n \in 1 .. N : g[n] = step[n][g[n - 1]]
  <2>1. Recursions(N, Seq(Files), s, step) # {}
    BY <1>1, <1>2, Recursion
  <2> QED
    BY <2>1 DEF Recursions
<1>6. \A n \in 1 .. N : n - 1 \in 0 .. N /\ g[n - 1] \in Seq(Files) /\ g[n] = Add(g[n - 1], t[n])
  <2> SUFFICES ASSUME NEW n \in 1 .. N
               PROVE  n - 1 \in 0 .. N /\ g[n - 1] \in Seq(Files) /\ g[n] = Add(g[n - 1], t[n])
    OBVIOUS
  <2>1. n - 1 \in 0 .. N
    BY <1>1
  <2>2. g[n - 1] \in Seq(Files)
    BY <1>5, <2>1
  <2> QED
    BY <1>4, <1>5, <2>1, <2>2
<1>7. g = Rec(g)
  <2>1. \A n \in 0 .. N : g[n] = IF n = 0 THEN s ELSE Add(g[n - 1], t[n])
    BY <1>1, <1>5, <1>6
  <2>2. g = [n \in 0 .. N |-> g[n]]
    BY <1>5
  <2> QED
    BY <2>1, <2>2
<1>8. upto = Rec(upto)
  BY <1>7
<1>9. \A n \in 0 .. N : upto[n] = IF n = 0 THEN s ELSE Add(upto[n - 1], t[n])
  BY <1>8
<1> HIDE DEF Rec, upto
<1> DEFINE Good(n) == /\ upto[n] \in Seq(Files)
                      /\ SetOf(upto[n]) = SetOf(s) \cup {t[k] : k \in 1 .. n}
                      /\ NoRepeat(s) => NoRepeat(upto[n])
           S == {n \in Nat : n <= N => Good(n)}
<1>10. 0 \in S
  <2>1. upto[0] = s /\ {t[k] : k \in 1 .. 0} = {}
    BY <1>1, <1>9
  <2> QED
    BY <2>1
<1>11. ASSUME NEW n \in Nat, n \in S
       PROVE  n + 1 \in S
  <2> SUFFICES ASSUME n + 1 <= N
               PROVE  Good(n + 1)
    OBVIOUS
  <2>1. n + 1 \in 0 .. N /\ n + 1 # 0 /\ (n + 1) - 1 = n /\ n + 1 \in 1 .. N /\ n <= N
    BY <1>1
  <2>2. upto[n + 1] = Add(upto[n], t[n + 1]) /\ t[n + 1] \in Files
    BY <1>1, <1>9, <2>1
  <2>3. Good(n)
    BY <1>11, <2>1
  <2>4. {t[k] : k \in 1 .. n + 1} = {t[k] : k \in 1 .. n} \cup {t[n + 1]}
    <3>1. 1 .. n + 1 = (1 .. n) \cup {n + 1}
      OBVIOUS
    <3> QED
      BY <3>1
  <2>5. /\ upto[n + 1] \in Seq(Files)
        /\ SetOf(upto[n + 1]) = SetOf(upto[n]) \cup {t[n + 1]}
        /\ NoRepeat(upto[n]) => NoRepeat(upto[n + 1])
    <3>1. upto[n] \in Seq(Files)
      BY <2>3
    <3>2. /\ Add(upto[n], t[n + 1]) \in Seq(Files)
          /\ SetOf(Add(upto[n], t[n + 1])) = SetOf(upto[n]) \cup {t[n + 1]}
          /\ NoRepeat(upto[n]) => NoRepeat(Add(upto[n], t[n + 1]))
      BY <2>2, <3>1, AddIs
    <3> QED
      BY <2>2, <3>2
  <2> QED
    BY <2>3, <2>4, <2>5
<1> HIDE DEF S
<1>12. Nat \subseteq S
  BY <1>10, <1>11, SetInduction
<1>13. Good(N)
  <2>1. N \in S /\ N <= N
    BY <1>1, <1>12
  <2> HIDE DEF Good
  <2> QED
    BY <2>1 DEF S
<1>14. {t[k] : k \in 1 .. N} = SetOf(t)
  BY <1>1 DEF SetOf
<1> QED
  BY <1>3, <1>13, <1>14

(* Headers puts the units of the imports together.                         *)
LEMMA HeadersIs ==
  ASSUME NEW paths \in Seq(Files), NEW unitOf,
         \A p \in SetOf(paths) : unitOf[p] \in Seq(Files)
  PROVE  /\ Headers(paths, unitOf) \in Seq(Files)
         /\ SetOf(Headers(paths, unitOf)) = UNION {SetOf(unitOf[p]) : p \in SetOf(paths)}
         /\ NoRepeat(Headers(paths, unitOf))
<1> DEFINE N == Len(paths)
           part(n) == unitOf[paths[n]]
           step == [n \in 1 .. N |-> [u \in Seq(Files) |-> Merge(u, part(n))]]
           Rec(g) == [n \in 0 .. N |-> IF n = 0 THEN <<>> ELSE Merge(g[n - 1], part(n))]
           upto == CHOOSE g : g = Rec(g)
<1>1. N \in Nat /\ DOMAIN paths = 1 .. N /\ \A n \in 1 .. N : part(n) \in Seq(Files)
  BY DEF SetOf
<1>2. Headers(paths, unitOf) = upto[N]
  BY DEF Headers
<1>3. SetOf(paths) = {paths[k] : k \in 1 .. N}
  BY <1>1 DEF SetOf
<1>4. UNION {SetOf(unitOf[p]) : p \in SetOf(paths)} = UNION {SetOf(part(k)) : k \in 1 .. N}
  BY <1>3
<1> HIDE DEF N, part
<1>5. step \in Steps(N, Seq(Files))
  <2>1. \A n \in 1 .. N : \A u \in Seq(Files) : Merge(u, part(n)) \in Seq(Files)
    BY <1>1, MergeIs
  <2> QED
    BY <2>1 DEF Steps
<1>6. \A n \in 1 .. N : \A u \in Seq(Files) : step[n][u] = Merge(u, part(n))
  OBVIOUS
<1> HIDE DEF step
<1>7. \A A : <<>> \in Seq(A)
  OBVIOUS
<1>8. PICK g \in [0 .. N -> Seq(Files)] : g[0] = <<>> /\ \A n \in 1 .. N : g[n] = step[n][g[n - 1]]
  <2>1. <<>> \in Seq(Files)
    BY <1>7
  <2>2. Recursions(N, Seq(Files), <<>>, step) # {}
    BY <1>1, <1>5, <2>1, Recursion
  <2> QED
    BY <2>2 DEF Recursions
<1>9. \A n \in 1 .. N : n - 1 \in 0 .. N /\ g[n - 1] \in Seq(Files) /\ g[n] = Merge(g[n - 1], part(n))
  <2> SUFFICES ASSUME NEW n \in 1 .. N
               PROVE  n - 1 \in 0 .. N /\ g[n - 1] \in Seq(Files) /\ g[n] = Merge(g[n - 1], part(n))
    OBVIOUS
  <2>1. n - 1 \in 0 .. N
    BY <1>1
  <2>2. g[n - 1] \in Seq(Files)
    BY <1>8, <2>1
  <2> QED
    BY <1>6, <1>8, <2>1, <2>2
<1>10. g = Rec(g)
  <2>1. \A n \in 0 .. N : g[n] = IF n = 0 THEN <<>> ELSE Merge(g[n - 1], part(n))
    BY <1>1, <1>8, <1>9
  <2>2. g = [n \in 0 .. N |-> g[n]]
    BY <1>8
  <2> QED
    BY <2>1, <2>2
<1>11. upto = Rec(upto)
  BY <1>10
<1>12. \A n \in 0 .. N : upto[n] = IF n = 0 THEN <<>> ELSE Merge(upto[n - 1], part(n))
  BY <1>11
<1> HIDE DEF Rec, upto
<1> DEFINE Good(n) == /\ upto[n] \in Seq(Files)
                      /\ SetOf(upto[n]) = UNION {SetOf(part(k)) : k \in 1 .. n}
                      /\ NoRepeat(upto[n])
           S == {n \in Nat : n <= N => Good(n)}
<1>13. 0 \in S
  <2>1. upto[0] = <<>> /\ UNION {SetOf(part(k)) : k \in 1 .. 0} = {}
    BY <1>1, <1>12
  <2>2. <<>> \in Seq(Files) /\ SetOf(<<>>) = {} /\ NoRepeat(<<>>)
    BY <1>7 DEF SetOf, NoRepeat
  <2> QED
    BY <2>1, <2>2
<1>14. ASSUME NEW n \in Nat, n \in S
       PROVE  n + 1 \in S
  <2> SUFFICES ASSUME n + 1 <= N
               PROVE  Good(n + 1)
    OBVIOUS
  <2>1. n + 1 \in 0 .. N /\ n + 1 # 0 /\ (n + 1) - 1 = n /\ n + 1 \in 1 .. N /\ n <= N
    BY <1>1
  <2>2. upto[n + 1] = Merge(upto[n], part(n + 1)) /\ part(n + 1) \in Seq(Files)
    BY <1>1, <1>12, <2>1
  <2>3. Good(n)
    BY <1>14, <2>1
  <2>4. UNION {SetOf(part(k)) : k \in 1 .. n + 1}
          = (UNION {SetOf(part(k)) : k \in 1 .. n}) \cup SetOf(part(n + 1))
    <3>1. 1 .. n + 1 = (1 .. n) \cup {n + 1}
      OBVIOUS
    <3> QED
      BY <3>1
  <2>5. /\ upto[n + 1] \in Seq(Files)
        /\ SetOf(upto[n + 1]) = SetOf(upto[n]) \cup SetOf(part(n + 1))
        /\ NoRepeat(upto[n]) => NoRepeat(upto[n + 1])
    BY <2>2, <2>3, MergeIs
  <2> QED
    BY <2>3, <2>4, <2>5
<1> HIDE DEF S
<1>15. Nat \subseteq S
  BY <1>13, <1>14, SetInduction
<1>16. Good(N)
  BY <1>1, <1>15 DEF S
<1> QED
  BY <1>2, <1>4, <1>16

(* What m needs is m and what its imports need.                            *)
LEMMA ReachableStep ==
  ASSUME imports \in [Files -> Seq(Files)], NEW m \in Files
  PROVE  Reachable(m) = {m} \cup UNION {Reachable(p) : p \in SetOf(imports[m])}
<1> DEFINE U == {m} \cup UNION {Reachable(p) : p \in SetOf(imports[m])}
<1>1. \A f \in Files : SetOf(imports[f]) \subseteq Files
  <2> TAKE f \in Files
  <2>1. imports[f] \in Seq(Files)
    OBVIOUS
  <2> QED
    BY <2>1 DEF SetOf
<1>2. \A f \in Files : f \in Reachable(f) /\ Reachable(f) \subseteq Files
  BY DEF Reachable
<1>3. \A f \in Files : \A x \in Reachable(f) : SetOf(imports[x]) \subseteq Reachable(f)
  BY <1>1 DEF Reachable, ClosedUnderImports
<1>4. U \in SUBSET Files
  BY <1>1, <1>2
<1>5. ClosedUnderImports(U)
  <2> SUFFICES ASSUME NEW x \in U
               PROVE  SetOf(imports[x]) \subseteq U
    BY DEF ClosedUnderImports
  <2>1. CASE x = m
    BY <1>1, <1>2, <2>1
  <2>2. CASE x # m
    <3>1. PICK p \in SetOf(imports[m]) : x \in Reachable(p)
      BY <2>2
    <3> QED
      BY <1>1, <1>3, <3>1
  <2> QED
    BY <2>1, <2>2
<1>6. Reachable(m) \subseteq U
  <2> HIDE DEF U
  <2>1. m \in U
    BY DEF U
  <2> QED
    BY <1>4, <1>5, <2>1 DEF Reachable
<1>7. ASSUME NEW p \in SetOf(imports[m])
      PROVE  Reachable(p) \subseteq Reachable(m)
  <2>1. p \in Files
    BY <1>1
  <2>2. \A S \in SUBSET Files : m \in S /\ ClosedUnderImports(S) => p \in S
    BY DEF ClosedUnderImports
  <2> QED
    BY <2>1, <2>2 DEF Reachable
<1>8. U \subseteq Reachable(m)
  BY <1>2, <1>7
<1> QED
  BY <1>6, <1>8

(* Each unit declares what its module can reach.                           *)
HeadersInv ==
  /\ units \in Seq(Seq(Files))
  /\ Len(units) <= Len(order)
  /\ \A i \in DOMAIN units : SetOf(units[i]) = Reachable(order[i]) /\ NoRepeat(units[i])

(* The modules translated so far have in them all they import, and not     *)
(* the module that is next.                                                *)
LEMMA KnownModules ==
  ASSUME BuildInv, phase = "translating", units \in Seq(Seq(Files))
  PROVE  /\ Len(units) \in Nat /\ DOMAIN units = 1 .. Len(units)
         /\ \A i \in 1 .. Len(units) : i \in DOMAIN order /\ order[i] \in Files
         /\ order[Len(units) + 1] \in Files
         /\ SetOf(imports[order[Len(units) + 1]]) \subseteq {order[i] : i \in 1 .. Len(units)}
         /\ ClosedUnderImports({order[i] : i \in 1 .. Len(units)})
         /\ order[Len(units) + 1] \notin {order[i] : i \in 1 .. Len(units)}
         /\ \A i, j \in 1 .. Len(units) : order[i] = order[j] => i = j
<1> DEFINE n == Len(units)
           known == {order[i] : i \in 1 .. n}
<1>1. n \in Nat /\ DOMAIN units = 1 .. n
  OBVIOUS
<1>2. /\ order \in Seq(Files) /\ Len(order) \in Nat /\ DOMAIN order = 1 .. Len(order)
      /\ n < Len(order)
  <2>1. order \in Seq(Files)
    BY DEF BuildInv, LoaderTypes
  <2>2. n < Len(order)
    BY DEF BuildInv, ProgressInv
  <2> QED
    BY <2>1, <2>2
<1>3. \A i \in DOMAIN order : \A d \in SetOf(imports[order[i]]) :
        \E j \in 1 .. i - 1 : order[j] = d
  BY DEF BuildInv, OrderInv, Ordered
<1>4. \A i, j \in DOMAIN order : order[i] = order[j] => i = j
  BY DEF BuildInv, OrderInv, Ordered
<1> HIDE DEF n
<1>5. \A i \in 1 .. n + 1 : i \in DOMAIN order /\ order[i] \in Files /\ 1 .. i - 1 \subseteq 1 .. n
  BY <1>1, <1>2
<1>6. n + 1 \in 1 .. n + 1 /\ 1 .. n \subseteq 1 .. n + 1 /\ n + 1 \notin 1 .. n
  BY <1>1
<1>7. \A i \in 1 .. n + 1 : SetOf(imports[order[i]]) \subseteq known
  <2> SUFFICES ASSUME NEW i \in 1 .. n + 1, NEW d \in SetOf(imports[order[i]])
               PROVE  d \in known
    OBVIOUS
  <2>1. PICK j \in 1 .. i - 1 : order[j] = d
    BY <1>3, <1>5
  <2>2. j \in 1 .. n
    BY <1>5, <2>1
  <2> QED
    BY <2>1, <2>2
<1>8. ClosedUnderImports(known)
  <2> SUFFICES ASSUME NEW m \in known
               PROVE  SetOf(imports[m]) \subseteq known
    BY DEF ClosedUnderImports
  <2>1. PICK i \in 1 .. n : m = order[i]
    OBVIOUS
  <2> HIDE DEF known
  <2> QED
    BY <1>6, <1>7, <2>1
<1>9. order[n + 1] \notin known
  BY <1>4, <1>5, <1>6
<1>10. \A i, j \in 1 .. n : order[i] = order[j] => i = j
  BY <1>4, <1>5, <1>6
<1>11. \A i \in 1 .. n : i \in DOMAIN order /\ order[i] \in Files
  BY <1>5, <1>6
<1>12. order[n + 1] \in Files /\ SetOf(imports[order[n + 1]]) \subseteq known
  BY <1>5, <1>6, <1>7
<1> QED
  BY <1>1, <1>8, <1>9, <1>10, <1>11, <1>12 DEF n

(* A unit put together from the units of the imports.                      *)
LEMMA NextUnit ==
  ASSUME BuildInv, HeadersInv, phase = "translating",
         NEW unitOf,
         \A i \in 1 .. Len(units) : unitOf[order[i]] = units[i]
  PROVE  LET m == order[Len(units) + 1]
             u == Append(Headers(imports[m], unitOf), m)
         IN u \in Seq(Files) /\ SetOf(u) = Reachable(m) /\ NoRepeat(u)
<1> DEFINE n == Len(units)
           m == order[n + 1]
           known == {order[i] : i \in 1 .. n}
           h == Headers(imports[m], unitOf)
           u == Append(h, m)
<1>0. units \in Seq(Seq(Files))
  BY DEF HeadersInv
<1>1. /\ n \in Nat /\ DOMAIN units = 1 .. n /\ m \in Files /\ m \notin known
      /\ SetOf(imports[m]) \subseteq known /\ ClosedUnderImports(known) /\ known \subseteq Files
  BY <1>0, KnownModules
<1>2. imports \in [Files -> Seq(Files)]
  BY DEF BuildInv, LoaderTypes
<1>3. \A p \in known : unitOf[p] \in Seq(Files) /\ SetOf(unitOf[p]) = Reachable(p)
  <2> SUFFICES ASSUME NEW i \in 1 .. n
               PROVE  /\ unitOf[order[i]] \in Seq(Files)
                      /\ SetOf(unitOf[order[i]]) = Reachable(order[i])
    OBVIOUS
  <2>1. i \in DOMAIN units
    BY <1>1
  <2>2. units[i] \in Seq(Files)
    BY <1>0, <2>1
  <2>3. SetOf(units[i]) = Reachable(order[i])
    BY <2>1 DEF HeadersInv
  <2>4. unitOf[order[i]] = units[i]
    OBVIOUS
  <2> HIDE DEF n
  <2> QED
    BY <2>2, <2>3, <2>4
<1>4. imports[m] \in Seq(Files)
  BY <1>1, <1>2
<1> HIDE DEF m, known, n
<1>5. /\ h \in Seq(Files) /\ NoRepeat(h)
      /\ SetOf(h) = UNION {SetOf(unitOf[p]) : p \in SetOf(imports[m])}
  <2>1. \A p \in SetOf(imports[m]) : unitOf[p] \in Seq(Files)
    BY <1>1, <1>3
  <2> QED
    BY <1>4, <2>1, HeadersIs
<1> HIDE DEF h
<1>6. SetOf(h) = UNION {Reachable(p) : p \in SetOf(imports[m])}
  BY <1>1, <1>3, <1>5
<1>7. m \notin SetOf(h)
  <2>1. \A p \in known : Reachable(p) \subseteq known
    BY <1>1 DEF Reachable
  <2> QED
    BY <1>1, <1>6, <2>1
<1>8. /\ u \in Seq(Files) /\ Len(u) = Len(h) + 1 /\ Len(h) \in Nat
      /\ DOMAIN u = 1 .. Len(h) + 1 /\ DOMAIN h = 1 .. Len(h)
      /\ \A k \in 1 .. Len(h) : u[k] = h[k]
      /\ u[Len(h) + 1] = m
  BY <1>1, <1>5, AppendProperties
<1> HIDE DEF u
<1>9. \A k \in DOMAIN u : k = Len(h) + 1 \/ k \in DOMAIN h
  BY <1>8
<1>10. DOMAIN h \subseteq DOMAIN u /\ Len(h) + 1 \in DOMAIN u
  BY <1>8
<1>11. SetOf(u) = {m} \cup SetOf(h)
  BY <1>8, <1>9, <1>10 DEF SetOf
<1>12. NoRepeat(u)
  BY <1>5, <1>7, <1>8, <1>9 DEF NoRepeat, SetOf
<1>13. SetOf(u) = Reachable(m)
  BY <1>1, <1>2, <1>6, <1>11, ReachableStep
<1> QED
  BY <1>8, <1>12, <1>13 DEF u, h, m, n

LEMMA HeadersNext ==
  ASSUME BuildInv, HeadersInv, [Next]_vars
  PROVE  HeadersInv'
<1>0. units \in Seq(Seq(Files)) /\ Len(units) \in Nat /\ DOMAIN units = 1 .. Len(units)
  BY DEF HeadersInv
<1>1. CASE UNCHANGED <<imports, order, units>>
  BY <1>1 DEF HeadersInv, Reachable, ClosedUnderImports, NoRepeat
<1>2. CASE LoadMain \/ LoadImport \/ LoadReturn \/ Parse \/ Ended \/ UNCHANGED vars
  BY <1>1, <1>2 DEF LoadMain, LoadImport, LoadReturn, Parse, Ended, vars
<1>3. CASE Uniq
  <2>1. units = <<>> /\ units' = units
    BY <1>3 DEF Uniq, BuildInv, ProgressInv
  <2>2. order' \in Seq(Files)
    BY <1>3, UniqKeepsInv DEF BuildInv, LoaderTypes
  <2>3. DOMAIN units' = {} /\ Len(units') = 0 /\ Len(order') \in Nat
    BY <1>0, <2>1, <2>2
  <2> QED
    BY <1>0, <2>1, <2>3 DEF HeadersInv
<1>4. CASE Translate
  <2> DEFINE n == Len(units)
             m == order[n + 1]
             known == SubSeq(order, 1, n)
             unitOf == [p \in SetOf(known) |-> units[CHOOSE i \in DOMAIN known : known[i] = p]]
             u == Append(Headers(imports[m], unitOf), m)
  <2>1. phase = "translating" /\ UNCHANGED <<imports, order>>
    BY <1>4 DEF Translate
  <2>2. units' = units \/ units' = Append(units, u)
    BY <1>4 DEF Translate
  <2>3. CASE units' = units
    BY <1>1, <2>1, <2>3
  <2>4. CASE units' = Append(units, u)
    <3>1. /\ \A i \in 1 .. n : i \in DOMAIN order /\ order[i] \in Files
          /\ \A i, j \in 1 .. n : order[i] = order[j] => i = j
      BY <1>0, <2>1, KnownModules
    <3>2. n < Len(order) /\ Len(order) \in Nat
      <4>1. order \in Seq(Files)
        BY DEF BuildInv, LoaderTypes
      <4> QED
        BY <2>1, <4>1 DEF BuildInv, ProgressInv
    <3>3. known \in Seq(Files) /\ DOMAIN known = 1 .. n /\ \A i \in 1 .. n : known[i] = order[i]
      <4>1. order \in Seq(Files)
        BY DEF BuildInv, LoaderTypes
      <4>2. known \in Seq(Files) /\ Len(known) = n /\ \A i \in 1 .. n : known[i] = order[i]
        BY <1>0, <3>1, <3>2, <4>1, SubSeqProperties
      <4> HIDE DEF known
      <4> QED
        BY <4>2
    <3> HIDE DEF known
    <3>4. \A i \in 1 .. n : unitOf[order[i]] = units[i]
      <4> SUFFICES ASSUME NEW i \in 1 .. n
                   PROVE  unitOf[order[i]] = units[i]
        OBVIOUS
      <4>1. order[i] \in SetOf(known)
        BY <3>3 DEF SetOf
      <4>2. (CHOOSE k \in DOMAIN known : known[k] = order[i]) = i
        BY <3>1, <3>3
      <4> QED
        BY <4>1, <4>2
    <3> HIDE DEF unitOf
    <3>5. u \in Seq(Files) /\ SetOf(u) = Reachable(m) /\ NoRepeat(u)
      BY <2>1, <3>4, NextUnit
    <3> HIDE DEF u
    <3>6. /\ units' \in Seq(Seq(Files)) /\ Len(units') = n + 1
          /\ DOMAIN units' = 1 .. n + 1
          /\ \A i \in 1 .. n : units'[i] = units[i]
          /\ units'[n + 1] = u
      BY <1>0, <2>4, <3>5, AppendProperties
    <3>7. \A i \in 1 .. n + 1 :
            SetOf(units'[i]) = Reachable(order[i]) /\ NoRepeat(units'[i])
      <4> SUFFICES ASSUME NEW i \in 1 .. n + 1
                   PROVE  SetOf(units'[i]) = Reachable(order[i]) /\ NoRepeat(units'[i])
        OBVIOUS
      <4>1. CASE i = n + 1
        BY <3>5, <3>6, <4>1
      <4>2. CASE i \in 1 .. n
        BY <1>0, <3>6, <4>2 DEF HeadersInv
      <4> QED
        BY <1>0, <4>1, <4>2
    <3>8. Len(units') <= Len(order)
      BY <1>0, <3>2, <3>6
    <3>9. \A f : Reachable(f)' = Reachable(f)
      BY <2>1 DEF Reachable, ClosedUnderImports
    <3> QED
      BY <2>1, <3>6, <3>7, <3>8, <3>9 DEF HeadersInv, NoRepeat
  <2> QED
    BY <2>2, <2>3, <2>4
<1> QED
  BY <1>2, <1>3, <1>4 DEF Next

(* Every C unit carries the public elements of all its module can reach,   *)
(* each once, though it takes them only from the modules it imports        *)
(* (translator.rs:432).                                                    *)
THEOREM UnitsCarryTheirHeaders == Spec => []HeadersComplete
<1>1. Init => HeadersInv
  <2> SUFFICES ASSUME Init
               PROVE  HeadersInv
    OBVIOUS
  <2>1. units = <<>> /\ order = <<>>
    BY DEF Init
  <2>2. \A A : <<>> \in Seq(A)
    OBVIOUS
  <2>3. units \in Seq(Seq(Files)) /\ DOMAIN units = {} /\ Len(units) = Len(order) /\ Len(order) \in Nat
    BY <2>1, <2>2
  <2> QED
    BY <2>3 DEF HeadersInv
<1>2. BuildInv /\ HeadersInv /\ [Next]_vars => HeadersInv'
  BY HeadersNext
<1>3. HeadersInv => HeadersComplete
  BY DEF HeadersInv, HeadersComplete, NoRepeat
<1> QED
  BY <1>1, <1>2, <1>3, BuildInvariant, PTL DEF Spec
=============================================================================
