---------------------------- MODULE CheRun_proofs ----------------------------
(***************************************************************************)
(* Theorems about che run and che build, for any number of them at once: a *)
(* command that is not under way together with one that shares a module or *)
(* an output builds, whatever the others have left in the generated files, *)
(* and a che run executes its own program unless another command links to  *)
(* the same place between its linking and its exec.                        *)
(***************************************************************************)
EXTENDS CheRun, FiniteSetTheorems, TLAPS

(* The generated C file of c's i-th module is c's.                         *)
Own(c, k) == gen[GenPath(Project[c][k])] = Unit(c, Project[c][k])

UnitsUpTo(c, n) == {Unit(c, Project[c][k]) : k \in 1 .. n}

Last(c) == Len(Project[c])

(* Where a command is tells what it has done, and that it is still there.  *)
CommandInv(c) ==
  /\ pc[c] \in {"idle", "write", "writing", "compile", "link", "linking", "exec", "ended"}
  /\ at[c] \in 1 .. Last(c)
  /\ pc[c] = "idle" => at[c] = 1
  /\ pc[c] \in {"idle", "write", "writing"} => units[c] = {}
  /\ pc[c] \in {"write", "writing"} => \A k \in 1 .. at[c] - 1 : Own(c, k)
  /\ pc[c] = "writing" => gen[GenPath(Module(c))] = Empty
  /\ pc[c] = "compile" => /\ \A k \in 1 .. Last(c) : Own(c, k)
                          /\ units[c] = UnitsUpTo(c, at[c] - 1)
  /\ pc[c] = "link" => units[c] = UnitsUpTo(c, Last(c))
  /\ pc[c] = "linking" => exe[Output[c]] = [by |-> c, whole |-> FALSE]
  /\ pc[c] = "exec" => exe[Output[c]] = [by |-> c, whole |-> TRUE] /\ c \in Runs
  /\ pc[c] # "ended" => result[c] = Nothing
  /\ pc[c] = "ended" => result[c] = IF c \in Runs THEN c ELSE "built"

Shape ==
  /\ gen = [f \in Files |-> gen[f]]
  /\ exe = [o \in {Output[c] : c \in Commands} |-> exe[o]]
  /\ pc = [c \in Commands |-> pc[c]]
  /\ at = [c \in Commands |-> at[c]]
  /\ units = [c \in Commands |-> units[c]]
  /\ result = [c \in Commands |-> result[c]]

Places == {"idle", "write", "writing", "compile", "link", "linking", "exec", "ended"}

(* What holds of every command, those included that are in each other's way.*)
Base ==
  /\ Shape
  /\ \A c \in Commands : pc[c] \in Places /\ at[c] \in 1 .. Last(c)

(* Those that are in each other's way have met.                            *)
Meetings == \A c, d \in Active : c # d /\ Share(c, d) => c \in met

RunInv == Base /\ Meetings /\ \A c \in Commands \ met : CommandInv(c)

-----------------------------------------------------------------------------
(***************************************************************************)
(* Projects and their C files.                                             *)
(***************************************************************************)

LEMMA ProjectIs ==
  ASSUME NEW c \in Commands
  PROVE  /\ Last(c) \in Nat \ {0} /\ DOMAIN Project[c] = 1 .. Last(c)
         /\ \A k \in 1 .. Last(c) : Project[c][k] \in Files
         /\ \A k, m \in 1 .. Last(c) : Project[c][k] = Project[c][m] => k = m
         /\ \A k \in 1 .. Last(c) : \A d \in Imports[Project[c][k]] :
               \E m \in 1 .. Last(c) : Project[c][m] = d
<1>1. Project[c] \in Seq(Files) /\ Project[c] # <<>>
  BY ProjectAssumption
<1>2. Last(c) \in Nat \ {0} /\ DOMAIN Project[c] = 1 .. Last(c)
  BY <1>1 DEF Last
<1>3. \A k \in 1 .. Last(c) : Project[c][k] \in Files
  BY <1>1, <1>2
<1>4. \A k \in 1 .. Last(c) :
        /\ \A d \in Imports[Project[c][k]] : \E m \in 1 .. k - 1 : Project[c][m] = d
        /\ \A m \in 1 .. Last(c) : Project[c][k] = Project[c][m] => k = m
  BY <1>2, ProjectAssumption
<1>5. \A k \in 1 .. Last(c) : \A m \in 1 .. k - 1 : m \in 1 .. Last(c)
  BY <1>2
<1> QED
  BY <1>2, <1>3, <1>4, <1>5

(* The prefix of a module's C file is its place in the project, and the    *)
(* file is neither empty nor garbled.                                      *)
LEMMA UnitIs ==
  ASSUME NEW c \in Commands, NEW k \in 1 .. Last(c)
  PROVE  /\ Unit(c, Project[c][k]).file = Project[c][k]
         /\ Unit(c, Project[c][k]).prefix = k
         /\ Unit(c, Project[c][k]) \notin {Empty, Garbled}
<1> DEFINE f == Project[c][k]
<1>1. f \in Files /\ \A m \in 1 .. Last(c) : Project[c][m] = f => m = k
  BY ProjectIs
<1>2. Position(c, f) = k
  BY <1>1, ProjectIs DEF Position
<1>3. f # Nothing
  BY <1>1, NamesAssumption
<1> HIDE DEF f
<1>4. Unit(c, f).file = f /\ Unit(c, f).prefix = k
  BY <1>2 DEF Unit
<1>5. Empty.file = Nothing /\ Garbled.file = Nothing
  BY DEF Empty, Garbled
<1> QED
  BY <1>3, <1>4, <1>5 DEF f

(* The C files of a whole project link.                                    *)
LEMMA ProjectLinks ==
  ASSUME NEW c \in Commands
  PROVE  Links(UnitsUpTo(c, Last(c)))
<1> DEFINE us == UnitsUpTo(c, Last(c))
<1>1. ASSUME NEW u \in us, NEW d \in Imports[u.file]
      PROVE  \E v \in us : v.file = d /\ v.prefix = u.expect[d]
  <2>1. PICK k \in 1 .. Last(c) : u = Unit(c, Project[c][k])
    BY DEF UnitsUpTo
  <2>2. u.file = Project[c][k]
    BY <2>1, UnitIs
  <2>3. PICK m \in 1 .. Last(c) : Project[c][m] = d
    BY <1>1, <2>2, ProjectIs
  <2>4. Unit(c, d) \in us /\ Unit(c, d).file = d
    BY <2>3, UnitIs DEF UnitsUpTo
  <2>5. u.expect[d] = Position(c, d)
    BY <1>1, <2>1, <2>2 DEF Unit
  <2>6. Unit(c, d).prefix = Position(c, d)
    BY DEF Unit
  <2> QED
    BY <2>4, <2>5, <2>6
<1>2. ASSUME NEW u \in us, NEW v \in us, u.prefix = v.prefix
      PROVE  u = v
  <2>1. PICK k \in 1 .. Last(c) : u = Unit(c, Project[c][k])
    BY DEF UnitsUpTo
  <2>2. PICK m \in 1 .. Last(c) : v = Unit(c, Project[c][m])
    BY DEF UnitsUpTo
  <2>3. k = m
    BY <1>2, <2>1, <2>2, UnitIs
  <2> QED
    BY <2>1, <2>2, <2>3
<1> HIDE DEF us
<1>3. Links(us)
  BY <1>1, <1>2 DEF Links
<1> QED
  BY <1>3 DEF us

-----------------------------------------------------------------------------
(***************************************************************************)
(* Steps.                                                                  *)
(***************************************************************************)

(* A command that is not the one that takes the step, and shares nothing   *)
(* with it, notices nothing.                                               *)
LEMMA OthersKeep ==
  ASSUME NEW d \in Commands, CommandInv(d),
         pc'[d] = pc[d], at'[d] = at[d], units'[d] = units[d], result'[d] = result[d],
         d \in Active => /\ \A k \in 1 .. Last(d) : gen'[Project[d][k]] = gen[Project[d][k]]
                        /\ exe'[Output[d]] = exe[Output[d]]
  PROVE  CommandInv(d)'
<1>1. CASE d \notin Active
  BY <1>1 DEF Active, CommandInv
<1>2. CASE d \in Active
  <2>1. at[d] \in 1 .. Last(d) /\ Last(d) \in Nat
    BY ProjectIs DEF CommandInv
  <2>2. \A k \in 1 .. at[d] - 1 : k \in 1 .. Last(d)
    BY <2>1
  <2>3. \A k \in 1 .. Last(d) : Own(d, k) => Own(d, k)'
    BY <1>2 DEF Own, GenPath, Unit, Position
  <2>4. gen[GenPath(Module(d))]' = gen[GenPath(Module(d))]
    BY <1>2, <2>1 DEF GenPath, Module
  <2>5. /\ pc[d] \in {"write", "writing"} => \A k \in 1 .. at[d] - 1 : Own(d, k)'
        /\ pc[d] = "compile" => \A k \in 1 .. Last(d) : Own(d, k)'
    BY <2>2, <2>3 DEF CommandInv
  <2>6. UnitsUpTo(d, at[d] - 1)' = UnitsUpTo(d, at[d] - 1) /\ UnitsUpTo(d, Last(d))' = UnitsUpTo(d, Last(d))
    BY DEF UnitsUpTo, Unit, Position, Last
  <2> QED
    BY <1>2, <2>4, <2>5, <2>6 DEF CommandInv, Last
<1> QED
  BY <1>1, <1>2

(* A step of command c, which writes no C file but those of its project    *)
(* and no executable but its own.                                          *)
Within(c) ==
  /\ \A d \in Commands \ {c} : /\ pc'[d] = pc[d] /\ at'[d] = at[d]
                               /\ units'[d] = units[d] /\ result'[d] = result[d]
  /\ c \in Active \/ UNCHANGED <<gen, exe>>
  /\ \A f \in Files \ SeqSet(Project[c]) : gen'[f] = gen[f]
  /\ \A o \in {Output[d] : d \in Commands} \ {Output[c]} : exe'[o] = exe[o]

LEMMA WithinKeeps ==
  ASSUME RunInv, NEW c \in Commands, Within(c), Base', Meetings', met \subseteq met',
         c \notin met' => CommandInv(c)'
  PROVE  RunInv'
<1> SUFFICES ASSUME NEW d \in Commands \ {c}, d \notin met'
             PROVE  CommandInv(d)'
  BY DEF RunInv
<1>1. CommandInv(d) /\ d \notin met
  BY DEF RunInv
<1>2. ASSUME d \in Active
      PROVE  /\ \A k \in 1 .. Last(d) : gen'[Project[d][k]] = gen[Project[d][k]]
             /\ exe'[Output[d]] = exe[Output[d]]
  <2>1. CASE c \in Active
    <3>1. Output[c] # Output[d] /\ SeqSet(Project[c]) \cap SeqSet(Project[d]) = {}
      BY <1>1, <1>2, <2>1 DEF RunInv, Meetings, Share
    <3>2. ASSUME NEW k \in 1 .. Last(d)
          PROVE  Project[d][k] \in Files \ SeqSet(Project[c])
      <4>1. Project[d][k] \in Files /\ DOMAIN Project[d] = 1 .. Last(d)
        BY ProjectIs
      <4>2. Project[d][k] \in SeqSet(Project[d])
        BY <4>1 DEF SeqSet
      <4> QED
        BY <3>1, <4>1, <4>2
    <3> QED
      BY <3>1, <3>2 DEF Within
  <2>2. CASE UNCHANGED <<gen, exe>>
    BY <2>2
  <2> QED
    BY <2>1, <2>2 DEF Within
<1> QED
  BY <1>1, <1>2, OthersKeep DEF Within

(* What is known of the command that takes a step.                         *)
LEMMA Acting ==
  ASSUME RunInv, NEW c \in Commands
  PROVE  /\ c \notin met => CommandInv(c)
         /\ Base /\ Shape /\ pc[c] \in Places
         /\ at[c] \in 1 .. Last(c) /\ Last(c) \in Nat \ {0}
         /\ Module(c) = Project[c][at[c]] /\ Module(c) \in Files /\ Module(c) \in SeqSet(Project[c])
<1>1. /\ c \notin met => CommandInv(c)
      /\ Base /\ Shape /\ pc[c] \in Places /\ at[c] \in 1 .. Last(c)
  BY DEF RunInv, Base
<1>2. Last(c) \in Nat \ {0} /\ DOMAIN Project[c] = 1 .. Last(c) /\ Project[c][at[c]] \in Files
  BY <1>1, ProjectIs
<1>3. Project[c][at[c]] \in SeqSet(Project[c])
  BY <1>1, <1>2 DEF SeqSet
<1> QED
  BY <1>1, <1>2, <1>3 DEF Module

(* A step of a command that is under way keeps the invariant if it keeps   *)
(* what is said of that command.                                           *)
LEMMA StepWithinKeeps ==
  ASSUME RunInv, NEW c \in Commands, c \in Active, Within(c), Shape', met' = met,
         pc'[c] \in Places, at'[c] \in 1 .. Last(c),
         c \notin met => CommandInv(c)'
  PROVE  RunInv'
<1>1. Base'
  BY DEF RunInv, Base, Within, Last
<1>2. Active' \subseteq Active
  BY DEF Active, Within
<1>3. Meetings'
  BY <1>2 DEF RunInv, Meetings, Share, SeqSet
<1> QED
  BY <1>1, <1>3, WithinKeeps

LEMMA StartStep ==
  ASSUME RunInv, NEW c \in Commands, Start(c)
  PROVE  RunInv'
<1> DEFINE others == {d \in Active : Share(c, d)}
<1>1. /\ c \notin met => CommandInv(c)
      /\ Base /\ Shape /\ at[c] \in 1 .. Last(c) /\ Last(c) \in Nat \ {0}
  BY Acting
<1>2. Shape' /\ Within(c) /\ pc'[c] = "write"
  BY <1>1 DEF Start, Goto, Shape, Within
<1>3. Base'
  BY <1>1, <1>2 DEF Base, Places, Within, Last, Start
<1>4. met' = met \cup others \cup {x \in {c} : others # {}}
  BY DEF Start
<1>5. Meetings'
  <2> SUFFICES ASSUME NEW d \in Active', NEW e \in Active', d # e, Share(d, e)
               PROVE  d \in met'
    BY DEF Meetings, Share, SeqSet
  <2>1. Active' = Active \cup {c}
    BY <1>2 DEF Active, Within
  <2>2. CASE d \in Active /\ e \in Active
    BY <1>4, <2>2 DEF RunInv, Meetings
  <2>3. CASE d = c
    <3>1. e \in others
      BY <2>1, <2>3
    <3> QED
      BY <1>4, <2>3, <3>1
  <2>4. CASE e = c
    <3>1. d \in others
      BY <2>1, <2>4 DEF Share
    <3> QED
      BY <1>4, <3>1
  <2> QED
    BY <2>1, <2>2, <2>3, <2>4
<1>6. ASSUME c \notin met'
      PROVE  CommandInv(c)'
  BY <1>1, <1>2, <1>4, <1>6 DEF CommandInv, Start, Last, Own
<1> QED
  BY <1>2, <1>3, <1>4, <1>5, <1>6, WithinKeeps

LEMMA WriteOpenStep ==
  ASSUME RunInv, NEW c \in Commands, WriteOpen(c)
  PROVE  RunInv'
<1> DEFINE f == Module(c)
<1>1. /\ c \notin met => CommandInv(c)
      /\ Shape /\ at[c] \in 1 .. Last(c) /\ Last(c) \in Nat \ {0}
      /\ f = Project[c][at[c]] /\ f \in Files /\ f \in SeqSet(Project[c])
  BY Acting
<1>2. pc[c] = "write" /\ c \in Active /\ met' = met
  BY DEF WriteOpen, Active
<1>3. gen' = [gen EXCEPT ![f] = Empty]
  BY DEF WriteOpen, GenPath
<1>4. Module(c)' = f
  BY DEF WriteOpen, Module
<1> HIDE DEF f
<1>5. Shape' /\ Within(c) /\ pc'[c] = "writing" /\ at'[c] = at[c]
  BY <1>1, <1>2, <1>3 DEF WriteOpen, Goto, Shape, Within
<1>6. gen'[f] = Empty
  BY <1>1, <1>3 DEF Shape
<1>7. ASSUME c \notin met
      PROVE  CommandInv(c)'
  <2>1. \A k \in 1 .. at[c] - 1 : Own(c, k)'
    <3> SUFFICES ASSUME NEW k \in 1 .. at[c] - 1
                 PROVE  gen'[Project[c][k]] = Unit(c, Project[c][k])
      BY DEF Own, GenPath, Unit, Position
    <3>1. k \in 1 .. Last(c) /\ k # at[c]
      BY <1>1
    <3>2. Project[c][k] \in Files /\ Project[c][k] # f
      BY <1>1, <3>1, ProjectIs
    <3>3. gen[Project[c][k]] = Unit(c, Project[c][k])
      BY <1>1, <1>2, <1>7 DEF CommandInv, Own, GenPath
    <3> QED
      BY <1>1, <1>3, <3>2, <3>3 DEF Shape
  <2> QED
    BY <1>1, <1>2, <1>4, <1>5, <1>6, <1>7, <2>1 DEF CommandInv, WriteOpen, Last, GenPath
<1> QED
  BY <1>1, <1>2, <1>5, <1>7, StepWithinKeeps DEF Places

LEMMA WriteCloseStep ==
  ASSUME RunInv, NEW c \in Commands, WriteClose(c)
  PROVE  RunInv'
<1> DEFINE f == Module(c)
<1>1. /\ c \notin met => CommandInv(c)
      /\ Shape /\ at[c] \in 1 .. Last(c) /\ Last(c) \in Nat \ {0}
      /\ f = Project[c][at[c]] /\ f \in Files /\ f \in SeqSet(Project[c])
  BY Acting
<1>2. pc[c] = "writing" /\ c \in Active /\ met' = met
  BY DEF WriteClose, Active
<1>3. PICK new : gen' = [gen EXCEPT ![f] = new] /\ (gen[f] = Empty => new = Unit(c, f))
  BY DEF WriteClose, GenPath
<1> HIDE DEF f
<1>4. /\ Shape' /\ Within(c)
      /\ IF at[c] = Last(c) THEN pc'[c] = "compile" /\ at'[c] = 1
                            ELSE pc'[c] = "write" /\ at'[c] = at[c] + 1
  BY <1>1, <1>2, <1>3 DEF WriteClose, Goto, Shape, Within, Last
<1>5. pc'[c] \in Places /\ at'[c] \in 1 .. Last(c)
  BY <1>1, <1>4 DEF Places
<1>6. ASSUME c \notin met
      PROVE  CommandInv(c)'
  <2>1. new = Unit(c, f)
    BY <1>1, <1>2, <1>3, <1>6 DEF CommandInv, GenPath, f
  <2>2. \A k \in 1 .. at[c] : Own(c, k)'
    <3> SUFFICES ASSUME NEW k \in 1 .. at[c]
                 PROVE  gen'[Project[c][k]] = Unit(c, Project[c][k])
      BY DEF Own, GenPath, Unit, Position
    <3>1. CASE k = at[c]
      BY <1>1, <1>3, <2>1, <3>1 DEF Shape
    <3>2. CASE k # at[c]
      <4>1. k \in 1 .. Last(c) /\ k \in 1 .. at[c] - 1
        BY <1>1, <3>2
      <4>2. Project[c][k] \in Files /\ Project[c][k] # f
        BY <1>1, <3>2, <4>1, ProjectIs
      <4>3. gen[Project[c][k]] = Unit(c, Project[c][k])
        BY <1>1, <1>2, <1>6, <4>1 DEF CommandInv, Own, GenPath
      <4> QED
        BY <1>1, <1>3, <4>2, <4>3 DEF Shape
    <3> QED
      BY <3>1, <3>2
  <2>3. units[c] = {} /\ result[c] = Nothing /\ units' = units /\ result' = result
    BY <1>1, <1>2, <1>6 DEF CommandInv, WriteClose
  <2>4. CASE at[c] = Last(c)
    <3>1. UnitsUpTo(c, at'[c] - 1) = {} /\ UnitsUpTo(c, at[c] - 1)' = UnitsUpTo(c, at'[c] - 1)
      BY <1>4, <2>4 DEF UnitsUpTo, Unit, Position
    <3>2. pc'[c] = "compile" /\ at'[c] = 1 /\ 1 \in 1 .. Last(c) /\ Last(c)' = Last(c)
      BY <1>1, <1>4, <2>4 DEF Last
    <3>3. units'[c] = UnitsUpTo(c, at[c] - 1)'
      BY <2>3, <3>1
    <3>4. \A k \in 1 .. Last(c) : Own(c, k)'
      BY <2>2, <2>4
    <3> QED
      BY <2>3, <3>2, <3>3, <3>4 DEF CommandInv
  <2>5. CASE at[c] # Last(c)
    <3>1. at'[c] \in 1 .. Last(c) /\ at'[c] - 1 = at[c]
      BY <1>1, <1>4, <2>5
    <3> QED
      BY <1>4, <2>2, <2>3, <2>5, <3>1 DEF CommandInv, Last
  <2> QED
    BY <2>4, <2>5
<1> QED
  BY <1>2, <1>4, <1>5, <1>6, StepWithinKeeps

LEMMA CompileStep ==
  ASSUME RunInv, NEW c \in Commands, Compile(c)
  PROVE  RunInv'
<1>1. /\ c \notin met => CommandInv(c)
      /\ Shape /\ at[c] \in 1 .. Last(c) /\ Last(c) \in Nat \ {0}
      /\ Module(c) = Project[c][at[c]]
  BY Acting
<1>2. pc[c] = "compile" /\ c \in Active /\ met' = met /\ UNCHANGED <<gen, exe>>
  BY DEF Compile, Active
<1>3. Shape' /\ Within(c)
  BY <1>1, <1>2 DEF Compile, Fail, Goto, Shape, Within
<1>4. pc'[c] \in Places /\ at'[c] \in 1 .. Last(c)
  BY <1>1, <1>2 DEF Compile, Fail, Goto, Shape, Places, Last
<1>5. ASSUME c \notin met
      PROVE  CommandInv(c)'
  <2>1. /\ \A k \in 1 .. Last(c) : Own(c, k)
        /\ units[c] = UnitsUpTo(c, at[c] - 1) /\ result[c] = Nothing
    BY <1>1, <1>2, <1>5 DEF CommandInv
  <2>2. gen[GenPath(Module(c))] = Unit(c, Project[c][at[c]])
    BY <1>1, <2>1 DEF Own
  <2>3. /\ units' = [units EXCEPT ![c] = @ \cup {Unit(c, Project[c][at[c]])}]
        /\ IF at[c] = Last(c) THEN Goto(c, "link") /\ UNCHANGED at
                              ELSE UNCHANGED pc /\ at' = [at EXCEPT ![c] = @ + 1]
        /\ UNCHANGED result
    BY <1>1, <2>2, UnitIs DEF Compile, Last
  <2>4. units'[c] = UnitsUpTo(c, at[c])
    <3>1. 1 .. at[c] = (1 .. at[c] - 1) \cup {at[c]}
      BY <1>1
    <3>2. UnitsUpTo(c, at[c]) = UnitsUpTo(c, at[c] - 1) \cup {Unit(c, Project[c][at[c]])}
      BY <3>1 DEF UnitsUpTo
    <3> QED
      BY <1>1, <2>1, <2>3, <3>2 DEF Shape
  <2>5. CASE at[c] = Last(c)
    <3>1. pc'[c] = "link" /\ at'[c] = at[c] /\ result'[c] = Nothing /\ Last(c)' = Last(c)
      BY <1>1, <2>1, <2>3, <2>5 DEF Goto, Shape, Last
    <3>2. units'[c] = UnitsUpTo(c, Last(c))'
      BY <2>4, <2>5 DEF UnitsUpTo, Unit, Position, Last
    <3> QED
      BY <1>1, <3>1, <3>2 DEF CommandInv
  <2>6. CASE at[c] # Last(c)
    <3>1. /\ pc'[c] = "compile" /\ at'[c] = at[c] + 1 /\ at[c] + 1 \in 1 .. Last(c)
          /\ result'[c] = Nothing /\ Last(c)' = Last(c)
      BY <1>1, <1>2, <2>1, <2>3, <2>6 DEF Shape, Last
    <3>2. at'[c] - 1 = at[c]
      BY <1>1, <3>1
    <3>3. units'[c] = UnitsUpTo(c, at[c] - 1)'
      BY <2>4, <3>2 DEF UnitsUpTo, Unit, Position
    <3>4. \A k \in 1 .. Last(c) : Own(c, k)'
      BY <1>2, <2>1 DEF Own, GenPath, Unit, Position
    <3> QED
      BY <3>1, <3>3, <3>4 DEF CommandInv
  <2> QED
    BY <2>5, <2>6
<1> QED
  BY <1>2, <1>3, <1>4, <1>5, StepWithinKeeps

LEMMA LinkOpenStep ==
  ASSUME RunInv, NEW c \in Commands, LinkOpen(c)
  PROVE  RunInv'
<1>1. (c \notin met => CommandInv(c)) /\ Shape /\ at[c] \in 1 .. Last(c)
  BY Acting
<1>2. pc[c] = "link" /\ c \in Active /\ met' = met /\ UNCHANGED <<gen, at, units>>
  BY DEF LinkOpen, Active
<1>3. Shape' /\ Within(c) /\ pc'[c] \in Places
  BY <1>1, <1>2 DEF LinkOpen, Fail, Goto, Shape, Within, Places
<1>4. ASSUME c \notin met
      PROVE  CommandInv(c)'
  <2>1. Links(units[c]) /\ result[c] = Nothing
    BY <1>1, <1>2, <1>4, ProjectLinks DEF CommandInv
  <2>2. /\ exe' = [exe EXCEPT ![Output[c]] = [by |-> c, whole |-> FALSE]]
        /\ Goto(c, "linking") /\ UNCHANGED result
    BY <2>1 DEF LinkOpen
  <2>3. pc'[c] = "linking" /\ exe'[Output[c]] = [by |-> c, whole |-> FALSE]
    BY <1>1, <2>2 DEF Goto, Shape
  <2> QED
    BY <1>1, <1>2, <1>4, <2>1, <2>2, <2>3 DEF CommandInv, Last
<1> QED
  BY <1>1, <1>2, <1>3, <1>4, StepWithinKeeps

LEMMA LinkCloseStep ==
  ASSUME RunInv, NEW c \in Commands, LinkClose(c)
  PROVE  RunInv'
<1>1. (c \notin met => CommandInv(c)) /\ Shape /\ at[c] \in 1 .. Last(c)
  BY Acting
<1>2. pc[c] = "linking" /\ c \in Active /\ met' = met /\ UNCHANGED <<gen, at, units>>
  BY DEF LinkClose, Active
<1>3. IF c \in Runs THEN Goto(c, "exec") /\ UNCHANGED result
                    ELSE Goto(c, "ended") /\ result' = [result EXCEPT ![c] = "built"]
  BY DEF LinkClose
<1>4. Shape' /\ Within(c) /\ pc'[c] \in Places
  BY <1>1, <1>2, <1>3 DEF LinkClose, Goto, Shape, Within, Places
<1>5. ASSUME c \notin met
      PROVE  CommandInv(c)'
  <2>1. exe[Output[c]] = [by |-> c, whole |-> FALSE] /\ result[c] = Nothing
    BY <1>1, <1>2, <1>5 DEF CommandInv
  <2>2. exe' = [exe EXCEPT ![Output[c]] = [by |-> c, whole |-> TRUE]]
    <3>1. exe' = [exe EXCEPT ![Output[c]].whole = TRUE]
      BY <2>1 DEF LinkClose
    <3>2. [exe[Output[c]] EXCEPT !.whole = TRUE] = [by |-> c, whole |-> TRUE]
      <4>1. ASSUME NEW r, NEW b \in BOOLEAN, NEW d \in BOOLEAN, r = [by |-> c, whole |-> b]
            PROVE  [r EXCEPT !.whole = d] = [by |-> c, whole |-> d]
        BY <4>1
      <4> QED
        BY <2>1, <4>1
    <3> QED
      BY <3>1, <3>2
  <2>3. /\ exe'[Output[c]] = [by |-> c, whole |-> TRUE]
        /\ c \in Runs => pc'[c] = "exec" /\ result'[c] = Nothing
        /\ c \notin Runs => pc'[c] = "ended" /\ result'[c] = "built"
    BY <1>1, <1>3, <2>1, <2>2 DEF Goto, Shape
  <2> QED
    BY <1>1, <1>2, <1>5, <2>3 DEF CommandInv, Last
<1> QED
  BY <1>1, <1>2, <1>4, <1>5, StepWithinKeeps

LEMMA ExecStep ==
  ASSUME RunInv, NEW c \in Commands, Exec(c)
  PROVE  RunInv'
<1>1. (c \notin met => CommandInv(c)) /\ Shape /\ at[c] \in 1 .. Last(c)
  BY Acting
<1>2. pc[c] = "exec" /\ c \in Active /\ met' = met /\ UNCHANGED <<gen, exe, at, units>>
  BY DEF Exec, Active
<1>3. Shape' /\ Within(c) /\ pc'[c] = "ended"
  BY <1>1, <1>2 DEF Exec, Goto, Shape, Within
<1>4. ASSUME c \notin met
      PROVE  CommandInv(c)'
  <2>1. exe[Output[c]] = [by |-> c, whole |-> TRUE] /\ c \in Runs
    BY <1>1, <1>2, <1>4 DEF CommandInv
  <2>2. result'[c] = c
    BY <1>1, <2>1 DEF Exec, Shape
  <2> QED
    BY <1>1, <1>2, <1>3, <1>4, <2>1, <2>2 DEF CommandInv, Last
<1> QED
  BY <1>1, <1>2, <1>3, <1>4, StepWithinKeeps DEF Places

LEMMA InitRunInv == Init => RunInv
<1> SUFFICES ASSUME Init
             PROVE  RunInv
  OBVIOUS
<1>1. Shape
  BY DEF Init, Shape, GenPath
<1>2. ASSUME NEW c \in Commands
      PROVE  CommandInv(c) /\ pc[c] \in Places /\ at[c] \in 1 .. Last(c)
  <2>1. Last(c) \in Nat \ {0}
    BY ProjectIs
  <2>2. pc[c] = "idle" /\ at[c] = 1 /\ units[c] = {} /\ result[c] = Nothing
    BY DEF Init
  <2> QED
    BY <2>1, <2>2 DEF CommandInv, Places
<1>3. Meetings
  BY DEF Init, Meetings, Active
<1> QED
  BY <1>1, <1>2, <1>3 DEF Base, RunInv

LEMMA StepKeeps == RunInv /\ [Next]_vars => RunInv'
<1> SUFFICES ASSUME RunInv, [Next]_vars
             PROVE  RunInv'
  OBVIOUS
<1>1. ASSUME NEW c \in Commands, Step(c)
      PROVE  RunInv'
  BY <1>1, StartStep, WriteOpenStep, WriteCloseStep, CompileStep, LinkOpenStep, LinkCloseStep,
     ExecStep DEF Step
<1>2. CASE UNCHANGED vars
  <2>1. Base' /\ Meetings'
    BY <1>2 DEF RunInv, Base, Shape, Meetings, Active, Share, Last, SeqSet, vars
  <2>2. \A c \in Commands \ met : CommandInv(c)'
    BY <1>2, OthersKeep DEF RunInv, vars
  <2> QED
    BY <1>2, <2>1, <2>2 DEF RunInv, vars
<1> QED
  BY <1>1, <1>2 DEF Next, AllEnded

LEMMA RunInvHolds == Spec => []RunInv
  BY InitRunInv, StepKeeps, PTL DEF Spec

-----------------------------------------------------------------------------
(***************************************************************************)
(* What is executed.                                                       *)
(***************************************************************************)

(* Until another links over it, what a command has linked is in its place, *)
(* and a command has no result before it ends.                             *)
Executable(x) == \E d \in Commands, b \in BOOLEAN : x = [by |-> d, whole |-> b]

OwnResults(c) == {Nothing, "failed", IF c \in Runs THEN c ELSE "built"}

ExecInv ==
  /\ Shape
  /\ \A c \in Commands :
       /\ pc[c] \in {"linking", "exec"} => Executable(exe[Output[c]])
       /\ pc[c] = "exec" => c \in Runs
       /\ pc[c] \in {"linking", "exec"} /\ c \notin replaced => exe[Output[c]].by = c
       /\ pc[c] # "ended" => result[c] = Nothing
       /\ result[c] \in OwnResults(c) \/ c \in replaced

LEMMA NoResultsYet ==
  ASSUME ExecInv, NEW c \in Commands, pc[c] # "ended"
  PROVE  result[c] = Nothing
  BY DEF ExecInv

(* A step of c that neither links nor executes: the executables stay.      *)
LEMMA QuietStep ==
  ASSUME ExecInv, NEW c \in Commands, Shape', exe' = exe, replaced' = replaced,
         \A d \in Commands \ {c} : pc'[d] = pc[d] /\ result'[d] = result[d],
         pc[c] # "ended",
         \/ pc'[c] \in {"write", "writing", "compile", "link"} /\ result'[c] = result[c]
         \/ pc'[c] = "ended" /\ result'[c] = "failed"
  PROVE  ExecInv'
<1> SUFFICES ASSUME NEW d \in Commands
             PROVE  /\ pc'[d] \in {"linking", "exec"} => Executable(exe[Output[d]])
                    /\ pc'[d] = "exec" => d \in Runs
                    /\ pc'[d] \in {"linking", "exec"} /\ d \notin replaced => exe[Output[d]].by = d
                    /\ pc'[d] # "ended" => result'[d] = Nothing
                    /\ result'[d] \in OwnResults(d) \/ d \in replaced
  BY DEF ExecInv, Executable, OwnResults
<1>1. CASE d = c
  BY <1>1, NoResultsYet DEF OwnResults
<1>2. CASE d # c
  BY <1>2 DEF ExecInv
<1> QED
  BY <1>1, <1>2

(* Linking replaces what other commands have linked to the same place, and *)
(* those are remembered.                                                   *)
LEMMA LinkOpenExec ==
  ASSUME ExecInv, NEW c \in Commands, LinkOpen(c), Links(units[c])
  PROVE  ExecInv'
<1>1. /\ exe' = [exe EXCEPT ![Output[c]] = [by |-> c, whole |-> FALSE]]
      /\ pc' = [pc EXCEPT ![c] = "linking"] /\ pc[c] = "link"
      /\ replaced' = replaced \cup Linked(Output[c])
      /\ UNCHANGED <<gen, at, units, result>>
  BY DEF LinkOpen, Goto
<1>2. Shape /\ Shape' /\ Output[c] \in {Output[d] : d \in Commands}
  BY <1>1 DEF ExecInv, Shape
<1>3. /\ exe'[Output[c]] = [by |-> c, whole |-> FALSE]
      /\ exe'[Output[c]].by = c /\ Executable(exe'[Output[c]])
      /\ \A o \in {Output[d] : d \in Commands} \ {Output[c]} : exe'[o] = exe[o]
  BY <1>1, <1>2 DEF Shape, Executable
<1>4. /\ \A d \in Commands \ {c} : pc'[d] = pc[d]
      /\ pc'[c] = "linking" /\ result' = result /\ result[c] = Nothing
  BY <1>1, <1>2, NoResultsYet DEF Shape
<1> SUFFICES ASSUME NEW d \in Commands
             PROVE  /\ pc'[d] \in {"linking", "exec"} => Executable(exe'[Output[d]])
                    /\ pc'[d] = "exec" => d \in Runs
                    /\ pc'[d] \in {"linking", "exec"} /\ d \notin replaced' => exe'[Output[d]].by = d
                    /\ pc'[d] # "ended" => result'[d] = Nothing
                    /\ result'[d] \in OwnResults(d) \/ d \in replaced'
  BY <1>2 DEF ExecInv, Executable, OwnResults
<1>5. CASE d = c
  BY <1>1, <1>2, <1>3, <1>4, <1>5 DEF OwnResults, Executable, Shape
<1>6. CASE d # c /\ Output[d] = Output[c]
  <2>1. pc[d] \in {"linking", "exec"} => d \in replaced'
    BY <1>1, <1>6 DEF Linked
  <2> QED
    BY <1>1, <1>3, <1>4, <1>6, <2>1 DEF ExecInv
<1>7. CASE d # c /\ Output[d] # Output[c]
  BY <1>1, <1>3, <1>4, <1>7 DEF ExecInv
<1> QED
  BY <1>5, <1>6, <1>7

(* The end of a linking leaves every executable with whom it is.           *)
LEMMA LinkCloseExec ==
  ASSUME ExecInv, NEW c \in Commands, LinkClose(c)
  PROVE  ExecInv'
<1>1. Shape /\ pc[c] = "linking" /\ result[c] = Nothing /\ UNCHANGED <<gen, at, units, replaced>>
  BY NoResultsYet DEF LinkClose, ExecInv
<1>2. exe' = exe \/ exe' = [exe EXCEPT ![Output[c]].whole = TRUE]
  BY DEF LinkClose
<1>3. PICK d \in Commands, b \in BOOLEAN : exe[Output[c]] = [by |-> d, whole |-> b]
  BY <1>1 DEF ExecInv, Executable
<1>4. \/ exe' = exe
      \/ exe' = [exe EXCEPT ![Output[c]] = [by |-> d, whole |-> TRUE]]
  <2>1. [exe[Output[c]] EXCEPT !.whole = TRUE] = [by |-> d, whole |-> TRUE]
    <3>1. ASSUME NEW r, NEW a, NEW v \in BOOLEAN, NEW w \in BOOLEAN, r = [by |-> a, whole |-> v]
          PROVE  [r EXCEPT !.whole = w] = [by |-> a, whole |-> w]
      BY <3>1
    <3> QED
      BY <1>3, <3>1
  <2> QED
    BY <1>2, <2>1
<1>5. ASSUME NEW e \in Commands
      PROVE  /\ exe'[Output[e]].by = exe[Output[e]].by
             /\ Executable(exe[Output[e]]) => Executable(exe'[Output[e]])
  <2> SUFFICES ASSUME exe' # exe
               PROVE  /\ exe'[Output[e]].by = exe[Output[e]].by
                      /\ Executable(exe[Output[e]]) => Executable(exe'[Output[e]])
    OBVIOUS
  <2>1. CASE Output[e] = Output[c]
    <3>1. exe'[Output[e]] = [by |-> d, whole |-> TRUE]
      BY <1>1, <1>4, <2>1 DEF Shape
    <3>2. exe'[Output[e]].by = d /\ exe[Output[e]].by = d
      BY <1>3, <2>1, <3>1
    <3>3. Executable(exe'[Output[e]])
      BY <3>1 DEF Executable
    <3> QED
      BY <3>2, <3>3
  <2>2. CASE Output[e] # Output[c]
    <3>1. exe'[Output[e]] = exe[Output[e]]
      BY <1>1, <1>4, <2>2 DEF Shape
    <3> QED
      BY <3>1
  <2> QED
    BY <2>1, <2>2
<1>6. /\ \A e \in Commands \ {c} : pc'[e] = pc[e] /\ result'[e] = result[e]
      /\ \/ pc'[c] = "exec" /\ result'[c] = Nothing /\ c \in Runs
         \/ pc'[c] = "ended" /\ result'[c] = "built" /\ c \notin Runs
      /\ Shape'
  BY <1>1, <1>4 DEF LinkClose, Goto, Shape
<1> SUFFICES ASSUME NEW e \in Commands
             PROVE  /\ pc'[e] \in {"linking", "exec"} => Executable(exe'[Output[e]])
                    /\ pc'[e] = "exec" => e \in Runs
                    /\ pc'[e] \in {"linking", "exec"} /\ e \notin replaced' => exe'[Output[e]].by = e
                    /\ pc'[e] # "ended" => result'[e] = Nothing
                    /\ result'[e] \in OwnResults(e) \/ e \in replaced'
  BY <1>6 DEF ExecInv, Executable, OwnResults
<1>7. CASE e = c
  <2>1. Executable(exe'[Output[c]]) /\ (c \notin replaced' => exe'[Output[c]].by = c)
    <3>1. Executable(exe[Output[c]]) /\ (c \notin replaced => exe[Output[c]].by = c)
      BY <1>1 DEF ExecInv
    <3>2. exe'[Output[c]].by = exe[Output[c]].by /\ Executable(exe'[Output[c]])
      BY <1>5, <3>1
    <3> QED
      BY <1>1, <3>1, <3>2
  <2>2. result'[c] \in OwnResults(c)
    BY <1>6 DEF OwnResults
  <2> QED
    BY <1>6, <1>7, <2>1, <2>2
<1>8. CASE e # c
  <2>1. /\ pc[e] \in {"linking", "exec"} => Executable(exe[Output[e]])
        /\ pc[e] \in {"linking", "exec"} /\ e \notin replaced => exe[Output[e]].by = e
        /\ pc[e] = "exec" => e \in Runs
        /\ pc[e] # "ended" => result[e] = Nothing
        /\ result[e] \in OwnResults(e) \/ e \in replaced
    BY DEF ExecInv
  <2>2. pc'[e] = pc[e] /\ result'[e] = result[e] /\ replaced' = replaced
    BY <1>1, <1>6, <1>8
  <2>3. /\ exe'[Output[e]].by = exe[Output[e]].by
        /\ Executable(exe[Output[e]]) => Executable(exe'[Output[e]])
    BY <1>5
  <2> QED
    BY <2>1, <2>2, <2>3
<1> QED
  BY <1>7, <1>8

(* What is executed is what is in the place.                               *)
LEMMA ExecExec ==
  ASSUME ExecInv, NEW c \in Commands, Exec(c)
  PROVE  ExecInv'
<1>1. /\ Shape /\ Shape' /\ pc[c] = "exec" /\ pc'[c] = "ended"
      /\ exe' = exe /\ replaced' = replaced
      /\ result'[c] = IF exe[Output[c]].whole THEN exe[Output[c]].by ELSE "failed"
      /\ \A d \in Commands \ {c} : pc'[d] = pc[d] /\ result'[d] = result[d]
  BY DEF Exec, Goto, ExecInv, Shape
<1> SUFFICES ASSUME NEW d \in Commands
             PROVE  /\ pc'[d] \in {"linking", "exec"} => Executable(exe'[Output[d]])
                    /\ pc'[d] = "exec" => d \in Runs
                    /\ pc'[d] \in {"linking", "exec"} /\ d \notin replaced' => exe'[Output[d]].by = d
                    /\ pc'[d] # "ended" => result'[d] = Nothing
                    /\ result'[d] \in OwnResults(d) \/ d \in replaced'
  BY <1>1 DEF ExecInv, Executable, OwnResults
<1>2. CASE d = c
  BY <1>1, <1>2 DEF ExecInv, OwnResults
<1>3. CASE d # c
  BY <1>1, <1>3 DEF ExecInv
<1> QED
  BY <1>2, <1>3

LEMMA StepKeepsExec == ExecInv /\ [Next]_vars => ExecInv'
<1> SUFFICES ASSUME ExecInv, [Next]_vars
             PROVE  ExecInv'
  OBVIOUS
<1>1. Shape
  BY DEF ExecInv
<1>2. ASSUME NEW c \in Commands, Start(c)
      PROVE  ExecInv'
  BY <1>1, <1>2, QuietStep DEF Start, Goto, Shape
<1>3. ASSUME NEW c \in Commands, WriteOpen(c)
      PROVE  ExecInv'
  BY <1>1, <1>3, QuietStep DEF WriteOpen, Goto, Shape, GenPath
<1>4. ASSUME NEW c \in Commands, WriteClose(c)
      PROVE  ExecInv'
  <2>1. \E f, new : gen' = [gen EXCEPT ![f] = new]
    BY <1>4 DEF WriteClose
  <2> QED
    BY <1>1, <1>4, <2>1, QuietStep DEF WriteClose, Goto, Shape
<1>5. ASSUME NEW c \in Commands, Compile(c)
      PROVE  ExecInv'
  BY <1>1, <1>5, QuietStep DEF Compile, Fail, Goto, Shape
<1>6. ASSUME NEW c \in Commands, LinkOpen(c)
      PROVE  ExecInv'
  <2>1. CASE Links(units[c])
    BY <1>6, <2>1, LinkOpenExec
  <2>2. CASE ~ Links(units[c])
    BY <1>1, <1>6, <2>2, QuietStep DEF LinkOpen, Fail, Goto, Shape
  <2> QED
    BY <2>1, <2>2
<1>7. ASSUME NEW c \in Commands, Step(c)
      PROVE  ExecInv'
  BY <1>2, <1>3, <1>4, <1>5, <1>6, <1>7, LinkCloseExec, ExecExec DEF Step
<1>8. CASE UNCHANGED vars
  BY <1>8 DEF ExecInv, Shape, Executable, OwnResults, vars
<1> QED
  BY <1>7, <1>8 DEF Next, AllEnded

-----------------------------------------------------------------------------
(***************************************************************************)
(* Theorems.                                                               *)
(***************************************************************************)

(* A correct project builds, whatever C files others have left in the      *)
(* directory, unless the command met one that shares a module or the       *)
(* output with it.                                                         *)
THEOREM UnmetBuildsSucceed == Spec => []GoodBuildsSucceed
<1>1. RunInv => GoodBuildsSucceed
  <2> SUFFICES ASSUME RunInv, NEW c \in Commands, c \notin met
               PROVE  result[c] # "failed"
    BY DEF GoodBuildsSucceed
  <2>1. result[c] \in {Nothing, c, "built"}
    BY DEF RunInv, CommandInv
  <2>2. Nothing # "failed" /\ c # "failed"
    BY NamesAssumption
  <2> QED
    BY <2>1, <2>2
<1> QED
  BY <1>1, RunInvHolds, PTL

(* However many commands are under way, also che runs that all link to the *)
(* same place, a che run executes what it has linked itself unless another *)
(* command links to that place between its linking and its exec.           *)
THEOREM RunsExecuteTheirOwn == Spec => []RunsItsOwnProgram
<1>1. Init => ExecInv
  BY DEF Init, ExecInv, OwnResults, Shape, GenPath
<1>2. ExecInv => RunsItsOwnProgram
  <2> SUFFICES ASSUME ExecInv, NEW c \in Runs, result[c] \in Commands
               PROVE  result[c] = c \/ c \in replaced
    BY DEF RunsItsOwnProgram
  <2>1. c \in Commands /\ result[c] \notin {Nothing, "failed"}
    BY NamesAssumption, ProjectAssumption
  <2> QED
    BY <2>1 DEF ExecInv, OwnResults
<1> QED
  BY <1>1, <1>2, StepKeepsExec, PTL DEF Spec

(* At most one command is under way, and none has been in another's way.   *)
Alone == /\ pc = [c \in Commands |-> pc[c]]
         /\ \A c, d \in Active : c = d
         /\ met = {} /\ replaced = {}

LEMMA OneIsAlone ==
  ASSUME AtOnce = 1
  PROVE  Spec => []Alone
<1>1. Init => Alone
  BY DEF Init, Alone, Active
<1>2. Alone /\ [Next]_vars => Alone'
  <2> SUFFICES ASSUME Alone, [Next]_vars
               PROVE  Alone'
    OBVIOUS
  <2>1. ASSUME NEW c \in Commands, Start(c)
        PROVE  Alone'
    <3>1. Active = {}
      <4>1. SUFFICES ASSUME NEW d \in Active
                     PROVE  FALSE
        OBVIOUS
      <4>2. Active = {d}
        BY DEF Alone
      <4>3. Cardinality(Active) = 1
        BY <4>2, FS_Singleton
      <4> QED
        BY <2>1, <4>3 DEF Start
    <3>2. met' = {} /\ replaced' = {}
      BY <2>1, <3>1 DEF Alone, Start
    <3> QED
      BY <2>1, <3>1, <3>2 DEF Alone, Active, Start, Goto
  <2>2. ASSUME NEW c \in Commands, Step(c), ~ Start(c)
        PROVE  Alone'
    <3>1. c \in Active /\ \E place : Goto(c, place) \/ UNCHANGED pc
      BY <2>2 DEF Step, WriteOpen, WriteClose, Compile, LinkOpen, LinkClose, Exec, Fail, Active
    <3>2. met' = {} /\ replaced' = {}
      <4>1. \A o : pc[c] = "link" => Linked(o) = {}
        BY <3>1 DEF Alone, Active, Linked
      <4> QED
        BY <2>2, <4>1 DEF Alone, Step, WriteOpen, WriteClose, Compile, LinkOpen, LinkClose, Exec
    <3> QED
      BY <3>1, <3>2 DEF Alone, Active, Goto
  <2>3. CASE UNCHANGED vars
    BY <2>3 DEF Alone, Active, vars
  <2> QED
    BY <2>1, <2>2, <2>3 DEF Next, AllEnded
<1> QED
  BY <1>1, <1>2, PTL DEF Spec

(* Commands that are run one after the other all build, and each che run   *)
(* executes what it was given: the conditions of the theorems above are    *)
(* met then, for neither set ever has a member.                            *)
THEOREM OneAtATime ==
  ASSUME AtOnce = 1
  PROVE  Spec => []((\A c \in Commands : result[c] # "failed") /\ RunsWhatItWasGiven)
<1>1. /\ Alone /\ GoodBuildsSucceed => \A c \in Commands : result[c] # "failed"
      /\ Alone /\ RunsItsOwnProgram => RunsWhatItWasGiven
  BY DEF Alone, GoodBuildsSucceed, RunsItsOwnProgram, RunsWhatItWasGiven
<1>2. Spec => []Alone
  BY OneIsAlone
<1> QED
  BY <1>1, <1>2, UnmetBuildsSucceed, RunsExecuteTheirOwn, PTL
=============================================================================
