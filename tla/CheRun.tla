------------------------------- MODULE CheRun -------------------------------
(***************************************************************************)
(* What che run and che build share on disk: build_prog and write_c99 of   *)
(* src/build.rs, run of src/main_run.rs and src/main_build.rs.             *)
(*                                                                         *)
(* Every module of a project becomes one C file in $CHELANG_HOME/tmp whose *)
(* name depends on the module's path only; its contents depend on the      *)
(* project too, because names are prefixed with the module's position in   *)
(* it.  che run links everything into /tmp/chebuild and executes that.     *)
(* Several commands may be under way at once; nothing keeps them apart.    *)
(* All projects here are correct: each builds when it is alone, and the    *)
(* directory of the generated files has been made already.  The last       *)
(* two variables only remember, for the properties, who got in whose way.  *)
(***************************************************************************)
EXTENDS Integers, Sequences, FiniteSets

CONSTANTS Commands,    \* invocations of che
          Runs,        \* those that are che run, the others are che build
          Files,       \* module paths
          Imports,     \* the modules each file imports
          Project,     \* for each command its modules, the main one last
          Output,      \* where each command wants the executable
          AtOnce,      \* how many commands are ever under way together
          Nothing

ASSUME ProjectAssumption ==
  /\ Runs \subseteq Commands
  /\ Imports \in [Files -> SUBSET Files]
  /\ Project \in [Commands -> Seq(Files) \ {<<>>}]
  /\ \A c \in Commands : \A i \in DOMAIN Project[c] :
       /\ \A d \in Imports[Project[c][i]] : \E j \in 1 .. i - 1 : Project[c][j] = d
       /\ \A j \in DOMAIN Project[c] : Project[c][i] = Project[c][j] => i = j
  /\ AtOnce \in Nat \ {0}

ASSUME NamesAssumption ==
  Nothing \notin Files \cup Commands \cup {"failed"} /\ "failed" \notin Commands

VARIABLES gen,      \* the generated C files
          exe,      \* the executables: whose, and whether written out
          pc, at,   \* where each command is, and at which of its modules
          units,    \* the C files the command's compiler has read
          result,   \* "built", "failed", or whose program was executed
          met,      \* those that were under way with another that shares something
          replaced  \* those whose output another linked over before it was executed

vars == <<gen, exe, pc, at, units, result, met, replaced>>

SeqSet(s) == {s[i] : i \in DOMAIN s}

Position(c, f) == CHOOSE i \in DOMAIN Project[c] : Project[c][i] = f

(* The C translation of f in the project of c: the prefix of its own names *)
(* and the prefixes it expects of its imports.                             *)
Unit(c, f) == [file   |-> f,
               prefix |-> Position(c, f),
               expect |-> [d \in Imports[f] |-> Position(c, d)]]

Empty == [file |-> Nothing]      \* just truncated
Garbled == [file |-> Nothing, prefix |-> 0]

(* {dirpath}/{md5 of the module's path}.c                                  *)
GenPath(f) == f

Init ==
  /\ gen = [g \in {GenPath(f) : f \in Files} |-> Nothing]
  /\ exe = [o \in {Output[c] : c \in Commands} |-> Nothing]
  /\ pc = [c \in Commands |-> "idle"]
  /\ at = [c \in Commands |-> 1]
  /\ units = [c \in Commands |-> {}]
  /\ result = [c \in Commands |-> Nothing]
  /\ met = {}
  /\ replaced = {}

Active == {c \in Commands : pc[c] \notin {"idle", "ended"}}

(* Two commands have a module or an output in common.                      *)
Share(c, d) == Output[c] = Output[d] \/ SeqSet(Project[c]) \cap SeqSet(Project[d]) # {}

Goto(c, place) == pc' = [pc EXCEPT ![c] = place]

Start(c) ==
  /\ pc[c] = "idle"
  /\ Cardinality(Active) < AtOnce
  /\ Goto(c, "write")
  /\ LET others == {d \in Active : Share(c, d)}
     IN met' = met \cup others \cup {x \in {c} : others # {}}
  /\ UNCHANGED <<gen, exe, at, units, result, replaced>>

Module(c) == Project[c][at[c]]

(* fs::write opens the file, which empties it, and then writes.            *)
WriteOpen_IfMissing(c) ==        \* a slip: an existing file is kept
  /\ pc[c] = "write"
  /\ IF gen[GenPath(Module(c))] = Nothing
     THEN /\ gen' = [gen EXCEPT ![GenPath(Module(c))] = Empty]
          /\ Goto(c, "writing")
          /\ UNCHANGED at
     ELSE /\ UNCHANGED gen
          /\ IF at[c] = Len(Project[c])
             THEN Goto(c, "compile") /\ at' = [at EXCEPT ![c] = 1]
             ELSE UNCHANGED pc /\ at' = [at EXCEPT ![c] = @ + 1]
  /\ UNCHANGED <<exe, units, result, met, replaced>>

WriteOpen(c) ==
  /\ pc[c] = "write"
  /\ gen' = [gen EXCEPT ![GenPath(Module(c))] = Empty]
  /\ Goto(c, "writing")
  /\ UNCHANGED <<exe, at, units, result, met, replaced>>

(* Two writers of one file that both emptied it write over each other.     *)
WriteClose(c) ==
  /\ pc[c] = "writing"
  /\ LET g == GenPath(Module(c))
         u == Unit(c, Module(c))
     IN \E new \in IF gen[g] \in {Empty, u} THEN {u} ELSE {u, Garbled} :
          gen' = [gen EXCEPT ![g] = new]
  /\ IF at[c] = Len(Project[c])
     THEN Goto(c, "compile") /\ at' = [at EXCEPT ![c] = 1]
     ELSE Goto(c, "write") /\ at' = [at EXCEPT ![c] = @ + 1]
  /\ UNCHANGED <<exe, units, result, met, replaced>>

Fail(c) ==
  /\ Goto(c, "ended")
  /\ result' = [result EXCEPT ![c] = "failed"]

(* c99 compiles the files one after the other; an empty or a garbled one   *)
(* is an error.                                                            *)
Compile(c) ==
  /\ pc[c] = "compile"
  /\ LET u == gen[GenPath(Module(c))]
     IN IF u \in {Empty, Garbled}
        THEN Fail(c) /\ UNCHANGED <<at, units>>
        ELSE /\ units' = [units EXCEPT ![c] = @ \cup {u}]
             /\ IF at[c] = Len(Project[c])
                THEN Goto(c, "link") /\ UNCHANGED at
                ELSE UNCHANGED pc /\ at' = [at EXCEPT ![c] = @ + 1]
             /\ UNCHANGED result
  /\ UNCHANGED <<gen, exe, met, replaced>>

(* Every name a unit expects of an import is defined, and none twice.      *)
Links(us) ==
  /\ \A u \in us : \A d \in Imports[u.file] :
       \E v \in us : v.file = d /\ v.prefix = u.expect[d]
  /\ \A u, v \in us : u.prefix = v.prefix => u = v

LinkOpen_IfMissing(c) ==         \* a slip: an executable that is there is kept
  /\ pc[c] = "link"
  /\ IF Links(units[c])
     THEN /\ exe' = IF exe[Output[c]] = Nothing
                    THEN [exe EXCEPT ![Output[c]] = [by |-> c, whole |-> FALSE]]
                    ELSE exe
          /\ Goto(c, "linking")
          /\ UNCHANGED <<result, replaced>>
     ELSE Fail(c) /\ UNCHANGED <<exe, replaced>>
  /\ UNCHANGED <<gen, at, units, met>>

(* Those that have linked, or are about to, and not executed yet.          *)
Linked(o) == {d \in Commands : pc[d] \in {"linking", "exec"} /\ Output[d] = o}

(* The linker replaces the output by a new file, which it then fills.      *)
LinkOpen(c) ==
  /\ pc[c] = "link"
  /\ IF Links(units[c])
     THEN /\ exe' = [exe EXCEPT ![Output[c]] = [by |-> c, whole |-> FALSE]]
          /\ Goto(c, "linking")
          /\ replaced' = replaced \cup Linked(Output[c])
          /\ UNCHANGED result
     ELSE Fail(c) /\ UNCHANGED <<exe, replaced>>
  /\ UNCHANGED <<gen, at, units, met>>

LinkClose(c) ==
  /\ pc[c] = "linking"
  /\ exe' = IF exe[Output[c]].by = c
            THEN [exe EXCEPT ![Output[c]].whole = TRUE]
            ELSE exe
  /\ IF c \in Runs
     THEN Goto(c, "exec") /\ UNCHANGED result
     ELSE Goto(c, "ended") /\ result' = [result EXCEPT ![c] = "built"]
  /\ UNCHANGED <<gen, at, units, met, replaced>>

(* exec of /tmp/chebuild, whatever is there by now.                        *)
Exec(c) ==
  /\ pc[c] = "exec"
  /\ Goto(c, "ended")
  /\ result' = [result EXCEPT ![c] =
                  IF exe[Output[c]].whole THEN exe[Output[c]].by ELSE "failed"]
  /\ UNCHANGED <<gen, exe, at, units, met, replaced>>

Step(c) == \/ Start(c) \/ WriteOpen(c) \/ WriteClose(c)
           \/ Compile(c) \/ LinkOpen(c) \/ LinkClose(c) \/ Exec(c)

AllEnded == (\A c \in Commands : pc[c] = "ended") /\ UNCHANGED vars

Next == (\E c \in Commands : Step(c)) \/ AllEnded

Spec == Init /\ [][Next]_vars

-----------------------------------------------------------------------------
(* Every variable has its type.                                            *)
TypeOK ==
  /\ pc \in [Commands -> {"idle", "write", "writing", "compile", "link", "linking",
                          "exec", "ended"}]
  /\ \A c \in Commands :
       /\ at[c] \in DOMAIN Project[c]
       /\ result[c] \in {Nothing, "built", "failed"} \cup Commands
       /\ \A u \in units[c] : u.file \in Files /\ u.prefix \in Nat \ {0}
  /\ \A o \in DOMAIN exe : exe[o] # Nothing => exe[o].by \in Commands

(* A correct project builds, whatever C files and executables earlier      *)
(* commands have left behind, those included that spoilt each other's: only*)
(* another command that is under way at the same time and shares a module  *)
(* or the output can make it fail.                                         *)
GoodBuildsSucceed == \A c \in Commands : result[c] = "failed" => c \in met

(* Whatever is under way with it, a che run executes what it has linked    *)
(* itself, unless another command links to the same place before the exec: *)
(* that "Build from a source file and run" (src/main.rs:35) is not so then.*)
RunsItsOwnProgram ==
  \A c \in Runs : result[c] \in Commands => result[c] = c \/ c \in replaced

(* The same without a condition, which two che runs at once do not meet,   *)
(* for all of them link to /tmp/chebuild: see OneAtATime of CheRun_proofs. *)
RunsWhatItWasGiven == \A c \in Runs : result[c] \in Commands => result[c] = c
=============================================================================
