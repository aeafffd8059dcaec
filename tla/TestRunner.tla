----------------------------- MODULE TestRunner -----------------------------
(***************************************************************************)
(* che test: run, run_arg and find_tests of src/main_test.rs.  Every test  *)
(* of every directory given is built into ./test.out and executed; the     *)
(* number of failures becomes the exit status, of which the system keeps   *)
(* eight bits.                                                             *)
(***************************************************************************)
EXTENDS Integers, Sequences, FiniteSets

CONSTANTS Tests,      \* the *.test.c files
          Dirs,       \* what find_tests may find below one argument
          NArgs,      \* how many arguments
          Outcomes,   \* what may become of a test
          ExitCodes,  \* how many exit statuses there are
          Nothing

Settings ==
  /\ Dirs \subseteq Seq(Tests) /\ NArgs \in Nat /\ ExitCodes \in Nat \ {0}
  /\ Nothing \notin Tests

VARIABLES args,     \* the tests below each argument
          outcome,  \* what each test would do
          arg, at,  \* the test under way: of which argument, and which one
          pc,       \* "arg", "build", "execute", "ended" or "panicked"
          testout,  \* whose executable ./test.out is
          executed, \* what was executed for which test, in order
          printed,  \* the tests a FAIL line was printed for, in order
          fails, total, argfails,
          status    \* the exit status

vars == <<args, outcome, arg, at, pc, testout, executed, printed, fails, total, argfails, status>>

Init ==
  /\ args \in [1 .. NArgs -> Dirs]
  /\ outcome \in [Tests -> Outcomes]
  /\ arg = 1 /\ at = 1
  /\ pc = "arg"
  /\ testout = Nothing
  /\ executed = <<>> /\ printed = <<>>
  /\ fails = 0 /\ total = 0 /\ argfails = 0
  /\ status = Nothing

Test == args[arg][at]

(* run_arg has found the tests of the next argument, or run is done and    *)
(* returns the failures as exit status.                                    *)
NextArg ==
  /\ pc = "arg"
  /\ IF arg <= NArgs
     THEN /\ pc' = "build"
          /\ at' = 1
          /\ argfails' = 0
          /\ UNCHANGED <<fails, total, status>>
     ELSE /\ pc' = "ended"
          /\ status' = fails % ExitCodes
          /\ UNCHANGED <<at, argfails, fails, total>>
  /\ UNCHANGED <<args, outcome, arg, testout, executed, printed>>

(* The loop of run_arg is over: its totals are added up.                   *)
ArgDone_Overwriting ==           \* a slip: keeps the last argument's failures
  /\ pc = "build"
  /\ at > Len(args[arg])
  /\ fails' = argfails
  /\ total' = total + Len(args[arg])
  /\ arg' = arg + 1
  /\ pc' = "arg"
  /\ UNCHANGED <<args, outcome, at, testout, executed, printed, argfails, status>>

ArgDone ==
  /\ pc = "build"
  /\ at > Len(args[arg])
  /\ fails' = fails + argfails
  /\ total' = total + Len(args[arg])
  /\ arg' = arg + 1
  /\ pc' = "arg"
  /\ UNCHANGED <<args, outcome, at, testout, executed, printed, argfails, status>>

Build_GoingOn ==                 \* a slip: no continue after a failed build
  /\ pc = "build"
  /\ at <= Len(args[arg])
  /\ IF outcome[Test] = "does not compile"
     THEN /\ printed' = Append(printed, Test)
          /\ UNCHANGED testout
     ELSE /\ testout' = Test
          /\ UNCHANGED printed
  /\ pc' = "execute"
  /\ UNCHANGED <<args, outcome, arg, at, executed, fails, total, argfails, status>>

(* A failed build prints FAIL, leaves ./test.out alone and goes on with    *)
(* the next test.                                                          *)
Build ==
  /\ pc = "build"
  /\ at <= Len(args[arg])
  /\ IF outcome[Test] = "does not compile"
     THEN /\ printed' = Append(printed, Test)
          /\ at' = at + 1
          /\ UNCHANGED <<pc, testout>>
     ELSE /\ testout' = Test
          /\ pc' = "execute"
          /\ UNCHANGED <<at, printed>>
  /\ UNCHANGED <<args, outcome, arg, executed, fails, total, argfails, status>>

(* Command::output waits for ./test.out; output that is not UTF-8 panics.  *)
Execute ==
  /\ pc = "execute"
  /\ executed' = Append(executed, [test |-> Test, program |-> testout])
  /\ IF testout = Nothing \/ outcome[testout] = "prints no text"
     THEN pc' = "panicked" /\ UNCHANGED <<at, argfails, printed>>
     ELSE /\ pc' = "build"
          /\ at' = at + 1
          /\ IF outcome[testout] = "fails"
             THEN argfails' = argfails + 1 /\ printed' = Append(printed, Test)
             ELSE UNCHANGED <<argfails, printed>>
  /\ UNCHANGED <<args, outcome, arg, testout, fails, total, status>>

Ended == pc \in {"ended", "panicked"} /\ UNCHANGED vars

Next == NextArg \/ ArgDone \/ Build \/ Execute \/ Ended

Spec == Init /\ [][Next]_vars

-----------------------------------------------------------------------------
(* Every variable has its type.                                            *)
TypeOK ==
  /\ arg \in 1 .. NArgs + 1
  /\ pc \in {"arg", "build", "execute", "ended", "panicked"}
  /\ pc = "execute" => at \in DOMAIN args[arg]
  /\ testout \in Tests \cup {Nothing}
  /\ fails \in Nat /\ total \in Nat /\ argfails \in Nat
  /\ status \in (0 .. ExitCodes - 1) \cup {Nothing}

(* What is executed for a test is that test, never the executable an       *)
(* earlier one left behind in ./test.out.                                  *)
VerdictIsOwn == \A i \in DOMAIN executed : executed[i].program = executed[i].test

(* At the end every test that was executed and failed is counted, as often *)
(* as it was executed, the total is of those executed and those that did   *)
(* not compile, and the exit status tells whether one was counted.         *)
Failed == {k \in DOMAIN executed : outcome[executed[k].test] = "fails"}
Uncompiled == {k \in DOMAIN printed : outcome[printed[k]] = "does not compile"}

EveryFailureCounted ==
  pc = "ended" =>
    /\ fails = Cardinality(Failed)
    /\ total = Len(executed) + Cardinality(Uncompiled)
    /\ (status = 0) = (fails = 0)

VerdictsCount == VerdictIsOwn /\ EveryFailureCounted
=============================================================================
