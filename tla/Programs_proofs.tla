--------------------------- MODULE Programs_proofs ---------------------------
(***************************************************************************)
(* Theorems about che test, the torrent list, the web server and           *)
(* Battleship.                                                             *)
(***************************************************************************)
EXTENDS Programs, FiniteSetTheorems, SequenceTheorems, RecursionTheorems, TLAPS

(* Each program's steps leave the others as they are.                      *)
LEMMA StepOfOne ==
  ASSUME [MachinesNext]_machines
  PROVE  /\ program' = program
         /\ Chosen("che test") => [T!Next]_(T!vars)
         /\ Chosen("battleship") => [B!Next]_(B!vars)
         /\ Chosen("web server") => [W!Next]_(W!webserver)
         /\ Chosen("torrent list") => [D!Next]_(D!tl)
<1>1. program' = program
  BY DEF MachinesNext, machines, Che, CheTest, Battleship, LZW, WebServer, TorrentList
<1>2. Chosen("che test") => [T!Next]_(T!vars)
  BY DEF MachinesNext, machines, Che, CheTest, Battleship, LZW, WebServer, TorrentList, Chosen, chetest, T!vars
<1>3. Chosen("battleship") => [B!Next]_(B!vars)
  BY DEF MachinesNext, machines, Che, CheTest, Battleship, LZW, WebServer, TorrentList, Chosen, battleship, B!vars
<1>4. Chosen("web server") => [W!Next]_(W!webserver)
  BY DEF MachinesNext, machines, Che, CheTest, Battleship, LZW, WebServer, TorrentList, Chosen, webserver, W!webserver
<1>5. Chosen("torrent list") => [D!Next]_(D!tl)
  BY DEF MachinesNext, machines, Che, CheTest, Battleship, LZW, WebServer, TorrentList, Chosen, tl, D!tl
<1> QED
  BY <1>1, <1>2, <1>3, <1>4, <1>5

-----------------------------------------------------------------------------
(***************************************************************************)
(* che test: for any directories and any outcomes, verdicts are of the     *)
(* test's own executable and what is counted is what happened.             *)
(***************************************************************************)

Pending(n) == IF doing \in {"build", "execute"} THEN n ELSE 0

(* What is counted so far, with what the argument under way will add.      *)
Counted ==
  /\ fails + Pending(argfails) = Cardinality(T!Failed)
  /\ total + Pending(atTest - 1) = Len(executed) + Cardinality(T!Uncompiled)

Under ==
  /\ args \in [1 .. NArgs -> Seq(Tests)]
  /\ arg \in 1 .. NArgs + 1
  /\ doing \in {"arg", "build", "execute", "ended", "panicked"}
  /\ doing \in {"build", "execute"} => arg \in 1 .. NArgs /\ atTest \in 1 .. Len(args[arg]) + 1
  /\ doing = "execute" => atTest \in 1 .. Len(args[arg])

Record ==
  /\ executed \in Seq([test : Tests, program : Tests])
  /\ printed \in Seq(Tests)
  /\ fails \in Nat /\ total \in Nat /\ argfails \in Nat
  /\ T!VerdictIsOwn

Compiled == outcome[T!Test] # "does not compile"

Reported == doing = "ended" => status = fails % ExitCodes

RunnerInv ==
  /\ Under /\ Record
  /\ doing = "execute" => testout = T!Test /\ Compiled
  /\ doing # "panicked" => Counted
  /\ Reported

-----------------------------------------------------------------------------
(***************************************************************************)
(* Counting.                                                               *)
(***************************************************************************)

LEMMA Appending ==
  ASSUME NEW S, NEW s \in Seq(S), NEW e \in S
  PROVE  /\ Append(s, e) \in Seq(S) /\ Len(s) \in Nat /\ Len(Append(s, e)) = Len(s) + 1
         /\ DOMAIN s = 1 .. Len(s) /\ DOMAIN Append(s, e) = 1 .. Len(s) + 1
         /\ Append(s, e)[Len(s) + 1] = e
         /\ \A k \in 1 .. Len(s) : Append(s, e)[k] = s[k]
         /\ Append(s, e) # <<>>
  OBVIOUS

(* How many elements of a sequence are in a set.                           *)
Places(s, P) == {k \in DOMAIN s : s[k] \in P}

LEMMA OneMore ==
  ASSUME NEW S, NEW s \in Seq(S), NEW e \in S, NEW P
  PROVE  /\ Cardinality(Places(s, P)) \in Nat
         /\ Cardinality(Places(Append(s, e), P)) =
              Cardinality(Places(s, P)) + IF e \in P THEN 1 ELSE 0
<1> DEFINE n == Len(s) + 1
<1>1. /\ Len(s) \in Nat /\ DOMAIN s = 1 .. Len(s) /\ DOMAIN Append(s, e) = 1 .. n
      /\ Append(s, e)[n] = e /\ \A k \in 1 .. Len(s) : Append(s, e)[k] = s[k]
  BY Appending
<1>2. IsFiniteSet(Places(s, P))
  <2>1. IsFiniteSet(1 .. Len(s))
    BY <1>1, FS_Interval
  <2> QED
    BY <1>1, <2>1, FS_Subset DEF Places
<1>3. n \notin Places(s, P)
  BY <1>1 DEF Places
<1>4. 1 .. n = (1 .. Len(s)) \cup {n}
  BY <1>1
<1> HIDE DEF n
<1>5. Places(Append(s, e), P) = IF e \in P THEN Places(s, P) \cup {n} ELSE Places(s, P)
  BY <1>1, <1>4 DEF Places
<1>6. Cardinality(Places(s, P) \cup {n}) = Cardinality(Places(s, P)) + 1
  BY <1>2, <1>3, FS_AddElement
<1>7. Cardinality(Places(s, P)) \in Nat
  BY <1>2, FS_CardinalityType
<1>8. CASE e \in P
  BY <1>5, <1>6, <1>7, <1>8
<1>9. CASE e \notin P
  BY <1>5, <1>7, <1>9
<1> QED
  BY <1>8, <1>9

LEMMA ElementsIn ==
  ASSUME NEW S, NEW s \in Seq(S)
  PROVE  \A k \in DOMAIN s : s[k] \in S
  OBVIOUS

(* Executing a test, and printing FAIL for one.                            *)
LEMMA CountExecuted ==
  ASSUME NEW s \in Seq([test : Tests, program : Tests]), NEW x \in Tests,
         executed = s, executed' = Append(s, [test |-> x, program |-> x]), outcome' = outcome
  PROVE  /\ Cardinality(T!Failed) \in Nat
         /\ Cardinality(T!Failed)' = Cardinality(T!Failed) + IF outcome[x] = "fails" THEN 1 ELSE 0
<1> DEFINE S == [test : Tests, program : Tests]
           P == {e \in S : outcome[e.test] = "fails"}
           e == [test |-> x, program |-> x]
<1>1. s \in Seq(S) /\ e \in S /\ Append(s, e) \in Seq(S)
  OBVIOUS
<1>2. e \in P <=> outcome[x] = "fails"
  BY <1>1
<1>3. \A k \in DOMAIN s : s[k] \in P <=> outcome[s[k].test] = "fails"
  BY ElementsIn
<1>4. \A k \in DOMAIN Append(s, e) : Append(s, e)[k] \in P <=> outcome[Append(s, e)[k].test] = "fails"
  BY <1>1, ElementsIn
<1> HIDE DEF P, e, S
<1>5. T!Failed = Places(s, P)
  BY <1>3 DEF T!Failed, Places
<1>6. executed' = Append(s, e)
  BY DEF e
<1>7. T!Failed' = Places(Append(s, e), P)
  BY <1>4, <1>6 DEF T!Failed, Places
<1>8. /\ Cardinality(Places(s, P)) \in Nat
      /\ Cardinality(Places(Append(s, e), P)) =
           Cardinality(Places(s, P)) + IF e \in P THEN 1 ELSE 0
  BY <1>1, OneMore
<1> QED
  BY <1>2, <1>5, <1>7, <1>8

LEMMA CountPrinted ==
  ASSUME NEW s \in Seq(Tests), NEW x \in Tests,
         printed = s, printed' = Append(s, x), outcome' = outcome
  PROVE  /\ Cardinality(T!Uncompiled) \in Nat
         /\ Cardinality(T!Uncompiled)' =
              Cardinality(T!Uncompiled) + IF outcome[x] = "does not compile" THEN 1 ELSE 0
<1> DEFINE P == {y \in Tests : outcome[y] = "does not compile"}
<1>1. Append(s, x) \in Seq(Tests)
  OBVIOUS
<1>2. x \in P <=> outcome[x] = "does not compile"
  OBVIOUS
<1>3. \A k \in DOMAIN s : s[k] \in P <=> outcome[s[k]] = "does not compile"
  BY ElementsIn
<1>4. \A k \in DOMAIN Append(s, x) : Append(s, x)[k] \in P <=> outcome[Append(s, x)[k]] = "does not compile"
  BY <1>1, ElementsIn
<1> HIDE DEF P
<1>5. T!Uncompiled = Places(s, P)
  BY <1>3 DEF T!Uncompiled, Places
<1>6. T!Uncompiled' = Places(Append(s, x), P)
  BY <1>4 DEF T!Uncompiled, Places
<1>7. /\ Cardinality(Places(s, P)) \in Nat
      /\ Cardinality(Places(Append(s, x), P)) =
           Cardinality(Places(s, P)) + IF x \in P THEN 1 ELSE 0
  BY OneMore
<1> QED
  BY <1>2, <1>5, <1>6, <1>7

-----------------------------------------------------------------------------
LEMMA InitRunnerInv ==
  ASSUME T!Settings, T!Init
  PROVE  RunnerInv
<1>1. T!Failed = {} /\ T!Uncompiled = {}
  BY DEF T!Init, T!Failed, T!Uncompiled
<1>2. Counted
  BY <1>1, FS_EmptySet DEF T!Init, Counted, Pending
<1>3. args \in [1 .. NArgs -> Seq(Tests)] /\ arg \in 1 .. NArgs + 1
  BY DEF T!Init, T!Settings
<1>4. Under
  BY <1>3 DEF T!Init, Under
<1>5. Record
  BY DEF T!Init, Record, T!VerdictIsOwn
<1> QED
  BY <1>2, <1>4, <1>5 DEF T!Init, RunnerInv, Reported

(* What is known of the argument under way.                                *)
LEMMA UnderWay ==
  ASSUME T!Settings, RunnerInv
  PROVE  /\ fails \in Nat /\ total \in Nat /\ argfails \in Nat
         /\ executed \in Seq([test : Tests, program : Tests]) /\ Len(executed) \in Nat
         /\ printed \in Seq(Tests)
         /\ doing \in {"build", "execute"} =>
              /\ arg \in 1 .. NArgs /\ Len(args[arg]) \in Nat /\ atTest \in 1 .. Len(args[arg]) + 1
              /\ atTest <= Len(args[arg]) => T!Test \in Tests
<1>1. /\ fails \in Nat /\ total \in Nat /\ argfails \in Nat
      /\ executed \in Seq([test : Tests, program : Tests]) /\ printed \in Seq(Tests)
  BY DEF RunnerInv, Record
<1>2. Len(executed) \in Nat
  BY <1>1, LenProperties
<1>3. ASSUME doing \in {"build", "execute"}
      PROVE  /\ arg \in 1 .. NArgs /\ Len(args[arg]) \in Nat /\ atTest \in 1 .. Len(args[arg]) + 1
             /\ atTest <= Len(args[arg]) => T!Test \in Tests
  <2>1. arg \in 1 .. NArgs /\ atTest \in 1 .. Len(args[arg]) + 1
    BY <1>3 DEF RunnerInv, Under
  <2>2. args[arg] \in Seq(Tests)
    BY <2>1 DEF RunnerInv, Under
  <2>3. Len(args[arg]) \in Nat
    BY <2>2, LenProperties
  <2>4. ASSUME atTest <= Len(args[arg])
        PROVE  T!Test \in Tests
    <3>1. atTest \in 1 .. Len(args[arg])
      BY <2>1, <2>3, <2>4
    <3> QED
      BY <2>2, <3>1, ElementOfSeq DEF T!Test
  <2> QED
    BY <2>1, <2>3, <2>4
<1> QED
  BY <1>1, <1>2, <1>3

LEMMA NextArgStep ==
  ASSUME T!Settings, RunnerInv, T!NextArg
  PROVE  RunnerInv'
<1>1. T!Failed' = T!Failed /\ T!Uncompiled' = T!Uncompiled
  BY DEF T!NextArg, T!Failed, T!Uncompiled
<1>2. Counted /\ doing = "arg" /\ fails \in Nat /\ total \in Nat
  BY UnderWay DEF RunnerInv, T!NextArg
<1>3. UNCHANGED <<args, outcome, arg, testout, executed, printed>>
  BY DEF T!NextArg
<1>4. CASE arg <= NArgs
  <2>1. doing' = "build" /\ atTest' = 1 /\ argfails' = 0 /\ UNCHANGED <<fails, total, status>>
    BY <1>4 DEF T!NextArg
  <2>2. arg \in 1 .. NArgs
    BY <1>4 DEF RunnerInv, Under, T!Settings
  <2>3. args[arg] \in Seq(Tests)
    BY <2>2 DEF RunnerInv, Under
  <2>4. 1 \in 1 .. Len(args[arg]) + 1
    BY <2>3, LenProperties
  <2>5. Counted'
    BY <1>1, <1>2, <1>3, <2>1 DEF Counted, Pending
  <2>6. Under'
    BY <1>3, <2>1, <2>2, <2>4 DEF RunnerInv, Under
  <2>7. Record'
    BY <1>3, <2>1 DEF RunnerInv, Record, T!VerdictIsOwn
  <2> QED
    BY <2>1, <2>5, <2>6, <2>7 DEF RunnerInv, Reported
<1>5. CASE ~ (arg <= NArgs)
  <2>1. doing' = "ended" /\ status' = fails % ExitCodes /\ UNCHANGED <<atTest, argfails, fails, total>>
    BY <1>5 DEF T!NextArg
  <2>2. Counted'
    BY <1>1, <1>2, <1>3, <2>1 DEF Counted, Pending
  <2>3. Under'
    BY <1>3, <2>1 DEF RunnerInv, Under
  <2>4. Record'
    BY <1>3, <2>1 DEF RunnerInv, Record, T!VerdictIsOwn
  <2> QED
    BY <2>1, <2>2, <2>3, <2>4 DEF RunnerInv, Reported
<1> QED
  BY <1>4, <1>5

LEMMA ArgDoneStep ==
  ASSUME T!Settings, RunnerInv, T!ArgDone
  PROVE  RunnerInv'
<1>1. T!Failed' = T!Failed /\ T!Uncompiled' = T!Uncompiled
  BY DEF T!ArgDone, T!Failed, T!Uncompiled
<1>2. /\ arg \in 1 .. NArgs /\ atTest - 1 = Len(args[arg]) /\ Len(args[arg]) \in Nat
      /\ fails \in Nat /\ argfails \in Nat /\ total \in Nat /\ Counted /\ doing = "build"
  <2>1. doing = "build" /\ atTest > Len(args[arg])
    BY DEF T!ArgDone
  <2>2. Counted
    BY <2>1 DEF RunnerInv
  <2>3. /\ fails \in Nat /\ argfails \in Nat /\ total \in Nat
        /\ arg \in 1 .. NArgs /\ Len(args[arg]) \in Nat /\ atTest \in 1 .. Len(args[arg]) + 1
    BY <2>1, UnderWay
  <2> QED
    BY <2>1, <2>2, <2>3
<1>3. /\ fails' = fails + argfails /\ total' = total + Len(args[arg])
      /\ arg' = arg + 1 /\ doing' = "arg"
      /\ UNCHANGED <<args, outcome, atTest, testout, executed, printed, argfails, status>>
  BY DEF T!ArgDone
<1>4. Counted'
  BY <1>1, <1>2, <1>3 DEF Counted, Pending
<1>5. Under'
  BY <1>2, <1>3 DEF RunnerInv, Under, T!Settings
<1>6. Record'
  BY <1>2, <1>3 DEF RunnerInv, Record, T!VerdictIsOwn
<1> QED
  BY <1>3, <1>4, <1>5, <1>6 DEF RunnerInv, Reported

LEMMA BuildStep ==
  ASSUME T!Settings, RunnerInv, T!Build
  PROVE  RunnerInv'
<1>1. /\ arg \in 1 .. NArgs /\ Len(args[arg]) \in Nat /\ atTest \in 1 .. Len(args[arg])
      /\ fails \in Nat /\ argfails \in Nat /\ total \in Nat /\ Counted /\ doing = "build"
      /\ T!Test \in Tests /\ Len(executed) \in Nat /\ printed \in Seq(Tests)
  <2>1. doing = "build" /\ atTest <= Len(args[arg])
    BY DEF T!Build
  <2>2. Counted
    BY <2>1 DEF RunnerInv
  <2>3. /\ fails \in Nat /\ argfails \in Nat /\ total \in Nat /\ T!Test \in Tests
        /\ arg \in 1 .. NArgs /\ Len(args[arg]) \in Nat /\ atTest \in 1 .. Len(args[arg]) + 1
        /\ Len(executed) \in Nat /\ printed \in Seq(Tests)
    BY <2>1, UnderWay
  <2> QED
    BY <2>1, <2>2, <2>3
<1>2. T!Failed' = T!Failed
  BY DEF T!Build, T!Failed
<1>3. UNCHANGED <<args, outcome, arg, executed, fails, total, argfails, status>>
  BY DEF T!Build
<1>4. CASE outcome[T!Test] = "does not compile"
  <2>1. printed' = Append(printed, T!Test) /\ atTest' = atTest + 1 /\ UNCHANGED <<doing, testout>>
    BY <1>4 DEF T!Build
  <2>2. printed' \in Seq(Tests)
    BY <1>1, <2>1, Appending
  <2>3. /\ Cardinality(T!Uncompiled) \in Nat
        /\ Cardinality(T!Uncompiled)' = Cardinality(T!Uncompiled) + 1
    BY <1>1, <1>3, <1>4, <2>1, CountPrinted
  <2>4. Counted'
    <3>1. /\ fails + argfails = Cardinality(T!Failed)
          /\ total + (atTest - 1) = Len(executed) + Cardinality(T!Uncompiled)
      BY <1>1 DEF Counted, Pending
    <3>2. /\ fails' = fails /\ argfails' = argfails /\ total' = total /\ doing' = "build"
          /\ executed' = executed
      BY <1>1, <1>3, <2>1
    <3>3. fails' + argfails' = Cardinality(T!Failed)'
      BY <1>2, <3>1, <3>2
    <3>4. atTest \in Nat /\ atTest' = atTest + 1
      BY <1>1, <2>1
    <3>5. total' + (atTest' - 1) = Len(executed') + Cardinality(T!Uncompiled)'
      BY <1>1, <2>3, <3>1, <3>2, <3>4
    <3> QED
      BY <3>2, <3>3, <3>5 DEF Counted, Pending
  <2>5. Under'
    BY <1>1, <1>3, <2>1 DEF RunnerInv, Under
  <2>6. Record'
    BY <1>3, <2>2 DEF RunnerInv, Record, T!VerdictIsOwn
  <2> QED
    BY <1>1, <2>1, <2>4, <2>5, <2>6 DEF RunnerInv, Reported
<1>5. CASE outcome[T!Test] # "does not compile"
  <2>1. testout' = T!Test /\ doing' = "execute" /\ UNCHANGED <<atTest, printed>>
    BY <1>5 DEF T!Build
  <2>2. T!Uncompiled' = T!Uncompiled /\ T!Test' = T!Test
    BY <1>3, <2>1 DEF T!Uncompiled, T!Test
  <2>3. Counted'
    BY <1>1, <1>2, <1>3, <2>1, <2>2 DEF Counted, Pending
  <2>4. Under'
    BY <1>1, <1>3, <2>1 DEF RunnerInv, Under
  <2>5. Record'
    BY <1>3, <2>1 DEF RunnerInv, Record, T!VerdictIsOwn
  <2> QED
    BY <1>3, <1>5, <2>1, <2>2, <2>3, <2>4, <2>5 DEF RunnerInv, Reported, Compiled
<1> QED
  BY <1>4, <1>5

LEMMA UncompiledFinite ==
  ASSUME RunnerInv
  PROVE  Cardinality(T!Uncompiled) \in Nat
<1>1. printed \in Seq(Tests)
  BY DEF RunnerInv, Record
<1>2. DOMAIN printed = 1 .. Len(printed) /\ Len(printed) \in Nat
  BY <1>1, LenProperties
<1>3. IsFiniteSet(1 .. Len(printed))
  BY <1>2, FS_Interval
<1>4. IsFiniteSet(T!Uncompiled)
  BY <1>2, <1>3, FS_Subset DEF T!Uncompiled
<1> QED
  BY <1>4, FS_CardinalityType

(* What Execute records of a test it has the executable of.                *)
LEMMA AppendingRun ==
  ASSUME NEW x \in Tests, executed \in Seq([test : Tests, program : Tests]), T!VerdictIsOwn,
         executed' = Append(executed, [test |-> x, program |-> x])
  PROVE  /\ executed' \in Seq([test : Tests, program : Tests])
         /\ Len(executed') = Len(executed) + 1
         /\ T!VerdictIsOwn'
<1> DEFINE S == [test : Tests, program : Tests]
           e == [test |-> x, program |-> x]
           n == Len(executed)
<1>1. e \in S /\ e.program = e.test
  OBVIOUS
<1>2. executed \in Seq(S) /\ executed' = Append(executed, e)
  OBVIOUS
<1>3. \A k \in DOMAIN executed : executed[k].program = executed[k].test
  BY DEF T!VerdictIsOwn
<1> HIDE DEF S, e
<1>4. /\ executed' \in Seq(S) /\ n \in Nat /\ Len(executed') = n + 1
      /\ DOMAIN executed = 1 .. n /\ DOMAIN executed' = 1 .. n + 1
      /\ executed'[n + 1] = e
      /\ \A k \in 1 .. n : executed'[k] = executed[k]
  BY <1>1, <1>2, Appending
<1> HIDE DEF n
<1>5. \A k \in 1 .. n + 1 : k \in 1 .. n \/ k = n + 1
  BY <1>4
<1>6. ASSUME NEW k \in 1 .. n + 1
      PROVE  executed'[k].program = executed'[k].test
  <2>1. CASE k \in 1 .. n
    BY <1>3, <1>4, <2>1
  <2>2. CASE k = n + 1
    BY <1>1, <1>4, <2>2
  <2> QED
    BY <1>5, <2>1, <2>2
<1>7. T!VerdictIsOwn'
  BY <1>4, <1>6 DEF T!VerdictIsOwn
<1> QED
  BY <1>4, <1>7 DEF S, n

LEMMA ExecuteStep ==
  ASSUME T!Settings, RunnerInv, T!Execute
  PROVE  RunnerInv'
<1>1. /\ arg \in 1 .. NArgs /\ Len(args[arg]) \in Nat /\ atTest \in 1 .. Len(args[arg])
      /\ fails \in Nat /\ argfails \in Nat /\ total \in Nat /\ Counted /\ doing = "execute"
      /\ Len(executed) \in Nat /\ printed \in Seq(Tests)
      /\ testout = T!Test /\ Compiled
  BY UnderWay DEF T!Execute, RunnerInv, Under
<1>2. T!Test \in Tests /\ T!Test # Nothing
  BY <1>1, UnderWay DEF T!Settings
<1>3. UNCHANGED <<args, outcome, arg, testout, fails, total, status>>
  BY DEF T!Execute
<1>4. executed' = Append(executed, [test |-> T!Test, program |-> T!Test])
  BY <1>1 DEF T!Execute
<1>5. /\ executed' \in Seq([test : Tests, program : Tests])
      /\ Len(executed') = Len(executed) + 1
      /\ T!VerdictIsOwn'
  BY <1>2, <1>4, AppendingRun DEF RunnerInv, Record
<1>6. /\ Cardinality(T!Failed) \in Nat
      /\ Cardinality(T!Failed)' = Cardinality(T!Failed) + IF outcome[T!Test] = "fails" THEN 1 ELSE 0
  BY <1>2, <1>3, <1>4, CountExecuted DEF RunnerInv, Record
<1>7. CASE outcome[T!Test] = "prints no text"
  <2>1. doing' = "panicked" /\ UNCHANGED <<atTest, argfails, printed>>
    BY <1>1, <1>7 DEF T!Execute
  <2>2. Under'
    BY <1>3, <2>1 DEF RunnerInv, Under
  <2>3. Record'
    BY <1>3, <1>5, <2>1 DEF RunnerInv, Record
  <2> QED
    BY <2>1, <2>2, <2>3 DEF RunnerInv, Reported
<1>8. CASE outcome[T!Test] # "prints no text"
  <2>1. /\ atTest' = atTest + 1 /\ doing' = "build"
        /\ IF outcome[T!Test] = "fails"
           THEN argfails' = argfails + 1 /\ printed' = Append(printed, T!Test)
           ELSE UNCHANGED <<argfails, printed>>
    BY <1>1, <1>2, <1>8 DEF T!Execute
  <2>2. argfails' \in Nat /\ printed' \in Seq(Tests)
    <3>1. CASE outcome[T!Test] = "fails"
      <4>1. Append(printed, T!Test) \in Seq(Tests)
        BY <1>1, <1>2, Appending
      <4> QED
        BY <1>1, <2>1, <3>1, <4>1
    <3>2. CASE outcome[T!Test] # "fails"
      BY <1>1, <2>1, <3>2
    <3> QED
      BY <3>1, <3>2
  <2>3. Cardinality(T!Uncompiled)' = Cardinality(T!Uncompiled)
    <3>1. CASE outcome[T!Test] = "fails"
      <4>1. /\ Cardinality(T!Uncompiled) \in Nat
            /\ Cardinality(T!Uncompiled)' =
                 Cardinality(T!Uncompiled) + IF outcome[T!Test] = "does not compile" THEN 1 ELSE 0
        BY <1>1, <1>2, <1>3, <2>1, <3>1, CountPrinted
      <4> QED
        BY <3>1, <4>1 
    <3>2. CASE outcome[T!Test] # "fails"
      BY <1>3, <2>1, <3>2 DEF T!Uncompiled
    <3> QED
      BY <3>1, <3>2
  <2>4. Counted'
    <3>1. total + (atTest - 1) = Len(executed) + Cardinality(T!Uncompiled)
      BY <1>1 DEF Counted, Pending
    <3>2. fails + argfails = Cardinality(T!Failed)
      BY <1>1 DEF Counted, Pending
    <3>3. fails' + argfails' = Cardinality(T!Failed)'
      <4>1. CASE outcome[T!Test] = "fails"
        <5>1. argfails' = argfails + 1 /\ Cardinality(T!Failed)' = Cardinality(T!Failed) + 1
          BY <1>6, <2>1, <4>1
        <5> QED
          BY <1>1, <1>3, <1>6, <3>2, <5>1
      <4>2. CASE outcome[T!Test] # "fails"
        <5>1. argfails' = argfails /\ Cardinality(T!Failed)' = Cardinality(T!Failed) + 0
          BY <1>6, <2>1, <4>2
        <5> QED
          BY <1>1, <1>3, <1>6, <3>2, <5>1
      <4> QED
        BY <4>1, <4>2
    <3>4. Cardinality(T!Uncompiled) \in Nat
      BY UncompiledFinite
    <3>5. total' + (atTest' - 1) = Len(executed') + Cardinality(T!Uncompiled)'
      <4>1. atTest \in Nat /\ atTest' = atTest + 1 /\ total' = total /\ Len(executed') = Len(executed) + 1
        BY <1>1, <1>3, <1>5, <2>1
      <4> QED
        BY <1>1, <2>3, <3>1, <3>4, <4>1
    <3> QED
      BY <2>1, <3>3, <3>5 DEF Counted, Pending
  <2>5. Under'
    <3>1. atTest' \in 1 .. Len(args'[arg']) + 1
      BY <1>1, <1>3, <2>1
    <3> QED
      BY <1>1, <1>3, <2>1, <3>1 DEF RunnerInv, Under
  <2>6. Record'
    BY <1>3, <1>5, <2>2 DEF RunnerInv, Record
  <2> QED
    BY <2>1, <2>4, <2>5, <2>6 DEF RunnerInv, Reported
<1> QED
  BY <1>7, <1>8

LEMMA RunnerStep ==
  ASSUME RunnerInv, [T!Next]_(T!vars)
  PROVE  RunnerInv'
<1>1. CASE UNCHANGED T!vars
  BY <1>1 DEF RunnerInv, Under, Record, Counted, Pending, T!Failed, T!Uncompiled, T!VerdictIsOwn, T!Test,
              Reported, Compiled, T!vars
<1>2. CASE T!Next
  BY <1>1, <1>2, TestAssumption, NextArgStep, ArgDoneStep, BuildStep, ExecuteStep DEF T!Next, T!Ended
<1> QED
  BY <1>1, <1>2

LEMMA RunnerInvariant ==
  MachinesSpec => [](Chosen("che test") => RunnerInv)
<1> DEFINE Inv == Chosen("che test") => RunnerInv
<1>1. MachinesInit => Inv
  BY InitRunnerInv, TestAssumption DEF MachinesInit
<1>2. Inv /\ [MachinesNext]_machines => Inv'
  BY StepOfOne, RunnerStep DEF Chosen
<1> QED
  BY <1>1, <1>2, PTL DEF MachinesSpec

(* What is executed for a test is never the executable an earlier test     *)
(* left behind, whether or not the test compiled.                          *)
THEOREM VerdictsAreTheirOwn ==
  MachinesSpec => [](Chosen("che test") => T!VerdictIsOwn)
<1>1. RunnerInv => T!VerdictIsOwn
  BY DEF RunnerInv, Record
<1> QED
  BY <1>1, RunnerInvariant, PTL

(* Verdicts are of the test's own executable, and at the end what is       *)
(* counted is what happened.  The exit status tells whether a test failed, *)
(* as long as fewer than 256 did: 256 failures look like none.             *)
THEOREM VerdictsAreCounted ==
  MachinesSpec => []((Chosen("che test") => fails < ExitCodes) => VerdictsCount)
<1> DEFINE Few == Chosen("che test") => fails < ExitCodes
<1>1. (Chosen("che test") => RunnerInv) => (Few => VerdictsCount)
  <2> SUFFICES ASSUME RunnerInv, fails < ExitCodes
               PROVE  T!VerdictsCount
    BY DEF VerdictsCount
  <2>1. T!VerdictIsOwn
    BY DEF RunnerInv, Record
  <2>2. ASSUME doing = "ended"
        PROVE  /\ fails = Cardinality(T!Failed)
               /\ total = Len(executed) + Cardinality(T!Uncompiled)
               /\ (status = 0) = (fails = 0)
    <3>1. Counted /\ fails \in Nat /\ total \in Nat
      BY <2>2 DEF RunnerInv, Record
    <3>2. status = fails % ExitCodes
      BY <2>2 DEF RunnerInv, Reported
    <3>3. fails % ExitCodes = fails
      BY <3>1, TestAssumption, SMT DEF T!Settings
    <3> QED
      BY <2>2, <3>1, <3>2, <3>3 DEF Counted, Pending
  <2>3. T!Cardinality(T!Failed) = Cardinality(T!Failed) /\ T!Cardinality(T!Uncompiled) = Cardinality(T!Uncompiled)
    BY DEF T!Cardinality, Cardinality, T!IsFiniteSet, IsFiniteSet
  <2> QED
    BY <2>1, <2>2, <2>3 DEF T!VerdictsCount, T!EveryFailureCounted
<1> QED
  BY <1>1, RunnerInvariant, PTL

-----------------------------------------------------------------------------
(***************************************************************************)
(* The torrent list.                                                       *)
(***************************************************************************)

(* A finite set of numbers can be put in order.                            *)
Orders(S) == {s \in [1 .. Cardinality(S) -> S] : \A i, j \in DOMAIN s : i < j => s[i] < s[j]}

LEMMA LeastOf ==
  ASSUME NEW S \in SUBSET Nat, S # {}
  PROVE  \E m \in S : \A n \in S : m <= n
<1> DEFINE R == OpToRel(<, Nat)
<1>1. IsWellFoundedOn(R, Nat)
  BY NatLessThanWellFounded
<1>2. \A x, y \in Nat : y < x => <<y, x>> \in R
  BY DEF OpToRel
<1> HIDE DEF R
<1>3. PICK m \in S : \A n \in S : ~ (<<n, m>> \in R)
  BY <1>1, WFMin
<1>4. ASSUME NEW n \in S
      PROVE  m <= n
  <2>1. m \in Nat /\ n \in Nat /\ ~ (n < m)
    BY <1>2, <1>3
  <2> QED
    BY <2>1
<1> QED
  BY <1>4

LEMMA OrderExists ==
  ASSUME NEW S \in SUBSET Nat, IsFiniteSet(S)
  PROVE  Orders(S) # {}
<1> DEFINE Good == {n \in Nat : \A U \in SUBSET Nat : IsFiniteSet(U) /\ Cardinality(U) = n => Orders(U) # {}}
<1>1. 0 \in Good
  <2> SUFFICES ASSUME NEW U \in SUBSET Nat, IsFiniteSet(U), Cardinality(U) = 0
               PROVE  Orders(U) # {}
    OBVIOUS
  <2>1. [i \in 1 .. 0 |-> 0] \in Orders(U)
    BY DEF Orders
  <2> QED
    BY <2>1
<1>2. ASSUME NEW n \in Nat, n \in Good
      PROVE  n + 1 \in Good
  <2> SUFFICES ASSUME NEW U \in SUBSET Nat, IsFiniteSet(U), Cardinality(U) = n + 1
               PROVE  Orders(U) # {}
    OBVIOUS
  <2>1. U # {}
    BY FS_EmptySet
  <2>2. PICK m \in U : \A k \in U : m <= k
    BY <2>1, LeastOf
  <2>3. IsFiniteSet(U \ {m}) /\ Cardinality(U \ {m}) = n
    <3>1. IsFiniteSet(U \ {m}) /\ Cardinality(U \ {m}) = Cardinality(U) - 1
      BY <2>2, FS_RemoveElement, Zenon
    <3> QED
      BY <3>1
  <2>4. PICK s : s \in Orders(U \ {m})
    BY <1>2, <2>3
  <2> DEFINE r == [i \in 1 .. n + 1 |-> IF i = 1 THEN m ELSE s[i - 1]]
  <2>5. s \in [1 .. n -> U \ {m}] /\ \A i, j \in 1 .. n : i < j => s[i] < s[j]
    BY <2>3, <2>4 DEF Orders
  <2>6. \A i \in 1 .. n + 1 : i = 1 \/ i - 1 \in 1 .. n
    OBVIOUS
  <2>7. r \in [1 .. n + 1 -> U]
    BY <2>5, <2>6
  <2>8. ASSUME NEW i \in 1 .. n + 1, NEW j \in 1 .. n + 1, i < j
        PROVE  r[i] < r[j]
    <3>1. j - 1 \in 1 .. n /\ j # 1
      BY <2>8
    <3>4. r[j] = s[j - 1] /\ s[j - 1] \in U \ {m}
      BY <2>5, <3>1
    <3>2. CASE i = 1
      <4>1. r[i] = m /\ m <= s[j - 1] /\ s[j - 1] # m /\ m \in Nat /\ s[j - 1] \in Nat
        BY <2>2, <3>2, <3>4
      <4> QED
        BY <3>4, <4>1
    <3>3. CASE i # 1
      <4>1. i - 1 \in 1 .. n /\ r[i] = s[i - 1] /\ i - 1 < j - 1
        BY <2>8, <3>3
      <4> QED
        BY <2>5, <3>1, <3>4, <4>1
    <3> QED
      BY <3>2, <3>3
  <2>9. r \in Orders(U)
    BY <2>7, <2>8 DEF Orders
  <2> QED
    BY <2>9
<1> HIDE DEF Good
<1>3. Cardinality(S) \in Good
  BY <1>1, <1>2, SetInduction, FS_CardinalityType
<1> QED
  BY <1>3 DEF Good

LEMMA AscendingIs ==
  ASSUME NEW S \in SUBSET Nat, IsFiniteSet(S)
  PROVE  D!Ascending(S) \in Seq(S) /\ D!ToSet(D!Ascending(S)) = S
<1>1. D!Ascending(S) \in Orders(S)
  <2>1. \E s \in [1 .. Cardinality(S) -> S] : \A i, j \in DOMAIN s : i < j => s[i] < s[j]
    BY OrderExists DEF Orders
  <2>3. D!Cardinality(S) = Cardinality(S)
    BY DEF D!Cardinality, Cardinality
  <2>2. D!Ascending(S) = CHOOSE s \in [1 .. Cardinality(S) -> S] : \A i, j \in DOMAIN s : i < j => s[i] < s[j]
    BY <2>3, Zenon DEF D!Ascending
  <2> QED
    BY <2>1, <2>2, Zenon DEF Orders
<1> DEFINE s == D!Ascending(S)
           n == Cardinality(S)
<1>2. n \in Nat
  BY FS_CardinalityType
<1>3. s \in [1 .. n -> S] /\ \A i, j \in 1 .. n : i < j => s[i] < s[j]
  BY <1>1 DEF Orders
<1> HIDE DEF s, n
<1>4. s \in Injection(1 .. n, S)
  <2> SUFFICES ASSUME NEW i \in 1 .. n, NEW j \in 1 .. n, i # j
               PROVE  s[i] # s[j]
    BY <1>3 DEF Injection, IsInjective
  <2>1. s[i] \in Nat /\ s[j] \in Nat
    <3>1. s[i] \in S /\ s[j] \in S
      BY <1>3
    <3> QED
      BY <3>1
  <2>4. ~(s[i] < s[i])
    BY <2>1
  <2>2. i < j \/ j < i
    BY <1>2
  <2>3. s[i] < s[j] \/ s[j] < s[i]
    BY <1>3, <2>2
  <2> QED
    BY <2>1, <2>3, <2>4
<1>5. IsFiniteSet(1 .. n) /\ Cardinality(1 .. n) = Cardinality(S)
  BY <1>2, FS_Interval DEF n
<1>6. s \in Surjection(1 .. n, S)
  BY <1>4, <1>5, FS_Injection
<1>7. D!ToSet(s) = S
  BY <1>3, <1>6 DEF D!ToSet, Surjection
<1> QED
  BY <1>2, <1>3, <1>7 DEF s

LEMMA LeastIs ==
  ASSUME NEW S \in SUBSET Nat, S # {}
  PROVE  D!Min(S) \in S
<1>1. \E x \in S : \A y \in S : x =< y
  BY LeastOf
<1> QED
  BY <1>1, Zenon DEF D!Min

(* Of the names that are not unsure, the file has those that are hidden; an*)
(* unhide has copied the lines it has read, but those that are to go.      *)
Copied(n) == {list[i] : i \in 1 .. n}

ListFiles ==
  /\ torrents \in [Ids -> TorrentNames \cup {Nothing}]
  /\ list \in Seq(TorrentNames) \cup {Nothing}
  /\ hidden \subseteq TorrentNames
  /\ \A name \in TorrentNames \ unsure : name \in hidden <=> name \in D!ToSet(D!Lines(list))

ListCommand ==
     command = D!None \/
       /\ command.at \in {"hide", "append", "unhide", "show"}
       /\ command = [at |-> command.at, ids |-> command.ids, there |-> command.there,
                     seen |-> command.seen, line |-> command.line]
       /\ command.ids \in SUBSET Ids
       /\ command.there \in [Ids -> TorrentNames \cup {Nothing}]
       /\ command.seen \in {command.there, D!Nobody}
       /\ command.at \in {"unhide", "show"} => /\ list \in Seq(TorrentNames) /\ tmp \in Seq(TorrentNames)
                                               /\ command.line \in 0 .. Len(list)
       /\ command.at = "unhide" => command.line = 0 /\ tmp = <<>>
       /\ command.at = "show" => D!ToSet(tmp) = {name \in Copied(command.line) : D!Stays(name)}

ListInv == ListFiles /\ ListCommand

LEMMA ListFacts ==
  /\ Ids \in SUBSET Nat /\ IsFiniteSet(Ids) /\ Nothing \notin TorrentNames /\ Nothing \notin Seq(TorrentNames)
  /\ D!Nobody \in [Ids -> TorrentNames \cup {Nothing}]
<1>1. D!IsFiniteSet(Ids) = IsFiniteSet(Ids)
  BY DEF D!IsFiniteSet, IsFiniteSet
<1> QED
  BY <1>1, ListAssumption DEF D!Settings, D!Nobody

LEMMA ListStart ==
  D!Init => ListInv
<1> SUFFICES ASSUME D!Init
             PROVE  ListInv
  OBVIOUS
<1>1. torrents \in [Ids -> TorrentNames \cup {Nothing}] /\ list = Nothing /\ command = D!None /\ hidden = {}
  BY DEF D!Init
<1>2. D!ToSet(<<>>) = {}
  BY DEF D!ToSet
<1> QED
  BY <1>1, <1>2 DEF ListInv, ListFiles, ListCommand, D!Lines

LEMMA ListStep ==
  ListInv /\ [D!Next]_(D!tl) => ListInv'
<1> SUFFICES ASSUME ListInv, [D!Next]_(D!tl)
             PROVE  ListInv'
  OBVIOUS
<1> USE ListFacts
<1>0. /\ torrents \in [Ids -> TorrentNames \cup {Nothing}]
      /\ list \in Seq(TorrentNames) \cup {Nothing}
      /\ hidden \subseteq TorrentNames
      /\ \A name \in TorrentNames \ unsure : name \in hidden <=> name \in D!ToSet(D!Lines(list))
  BY DEF ListInv, ListFiles
<1>c. ListCommand
  BY DEF ListInv
<1>f. ASSUME UNCHANGED <<list, hidden, unsure>>, torrents' \in [Ids -> TorrentNames \cup {Nothing}]
      PROVE  ListFiles'
  BY <1>0, <1>f DEF ListFiles, D!ToSet, D!Lines
<1>n. ASSUME command' = D!None
      PROVE  ListCommand'
  BY <1>n DEF ListCommand, D!None, D!Nobody
<1>1. CASE D!Hide
  <2>1. UNCHANGED <<torrents, list, tmp, hidden, unsure>>
    BY <1>1 DEF D!Hide
  <2>2. PICK ids \in SUBSET Ids : command' = [D!None EXCEPT !.at = "hide", !.ids = ids]
    BY <1>1 DEF D!Hide, D!Starts
  <2>3. command' = [at |-> "hide", ids |-> ids, there |-> D!Nobody, seen |-> D!Nobody, line |-> 0]
    BY <2>2 DEF D!None
  <2> QED
    BY <1>0, <1>f, <2>1, <2>3 DEF ListInv, ListCommand
<1>2. CASE D!Asks("hide", "append")
  <2>1. UNCHANGED <<torrents, list, tmp, hidden, unsure>> /\ command.at = "hide"
    BY <1>2 DEF D!Asks
  <2>2. PICK seen \in {torrents, D!Nobody} : command' = [command EXCEPT !.at = "append", !.there = torrents, !.seen = seen]
    BY <1>2 DEF D!Asks
  <2>3. command # D!None
    BY <2>1 DEF D!None
  <2>4. command' = [at |-> "append", ids |-> command.ids, there |-> torrents, seen |-> seen, line |-> command.line] /\ command.ids \in SUBSET Ids
    BY <1>c, <2>2, <2>3 DEF ListCommand
  <2> QED
    BY <1>0, <1>f, <2>1, <2>2, <2>4 DEF ListInv, ListCommand
<1>3. CASE D!HideAppend
  <2> DEFINE ids == D!Ascending({id \in command.ids : command.seen[id] # Nothing})
             names == [k \in DOMAIN ids |-> command.seen[ids[k]]]
  <2>1. /\ command.at = "append" /\ command' = D!None /\ UNCHANGED <<torrents, tmp>>
        /\ list' = D!Lines(list) \o names
        /\ hidden' = hidden \cup D!Asked
        /\ unsure' = IF D!Heard THEN unsure \ D!Asked ELSE unsure \cup D!Asked
    BY <1>3 DEF D!HideAppend
  <2>2. command # D!None
    BY <2>1 DEF D!None
  <2>3. /\ command.ids \in SUBSET Ids /\ command.seen \in [Ids -> TorrentNames \cup {Nothing}]
        /\ command.there \in [Ids -> TorrentNames \cup {Nothing}] /\ command.seen \in {command.there, D!Nobody}
    BY <1>c, <2>1, <2>2 DEF ListCommand
  <2>4. ids \in Seq({id \in command.ids : command.seen[id] # Nothing})
    <3>1. IsFiniteSet({id \in command.ids : command.seen[id] # Nothing})
      BY <2>3, FS_Subset
    <3> QED
      BY <2>3, <3>1, AscendingIs
  <2>b. D!ToSet(ids) = {id \in command.ids : command.seen[id] # Nothing}
    <3>1. IsFiniteSet({id \in command.ids : command.seen[id] # Nothing})
      BY <2>3, FS_Subset
    <3> QED
      BY <2>3, <3>1, AscendingIs DEF D!ToSet
  <2> HIDE DEF ids
  <2>a. D!ToSet(names) = {command.seen[id] : id \in command.ids} \ {Nothing}
    <3>1. DOMAIN names = DOMAIN ids /\ \A k \in DOMAIN ids : names[k] = command.seen[ids[k]]
      OBVIOUS
    <3> HIDE DEF names
    <3>2. D!ToSet(names) = {command.seen[id] : id \in D!ToSet(ids)}
      BY <3>1 DEF D!ToSet
    <3> QED
      BY <2>b, <3>2
  <2>5. names \in Seq(TorrentNames)
    <3>1. DOMAIN ids = 1 .. Len(ids) /\ Len(ids) \in Nat
      BY <2>4
    <3>3. \A k \in 1 .. Len(ids) : ids[k] \in {id \in command.ids : command.seen[id] # Nothing}
      BY <2>4, <3>1
    <3>2. \A k \in 1 .. Len(ids) : command.seen[ids[k]] \in TorrentNames
      BY <2>3, <3>3
    <3> QED
      BY <3>1, <3>2
  <2> HIDE DEF names
  <2>6. D!Lines(list) \in Seq(TorrentNames)
    BY <1>0 DEF D!Lines
  <2>7. list' \in Seq(TorrentNames) /\ D!Lines(list)' = list'
    <3>1. list' \in Seq(TorrentNames)
      BY <2>1, <2>5, <2>6
    <3>2. list' # Nothing
      BY <3>1
    <3> QED
      BY <3>1, <3>2 DEF D!Lines
  <2>8. D!ToSet(D!Lines(list) \o names) = D!ToSet(D!Lines(list)) \cup D!ToSet(names)
    <3> HIDE <2>7
    <3> DEFINE p == D!Lines(list)
    <3> SUFFICES ASSUME p \in Seq(TorrentNames)
                 PROVE  D!ToSet(p \o names) = D!ToSet(p) \cup D!ToSet(names)
      BY <2>6
    <3> HIDE DEF p
    <3>1. \A i \in 1 .. Len(p) : p[i] = (p \o names)[i]
      BY <2>5
    <3>2. \A i \in 1 .. Len(names) : names[i] = (p \o names)[i + Len(p)] /\ i + Len(p) \in 1 .. Len(p \o names)
      BY <2>5
    <3>3. \A i \in 1 .. Len(p \o names) : i \in 1 .. Len(p) \/ i - Len(p) \in 1 .. Len(names)
      BY <2>5
    <3>4. \A i \in 1 .. Len(p) : i \in 1 .. Len(p \o names)
      BY <2>5
    <3>5. \A i \in 1 .. Len(p \o names) : i - Len(p) \in 1 .. Len(names) => (p \o names)[i] = names[i - Len(p)]
      BY <2>5
    <3>6. /\ DOMAIN p = 1 .. Len(p) /\ DOMAIN names = 1 .. Len(names)
          /\ DOMAIN (p \o names) = 1 .. Len(p \o names)
      BY <2>5
    <3>7. D!ToSet(p) \subseteq D!ToSet(p \o names)
      BY <3>1, <3>4, <3>6, Zenon DEF D!ToSet
    <3>8. D!ToSet(names) \subseteq D!ToSet(p \o names)
      BY <3>2, <3>6, Zenon DEF D!ToSet
    <3>9. D!ToSet(p \o names) \subseteq D!ToSet(p) \cup D!ToSet(names)
      <4> SUFFICES ASSUME NEW i \in 1 .. Len(p \o names)
                   PROVE  (p \o names)[i] \in D!ToSet(p) \cup D!ToSet(names)
        BY <3>6, Zenon DEF D!ToSet
      <4>1. CASE i \in 1 .. Len(p)
        BY <3>1, <3>6, <4>1, Zenon DEF D!ToSet
      <4>2. CASE i - Len(p) \in 1 .. Len(names)
        BY <3>5, <3>6, <4>2, Zenon DEF D!ToSet
      <4> QED
        BY <3>3, <4>1, <4>2
    <3> QED
      BY <3>7, <3>8, <3>9
  <2>n. D!Asked \subseteq TorrentNames
    BY <2>3 DEF D!Asked, D!NamesOf
  <2>9. \A name \in TorrentNames \ unsure' : name \in hidden' <=> name \in D!ToSet(list')
    <3>1. CASE D!Heard
      <4>1. D!ToSet(names) = D!Asked
        BY <2>a, <3>1 DEF D!Heard, D!Asked, D!NamesOf
      <4> QED
        BY <1>0, <2>1, <2>8, <3>1, <4>1
    <3>2. CASE ~ D!Heard
      <4>1. command.seen = D!Nobody
        BY <2>3, <3>2 DEF D!Heard
      <4>2. D!ToSet(names) = {}
        BY <2>a, <2>3, <4>1 DEF D!Nobody
      <4> QED
        BY <1>0, <2>1, <2>8, <3>2, <4>2
    <3> QED
      BY <3>1, <3>2
  <2>11. ListFiles'
    BY <1>0, <2>1, <2>7, <2>9, <2>n DEF ListFiles, D!ToSet
  <2> QED
    BY <1>n, <2>1, <2>11 DEF ListInv
<1>4. CASE D!Unhide
  <2>1. UNCHANGED <<torrents, list, hidden, unsure>> /\ list # Nothing /\ tmp' = <<>>
    BY <1>4 DEF D!Unhide
  <2>2. PICK ids \in SUBSET Ids : command' = [D!None EXCEPT !.at = "unhide", !.ids = ids]
    BY <1>4 DEF D!Unhide, D!Starts
  <2>3. command' = [at |-> "unhide", ids |-> ids, there |-> D!Nobody, seen |-> D!Nobody, line |-> 0]
    BY <2>2 DEF D!None
  <2>4. list \in Seq(TorrentNames) /\ tmp' \in Seq(TorrentNames) /\ 0 \in 0 .. Len(list)
    BY <1>0, <2>1
  <2> QED
    BY <1>0, <1>f, <2>1, <2>3, <2>4 DEF ListInv, ListCommand
<1>5. CASE D!Asks("unhide", "show")
  <2>1. UNCHANGED <<torrents, list, tmp, hidden, unsure>> /\ command.at = "unhide"
    BY <1>5 DEF D!Asks
  <2>2. PICK seen \in {torrents, D!Nobody} : command' = [command EXCEPT !.at = "show", !.there = torrents, !.seen = seen]
    BY <1>5 DEF D!Asks
  <2>3. command # D!None
    BY <2>1 DEF D!None
  <2>4. /\ command' = [at |-> "show", ids |-> command.ids, there |-> torrents, seen |-> seen, line |-> command.line]
        /\ command.ids \in SUBSET Ids /\ command.line = 0 /\ tmp = <<>>
        /\ list \in Seq(TorrentNames)
    BY <1>c, <2>1, <2>2, <2>3 DEF ListCommand
  <2>5. D!ToSet(tmp)' = {}
    BY <2>1, <2>4 DEF D!ToSet
  <2>6. Copied(command.line)' = {}
    BY <2>4 DEF Copied
  <2>7. seen \in [Ids -> TorrentNames \cup {Nothing}]
    BY <1>0
  <2>8. list' \in Seq(TorrentNames) /\ tmp' \in Seq(TorrentNames) /\ tmp' = <<>> /\ command'.line = 0 /\ 0 \in 0 .. Len(list')
    BY <2>1, <2>4
  <2>9. D!ToSet(tmp)' = {name \in Copied(command.line)' : D!Stays(name)'}
    BY <2>5, <2>6
  <2>10. ListCommand'
    BY <1>0, <2>2, <2>4, <2>8, <2>9 DEF ListCommand
  <2> QED
    BY <1>0, <1>f, <2>1, <2>10 DEF ListInv
<1> DEFINE showing == /\ command # D!None
                      /\ command = [at |-> "show", ids |-> command.ids, there |-> command.there,
                                    seen |-> command.seen, line |-> command.line]
                      /\ command.ids \in SUBSET Ids /\ command.there \in [Ids -> TorrentNames \cup {Nothing}]
                      /\ command.seen \in {command.there, D!Nobody}
                      /\ list \in Seq(TorrentNames) /\ tmp \in Seq(TorrentNames)
                      /\ command.line \in 0 .. Len(list)
                      /\ D!ToSet(tmp) = {name \in Copied(command.line) : D!Stays(name)}
<1>6. ASSUME command.at = "show"
      PROVE  showing
  <2>1. command # D!None
    BY <1>6 DEF D!None
  <2> QED
    BY <1>c, <1>6, <2>1 DEF ListCommand
<1> HIDE DEF showing
<1>7. CASE D!ShowLine
  <2>1. /\ command.at = "show" /\ command.line < Len(list)
        /\ tmp' = IF D!Stays(list[command.line + 1]) THEN Append(tmp, list[command.line + 1]) ELSE tmp
        /\ command' = [command EXCEPT !.line = @ + 1]
        /\ UNCHANGED <<torrents, list, hidden, unsure>>
    BY <1>7 DEF D!ShowLine
  <2>2. showing
    BY <1>6, <2>1
  <2> DEFINE n == command.line
             name == list[n + 1]
  <2>3. n \in Nat /\ n + 1 \in 1 .. Len(list) /\ name \in TorrentNames
    BY <2>1, <2>2 DEF showing
  <2>4. command' = [at |-> "show", ids |-> command.ids, there |-> command.there,
                  seen |-> command.seen, line |-> n + 1]
    BY <2>1, <2>2 DEF showing
  <2>5. \A x : D!Stays(x)' = D!Stays(x)
    BY <2>4 DEF D!Stays, D!Bearers
  <2>6. tmp' \in Seq(TorrentNames)
    BY <2>1, <2>2, <2>3 DEF showing
  <2>7. Copied(n + 1) = Copied(n) \cup {name}
    <3>1. \A i : i \in 1 .. n + 1 <=> i \in 1 .. n \/ i = n + 1
      BY <2>3
    <3> QED
      BY <3>1 DEF Copied
  <2>8. D!ToSet(tmp') = {x \in Copied(n + 1) : D!Stays(x)}
    <3>0. tmp \in Seq(TorrentNames) /\ D!ToSet(tmp) = {x \in Copied(n) : D!Stays(x)}
      BY <2>2 DEF showing
    <3>1. CASE D!Stays(name)
      <4>1. tmp' = Append(tmp, name)
        BY <2>1, <3>1
      <4> HIDE DEF name
      <4>2. D!ToSet(Append(tmp, name)) = D!ToSet(tmp) \cup {name}
        <5>1. DOMAIN tmp = 1 .. Len(tmp) /\ DOMAIN Append(tmp, name) = 1 .. Len(tmp) + 1 /\ Len(tmp) \in Nat
          BY <2>3, <3>0
        <5>2. \A i : i \in 1 .. Len(tmp) + 1 <=> i \in 1 .. Len(tmp) \/ i = Len(tmp) + 1
          BY <5>1
        <5>3. /\ \A i \in 1 .. Len(tmp) : Append(tmp, name)[i] = tmp[i]
              /\ Append(tmp, name)[Len(tmp) + 1] = name
          BY <2>3, <3>0
        <5> QED
          BY <5>1, <5>2, <5>3, Zenon DEF D!ToSet
      <4> QED
        BY <2>7, <3>0, <3>1, <4>1, <4>2
    <3>2. CASE ~ D!Stays(name)
      BY <2>1, <2>7, <3>0, <3>2
    <3> QED
      BY <3>1, <3>2
  <2>9. list' = list /\ command'.line = n + 1 /\ n + 1 \in 0 .. Len(list)
    BY <2>1, <2>2, <2>3, <2>4 DEF showing
  <2>10. Copied(command.line)' = Copied(n + 1)
    BY <2>9 DEF Copied
  <2>11. D!ToSet(tmp)' = {x \in Copied(command.line)' : D!Stays(x)'}
    BY <2>5, <2>8, <2>10 DEF D!ToSet
  <2> HIDE DEF n
  <2>12. ListCommand'
    BY <2>2, <2>4, <2>6, <2>9, <2>11 DEF ListCommand, showing
  <2> QED
    BY <1>0, <1>f, <2>1, <2>12 DEF ListInv
<1>8. CASE D!Rename
  <2>1. /\ command.at = "show" /\ command.line = Len(list)
        /\ list' = tmp /\ command' = D!None /\ UNCHANGED torrents
        /\ hidden' = hidden \cap (D!Spared \ D!Asked)
        /\ unsure' = IF D!Heard THEN unsure \cup (D!Asked \cap D!Spared) ELSE hidden'
    BY <1>8 DEF D!Rename
  <2>2. showing
    BY <1>6, <2>1
  <2>3. list # Nothing /\ tmp # Nothing /\ tmp \in Seq(TorrentNames) /\ list \in Seq(TorrentNames)
    BY <2>2 DEF showing
  <2>4. D!ToSet(D!Lines(list)) = Copied(Len(list))
    BY <2>3 DEF D!Lines, D!ToSet, Copied
  <2>s. /\ D!ToSet(tmp) = {name \in D!ToSet(D!Lines(list)) : D!Stays(name)}
        /\ command.ids \in SUBSET Ids /\ command.there \in [Ids -> TorrentNames \cup {Nothing}]
        /\ command.seen \in {command.there, D!Nobody}
    BY <2>1, <2>2, <2>4 DEF showing
  <2>5. \A name \in TorrentNames \ unsure' : name \in hidden' <=> name \in D!ToSet(tmp)
    <3> SUFFICES ASSUME NEW name \in TorrentNames \ unsure'
                 PROVE  name \in hidden' <=> name \in D!ToSet(tmp)
      OBVIOUS
    <3>1. CASE D!Heard
      <4>1. D!Bearers(name) = {id \in Ids : command.there[id] = name}
        BY <3>1 DEF D!Heard, D!Bearers
      <4>2. D!Stays(name) <=> name \in D!Spared \ D!Asked
        <5>1. CASE D!Bearers(name) = {}
          <6>1. name \notin D!Spared
            BY <4>1, <5>1 DEF D!Spared, D!NamesOf
          <6> QED
            BY <5>1, <6>1 DEF D!Stays
        <5>2. CASE D!Bearers(name) # {}
          <6>1. D!Min(D!Bearers(name)) \in D!Bearers(name)
            BY <4>1, <5>2, LeastIs
          <6>2. CASE D!Min(D!Bearers(name)) \in command.ids
            <7>1. name \in D!Asked
              BY <4>1, <6>1, <6>2 DEF D!Asked, D!NamesOf
            <7> QED
              BY <6>2, <7>1 DEF D!Stays
          <6>3. CASE D!Min(D!Bearers(name)) \notin command.ids
            <7>1. name \in D!Spared
              BY <4>1, <6>1, <6>3 DEF D!Spared, D!NamesOf
            <7>2. name \notin D!Asked
              BY <2>1, <3>1, <7>1
            <7> QED
              BY <5>2, <6>3, <7>1, <7>2 DEF D!Stays
          <6> QED
            BY <6>2, <6>3
        <5> QED
          BY <5>1, <5>2
      <4>3. name \in hidden <=> name \in D!ToSet(D!Lines(list))
        BY <1>0, <2>1, <3>1
      <4> QED
        BY <2>1, <2>s, <4>2, <4>3
    <3>2. CASE ~ D!Heard
      <4>1. command.seen = D!Nobody
        BY <2>s, <3>2 DEF D!Heard
      <4>2. D!Bearers(name) = {}
        BY <4>1 DEF D!Bearers, D!Nobody
      <4>3. name \notin D!ToSet(tmp)
        BY <2>s, <4>2 DEF D!Stays
      <4> QED
        BY <2>1, <3>2, <4>3
    <3> QED
      BY <3>1, <3>2
  <2>6. D!Lines(list)' = tmp
    BY <2>1, <2>3 DEF D!Lines
  <2>7. ListFiles'
    BY <1>0, <2>1, <2>3, <2>5, <2>6 DEF ListFiles, D!ToSet
  <2> QED
    BY <1>n, <2>1, <2>7 DEF ListInv
<1>9. CASE D!Killed
  BY <1>0, <1>f, <1>n, <1>9 DEF D!Killed, ListInv
<1>10. CASE D!TorrentsChange
  <2>1. UNCHANGED <<list, tmp, command, hidden, unsure>>
    BY <1>10 DEF D!TorrentsChange
  <2>2. torrents' \in [Ids -> TorrentNames \cup {Nothing}]
    BY <1>0, <1>10 DEF D!TorrentsChange
  <2>3. \A x : D!Stays(x)' = D!Stays(x)
    BY <2>1 DEF D!Stays, D!Bearers
  <2>4. ListCommand'
    BY <1>c, <2>1, <2>3 DEF ListCommand, D!ToSet, Copied
  <2> QED
    BY <1>f, <2>1, <2>2, <2>4 DEF ListInv
<1>11. CASE UNCHANGED D!tl
  <2>1. UNCHANGED <<torrents, list, tmp, command, hidden, unsure>>
    BY <1>11 DEF D!tl
  <2>2. \A x : D!Stays(x)' = D!Stays(x)
    BY <2>1 DEF D!Stays, D!Bearers
  <2>4. ListCommand'
    BY <1>c, <2>1, <2>2 DEF ListCommand, D!ToSet, Copied
  <2> QED
    BY <1>0, <1>f, <2>1, <2>4 DEF ListInv
<1> QED
  BY <1>1, <1>2, <1>3, <1>4, <1>5, <1>7, <1>8, <1>9, <1>10, <1>11 DEF D!Next

LEMMA ListShown ==
  ListInv => D!ListedAsHidden
<1> SUFFICES ASSUME ListInv
             PROVE  D!ListedAsHidden
  OBVIOUS
<1>1. /\ torrents \in [Ids -> TorrentNames \cup {Nothing}]
      /\ \A name \in TorrentNames \ unsure : name \in hidden <=> D!IsHidden(name)
  BY DEF ListInv, ListFiles, D!IsHidden
<1>2. ASSUME NEW id \in Ids, torrents[id] # Nothing, torrents[id] \notin unsure
      PROVE  torrents[id] \in hidden <=> D!IsHidden(torrents[id])
  BY <1>1, <1>2
<1> QED
  BY <1>2, Zenon DEF D!ListedAsHidden, D!Listed

(* ListedAsHidden for any torrents, any changes of them, and any number of *)
(* commands, killed wherever.                                              *)
THEOREM HiddenIsNotListed ==
  MachinesSpec => []ListedAsHidden
<1> DEFINE Inv == Chosen("torrent list") => ListInv
<1>1. MachinesInit => Inv
  BY ListStart DEF MachinesInit
<1>2. Inv /\ [MachinesNext]_machines => Inv'
  BY StepOfOne, ListStep DEF Chosen
<1>3. Inv => ListedAsHidden
  BY ListShown DEF ListedAsHidden
<1> QED
  BY <1>1, <1>2, <1>3, PTL DEF MachinesSpec

-----------------------------------------------------------------------------
(***************************************************************************)
(* The web server: for any clients, scripts and files, the answers are to  *)
(* what was asked, and the server serves until it is provoked.             *)
(***************************************************************************)

(* The sums of the first elements of a sequence.                           *)
IsUpto(g, s) == /\ g \in [0 .. Len(s) -> Nat] /\ g[0] = 0
                /\ \A n \in 1 .. Len(s) : g[n] = g[n - 1] + s[n]

LEMMA SumIs ==
  ASSUME NEW s \in Seq(Nat)
  PROVE  \E g : IsUpto(g, s) /\ W!Sum(s) = g[Len(s)]
<1> DEFINE N == Len(s)
           step == [n \in 1 .. N |-> [k \in Nat |-> k + s[n]]]
           Rec(g) == [n \in 0 .. N |-> IF n = 0 THEN 0 ELSE g[n - 1] + s[n]]
           upto == CHOOSE g : g = Rec(g)
<1>1. N \in Nat /\ \A n \in 1 .. N : s[n] \in Nat
  OBVIOUS
<1>2. W!Sum(s) = upto[N]
  BY Zenon DEF W!Sum
<1>3. step \in Steps(N, Nat)
  BY <1>1 DEF Steps
<1> HIDE DEF N
<1>4. \A n \in 1 .. N : \A k \in Nat : step[n][k] = k + s[n]
  OBVIOUS
<1> HIDE DEF step
<1>5. PICK g \in [0 .. N -> Nat] : g[0] = 0 /\ \A n \in 1 .. N : g[n] = step[n][g[n - 1]]
  <2>1. Recursions(N, Nat, 0, step) # {}
    BY <1>1, <1>3, Recursion
  <2> QED
    BY <2>1 DEF Recursions
<1>6. \A n \in 1 .. N : g[n] = g[n - 1] + s[n] /\ g[n - 1] \in Nat
  <2> SUFFICES ASSUME NEW n \in 1 .. N
               PROVE  g[n] = g[n - 1] + s[n] /\ g[n - 1] \in Nat
    OBVIOUS
  <2>1. n - 1 \in 0 .. N
    BY <1>1
  <2> QED
    BY <1>4, <1>5, <2>1
<1>7. g = Rec(g)
  <2>1. \A n \in 0 .. N : g[n] = IF n = 0 THEN 0 ELSE g[n - 1] + s[n]
    BY <1>1, <1>5, <1>6
  <2>2. g = [n \in 0 .. N |-> g[n]]
    BY <1>5
  <2> QED
    BY <2>1, <2>2
<1>8. upto = Rec(upto)
  BY <1>7
<1>9. \A n \in 0 .. N : upto[n] = IF n = 0 THEN 0 ELSE upto[n - 1] + s[n]
  BY <1>8
<1>10. upto = [n \in 0 .. N |-> upto[n]]
  BY <1>8
<1> HIDE DEF Rec, upto
<1>11. \A n \in 0 .. N : upto[n] \in Nat
  <2> DEFINE S == {m \in Nat : m <= N => upto[m] \in Nat}
  <2>1. 0 \in S
    BY <1>1, <1>9
  <2>2. ASSUME NEW m \in Nat, m \in S
        PROVE  m + 1 \in S
    <3> SUFFICES ASSUME m + 1 <= N
                 PROVE  upto[m + 1] \in Nat
      OBVIOUS
    <3>1. m + 1 \in 0 .. N /\ m + 1 # 0 /\ (m + 1) - 1 = m /\ m + 1 \in 1 .. N
      BY <1>1
    <3>2. upto[m + 1] = upto[m] + s[m + 1]
      BY <1>9, <3>1
    <3>3. upto[m] \in Nat
      BY <1>1, <2>2
    <3> QED
      BY <1>1, <3>1, <3>2, <3>3
  <2> HIDE DEF S
  <2>3. Nat \subseteq S
    BY <2>1, <2>2, SetInduction
  <2> QED
    BY <1>1, <2>3 DEF S
<1>12. upto \in [0 .. N -> Nat]
  BY <1>10, <1>11
<1>13. 0 \in 0 .. N /\ \A n \in 1 .. N : n \in 0 .. N /\ n # 0
  BY <1>1
<1>14. upto[0] = 0 /\ \A n \in 1 .. N : upto[n] = upto[n - 1] + s[n]
  BY <1>9, <1>13
<1> QED
  BY <1>2, <1>12, <1>14 DEF IsUpto, N

(* A sum is the first element and the sum of the others.                   *)
LEMMA SumOfRest ==
  ASSUME NEW s \in Seq(Nat)
  PROVE  /\ W!Sum(s) \in Nat
         /\ s = <<>> => W!Sum(s) = 0
         /\ s # <<>> => W!Sum(s) = s[1] + W!Sum(Tail(s))
         /\ Len(s) = 1 => W!Sum(s) = s[1]
<1>1. PICK g : IsUpto(g, s) /\ W!Sum(s) = g[Len(s)]
  BY SumIs
<1>2. Len(s) \in Nat /\ W!Sum(s) \in Nat /\ (s = <<>> => W!Sum(s) = 0)
  BY <1>1 DEF IsUpto
<1>3. ASSUME s # <<>>
      PROVE  W!Sum(s) = s[1] + W!Sum(Tail(s))
  <2> DEFINE t == Tail(s)
             M == Len(t)
  <2>1. t \in Seq(Nat) /\ M \in Nat /\ Len(s) = M + 1 /\ \A n \in 1 .. M : t[n] = s[n + 1]
    BY <1>3
  <2>2. PICK h : IsUpto(h, t) /\ W!Sum(t) = h[M]
    BY <2>1, SumIs
  <2> HIDE DEF t, M
  <2>3. /\ h \in [0 .. M -> Nat] /\ h[0] = 0
        /\ \A n \in 1 .. M : h[n] = h[n - 1] + t[n]
    BY <2>2 DEF IsUpto, M
  <2>4. /\ g \in [0 .. M + 1 -> Nat] /\ g[0] = 0
        /\ \A n \in 1 .. M + 1 : g[n] = g[n - 1] + s[n]
    BY <1>1, <2>1 DEF IsUpto
  <2>5. s[1] \in Nat /\ \A n \in 1 .. M + 1 : s[n] \in Nat
    BY <1>3, <2>1
  <2> DEFINE S == {n \in Nat : n <= M => g[n + 1] = s[1] + h[n]}
  <2>6. 0 \in S
    BY <2>1, <2>3, <2>4, <2>5
  <2>7. ASSUME NEW n \in Nat, n \in S
        PROVE  n + 1 \in S
    <3> SUFFICES ASSUME n + 1 <= M
                 PROVE  g[(n + 1) + 1] = s[1] + h[n + 1]
      OBVIOUS
    <3>1. g[n + 1] = s[1] + h[n]
      BY <2>1, <2>7
    <3>2. h[n + 1] = h[n] + t[n + 1] /\ t[n + 1] = s[(n + 1) + 1]
      BY <2>1, <2>3
    <3>3. g[(n + 1) + 1] = g[n + 1] + s[(n + 1) + 1]
      BY <2>1, <2>4
    <3>4. h[n] \in Nat /\ s[(n + 1) + 1] \in Nat
      BY <2>1, <2>3, <2>5
    <3> QED
      BY <2>5, <3>1, <3>2, <3>3, <3>4
  <2> HIDE DEF S
  <2>8. Nat \subseteq S
    BY <2>6, <2>7, SetInduction
  <2>9. g[M + 1] = s[1] + h[M]
    BY <2>1, <2>8 DEF S
  <2>10. W!Sum(s) = s[1] + W!Sum(t)
    BY <1>1, <2>1, <2>2, <2>9
  <2> QED
    BY <2>10, Zenon DEF t
<1>4. ASSUME Len(s) = 1
      PROVE  W!Sum(s) = s[1]
  <2>1. g[1] = g[0] + s[1] /\ g[0] = 0 /\ s[1] \in Nat
    BY <1>1, <1>4 DEF IsUpto
  <2> QED
    BY <1>1, <1>4, <2>1
<1> QED
  BY <1>2, <1>3, <1>4

Requests == W!Pages \cup DOMAIN Scripts
Answers == [req : Requests, says : Int, body : Int]
Conns == [asked : Seq(Requests), todo : Seq(Requests), here : BOOLEAN, got : Seq(Answers)]
Processes == [todo : W!ScriptKinds, piped : 0 .. PipeSize, errors : 0 .. PipeSize, exited : BOOLEAN]
FileStates == [size : Nat, changed : BOOLEAN]

(* Of a client's connection k, thread t and script p, and the file f.      *)
ThreadOK(t) ==
  /\ t = [at |-> t.at, req |-> t.req, n |-> t.n]
  /\ t.n \in Nat
  /\ \/ t.at \in {"none", "reading"} /\ t.req = Nothing
     \/ t.at \in W!Pages /\ t.req = t.at
     \/ t.at = "sending" /\ t.req = "file"
     \/ t.at \in {"spawn", "output", "wait"} /\ t.req \in DOMAIN Scripts

(* Whether the thread has a request whose answer it has not begun.         *)
Busy(t) == t.at \notin {"none", "reading", "sending"}

(* What is still to be read is the end of what was asked; before it comes  *)
(* what is being answered, and what was answered.                          *)
OrderedAfter(k, t, n) ==
  /\ Len(k.asked) = n + Len(k.todo)
  /\ \A i \in 1 .. Len(k.todo) : k.asked[n + i] = k.todo[i]
  /\ Busy(t) => n > 0 /\ k.asked[n] = t.req
  /\ Len(k.got) <= n
  /\ \A i \in 1 .. Len(k.got) : k.asked[i] = k.got[i].req
  /\ k.here => n = IF Busy(t) THEN Len(k.got) + 1 ELSE Len(k.got)
Ordered(k, t) == \E n \in 0 .. Len(k.asked) : OrderedAfter(k, t, n)

(* A file is being sent as long as it was when its head was sent.          *)
Sends(k, t, f) ==
  LET last == k.got[Len(k.got)]
  IN  t.at = "sending" /\ k.here =>
        /\ k.got # <<>> /\ last.req = "file" /\ last.body = t.n
        /\ ~f.changed => last.says = f.size /\ t.n <= f.size

(* The answers that are complete are as they should be.                    *)
Complete(k, t, i) == i < Len(k.got) \/ (k.here /\ t.at # "sending")
AnswerOK(a) ==
  LET s == Scripts[a.req]
  IN  /\ a.req = "/" => a.body = a.says
      /\ a.req \in DOMAIN Scripts =>
           /\ a.body = a.says
           /\ a.body <= W!Sum(s.out) - s.head
           /\ Len(s.out) = 1 /\ W!Sum(s.out) <= ReadSize => a.body = W!Sum(s.out) - s.head
           /\ ~s.input /\ s.err <= PipeSize /\ W!Sum(s.out) <= PipeSize + ReadSize
Truthful(k, t, f) ==
  \A i \in 1 .. Len(k.got) :
    /\ AnswerOK(k.got[i])
    /\ k.got[i].req = "file" /\ ~f.changed /\ Complete(k, t, i) => k.got[i].body = k.got[i].says

(* What a script has written is in its pipes, or was read.                 *)
Flow(p, s, n) ==
  /\ p.todo.input = s.input
  /\ p.todo.err + p.errors = s.err
  /\ p.piped + n + W!Sum(p.todo.out) = W!Sum(s.out)
  /\ p.exited => W!IsDone(p)
Least(s) == IF s.out[1] < ReadSize THEN s.out[1] ELSE ReadSize
Unread(p, s) ==
  \/ p.todo.out = s.out /\ p.piped = 0
  \/ s.out # <<>> /\ p.piped >= s.out[1] /\ (Len(s.out) = 1 => p.piped = s.out[1] /\ p.todo.out = <<>>)
IsRead(n, s) ==
  \/ s.out = <<>> /\ n = 0
  \/ s.out # <<>> /\ Least(s) <= n /\ n <= ReadSize /\ (Len(s.out) = 1 => n = Least(s))
Scripted(p, t) ==
  /\ p # Nothing \/ t.at \in {"output", "wait"} => p \in Processes
  /\ t.at = "output" => Flow(p, Scripts[t.req], 0) /\ Unread(p, Scripts[t.req])
  /\ t.at = "wait" => Flow(p, Scripts[t.req], t.n) /\ IsRead(t.n, Scripts[t.req])

ClientOK(k, t, p, f) ==
  /\ k \in Conns /\ ThreadOK(t)
  /\ Ordered(k, t) /\ Sends(k, t, f) /\ Truthful(k, t, f) /\ Scripted(p, t)

Doomed ==
  \/ \E c \in Clients : ~conn[c].here
  \/ \E c \in Clients : thread[c].req \in DOMAIN Scripts /\
       LET s == Scripts[thread[c].req]
       IN s.status # 0 \/ ~s.plain \/ s.out = <<>> \/ Least(s) < s.head
  \/ 2 * Cardinality(Clients) + 3 * (started + 2) > MaxFds

ServerInv ==
  /\ DOMAIN conn = Clients /\ DOMAIN thread = Clients /\ DOMAIN script = Clients
  /\ file \in FileStates /\ started \in Nat
  /\ \A c \in Clients : ClientOK(conn[c], thread[c], script[c], file)
  /\ fate # "up" => Doomed

-----------------------------------------------------------------------------
LEMMA ServerFacts ==
  /\ IsFiniteSet(Clients) /\ FileSizes \subseteq Nat
  /\ \A name \in DOMAIN Scripts : name \notin W!Pages /\ name # Nothing /\ Scripts[name] \in W!ScriptKinds
  /\ Wanted \subseteq Seq(Requests) /\ Nothing \notin W!Pages /\ Nothing \notin DOMAIN Scripts
  /\ ReadSize \in Nat \ {0} /\ PipeSize \in Nat /\ MaxFds \in Nat
<1>1. W!IsFiniteSet(Clients) = IsFiniteSet(Clients)
  BY DEF W!IsFiniteSet, IsFiniteSet
<1> QED
  BY <1>1, ServerAssumption DEF W!Settings, Requests

LEMMA LeastOfTwo ==
  ASSUME NEW a \in Int, NEW b \in Int
  PROVE  W!Min({a, b}) = IF a < b THEN a ELSE b
<1>1. CASE a < b
  <2>1. \A x \in {a, b} : (\A y \in {a, b} : x <= y) <=> x = a
    BY <1>1
  <2> QED
    BY <1>1, <2>1 DEF W!Min
<1>2. CASE ~ (a < b)
  <2>1. \A x \in {a, b} : (\A y \in {a, b} : x <= y) <=> x = b
    BY <1>2
  <2> QED
    BY <1>2, <2>1 DEF W!Min
<1> QED
  BY <1>1, <1>2

(* Descriptors: two for a client at most, and three for a script.          *)
LEMMA Descriptors ==
  ASSUME started \in Nat, NEW n \in 0 .. 6, W!Lacks(n)
  PROVE  Doomed
<1> DEFINE P == {c \in Clients : thread[c].at # "none"}
           Q == {c \in Clients : thread[c].at = "sending"}
<1>1. W!Cardinality(P) = Cardinality(P) /\ W!Cardinality(Q) = Cardinality(Q)
  BY DEF W!Cardinality, Cardinality
<1>2. IsFiniteSet(Clients) /\ P \subseteq Clients /\ Q \subseteq Clients
  BY ServerFacts
<1> HIDE DEF P, Q
<1>3. /\ Cardinality(P) \in Nat /\ Cardinality(Q) \in Nat /\ Cardinality(Clients) \in Nat
      /\ Cardinality(P) <= Cardinality(Clients) /\ Cardinality(Q) <= Cardinality(Clients)
  BY <1>2, FS_Subset, FS_CardinalityType
<1>4. Cardinality(P) + Cardinality(Q) + 3 * started + n > MaxFds
  BY <1>1, <1>2 DEF W!Lacks, W!Fds, P, Q
<1>5. 2 * Cardinality(Clients) + 3 * (started + 2) > MaxFds
  BY <1>3, <1>4, ServerFacts
<1> QED
  BY <1>5 DEF Doomed


-----------------------------------------------------------------------------
LEMMA Parts ==
  ASSUME ServerInv, NEW c \in Clients
  PROVE  /\ conn[c] \in Conns /\ ThreadOK(thread[c])
         /\ Ordered(conn[c], thread[c]) /\ Sends(conn[c], thread[c], file)
         /\ Truthful(conn[c], thread[c], file) /\ Scripted(script[c], thread[c])
         /\ file \in FileStates /\ started \in Nat
         /\ DOMAIN conn = Clients /\ DOMAIN thread = Clients /\ DOMAIN script = Clients
BY DEF ServerInv, ClientOK

Same(c) == conn'[c] = conn[c] /\ thread'[c] = thread[c] /\ script'[c] = script[c]

(* A step of one client, and one of none with which the server ends.       *)
LEMMA Alone ==
  ASSUME ServerInv, NEW c \in Clients, \A d \in Clients : d # c => Same(d),
         DOMAIN conn' = Clients, DOMAIN thread' = Clients, DOMAIN script' = Clients,
         UNCHANGED file, started' \in Nat, fate' = "up",
         ClientOK(conn'[c], thread'[c], script'[c], file)
  PROVE  ServerInv'
<1>1. ASSUME NEW d \in Clients
      PROVE  ClientOK(conn'[d], thread'[d], script'[d], file')
  <2>1. ClientOK(conn[d], thread[d], script[d], file)
    BY DEF ServerInv
  <2>2. CASE d # c
    BY <2>1, <2>2 DEF Same
  <2> QED
    BY <2>2
<1> QED
  BY <1>1 DEF ServerInv

LEMMA Dying ==
  ASSUME ServerInv, Doomed, NEW why, W!Dies(why)
  PROVE  ServerInv'
<1>1. UNCHANGED <<conn, thread, script, file, started>>
  BY DEF W!Dies
<1>2. Doomed'
  BY <1>1 DEF Doomed
<1> QED
  BY <1>1, <1>2 DEF ServerInv

LEMMA TailOf ==
  ASSUME NEW S, NEW s \in Seq(S), s # <<>>
  PROVE  /\ Tail(s) \in Seq(S) /\ Len(s) \in Nat \ {0} /\ Len(Tail(s)) = Len(s) - 1 /\ s[1] \in S
         /\ \A i \in 1 .. Len(Tail(s)) : Tail(s)[i] = s[i + 1]
  OBVIOUS


(* What becomes of an order of requests and of answers.                    *)
LEMMA Passing ==
  ASSUME NEW k, NEW t, NEW u, NEW f, Ordered(k, t), Truthful(k, t, f),
         Busy(u) <=> Busy(t), Busy(u) => u.req = t.req,
         t.at = "sending" => u.at = "sending" \/ ~k.here
  PROVE  Ordered(k, u) /\ Truthful(k, u, f)
<1>1. Ordered(k, u)
  BY DEF Ordered, OrderedAfter
<1>2. Truthful(k, u, f)
  BY DEF Truthful, Complete
<1> QED
  BY <1>1, <1>2

LEMMA ConnIs ==
  ASSUME NEW k \in Conns
  PROVE  /\ k = [asked |-> k.asked, todo |-> k.todo, here |-> k.here, got |-> k.got]
         /\ \A s : [k EXCEPT !.todo = s] = [asked |-> k.asked, todo |-> s, here |-> k.here, got |-> k.got]
         /\ \A s : [k EXCEPT !.got = s] = [asked |-> k.asked, todo |-> k.todo, here |-> k.here, got |-> s]
         /\ \A b : [k EXCEPT !.here = b] = [asked |-> k.asked, todo |-> k.todo, here |-> b, got |-> k.got]
         /\ k.asked \in Seq(Requests) /\ k.todo \in Seq(Requests) /\ k.here \in BOOLEAN /\ k.got \in Seq(Answers)
         /\ Len(k.asked) \in Nat /\ Len(k.todo) \in Nat /\ Len(k.got) \in Nat
<1>1. k = [asked |-> k.asked, todo |-> k.todo, here |-> k.here, got |-> k.got]
  BY DEF Conns
<1>2. k.asked \in Seq(Requests) /\ k.todo \in Seq(Requests) /\ k.here \in BOOLEAN /\ k.got \in Seq(Answers)
  BY DEF Conns
<1>3. Len(k.asked) \in Nat /\ Len(k.todo) \in Nat /\ Len(k.got) \in Nat
  BY <1>2, LenProperties
<1> QED
  BY <1>1, <1>2, <1>3

LEMMA Reading ==
  ASSUME NEW k \in Conns, NEW t, NEW u, NEW f, Ordered(k, t), Truthful(k, t, f),
         k.todo # <<>>, ~Busy(t), t.at # "sending", Busy(u), u.req = k.todo[1]
  PROVE  /\ [k EXCEPT !.todo = Tail(@)] \in Conns
         /\ Ordered([k EXCEPT !.todo = Tail(@)], u)
         /\ Truthful([k EXCEPT !.todo = Tail(@)], u, f)
<1> DEFINE q == [k EXCEPT !.todo = Tail(@)]
           More == Len(Tail(k.todo))
<1>1. /\ Tail(k.todo) \in Seq(Requests) /\ Len(k.todo) = More + 1 /\ More \in Nat
      /\ \A i \in 1 .. More : Tail(k.todo)[i] = k.todo[i + 1]
  <2>1. /\ Tail(k.todo) \in Seq(Requests) /\ Len(k.todo) \in Nat \ {0} /\ More = Len(k.todo) - 1
        /\ \A i \in 1 .. More : Tail(k.todo)[i] = k.todo[i + 1]
    BY ConnIs, TailOf
  <2> HIDE DEF More
  <2> QED
    BY <2>1
<1>2. q = [asked |-> k.asked, todo |-> Tail(k.todo), here |-> k.here, got |-> k.got]
  BY ConnIs, Zenon
<1>3. q \in Conns
  BY <1>1, <1>2, ConnIs DEF Conns
<1>4. PICK n \in 0 .. Len(k.asked) : OrderedAfter(k, t, n)
  BY DEF Ordered
<1> HIDE DEF More
<1>5. /\ n \in Nat /\ Len(k.asked) = n + (More + 1) /\ Len(k.got) <= n
      /\ \A i \in 1 .. More + 1 : k.asked[n + i] = k.todo[i]
      /\ \A i \in 1 .. Len(k.got) : k.asked[i] = k.got[i].req
      /\ k.here => n = Len(k.got)
  BY <1>1, <1>4, ConnIs DEF OrderedAfter
<1> DEFINE A == Len(k.asked)
           G == Len(k.got)
<1>n. n \in Nat /\ More \in Nat /\ A \in Nat /\ G \in Nat /\ A = n + (More + 1) /\ G <= n
  BY <1>1, <1>5, ConnIs
<1> HIDE DEF A, G
<1>6. k.asked[n + 1] = u.req /\ n + 1 \in 0 .. A /\ A = (n + 1) + More /\ G <= n + 1 /\ n + 1 > 0
  <2>1. 1 \in 1 .. More + 1
    BY <1>n
  <2>2. k.asked[n + 1] = k.todo[1]
    BY <1>5, <2>1
  <2>3. n + 1 \in 0 .. A /\ A = (n + 1) + More /\ G <= n + 1 /\ n + 1 > 0
    BY <1>n
  <2> QED
    BY <2>2, <2>3
<1>7. \A i \in 1 .. More : k.asked[(n + 1) + i] = Tail(k.todo)[i]
  <2> SUFFICES ASSUME NEW i \in 1 .. More
               PROVE  k.asked[(n + 1) + i] = Tail(k.todo)[i]
    OBVIOUS
  <2>1. i + 1 \in 1 .. More + 1 /\ n + (i + 1) = (n + 1) + i
    BY <1>n
  <2> QED
    BY <1>1, <1>5, <2>1
<1>8. q.asked = k.asked /\ q.todo = Tail(k.todo) /\ q.here = k.here /\ q.got = k.got
  BY <1>2
<1> HIDE DEF q
<1>9. OrderedAfter(q, u, n + 1)
  <2>1. Len(q.asked) = A /\ Len(q.todo) = More /\ Len(q.got) = G
    BY <1>8 DEF A, More, G
  <2>2. \A i \in 1 .. G : q.asked[i] = q.got[i].req
    BY <1>5, <1>8 DEF G
  <2>3. \A i \in 1 .. More : q.asked[(n + 1) + i] = q.todo[i]
    BY <1>7, <1>8
  <2>4. q.here => n + 1 = G + 1
    BY <1>5, <1>8 DEF G
  <2> QED
    BY <1>6, <1>8, <2>1, <2>2, <2>3, <2>4, Zenon DEF OrderedAfter
<1>10. Ordered(q, u)
  BY <1>6, <1>8, <1>9 DEF Ordered, A
<1>11. Truthful(q, u, f)
  BY <1>8 DEF Truthful, Complete
<1> QED
  BY <1>3, <1>10, <1>11 DEF q

LEMMA Delivered ==
  ASSUME NEW k \in Conns, NEW t, NEW u, NEW f, Ordered(k, t), Truthful(k, t, f), k.here,
         Busy(t), ~Busy(u), NEW a \in Answers, a.req = t.req, AnswerOK(a),
         a.req = "file" => u.at = "sending"
  PROVE  /\ [k EXCEPT !.got = Append(@, a)] \in Conns
         /\ Ordered([k EXCEPT !.got = Append(@, a)], u)
         /\ Truthful([k EXCEPT !.got = Append(@, a)], u, f)
<1> DEFINE q == [k EXCEPT !.got = Append(@, a)]
           g == Append(k.got, a)
           N == Len(k.got)
<1>1. /\ g \in Seq(Answers) /\ N \in Nat /\ Len(g) = N + 1 /\ g[N + 1] = a
      /\ \A i \in 1 .. N : g[i] = k.got[i]
  BY ConnIs, Appending
<1>2. q = [asked |-> k.asked, todo |-> k.todo, here |-> k.here, got |-> g]
  BY ConnIs, Zenon
<1>3. q \in Conns
  BY <1>1, <1>2, ConnIs DEF Conns
<1>4. PICK n \in 0 .. Len(k.asked) : OrderedAfter(k, t, n)
  BY DEF Ordered
<1> HIDE DEF g, N
<1>5. /\ n = N + 1 /\ Len(k.asked) = n + Len(k.todo) /\ k.asked[n] = a.req
      /\ \A i \in 1 .. Len(k.todo) : k.asked[n + i] = k.todo[i]
      /\ \A i \in 1 .. N : k.asked[i] = k.got[i].req
  BY <1>4 DEF OrderedAfter, N
<1>6. \A i \in 1 .. N + 1 : i \in 1 .. N \/ i = N + 1
  BY <1>1
<1>7. q.asked = k.asked /\ q.todo = k.todo /\ q.here = k.here /\ q.got = g
  BY <1>2
<1> HIDE DEF q
<1>8. \A i \in 1 .. N + 1 : k.asked[i] = g[i].req
  BY <1>1, <1>5, <1>6
<1>9. OrderedAfter(q, u, n)
  <2>1. Len(q.asked) = Len(k.asked) /\ q.todo = k.todo /\ Len(q.got) = N + 1 /\ q.asked = k.asked
    BY <1>1, <1>7
  <2>2. \A i \in 1 .. N + 1 : q.asked[i] = q.got[i].req
    BY <1>7, <1>8
  <2>3. Len(q.got) <= n /\ n = Len(q.got)
    BY <1>1, <1>5, <2>1
  <2> QED
    BY <1>5, <2>1, <2>2, <2>3, Zenon DEF OrderedAfter
<1>10. Ordered(q, u)
  BY <1>7, <1>9 DEF Ordered
<1>11. \A i \in 1 .. N : Complete(k, t, i)
  BY DEF Complete, Busy, N
<1>12. Truthful(q, u, f)
  <2> SUFFICES ASSUME NEW i \in 1 .. N + 1
               PROVE  /\ AnswerOK(g[i])
                      /\ g[i].req = "file" /\ ~f.changed /\ Complete(q, u, i) => g[i].body = g[i].says
    BY <1>1, <1>7 DEF Truthful
  <2>1. CASE i \in 1 .. N
    BY <1>1, <1>11, <2>1 DEF Truthful, N
  <2>2. CASE i = N + 1
    BY <1>1, <1>7, <2>2 DEF Complete
  <2> QED
    BY <1>6, <2>1, <2>2
<1> QED
  BY <1>3, <1>10, <1>12 DEF q

(* A client that has gone gets no answers any more.                        *)
LEMMA Lost ==
  ASSUME NEW k \in Conns, NEW t, NEW u, NEW f, Ordered(k, t), Truthful(k, t, f), ~k.here, ~Busy(u)
  PROVE  Ordered(k, u) /\ Truthful(k, u, f)
<1>1. Ordered(k, u)
  BY DEF Ordered, OrderedAfter
<1>2. Truthful(k, u, f)
  BY DEF Truthful, Complete
<1> QED
  BY <1>1, <1>2

-----------------------------------------------------------------------------
LEMMA AcceptStep ==
  ASSUME ServerInv, NEW c \in Clients, W!Accept(c)
  PROVE  ServerInv'
<1>1. CASE W!Lacks(1)
  <2>1. Doomed
    BY <1>1, Descriptors, Parts
  <2> QED
    BY <1>1, <2>1, Dying DEF W!Accept
<1>2. CASE ~ W!Lacks(1)
  <2> DEFINE u == [at |-> "reading", req |-> Nothing, n |-> 0]
  <2>1. /\ thread[c].at = "none" /\ thread' = [thread EXCEPT ![c] = u]
        /\ UNCHANGED <<conn, script, file, started, fate>> /\ fate = "up"
    BY <1>2 DEF W!Accept, W!At, W!Goes
  <2>2. ThreadOK(u) /\ ~Busy(u) /\ ~Busy(thread[c])
    BY <2>1 DEF ThreadOK, Busy
  <2>3. Ordered(conn[c], u) /\ Truthful(conn[c], u, file)
    BY <2>1, <2>2, Passing, Parts
  <2>4. Sends(conn[c], u, file) /\ Scripted(script[c], u)
    BY Parts DEF Sends, Scripted
  <2>5. ClientOK(conn[c], u, script[c], file)
    BY <2>2, <2>3, <2>4, Parts DEF ClientOK
  <2> HIDE DEF u
  <2> QED
    BY <2>1, <2>5, Alone, Parts DEF Same
<1> QED
  BY <1>1, <1>2

LEMMA ReadRequestStep ==
  ASSUME ServerInv, NEW c \in Clients, W!ReadRequest(c)
  PROVE  ServerInv'
<1> DEFINE k == conn[c]
           r == k.todo[1]
           q == [k EXCEPT !.todo = Tail(@)]
           u == [at |-> IF W!IsScript(r) THEN "spawn" ELSE r, req |-> r, n |-> 0]
<1>1. /\ thread[c].at = "reading" /\ k.todo # <<>>
      /\ thread' = [thread EXCEPT ![c] = u] /\ conn' = [conn EXCEPT ![c] = q]
      /\ UNCHANGED <<script, file, started, fate>> /\ fate = "up"
  BY DEF W!ReadRequest, W!At, W!Goes
<1>2. r \in Requests
  BY <1>1, Parts, ConnIs, TailOf
<1> HIDE DEF r
<1>3. /\ u.req = r /\ u.n = 0 /\ u = [at |-> u.at, req |-> u.req, n |-> u.n]
      /\ IF r \in DOMAIN Scripts THEN u.at = "spawn" ELSE u.at = r /\ r \in W!Pages
  BY <1>2 DEF W!IsScript, Requests
<1> HIDE DEF u
<1>4. ThreadOK(u)
  BY <1>3 DEF ThreadOK
<1>5. Busy(u) /\ ~Busy(thread[c]) /\ thread[c].at # "sending" /\ u.at \notin {"sending", "output", "wait"}
  BY <1>1, <1>3 DEF Busy, W!Pages
<1>6. q \in Conns /\ Ordered(q, u) /\ Truthful(q, u, file)
  BY <1>1, <1>3, <1>5, Reading, Parts DEF r
<1>7. Sends(q, u, file) /\ Scripted(script[c], u)
  BY <1>5, Parts DEF Sends, Scripted
<1>8. ClientOK(q, u, script[c], file)
  BY <1>4, <1>6, <1>7 DEF ClientOK
<1> HIDE DEF q
<1> QED
  BY <1>1, <1>8, Alone, Parts DEF Same

(* RequestsEnd, PipeBreaks and OpenFails.                                  *)
LEMMA EndStep ==
  ASSUME ServerInv, NEW c \in Clients, W!RequestsEnd(c) \/ W!PipeBreaks(c) \/ W!OpenFails(c)
  PROVE  ServerInv'
<1>1. CASE W!RequestsEnd(c)
  <2>1. Doomed
    BY <1>1 DEF W!RequestsEnd, Doomed
  <2> QED
    BY <1>1, <2>1, Dying DEF W!RequestsEnd
<1>2. CASE W!PipeBreaks(c)
  <2>1. Doomed
    BY <1>2 DEF W!PipeBreaks, Doomed
  <2> QED
    BY <1>2, <2>1, Dying DEF W!PipeBreaks
<1>3. CASE W!OpenFails(c)
  <2>1. W!Lacks(1)
    BY <1>3 DEF W!OpenFails
  <2>2. Doomed
    BY <2>1, Descriptors, Parts
  <2> QED
    BY <1>3, <2>2, Dying DEF W!OpenFails
<1> QED
  BY <1>1, <1>2, <1>3

(* What Got and Answer do for a client, there or not.                      *)
AnswerTo(c, x, y) == [req |-> thread[c].req, says |-> x, body |-> y]

LEMMA Answering ==
  ASSUME ServerInv, NEW c \in Clients, Busy(thread[c]), NEW x \in Int, NEW y \in Int,
         NEW u, ThreadOK(u), ~Busy(u), thread[c].req = "file" => u.at = "sending",
         AnswerOK(AnswerTo(c, x, y)), thread[c].req \in Requests,
         u.at = "sending" => u.n = y /\ x = file.size /\ y = 0 /\ thread[c].req = "file",
         conn' = W!Got(c, Append(conn[c].got, AnswerTo(c, x, y))), thread' = [thread EXCEPT ![c] = u],
         UNCHANGED <<script, file, started, fate>>, fate = "up"
  PROVE  ServerInv'
<1> DEFINE a == AnswerTo(c, x, y)
           k == conn[c]
           q == IF k.here THEN [k EXCEPT !.got = Append(@, a)] ELSE k
<1>1. a \in Answers /\ a = [req |-> thread[c].req, says |-> x, body |-> y]
  BY DEF Answers, AnswerTo
<1> HIDE DEF a
<1>2. /\ DOMAIN conn' = Clients /\ conn'[c] = q
      /\ \A d \in Clients : d # c => conn'[d] = conn[d]
  BY Parts DEF W!Got, a
<1>3. q \in Conns /\ Ordered(q, u) /\ Truthful(q, u, file)
  <2>1. CASE k.here
    <3>1. a.req = thread[c].req /\ AnswerOK(a) /\ (a.req = "file" => u.at = "sending")
      BY <1>1 DEF a
    <3> QED
      BY <1>1, <2>1, <3>1, Delivered, Parts
  <2>2. CASE ~k.here
    BY <2>2, Lost, Parts
  <2> QED
    BY <2>1, <2>2
<1>4. Sends(q, u, file)
  <2> SUFFICES ASSUME u.at = "sending", k.here
               PROVE  /\ q.got # <<>> /\ q.got[Len(q.got)] = a
                      /\ u.n <= file.size
    BY <1>1, Parts, ConnIs DEF Sends
  <2>1. q.got = Append(k.got, a)
    BY Parts, ConnIs
  <2>2. q.got # <<>> /\ q.got[Len(q.got)] = a
    <3>1. k.got \in Seq(Answers)
      BY Parts, ConnIs
    <3>2. Append(k.got, a) # <<>> /\ Len(Append(k.got, a)) = Len(k.got) + 1 /\ Append(k.got, a)[Len(k.got) + 1] = a /\ Len(k.got) \in Nat
      BY <1>1, <3>1, Appending
    <3> QED
      BY <2>1, <3>2
  <2> QED
    BY <2>2, Parts DEF FileStates
<1>5. Scripted(script[c], u)
  BY Parts DEF Scripted, ThreadOK, Busy
<1>6. ClientOK(q, u, script[c], file)
  BY <1>3, <1>4, <1>5 DEF ClientOK
<1> HIDE DEF q
<1> QED
  BY <1>2, <1>6, Alone, Parts DEF Same

LEMMA ServeTextStep ==
  ASSUME ServerInv, NEW c \in Clients, W!ServeText(c)
  PROVE  ServerInv'
<1> DEFINE u == [at |-> "reading", req |-> Nothing, n |-> 0]
<1>1. /\ thread[c].at \in {"/", "missing"} /\ thread' = [thread EXCEPT ![c] = u]
      /\ UNCHANGED <<script, file, started, fate>> /\ fate = "up"
      /\ IF thread[c].at = "/" THEN conn' = W!Got(c, Append(conn[c].got, AnswerTo(c, 1, 1)))
                               ELSE conn' = W!Got(c, Append(conn[c].got, AnswerTo(c, 1, 2)))
  BY DEF W!ServeText, W!At, W!Goes, W!Answer, AnswerTo
<1>2. ThreadOK(u) /\ ~Busy(u) /\ Busy(thread[c]) /\ u.at # "sending"
  BY <1>1 DEF ThreadOK, Busy
<1>3. thread[c].req = thread[c].at /\ thread[c].req \in Requests /\ thread[c].req # "file"
      /\ thread[c].req \notin DOMAIN Scripts
  BY <1>1, Parts, ServerFacts DEF ThreadOK, Requests, W!Pages
<1> HIDE DEF u
<1>4. CASE thread[c].at = "/"
  <2>1. AnswerOK(AnswerTo(c, 1, 1))
    BY <1>3 DEF AnswerOK, AnswerTo
  <2>2. conn' = W!Got(c, Append(conn[c].got, AnswerTo(c, 1, 1)))
    BY <1>1, <1>4
  <2>3. 1 \in Int /\ 2 \in Int
    OBVIOUS
  <2> QED
    BY <1>1, <1>2, <1>3, <2>1, <2>2, <2>3, Answering, Zenon
<1>5. CASE thread[c].at = "missing"
  <2>1. AnswerOK(AnswerTo(c, 1, 2))
    BY <1>3, <1>5 DEF AnswerOK, AnswerTo
  <2>2. conn' = W!Got(c, Append(conn[c].got, AnswerTo(c, 1, 2)))
    BY <1>1, <1>5
  <2>3. 1 \in Int /\ 2 \in Int
    OBVIOUS
  <2> QED
    BY <1>1, <1>2, <1>3, <2>1, <2>2, <2>3, Answering, Zenon
<1> QED
  BY <1>1, <1>4, <1>5

LEMMA ServeHeadStep ==
  ASSUME ServerInv, NEW c \in Clients, W!ServeHead(c)
  PROVE  ServerInv'
<1> DEFINE u == [at |-> "sending", req |-> "file", n |-> 0]
           a == AnswerTo(c, file.size, 0)
<1>1. /\ thread[c].at = "file" /\ thread' = [thread EXCEPT ![c] = u]
      /\ UNCHANGED <<script, file, started, fate>> /\ fate = "up"
      /\ conn' = W!Got(c, Append(conn[c].got, a))
  BY DEF W!ServeHead, W!At, W!Goes, W!Answer, AnswerTo
<1>2. ThreadOK(u) /\ ~Busy(u) /\ Busy(thread[c]) /\ u.at = "sending" /\ u.n = 0
  BY <1>1 DEF ThreadOK, Busy
<1>3. thread[c].req = "file" /\ thread[c].req \in Requests /\ thread[c].req \notin DOMAIN Scripts
  BY <1>1, Parts, ServerFacts DEF ThreadOK, Requests, W!Pages
<1>4. AnswerOK(a) /\ file.size \in Int
  BY <1>3, Parts DEF AnswerOK, AnswerTo, FileStates
<1>5. 0 \in Int
  OBVIOUS
<1> HIDE DEF u
<1> QED
  BY <1>1, <1>2, <1>3, <1>4, <1>5, Answering, Zenon

LEMMA ServeChunkStep ==
  ASSUME ServerInv, NEW c \in Clients, W!ServeChunk(c)
  PROVE  ServerInv'
<1> DEFINE k == conn[c]
           got == k.got
           N == Len(got)
<1>1. /\ thread[c].at = "sending" /\ UNCHANGED <<script, file, started, fate>> /\ fate = "up"
  BY DEF W!ServeChunk, W!At
<1>2. thread[c].req = "file" /\ thread[c].n \in Nat /\ file.size \in Nat /\ file.changed \in BOOLEAN
      /\ "file" \notin DOMAIN Scripts
  BY <1>1, Parts, ServerFacts DEF ThreadOK, FileStates, W!Pages
<1>3. CASE thread[c].n < file.size
  <2> DEFINE u == [at |-> "sending", req |-> "file", n |-> thread[c].n + 1]
             g == [got EXCEPT ![N].body = @ + 1]
             q == IF k.here THEN [k EXCEPT !.got = g] ELSE k
  <2>1. thread' = [thread EXCEPT ![c] = u] /\ conn' = W!Got(c, g)
    BY <1>3 DEF W!ServeChunk, W!Goes
  <2>2. /\ DOMAIN conn' = Clients /\ conn'[c] = q
        /\ \A d \in Clients : d # c => conn'[d] = conn[d]
    BY <2>1, Parts DEF W!Got
  <2>3. ThreadOK(u) /\ ~Busy(u) /\ ~Busy(thread[c]) /\ u.at = "sending" /\ u.n = thread[c].n + 1
    BY <1>1, <1>2 DEF ThreadOK, Busy
  <2> HIDE DEF u
  <2>4. Ordered(k, u) /\ Truthful(k, u, file)
    BY <1>1, <2>3, Passing, Parts
  <2>5. q \in Conns /\ Ordered(q, u) /\ Truthful(q, u, file) /\ Sends(q, u, file)
    <3>1. CASE ~k.here
      BY <2>4, <3>1, Parts DEF Sends
    <3>2. CASE k.here
      <4>1. /\ got # <<>> /\ got[N].req = "file" /\ got[N].body = thread[c].n
            /\ ~file.changed => got[N].says = file.size
        BY <1>1, <3>2, Parts DEF Sends
      <4>2. got \in Seq(Answers) /\ N \in Nat \ {0} /\ DOMAIN got = 1 .. N /\ got[N] \in Answers
        <5>1. got \in Seq(Answers)
          BY Parts, ConnIs
        <5> QED
          BY <4>1, <5>1
      <4>3. /\ g \in Seq(Answers) /\ Len(g) = N
            /\ g[N] = [req |-> "file", says |-> got[N].says, body |-> thread[c].n + 1]
            /\ \A i \in 1 .. N : i # N => g[i] = got[i]
        <5>1. got[N] = [req |-> "file", says |-> got[N].says, body |-> thread[c].n] /\ got[N].says \in Int
              /\ "file" \in Requests
          BY <4>1, <4>2 DEF Answers
        <5>2. [got[N] EXCEPT !.body = @ + 1] = [req |-> "file", says |-> got[N].says, body |-> thread[c].n + 1]
          BY <5>1
        <5>3. [got[N] EXCEPT !.body = @ + 1] \in Answers
          BY <1>2, <5>1, <5>2 DEF Answers
        <5>4. g = [got EXCEPT ![N] = [got[N] EXCEPT !.body = @ + 1]]
          OBVIOUS
        <5> HIDE DEF N
        <5> QED
          BY <4>2, <5>2, <5>3, <5>4, ExceptSeq
      <4> HIDE DEF g
      <4>4. q = [asked |-> k.asked, todo |-> k.todo, here |-> k.here, got |-> g]
        BY <3>2, Parts, ConnIs, Zenon
      <4>5. q \in Conns
        BY <4>3, <4>4, Parts, ConnIs DEF Conns
      <4>6. q.asked = k.asked /\ q.todo = k.todo /\ q.here = k.here /\ q.got = g
        BY <4>4
      <4> HIDE DEF q
      <4>7. Ordered(q, u)
        <5>1. PICK n \in 0 .. Len(k.asked) : OrderedAfter(k, u, n)
          BY <2>4 DEF Ordered
        <5>2. \A i \in 1 .. N : q.asked[i] = q.got[i].req
          BY <4>1, <4>3, <4>6, <5>1 DEF OrderedAfter
        <5>3. Len(q.got) = N /\ Len(q.asked) = Len(k.asked)
          BY <4>3, <4>6
        <5>4. OrderedAfter(q, u, n)
          BY <4>6, <5>1, <5>2, <5>3, Zenon DEF OrderedAfter
        <5> QED
          BY <5>3, <5>4 DEF Ordered
      <4>8. Truthful(q, u, file)
        <5> SUFFICES ASSUME NEW i \in 1 .. N
                     PROVE  /\ AnswerOK(g[i])
                            /\ g[i].req = "file" /\ ~file.changed /\ Complete(q, u, i) => g[i].body = g[i].says
          BY <4>3, <4>6 DEF Truthful
        <5>1. CASE i = N
          <6>1. AnswerOK(g[i])
            BY <1>2, <4>3, <5>1 DEF AnswerOK
          <6>2. ~Complete(q, u, i)
            BY <2>3, <4>2, <4>3, <4>6, <5>1 DEF Complete
          <6> QED
            BY <6>1, <6>2
        <5>2. CASE i # N
          <6>1. g[i] = got[i] /\ i < N
            BY <4>2, <4>3, <5>2
          <6>2. Complete(k, thread[c], i)
            BY <6>1 DEF Complete
          <6> QED
            BY <6>1, <6>2, Parts DEF Truthful
        <5> QED
          BY <5>1, <5>2
      <4>9. Sends(q, u, file)
        BY <1>2, <1>3, <2>3, <4>1, <4>2, <4>3, <4>6 DEF Sends
      <4> QED
        BY <4>5, <4>7, <4>8, <4>9
    <3> QED
      BY <3>1, <3>2
  <2>6. Scripted(script[c], u)
    BY <2>3, Parts DEF Scripted
  <2>7. ClientOK(q, u, script[c], file)
    BY <2>3, <2>5, <2>6 DEF ClientOK
  <2> HIDE DEF q
  <2> QED
    BY <1>1, <2>1, <2>2, <2>7, Alone, Parts DEF Same
<1>4. CASE ~(thread[c].n < file.size)
  <2> DEFINE u == [at |-> "reading", req |-> Nothing, n |-> 0]
  <2>1. thread' = [thread EXCEPT ![c] = u] /\ UNCHANGED conn
    BY <1>4 DEF W!ServeChunk, W!Goes
  <2>2. ThreadOK(u) /\ ~Busy(u) /\ ~Busy(thread[c]) /\ u.at = "reading"
    BY <1>1 DEF ThreadOK, Busy
  <2> HIDE DEF u
  <2>3. Ordered(k, u)
    BY <2>2, Parts DEF Ordered, OrderedAfter
  <2>4. Truthful(k, u, file)
    <3> SUFFICES ASSUME NEW i \in 1 .. N
                 PROVE  /\ AnswerOK(got[i])
                        /\ got[i].req = "file" /\ ~file.changed /\ Complete(k, u, i) => got[i].body = got[i].says
      BY DEF Truthful
    <3>1. AnswerOK(got[i]) /\ (got[i].req = "file" /\ ~file.changed /\ Complete(k, thread[c], i) => got[i].body = got[i].says)
      BY Parts DEF Truthful
    <3>2. CASE i < N
      BY <3>1, <3>2 DEF Complete
    <3>3. CASE ~(i < N)
      <4>1. i = N
        BY <3>3, Parts, ConnIs
      <4>2. ASSUME k.here, ~file.changed
            PROVE  got[i].body = got[i].says
        BY <1>1, <1>2, <1>4, <4>1, <4>2, Parts DEF Sends
      <4>3. Complete(k, u, i) => k.here
        BY <3>3 DEF Complete
      <4> QED
        BY <3>1, <4>2, <4>3
    <3> QED
      BY <3>2, <3>3
  <2>5. Sends(k, u, file) /\ Scripted(script[c], u)
    BY <2>2, Parts DEF Sends, Scripted
  <2>6. ClientOK(k, u, script[c], file)
    BY <2>2, <2>3, <2>4, <2>5, Parts DEF ClientOK
  <2> QED
    BY <1>1, <2>1, <2>6, Alone, Parts DEF Same
<1> QED
  BY <1>3, <1>4

(* What is known of a script and of how it was written.                    *)
LEMMA KindIs ==
  ASSUME NEW s \in W!ScriptKinds
  PROVE  /\ s = [input |-> s.input, err |-> s.err, out |-> s.out, head |-> s.head, plain |-> s.plain, status |-> s.status]
         /\ \A o : [s EXCEPT !.out = o] =
                    [input |-> s.input, err |-> s.err, out |-> o, head |-> s.head, plain |-> s.plain, status |-> s.status]
         /\ s.input \in BOOLEAN /\ s.err \in Nat /\ s.out \in Seq(Nat \ {0}) /\ s.out \in Seq(Nat)
         /\ s.head \in Nat /\ s.plain \in BOOLEAN
         /\ W!Sum(s.out) \in Nat
         /\ s.out = <<>> => W!Sum(s.out) = 0
         /\ s.out # <<>> => /\ W!Sum(s.out) = s.out[1] + W!Sum(Tail(s.out)) /\ W!Sum(Tail(s.out)) \in Nat
                            /\ s.out[1] \in Nat \ {0} /\ Tail(s.out) \in Seq(Nat \ {0})
                            /\ Least(s) \in Nat \ {0} /\ Least(s) <= ReadSize
                            /\ (Len(s.out) = 1 => Tail(s.out) = <<>> /\ W!Sum(s.out) = s.out[1])
<1>1. /\ s = [input |-> s.input, err |-> s.err, out |-> s.out, head |-> s.head, plain |-> s.plain, status |-> s.status]
      /\ s.input \in BOOLEAN /\ s.err \in Nat /\ s.out \in Seq(Nat \ {0}) /\ s.head \in Nat /\ s.plain \in BOOLEAN
  BY DEF W!ScriptKinds
<1>2. s.out \in Seq(Nat)
  <2> DEFINE o == s.out
  <2>1. o \in Seq(Nat \ {0})
    BY <1>1
  <2> HIDE DEF o
  <2>2. o \in Seq(Nat)
    BY <2>1
  <2> QED
    BY <2>2 DEF o
<1>3. /\ W!Sum(s.out) \in Nat /\ (s.out = <<>> => W!Sum(s.out) = 0)
      /\ (s.out # <<>> => W!Sum(s.out) = s.out[1] + W!Sum(Tail(s.out)))
      /\ (Len(s.out) = 1 => W!Sum(s.out) = s.out[1])
  BY <1>2, SumOfRest
<1>4. ASSUME s.out # <<>>
      PROVE  /\ W!Sum(Tail(s.out)) \in Nat /\ s.out[1] \in Nat \ {0} /\ Tail(s.out) \in Seq(Nat \ {0})
             /\ Least(s) \in Nat \ {0} /\ Least(s) <= ReadSize
             /\ (Len(s.out) = 1 => Tail(s.out) = <<>>)
  <2>1. s.out[1] \in Nat \ {0} /\ Tail(s.out) \in Seq(Nat \ {0}) /\ Len(Tail(s.out)) = Len(s.out) - 1
    BY <1>1, <1>4, TailOf
  <2>2. Tail(s.out) \in Seq(Nat)
    BY <1>2, <1>4, TailOf
  <2>3. W!Sum(Tail(s.out)) \in Nat
    BY <2>2, SumOfRest
  <2>4. Least(s) \in Nat \ {0} /\ Least(s) <= ReadSize
    BY <2>1, ServerFacts DEF Least
  <2>5. Len(s.out) = 1 => Tail(s.out) = <<>>
    <3>1. Len(s.out) = 1 => Len(Tail(s.out)) = 0
      BY <2>1
    <3> QED
      BY <2>1, <3>1, EmptySeq
  <2> QED
    BY <2>1, <2>3, <2>4, <2>5
<1>5. \A o : [s EXCEPT !.out = o] =
              [input |-> s.input, err |-> s.err, out |-> o, head |-> s.head, plain |-> s.plain, status |-> s.status]
  <2>1. s = [input |-> s.input, err |-> s.err, out |-> s.out, head |-> s.head, plain |-> s.plain, status |-> s.status]
    BY <1>1
  <2> QED
    BY <2>1
<1> QED
  BY <1>1, <1>2, <1>3, <1>4, <1>5

LEMMA ProcessIs ==
  ASSUME NEW p \in Processes
  PROVE  /\ p = [todo |-> p.todo, piped |-> p.piped, errors |-> p.errors, exited |-> p.exited]
         /\ p.todo \in W!ScriptKinds /\ p.piped \in 0 .. PipeSize /\ p.errors \in 0 .. PipeSize
         /\ p.exited \in BOOLEAN
BY DEF Processes

(* What becomes of a process when its pipe is read and when it exits.      *)
LEMMA ProcessBecomes ==
  ASSUME NEW p \in Processes
  PROVE  /\ \A x : [p EXCEPT !.piped = x] = [todo |-> p.todo, piped |-> x, errors |-> p.errors, exited |-> p.exited]
         /\ [p EXCEPT !.exited = TRUE] = [todo |-> p.todo, piped |-> p.piped, errors |-> p.errors, exited |-> TRUE]
<1>1. p = [todo |-> p.todo, piped |-> p.piped, errors |-> p.errors, exited |-> p.exited]
  BY ProcessIs
<1>2. \A x : [p EXCEPT !.piped = x] = [todo |-> p.todo, piped |-> x, errors |-> p.errors, exited |-> p.exited]
  BY <1>1
<1>3. \A x : [p EXCEPT !.exited = x] = [todo |-> p.todo, piped |-> p.piped, errors |-> p.errors, exited |-> x]
  BY <1>1
<1> QED
  BY <1>2, <1>3, Zenon

LEMMA SpawnStep ==
  ASSUME ServerInv, NEW c \in Clients, W!Spawn(c)
  PROVE  ServerInv'
<1>1. CASE W!Lacks(6)
  <2>1. Doomed
    BY <1>1, Descriptors, Parts
  <2> QED
    BY <1>1, <2>1, Dying DEF W!Spawn
<1>2. CASE ~ W!Lacks(6)
  <2> DEFINE r == thread[c].req
             s == Scripts[r]
             u == [at |-> "output", req |-> r, n |-> 0]
             p == [todo |-> s, piped |-> 0, errors |-> 0, exited |-> FALSE]
  <2>1. /\ thread[c].at = "spawn" /\ thread' = [thread EXCEPT ![c] = u]
        /\ script' = [script EXCEPT ![c] = p] /\ started' = started + 1
        /\ UNCHANGED <<conn, file, fate>> /\ fate = "up"
    BY <1>2 DEF W!Spawn, W!At, W!Goes
  <2>2. r \in DOMAIN Scripts /\ s \in W!ScriptKinds /\ started' \in Nat
    <3>1. ThreadOK(thread[c]) /\ started \in Nat
      BY Parts
    <3>2. r \in DOMAIN Scripts
      BY <2>1, <3>1 DEF ThreadOK, W!Pages
    <3> QED
      BY <2>1, <3>1, <3>2, ServerFacts
  <2> HIDE DEF r
  <2>3. ThreadOK(u) /\ Busy(u) /\ Busy(thread[c]) /\ u.req = r /\ u.n = 0 /\ u.at = "output"
    BY <2>1, <2>2 DEF ThreadOK, Busy
  <2> HIDE DEF u
  <2>4. Ordered(conn[c], u) /\ Truthful(conn[c], u, file)
    BY <2>1, <2>3, Passing, Parts DEF r
  <2> HIDE DEF s
  <2>5. /\ p.todo = s /\ p.piped = 0 /\ p.errors = 0 /\ p.exited = FALSE
        /\ p \in Processes
    BY <2>2, ServerFacts DEF Processes
  <2> HIDE DEF p
  <2>6. Flow(p, s, 0) /\ Unread(p, s)
    BY <2>2, <2>5, KindIs DEF Flow, Unread
  <2>7. Scripted(p, u) /\ Sends(conn[c], u, file)
    BY <2>3, <2>5, <2>6 DEF Scripted, Sends, s
  <2>8. ClientOK(conn[c], u, p, file)
    BY <2>3, <2>4, <2>7, Parts DEF ClientOK
  <2> QED
    BY <2>1, <2>2, <2>8, Alone, Parts DEF Same
<1> QED
  BY <1>1, <1>2

LEMMA ReadOutputStep ==
  ASSUME ServerInv, NEW c \in Clients, W!ReadOutput(c)
  PROVE  ServerInv'
<1> DEFINE p == script[c]
           r == thread[c].req
           s == Scripts[r]
           n == IF p.piped < ReadSize THEN p.piped ELSE ReadSize
           u == [at |-> "wait", req |-> r, n |-> n]
           q == [p EXCEPT !.piped = @ - n]
<1>1. thread[c].at = "output" /\ (p.piped > 0 \/ p.exited) /\ UNCHANGED <<conn, file, started, fate>> /\ fate = "up"
  BY DEF W!ReadOutput, W!At
<1>2. p \in Processes /\ Flow(p, s, 0) /\ Unread(p, s) /\ r \in DOMAIN Scripts /\ s \in W!ScriptKinds
  BY <1>1, Parts, ServerFacts DEF Scripted, ThreadOK, W!Pages
<1>3. p.piped \in Nat /\ p.piped <= PipeSize /\ n \in Nat /\ n <= p.piped /\ n <= ReadSize /\ p.piped - n \in 0 .. PipeSize
  <2>1. p.piped \in Nat /\ p.piped <= PipeSize
    BY <1>2, ProcessIs, ServerFacts
  <2> QED
    BY <2>1, ServerFacts
<1>4. thread' = [thread EXCEPT ![c] = u] /\ script' = [script EXCEPT ![c] = q]
  <2>1. W!Min({p.piped, ReadSize}) = n
    BY <1>3, LeastOfTwo, ServerFacts
  <2> QED
    BY <2>1 DEF W!ReadOutput, W!Goes
<1> HIDE DEF n
<1>5. ThreadOK(u) /\ Busy(u) /\ Busy(thread[c]) /\ u.req = r /\ u.n = n /\ u.at = "wait"
  BY <1>1, <1>2, <1>3 DEF ThreadOK, Busy
<1> HIDE DEF u
<1>6. Ordered(conn[c], u) /\ Truthful(conn[c], u, file)
  BY <1>1, <1>5, Passing, Parts
<1>7. q = [todo |-> p.todo, piped |-> p.piped - n, errors |-> p.errors, exited |-> p.exited]
  BY <1>2, ProcessBecomes, Zenon
<1>8. q \in Processes
  BY <1>2, <1>3, <1>7, ProcessIs DEF Processes
<1>9. q.todo = p.todo /\ q.piped = p.piped - n /\ q.errors = p.errors /\ q.exited = p.exited
  BY <1>7
<1> HIDE DEF q, p, s
<1>10. W!Sum(p.todo.out) \in Nat /\ W!Sum(s.out) \in Nat
  BY <1>2, ProcessIs, KindIs
<1>11. Flow(q, s, n)
  <2>1. p.piped + 0 + W!Sum(p.todo.out) = W!Sum(s.out)
    BY <1>2 DEF Flow
  <2>2. (p.piped - n) + n + W!Sum(p.todo.out) = W!Sum(s.out)
    BY <1>3, <1>10, <2>1
  <2> QED
    BY <1>2, <1>9, <2>2 DEF Flow, W!IsDone
<1>12. IsRead(n, s)
  <2>1. CASE s.out = <<>>
    <3>1. p.piped = 0
      BY <1>2, <2>1 DEF Unread
    <3>2. n = 0
      BY <1>3, <3>1
    <3> QED
      BY <2>1, <3>2 DEF IsRead
  <2>2. CASE s.out # <<>>
    <3>1. s.out[1] \in Nat \ {0} /\ ReadSize \in Nat \ {0}
      BY <1>2, <2>2, KindIs, ServerFacts
    <3>2. CASE p.todo.out = s.out /\ p.piped = 0
      <4>1. p.exited
        BY <1>1, <3>2 DEF p
      <4>2. p.todo.out = <<>>
        BY <1>2, <4>1 DEF Flow, W!IsDone
      <4> QED
        BY <2>2, <3>2, <4>2
    <3>3. CASE p.piped >= s.out[1] /\ (Len(s.out) = 1 => p.piped = s.out[1])
      <4>1. Least(s) <= n /\ n <= ReadSize /\ (p.piped = s.out[1] => n = Least(s))
        BY <1>3, <3>1, <3>3 DEF Least, n
      <4> QED
        BY <2>2, <3>3, <4>1 DEF IsRead
    <3> QED
      BY <1>2, <3>2, <3>3 DEF Unread
  <2> QED
    BY <2>1, <2>2
<1>13. Scripted(q, u) /\ Sends(conn[c], u, file)
  BY <1>5, <1>8, <1>11, <1>12 DEF Scripted, Sends, s
<1>14. ClientOK(conn[c], u, q, file)
  BY <1>5, <1>6, <1>13, Parts DEF ClientOK
<1> QED
  BY <1>1, <1>4, <1>14, Alone, Parts DEF Same

LEMMA ReplyStep ==
  ASSUME ServerInv, NEW c \in Clients, W!Reply(c)
  PROVE  ServerInv'
<1> DEFINE p == script[c]
           r == thread[c].req
           s == Scripts[r]
           n == thread[c].n
           u == [at |-> "reading", req |-> Nothing, n |-> 0]
           x == n - s.head
<1>1. thread[c].at = "wait" /\ p.exited /\ fate = "up"
  BY DEF W!Reply, W!At
<1>2. /\ p \in Processes /\ Flow(p, s, n) /\ IsRead(n, s) /\ r \in DOMAIN Scripts /\ s \in W!ScriptKinds
      /\ n \in Nat /\ r \notin W!Pages
  BY <1>1, Parts, ServerFacts DEF Scripted, ThreadOK, W!Pages
<1>3. CASE W!Unusable(s, n)
  <2>1. s.status # 0 \/ n < s.head \/ n = 0 \/ ~s.plain
    BY <1>3 DEF W!Unusable
  <2>2. s.status # 0 \/ ~s.plain \/ s.out = <<>> \/ Least(s) < s.head
    <3> SUFFICES ASSUME s.out # <<>>, n < s.head \/ n = 0
                 PROVE  Least(s) < s.head
      BY <2>1
    <3> HIDE DEF n, s
    <3>1. Least(s) <= n /\ Least(s) \in Nat \ {0} /\ s.head \in Nat
      BY <1>2, KindIs DEF IsRead
    <3> QED
      BY <1>2, <3>1
  <2>3. Doomed
    BY <1>2, <2>2 DEF Doomed
  <2> QED
    BY <1>3, <2>3, Dying DEF W!Reply
<1>4. CASE ~W!Unusable(s, n)
  <2>1. /\ conn' = W!Got(c, Append(conn[c].got, AnswerTo(c, x, x)))
        /\ thread' = [thread EXCEPT ![c] = u]
        /\ UNCHANGED <<script, file, started, fate>>
    BY <1>4 DEF W!Reply, W!Goes, W!Answer, AnswerTo
  <2>2. ThreadOK(u) /\ ~Busy(u) /\ Busy(thread[c]) /\ u.at # "sending"
    BY <1>1 DEF ThreadOK, Busy
  <2>3. r \in Requests /\ r # "file" /\ r # "/"
    BY <1>2 DEF Requests, W!Pages
  <2>4. x \in Int /\ x <= W!Sum(s.out) - s.head
        /\ (Len(s.out) = 1 /\ W!Sum(s.out) <= ReadSize => x = W!Sum(s.out) - s.head)
        /\ ~s.input /\ s.err <= PipeSize /\ W!Sum(s.out) <= PipeSize + ReadSize
    <3> HIDE DEF p, s, n
    <3>1. /\ p.todo.out = <<>> /\ p.todo.err = 0 /\ ~p.todo.input /\ p.piped \in 0 .. PipeSize /\ p.errors \in 0 .. PipeSize
          /\ W!Sum(p.todo.out) = 0 /\ s.head \in Nat /\ W!Sum(s.out) \in Nat /\ s.err \in Nat
      <4>1. W!IsDone(p) /\ p.todo \in W!ScriptKinds
        BY <1>1, <1>2, ProcessIs DEF Flow, p
      <4> QED
        BY <1>2, <4>1, ProcessIs, KindIs DEF W!IsDone
    <3>2. ~s.input /\ 0 + p.errors = s.err /\ p.piped + n + 0 = W!Sum(s.out)
      BY <1>2, <3>1 DEF Flow
    <3>3. n <= ReadSize
      BY <1>2, ServerFacts DEF IsRead
    <3>4. ASSUME Len(s.out) = 1, W!Sum(s.out) <= ReadSize
          PROVE  n = W!Sum(s.out)
      <4>1. s.out # <<>>
        BY <3>4, EmptySeq
      <4>2. W!Sum(s.out) = s.out[1] /\ s.out[1] \in Nat \ {0}
        BY <1>2, <3>4, <4>1, KindIs
      <4>3. n = Least(s)
        BY <1>2, <3>4, <4>1 DEF IsRead
      <4> QED
        BY <3>4, <4>2, <4>3, ServerFacts DEF Least
    <3>5. n \in Nat /\ PipeSize \in Nat /\ ReadSize \in Nat
      BY <1>2, ServerFacts
    <3>6. n <= W!Sum(s.out) /\ W!Sum(s.out) <= PipeSize + ReadSize /\ s.err <= PipeSize
      BY <3>1, <3>2, <3>3, <3>5
    <3> QED
      BY <3>1, <3>2, <3>4, <3>5, <3>6
  <2>5. AnswerOK(AnswerTo(c, x, x))
    BY <2>3, <2>4 DEF AnswerOK, AnswerTo
  <2> HIDE DEF u, x
  <2> QED
    BY <1>1, <2>1, <2>2, <2>3, <2>4, <2>5, Answering, Zenon
<1> QED
  BY <1>3, <1>4

LEMMA ScriptWritesStep ==
  ASSUME ServerInv, NEW c \in Clients, W!ScriptWrites(c), fate = "up"
  PROVE  ServerInv'
<1> DEFINE p == script[c]
           t == thread[c]
           s == Scripts[t.req]
           n == IF t.at = "wait" THEN t.n ELSE 0
           e == [p EXCEPT !.todo.err = @ - 1, !.errors = @ + 1]
           o == [p EXCEPT !.todo.out = Tail(@), !.piped = @ + p.todo.out[1]]
           q == IF p.todo.err > 0 THEN e ELSE o
<1>1. /\ p # Nothing /\ W!HasRoom(p) /\ script' = [script EXCEPT ![c] = q]
      /\ UNCHANGED <<conn, thread, file, started, fate>>
  BY DEF W!ScriptWrites
<1>2. p \in Processes
  BY <1>1, Parts DEF Scripted
<1> HIDE DEF p
<1>3. /\ p = [todo |-> p.todo, piped |-> p.piped, errors |-> p.errors, exited |-> p.exited]
      /\ p.todo \in W!ScriptKinds /\ p.piped \in 0 .. PipeSize /\ p.errors \in 0 .. PipeSize
      /\ p.exited \in BOOLEAN /\ PipeSize \in Nat
  BY <1>2, ProcessIs, ServerFacts
<1> DEFINE d == p.todo
<1>4. /\ d = [input |-> d.input, err |-> d.err, out |-> d.out, head |-> d.head, plain |-> d.plain, status |-> d.status]
      /\ d.input \in BOOLEAN /\ d.err \in Nat /\ d.out \in Seq(Nat \ {0})
  BY <1>3, KindIs
<1>5. q \in Processes /\ (Flow(p, s, n) => Flow(q, s, n)) /\ (s \in W!ScriptKinds /\ Unread(p, s) => Unread(q, s))
  <2>1. CASE d.err > 0
    <3> DEFINE f == [d EXCEPT !.err = @ - 1]
    <3>1. q = [todo |-> f, piped |-> p.piped, errors |-> p.errors + 1, exited |-> p.exited]
      BY <1>3, <2>1
    <3>2. f = [input |-> d.input, err |-> d.err - 1, out |-> d.out, head |-> d.head, plain |-> d.plain, status |-> d.status]
      BY <1>4
    <3>3. p.errors + 1 \in 0 .. PipeSize
      BY <1>1, <1>3, <2>1 DEF W!HasRoom
    <3>4. f \in W!ScriptKinds
      BY <1>3, <1>4, <2>1, <3>2 DEF W!ScriptKinds
    <3>5. /\ q.todo = f /\ q.piped = p.piped /\ q.errors = p.errors + 1 /\ q.exited = p.exited
          /\ f.out = d.out /\ f.err = d.err - 1 /\ f.input = d.input
      BY <3>1, <3>2
    <3>6. q \in Processes
      BY <1>3, <3>1, <3>3, <3>4 DEF Processes
    <3> HIDE DEF q, f
    <3>7. Flow(p, s, n) => Flow(q, s, n)
      <4> SUFFICES ASSUME Flow(p, s, n)
                   PROVE  Flow(q, s, n)
        OBVIOUS
      <4>1. ~p.exited
        BY <2>1 DEF Flow, W!IsDone
      <4>2. d.err + p.errors = s.err
        BY DEF Flow
      <4>3. (d.err - 1) + (p.errors + 1) = s.err
        <5>1. d.err \in Int /\ p.errors \in Int
          BY <1>3, <1>4
        <5> QED
          BY <4>2, <5>1
      <4> QED
        BY <3>5, <4>1, <4>3 DEF Flow
    <3>8. Unread(p, s) => Unread(q, s)
      BY <3>5 DEF Unread
    <3> QED
      BY <3>6, <3>7, <3>8
  <2>2. CASE ~(d.err > 0)
    <3> DEFINE f == [d EXCEPT !.out = Tail(@)]
               x == d.out[1]
    <3>1. q = [todo |-> f, piped |-> p.piped + x, errors |-> p.errors, exited |-> p.exited]
      BY <1>3, <2>2
    <3>2. f = [input |-> d.input, err |-> d.err, out |-> Tail(d.out), head |-> d.head, plain |-> d.plain, status |-> d.status]
      BY <1>3, KindIs, Zenon
    <3>3. d.out # <<>> /\ p.piped + x <= PipeSize /\ ~d.input
      BY <1>1, <2>2 DEF W!HasRoom
    <3>4. /\ x \in Nat \ {0} /\ Tail(d.out) \in Seq(Nat \ {0}) /\ W!Sum(d.out) = x + W!Sum(Tail(d.out))
          /\ W!Sum(Tail(d.out)) \in Nat /\ (Len(d.out) = 1 => Tail(d.out) = <<>>)
      BY <1>3, <3>3, KindIs
    <3>5. f \in W!ScriptKinds
      BY <1>3, <3>2, <3>4 DEF W!ScriptKinds
    <3>6. p.piped + x \in 0 .. PipeSize /\ p.piped \in Nat
      BY <1>3, <3>3, <3>4
    <3>7. q \in Processes
      BY <1>3, <3>1, <3>5, <3>6 DEF Processes
    <3>8. /\ q.todo = f /\ q.piped = p.piped + x /\ q.errors = p.errors /\ q.exited = p.exited
          /\ f.out = Tail(d.out) /\ f.err = d.err /\ f.input = d.input
      BY <3>1, <3>2
    <3> HIDE DEF q, f, x
    <3>9. Flow(p, s, n) => Flow(q, s, n)
      <4> SUFFICES ASSUME Flow(p, s, n)
                   PROVE  Flow(q, s, n)
        OBVIOUS
      <4>1. ~p.exited
        BY <3>3 DEF Flow, W!IsDone
      <4>2. p.piped + n + W!Sum(d.out) = W!Sum(s.out)
        BY DEF Flow
      <4>3. n \in Nat
        BY Parts DEF ThreadOK
      <4> HIDE DEF n
      <4>4. (p.piped + x) + n + W!Sum(Tail(d.out)) = W!Sum(s.out)
        BY <3>4, <3>6, <4>2, <4>3
      <4> QED
        BY <3>8, <4>1, <4>4 DEF Flow
    <3>10. s \in W!ScriptKinds /\ Unread(p, s) => Unread(q, s)
      <4> SUFFICES ASSUME s \in W!ScriptKinds, Unread(p, s)
                   PROVE  Unread(q, s)
        OBVIOUS
      <4>1. CASE d.out = s.out /\ p.piped = 0
        <5>1. s.out # <<>> /\ p.piped + x = s.out[1] /\ (Len(s.out) = 1 => Tail(d.out) = <<>>)
          BY <3>3, <3>4, <4>1 DEF x
        <5> QED
          BY <3>4, <3>6, <3>8, <4>1, <5>1 DEF Unread
      <4>2. CASE s.out # <<>> /\ p.piped >= s.out[1] /\ (Len(s.out) = 1 => p.piped = s.out[1] /\ d.out = <<>>)
        <5>1. Len(s.out) # 1
          BY <3>3, <4>2
        <5>2. p.piped + x >= s.out[1]
          <6>1. ASSUME NEW y, p.piped >= y, y \in Int
                PROVE  p.piped + x >= y
            BY <3>4, <3>6, <6>1
          <6>2. s.out[1] \in Int
            BY <4>2, KindIs
          <6> QED
            BY <4>2, <6>1, <6>2
        <5> QED
          BY <3>8, <4>2, <5>1, <5>2 DEF Unread
      <4> QED
        BY <4>1, <4>2 DEF Unread
    <3> QED
      BY <3>7, <3>9, <3>10
  <2> QED
    BY <2>1, <2>2
<1> HIDE DEF q, s, n
<1>6. Scripted(q, t)
  <2>1. t.at = "output" => Flow(p, s, 0) /\ Unread(p, s) /\ n = 0 /\ s \in W!ScriptKinds
    BY Parts, ServerFacts DEF Scripted, p, s, n, ThreadOK, W!Pages
  <2>2. t.at = "wait" => Flow(p, s, t.n) /\ IsRead(t.n, s) /\ n = t.n
    BY Parts DEF Scripted, p, s, n
  <2> QED
    BY <1>5, <2>1, <2>2 DEF Scripted, s
<1>7. ClientOK(conn[c], t, q, file)
  BY <1>6, Parts DEF ClientOK
<1> QED
  BY <1>1, <1>7, Alone, Parts DEF Same

LEMMA ScriptExitsStep ==
  ASSUME ServerInv, NEW c \in Clients, W!ScriptExits(c), fate = "up"
  PROVE  ServerInv'
<1> DEFINE p == script[c]
           q == [p EXCEPT !.exited = TRUE]
<1>1. /\ p # Nothing /\ W!IsDone(p) /\ script' = [script EXCEPT ![c] = q]
      /\ UNCHANGED <<conn, thread, file, started, fate>>
  BY DEF W!ScriptExits
<1>2. p \in Processes
  BY <1>1, Parts DEF Scripted
<1>3. q = [todo |-> p.todo, piped |-> p.piped, errors |-> p.errors, exited |-> TRUE]
  BY <1>2, ProcessBecomes, Zenon
<1>4. q \in Processes
  BY <1>2, <1>3, ProcessIs DEF Processes
<1>5. q.todo = p.todo /\ q.piped = p.piped /\ q.errors = p.errors
  BY <1>3
<1> HIDE DEF q
<1>6. Scripted(q, thread[c])
  BY <1>1, <1>4, <1>5, Parts DEF Scripted, Flow, Unread, W!IsDone
<1>7. ClientOK(conn[c], thread[c], q, file)
  BY <1>6, Parts DEF ClientOK
<1> QED
  BY <1>1, <1>7, Alone, Parts DEF Same

LEMMA LeaveStep ==
  ASSUME ServerInv, NEW c \in Clients, W!Leave(c)
  PROVE  ServerInv'
<1> DEFINE k == conn[c]
           t == thread[c]
           q == [k EXCEPT !.here = FALSE]
<1>1. conn' = [conn EXCEPT ![c] = q] /\ UNCHANGED <<thread, script, file, started, fate>> /\ fate = "up"
  BY DEF W!Leave
<1>2. q = [asked |-> k.asked, todo |-> k.todo, here |-> FALSE, got |-> k.got]
  BY Parts, ConnIs
<1>3. q \in Conns
  BY <1>2, Parts, ConnIs DEF Conns
<1>4. q.asked = k.asked /\ q.todo = k.todo /\ ~q.here /\ q.got = k.got
  BY <1>2
<1> HIDE DEF q
<1>5. Ordered(q, t)
  BY <1>4, Parts DEF Ordered, OrderedAfter
<1>6. Truthful(q, t, file) /\ Sends(q, t, file)
  BY <1>4, Parts DEF Truthful, Complete, Sends
<1>7. ClientOK(q, t, script[c], file)
  BY <1>3, <1>5, <1>6, Parts DEF ClientOK
<1> QED
  BY <1>1, <1>7, Alone, Parts DEF Same

LEMMA FileStep ==
  ASSUME ServerInv, W!FileChanges
  PROVE  ServerInv'
<1>1. UNCHANGED <<conn, thread, script, started>> /\ ~file.changed /\ fate' = "up"
  BY DEF W!FileChanges
<1>2. PICK n \in FileSizes : file' = [size |-> n, changed |-> n # file.size]
  BY DEF W!FileChanges
<1>3. file' \in FileStates /\ (file'.changed \/ file'.size = file.size)
  BY <1>2, ServerFacts DEF FileStates
<1>4. ASSUME NEW c \in Clients
      PROVE  ClientOK(conn[c], thread[c], script[c], file')
  <2>1. Truthful(conn[c], thread[c], file')
    BY <1>1, Parts DEF Truthful
  <2>2. Sends(conn[c], thread[c], file')
    BY <1>1, <1>3, Parts DEF Sends
  <2> QED
    BY <2>1, <2>2, Parts DEF ClientOK
<1> QED
  BY <1>1, <1>3, <1>4 DEF ServerInv

LEMMA ServerStart ==
  W!Init => ServerInv
<1> SUFFICES ASSUME W!Init
             PROVE  ServerInv
  OBVIOUS
<1> DEFINE first(w) == [asked |-> w, todo |-> w, here |-> TRUE, got |-> <<>>]
           t == [at |-> "none", req |-> Nothing, n |-> 0]
<1>1. /\ conn \in [Clients -> {first(w) : w \in Wanted}] /\ started = 0 /\ fate = "up"
      /\ thread = [c \in Clients |-> t] /\ script = [c \in Clients |-> Nothing]
      /\ file \in FileStates
  BY ServerFacts DEF W!Init, FileStates
<1>2. ThreadOK(t) /\ ~Busy(t) /\ t.at = "none"
  BY DEF ThreadOK, Busy
<1> HIDE DEF t
<1>3. ASSUME NEW w \in Wanted
      PROVE  ClientOK(first(w), t, Nothing, file)
  <2> DEFINE k == first(w)
  <2>1. w \in Seq(Requests) /\ Len(w) \in Nat
    BY ServerFacts, LenProperties
  <2>2. k.asked = w /\ k.todo = w /\ k.got = <<>> /\ Len(k.got) = 0
    OBVIOUS
  <2>3. k \in Conns
    BY <2>1 DEF Conns
  <2> HIDE DEF first
  <2>4. \A i \in 1 .. Len(w) : w[0 + i] = w[i]
    BY <2>1
  <2>5. OrderedAfter(k, t, 0)
    <3>1. Len(w) = 0 + Len(w) /\ (k.here => 0 = 0) /\ 0 <= 0 /\ \A i \in 1 .. 0 : FALSE
      BY <2>1
    <3> QED
      BY <1>2, <2>2, <2>4, <3>1 DEF OrderedAfter
  <2>6. Ordered(k, t)
    BY <2>1, <2>2, <2>5 DEF Ordered
  <2>7. Sends(k, t, file) /\ Truthful(k, t, file)
    BY <1>2, <2>2 DEF Sends, Truthful
  <2>8. Scripted(Nothing, t)
    BY <1>2 DEF Scripted
  <2> QED
    BY <1>2, <2>3, <2>6, <2>7, <2>8 DEF ClientOK
<1>4. \A c \in Clients : ClientOK(conn[c], thread[c], script[c], file)
  BY <1>1, <1>3
<1> QED
  BY <1>1, <1>4 DEF ServerInv

LEMMA ServerStep ==
  ASSUME ServerInv, [W!Next]_(W!webserver)
  PROVE  ServerInv'
<1>1. CASE UNCHANGED W!webserver
  <2>1. UNCHANGED <<conn, thread, script, file, started, fate>>
    BY <1>1 DEF W!webserver
  <2> QED
    BY <2>1 DEF ServerInv, Doomed
<1>2. CASE W!FileChanges
  BY <1>2, FileStep
<1>3. ASSUME NEW c \in Clients, W!Serve(c)
      PROVE  ServerInv'
  BY <1>3, AcceptStep, ReadRequestStep, EndStep, ServeTextStep, ServeHeadStep, ServeChunkStep,
     SpawnStep, ReadOutputStep, ReplyStep DEF W!Serve
<1>4. ASSUME NEW c \in Clients, W!ScriptRuns(c)
      PROVE  ServerInv'
  BY <1>4, ScriptWritesStep, ScriptExitsStep DEF W!ScriptRuns
<1> QED
  BY <1>1, <1>2, <1>3, <1>4, LeaveStep DEF W!Next, W!Waits

LEMMA AnswerIs ==
  ASSUME NEW a \in Answers
  PROVE  a.req \in Requests
BY DEF Answers

LEMMA ServerInvariant ==
  MachinesSpec => [](Chosen("web server") => ServerInv)
<1> DEFINE Inv == Chosen("web server") => ServerInv
<1>1. MachinesInit => Inv
  BY ServerStart DEF MachinesInit
<1>2. Inv /\ [MachinesNext]_machines => Inv'
  BY StepOfOne, ServerStep DEF Chosen
<1> QED
  BY <1>1, <1>2, PTL DEF MachinesSpec

(* The web server: each client gets the answers to its own requests, in    *)
(* their order and as long as they say, and what a script says at once is  *)
(* not cut off: for any clients, scripts and files.                        *)
THEOREM AnswersAreTheirs ==
  MachinesSpec => []AnswersMatch
<1>1. ServerInv => W!AnswersMatch
  <2> SUFFICES ASSUME ServerInv, NEW c \in Clients
               PROVE  LET got == conn[c].got
                          ended(k) == k < Len(got) \/ (conn[c].here /\ thread[c].at # "sending")
                      IN  /\ W!IsPrefix([k \in DOMAIN got |-> got[k].req], conn[c].asked)
                          /\ \A k \in DOMAIN got :
                               LET a == got[k]
                               IN  /\ a.body = a.says \/ a.req = "missing" \/ (a.req = "file" /\ (file.changed \/ ~ended(k)))
                                   /\ W!IsScript(a.req) =>
                                        LET s == Scripts[a.req]
                                            all == W!Sum(s.out) - s.head
                                        IN a.body <= all /\ (Len(s.out) = 1 /\ W!Sum(s.out) <= ReadSize => a.body = all)
    BY DEF W!AnswersMatch
  <2> DEFINE k == conn[c]
             reqs == [i \in DOMAIN k.got |-> k.got[i].req]
  <2>1. /\ k.asked \in Seq(Requests) /\ k.got \in Seq(Answers) /\ Len(k.got) \in Nat /\ Len(k.asked) \in Nat
        /\ DOMAIN k.got = 1 .. Len(k.got)
    BY Parts, ConnIs, LenProperties
  <2>4. \A i \in 1 .. Len(k.got) : k.got[i] \in Answers
    BY <2>1, ElementOfSeq, Zenon
  <2>2. W!IsPrefix(reqs, k.asked)
    <3>1. PICK n \in 0 .. Len(k.asked) : OrderedAfter(k, thread[c], n)
      BY Parts DEF Ordered
    <3>2. Len(k.got) <= Len(k.asked) /\ \A i \in 1 .. Len(k.got) : k.asked[i] = k.got[i].req
      <4>1. Len(k.got) <= n
        BY <3>1 DEF OrderedAfter
      <4>2. \A i \in 1 .. Len(k.got) : k.asked[i] = k.got[i].req
        BY <3>1 DEF OrderedAfter
      <4> QED
        BY <2>1, <4>1, <4>2
    <3>3. reqs \in Seq(Requests) /\ Len(reqs) = Len(k.got) /\ \A i \in 1 .. Len(k.got) : reqs[i] = k.got[i].req
      <4>1. \A i \in 1 .. Len(k.got) : k.got[i].req \in Requests
        BY <2>4, AnswerIs
      <4> QED
        BY <2>1, <4>1
    <3> HIDE DEF reqs, k
    <3> DEFINE N == Len(k.got)
    <3>4. SubSeq(reqs, 1, N) = [i \in 1 .. N |-> reqs[i]]
      BY <2>1, <3>3
    <3>5. SubSeq(k.asked, 1, N) = [i \in 1 .. N |-> k.asked[i]]
      BY <2>1, <3>2
    <3>6. SubSeq(reqs, 1, Len(reqs)) = SubSeq(k.asked, 1, Len(reqs))
      BY <3>2, <3>3, <3>4, <3>5
    <3> QED
      BY <3>2, <3>3, <3>6 DEF W!IsPrefix
  <2>3. ASSUME NEW i \in 1 .. Len(k.got)
        PROVE  LET a == k.got[i]
               IN  /\ a.body = a.says \/ a.req = "missing" \/ (a.req = "file" /\ (file.changed \/ ~Complete(k, thread[c], i)))
                   /\ W!IsScript(a.req) =>
                        LET s == Scripts[a.req]
                            all == W!Sum(s.out) - s.head
                        IN a.body <= all /\ (Len(s.out) = 1 /\ W!Sum(s.out) <= ReadSize => a.body = all)
    <3>1. AnswerOK(k.got[i]) /\ (k.got[i].req = "file" /\ ~file.changed /\ Complete(k, thread[c], i) => k.got[i].body = k.got[i].says)
      BY Parts DEF Truthful
    <3>2. k.got[i].req \in DOMAIN Scripts \/ k.got[i].req \in {"/", "missing", "file"}
      BY <2>4, AnswerIs DEF Requests, W!Pages
    <3> QED
      BY <3>1, <3>2 DEF AnswerOK, W!IsScript
  <2> QED
    BY <2>1, <2>2, <2>3 DEF Complete
<1> QED
  BY <1>1, ServerInvariant, PTL DEF AnswersMatch

(* The web server serves until a client goes away, a script does not end   *)
(* as it should or the descriptors are used up, and answers every script   *)
(* that says no more than one read and a pipe can hold.                    *)
THEOREM ServesOn ==
  MachinesSpec => []ServesUnlessProvoked
<1>1. ServerInv => W!ServesUnlessProvoked
  <2> SUFFICES ASSUME ServerInv
               PROVE  W!ServesUnlessProvoked
    OBVIOUS
  <2>1. ASSUME NEW c \in Clients, fate = "up", W!Stuck(c)
        PROVE  LET s == Scripts[thread[c].req] IN s.input \/ s.err > PipeSize \/ W!Sum(s.out) > PipeSize
    <3> DEFINE p == script[c]
               s == Scripts[thread[c].req]
               d == p.todo
               n == IF thread[c].at = "wait" THEN thread[c].n ELSE 0
    <3>1. /\ thread[c].at \in {"wait", "output"} /\ ~W!HasRoom(p) /\ ~W!IsDone(p)
      BY <2>1 DEF W!Stuck
    <3>2. p \in Processes /\ Flow(p, s, n) /\ n \in Nat /\ s \in W!ScriptKinds
      BY <3>1, Parts, ServerFacts DEF Scripted, ThreadOK, W!Pages
    <3> HIDE DEF p, s, n
    <3>3. /\ d.input = s.input /\ d.err + p.errors = s.err /\ p.piped + n + W!Sum(d.out) = W!Sum(s.out)
          /\ d \in W!ScriptKinds /\ d.err \in Nat /\ p.errors \in Nat /\ p.piped \in Nat /\ W!Sum(d.out) \in Nat
      BY <3>2, ProcessIs, KindIs, ServerFacts DEF Flow
    <3> SUFFICES ASSUME ~s.input
                 PROVE  s.err > PipeSize \/ W!Sum(s.out) > PipeSize
      BY DEF s
    <3>4. CASE d.err > 0
      <4>1. ~(p.errors < PipeSize)
        BY <3>1, <3>3, <3>4 DEF W!HasRoom
      <4> QED
        BY <3>3, <3>4, <4>1, ServerFacts
    <3>5. CASE ~(d.err > 0)
      <4>1. d.err = 0
        BY <3>3, <3>5
      <4>2. d.out # <<>> /\ ~(p.piped + d.out[1] <= PipeSize)
        BY <3>1, <3>3, <3>5, <4>1 DEF W!HasRoom, W!IsDone
      <4>3. W!Sum(d.out) = d.out[1] + W!Sum(Tail(d.out)) /\ W!Sum(Tail(d.out)) \in Nat /\ d.out[1] \in Nat
        BY <3>3, <4>2, KindIs
      <4>4. W!Sum(s.out) > PipeSize
        BY <3>2, <3>3, <4>2, <4>3, ServerFacts
      <4> QED
        BY <4>4
    <3> QED
      BY <3>4, <3>5
  <2>2. \/ fate = "up"
        \/ \E c \in Clients : ~conn[c].here
        \/ \E c \in Clients : W!IsScript(thread[c].req) /\
             LET s == Scripts[thread[c].req]
             IN s.status # 0 \/ ~s.plain \/ s.out = <<>> \/ W!Min({s.out[1], ReadSize}) < s.head
        \/ 2 * W!Cardinality(Clients) + 3 * (started + 2) > MaxFds
    <3>1. W!Cardinality(Clients) = Cardinality(Clients)
      BY DEF W!Cardinality, Cardinality
    <3>2. ASSUME NEW s \in W!ScriptKinds, s.out # <<>>
          PROVE  W!Min({s.out[1], ReadSize}) = Least(s)
      <4>1. s.out[1] \in Int /\ ReadSize \in Int
        BY <3>2, KindIs, ServerFacts
      <4> QED
        BY <4>1, LeastOfTwo DEF Least
    <3>3. CASE \E c \in Clients : thread[c].req \in DOMAIN Scripts /\
                 LET s == Scripts[thread[c].req]
                 IN s.status # 0 \/ ~s.plain \/ s.out = <<>> \/ Least(s) < s.head
      BY <3>2, <3>3, ServerFacts DEF W!IsScript
    <3> QED
      BY <3>1, <3>3 DEF ServerInv, Doomed
  <2>3. ASSUME NEW c \in Clients, NEW k \in DOMAIN conn[c].got, W!IsScript(conn[c].got[k].req)
        PROVE  LET s == Scripts[conn[c].got[k].req]
               IN ~s.input /\ s.err <= PipeSize /\ W!Sum(s.out) <= PipeSize + ReadSize
    <3>1. k \in 1 .. Len(conn[c].got)
      BY Parts, ConnIs, LenProperties
    <3>2. AnswerOK(conn[c].got[k])
      BY <3>1, Parts DEF Truthful
    <3> QED
      BY <2>3, <3>2 DEF AnswerOK, W!IsScript
  <2> QED
    BY <2>1, <2>2, <2>3 DEF W!ServesUnlessProvoked
<1> QED
  BY <1>1, ServerInvariant, PTL DEF ServesUnlessProvoked

-----------------------------------------------------------------------------
(***************************************************************************)
(* Battleship: for any board and ships, wherever they are placed and shot  *)
(* at, what is marked is true and the winner has sunk what the other had.  *)
(***************************************************************************)

ShipRecords == [x : Int, y : Int, dir : {0, 2, 4, 6}, hits : Nat, placed : BOOLEAN]
Knowledge == {B!EMPTY, B!MARK_MISS, B!MARK_HIT} \cup B!Fleet

Hull(q, k) == B!Lie(k, <<ships[q][k].x, ships[q][k].y>>, ships[q][k].dir)
Hulls(q) == [k \in B!Fleet |-> Hull(q, k)]
Placed(q) == {k \in B!Fleet : ships[q][k].placed}

Near(m, n) == m[1] - n[1] \in -1 .. 1 /\ m[2] - n[2] \in -1 .. 1

(* On board b are the ships P, in the cells of L, and no two touch.        *)
Tidy(b, P, L) ==
  /\ \A k \in P : L[k] \subseteq B!Cells
  /\ \A c \in B!Cells : \A k \in B!Fleet : b[c] = k <=> k \in P /\ c \in L[k]
  /\ \A k \in P : \A m \in L[k] : \A n \in B!Cells : Near(m, n) => b[n] \in {0, k}

GameTypes ==
  /\ game \in Games
  /\ ships \in [B!Players -> [B!Fleet -> ShipRecords]]
  /\ board \in [B!Players -> [B!Cells -> {0} \cup B!Fleet]]
  /\ shots \in [B!Players -> [B!Cells -> Knowledge]]
  /\ state \in {"arming", "placing", "placed", "playing", "finished"}
  /\ turn \in B!Players
  /\ "used" \in DOMAIN ai

Fields == \A q \in B!Players : Tidy(board[q], Placed(q), Hulls(q))

Stages ==
  /\ state \in {"arming", "placing", "placed"} =>
       \A p \in B!Players : /\ \A c \in B!Cells : shots[p][c] = B!EMPTY
                            /\ \A k \in B!Fleet : ships[p][k].hits = 0
  /\ state # "arming" => Placed(B!COMPUTER) = B!Fleet
  /\ state \in {"placed", "playing", "finished"} => Placed(B!PLAYER) = B!Fleet

(* The cells of ship k of player q that the other one has marked.          *)
Hits(q, k) == {c \in B!Cells : board[q][c] = k /\ shots[1 - q][c] # B!EMPTY}

Marked(q) ==
  /\ \A k \in B!Fleet : ships[q][k].hits = Cardinality(Hits(q, k))
  /\ \A c \in B!Cells :
       LET m == shots[1 - q][c]
           k == board[q][c]
       IN  /\ m = B!MARK_MISS => k = 0
           /\ m = B!MARK_HIT => k # 0 /\ ~B!Sunk(q, k)
           /\ m > 0 => k = m /\ B!Sunk(q, m)

Losing(p) == B!Afloat(p) = {} /\ B!Afloat(1 - p) # {}

GameInv ==
  /\ GameTypes /\ Fields /\ Stages
  /\ \A q \in B!Players : Marked(q)
  /\ state = "playing" /\ B!Decided => Losing(turn)
  /\ state = "finished" => winner \in B!Players /\ Losing(1 - winner)

-----------------------------------------------------------------------------
(* The board and the cells of a ship.                                      *)
LEMMA GameFacts ==
  ASSUME game \in Games
  PROVE  /\ game.w \in Nat /\ game.d \in Nat /\ game.mode \in {"regular", "blitz", "salvo"}
         /\ game.lengths \in Seq(Nat \ {0}) /\ Len(game.lengths) \in Nat
         /\ B!Fleet = 1 .. Len(game.lengths) /\ 1 \in B!Fleet
         /\ \A k \in B!Fleet : game.lengths[k] \in Nat \ {0}
         /\ \A M \in SUBSET B!Cells : Aim(M) \subseteq M
<1>1. /\ game.w \in Nat /\ game.d \in Nat /\ game.mode \in {"regular", "blitz", "salvo"}
      /\ game.lengths \in Seq(Nat \ {0}) /\ game.lengths # <<>>
      /\ \A M \in SUBSET B!Cells : Aim(M) \subseteq M
  BY GameAssumption DEF B!Settings, B!Cells
<1> DEFINE l == game.lengths
<1>2. l \in Seq(Nat \ {0}) /\ l # <<>>
  BY <1>1
<1> HIDE DEF l
<1>3. Len(l) \in Nat /\ DOMAIN l = 1 .. Len(l) /\ 1 \in 1 .. Len(l)
  BY <1>2
<1>4. \A k \in 1 .. Len(l) : l[k] \in Nat \ {0}
  BY <1>2
<1> QED
  BY <1>1, <1>3, <1>4 DEF l, B!Fleet

LEMMA CellsAre ==
  ASSUME game \in Games
  PROVE  /\ \A c \in B!Cells : c = <<c[1], c[2]>> /\ c[1] \in 0 .. game.w - 1 /\ c[2] \in 0 .. game.d - 1
         /\ \A x \in 0 .. game.w - 1 : \A y \in 0 .. game.d - 1 : <<x, y>> \in B!Cells
         /\ IsFiniteSet(B!Cells)
<1>1. IsFiniteSet(0 .. game.w - 1) /\ IsFiniteSet(0 .. game.d - 1)
  BY GameFacts, FS_Interval
<1>2. IsFiniteSet((0 .. game.w - 1) \X (0 .. game.d - 1))
  BY <1>1, FS_Product
<1> QED
  BY <1>2 DEF B!Cells, B!BoardOf

LEMMA Ahead ==
  ASSUME NEW c, c[1] \in Int, c[2] \in Int, NEW i \in Int
  PROVE  /\ B!shipxy(c, 0, i) = <<c[1] + i, c[2]>>
         /\ B!shipxy(c, 2, i) = <<c[1], c[2] + i>>
         /\ B!shipxy(c, 4, i) = <<c[1] - i, c[2]>>
         /\ B!shipxy(c, 6, i) = <<c[1], c[2] - i>>
<1>1. /\ B!xincr[1] = 1 /\ B!xincr[3] = 0 /\ B!xincr[5] = -1 /\ B!xincr[7] = 0
      /\ B!yincr[1] = 0 /\ B!yincr[3] = 1 /\ B!yincr[5] = 0 /\ B!yincr[7] = -1
  BY DEF B!xincr, B!yincr
<1>2. i * 1 = i /\ i * 0 = 0 /\ i * (-1) = -i
  OBVIOUS
<1> QED
  BY <1>1, <1>2 DEF B!shipxy

LEMMA Neighbours ==
  ASSUME NEW c, c[1] \in Int, c[2] \in Int, NEW m, m = <<m[1], m[2]>>, m[1] \in Int, m[2] \in Int,
         Near(m, c), m # <<c[1], c[2]>>
  PROVE  \E dir \in 0 .. 7 : m = B!shipxy(c, dir, 1)
<1>1. /\ B!xincr[1] = 1 /\ B!xincr[2] = 1 /\ B!xincr[3] = 0 /\ B!xincr[4] = -1
      /\ B!xincr[5] = -1 /\ B!xincr[6] = -1 /\ B!xincr[7] = 0 /\ B!xincr[8] = 1
      /\ B!yincr[1] = 0 /\ B!yincr[2] = 1 /\ B!yincr[3] = 1 /\ B!yincr[4] = 1
      /\ B!yincr[5] = 0 /\ B!yincr[6] = -1 /\ B!yincr[7] = -1 /\ B!yincr[8] = -1
  BY DEF B!xincr, B!yincr
<1>2. /\ B!shipxy(c, 0, 1) = <<c[1] + 1, c[2]>> /\ B!shipxy(c, 1, 1) = <<c[1] + 1, c[2] + 1>>
      /\ B!shipxy(c, 2, 1) = <<c[1], c[2] + 1>> /\ B!shipxy(c, 3, 1) = <<c[1] - 1, c[2] + 1>>
      /\ B!shipxy(c, 4, 1) = <<c[1] - 1, c[2]>> /\ B!shipxy(c, 5, 1) = <<c[1] - 1, c[2] - 1>>
      /\ B!shipxy(c, 6, 1) = <<c[1], c[2] - 1>> /\ B!shipxy(c, 7, 1) = <<c[1] + 1, c[2] - 1>>
  BY <1>1 DEF B!shipxy
<1>3. m[1] - c[1] \in {-1, 0, 1} /\ m[2] - c[2] \in {-1, 0, 1}
  BY DEF Near
<1>4. m[1] \in {c[1] - 1, c[1], c[1] + 1} /\ m[2] \in {c[2] - 1, c[2], c[2] + 1}
  BY <1>3
<1>5. \/ m = <<c[1] + 1, c[2]>> \/ m = <<c[1] + 1, c[2] + 1>> \/ m = <<c[1], c[2] + 1>>
      \/ m = <<c[1] - 1, c[2] + 1>> \/ m = <<c[1] - 1, c[2]>> \/ m = <<c[1] - 1, c[2] - 1>>
      \/ m = <<c[1], c[2] - 1>> \/ m = <<c[1] + 1, c[2] - 1>>
  BY <1>4
<1> QED
  BY <1>2, <1>5

(* Around a cell where no collision is found there is no ship.             *)
LEMMA AllClear ==
  ASSUME game \in Games, NEW b, NEW c \in B!Cells, ~B!HasCollision(b, c),
         NEW m \in B!Cells, Near(m, c)
  PROVE  b[m] = 0
<1>1. /\ m = <<m[1], m[2]>> /\ m[1] \in Int /\ m[2] \in Int
      /\ c = <<c[1], c[2]>> /\ c[1] \in Int /\ c[2] \in Int
  BY CellsAre, GameFacts
<1>2. CASE m = <<c[1], c[2]>>
  BY <1>1, <1>2 DEF B!HasCollision
<1>3. CASE m # <<c[1], c[2]>>
  <2>1. PICK dir \in 0 .. 7 : m = B!shipxy(c, dir, 1)
    BY <1>1, <1>3, Neighbours
  <2> QED
    BY <2>1 DEF B!HasCollision
<1> QED
  BY <1>2, <1>3

(* A ship that begins and ends on the board lies on it, and has as many    *)
(* cells as it is long.                                                    *)
LEMMA LieIs ==
  ASSUME game \in Games, NEW k \in B!Fleet, NEW c, c[1] \in Int, c[2] \in Int, NEW dir \in {0, 2, 4, 6}
  PROVE  /\ IsFiniteSet(B!Lie(k, c, dir)) /\ Cardinality(B!Lie(k, c, dir)) = game.lengths[k]
         /\ c \in B!Cells /\ B!shipxy(c, dir, game.lengths[k] - 1) \in B!Cells => B!Lie(k, c, dir) \subseteq B!Cells
<1> DEFINE l == game.lengths[k]
           M == B!Lie(k, c, dir)
           f == [i \in 0 .. l - 1 |-> B!shipxy(c, dir, i)]
<1>1. l \in Nat \ {0}
  BY GameFacts
<1>2. M = {f[i] : i \in 0 .. l - 1}
  BY DEF B!Lie
<1>3. \A i \in Int : \/ dir = 0 /\ B!shipxy(c, dir, i) = <<c[1] + i, c[2]>>
                     \/ dir = 2 /\ B!shipxy(c, dir, i) = <<c[1], c[2] + i>>
                     \/ dir = 4 /\ B!shipxy(c, dir, i) = <<c[1] - i, c[2]>>
                     \/ dir = 6 /\ B!shipxy(c, dir, i) = <<c[1], c[2] - i>>
  BY Ahead
<1> HIDE DEF l
<1>4. \A i, j \in 0 .. l - 1 : f[i] = f[j] => i = j
  <2> SUFFICES ASSUME NEW i \in 0 .. l - 1, NEW j \in 0 .. l - 1, B!shipxy(c, dir, i) = B!shipxy(c, dir, j)
               PROVE  i = j
    OBVIOUS
  <2>1. i \in Int /\ j \in Int
    BY <1>1
  <2> QED
    BY <1>3, <2>1
<1>5. IsFiniteSet(M) /\ Cardinality(M) = l
  <2>1. IsFiniteSet(0 .. l - 1) /\ Cardinality(0 .. l - 1) = l
    BY <1>1, FS_Interval
  <2>2. f \in Bijection(0 .. l - 1, M)
    <3> DEFINE N == 0 .. l - 1
    <3>1. f \in [N -> M] /\ (\A x \in M : \E i \in N : f[i] = x) /\ (\A i, j \in N : f[i] = f[j] => i = j)
      BY <1>2, <1>4
    <3> HIDE DEF f, M, N
    <3> QED
      BY <3>1 DEF Bijection, Injection, Surjection, IsInjective, N
  <2>3. ExistsBijection(0 .. l - 1, M)
    BY <2>2 DEF ExistsBijection
  <2> QED
    BY <2>1, <2>3, FS_Bijection
<1>6. ASSUME c \in B!Cells, B!shipxy(c, dir, l - 1) \in B!Cells, NEW i \in 0 .. l - 1
      PROVE  B!shipxy(c, dir, i) \in B!Cells
  <2> DEFINE m == B!shipxy(c, dir, i)
             n == B!shipxy(c, dir, l - 1)
  <2>1. /\ c[1] \in 0 .. game.w - 1 /\ c[2] \in 0 .. game.d - 1
        /\ n[1] \in 0 .. game.w - 1 /\ n[2] \in 0 .. game.d - 1 /\ game.w \in Nat /\ game.d \in Nat
    BY <1>6, CellsAre, GameFacts
  <2>2. l - 1 \in Int /\ i \in Int /\ 0 <= i /\ i <= l - 1
    BY <1>1
  <2>3. \/ m = <<c[1] + i, c[2]>> /\ n = <<c[1] + (l - 1), c[2]>>
        \/ m = <<c[1], c[2] + i>> /\ n = <<c[1], c[2] + (l - 1)>>
        \/ m = <<c[1] - i, c[2]>> /\ n = <<c[1] - (l - 1), c[2]>>
        \/ m = <<c[1], c[2] - i>> /\ n = <<c[1], c[2] - (l - 1)>>
    BY <1>3, <2>2
  <2> HIDE DEF m, n
  <2>4. m = <<m[1], m[2]>> /\ m[1] \in 0 .. game.w - 1 /\ m[2] \in 0 .. game.d - 1
    BY <2>1, <2>2, <2>3
  <2>5. m \in B!Cells
    BY <2>4, CellsAre
  <2> QED
    BY <2>5 DEF m
<1>7. c \in B!Cells /\ B!shipxy(c, dir, l - 1) \in B!Cells => M \subseteq B!Cells
  BY <1>2, <1>6
<1> QED
  BY <1>5, <1>7 DEF l

(* What is around a ship is near to one of its cells.                      *)
LEMMA AroundIsNear ==
  ASSUME game \in Games, NEW q, NEW k \in B!Fleet, ships[q][k] \in ShipRecords, NEW n \in B!Around(q, k)
  PROVE  n \in B!Cells /\ \E m \in Hull(q, k) : Near(m, n)
<1> DEFINE s == ships[q][k]
           l == game.lengths[k]
           c == <<s.x, s.y>>
           side == (s.dir + 2) % 8
<1>1. l \in Nat \ {0} /\ s.x \in Int /\ s.y \in Int /\ s.dir \in {0, 2, 4, 6} /\ c[1] = s.x /\ c[2] = s.y
  BY GameFacts DEF ShipRecords
<1>2. PICK i \in -1 .. l, j \in -1 .. 1 : n = B!shipxy(B!shipxy(c, side, j), s.dir, i)
  BY DEF B!Around
<1>3. n \in B!Cells
  BY DEF B!Around
<1> DEFINE h == IF i < 0 THEN 0 ELSE IF i > l - 1 THEN l - 1 ELSE i
           m == B!shipxy(c, s.dir, h)
<1>4. h \in 0 .. l - 1 /\ h \in Int /\ i \in Int /\ j \in Int /\ h - i \in -1 .. 1 /\ i - h \in -1 .. 1 /\ j \in -1 .. 1 /\ -j \in -1 .. 1
  BY <1>1
<1>5. m \in Hull(q, k)
  BY <1>4 DEF Hull, B!Lie
<1> DEFINE a == B!shipxy(c, side, j)
<1> HIDE DEF h, l
<1>6. a[1] \in Int /\ a[2] \in Int /\
      \/ s.dir = 0 /\ a[1] = c[1] /\ a[2] = c[2] + j
      \/ s.dir = 2 /\ a[1] = c[1] - j /\ a[2] = c[2]
      \/ s.dir = 4 /\ a[1] = c[1] /\ a[2] = c[2] - j
      \/ s.dir = 6 /\ a[1] = c[1] + j /\ a[2] = c[2]
  <2> HIDE DEF c
  <2>1. /\ B!shipxy(c, 0, j) = <<c[1] + j, c[2]>> /\ B!shipxy(c, 2, j) = <<c[1], c[2] + j>>
        /\ B!shipxy(c, 4, j) = <<c[1] - j, c[2]>> /\ B!shipxy(c, 6, j) = <<c[1], c[2] - j>>
    BY <1>1, <1>4, Ahead
  <2>2. CASE s.dir = 0
    <3>1. side = 2
      BY <2>2
    <3> QED
      BY <1>1, <1>4, <2>1, <2>2, <3>1
  <2>3. CASE s.dir = 2
    <3>1. side = 4
      BY <2>3
    <3> QED
      BY <1>1, <1>4, <2>1, <2>3, <3>1
  <2>4. CASE s.dir = 4
    <3>1. side = 6
      BY <2>4
    <3> QED
      BY <1>1, <1>4, <2>1, <2>4, <3>1
  <2>5. CASE s.dir = 6
    <3>1. side = 0
      BY <2>5
    <3> QED
      BY <1>1, <1>4, <2>1, <2>5, <3>1
  <2> QED
    BY <1>1, <2>2, <2>3, <2>4, <2>5
<1>9. c[1] \in Int /\ c[2] \in Int
  BY <1>1
<1> HIDE DEF a, c, side
<1>7. \/ s.dir = 0 /\ n = <<a[1] + i, a[2]>> /\ m = <<c[1] + h, c[2]>>
      \/ s.dir = 2 /\ n = <<a[1], a[2] + i>> /\ m = <<c[1], c[2] + h>>
      \/ s.dir = 4 /\ n = <<a[1] - i, a[2]>> /\ m = <<c[1] - h, c[2]>>
      \/ s.dir = 6 /\ n = <<a[1], a[2] - i>> /\ m = <<c[1], c[2] - h>>
  <2>1. /\ B!shipxy(c, 0, h) = <<c[1] + h, c[2]>> /\ B!shipxy(c, 2, h) = <<c[1], c[2] + h>>
        /\ B!shipxy(c, 4, h) = <<c[1] - h, c[2]>> /\ B!shipxy(c, 6, h) = <<c[1], c[2] - h>>
    BY <1>4, <1>9, Ahead
  <2>2. /\ B!shipxy(a, 0, i) = <<a[1] + i, a[2]>> /\ B!shipxy(a, 2, i) = <<a[1], a[2] + i>>
        /\ B!shipxy(a, 4, i) = <<a[1] - i, a[2]>> /\ B!shipxy(a, 6, i) = <<a[1], a[2] - i>>
    BY <1>4, <1>6, Ahead
  <2>3. n = B!shipxy(a, s.dir, i)
    BY <1>2 DEF a
  <2> QED
    BY <1>1, <2>1, <2>2, <2>3
<1> HIDE DEF m, s
<1>8. m[1] - n[1] \in -1 .. 1 /\ m[2] - n[2] \in -1 .. 1
  <2> DEFINE x == c[1]
             y == c[2]
             u == a[1]
             v == a[2]
  <2>1. x \in Int /\ y \in Int /\ u \in Int /\ v \in Int
    BY <1>6, <1>9
  <2>2. \/ u = x /\ v = y + j /\ n[1] = u + i /\ n[2] = v /\ m[1] = x + h /\ m[2] = y
        \/ u = x - j /\ v = y /\ n[1] = u /\ n[2] = v + i /\ m[1] = x /\ m[2] = y + h
        \/ u = x /\ v = y - j /\ n[1] = u - i /\ n[2] = v /\ m[1] = x - h /\ m[2] = y
        \/ u = x + j /\ v = y /\ n[1] = u /\ n[2] = v - i /\ m[1] = x /\ m[2] = y - h
    BY <1>6, <1>7
  <2> HIDE DEF x, y, u, v
  <2> QED
    BY <1>4, <2>1, <2>2
<1> QED
  BY <1>3, <1>5, <1>8 DEF Near

-----------------------------------------------------------------------------
(* Placing the ships.                                                      *)
Boards == [B!Cells -> {0} \cup B!Fleet]

(* One more ship, away from the others.                                    *)
LEMMA ShipAdded ==
  ASSUME game \in Games, NEW b \in Boards, NEW P \in SUBSET B!Fleet, NEW L, Tidy(b, P, L),
         NEW k \in B!Fleet, k \notin P, NEW C \in SUBSET B!Cells,
         \A m \in C : \A n \in B!Cells : Near(n, m) => b[n] = 0,
         L[k] = C
  PROVE  LET e == [c \in B!Cells |-> IF c \in C THEN k ELSE b[c]]
         IN e \in Boards /\ Tidy(e, P \cup {k}, L)
<1> DEFINE e == [c \in B!Cells |-> IF c \in C THEN k ELSE b[c]]
<1>1. e \in Boards
  BY DEF Boards
<1>2. k # 0 /\ 0 \notin B!Fleet
  BY GameFacts
<1>3. \A m, n \in B!Cells : Near(m, n) <=> Near(n, m)
  <2> SUFFICES ASSUME NEW m \in B!Cells, NEW n \in B!Cells
               PROVE  Near(m, n) <=> Near(n, m)
    OBVIOUS
  <2>1. m[1] \in Int /\ m[2] \in Int /\ n[1] \in Int /\ n[2] \in Int
    BY CellsAre, GameFacts
  <2> DEFINE x == m[1] - n[1]
             y == m[2] - n[2]
  <2>2. x \in Int /\ y \in Int /\ n[1] - m[1] = -x /\ n[2] - m[2] = -y
    BY <2>1
  <2> HIDE DEF x, y
  <2>3. (x \in -1 .. 1 <=> -x \in -1 .. 1) /\ (y \in -1 .. 1 <=> -y \in -1 .. 1)
    BY <2>2
  <2> QED
    BY <2>2, <2>3 DEF Near, x, y
<1>4. \A m \in B!Cells : Near(m, m)
  <2> SUFFICES ASSUME NEW m \in B!Cells
               PROVE  Near(m, m)
    OBVIOUS
  <2>1. m[1] \in Int /\ m[2] \in Int
    BY CellsAre, GameFacts
  <2> QED
    BY <2>1 DEF Near
<1>5. \A m \in C : m \in B!Cells /\ b[m] = 0 /\ e[m] = k
  BY <1>4
<1>6. \A m \in B!Cells \ C : e[m] = b[m]
  OBVIOUS
<1> HIDE DEF e
<1>7. \A j \in P \cup {k} : L[j] \subseteq B!Cells
  BY DEF Tidy
<1>8. ASSUME NEW c \in B!Cells, NEW j \in B!Fleet
      PROVE  e[c] = j <=> j \in P \cup {k} /\ c \in L[j]
  <2>1. b[c] = j <=> j \in P /\ c \in L[j]
    BY DEF Tidy
  <2>2. CASE c \in C
    BY <1>2, <1>5, <2>1, <2>2
  <2>3. CASE c \notin C
    BY <1>6, <2>1, <2>3
  <2> QED
    BY <2>2, <2>3
<1>9. ASSUME NEW j \in P \cup {k}, NEW m \in L[j], NEW n \in B!Cells, Near(m, n)
      PROVE  e[n] \in {0, j}
  <2>1. m \in B!Cells /\ Near(n, m)
    BY <1>3, <1>7, <1>9
  <2>2. CASE j = k
    BY <1>5, <1>6, <2>1, <2>2
  <2>3. CASE j \in P
    <3>1. b[n] \in {0, j} /\ b[m] = j /\ j # 0
      BY <1>2, <1>9, <2>1, <2>3 DEF Tidy
    <3>2. n \notin C
      BY <1>9, <2>1, <3>1
    <3> QED
      BY <1>6, <3>1, <3>2
  <2> QED
    BY <2>2, <2>3
<1>10. Tidy(e, P \cup {k}, L)
  BY <1>7, <1>8, <1>9 DEF Tidy
<1> QED
  BY <1>1, <1>10 DEF e

LEMMA FitsClear ==
  ASSUME game \in Games, NEW b, NEW k \in B!Fleet, NEW c \in B!Cells, NEW dir \in {0, 2, 4, 6},
         B!Fits(b, k, c, dir)
  PROVE  /\ B!Lie(k, c, dir) \in SUBSET B!Cells
         /\ \A m \in B!Lie(k, c, dir) : \A n \in B!Cells : Near(n, m) => b[n] = 0
<1>1. c[1] \in Int /\ c[2] \in Int
  BY CellsAre, GameFacts
<1>2. B!Lie(k, c, dir) \subseteq B!Cells
  BY <1>1, LieIs DEF B!Fits
<1> QED
  BY <1>2, AllClear DEF B!Fits

LEMMA SpotIs ==
  ASSUME game \in Games, NEW k \in B!Fleet, NEW s \in B!RandomSpots(k)
  PROVE  /\ s[1] \in B!Cells /\ s[2] \in {0, 2, 4, 6}
         /\ s[1] = <<s[1][1], s[1][2]>> /\ s[1][1] \in Int /\ s[1][2] \in Int
<1>1. game.lengths[k] \in Nat \ {0} /\ game.w \in Nat /\ game.d \in Nat
  BY GameFacts
<1>2. \/ \E x \in 0 .. game.w - game.lengths[k] - 1, y \in 0 .. game.d - 1 : s = <<<<x, y>>, 0>>
      \/ \E x \in 0 .. game.w - 1, y \in 0 .. game.d - game.lengths[k] - 1 : s = <<<<x, y>>, 2>>
  BY DEF B!RandomSpots, B!E, B!S
<1>3. \E x \in 0 .. game.w - 1, y \in 0 .. game.d - 1, d \in {0, 2, 4, 6} : s = <<<<x, y>>, d>>
  BY <1>1, <1>2
<1>4. s[1] \in B!Cells /\ s[2] \in {0, 2, 4, 6}
  BY <1>3, CellsAre
<1> QED
  BY <1>1, <1>4, CellsAre

(* The boards of placeall, with one ship more on each than on the last.    *)
Laying(spot, M, b) ==
  LET Upto[n \in 0 .. Len(game.lengths)] ==
        IF n = 0 THEN b
        ELSE IF n \notin M THEN Upto[n - 1]
        ELSE [c \in B!Cells |-> IF c \in B!Lie(n, spot[n][1], spot[n][2]) THEN n ELSE Upto[n - 1][c]]
  IN Upto

IsLaying(U, spot, M, b) ==
  /\ U[0] = b
  /\ \A n \in 0 .. Len(game.lengths) : U[n] \in Boards
  /\ \A n \in 1 .. Len(game.lengths) :
       U[n] = IF n \notin M THEN U[n - 1]
              ELSE [c \in B!Cells |-> IF c \in B!Lie(n, spot[n][1], spot[n][2]) THEN n ELSE U[n - 1][c]]

LEMMA LayingIs ==
  ASSUME game \in Games, NEW spot, NEW M \in SUBSET B!Fleet, NEW b \in Boards
  PROVE  IsLaying(Laying(spot, M, b), spot, M, b)
<1> DEFINE N == Len(game.lengths)
           With(n, e) == IF n \notin M THEN e
                         ELSE [c \in B!Cells |-> IF c \in B!Lie(n, spot[n][1], spot[n][2]) THEN n ELSE e[c]]
           step == [n \in 1 .. N |-> [e \in Boards |-> With(n, e)]]
           Rec(g) == [n \in 0 .. N |-> IF n = 0 THEN b ELSE With(n, g[n - 1])]
           U == CHOOSE g : g = Rec(g)
<1>1. N \in Nat /\ B!Fleet = 1 .. N
  BY GameFacts
<1>2. Laying(spot, M, b) = U
  BY Zenon DEF Laying
<1>3. \A n \in 1 .. N : \A e \in Boards : With(n, e) \in Boards
  BY <1>1 DEF Boards
<1> HIDE DEF N, With
<1>4. step \in Steps(N, Boards)
  BY <1>3 DEF Steps
<1>5. \A n \in 1 .. N : \A e \in Boards : step[n][e] = With(n, e)
  OBVIOUS
<1> HIDE DEF step
<1>6. PICK g \in [0 .. N -> Boards] : g[0] = b /\ \A n \in 1 .. N : g[n] = step[n][g[n - 1]]
  <2>1. Recursions(N, Boards, b, step) # {}
    BY <1>1, <1>4, Recursion
  <2> QED
    BY <2>1 DEF Recursions
<1>7. g = Rec(g)
  <2>1. \A n \in 0 .. N : g[n] = IF n = 0 THEN b ELSE With(n, g[n - 1])
    <3> SUFFICES ASSUME NEW n \in 0 .. N, n # 0
                 PROVE  g[n] = With(n, g[n - 1])
      BY <1>6
    <3>1. n \in 1 .. N /\ n - 1 \in 0 .. N
      BY <1>1
    <3> QED
      BY <1>5, <1>6, <3>1
  <2>2. g = [n \in 0 .. N |-> g[n]]
    BY <1>6
  <2> QED
    BY <2>1, <2>2
<1>8. U = Rec(U)
  BY <1>7
<1>9. \A n \in 0 .. N : U[n] = IF n = 0 THEN b ELSE With(n, U[n - 1])
  BY <1>8
<1> HIDE DEF Rec, U
<1>10. \A n \in 0 .. N : U[n] \in Boards
  <2> DEFINE S == {m \in Nat : m <= N => U[m] \in Boards}
  <2>1. 0 \in S
    BY <1>1, <1>9
  <2>2. ASSUME NEW m \in Nat, m \in S
        PROVE  m + 1 \in S
    <3> SUFFICES ASSUME m + 1 <= N
                 PROVE  U[m + 1] \in Boards
      OBVIOUS
    <3>1. m + 1 \in 0 .. N /\ m + 1 # 0 /\ (m + 1) - 1 = m /\ m + 1 \in 1 .. N
      BY <1>1
    <3>2. U[m + 1] = With(m + 1, U[m])
      BY <1>9, <3>1
    <3>3. U[m] \in Boards
      BY <1>1, <2>2
    <3> QED
      BY <1>3, <3>1, <3>2, <3>3
  <2> HIDE DEF S
  <2>3. Nat \subseteq S
    BY <2>1, <2>2, SetInduction
  <2> QED
    BY <1>1, <2>3 DEF S
<1>11. U[0] = b /\ \A n \in 1 .. N : U[n] = With(n, U[n - 1])
  <2>1. 0 \in 0 .. N /\ \A n \in 1 .. N : n \in 0 .. N /\ n # 0
    BY <1>1
  <2> QED
    BY <1>9, <2>1
<1> QED
  BY <1>2, <1>10, <1>11 DEF N, With, IsLaying

(* Ships placed at random lie as those placed by hand do.                  *)
LEMMA AllLaid ==
  ASSUME GameTypes, NEW p \in B!Players, NEW spot, NEW L,
         Tidy(board[p], Placed(p), L),
         \A k \in B!Unplaced(p) :
            /\ spot[k] \in B!RandomSpots(k)
            /\ B!Fits(Laying(spot, B!Unplaced(p), board[p])[k - 1], k, spot[k][1], spot[k][2])
            /\ L[k] = B!Lie(k, spot[k][1], spot[k][2])
  PROVE  LET b == Laying(spot, B!Unplaced(p), board[p])[Len(game.lengths)]
         IN b \in Boards /\ Tidy(b, B!Fleet, L)
<1> DEFINE N == Len(game.lengths)
           M == B!Unplaced(p)
           U == Laying(spot, M, board[p])
           P(m) == Placed(p) \cup {k \in M : k <= m}
           S == {m \in Nat : m <= N => Tidy(U[m], P(m), L)}
<1>1. game \in Games /\ N \in Nat /\ B!Fleet = 1 .. N /\ board[p] \in Boards /\ M \in SUBSET B!Fleet
  BY GameFacts DEF GameTypes, Boards, B!Unplaced
<1>2. /\ U[0] = board[p]
      /\ \A n \in 0 .. N : U[n] \in Boards
      /\ \A n \in 1 .. N :
           U[n] = IF n \notin M THEN U[n - 1]
                  ELSE [c \in B!Cells |-> IF c \in B!Lie(n, spot[n][1], spot[n][2]) THEN n ELSE U[n - 1][c]]
  <2>1. IsLaying(U, spot, M, board[p])
    <3> HIDE DEF M
    <3> QED
      BY <1>1, LayingIs
  <2> QED
    BY <2>1 DEF IsLaying
<1>3. M \cap Placed(p) = {} /\ M \cup Placed(p) = B!Fleet
  BY DEF B!Unplaced, Placed
<1>4. \A k \in M : /\ spot[k] \in B!RandomSpots(k) /\ B!Fits(U[k - 1], k, spot[k][1], spot[k][2])
                   /\ L[k] = B!Lie(k, spot[k][1], spot[k][2])
  OBVIOUS
<1> HIDE DEF N, M, U
<1>5. 0 \in S
  <2>1. \A k \in M : ~(k <= 0)
    BY <1>1
  <2>2. P(0) = Placed(p)
    BY <2>1
  <2> QED
    BY <1>2, <2>2
<1>6. ASSUME NEW m \in Nat, m \in S
      PROVE  m + 1 \in S
  <2> DEFINE k == m + 1
  <2> SUFFICES ASSUME k <= N
               PROVE  Tidy(U[k], P(k), L)
    OBVIOUS
  <2>1. k \in 1 .. N /\ k \in B!Fleet /\ m \in 0 .. N /\ k - 1 = m /\ (k \in M => k \notin P(m))
        /\ (\A j \in B!Fleet : j <= k <=> j <= m \/ j = k) /\ U[m] \in Boards
    <3>1. k \in 1 .. N /\ k \in B!Fleet /\ m \in 0 .. N /\ k - 1 = m /\ ~(k <= m)
          /\ (\A j \in B!Fleet : j <= k <=> j <= m \/ j = k)
      BY <1>1
    <3>2. U[m] \in Boards
      BY <1>2, <3>1
    <3>3. CASE k \in M
      BY <1>3, <3>1, <3>2, <3>3
    <3>4. CASE k \notin M
      BY <1>3, <3>1, <3>2, <3>4
    <3> QED
      BY <3>3, <3>4
  <2>2. Tidy(U[m], P(m), L) /\ P(m) \in SUBSET B!Fleet
    BY <1>1, <1>3, <1>6, <2>1
  <2> HIDE DEF k
  <2>3. CASE k \notin M
    <3>1. P(k) = P(m)
      BY <1>1, <2>1, <2>3
    <3>2. U[k] = U[m]
      BY <1>2, <2>1, <2>3
    <3> QED
      BY <2>2, <3>1, <3>2
  <2>4. CASE k \in M
    <3> DEFINE c == spot[k][1]
               dir == spot[k][2]
               C == B!Lie(k, c, dir)
    <3>1. P(k) = P(m) \cup {k}
      BY <1>1, <2>1, <2>4
    <3>2. U[k] = [n \in B!Cells |-> IF n \in C THEN k ELSE U[m][n]]
      BY <1>2, <2>1, <2>4
    <3>3. c \in B!Cells /\ dir \in {0, 2, 4, 6}
      <4>1. k \in B!Fleet /\ spot[k] \in B!RandomSpots(k)
        BY <1>4, <2>1, <2>4
      <4> QED
        BY <1>1, <4>1, SpotIs
    <3>4. B!Fits(U[m], k, c, dir) /\ L[k] = C
      BY <1>4, <2>1, <2>4
    <3> HIDE DEF C, c, dir
    <3>5. C \in SUBSET B!Cells /\ \A n \in C : \A j \in B!Cells : Near(j, n) => U[m][j] = 0
      <4>1. k \in B!Fleet
        BY <2>1
      <4>2. game \in Games
        BY <1>1
      <4>3. c \in B!Cells
        BY <3>3
      <4>4. dir \in {0, 2, 4, 6}
        BY <3>3
      <4>5. B!Fits(U[m], k, c, dir)
        BY <3>4
      <4> QED
        BY <4>1, <4>2, <4>3, <4>4, <4>5, FitsClear DEF C
    <3>6. Tidy([n \in B!Cells |-> IF n \in C THEN k ELSE U[m][n]], P(m) \cup {k}, L)
      <4>1. k \in B!Fleet /\ k \notin P(m) /\ U[m] \in Boards /\ game \in Games
        BY <1>1, <2>1, <2>4
      <4>2. C \in SUBSET B!Cells
        BY <3>5
      <4>3. \A n \in C : \A j \in B!Cells : Near(j, n) => U[m][j] = 0
        BY <3>5
      <4>4. Tidy(U[m], P(m), L)
        BY <2>2
      <4>5. P(m) \in SUBSET B!Fleet
        BY <2>2
      <4>6. L[k] = C
        BY <3>4
      <4> HIDE DEF P
      <4> QED
        BY <4>1, <4>2, <4>3, <4>4, <4>5, <4>6, ShipAdded, Zenon
    <3> QED
      BY <3>1, <3>2, <3>6
  <2> QED
    BY <2>3, <2>4 DEF k
<1> HIDE DEF S
<1>7. Nat \subseteq S
  BY <1>5, <1>6, SetInduction
<1>8. P(N) = B!Fleet
  BY <1>1, <1>3
<1>9. Tidy(U[N], P(N), L) /\ U[N] \in Boards
  <2>1. N \in S /\ N <= N /\ N \in 0 .. N
    BY <1>1, <1>7
  <2> QED
    BY <1>2, <2>1 DEF S
<1> QED
  BY <1>8, <1>9 DEF U, N, M

LEMMA FieldsAfter ==
  ASSUME game' = game, \A q \in B!Players : Tidy(board'[q], Placed(q)', Hulls(q)')
  PROVE  Fields'
<1>1. B!Cells' = B!Cells /\ B!Fleet' = B!Fleet
  BY DEF B!Cells, B!BoardOf, B!Fleet
<1> QED
  BY <1>1 DEF Fields, Tidy, B!Players

LEMMA HullsAre ==
  ASSUME game' = game, NEW q
  PROVE  /\ Hulls(q)' = [k \in B!Fleet |-> B!Lie(k, <<ships'[q][k].x, ships'[q][k].y>>, ships'[q][k].dir)]
         /\ Hulls(q) = [k \in B!Fleet |-> B!Lie(k, <<ships[q][k].x, ships[q][k].y>>, ships[q][k].dir)]
         /\ Placed(q)' = {k \in B!Fleet : ships'[q][k].placed}
BY DEF Hulls, Hull, Placed, B!Lie, B!Fleet, B!shipxy, B!xincr, B!yincr

LEMMA TidySame ==
  ASSUME NEW b, NEW P, NEW L, NEW K, Tidy(b, P, L), \A k \in P : K[k] = L[k]
  PROVE  Tidy(b, P, K)
BY DEF Tidy

(* A field that nothing is placed on.                                      *)
LEMMA FieldSame ==
  ASSUME Fields, game' = game, NEW q \in B!Players, board'[q] = board[q], ships'[q] = ships[q]
  PROVE  Tidy(board'[q], Placed(q)', Hulls(q)')
<1>1. Placed(q)' = Placed(q) /\ Hulls(q)' = Hulls(q)
  <2>1. Placed(q)' = {k \in B!Fleet : ships'[q][k].placed}
    BY HullsAre, Zenon
  <2>2. Placed(q)' = Placed(q)
    BY <2>1, Zenon DEF Placed
  <2>3. Hulls(q)' = [k \in B!Fleet |-> B!Lie(k, <<ships[q][k].x, ships[q][k].y>>, ships[q][k].dir)]
    BY HullsAre
  <2>4. Hulls(q) = [k \in B!Fleet |-> B!Lie(k, <<ships[q][k].x, ships[q][k].y>>, ships[q][k].dir)]
    BY HullsAre, Zenon
  <2> QED
    BY <2>2, <2>3, <2>4
<1> QED
  BY <1>1 DEF Fields

LEMMA PlaceAllKeeps ==
  ASSUME GameTypes, Fields, NEW p \in B!Players, B!PlaceAll(p), game' = game
  PROVE  /\ ships' \in [B!Players -> [B!Fleet -> ShipRecords]]
         /\ board' \in [B!Players -> Boards]
         /\ Fields' /\ Placed(p)' = B!Fleet
         /\ \A q \in B!Players : /\ q # p => ships'[q] = ships[q]
                                 /\ \A k \in B!Fleet : ships'[q][k].hits = ships[q][k].hits
<1> DEFINE M == B!Unplaced(p)
<1>1. PICK spot : LET U == Laying(spot, M, board[p])
                  IN  /\ \A k \in M : /\ spot[k] \in B!RandomSpots(k)
                                      /\ B!Fits(U[k - 1], k, spot[k][1], spot[k][2])
                      /\ board' = [board EXCEPT ![p] = U[Len(game.lengths)]]
                      /\ ships' = [ships EXCEPT ![p] = [k \in B!Fleet |->
                           IF k \in M
                             THEN [ships[p][k] EXCEPT !.x = spot[k][1][1], !.y = spot[k][1][2], !.dir = spot[k][2],
                                                      !.placed = TRUE]
                             ELSE ships[p][k]]]
  BY Zenon DEF B!PlaceAll, Laying
<1> DEFINE U == Laying(spot, M, board[p])
           b == U[Len(game.lengths)]
           now == [k \in B!Fleet |->
                     IF k \in M
                       THEN [ships[p][k] EXCEPT !.x = spot[k][1][1], !.y = spot[k][1][2], !.dir = spot[k][2],
                                                !.placed = TRUE]
                       ELSE ships[p][k]]
           L == [k \in B!Fleet |-> IF k \in M THEN B!Lie(k, spot[k][1], spot[k][2]) ELSE Hull(p, k)]
<1>2. board' = [board EXCEPT ![p] = b] /\ ships' = [ships EXCEPT ![p] = now]
  BY <1>1
<1>3. game \in Games /\ M \subseteq B!Fleet /\ M \cap Placed(p) = {} /\ M \cup Placed(p) = B!Fleet
  BY DEF GameTypes, B!Unplaced, Placed
<1>4. \A k \in M : /\ spot[k][1] = <<spot[k][1][1], spot[k][1][2]>> /\ spot[k][1][1] \in Int /\ spot[k][1][2] \in Int
                   /\ spot[k][2] \in {0, 2, 4, 6}
  BY <1>1, <1>3, SpotIs
<1>5. /\ \A k \in M : k \in B!Fleet /\ now[k] \in ShipRecords /\ now[k].x = spot[k][1][1] /\ now[k].y = spot[k][1][2]
                       /\ now[k].dir = spot[k][2] /\ now[k].placed /\ now[k].hits = ships[p][k].hits
      /\ \A k \in B!Fleet \ M : now[k] = ships[p][k] /\ now[k] \in ShipRecords /\ now[k].placed
  <2>1. \A k \in B!Fleet : ships[p][k] \in ShipRecords
    BY DEF GameTypes
  <2>2. ASSUME NEW k \in M
        PROVE  k \in B!Fleet /\ now[k] \in ShipRecords /\ now[k].x = spot[k][1][1] /\ now[k].y = spot[k][1][2]
               /\ now[k].dir = spot[k][2] /\ now[k].placed /\ now[k].hits = ships[p][k].hits
    <3>1. k \in B!Fleet /\ ships[p][k] \in ShipRecords
      BY <1>3, <2>1
    <3>2. now[k] = [ships[p][k] EXCEPT !.x = spot[k][1][1], !.y = spot[k][1][2], !.dir = spot[k][2], !.placed = TRUE]
      BY <3>1
    <3>3. spot[k][1][1] \in Int /\ spot[k][1][2] \in Int /\ spot[k][2] \in {0, 2, 4, 6} /\ TRUE \in BOOLEAN
      BY <1>4
    <3> HIDE DEF now
    <3>4. /\ now[k] \in ShipRecords
          /\ now[k].x = spot[k][1][1] /\ now[k].y = spot[k][1][2] /\ now[k].dir = spot[k][2] /\ now[k].placed = TRUE
          /\ now[k].hits = ships[p][k].hits
      <4> DEFINE x == spot[k][1][1]
                 y == spot[k][1][2]
                 d == spot[k][2]
                 s == ships[p][k]
                 e == now[k]
      <4>1. s \in ShipRecords /\ x \in Int /\ y \in Int /\ d \in {0, 2, 4, 6} /\ TRUE \in BOOLEAN
        BY <3>1, <3>3
      <4>2. e = [s EXCEPT !.x = x, !.y = y, !.dir = d, !.placed = TRUE]
        BY <3>2
      <4> HIDE DEF x, y, d, s, e
      <4>3. e \in ShipRecords /\ e.x = x /\ e.y = y /\ e.dir = d /\ e.placed = TRUE /\ e.hits = s.hits
        BY <4>1, <4>2 DEF ShipRecords
      <4> QED
        BY <4>3 DEF x, y, d, s, e
    <3> QED
      BY <3>1, <3>4
  <2>3. \A k \in B!Fleet \ M : now[k] = ships[p][k] /\ ships[p][k].placed
    BY DEF B!Unplaced
  <2> QED
    BY <2>1, <2>2, <2>3
<1>6. Tidy(board[p], Placed(p), L)
  <2>1. \A k \in Placed(p) : L[k] = Hulls(p)[k]
    BY <1>3 DEF Hulls
  <2> QED
    BY <2>1, TidySame DEF Fields
<1>7. b \in Boards /\ Tidy(b, B!Fleet, L)
  <2>1. \A k \in M : /\ spot[k] \in B!RandomSpots(k)
                     /\ B!Fits(Laying(spot, B!Unplaced(p), board[p])[k - 1], k, spot[k][1], spot[k][2])
                     /\ L[k] = B!Lie(k, spot[k][1], spot[k][2])
    BY <1>1, <1>3
  <2> HIDE DEF L
  <2> QED
    BY <1>6, <2>1, AllLaid
<1> HIDE DEF b, now
<1>8. /\ ships' \in [B!Players -> [B!Fleet -> ShipRecords]] /\ board' \in [B!Players -> Boards]
      /\ ships'[p] = now /\ board'[p] = b
      /\ \A q \in B!Players : q # p => ships'[q] = ships[q] /\ board'[q] = board[q]
  <2>1. now \in [B!Fleet -> ShipRecords]
    <3>1. now = [k \in B!Fleet |-> now[k]]
      BY DEF now
    <3> QED
      BY <1>5, <3>1
  <2>2. ships \in [B!Players -> [B!Fleet -> ShipRecords]] /\ board \in [B!Players -> Boards]
    BY DEF GameTypes, Boards
  <2> HIDE DEF M
  <2> QED
    BY <1>2, <1>7, <2>1, <2>2
<1>9. Placed(p)' = B!Fleet /\ Hulls(p)' = L
  <2>1. Placed(p)' = B!Fleet
    <3>1. \A k \in B!Fleet : now[k].placed
      BY <1>5, Zenon
    <3>2. Placed(p)' = {k \in B!Fleet : now[k].placed}
      BY <1>8, HullsAre
    <3> QED
      BY <3>1, <3>2, Zenon
  <2>2. \A k \in B!Fleet : B!Lie(k, <<now[k].x, now[k].y>>, now[k].dir) = L[k]
    BY <1>4, <1>5 DEF Hull
  <2>3. Hulls(p)' = [k \in B!Fleet |-> B!Lie(k, <<now[k].x, now[k].y>>, now[k].dir)]
    BY <1>8, HullsAre
  <2> QED
    BY <2>1, <2>2, <2>3
<1>10. Fields'
  <2>1. Tidy(board'[p], Placed(p)', Hulls(p)')
    BY <1>7, <1>8, <1>9
  <2>2. \A q \in B!Players : q # p => Tidy(board'[q], Placed(q)', Hulls(q)')
    BY <1>8, FieldSame
  <2> QED
    BY <2>1, <2>2, FieldsAfter
<1> QED
  BY <1>5, <1>8, <1>9, <1>10

(* Placing ships changes nothing of what is known.                         *)
LEMMA StillFresh ==
  ASSUME GameInv, UNCHANGED <<game, shots, turn, ai>>,
         state \in {"arming", "placing"}, state' \in {"placing", "placed"},
         ships' \in [B!Players -> [B!Fleet -> ShipRecords]], board' \in [B!Players -> Boards], Fields',
         \A q \in B!Players : \A k \in B!Fleet : ships'[q][k].hits = ships[q][k].hits,
         Placed(B!COMPUTER)' = B!Fleet, state' = "placed" => Placed(B!PLAYER)' = B!Fleet
  PROVE  GameInv'
<1>1. B!Cells' = B!Cells /\ B!Fleet' = B!Fleet /\ Knowledge' = Knowledge
  BY DEF B!Cells, B!BoardOf, B!Fleet, Knowledge
<1>2. \A p \in B!Players : /\ \A c \in B!Cells : shots[p][c] = B!EMPTY
                           /\ \A k \in B!Fleet : ships[p][k].hits = 0
  BY DEF GameInv, Stages
<1>3. GameTypes'
  BY <1>1 DEF GameInv, GameTypes, Boards, B!Players
<1>4. Stages'
  BY <1>1, <1>2 DEF Stages, B!Players, B!COMPUTER, B!PLAYER, B!EMPTY
<1>5. ASSUME NEW q \in B!Players
      PROVE  Marked(q)'
  <2>1. 1 - q \in B!Players
    BY DEF B!Players, B!PLAYER, B!COMPUTER
  <2>2. \A k \in B!Fleet : Hits(q, k)' = {}
    BY <1>1, <1>2, <2>1 DEF Hits, B!EMPTY
  <2>3. \A k \in B!Fleet : ships'[q][k].hits = Cardinality(Hits(q, k)')
    <3>1. \A k \in B!Fleet : ships'[q][k].hits = 0
      BY <1>2
    <3>2. Cardinality({}) = 0
      BY FS_EmptySet
    <3> QED
      BY <2>2, <3>1, <3>2, Zenon
  <2>4. \A c \in B!Cells : shots'[1 - q][c] = 0
    BY <1>2, <2>1 DEF B!EMPTY
  <2> QED
    BY <1>1, <2>3, <2>4 DEF Marked, B!MARK_MISS, B!MARK_HIT
<1> QED
  BY <1>3, <1>4, <1>5 DEF GameInv, B!Players

-----------------------------------------------------------------------------
(* The steps of placing and of beginning anew.                             *)
IsNew ==
  /\ game \in Games /\ turn \in B!Players /\ state = "arming"
  /\ ships = B!Reset(game).ships /\ board = B!Reset(game).water /\ shots = B!Reset(game).water
  /\ ai = B!Reset(game).ai

LEMMA Anew ==
  IsNew => GameInv
<1> SUFFICES ASSUME IsNew
             PROVE  GameInv
  OBVIOUS
<1>1. game \in Games /\ B!Fleet = 1 .. Len(game.lengths) /\ Len(game.lengths) \in Nat
  BY GameFacts DEF IsNew
<1>2. 0 \notin B!Fleet /\ B!Players = {0, 1}
  BY <1>1 DEF B!Players, B!PLAYER, B!COMPUTER
<1>3. /\ ships = [p \in B!Players |-> [k \in B!Fleet |-> [x |-> 0, y |-> 0, dir |-> 0, hits |-> 0, placed |-> FALSE]]]
      /\ board = [p \in B!Players |-> [c \in B!Cells |-> 0]]
      /\ shots = [p \in B!Players |-> [c \in B!Cells |-> 0]]
      /\ "used" \in DOMAIN ai
  BY DEF IsNew, B!Reset, B!Fleet, B!Cells, B!E, B!EMPTY
<1>4. \A p \in B!Players : /\ \A c \in B!Cells : board[p][c] = 0 /\ shots[p][c] = 0
                           /\ \A k \in B!Fleet : ships[p][k] = [x |-> 0, y |-> 0, dir |-> 0, hits |-> 0, placed |-> FALSE]
  BY <1>3
<1>5. GameTypes
  <2>1. [x |-> 0, y |-> 0, dir |-> 0, hits |-> 0, placed |-> FALSE] \in ShipRecords
    BY DEF ShipRecords
  <2>2. ships \in [B!Players -> [B!Fleet -> ShipRecords]]
    BY <1>3, <2>1
  <2> QED
    BY <1>1, <1>3, <2>2 DEF GameTypes, IsNew, Knowledge, B!EMPTY
<1>6. \A p \in B!Players : Placed(p) = {} /\ \A k \in B!Fleet : ships[p][k].hits = 0
  BY <1>4 DEF Placed
<1>7. Fields
  BY <1>2, <1>4, <1>6 DEF Fields, Tidy
<1>8. Stages
  BY <1>4, <1>6 DEF Stages, IsNew, B!EMPTY
<1>9. ASSUME NEW q \in B!Players
      PROVE  Marked(q)
  <2>1. 1 - q \in B!Players
    BY <1>2
  <2>2. \A k \in B!Fleet : Hits(q, k) = {}
    BY <1>4, <2>1 DEF Hits, B!EMPTY
  <2>3. Cardinality({}) = 0
    BY FS_EmptySet
  <2>4. \A k \in B!Fleet : ships[q][k].hits = Cardinality(Hits(q, k))
    BY <1>6, <2>2, <2>3
  <2> QED
    BY <1>4, <2>1, <2>4 DEF Marked, B!MARK_MISS, B!MARK_HIT
<1> QED
  BY <1>5, <1>7, <1>8, <1>9 DEF GameInv, IsNew

LEMMA PlayAgainStep ==
  ASSUME GameInv, B!PlayAgain
  PROVE  GameInv'
<1>1. IsNew'
  BY DEF B!PlayAgain, IsNew, GameInv, GameTypes, B!Players
<1> QED
  BY <1>1, Anew, PTL

LEMMA ArmStep ==
  ASSUME GameInv, B!ArmComputer
  PROVE  GameInv'
<1>1. /\ state = "arming" /\ state' = "placing" /\ B!PlaceAll(1) /\ UNCHANGED <<game, shots, turn, ai>>
      /\ 1 \in B!Players /\ GameTypes /\ Fields
  BY DEF GameInv, B!ArmComputer, B!COMPUTER, B!Players
<1> QED
  BY <1>1, PlaceAllKeeps, StillFresh DEF B!COMPUTER

LEMMA RestStep ==
  ASSUME GameInv, B!PlaceRest
  PROVE  GameInv'
<1>1. /\ state = "placing" /\ state' = "placed" /\ B!PlaceAll(0) /\ UNCHANGED <<game, shots, turn, ai>>
      /\ 0 \in B!Players /\ 1 \in B!Players /\ GameTypes /\ Fields
  BY DEF GameInv, B!PlaceRest, B!PLAYER, B!COMPUTER, B!Players
<1>2. ships'[1] = ships[1] /\ Placed(0)' = B!Fleet
  BY <1>1, PlaceAllKeeps
<1>3. Placed(1)' = B!Fleet
  <2>1. Placed(1) = B!Fleet
    BY <1>1 DEF GameInv, Stages, B!COMPUTER
  <2>2. Placed(1)' = {k \in B!Fleet : ships'[1][k].placed}
    BY <1>1, HullsAre, Zenon
  <2>3. Placed(1)' = Placed(1)
    BY <1>2, <2>2, Zenon DEF Placed
  <2> QED
    BY <2>1, <2>3
<1> QED
  BY <1>1, <1>2, <1>3, PlaceAllKeeps, StillFresh DEF B!COMPUTER, B!PLAYER

LEMMA PlaceStep ==
  ASSUME GameInv, NEW k \in B!Fleet, NEW c, NEW dir \in {0, 2, 4, 6}, B!PlaceShip(k, c, dir)
  PROVE  GameInv'
<1> DEFINE fits == B!Fits(board[0], k, c, dir)
           s == ships[0][k]
           e == [s EXCEPT !.x = c[1], !.y = c[2], !.dir = dir, !.placed = fits]
           now == [ships[0] EXCEPT ![k] = e]
           b == IF fits THEN [n \in B!Cells |-> IF n \in B!Lie(k, c, dir) THEN k ELSE board[0][n]] ELSE board[0]
           P == IF fits THEN Placed(0) \cup {k} ELSE Placed(0)
<1>1. /\ state = "placing" /\ state' = "placing" /\ UNCHANGED <<game, shots, turn, ai>>
      /\ c \in B!Cells /\ 0 \in B!Players /\ 1 \in B!Players /\ B!Players = {0, 1}
      /\ ~s.placed /\ game \in Games /\ fits \in BOOLEAN
  BY DEF GameInv, GameTypes, B!PlaceShip, B!PLAYER, B!COMPUTER, B!Players, B!Unplaced, B!Fits
<1>2. /\ ships \in [B!Players -> [B!Fleet -> ShipRecords]] /\ board \in [B!Players -> Boards] /\ s \in ShipRecords
      /\ board[0] \in Boards /\ Tidy(board[0], Placed(0), Hulls(0)) /\ Fields
  BY <1>1 DEF GameInv, GameTypes, Fields, Boards
<1>3. c = <<c[1], c[2]>> /\ c[1] \in Int /\ c[2] \in Int
  BY <1>1, CellsAre, GameFacts
<1>4. e \in ShipRecords /\ e.x = c[1] /\ e.y = c[2] /\ e.dir = dir /\ e.placed = fits /\ e.hits = s.hits
  <2> DEFINE x == c[1]
             y == c[2]
  <2>1. x \in Int /\ y \in Int
    BY <1>3
  <2>2. fits \in BOOLEAN /\ s \in ShipRecords
    BY <1>1, <1>2
  <2>3. e = [s EXCEPT !.x = x, !.y = y, !.dir = dir, !.placed = fits]
    OBVIOUS
  <2> HIDE DEF fits, s, x, y, e
  <2>4. e \in ShipRecords /\ e.x = x /\ e.y = y /\ e.dir = dir /\ e.placed = fits /\ e.hits = s.hits
    BY <2>1, <2>2, <2>3 DEF ShipRecords
  <2> QED
    BY <2>4 DEF x, y
<1>5. ships' = [ships EXCEPT ![0] = now]
  <2>1. ships' = [ships EXCEPT ![0][k].x = c[1], ![0][k].y = c[2], ![0][k].dir = dir, ![0][k].placed = fits]
    BY DEF B!PlaceShip, B!PLAYER
  <2> HIDE DEF fits
  <2> QED
    BY <1>1, <1>2, <2>1
<1>6. board' = [board EXCEPT ![0] = b]
  <2>1. CASE fits
    BY <2>1 DEF B!PlaceShip, B!PLAYER
  <2>2. CASE ~fits
    <3>1. board' = board
      BY <2>2 DEF B!PlaceShip, B!PLAYER
    <3> QED
      BY <1>1, <1>2, <2>2, <3>1
  <2> QED
    BY <2>1, <2>2
<1> HIDE DEF fits, e
<1>7. /\ now \in [B!Fleet -> ShipRecords] /\ now[k] = e /\ \A j \in B!Fleet \ {k} : now[j] = ships[0][j]
  BY <1>1, <1>2, <1>4
<1> DEFINE L == [j \in B!Fleet |-> B!Lie(j, <<now[j].x, now[j].y>>, now[j].dir)]
<1> HIDE DEF now
<1>8. L[k] = B!Lie(k, c, dir) /\ \A j \in B!Fleet \ {k} : L[j] = Hulls(0)[j]
  <2>1. L[k] = B!Lie(k, c, dir)
    BY <1>3, <1>4, <1>7
  <2>2. \A j \in B!Fleet \ {k} : L[j] = Hulls(0)[j]
    BY <1>7 DEF Hulls, Hull
  <2> QED
    BY <2>1, <2>2
<1> HIDE DEF L
<1>9. k \notin Placed(0) /\ Placed(0) \in SUBSET B!Fleet
  BY <1>1 DEF Placed
<1>10. Tidy(board[0], Placed(0), L)
  BY <1>2, <1>8, <1>9, TidySame
<1>11. b \in Boards /\ Tidy(b, P, L)
  <2>1. CASE fits
    <3> DEFINE C == B!Lie(k, c, dir)
    <3>1. C \in SUBSET B!Cells /\ \A m \in C : \A n \in B!Cells : Near(n, m) => board[0][n] = 0
      BY <1>1, <2>1, FitsClear DEF fits
    <3>2. L[k] = C /\ b = [n \in B!Cells |-> IF n \in C THEN k ELSE board[0][n]]
      BY <1>8, <2>1
    <3>3. game \in Games /\ board[0] \in Boards /\ P = Placed(0) \cup {k}
      BY <1>1, <1>2, <2>1
    <3> DEFINE old == board[0]
               Q == Placed(0)
    <3>4. C \in SUBSET B!Cells
      BY <3>1
    <3>5. \A m \in C : \A n \in B!Cells : Near(n, m) => old[n] = 0
      BY <3>1
    <3>6. game \in Games /\ old \in Boards /\ Q \in SUBSET B!Fleet /\ k \notin Q /\ Tidy(old, Q, L) /\ L[k] = C
      BY <1>9, <1>10, <3>2, <3>3
    <3>7. P = Q \cup {k} /\ b = [n \in B!Cells |-> IF n \in C THEN k ELSE old[n]]
      BY <3>2, <3>3
    <3> HIDE DEF C, b, old, Q, P
    <3>8. b \in Boards /\ Tidy(b, Q \cup {k}, L)
      BY <3>4, <3>5, <3>6, <3>7, ShipAdded
    <3> QED
      BY <3>7, <3>8
  <2>2. CASE ~fits
    BY <1>2, <1>10, <2>2
  <2> QED
    BY <2>1, <2>2
<1> HIDE DEF b
<1>12. /\ ships' \in [B!Players -> [B!Fleet -> ShipRecords]] /\ board' \in [B!Players -> Boards]
       /\ ships'[0] = now /\ ships'[1] = ships[1] /\ board'[0] = b /\ board'[1] = board[1]
  BY <1>1, <1>2, <1>5, <1>6, <1>7, <1>11
<1>13. Placed(0)' = P /\ Hulls(0)' = L
  <2>1. Hulls(0)' = L
    BY <1>1, <1>12, HullsAre DEF L
  <2>2. Placed(0)' = {j \in B!Fleet : now[j].placed}
    BY <1>1, <1>12, HullsAre
  <2>3. \A j \in B!Fleet \ {k} : now[j].placed <=> ships[0][j].placed
    BY <1>7
  <2>4. now[k].placed <=> fits
    BY <1>4, <1>7
  <2>5. \A j \in B!Fleet : now[j].placed <=> j \in P
    BY <1>9, <2>3, <2>4 DEF Placed
  <2>6. P \subseteq B!Fleet
    BY <1>9
  <2> HIDE DEF P
  <2>7. {j \in B!Fleet : now[j].placed} = P
    BY <2>5, <2>6
  <2> QED
    BY <2>1, <2>2, <2>7
<1>14. Fields'
  <2>1. Tidy(board'[0], Placed(0)', Hulls(0)')
    BY <1>11, <1>12, <1>13
  <2>2. Tidy(board'[1], Placed(1)', Hulls(1)')
    BY <1>1, <1>2, <1>12, FieldSame
  <2> QED
    BY <1>1, <2>1, <2>2, FieldsAfter
<1>15. Placed(1)' = B!Fleet
  <2>1. Placed(1) = B!Fleet
    BY <1>1 DEF GameInv, Stages, B!COMPUTER
  <2>2. Placed(1)' = {j \in B!Fleet : ships'[1][j].placed}
    BY <1>1, HullsAre, Zenon
  <2>3. Placed(1)' = Placed(1)
    BY <1>12, <2>2, Zenon DEF Placed
  <2> QED
    BY <2>1, <2>3
<1>16. \A q \in B!Players : \A j \in B!Fleet : ships'[q][j].hits = ships[q][j].hits
  BY <1>1, <1>4, <1>7, <1>12
<1> QED
  BY <1>1, <1>12, <1>14, <1>15, <1>16, StillFresh DEF B!COMPUTER

-----------------------------------------------------------------------------
(* Shooting.                                                               *)
LEMMA HitsAre ==
  ASSUME GameTypes, Fields, NEW q \in B!Players, NEW k \in B!Fleet, Placed(q) = B!Fleet
  PROVE  /\ Hull(q, k) \subseteq B!Cells /\ \A c \in B!Cells : board[q][c] = k <=> c \in Hull(q, k)
         /\ Hits(q, k) \subseteq Hull(q, k) /\ IsFiniteSet(Hits(q, k)) /\ Cardinality(Hull(q, k)) = game.lengths[k]
         /\ Cardinality(Hits(q, k)) \in Nat /\ Cardinality(Hits(q, k)) <= game.lengths[k]
         /\ Cardinality(Hits(q, k)) = game.lengths[k] => Hits(q, k) = Hull(q, k)
         /\ \A n \in B!Around(q, k) : n \in B!Cells /\ board[q][n] \in {0, k}
<1>1. game \in Games /\ ships[q][k] \in ShipRecords /\ Hulls(q)[k] = Hull(q, k)
  BY DEF GameTypes, Hulls
<1>2. ships[q][k].x \in Int /\ ships[q][k].y \in Int /\ ships[q][k].dir \in {0, 2, 4, 6}
  BY <1>1 DEF ShipRecords
<1>3. IsFiniteSet(Hull(q, k)) /\ Cardinality(Hull(q, k)) = game.lengths[k]
  <2> DEFINE c == <<ships[q][k].x, ships[q][k].y>>
  <2>1. c[1] \in Int /\ c[2] \in Int
    BY <1>2
  <2> HIDE DEF c
  <2>2. IsFiniteSet(B!Lie(k, c, ships[q][k].dir)) /\ Cardinality(B!Lie(k, c, ships[q][k].dir)) = game.lengths[k]
    BY <1>1, <1>2, <2>1, LieIs
  <2> QED
    BY <2>2 DEF c, Hull
<1>4. Tidy(board[q], B!Fleet, Hulls(q))
  BY DEF Fields
<1>5. Hull(q, k) \subseteq B!Cells /\ \A c \in B!Cells : board[q][c] = k <=> c \in Hull(q, k)
  BY <1>1, <1>4 DEF Tidy
<1>6. Hits(q, k) \in SUBSET Hull(q, k)
  BY <1>5 DEF Hits
<1>7. /\ IsFiniteSet(Hits(q, k)) /\ Cardinality(Hits(q, k)) <= Cardinality(Hull(q, k))
      /\ Cardinality(Hull(q, k)) = Cardinality(Hits(q, k)) => Hull(q, k) = Hits(q, k)
  BY <1>3, <1>6, FS_Subset
<1>8. Cardinality(Hits(q, k)) \in Nat
  BY <1>7, FS_CardinalityType
<1>9. \A n \in B!Around(q, k) : n \in B!Cells /\ board[q][n] \in {0, k}
  <2> SUFFICES ASSUME NEW n \in B!Around(q, k)
               PROVE  n \in B!Cells /\ board[q][n] \in {0, k}
    OBVIOUS
  <2>1. n \in B!Cells /\ \E m \in Hull(q, k) : Near(m, n)
    BY <1>1, AroundIsNear
  <2> QED
    BY <1>1, <1>4, <2>1 DEF Tidy
<1> QED
  BY <1>3, <1>5, <1>6, <1>7, <1>8, <1>9

(* A shot of p at c changes the hits of the ship that is there.            *)
HitOnly(p, c) ==
  /\ ships' \in [B!Players -> [B!Fleet -> ShipRecords]]
  /\ \A r \in B!Players : \A j \in B!Fleet :
       /\ ships'[r][j].x = ships[r][j].x /\ ships'[r][j].y = ships[r][j].y
       /\ ships'[r][j].dir = ships[r][j].dir /\ ships'[r][j].placed = ships[r][j].placed
       /\ ships[r][j].hits \in Nat
       /\ ships'[r][j].hits = IF r = 1 - p /\ j = board[1 - p][c] THEN ships[r][j].hits + 1 ELSE ships[r][j].hits

LEMMA ShipsAfter ==
  ASSUME GameTypes, NEW p \in B!Players, NEW c \in B!Cells, B!Shoot(p, c)
  PROVE  HitOnly(p, c)
<1> DEFINE q == 1 - p
           k == board[q][c]
<1>1. /\ game \in Games /\ q \in B!Players /\ k \in {0} \cup B!Fleet /\ ships \in [B!Players -> [B!Fleet -> ShipRecords]]
      /\ 0 \notin B!Fleet
  <2>1. game \in Games /\ q \in B!Players
    BY DEF GameTypes, B!Players, B!PLAYER, B!COMPUTER
  <2> QED
    BY <2>1, GameFacts DEF GameTypes
<1>2. \A r \in B!Players : \A j \in B!Fleet : ships[r][j].hits \in Nat
  BY <1>1 DEF ShipRecords
<1> HIDE DEF q
<1>3. CASE k = 0
  <2>1. ships' = ships
    BY <1>3 DEF B!Shoot, B!Result, q
  <2> QED
    BY <1>1, <1>2, <1>3, <2>1 DEF q, HitOnly
<1>4. CASE k \in B!Fleet
  <2> DEFINE s == ships[q][k]
             e == [s EXCEPT !.hits = @ + 1]
  <2>1. ships' = [ships EXCEPT ![q][k].hits = @ + 1]
    BY <1>1, <1>4 DEF B!Shoot, B!Result, q
  <2>2. s \in ShipRecords
    BY <1>1, <1>4
  <2>3. e \in ShipRecords /\ e.x = s.x /\ e.y = s.y /\ e.dir = s.dir /\ e.placed = s.placed /\ e.hits = s.hits + 1
    <3> HIDE DEF s
    <3> QED
      BY <2>2 DEF ShipRecords
  <2>4. ships' = [ships EXCEPT ![q] = [ships[q] EXCEPT ![k] = e]]
    BY <2>1
  <2> HIDE DEF e, k
  <2>5. /\ ships' \in [B!Players -> [B!Fleet -> ShipRecords]] /\ ships'[q][k] = e
        /\ \A r \in B!Players : \A j \in B!Fleet : ~(r = q /\ j = k) => ships'[r][j] = ships[r][j]
    BY <1>1, <1>4, <2>3, <2>4
  <2> QED
    <3> SUFFICES ASSUME NEW r \in B!Players, NEW j \in B!Fleet
                 PROVE  /\ ships'[r][j].x = ships[r][j].x /\ ships'[r][j].y = ships[r][j].y
                        /\ ships'[r][j].dir = ships[r][j].dir /\ ships'[r][j].placed = ships[r][j].placed
                        /\ ships[r][j].hits \in Nat
                        /\ ships'[r][j].hits = IF r = q /\ j = k THEN ships[r][j].hits + 1 ELSE ships[r][j].hits
      BY <2>5 DEF q, k, HitOnly
    <3>1. CASE r = q /\ j = k
      BY <1>2, <2>3, <2>5, <3>1
    <3>2. CASE ~(r = q /\ j = k)
      BY <1>2, <2>5, <3>2
    <3> QED
      BY <3>1, <3>2
<1> QED
  BY <1>1, <1>3, <1>4

(* What is marked after a shot at a cell of which nothing is known.        *)
LEMMA MarkedAfter ==
  ASSUME GameInv, state = "playing", NEW p \in B!Players, NEW c \in B!Cells, shots[p][c] = B!EMPTY, B!Shoot(p, c)
  PROVE  Marked(1 - p)' /\ shots' \in [B!Players -> [B!Cells -> Knowledge]]
<1> DEFINE q == 1 - p
           k == board[q][c]
           M == shots[p]
           N == shots'[p]
           b == board[q]
<1>1. /\ game \in Games /\ q \in B!Players /\ p = 1 - q /\ k \in {0} \cup B!Fleet /\ GameTypes /\ Fields
      /\ B!Cells' = B!Cells /\ B!Fleet' = B!Fleet /\ board' = board /\ game' = game
  BY DEF GameInv, GameTypes, B!Players, B!PLAYER, B!COMPUTER, B!Shoot, B!Cells, B!BoardOf, B!Fleet
<1>2. Placed(q) = B!Fleet /\ Marked(q)
  BY <1>1 DEF GameInv, Stages, B!Players
<1>3. B!Fleet \subseteq Nat \ {0} /\ \A j \in B!Fleet : game.lengths[j] \in Nat \ {0}
  BY <1>1, GameFacts
<1>4. shots \in [B!Players -> [B!Cells -> Knowledge]] /\ M \in [B!Cells -> Knowledge] /\ M[c] = 0
  BY <1>1 DEF GameTypes, B!EMPTY
<1>5. \A j \in B!Fleet :
        /\ ships[q][j].hits \in Nat
        /\ ships'[q][j].hits = IF j = k THEN ships[q][j].hits + 1 ELSE ships[q][j].hits
  <2>1. HitOnly(p, c)
    BY <1>1, ShipsAfter
  <2> QED
    BY <1>1, <2>1 DEF HitOnly
<1>6. \A j \in B!Fleet : /\ Hits(q, j) = {n \in B!Cells : b[n] = j /\ M[n] # 0}
                         /\ Hits(q, j)' = {n \in B!Cells : b[n] = j /\ N[n] # 0}
                         /\ ships[q][j].hits = Cardinality(Hits(q, j))
  BY <1>1, <1>2 DEF Hits, Marked, B!EMPTY
<1>7. \A n \in B!Cells : /\ M[n] = -1 => b[n] = 0
                         /\ M[n] = -2 => b[n] # 0 /\ ~(ships[q][b[n]].hits >= game.lengths[b[n]])
                         /\ M[n] > 0 => b[n] = M[n] /\ ships[q][M[n]].hits >= game.lengths[M[n]]
  BY <1>1, <1>2 DEF Marked, B!Sunk, B!MARK_MISS, B!MARK_HIT
<1>8. /\ shots' = [shots EXCEPT ![p] = B!Marks(p, c)]
      /\ N = B!Marks(p, c)
  BY <1>4 DEF B!Shoot
<1>9. \A n \in B!Cells : b[n] \in {0} \cup B!Fleet /\ M[n] \in {0, -1, -2} \cup B!Fleet
  BY <1>1, <1>4 DEF GameTypes, Knowledge, B!EMPTY, B!MARK_MISS, B!MARK_HIT
<1> DEFINE len(j) == game.lengths[j]
           h(j) == ships[q][j].hits
           g(j) == ships'[q][j].hits
           Goal == /\ N \in [B!Cells -> Knowledge]
                   /\ \A j \in B!Fleet : g(j) = Cardinality({n \in B!Cells : b[n] = j /\ N[n] # 0})
                   /\ \A n \in B!Cells : /\ N[n] = -1 => b[n] = 0
                                         /\ N[n] = -2 => b[n] # 0 /\ ~(g(b[n]) >= len(b[n]))
                                         /\ N[n] > 0 => b[n] = N[n] /\ g(N[n]) >= len(N[n])
<1>10. ASSUME k = 0
       PROVE  Goal
  <2>1. N = [M EXCEPT ![c] = -1]
    BY <1>8, <1>10 DEF B!Marks, B!Result, B!MARK_MISS
  <2> HIDE DEF N, M, k, q, b, len, h, g
  <2>2. N \in [B!Cells -> Knowledge] /\ N[c] = -1 /\ \A n \in B!Cells \ {c} : N[n] = M[n]
    BY <1>4, <2>1 DEF Knowledge, B!MARK_MISS
  <2>3. b[c] = 0
    BY <1>10 DEF k, b
  <2>4. \A j \in B!Fleet : {n \in B!Cells : b[n] = j /\ N[n] # 0} = {n \in B!Cells : b[n] = j /\ M[n] # 0}
    BY <1>3, <2>2, <2>3
  <2>5. \A j \in B!Fleet : g(j) = h(j)
    BY <1>3, <1>5, <1>10 DEF g, h
  <2>6. \A j \in B!Fleet : g(j) = Cardinality({n \in B!Cells : b[n] = j /\ N[n] # 0})
    BY <1>6, <2>4, <2>5 DEF h
  <2>7. \A n \in B!Cells : /\ M[n] = -1 => b[n] = 0
                           /\ M[n] = -2 => b[n] \in B!Fleet /\ ~(h(b[n]) >= len(b[n]))
                           /\ M[n] > 0 => b[n] = M[n] /\ M[n] \in B!Fleet /\ h(M[n]) >= len(M[n])
    BY <1>3, <1>7, <1>9 DEF h, len
  <2>8. ASSUME NEW n \in B!Cells
        PROVE  /\ N[n] = -1 => b[n] = 0
               /\ N[n] = -2 => b[n] # 0 /\ ~(g(b[n]) >= len(b[n]))
               /\ N[n] > 0 => b[n] = N[n] /\ g(N[n]) >= len(N[n])
    <3>1. CASE n = c
      BY <2>2, <2>3, <3>1
    <3>2. CASE n # c
      BY <1>3, <2>2, <2>5, <2>7, <3>2
    <3> QED
      BY <3>1, <3>2
  <2> QED
    BY <2>2, <2>6, <2>8
<1>11. ASSUME k \in B!Fleet, h(k) + 1 < len(k)
       PROVE  Goal
  <2>1. N = [M EXCEPT ![c] = -2]
    BY <1>3, <1>8, <1>11 DEF B!Marks, B!Result, B!MARK_HIT
  <2> HIDE DEF N, M, k, q, b, len, h, g
  <2>2. N \in [B!Cells -> Knowledge] /\ N[c] = -2 /\ \A n \in B!Cells \ {c} : N[n] = M[n]
    BY <1>4, <2>1 DEF Knowledge, B!MARK_HIT
  <2>3. b[c] = k /\ \A j \in B!Fleet : h(j) \in Nat /\ len(j) \in Nat /\ g(j) = IF j = k THEN h(j) + 1 ELSE h(j)
    BY <1>3, <1>5 DEF k, b, g, h, len
  <2>4. \A j \in B!Fleet : {n \in B!Cells : b[n] = j /\ N[n] # 0} =
                             IF j = k THEN {n \in B!Cells : b[n] = j /\ M[n] # 0} \cup {c}
                             ELSE {n \in B!Cells : b[n] = j /\ M[n] # 0}
    BY <1>3, <2>2, <2>3
  <2>5. c \notin {n \in B!Cells : b[n] = k /\ M[n] # 0}
    BY <1>4
  <2>6. IsFiniteSet({n \in B!Cells : b[n] = k /\ M[n] # 0}) /\ h(k) = Cardinality({n \in B!Cells : b[n] = k /\ M[n] # 0})
    <3>1. IsFiniteSet(Hits(q, k))
      BY <1>1, <1>2, <1>11, HitsAre
    <3>2. Hits(q, k) = {n \in B!Cells : b[n] = k /\ M[n] # 0} /\ ships[q][k].hits = Cardinality(Hits(q, k))
      BY <1>6, <1>11
    <3> QED
      BY <3>1, <3>2 DEF h
  <2>7. Cardinality({n \in B!Cells : b[n] = k /\ M[n] # 0} \cup {c}) = h(k) + 1
    BY <2>5, <2>6, FS_AddElement
  <2>8. \A j \in B!Fleet : g(j) = Cardinality({n \in B!Cells : b[n] = j /\ N[n] # 0})
    <3> SUFFICES ASSUME NEW j \in B!Fleet
                 PROVE  g(j) = Cardinality({n \in B!Cells : b[n] = j /\ N[n] # 0})
      OBVIOUS
    <3>1. CASE j = k
      BY <2>3, <2>4, <2>7, <3>1
    <3>2. CASE j # k
      <4>1. g(j) = h(j) /\ {n \in B!Cells : b[n] = j /\ N[n] # 0} = {n \in B!Cells : b[n] = j /\ M[n] # 0}
        BY <2>3, <2>4, <3>2
      <4>2. Hits(q, j) = {n \in B!Cells : b[n] = j /\ M[n] # 0} /\ ships[q][j].hits = Cardinality(Hits(q, j))
        BY <1>6
      <4> QED
        BY <4>1, <4>2 DEF h
    <3> QED
      BY <3>1, <3>2
  <2>9. \A n \in B!Cells : /\ M[n] = -1 => b[n] = 0
                           /\ M[n] = -2 => b[n] \in B!Fleet /\ ~(h(b[n]) >= len(b[n]))
                           /\ M[n] > 0 => b[n] = M[n] /\ M[n] \in B!Fleet /\ h(M[n]) >= len(M[n])
    BY <1>3, <1>7, <1>9 DEF h, len
  <2>10. ~(g(k) >= len(k)) /\ \A j \in B!Fleet : /\ h(j) >= len(j) => g(j) >= len(j)
                                                 /\ ~(h(j) >= len(j)) => ~(g(j) >= len(j))
    BY <1>11, <2>3
  <2>11. ASSUME NEW n \in B!Cells
         PROVE  /\ N[n] = -1 => b[n] = 0
                /\ N[n] = -2 => b[n] # 0 /\ ~(g(b[n]) >= len(b[n]))
                /\ N[n] > 0 => b[n] = N[n] /\ g(N[n]) >= len(N[n])
    <3>1. CASE n = c
      BY <1>3, <1>11, <2>2, <2>3, <2>10, <3>1
    <3>2. CASE n # c
      BY <1>3, <2>2, <2>9, <2>10, <3>2
    <3> QED
      BY <3>1, <3>2
  <2> QED
    BY <2>2, <2>8, <2>11
<1>12. ASSUME k \in B!Fleet, ~(h(k) + 1 < len(k))
       PROVE  Goal
  <2> DEFINE H == Hull(q, k)
             A == B!Around(q, k)
  <2>1. N = [n \in B!Cells |-> IF n \in H THEN k ELSE IF n \in A THEN -1 ELSE M[n]]
    BY <1>1, <1>3, <1>8, <1>12 DEF B!Marks, B!Result, B!MARK_MISS, Hull
  <2>2. /\ H \subseteq B!Cells /\ (\A n \in B!Cells : b[n] = k <=> n \in H)
        /\ \A n \in A : n \in B!Cells /\ b[n] \in {0, k}
        /\ Hits(q, k) \subseteq H /\ Cardinality(H) = len(k) /\ Cardinality(Hits(q, k)) <= len(k)
        /\ (Cardinality(Hits(q, k)) = len(k) => Hits(q, k) = H)
    BY <1>1, <1>2, <1>12, HitsAre
  <2>3. h(k) = Cardinality(Hits(q, k)) /\ c \notin Hits(q, k) /\ c \in H
    BY <1>4, <1>6, <1>12, <2>2
  <2> HIDE DEF N, M, k, q, b, len, h, g, H, A
  <2>4. b[c] = k /\ \A j \in B!Fleet : h(j) \in Nat /\ len(j) \in Nat /\ g(j) = IF j = k THEN h(j) + 1 ELSE h(j)
    BY <1>3, <1>5 DEF k, b, g, h, len
  <2>5. g(k) = len(k)
    <3>1. h(k) <= len(k) /\ h(k) # len(k)
      BY <2>2, <2>3
    <3> QED
      BY <1>12, <2>4, <3>1
  <2>6. N \in [B!Cells -> Knowledge] /\ \A n \in B!Cells : /\ n \in H => N[n] = k
                                                           /\ n \notin H /\ n \in A => N[n] = -1
                                                           /\ n \notin H /\ n \notin A => N[n] = M[n]
    BY <1>4, <1>12, <2>1 DEF Knowledge, B!MARK_MISS
  <2>7. {n \in B!Cells : b[n] = k /\ N[n] # 0} = H
    BY <1>3, <1>12, <2>2, <2>6
  <2>8. \A j \in B!Fleet \ {k} : {n \in B!Cells : b[n] = j /\ N[n] # 0} = {n \in B!Cells : b[n] = j /\ M[n] # 0}
    <3> SUFFICES ASSUME NEW j \in B!Fleet, j # k, NEW n \in B!Cells, b[n] = j
                 PROVE  N[n] = M[n]
      OBVIOUS
    <3>1. n \notin H /\ n \notin A
      BY <1>3, <2>2
    <3> QED
      BY <2>6, <3>1
  <2>9. \A j \in B!Fleet : g(j) = Cardinality({n \in B!Cells : b[n] = j /\ N[n] # 0})
    <3> SUFFICES ASSUME NEW j \in B!Fleet
                 PROVE  g(j) = Cardinality({n \in B!Cells : b[n] = j /\ N[n] # 0})
      OBVIOUS
    <3>1. CASE j = k
      BY <2>2, <2>5, <2>7, <3>1
    <3>2. CASE j # k
      BY <1>6, <2>4, <2>8, <3>2 DEF h
    <3> QED
      BY <3>1, <3>2
  <2>10. \A n \in B!Cells : /\ M[n] = -1 => b[n] = 0
                            /\ M[n] = -2 => b[n] \in B!Fleet /\ ~(h(b[n]) >= len(b[n]))
                            /\ M[n] > 0 => b[n] = M[n] /\ M[n] \in B!Fleet /\ h(M[n]) >= len(M[n])
    BY <1>3, <1>7, <1>9 DEF h, len
  <2>11. g(k) >= len(k) /\ \A j \in B!Fleet : /\ h(j) >= len(j) => g(j) >= len(j)
                                              /\ j # k /\ ~(h(j) >= len(j)) => ~(g(j) >= len(j))
    BY <1>12, <2>4, <2>5
  <2>12. ASSUME NEW n \in B!Cells
         PROVE  /\ N[n] = -1 => b[n] = 0
                /\ N[n] = -2 => b[n] # 0 /\ ~(g(b[n]) >= len(b[n]))
                /\ N[n] > 0 => b[n] = N[n] /\ g(N[n]) >= len(N[n])
    <3>1. CASE n \in H
      BY <1>3, <1>12, <2>2, <2>6, <2>11, <3>1
    <3>2. CASE n \notin H /\ n \in A
      BY <1>3, <2>2, <2>6, <3>2
    <3>3. CASE n \notin H /\ n \notin A
      BY <1>3, <2>2, <2>6, <2>10, <2>11, <3>3
    <3> QED
      BY <3>1, <3>2, <3>3
  <2> QED
    BY <2>6, <2>9, <2>12
<1>13. Goal
  <2>1. k = 0 \/ k \in B!Fleet
    BY <1>1
  <2> HIDE DEF Goal
  <2> QED
    BY <1>10, <1>11, <1>12, <2>1
<1>14. shots' \in [B!Players -> [B!Cells -> Knowledge]]
  <2>1. shots' = [shots EXCEPT ![p] = N]
    BY <1>8
  <2> HIDE DEF N
  <2> QED
    BY <1>4, <1>13, <2>1
<1>15. Marked(q)'
  <2>1. \A j \in B!Fleet : ships'[q][j].hits = Cardinality(Hits(q, j)')
    BY <1>6, <1>13
  <2>2. \A n \in B!Cells : /\ N[n] = -1 => b[n] = 0
                           /\ N[n] = -2 => b[n] # 0 /\ ~(g(b[n]) >= len(b[n]))
                           /\ N[n] > 0 => b[n] = N[n] /\ g(N[n]) >= len(N[n])
    BY <1>13
  <2>3. 1 - q = p
    BY <1>1
  <2> QED
    BY <1>1, <2>1, <2>2, <2>3 DEF Marked, B!Sunk, B!MARK_MISS, B!MARK_HIT
<1> QED
  BY <1>14, <1>15

LEMMA ShotKeeps ==
  ASSUME GameInv, state = "playing", state' = "playing", NEW p \in B!Players, NEW c \in B!Cells,
         shots[p][c] = B!EMPTY, B!Shoot(p, c), turn' \in B!Players, "used" \in DOMAIN ai', ~B!Decided
  PROVE  /\ GameTypes' /\ Fields' /\ Stages' /\ \A q \in B!Players : Marked(q)'
         /\ B!Decided' => B!Result(p, c) = "sunk" /\ Losing(1 - p)'
<1> DEFINE q == 1 - p
           k == board[q][c]
<1>1. /\ game \in Games /\ q \in B!Players /\ p = 1 - q /\ q # p /\ B!Players = {p, q} /\ GameTypes /\ Fields
      /\ B!Cells' = B!Cells /\ B!Fleet' = B!Fleet /\ Knowledge' = Knowledge /\ board' = board /\ game' = game
  BY DEF GameInv, GameTypes, B!Players, B!PLAYER, B!COMPUTER, B!Shoot, B!Cells, B!BoardOf, B!Fleet, Knowledge
<1> HIDE DEF q
<1>2. /\ ships' \in [B!Players -> [B!Fleet -> ShipRecords]]
      /\ \A r \in B!Players : \A j \in B!Fleet :
           /\ ships'[r][j].x = ships[r][j].x /\ ships'[r][j].y = ships[r][j].y
           /\ ships'[r][j].dir = ships[r][j].dir /\ ships'[r][j].placed = ships[r][j].placed
           /\ ships[r][j].hits \in Nat
           /\ ships'[r][j].hits = IF r = q /\ j = k THEN ships[r][j].hits + 1 ELSE ships[r][j].hits
  <2>1. HitOnly(p, c)
    BY <1>1, ShipsAfter
  <2> QED
    BY <2>1 DEF q, HitOnly
<1>3. Marked(q)' /\ shots' \in [B!Players -> [B!Cells -> Knowledge]]
  BY MarkedAfter DEF q
<1>4. GameTypes'
  BY <1>1, <1>2, <1>3 DEF GameTypes, B!Players
<1>5. \A r \in B!Players : Placed(r)' = Placed(r) /\ Hulls(r)' = Hulls(r)
  <2> SUFFICES ASSUME NEW r \in B!Players
               PROVE  Placed(r)' = Placed(r) /\ Hulls(r)' = Hulls(r)
    OBVIOUS
  <2>1. Placed(r)' = {j \in B!Fleet : ships'[r][j].placed}
        /\ Hulls(r)' = [j \in B!Fleet |-> B!Lie(j, <<ships'[r][j].x, ships'[r][j].y>>, ships'[r][j].dir)]
        /\ Hulls(r) = [j \in B!Fleet |-> B!Lie(j, <<ships[r][j].x, ships[r][j].y>>, ships[r][j].dir)]
    BY <1>1, HullsAre, Zenon
  <2>2. \A j \in B!Fleet : ships'[r][j].placed <=> ships[r][j].placed
    BY <1>2
  <2>3. \A j \in B!Fleet : B!Lie(j, <<ships'[r][j].x, ships'[r][j].y>>, ships'[r][j].dir) =
                           B!Lie(j, <<ships[r][j].x, ships[r][j].y>>, ships[r][j].dir)
    BY <1>2
  <2>4. Placed(r)' = Placed(r)
    BY <2>1, <2>2 DEF Placed
  <2> QED
    BY <2>1, <2>3, <2>4
<1>6. Fields'
  <2>1. \A r \in B!Players : Tidy(board'[r], Placed(r)', Hulls(r)')
    BY <1>1, <1>5 DEF Fields
  <2> QED
    BY <1>1, <2>1, FieldsAfter
<1>7. Stages'
  <2>1. Placed(0) = B!Fleet /\ Placed(1) = B!Fleet
    BY DEF GameInv, Stages, B!PLAYER, B!COMPUTER
  <2>2. Placed(0)' = B!Fleet /\ Placed(1)' = B!Fleet
    BY <1>5, <2>1 DEF B!Players, B!PLAYER, B!COMPUTER
  <2> QED
    BY <1>1, <2>2 DEF Stages, B!PLAYER, B!COMPUTER
<1>8. Marked(p)'
  <2>1. shots'[q] = shots[q]
    <3>1. shots' = [shots EXCEPT ![p] = B!Marks(p, c)]
      BY DEF B!Shoot
    <3> QED
      BY <1>1, <3>1 DEF GameTypes
  <2>2. \A j \in B!Fleet : ships'[p][j].hits = ships[p][j].hits
    BY <1>1, <1>2
  <2>3. 1 - p = q
    BY DEF q
  <2>4. \A j \in B!Fleet : Hits(p, j)' = Hits(p, j)
    BY <1>1, <2>1, <2>3 DEF Hits, B!EMPTY
  <2>5. Marked(p)
    BY DEF GameInv
  <2>6. \A j \in B!Fleet : ships'[p][j].hits = Cardinality(Hits(p, j)')
    BY <2>2, <2>4, <2>5 DEF Marked
  <2>7. \A n \in B!Cells : board[p][n] \in {0} \cup B!Fleet /\ shots[q][n] \in {0, -1, -2} \cup B!Fleet /\ 0 \notin B!Fleet
                           /\ B!Fleet \subseteq Nat
    BY <1>1, GameFacts DEF GameTypes, Knowledge, B!EMPTY, B!MARK_MISS, B!MARK_HIT
  <2>8. ASSUME NEW n \in B!Cells
        PROVE  /\ shots'[q][n] = B!MARK_MISS => board[p][n] = 0
               /\ shots'[q][n] = B!MARK_HIT => board[p][n] # 0 /\ ~(ships'[p][board[p][n]].hits >= game.lengths[board[p][n]])
               /\ shots'[q][n] > 0 => board[p][n] = shots'[q][n] /\ ships'[p][shots'[q][n]].hits >= game.lengths[shots'[q][n]]
    <3>1. /\ shots[q][n] = B!MARK_MISS => board[p][n] = 0
          /\ shots[q][n] = B!MARK_HIT => board[p][n] # 0 /\ ~(ships[p][board[p][n]].hits >= game.lengths[board[p][n]])
          /\ shots[q][n] > 0 => board[p][n] = shots[q][n] /\ ships[p][shots[q][n]].hits >= game.lengths[shots[q][n]]
      BY <2>3, <2>5 DEF Marked, B!Sunk
    <3>2. shots[q][n] > 0 => shots[q][n] \in B!Fleet
      BY <2>7
    <3>3. board[p][n] # 0 => board[p][n] \in B!Fleet
      BY <2>7
    <3> QED
      BY <2>1, <2>2, <3>1, <3>2, <3>3
  <2> QED
    BY <1>1, <2>3, <2>6, <2>8 DEF Marked, B!Sunk
<1>9. ASSUME B!Decided'
      PROVE  B!Result(p, c) = "sunk" /\ Losing(q)'
  <2>1. \A r \in B!Players : /\ B!Afloat(r) = {j \in B!Fleet : ~(ships[r][j].hits >= game.lengths[j])}
                             /\ B!Afloat(r)' = {j \in B!Fleet : ~(ships'[r][j].hits >= game.lengths[j])}
                             /\ B!Afloat(r) # {}
    BY <1>1 DEF B!Afloat, B!Sunk, B!Decided
  <2>2. B!Afloat(p)' = B!Afloat(p)
    <3>1. \A j \in B!Fleet : ships'[p][j].hits = ships[p][j].hits
      BY <1>1, <1>2
    <3>2. /\ B!Afloat(p) = {j \in B!Fleet : ~(ships[p][j].hits >= game.lengths[j])}
          /\ B!Afloat(p)' = {j \in B!Fleet : ~(ships'[p][j].hits >= game.lengths[j])}
      BY <2>1, Zenon
    <3> QED
      BY <3>1, <3>2, Zenon
  <2>3. B!Afloat(q)' = {}
    BY <1>1, <1>9, <2>1, <2>2 DEF B!Decided, B!Players
  <2>4. Losing(q)'
    BY <1>1, <2>1, <2>2, <2>3 DEF Losing
  <2>5. PICK j \in B!Fleet : ~(ships[q][j].hits >= game.lengths[j]) /\ ships'[q][j].hits >= game.lengths[j]
    BY <1>1, <2>1, <2>3
  <2>6. game.lengths[j] \in Nat /\ ships[q][j].hits \in Nat
    BY <1>1, <1>2, GameFacts
  <2>7. j = k /\ ~(ships[q][k].hits + 1 < game.lengths[k])
    BY <1>1, <1>2, <2>5, <2>6
  <2>8. k # 0
    BY <1>1, <2>7, GameFacts
  <2> QED
    BY <2>4, <2>7, <2>8 DEF B!Result, q
<1> QED
  BY <1>1, <1>3, <1>4, <1>6, <1>7, <1>8, <1>9 DEF q

-----------------------------------------------------------------------------
(* Whose turn it is after a shot, and when the game is over.               *)
LEMMA TurnAfter ==
  ASSUME GameInv, state = "playing", NEW again \in BOOLEAN, B!EndShot(again)
  PROVE  /\ state' = "playing" /\ turn' \in B!Players
         /\ B!Decided' /\ ~again => turn' = 1 - turn
<1>1. game \in Games /\ turn \in B!Players /\ 1 - turn \in B!Players
  BY DEF GameInv, GameTypes, B!Players, B!PLAYER, B!COMPUTER
<1>2. game.mode \in {"regular", "blitz", "salvo"}
  BY <1>1, GameFacts
<1> QED
  BY <1>1, <1>2 DEF B!EndShot

LEMMA ShotStep ==
  ASSUME GameInv, NEW p \in B!Players, B!MayShoot(p), NEW c \in B!Cells, shots[p][c] = B!EMPTY, B!Shoot(p, c),
         NEW again \in BOOLEAN, B!EndShot(again), "used" \in DOMAIN ai',
         B!Decided' /\ B!Result(p, c) = "sunk" => ~again
  PROVE  GameInv'
<1>1. state = "playing" /\ turn = p /\ ~B!Decided
  BY DEF B!MayShoot
<1>2. state' = "playing" /\ turn' \in B!Players /\ (B!Decided' /\ ~again => turn' = 1 - p)
  BY <1>1, TurnAfter
<1>3. /\ GameTypes' /\ Fields' /\ Stages' /\ \A q \in B!Players : Marked(q)'
      /\ B!Decided' => B!Result(p, c) = "sunk" /\ Losing(1 - p)'
  BY <1>1, <1>2, ShotKeeps
<1>4. B!Decided' => Losing(turn)'
  BY <1>2, <1>3 DEF Losing, B!Afloat, B!Sunk, B!Fleet
<1> QED
  BY <1>2, <1>3, <1>4 DEF GameInv, B!Players

LEMMA PauseStep ==
  ASSUME GameInv, NEW p \in B!Players, B!MayShoot(p), UNCHANGED <<game, board, ships, shots>>,
         NEW again \in BOOLEAN, B!EndShot(again), "used" \in DOMAIN ai'
  PROVE  GameInv'
<1>1. state = "playing" /\ ~B!Decided
  BY DEF B!MayShoot
<1>2. state' = "playing" /\ turn' \in B!Players
  BY <1>1, TurnAfter
<1>3. /\ B!Cells' = B!Cells /\ B!Fleet' = B!Fleet /\ Knowledge' = Knowledge
      /\ \A q \in B!Players : Placed(q)' = Placed(q) /\ Hulls(q)' = Hulls(q)
  BY HullsAre DEF B!Cells, B!BoardOf, B!Fleet, Knowledge, Placed
<1>4. GameTypes'
  BY <1>2, <1>3 DEF GameInv, GameTypes, B!Players
<1>5. Fields'
  BY <1>3, FieldsAfter DEF GameInv, Fields
<1>6. Stages'
  BY <1>1, <1>2, <1>3 DEF GameInv, Stages, B!Players, B!PLAYER, B!COMPUTER
<1>7. \A q \in B!Players : Marked(q)'
  BY <1>3 DEF GameInv, Marked, Hits, B!Sunk, B!Players
<1>8. ~B!Decided'
  BY <1>1, <1>3 DEF B!Decided, B!Afloat, B!Sunk, B!Players
<1> QED
  BY <1>2, <1>4, <1>5, <1>6, <1>7, <1>8 DEF GameInv, B!Players

-----------------------------------------------------------------------------
(* The steps of the game.                                                  *)
LEMMA StartStep ==
  ASSUME GameInv, B!StartPlaying
  PROVE  GameInv'
<1>1. /\ state \in {"placing", "placed"} /\ state' = "playing" /\ turn' \in B!Players
      /\ UNCHANGED <<game, ships, board, shots, ai>> /\ game \in Games
  BY DEF B!StartPlaying, GameInv, GameTypes
<1>2. Placed(0) = B!Fleet /\ Placed(1) = B!Fleet
  BY <1>1 DEF B!StartPlaying, GameInv, Stages, Placed, B!Unplaced, B!PLAYER, B!COMPUTER
<1>3. /\ B!Cells' = B!Cells /\ B!Fleet' = B!Fleet /\ Knowledge' = Knowledge
      /\ \A q \in B!Players : Placed(q)' = Placed(q) /\ Hulls(q)' = Hulls(q)
  BY <1>1, HullsAre DEF B!Cells, B!BoardOf, B!Fleet, Knowledge, Placed
<1>4. GameTypes'
  BY <1>1, <1>3 DEF GameInv, GameTypes, B!Players
<1>5. Fields'
  BY <1>1, <1>3, FieldsAfter DEF GameInv, Fields
<1>6. Stages'
  BY <1>1, <1>2, <1>3 DEF Stages, B!Players, B!PLAYER, B!COMPUTER
<1>7. \A q \in B!Players : Marked(q)'
  BY <1>1, <1>3 DEF GameInv, Marked, Hits, B!Sunk, B!Players
<1>8. ~B!Decided'
  <2>1. \A p \in B!Players : ships'[p][1].hits = 0 /\ 1 \in B!Fleet /\ game.lengths[1] \in Nat \ {0}
    BY <1>1, GameFacts DEF GameInv, Stages
  <2>2. \A p \in B!Players : ~(ships'[p][1].hits >= game.lengths[1])
    BY <2>1
  <2> QED
    BY <1>1, <1>3, <2>1, <2>2 DEF B!Decided, B!Afloat, B!Sunk, B!Players
<1> QED
  BY <1>1, <1>4, <1>5, <1>6, <1>7, <1>8 DEF GameInv, B!Players

(* Steps that change neither what is on the boards nor what is known.      *)
LEMMA OtherStep ==
  ASSUME GameInv, UNCHANGED <<game, ships, board, shots, turn, ai>>,
         \/ state' = state /\ (state = "playing" \/ winner' = winner)
         \/ state = "playing" /\ state' = "finished" /\ B!Decided /\ winner' = 1 - turn
  PROVE  GameInv'
<1>1. /\ B!Cells' = B!Cells /\ B!Fleet' = B!Fleet /\ Knowledge' = Knowledge
      /\ \A q \in B!Players : Placed(q)' = Placed(q) /\ Hulls(q)' = Hulls(q)
  BY HullsAre DEF B!Cells, B!BoardOf, B!Fleet, Knowledge, Placed
<1>2. GameTypes'
  BY <1>1 DEF GameInv, GameTypes, B!Players
<1>3. Fields'
  BY <1>1, FieldsAfter DEF GameInv, Fields
<1>4. Stages'
  BY <1>1 DEF GameInv, Stages, B!Players, B!PLAYER, B!COMPUTER
<1>5. \A q \in B!Players : Marked(q)'
  BY <1>1 DEF GameInv, Marked, Hits, B!Sunk, B!Players
<1>6. /\ B!Decided' = B!Decided
      /\ \A p : B!Afloat(p)' = B!Afloat(p)
  BY <1>1 DEF B!Decided, B!Afloat, B!Sunk, B!Players
<1>7. /\ state = "playing" /\ B!Decided => Losing(turn)
      /\ state = "finished" => winner \in B!Players /\ Losing(1 - winner)
  BY DEF GameInv
<1>8. turn \in B!Players /\ 1 - turn \in B!Players /\ 1 - (1 - turn) = turn
  BY DEF GameInv, GameTypes, B!Players, B!PLAYER, B!COMPUTER
<1>9. state' = "playing" /\ B!Decided' => Losing(turn)'
  BY <1>6, <1>7 DEF Losing
<1>10. state' = "finished" => winner' \in B!Players /\ Losing(1 - winner)'
  BY <1>6, <1>7, <1>8 DEF Losing
<1> QED
  BY <1>2, <1>3, <1>4, <1>5, <1>9, <1>10 DEF GameInv, B!Players

LEMMA CountStep ==
  ASSUME GameInv, B!CountShots
  PROVE  GameInv'
BY OtherStep DEF B!CountShots

LEMMA FinishStep ==
  ASSUME GameInv, B!Finish
  PROVE  GameInv'
BY OtherStep DEF B!Finish

LEMMA PlayerStep ==
  ASSUME GameInv, NEW c \in B!Cells, B!PlayerShoots(c)
  PROVE  GameInv'
<1> DEFINE M == {n \in B!Cells : shots[0][n] = B!EMPTY}
<1>1. /\ B!MayShoot(0) /\ c \in Aim(M) /\ B!Shoot(0, c) /\ ai' = ai /\ 0 \in B!Players
      /\ "used" \in DOMAIN ai /\ game \in Games
  BY DEF B!PlayerShoots, B!PLAYER, B!Players, GameInv, GameTypes
<1>2. shots[0][c] = B!EMPTY
  <2>1. M \in SUBSET B!Cells
    OBVIOUS
  <2>2. Aim(M) \subseteq M
    BY <1>1, <2>1, GameFacts
  <2> QED
    BY <1>1, <2>2
<1>3. \E again \in BOOLEAN : B!EndShot(again) /\ (B!Decided' /\ B!Result(0, c) = "sunk" => ~again)
  <2>1. B!Result(0, c) \in {"miss", "hit", "sunk"}
    BY DEF B!Result
  <2>2. CASE B!Result(0, c) = "miss"
    <3>1. B!EndShot(FALSE)
      BY <2>2 DEF B!PlayerShoots, B!PLAYER, B!EndShot
    <3> QED
      BY <3>1
  <2>3. CASE B!Result(0, c) = "hit"
    <3>1. B!EndShot(TRUE)
      BY <2>3 DEF B!PlayerShoots, B!PLAYER, B!EndShot
    <3> QED
      BY <2>3, <3>1
  <2>4. CASE B!Result(0, c) = "sunk" /\ B!Decided'
    <3>1. B!EndShot(FALSE)
      BY <2>4 DEF B!PlayerShoots, B!PLAYER, B!EndShot
    <3> QED
      BY <3>1
  <2>5. CASE B!Result(0, c) = "sunk" /\ ~B!Decided'
    <3>1. B!EndShot(TRUE)
      BY <2>5 DEF B!PlayerShoots, B!PLAYER, B!EndShot
    <3> QED
      BY <2>5, <3>1
  <2> QED
    BY <2>1, <2>2, <2>3, <2>4, <2>5
<1> QED
  BY <1>1, <1>2, <1>3, ShotStep

LEMMA FireStep ==
  ASSUME GameInv, B!MayShoot(1), NEW c \in B!Cells, B!Possible(c), NEW b, "used" \in DOMAIN b, B!Fire(c, b)
  PROVE  GameInv'
<1>1. 1 \in B!Players /\ shots[1][c] = B!EMPTY /\ B!Shoot(1, c) /\ "used" \in DOMAIN ai'
  BY DEF B!Players, B!Possible, B!Fire, B!COMPUTER
<1>2. \E again \in BOOLEAN : B!EndShot(again) /\ (B!Decided' => ~again)
  <2>1. CASE B!Decided' \/ b.hit = "miss"
    <3>1. B!EndShot(FALSE)
      BY <2>1 DEF B!Fire, B!EndShot
    <3> QED
      BY <3>1
  <2>2. CASE ~B!Decided' /\ b.hit # "miss"
    <3>1. B!EndShot(TRUE)
      BY <2>2 DEF B!Fire, B!EndShot
    <3> QED
      BY <2>2, <3>1
  <2> QED
    BY <2>1, <2>2
<1> QED
  BY <1>1, <1>2, ShotStep

LEMMA SearchesOn ==
  ASSUME GameInv, B!MayShoot(1), NEW b, "used" \in DOMAIN b, B!Pause(b)
  PROVE  GameInv'
<1>1. 1 \in B!Players /\ UNCHANGED <<game, board, ships, shots>> /\ "used" \in DOMAIN ai'
  BY DEF B!Players, B!Pause, B!COMPUTER
<1>2. \E again \in BOOLEAN : B!EndShot(again)
  <2>1. CASE b.hit = "miss"
    BY <2>1 DEF B!Pause, B!EndShot
  <2>2. CASE b.hit # "miss"
    BY <2>2 DEF B!Pause, B!EndShot
  <2> QED
    BY <2>1, <2>2
<1> QED
  BY <1>1, <1>2, PauseStep

LEMMA RandomStep ==
  ASSUME GameInv, B!MayShoot(1), NEW a, "used" \in DOMAIN a, B!RandomFire(a)
  PROVE  GameInv'
<1> DEFINE possible == {c \in B!Cells : B!Possible(c)}
           preferred(off) == {c \in possible : (c[1] + off) % a.step # c[2] % a.step}
           next(off) == [a EXCEPT !.counted = TRUE, !.off = off,
                                  !.step = IF preferred(off) = {} /\ @ > 1 THEN @ - 1 ELSE @]
<1>1. PICK off \in IF a.counted THEN {a.off} ELSE 0 .. a.step - 1 :
        \E c \in IF preferred(off) # {} THEN preferred(off) ELSE possible :
          B!Fire(c, IF B!Result(1, c) = "hit"
                      THEN [next(off) EXCEPT !.x = c[1], !.y = c[2], !.hits = 1, !.next = "hunt",
                                             !.used = [i \in 0 .. 3 |-> FALSE]]
                      ELSE next(off))
  BY Zenon DEF B!RandomFire, B!COMPUTER
<1>2. PICK c \in possible :
          B!Fire(c, IF B!Result(1, c) = "hit"
                      THEN [next(off) EXCEPT !.x = c[1], !.y = c[2], !.hits = 1, !.next = "hunt",
                                             !.used = [i \in 0 .. 3 |-> FALSE]]
                      ELSE next(off))
  <2>1. preferred(off) \subseteq possible
    OBVIOUS
  <2> HIDE DEF preferred, possible, next
  <2> QED
    BY <1>1, <2>1
<1>3. "used" \in DOMAIN next(off)
  OBVIOUS
<1> HIDE DEF next
<1> DEFINE b == IF B!Result(1, c) = "hit"
                  THEN [next(off) EXCEPT !.x = c[1], !.y = c[2], !.hits = 1, !.next = "hunt",
                                         !.used = [i \in 0 .. 3 |-> FALSE]]
                  ELSE next(off)
<1>4. "used" \in DOMAIN b
  BY <1>3
<1>5. B!Fire(c, b) /\ c \in B!Cells /\ B!Possible(c)
  BY <1>2
<1> HIDE DEF b
<1> QED
  BY <1>4, <1>5, FireStep

LEMMA AfterIs ==
  ASSUME NEW a, "used" \in DOMAIN a, NEW c, NEW dir, NEW next
  PROVE  "used" \in DOMAIN B!After(a, c, dir, next)
BY DEF B!After

LEMMA HuntStep ==
  ASSUME GameInv, B!AiFindOrientation
  PROVE  GameInv'
<1> DEFINE cell(i) == B!shipxy(<<ai.x, ai.y>>, 2 * i, 1)
           used == [i \in 0 .. 3 |-> ai.used[i] \/ ~B!Possible(cell(i))]
           a == [ai EXCEPT !.used = used]
           avail == {i \in 0 .. 3 : ~a.used[i]}
           d == CHOOSE i \in avail : \A j \in avail : i <= j
           next == [miss |-> "hunt", sunk |-> "random", hit |-> "first"]
<1>1. /\ B!MayShoot(1) /\ "used" \in DOMAIN ai
      /\ IF avail = {} THEN B!RandomFire(a) ELSE B!Fire(cell(d), B!After(a, cell(d), 2 * d, next))
  BY DEF B!AiFindOrientation, B!COMPUTER, GameInv, GameTypes
<1>2. "used" \in DOMAIN a /\ a.used = used
  BY <1>1
<1> HIDE DEF a
<1>3. \A i \in avail : i \in 0 .. 3 /\ B!Possible(cell(i))
  BY <1>2
<1>4. CASE avail = {}
  BY <1>1, <1>2, <1>4, RandomStep
<1>5. CASE avail # {}
  <2>1. d \in avail
    <3>1. avail \in SUBSET (0 .. 3)
      OBVIOUS
    <3>3. avail # {}
      BY <1>5
    <3> HIDE DEF avail
    <3>2. \E i \in avail : \A j \in avail : i <= j
      <4>1. avail \in SUBSET Nat /\ avail # {}
        BY <3>1, <3>3
      <4> QED
        BY <4>1, LeastOf
    <3> QED
      BY <3>2
  <2> HIDE DEF d, avail
  <2>2. B!Possible(cell(d)) /\ cell(d) \in B!Cells
    BY <1>3, <2>1 DEF B!Possible
  <2>3. B!Fire(cell(d), B!After(a, cell(d), 2 * d, next))
    BY <1>1, <1>5
  <2> HIDE DEF cell, next
  <2>4. "used" \in DOMAIN B!After(a, cell(d), 2 * d, next)
    BY <1>2, AfterIs
  <2> QED
    BY <1>1, <2>2, <2>3, <2>4, FireStep
<1> QED
  BY <1>4, <1>5

(* The three ways to search on along a line.                               *)
LEMMA LineStep ==
  ASSUME GameInv, B!MayShoot(1), NEW c, NEW dir, NEW next, NEW b, "used" \in DOMAIN b,
         IF B!Possible(c) THEN B!Fire(c, B!After(ai, c, dir, next)) ELSE B!Pause(b)
  PROVE  GameInv'
<1>1. "used" \in DOMAIN B!After(ai, c, dir, next)
  BY AfterIs DEF GameInv, GameTypes
<1>2. CASE B!Possible(c)
  BY <1>1, <1>2, FireStep DEF B!Possible
<1>3. CASE ~B!Possible(c)
  BY <1>3, SearchesOn
<1> QED
  BY <1>2, <1>3

LEMMA SearchStep ==
  ASSUME GameInv, B!AiFirstPass \/ B!AiReverseJump \/ B!AiSecondPass
  PROVE  GameInv'
<1>1. "used" \in DOMAIN [ai EXCEPT !.next = "reverse"] /\ "used" \in DOMAIN [ai EXCEPT !.next = "random"]
  BY DEF GameInv, GameTypes
<1>2. CASE B!AiFirstPass
  <2>1. B!MayShoot(1)
    BY <1>2 DEF B!AiFirstPass, B!COMPUTER
  <2>2. PICK c : IF B!Possible(c)
                   THEN B!Fire(c, B!After(ai, c, ai.dir, [miss |-> "reverse", sunk |-> "random", hit |-> "first"]))
                   ELSE B!Pause([ai EXCEPT !.next = "reverse"])
    BY <1>2, Zenon DEF B!AiFirstPass
  <2> QED
    BY <1>1, <2>1, <2>2, LineStep
<1>3. CASE B!AiReverseJump
  <2>1. B!MayShoot(1)
    BY <1>3 DEF B!AiReverseJump, B!COMPUTER
  <2>2. PICK c : IF B!Possible(c)
                   THEN B!Fire(c, B!After(ai, c, ai.dir + 4, [miss |-> "random", sunk |-> "random", hit |-> "second"]))
                   ELSE B!Pause([ai EXCEPT !.next = "random"])
    BY <1>3, Zenon DEF B!AiReverseJump
  <2> QED
    BY <1>1, <2>1, <2>2, LineStep
<1>4. CASE B!AiSecondPass
  <2>1. B!MayShoot(1)
    BY <1>4 DEF B!AiSecondPass, B!COMPUTER
  <2>2. PICK c : IF B!Possible(c)
                   THEN B!Fire(c, B!After(ai, c, ai.dir, [miss |-> "random", sunk |-> "random", hit |-> "second"]))
                   ELSE B!Pause([ai EXCEPT !.next = "random"])
    BY <1>4, Zenon DEF B!AiSecondPass
  <2> QED
    BY <1>1, <2>1, <2>2, LineStep
<1> QED
  BY <1>2, <1>3, <1>4

LEMMA GameStep ==
  ASSUME GameInv, [B!Next]_(B!vars)
  PROVE  GameInv'
<1>1. CASE UNCHANGED B!vars
  BY <1>1, OtherStep DEF B!vars
<1>2. ASSUME NEW k \in B!Fleet, NEW try \in Tries, B!PlaceShip(k, try[1], try[2])
      PROVE  GameInv'
  <2>1. try[2] \in {0, 2, 4, 6}
    BY GameAssumption DEF B!Settings
  <2> QED
    BY <1>2, <2>1, PlaceStep
<1>3. CASE B!AiRandomFire
  <2>1. B!MayShoot(1) /\ B!RandomFire(ai) /\ "used" \in DOMAIN ai
    BY <1>3 DEF B!AiRandomFire, B!COMPUTER, GameInv, GameTypes
  <2> QED
    BY <2>1, RandomStep
<1> QED
  BY <1>1, <1>2, <1>3, ArmStep, RestStep, StartStep, CountStep, PlayerStep, HuntStep, SearchStep, FinishStep,
     PlayAgainStep DEF B!Next

LEMMA GameInvariant ==
  MachinesSpec => [](Chosen("battleship") => GameInv)
<1> DEFINE Inv == Chosen("battleship") => GameInv
<1>1. MachinesInit => Inv
  <2> SUFFICES ASSUME MachinesInit, Chosen("battleship")
               PROVE  GameInv
    OBVIOUS
  <2>1. IsNew
    BY DEF MachinesInit, B!Init, IsNew, B!Players
  <2> QED
    BY <2>1, Anew
<1>2. Inv /\ [MachinesNext]_machines => Inv'
  BY StepOfOne, GameStep DEF Chosen
<1> QED
  BY <1>1, <1>2, PTL DEF MachinesSpec

(* Battleship: what a player has marked on the other's board is there, and *)
(* the winner has sunk all of the other's ships and kept one of its own,   *)
(* for any board and ships, wherever they are placed and shot at.          *)
THEOREM PlayedFairly ==
  MachinesSpec => []PlayIsTrue
<1>1. GameInv => B!MarksAreTrue
  <2> SUFFICES ASSUME GameInv, NEW p \in B!Players
               PROVE  /\ \A c \in B!Cells :
                           /\ shots[p][c] = B!MARK_MISS => board[1 - p][c] = 0
                           /\ shots[p][c] = B!MARK_HIT => /\ board[1 - p][c] # 0
                                                          /\ ~B!Sunk(1 - p, board[1 - p][c])
                           /\ shots[p][c] > 0 => board[1 - p][c] = shots[p][c] /\ B!Sunk(1 - p, shots[p][c])
                      /\ \A k \in B!Fleet :
                           ships[1 - p][k].hits =
                             B!Cardinality({c \in B!Cells : board[1 - p][c] = k /\ shots[p][c] # B!EMPTY})
    BY Zenon DEF B!MarksAreTrue
  <2>1. 1 - p \in B!Players /\ 1 - (1 - p) = p
    BY DEF B!Players, B!PLAYER, B!COMPUTER
  <2>2. Marked(1 - p)
    BY <2>1 DEF GameInv
  <2>3. \A M : B!Cardinality(M) = Cardinality(M)
    BY DEF B!Cardinality, Cardinality
  <2> QED
    BY <2>1, <2>2, <2>3 DEF Marked, Hits
<1>2. GameInv => B!WinnerSankAll
  <2> SUFFICES ASSUME GameInv, state = "finished"
               PROVE  winner \in B!Players /\ B!Afloat(1 - winner) = {} /\ B!Afloat(winner) # {}
    BY DEF B!WinnerSankAll
  <2>1. winner \in B!Players /\ Losing(1 - winner)
    BY DEF GameInv
  <2>2. 1 - (1 - winner) = winner
    BY <2>1 DEF B!Players, B!PLAYER, B!COMPUTER
  <2> QED
    BY <2>1, <2>2 DEF Losing
<1> QED
  BY <1>1, <1>2, GameInvariant, PTL DEF PlayIsTrue
=============================================================================
