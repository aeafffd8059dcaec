----------------------------- MODULE Exab_proofs -----------------------------
(***************************************************************************)
(* Theorems about prog/exab/exab.c, for any number of requests, workers    *)
(* and slots.  Everything that is proved of the pipe is first carried over *)
(* to the pipe exab uses: every step of exab is a step of ThreadPipe or    *)
(* leaves the pipe alone.                                                  *)
(***************************************************************************)
EXTENDS Exab, ThreadPipe_proofs

(* Where a worker and main are in the pipe, given where they are in their  *)
(* own loops.                                                              *)
Placement ==
  /\ \A w \in Workers :
       /\ at[w] # "reading" => pc[w] = "idle"
       /\ pc[w] \in ReaderPlaces \cup {"idle", "r_signal"}
       /\ w >= started => at[w] = "unborn"
  /\ pc[Main] \in WriterPlaces \cup {"idle", "w_signal", "c_enter", "c_body"}
  /\ pc[Main] \in {"c_enter", "c_body"} => closing
  /\ closing => written = Requests /\ pc[Main] \in {"idle", "c_enter", "c_body"}
  /\ closed => closing

(* A worker that is told "end" is told so for good.                        *)
Endings ==
  \A w \in Workers :
    /\ at[w] = "connecting" => outcome[w] # EndOfPipe
    /\ pc[w] = "r_signal" => outcome[w] # EndOfPipe
    /\ outcome[w] = EndOfPipe => closed /\ len = 0

(* Workers that left because their connect failed.                         *)
Refused == {w \in Workers : at[w] = "exited" /\ outcome[w] # EndOfPipe}

Joining ==
  /\ \A w \in Workers : w < joined => at[w] = "exited"
  /\ freed => closing /\ pc[Main] = "idle" /\ joined = Started

ClientType ==
  /\ started \in 0 .. Started
  /\ written \in 0 .. Requests
  /\ closing \in BOOLEAN
  /\ joined \in 0 .. Started
  /\ freed \in BOOLEAN
  /\ at \in [Workers -> WorkerPlaces]
  /\ served \in Nat
  /\ failed \in 0 .. MaxFailures
  /\ spurious \in 0 .. SpuriousLimit

ClientInv == ClientType /\ Placement /\ Endings /\ Joining

LEMMA Sizes ==
  /\ Started \in Nat /\ Requests \in Nat
  /\ MaxFailures \in Nat /\ SpuriousLimit \in Nat
  /\ Main \in Threads /\ Main \notin Workers
  /\ Workers \subseteq Threads
  /\ IsFiniteSet(Workers) /\ Cardinality(Workers) = Started
<1>1. Started \in Nat
  BY ExabAssumption DEF Started
<1>2. IsFiniteSet(0 .. Started - 1)
      /\ Cardinality(0 .. Started - 1) = IF 0 <= Started - 1 THEN (Started - 1) - 0 + 1 ELSE 0
  BY <1>1, FS_Interval
<1> QED
  BY <1>1, <1>2, ExabAssumption DEF Workers

-----------------------------------------------------------------------------
(***************************************************************************)
(* The pipe inside exab.                                                   *)
(***************************************************************************)

LEMMA PipeSteps ==
  ASSUME Placement, [ExabNext]_exabVars
  PROVE  [Next]_vars
<1> USE Sizes, ExabAssumption
<1>1. ASSUME MainStep, ~panicked
      PROVE  [Next]_vars
  <2>1. CASE StartWorker \/ Join \/ FreePipe
    BY <2>1 DEF StartWorker, Join, FreePipe
  <2>2. CASE SendNudge
    BY <1>1, <2>2 DEF SendNudge, Next, Call
  <2>3. CASE SendClose
    BY <1>1, <2>3 DEF SendClose, Next, Call
  <2> QED
    BY <1>1, <2>1, <2>2, <2>3 DEF MainStep
<1>2. ASSUME NEW w \in Workers, WorkerStep(w), ~panicked
      PROVE  [Next]_vars
  <2>1. CASE WorkerRead(w)
    BY <1>2, <2>1 DEF WorkerRead, Next, Call
  <2>2. CASE WorkerReturn(w) \/ Exchange(w) \/ ConnectFails(w)
    BY <2>2 DEF WorkerReturn, Exchange, ConnectFails
  <2>3. CASE ExchangePanics(w)
    BY <1>2, <2>3 DEF ExchangePanics, Next
  <2> QED
    BY <1>2, <2>1, <2>2, <2>3 DEF WorkerStep
<1>3. ASSUME NEW t \in Threads, PipeStep(t) \/ Spurious(t), ~panicked
      PROVE  [Next]_vars
  BY <1>3 DEF PipeStep, Spurious, Next
<1>4. CASE UNCHANGED exabVars
  BY <1>4 DEF exabVars, vars
<1> QED
  BY <1>1, <1>2, <1>3, <1>4 DEF ExabNext, Ended

(* Where a thread can be after a step inside the pipe, its own or that of  *)
(* a thread that wakes it.                                                 *)
LEMMA WhereStepsLead ==
  ASSUME TypeInv, NEW t \in Threads, Step(t) \/ SpuriousWakeup(t), NEW u \in Threads
  PROVE  /\ pc[u] = "idle" => pc'[u] = "idle"
         /\ pc[u] \in ReaderPlaces => pc'[u] \in ReaderPlaces \cup {"r_signal", "idle"}
         /\ pc[u] = "r_signal" => pc'[u] \in {"r_signal", "idle"}
         /\ pc[u] \in WriterPlaces => pc'[u] \in WriterPlaces \cup {"w_signal"}
         /\ pc[u] = "w_signal" => pc'[u] \in {"w_signal", "idle"}
         /\ pc[u] \in {"c_enter", "c_body"} => pc'[u] \in {"c_enter", "c_body", "idle"}
<1>0. pc \in [Threads -> Places]
  BY DEF TypeInv, TypeOK
<1> USE DEF ReaderPlaces, WriterPlaces, Goto, Unlock
<1>1. CASE Acquire(t)
  BY <1>0, <1>1 DEF Acquire, Entering, Woken
<1>2. CASE PreadTake(t) \/ PreadEnd(t) \/ PreadWait(t)
  BY <1>0, <1>2 DEF PreadTake, PreadEnd, PreadWait
<1>3. CASE PwritePanic(t) \/ PwriteStore(t) \/ PwriteWait(t)
  BY <1>0, <1>3 DEF PwritePanic, PwriteStore, PwriteWait, MayStore
<1>4. CASE SignalRead(t)
  BY <1>0, <1>4 DEF SignalRead, WakeOne, At
<1>5. CASE SignalWrote(t)
  BY <1>0, <1>5 DEF SignalWrote, WakeOne, At
<1>6. CASE Pclose(t)
  BY <1>0, <1>6 DEF Pclose
<1>7. CASE SpuriousWakeup(t)
  BY <1>0, <1>7 DEF SpuriousWakeup, Asleep
<1> QED
  BY <1>1, <1>2, <1>3, <1>4, <1>5, <1>6, <1>7 DEF Step

-----------------------------------------------------------------------------
(***************************************************************************)
(* The invariant of main and the workers, one part after the other.        *)
(***************************************************************************)

LEMMA ClientInit == ExabInit => ClientInv
<1> SUFFICES ASSUME ExabInit
             PROVE  ClientInv
  OBVIOUS
<1> USE Sizes DEF ExabInit
<1>1. ClientType
  <2>1. at \in [Workers -> WorkerPlaces]
    BY DEF WorkerPlaces
  <2>2. closing \in BOOLEAN /\ freed \in BOOLEAN
    OBVIOUS
  <2>3. /\ started \in 0 .. Started /\ written \in 0 .. Requests
        /\ joined \in 0 .. Started /\ served \in Nat
        /\ failed \in 0 .. MaxFailures /\ spurious \in 0 .. SpuriousLimit
    OBVIOUS
  <2> QED
    BY <2>1, <2>2, <2>3 DEF ClientType
<1>2. Placement
  BY DEF Placement, Workers, Init
<1>3. Endings
  BY OutcomeAssumption, ExabAssumption DEF Endings, Init
<1>4. Joining
  BY DEF Joining, Workers
<1> QED
  BY <1>1, <1>2, <1>3, <1>4 DEF ClientInv

LEMMA ClientTypeStep ==
  ASSUME ClientType, [ExabNext]_exabVars
  PROVE  ClientType'
<1> USE Sizes DEF ClientType, WorkerPlaces
<1>1. CASE StartWorker \/ Join
  BY <1>1 DEF StartWorker, Join
<1>2. CASE SendNudge
  BY <1>2 DEF SendNudge
<1>3. CASE SendClose \/ FreePipe
  BY <1>3 DEF SendClose, FreePipe
<1>4. ASSUME NEW w \in Workers, WorkerRead(w) \/ WorkerReturn(w)
      PROVE  ClientType'
  BY <1>4 DEF WorkerRead, WorkerReturn
<1>5. ASSUME NEW w \in Workers, ExchangePanics(w)
      PROVE  ClientType'
  BY <1>5 DEF ExchangePanics, client
<1>6. ASSUME NEW w \in Workers, Exchange(w) \/ ConnectFails(w)
      PROVE  ClientType'
  BY <1>6 DEF Exchange, ConnectFails
<1>7. ASSUME NEW t \in Threads, PipeStep(t) \/ Spurious(t)
      PROVE  ClientType'
  BY <1>7 DEF PipeStep, Spurious, client
<1>8. CASE UNCHANGED exabVars
  BY <1>8 DEF exabVars, client
<1> QED
  BY <1>1, <1>2, <1>3, <1>4, <1>5, <1>6, <1>7, <1>8
  DEF ExabNext, Ended, MainStep, WorkerStep

(* Only a thread in c_body closes the pipe.                                *)
LEMMA WhoCloses ==
  ASSUME NEW t \in Threads, Step(t) \/ SpuriousWakeup(t), closed' # closed
  PROVE  pc[t] = "c_body" /\ closed' = TRUE
  BY DEF Step, SpuriousWakeup, Acquire, PreadTake, PreadEnd, PreadWait, SignalRead,
         PwritePanic, PwriteStore, PwriteWait, SignalWrote, Pclose, buffer

LEMMA PlacementStep ==
  ASSUME TypeInv, ClientType, Placement, [ExabNext]_exabVars
  PROVE  Placement'
<1> USE Sizes, ExabAssumption DEF Placement
<1>0. /\ pc \in [Threads -> Places] /\ at \in [Workers -> WorkerPlaces]
      /\ Workers \subseteq Nat /\ started \in Nat /\ written \in Nat
      /\ \A w \in Workers : w # Main
  BY DEF TypeInv, TypeOK, ClientType, Workers
<1>1. CASE StartWorker
  BY <1>0, <1>1 DEF StartWorker, vars
<1>2. CASE SendNudge
  <2>1. Goto(Main, "w_enter") /\ pc[Main] = "idle" /\ closed' = closed
    BY <1>2 DEF SendNudge, CallPwrite, buffer
  <2> QED
    BY <1>0, <1>2, <2>1 DEF SendNudge, Goto, WriterPlaces
<1>3. CASE SendClose
  BY <1>0, <1>3 DEF SendClose, CallPclose, Goto, buffer
<1>4. CASE Join \/ FreePipe
  BY <1>4 DEF Join, FreePipe, vars
<1>5. ASSUME NEW w \in Workers, WorkerRead(w)
      PROVE  Placement'
  BY <1>0, <1>5 DEF WorkerRead, CallPread, Goto, ReaderPlaces, buffer
<1>6. ASSUME NEW w \in Workers, WorkerReturn(w) \/ Exchange(w) \/ ConnectFails(w)
      PROVE  Placement'
  BY <1>0, <1>6 DEF WorkerReturn, Exchange, ConnectFails, vars
<1>7. ASSUME NEW w \in Workers, ExchangePanics(w)
      PROVE  Placement'
  BY <1>7 DEF ExchangePanics, PanicOutside, client, buffer
<1>8. ASSUME NEW t \in Threads, PipeStep(t) \/ Spurious(t)
      PROVE  Placement'
  <2>1. /\ Step(t) \/ SpuriousWakeup(t)
        /\ UNCHANGED <<started, written, closing, at>>
    BY <1>8 DEF PipeStep, Spurious, client
  <2>2. ASSUME NEW w \in Workers
        PROVE  /\ at'[w] # "reading" => pc'[w] = "idle"
               /\ pc'[w] \in ReaderPlaces \cup {"idle", "r_signal"}
               /\ w >= started' => at'[w] = "unborn"
    BY <2>1, WhereStepsLead
  <2>3. /\ pc'[Main] \in WriterPlaces \cup {"idle", "w_signal", "c_enter", "c_body"}
        /\ pc'[Main] \in {"c_enter", "c_body"} => closing'
        /\ closing' => written' = Requests /\ pc'[Main] \in {"idle", "c_enter", "c_body"}
    BY <2>1, WhereStepsLead DEF WriterPlaces
  <2>4. closed' => closing'
    BY <2>1, WhoCloses DEF ReaderPlaces
  <2> QED
    BY <2>2, <2>3, <2>4
<1>9. CASE UNCHANGED exabVars
  BY <1>9 DEF exabVars, vars, client
<1> QED
  BY <1>1, <1>2, <1>3, <1>4, <1>5, <1>6, <1>7, <1>8, <1>9
  DEF ExabNext, Ended, MainStep, WorkerStep

LEMMA JoiningStep ==
  ASSUME TypeInv, ClientType, Placement, Joining, [ExabNext]_exabVars
  PROVE  Joining'
<1> USE Sizes DEF Joining
<1>0. /\ at \in [Workers -> WorkerPlaces] /\ Workers \subseteq Nat
      /\ started \in 0 .. Started /\ joined \in 0 .. Started
  BY DEF ClientType, Workers
<1>1. CASE StartWorker
  BY <1>0, <1>1 DEF StartWorker, Placement, vars
<1>2. CASE SendNudge \/ SendClose
  BY <1>2 DEF SendNudge, SendClose, CallPwrite, CallPclose, Placement
<1>3. CASE Join
  BY <1>0, <1>3 DEF Join, vars
<1>4. CASE FreePipe
  BY <1>4 DEF FreePipe, vars
<1>5. ASSUME NEW w \in Workers, WorkerStep(w)
      PROVE  Joining'
  <2>1. /\ \A u \in Workers : at[u] = "exited" => at'[u] = "exited"
        /\ joined' = joined /\ freed' = freed /\ closing' = closing
        /\ pc'[Main] = pc[Main]
    <3>1. CASE WorkerRead(w)
      BY <1>0, <3>1 DEF WorkerRead, CallPread, Goto
    <3>2. CASE WorkerReturn(w) \/ Exchange(w) \/ ConnectFails(w)
      BY <1>0, <3>2 DEF WorkerReturn, Exchange, ConnectFails, vars
    <3>3. CASE ExchangePanics(w)
      BY <3>3 DEF ExchangePanics, PanicOutside, client
    <3> QED
      BY <1>5, <3>1, <3>2, <3>3 DEF WorkerStep
  <2> QED
    BY <2>1
<1>6. ASSUME NEW t \in Threads, PipeStep(t) \/ Spurious(t)
      PROVE  Joining'
  <2>1. /\ Step(t) \/ SpuriousWakeup(t)
        /\ UNCHANGED <<joined, freed, closing, at>>
    BY <1>6 DEF PipeStep, Spurious, client
  <2>2. pc[Main] = "idle" => pc'[Main] = "idle"
    BY <2>1, WhereStepsLead
  <2> QED
    BY <2>1, <2>2
<1>7. CASE UNCHANGED exabVars
  BY <1>7 DEF exabVars, vars, client
<1> QED
  BY <1>1, <1>2, <1>3, <1>4, <1>5, <1>6, <1>7 DEF ExabNext, Ended, MainStep

LEMMA EndingsStep ==
  ASSUME TypeInv, ClientType, Placement, Endings, [ExabNext]_exabVars
  PROVE  Endings'
<1> USE Sizes DEF Endings
<1>0. /\ pc \in [Threads -> Places] /\ at \in [Workers -> WorkerPlaces]
      /\ outcome \in [Workers -> Items \cup {Nothing, EndOfPipe}]
      /\ len \in Nat
  BY SizeAssumption, ExabAssumption DEF TypeInv, TypeOK, ClientType
<1>1. CASE StartWorker \/ Join \/ FreePipe
  BY <1>0, <1>1 DEF StartWorker, Join, FreePipe, vars, buffer
<1>2. CASE SendNudge \/ SendClose
  BY <1>0, <1>2 DEF SendNudge, SendClose, CallPwrite, CallPclose, Goto, buffer
<1>3. ASSUME NEW w \in Workers, WorkerRead(w)
      PROVE  Endings'
  BY <1>0, <1>3 DEF WorkerRead, CallPread, Goto, buffer
<1>4. ASSUME NEW w \in Workers, WorkerReturn(w)
      PROVE  Endings'
  BY <1>0, <1>4 DEF WorkerReturn, vars, buffer
<1>5. ASSUME NEW w \in Workers, Exchange(w) \/ ConnectFails(w)
      PROVE  Endings'
  BY <1>0, <1>5 DEF Exchange, ConnectFails, vars, buffer
<1>6. ASSUME NEW w \in Workers, ExchangePanics(w)
      PROVE  Endings'
  BY <1>6 DEF ExchangePanics, PanicOutside, client, buffer
<1>7. ASSUME NEW t \in Threads, Step(t) \/ SpuriousWakeup(t), at' = at
      PROVE  Endings'
  <2> USE DEF Goto, Unlock, buffer
  <2>1. CASE Acquire(t)
    BY <1>0, <1>7, <2>1 DEF Acquire
  <2>2. CASE PreadTake(t)
    <3>1. items[start] # EndOfPipe
      BY OutcomeAssumption DEF TypeInv, TypeOK
    <3>2. t \in Workers /\ at[t] # "connecting"
      BY <2>2, ExabAssumption DEF PreadTake, TypeInv, Discipline, ReaderPlaces, Placement
    <3> QED
      BY <1>0, <1>7, <2>2, <3>1, <3>2 DEF PreadTake
  <2>3. CASE PreadEnd(t)
    <3>1. t \in Workers /\ at[t] # "connecting"
      BY <2>3, ExabAssumption DEF PreadEnd, TypeInv, Discipline, ReaderPlaces, Placement
    <3> QED
      BY <1>0, <1>7, <2>3, <3>1 DEF PreadEnd
  <2>4. CASE PreadWait(t) \/ PwritePanic(t) \/ PwriteWait(t)
    BY <1>0, <1>7, <2>4 DEF PreadWait, PwritePanic, PwriteWait
  <2>5. CASE PwriteStore(t)
    <3>1. pc[t] \in WriterPlaces
      BY <2>5 DEF PwriteStore, MayStore, WriterPlaces
    <3>2. ~closed
      BY <3>1, ExabAssumption DEF Placement, WriterPlaces, ReaderPlaces
    <3> QED
      BY <1>0, <1>7, <2>5, <3>2 DEF PwriteStore
  <2>6. CASE SignalRead(t) \/ SignalWrote(t)
    BY <1>0, <1>7, <2>6 DEF SignalRead, SignalWrote, WakeOne, At
  <2>7. CASE Pclose(t)
    BY <1>0, <1>7, <2>7 DEF Pclose
  <2>8. CASE SpuriousWakeup(t)
    BY <1>0, <1>7, <2>8 DEF SpuriousWakeup
  <2> QED
    BY <1>7, <2>1, <2>2, <2>3, <2>4, <2>5, <2>6, <2>7, <2>8 DEF Step
<1>8. CASE UNCHANGED exabVars
  BY <1>8 DEF exabVars, vars, client, buffer
<1> QED
  BY <1>1, <1>2, <1>3, <1>4, <1>5, <1>6, <1>7, <1>8
  DEF ExabNext, Ended, MainStep, WorkerStep, PipeStep, Spurious, client

LEMMA ClientStep == TypeInv /\ ClientInv /\ [ExabNext]_exabVars => ClientInv'
  BY ClientTypeStep, PlacementStep, EndingsStep, JoiningStep DEF ClientInv

-----------------------------------------------------------------------------
(***************************************************************************)
(* Counting the nudges.                                                    *)
(***************************************************************************)

(* Two sets of workers that agree on all but one worker.                   *)
LEMMA OneWorker ==
  ASSUME NEW S \in SUBSET Workers, NEW T \in SUBSET Workers, NEW w \in Workers,
         \A u \in Workers : u # w => (u \in S <=> u \in T)
  PROVE  /\ Cardinality(S) \in Nat /\ Cardinality(T) \in Nat
         /\ Cardinality(T) = Cardinality(S) + (IF w \in T THEN 1 ELSE 0)
                                            - (IF w \in S THEN 1 ELSE 0)
<1>1. IsFiniteSet(S) /\ IsFiniteSet(T)
  BY Sizes, FS_Subset
<1>2. Cardinality(S) \in Nat /\ Cardinality(T) \in Nat
  BY <1>1, FS_CardinalityType
<1>3. CASE w \in T
  <2>1. T = S \cup {w}
    BY <1>3
  <2> QED
    BY <1>1, <1>2, <1>3, <2>1, FS_AddElement
<1>4. CASE w \notin T
  <2>1. T = S \ {w}
    BY <1>4
  <2> QED
    BY <1>1, <1>2, <1>4, <2>1, FS_RemoveElement
<1> QED
  BY <1>3, <1>4

LEMMA CountsAreNumbers ==
  Cardinality(InHand) \in Nat /\ Cardinality(Refused) \in Nat
<1>1. InHand \subseteq Workers /\ Refused \subseteq Workers
  BY DEF InHand, Refused
<1> QED
  BY <1>1, Sizes, FS_Subset, FS_CardinalityType

(* What the accounts are about.                                            *)
Accounts ==
  /\ EachNudgeAccounted
  /\ failed = Cardinality(Refused)

LEMMA AccountsInit == ExabInit => Accounts
<1> SUFFICES ASSUME ExabInit
             PROVE  Accounts
  OBVIOUS
<1>1. InHand = {} /\ Refused = {}
  BY DEF ExabInit, InHand, Refused
<1>2. Cardinality({}) = 0
  BY FS_EmptySet
<1>3. Stored = 0
  <2>1. pc[Main] = "idle" /\ written = 0
    BY Sizes DEF ExabInit, Init
  <2>2. pc[Main] \notin {"w_enter", "w_check", "w_loop", "w_asleep", "w_woken"}
    BY <2>1
  <2>3. Stored = 0 - 0
    BY <2>1, <2>2 DEF Stored
  <2> QED
    BY <2>3
<1> QED
  BY <1>1, <1>2, <1>3 DEF ExabInit, Init, Accounts, EachNudgeAccounted

(* A step that leaves the accounts alone.                                  *)
LEMMA AccountsKept ==
  ASSUME Accounts, Stored' = Stored, InHand' = InHand, Refused' = Refused,
         UNCHANGED <<len, served, failed>>
  PROVE  Accounts'
  BY DEF Accounts, EachNudgeAccounted

LEMMA AccountsClientStep ==
  ASSUME TypeInv, ClientInv, Accounts, MainStep \/ \E w \in Workers : WorkerStep(w)
  PROVE  Accounts'
<1> USE Sizes
<1>0. /\ pc \in [Threads -> Places] /\ at \in [Workers -> WorkerPlaces]
      /\ len \in Nat /\ written \in Nat /\ served \in Nat /\ failed \in Nat
      /\ Stored \in Int
      /\ Cardinality(InHand) \in Nat /\ Cardinality(Refused) \in Nat
  BY SizeAssumption, CountsAreNumbers DEF TypeInv, TypeOK, ClientInv, ClientType, Stored
<1>1. CASE StartWorker
  <2>1. at[started] = "unborn" /\ started \in Workers
    BY <1>1 DEF StartWorker, ClientInv, ClientType, Placement, Workers
  <2>2. InHand' = InHand /\ Refused' = Refused /\ Stored' = Stored
    BY <1>0, <1>1, <2>1 DEF StartWorker, vars, InHand, Refused, Stored
  <2> QED
    BY <1>1, <2>2, AccountsKept DEF StartWorker, vars
<1>2. CASE SendNudge
  <2>1. /\ pc[Main] = "idle" /\ pc' = [pc EXCEPT ![Main] = "w_enter"]
        /\ UNCHANGED <<at, outcome, len, served, failed>> /\ written' = written + 1
    BY <1>2 DEF SendNudge, CallPwrite, Goto, buffer
  <2>2. InHand' = InHand /\ Refused' = Refused /\ Stored' = Stored
    BY <1>0, <2>1 DEF InHand, Refused, Stored
  <2> QED
    BY <2>1, <2>2, AccountsKept
<1>3. CASE SendClose
  <2>1. /\ pc[Main] = "idle" /\ pc' = [pc EXCEPT ![Main] = "c_enter"]
        /\ UNCHANGED <<at, outcome, len, served, failed, written>>
    BY <1>3 DEF SendClose, CallPclose, Goto, buffer
  <2>2. InHand' = InHand /\ Refused' = Refused /\ Stored' = Stored
    BY <1>0, <2>1 DEF InHand, Refused, Stored
  <2> QED
    BY <2>1, <2>2, AccountsKept
<1>4. CASE Join \/ FreePipe
  <2>1. UNCHANGED <<pc, outcome, at, len, served, failed, written>>
    BY <1>4 DEF Join, FreePipe, vars
  <2> QED
    BY <2>1, AccountsKept DEF InHand, Refused, Stored
<1>5. ASSUME NEW w \in Workers, WorkerRead(w)
      PROVE  Accounts'
  <2>1. /\ at[w] = "loop" /\ at' = [at EXCEPT ![w] = "reading"]
        /\ pc' = [pc EXCEPT ![w] = "r_enter"]
        /\ UNCHANGED <<outcome, len, served, failed, written>>
    BY <1>5 DEF WorkerRead, CallPread, Goto, buffer
  <2>2. InHand' = InHand /\ Refused' = Refused /\ Stored' = Stored
    BY <1>0, <2>1 DEF InHand, Refused, Stored
  <2> QED
    BY <2>1, <2>2, AccountsKept
<1>6. ASSUME NEW w \in Workers, WorkerReturn(w)
      PROVE  Accounts'
  <2>1. /\ at[w] = "reading" /\ pc[w] = "idle"
        /\ at' = [at EXCEPT ![w] = IF outcome[w] = EndOfPipe THEN "exited" ELSE "connecting"]
        /\ UNCHANGED <<pc, outcome, len, served, failed, written>>
    BY <1>6 DEF WorkerReturn, vars, buffer
  <2>2. InHand' = InHand /\ Refused' = Refused /\ Stored' = Stored
    BY <1>0, <2>1 DEF InHand, Refused, Stored
  <2> QED
    BY <2>1, <2>2, AccountsKept
<1>7. ASSUME NEW w \in Workers, Exchange(w)
      PROVE  Accounts'
  <2>1. /\ at[w] = "connecting" /\ at' = [at EXCEPT ![w] = "loop"]
        /\ UNCHANGED <<pc, outcome, len, failed, written>> /\ served' = served + 1
    BY <1>7 DEF Exchange, vars, buffer
  <2>2. Refused' = Refused /\ Stored' = Stored
    BY <1>0, <2>1 DEF Refused, Stored
  <2>3. Cardinality(InHand') = Cardinality(InHand) - 1
    <3>1. InHand \in SUBSET Workers /\ InHand' \in SUBSET Workers
      BY DEF InHand
    <3>2. \A u \in Workers : u # w => (u \in InHand <=> u \in InHand')
      BY <1>0, <2>1 DEF InHand
    <3>3. w \in InHand /\ w \notin InHand'
      BY <1>0, <2>1 DEF InHand
    <3> QED
      BY <1>0, <3>1, <3>2, <3>3, OneWorker
  <2> QED
    BY <1>0, <2>1, <2>2, <2>3 DEF Accounts, EachNudgeAccounted
<1>8. ASSUME NEW w \in Workers, ConnectFails(w)
      PROVE  Accounts'
  <2>1. /\ at[w] = "connecting" /\ at' = [at EXCEPT ![w] = "exited"]
        /\ UNCHANGED <<pc, outcome, len, served, written>> /\ failed' = failed + 1
    BY <1>8 DEF ConnectFails, vars, buffer
  <2>2. Stored' = Stored
    BY <2>1 DEF Stored
  <2>3. Cardinality(InHand') = Cardinality(InHand) - 1
    <3>1. InHand \in SUBSET Workers /\ InHand' \in SUBSET Workers
      BY DEF InHand
    <3>2. \A u \in Workers : u # w => (u \in InHand <=> u \in InHand')
      BY <1>0, <2>1 DEF InHand
    <3>3. w \in InHand /\ w \notin InHand'
      BY <1>0, <2>1 DEF InHand
    <3> QED
      BY <1>0, <3>1, <3>2, <3>3, OneWorker
  <2>4. Cardinality(Refused') = Cardinality(Refused) + 1
    <3>1. Refused \in SUBSET Workers /\ Refused' \in SUBSET Workers
      BY DEF Refused
    <3>2. \A u \in Workers : u # w => (u \in Refused <=> u \in Refused')
      BY <1>0, <2>1 DEF Refused
    <3>3. outcome[w] # EndOfPipe
      BY <2>1 DEF ClientInv, Endings
    <3>4. w \notin Refused /\ w \in Refused'
      BY <1>0, <2>1, <3>3 DEF Refused
    <3> QED
      BY <1>0, <3>1, <3>2, <3>4, OneWorker
  <2> QED
    BY <1>0, <2>1, <2>2, <2>3, <2>4 DEF Accounts, EachNudgeAccounted
<1>9. ASSUME NEW w \in Workers, ExchangePanics(w)
      PROVE  Accounts'
  <2>1. UNCHANGED <<pc, outcome, at, len, served, failed, written>>
    BY <1>9 DEF ExchangePanics, PanicOutside, client, buffer
  <2> QED
    BY <2>1, AccountsKept DEF InHand, Refused, Stored
<1> QED
  BY <1>1, <1>2, <1>3, <1>4, <1>5, <1>6, <1>7, <1>8, <1>9 DEF MainStep, WorkerStep

(* A step inside the pipe by which no nudge enters or leaves it.           *)
LEMMA AccountsPipeKept ==
  ASSUME TypeInv, ClientInv, Accounts, ClientInv',
         UNCHANGED <<at, outcome, written, served, failed, len>>,
         pc[Main] \in WriterPlaces <=> pc'[Main] \in WriterPlaces,
         \A w \in Workers : pc[w] \in {"idle", "r_signal"} <=> pc'[w] \in {"idle", "r_signal"}
  PROVE  Accounts'
<1>1. /\ InHand = {w \in Workers : outcome[w] # EndOfPipe /\
                      (at[w] = "connecting" \/ (at[w] = "reading" /\ pc[w] \in {"idle", "r_signal"}))}
      /\ InHand' = {w \in Workers : outcome'[w] # EndOfPipe /\
                      (at'[w] = "connecting" \/ (at'[w] = "reading" /\ pc'[w] \in {"idle", "r_signal"}))}
  BY DEF InHand, ClientInv, Endings
<1>2. InHand' = InHand
  BY <1>1
<1>3. Refused' = Refused
  BY DEF Refused
<1>4. Stored' = Stored
  BY DEF Stored, WriterPlaces
<1> QED
  BY <1>2, <1>3, <1>4, AccountsKept

LEMMA AccountsPipeStep ==
  ASSUME TypeInv, ClientInv, Accounts, ClientInv',
         NEW t \in Threads, Step(t) \/ SpuriousWakeup(t), UNCHANGED <<at, written, served, failed>>
  PROVE  Accounts'
<1> USE Sizes, ExabAssumption
<1>0. /\ pc \in [Threads -> Places] /\ at \in [Workers -> WorkerPlaces]
      /\ outcome \in [Workers -> Items \cup {Nothing, EndOfPipe}]
      /\ len \in Nat /\ written \in Nat /\ served \in Nat /\ failed \in Nat
      /\ Stored \in Int
      /\ Cardinality(InHand) \in Nat /\ Cardinality(Refused) \in Nat
  BY SizeAssumption, CountsAreNumbers DEF TypeInv, TypeOK, ClientInv, ClientType, Stored
<1>1. CASE Acquire(t) \/ PreadWait(t) \/ PwriteWait(t) \/ SpuriousWakeup(t)
  BY <1>0, <1>1, AccountsPipeKept
  DEF Acquire, PreadWait, PwriteWait, SpuriousWakeup, MayStore, Goto, Unlock, buffer,
      WriterPlaces, Entering, Woken, Asleep
<1>2. CASE PwritePanic(t)
  BY <1>2, AccountsPipeKept DEF PwritePanic, buffer
<1>3. CASE SignalRead(t)
  <2>1. /\ UNCHANGED <<outcome, len>> /\ pc[t] = "r_signal"
        /\ \/ pc' = [pc EXCEPT ![t] = "idle"]
           \/ \E u \in Threads : pc[u] = "w_asleep" /\ pc' = [pc EXCEPT ![t] = "idle", ![u] = "w_woken"]
    BY <1>3 DEF SignalRead, WakeOne, At, Goto, buffer
  <2>2. pc[Main] \in WriterPlaces <=> pc'[Main] \in WriterPlaces
    BY <1>0, <2>1 DEF WriterPlaces
  <2>3. \A w \in Workers : pc[w] \in {"idle", "r_signal"} <=> pc'[w] \in {"idle", "r_signal"}
    BY <1>0, <2>1
  <2> QED
    BY <2>1, <2>2, <2>3, AccountsPipeKept
<1>4. CASE SignalWrote(t)
  <2>1. /\ UNCHANGED <<outcome, len>> /\ pc[t] = "w_signal"
        /\ \/ pc' = [pc EXCEPT ![t] = "idle"]
           \/ \E u \in Threads : pc[u] = "r_asleep" /\ pc' = [pc EXCEPT ![t] = "idle", ![u] = "r_woken"]
    BY <1>4 DEF SignalWrote, WakeOne, At, Goto, buffer
  <2>2. t = Main
    BY <2>1 DEF ClientInv, Placement, ReaderPlaces
  <2>3. pc[Main] \in WriterPlaces <=> pc'[Main] \in WriterPlaces
    BY <1>0, <2>1 DEF WriterPlaces
  <2>4. \A w \in Workers : pc[w] \in {"idle", "r_signal"} <=> pc'[w] \in {"idle", "r_signal"}
    BY <1>0, <2>1, <2>2
  <2> QED
    BY <2>1, <2>3, <2>4, AccountsPipeKept
<1>5. CASE Pclose(t)
  <2>1. /\ UNCHANGED <<outcome, len>> /\ pc[t] = "c_body" /\ pc'[t] = "idle"
        /\ \A u \in Threads \ {t} : IF pc[u] = "r_asleep" THEN pc'[u] = "r_woken" ELSE pc'[u] = pc[u]
    BY <1>0, <1>5 DEF Pclose
  <2>2. t = Main
    BY <2>1 DEF ClientInv, Placement, ReaderPlaces
  <2>3. pc[Main] \in WriterPlaces <=> pc'[Main] \in WriterPlaces
    BY <2>1, <2>2 DEF WriterPlaces
  <2>4. \A w \in Workers : pc[w] \in {"idle", "r_signal"} <=> pc'[w] \in {"idle", "r_signal"}
    BY <2>1, <2>2
  <2> QED
    BY <2>1, <2>3, <2>4, AccountsPipeKept
<1>6. CASE PreadEnd(t)
  <2>1. t \in Workers /\ at[t] = "reading"
    BY <1>6 DEF PreadEnd, TypeInv, Discipline, ReaderPlaces, ClientInv, Placement
  <2>2. /\ pc[t] = "r_loop" /\ pc' = [pc EXCEPT ![t] = "idle"]
        /\ outcome' = [outcome EXCEPT ![t] = EndOfPipe] /\ UNCHANGED len
    BY <1>6 DEF PreadEnd, Unlock, Goto, buffer
  <2>3. InHand' = InHand /\ Refused' = Refused /\ Stored' = Stored
    BY <1>0, <2>1, <2>2 DEF InHand, Refused, Stored
  <2> QED
    BY <2>2, <2>3, AccountsKept
<1>7. CASE PreadTake(t)
  <2>1. t \in Workers /\ at[t] = "reading"
    BY <1>7 DEF PreadTake, TypeInv, Discipline, ReaderPlaces, ClientInv, Placement
  <2>2. /\ pc[t] = "r_loop" /\ pc' = [pc EXCEPT ![t] = "r_signal"]
        /\ outcome' = [outcome EXCEPT ![t] = items[start]] /\ len' = len - 1 /\ len > 0
    BY <1>7 DEF PreadTake, Unlock, Goto
  <2>3. Refused' = Refused /\ Stored' = Stored
    BY <1>0, <2>1, <2>2 DEF Refused, Stored
  <2>4. Cardinality(InHand') = Cardinality(InHand) + 1
    <3>1. InHand \in SUBSET Workers /\ InHand' \in SUBSET Workers
      BY DEF InHand
    <3>2. \A u \in Workers : u # t => (u \in InHand <=> u \in InHand')
      BY <1>0, <2>1, <2>2 DEF InHand
    <3>3. t \notin InHand /\ t \in InHand'
      BY <1>0, <2>1, <2>2 DEF InHand
    <3> QED
      BY <1>0, <2>1, <3>1, <3>2, <3>3, OneWorker
  <2> QED
    BY <1>0, <2>2, <2>3, <2>4 DEF Accounts, EachNudgeAccounted
<1>8. CASE PwriteStore(t)
  <2>1. /\ pc[t] \in WriterPlaces /\ pc' = [pc EXCEPT ![t] = "w_signal"]
        /\ UNCHANGED outcome /\ len' = len + 1
    BY <1>8 DEF PwriteStore, MayStore, Unlock, Goto, WriterPlaces
  <2>2. t = Main
    BY <2>1 DEF ClientInv, Placement, WriterPlaces, ReaderPlaces
  <2>3. Stored' = Stored + 1
    BY <1>0, <2>1, <2>2 DEF Stored, WriterPlaces
  <2>4. InHand' = InHand /\ Refused' = Refused
    BY <1>0, <2>1, <2>2 DEF InHand, Refused
  <2> QED
    BY <1>0, <2>1, <2>3, <2>4 DEF Accounts, EachNudgeAccounted
<1> QED
  BY <1>1, <1>2, <1>3, <1>4, <1>5, <1>6, <1>7, <1>8 DEF Step

LEMMA AccountsStep ==
  TypeInv /\ ClientInv /\ Accounts /\ ClientInv' /\ [ExabNext]_exabVars => Accounts'
<1> SUFFICES ASSUME TypeInv, ClientInv, Accounts, ClientInv', [ExabNext]_exabVars
             PROVE  Accounts'
  OBVIOUS
<1>1. CASE MainStep \/ \E w \in Workers : WorkerStep(w)
  BY <1>1, AccountsClientStep
<1>2. ASSUME NEW t \in Threads, PipeStep(t) \/ Spurious(t)
      PROVE  Accounts'
  BY <1>2, AccountsPipeStep DEF PipeStep, Spurious, client
<1>3. CASE UNCHANGED exabVars
  <2>1. UNCHANGED <<pc, outcome, at, len, served, failed, written>>
    BY <1>3 DEF exabVars, vars, client
  <2> QED
    BY <2>1, AccountsKept DEF InHand, Refused, Stored
<1> QED
  BY <1>1, <1>2, <1>3 DEF ExabNext, Ended

-----------------------------------------------------------------------------
(***************************************************************************)
(* Theorems.                                                               *)
(***************************************************************************)

ExabInv == TypeInv /\ ClientInv /\ Accounts

LEMMA ExabInvariant == ExabSpec => []ExabInv
<1>1. ExabInit => ExabInv
  BY InitTypeInv, ClientInit, AccountsInit DEF ExabInit, ExabInv
<1>2. ExabInv /\ [ExabNext]_exabVars => ExabInv'
  <2> SUFFICES ASSUME ExabInv, [ExabNext]_exabVars
               PROVE  ExabInv'
    OBVIOUS
  <2>1. TypeInv'
    BY PipeSteps, NextTypeInv DEF ExabInv, ClientInv
  <2>2. ClientInv'
    BY ClientStep DEF ExabInv
  <2>3. Accounts'
    BY <2>2, AccountsStep DEF ExabInv
  <2> QED
    BY <2>1, <2>2, <2>3 DEF ExabInv
<1> QED
  BY <1>1, <1>2, PTL DEF ExabSpec

(* exab uses the pipe as ThreadPipe lets its threads use it: what is       *)
(* proved of the pipe holds of the pipe inside exab.                       *)
THEOREM ExabUsesThePipe == ExabSpec => Spec
<1>1. ExabInit => Init
  BY DEF ExabInit
<1>2. ExabInv /\ [ExabNext]_exabVars => [Next]_vars
  BY PipeSteps DEF ExabInv, ClientInv
<1> QED
  BY <1>1, <1>2, ExabInvariant, PTL DEF ExabSpec, Spec

(* main is the only writer and the one who closes, so nothing is stored    *)
(* after a worker was told that there is no more (threads.c line 172), no  *)
(* wakeup is lost while main or a worker sleeps, and the nudges go through *)
(* a bounded first-in first-out queue.                                     *)
THEOREM ExabPipeIsSafe ==
  ExabSpec => NothingStoredAfterClose /\ []NoLostWakeup /\ ImplementsQueue
<1>1. Spec => NothingStoredAfterClose
  BY ExabAssumption, LoneWriterStoresNothingAfterClose
<1> QED
  BY <1>1, ExabUsesThePipe, WakeupsAreNotLost, PipeImplementsQueue, PTL

(* Every nudge main has put into the pipe is in the pipe, in the hand of   *)
(* one worker, served, or lost to a failed connect.                        *)
THEOREM NudgesAreAccounted == ExabSpec => []EachNudgeAccounted
<1>1. ExabInv => EachNudgeAccounted
  BY DEF ExabInv, Accounts
<1> QED
  BY <1>1, ExabInvariant, PTL

(* main frees the pipe (line 99) when every worker has left its loop and   *)
(* none is inside pread: not even on its way to a signal.                  *)
THEOREM FreedPipeIsUnused == ExabSpec => []FreedPipeUnused
<1>1. ExabInv => FreedPipeUnused
  <2> SUFFICES ASSUME ExabInv, freed, NEW w \in Workers
               PROVE  at[w] = "exited" /\ pc[w] = "idle"
    BY DEF FreedPipeUnused
  <2>1. joined = Started
    BY DEF ExabInv, ClientInv, Joining
  <2>2. w < joined
    BY <2>1, Sizes DEF Workers
  <2>3. at[w] = "exited"
    BY <2>2 DEF ExabInv, ClientInv, Joining
  <2> QED
    BY <2>3 DEF ExabInv, ClientInv, Placement
<1> QED
  BY <1>1, ExabInvariant, PTL

(* When fewer connects fail than there are workers, an exab that ends has  *)
(* made every request it was asked for, save one for each failed connect.  *)
THEOREM EndedRunServedAll ==
  ASSUME MaxFailures < Started
  PROVE  ExabSpec => []AllServedAtEnd
<1>1. ExabInv => AllServedAtEnd
  <2> SUFFICES ASSUME ExabInv, freed
               PROVE  served + failed = Requests
    BY DEF AllServedAtEnd
  <2>0. /\ len \in Nat /\ served \in Nat /\ failed \in 0 .. MaxFailures /\ Requests \in Nat
        /\ Started \in Nat /\ MaxFailures \in Nat
    BY Sizes, SizeAssumption DEF ExabInv, TypeInv, TypeOK, ClientInv, ClientType
  <2>1. joined = Started /\ closing /\ pc[Main] = "idle"
    BY DEF ExabInv, ClientInv, Joining
  <2>2. \A w \in Workers : at[w] = "exited" /\ pc[w] = "idle"
    <3> SUFFICES ASSUME NEW w \in Workers
                 PROVE  at[w] = "exited" /\ pc[w] = "idle"
      OBVIOUS
    <3>1. w < joined
      BY <2>1, Sizes DEF Workers
    <3> QED
      BY <3>1 DEF ExabInv, ClientInv, Joining, Placement
  <2>3. Cardinality(InHand) = 0
    <3>1. InHand = {}
      BY <2>2 DEF InHand
    <3> QED
      BY <3>1, FS_EmptySet
  <2>4. Stored = Requests
    <3>1. written = Requests
      BY <2>1 DEF ExabInv, ClientInv, Placement
    <3>2. pc[Main] \notin {"w_enter", "w_check", "w_loop", "w_asleep", "w_woken"}
      BY <2>1
    <3>3. Stored = Requests - 0
      BY <3>1, <3>2 DEF Stored
    <3> QED
      BY <2>0, <3>3
  <2>5. PICK w \in Workers : outcome[w] = EndOfPipe
    <3> SUFFICES ASSUME \A w \in Workers : outcome[w] # EndOfPipe
                 PROVE  FALSE
      OBVIOUS
    <3>1. Refused = Workers
      BY <2>2 DEF Refused
    <3>2. failed = Started
      BY <3>1, Sizes DEF ExabInv, Accounts
    <3> QED
      BY <2>0, <3>2
  <2>6. len = 0
    BY <2>5 DEF ExabInv, ClientInv, Endings
  <2> QED
    BY <2>0, <2>3, <2>4, <2>6 DEF ExabInv, Accounts, EachNudgeAccounted
<1> QED
  BY <1>1, ExabInvariant, PTL

(* Every variable of main and the workers keeps its type; no more requests *)
(* are made than asked for.                                                *)
THEOREM ExabTypesHold == ExabSpec => []ExabTypeOK
<1>1. ExabInv => ExabTypeOK
  <2> SUFFICES ASSUME ExabInv
               PROVE  ExabTypeOK
    OBVIOUS
  <2>1. TypeOK /\ ClientType
    BY DEF ExabInv, TypeInv, ClientInv
  <2>2. served \in 0 .. Requests
    <3>0. /\ len \in Nat /\ served \in Nat /\ failed \in Nat /\ written \in 0 .. Requests
          /\ Requests \in Nat /\ Cardinality(InHand) \in Nat
      BY <2>1, Sizes, SizeAssumption, CountsAreNumbers DEF TypeOK, ClientType
    <3>1. Stored <= written /\ Stored \in Int
      BY <3>0 DEF Stored
    <3> QED
      BY <3>0, <3>1 DEF ExabInv, Accounts, EachNudgeAccounted
  <2> QED
    BY <2>1, <2>2 DEF ExabTypeOK, ClientType
<1> QED
  BY <1>1, ExabInvariant, PTL
=============================================================================
