-------------------------- MODULE ThreadPipe_proofs --------------------------
(***************************************************************************)
(* Theorems about the pipe of lib/os/threads.c, for any finite set of      *)
(* threads, any division of them into readers, writers and closers, any    *)
(* items and any number of slots.                                          *)
(***************************************************************************)
EXTENDS ThreadPipe, FiniteSetTheorems, SequenceTheorems, TLAPS

ReaderPlaces == {"r_enter", "r_loop", "r_asleep", "r_woken"}
WriterPlaces == {"w_enter", "w_check", "w_loop", "w_asleep", "w_woken"}

(* The mutex is held by the thread inside the critical section and by no   *)
(* other; a thread is only where it may be, with an item to write.         *)
Discipline ==
  /\ \A t \in Threads : pc[t] \in Inside <=> lock = t
  /\ \A t \in Threads : pc[t] \in ReaderPlaces => t \in Readers
  /\ \A t \in Threads : pc[t] \in WriterPlaces => data[t] \in Items

TypeInv == TypeOK /\ Discipline

LEMMA ModSmall ==
  ASSUME NEW n \in Nat \ {0}, NEW x \in 0 .. n - 1
  PROVE  x % n = x
  OBVIOUS

LEMMA ModRange ==
  ASSUME NEW n \in Nat \ {0}, NEW x \in Nat
  PROVE  x % n \in 0 .. n - 1
  OBVIOUS

LEMMA ModLarge ==
  ASSUME NEW n \in Nat \ {0}, NEW x \in n .. 2 * n - 1
  PROVE  x % n = x - n
  OBVIOUS

-----------------------------------------------------------------------------

LEMMA InitTypeInv == Init => TypeInv
<1> SUFFICES ASSUME Init
             PROVE  TypeInv
  OBVIOUS
<1>1. TypeOK
  <2>1. pc \in [Threads -> Places] /\ lock \in Threads \cup {NoOne}
    BY DEF Init, Places
  <2>2. start \in 0 .. THPIPESIZE - 1 /\ len \in 0 .. THPIPESIZE
    BY SizeAssumption DEF Init
  <2>3. items \in [0 .. THPIPESIZE - 1 -> Items \cup {Nothing}]
    BY DEF Init
  <2>4. data \in [Threads -> Items \cup {Nothing}]
    BY DEF Init
  <2>5. outcome \in [Readers -> Items \cup {Nothing, EndOfPipe}]
    BY DEF Init
  <2> QED
    BY <2>1, <2>2, <2>3, <2>4, <2>5 DEF Init, TypeOK
<1>2. Discipline
  BY ThreadsAssumption DEF Init, Discipline, Inside, ReaderPlaces, WriterPlaces
<1> QED
  BY <1>1, <1>2 DEF TypeInv

LEMMA NextTypeInv == TypeInv /\ [Next]_vars => TypeInv'
<1> USE ThreadsAssumption, SizeAssumption
    DEF TypeInv, TypeOK, Discipline, Places, Entering, Woken, Inside, Asleep,
        Signaling, ReaderPlaces, WriterPlaces, buffer, Goto, Unlock
<1> SUFFICES ASSUME TypeInv, [Next]_vars
             PROVE  TypeInv'
  OBVIOUS
<1>1. ASSUME NEW t \in Threads, Call(t)
      PROVE  TypeInv'
  BY <1>1 DEF Call, CallPread, CallPwrite, CallPclose
<1>2. ASSUME NEW t \in Threads, PanicOutside(t)
       PROVE  TypeInv'
  BY <1>2 DEF PanicOutside
<1>3. ASSUME NEW t \in Threads, Acquire(t)
      PROVE  TypeInv'
  BY <1>3 DEF Acquire
<1>4. ASSUME NEW t \in Threads, PreadTake(t)
      PROVE  TypeInv'
  BY <1>4, ModRange DEF PreadTake
<1>5. ASSUME NEW t \in Threads, PreadEnd(t) \/ PreadWait(t)
      PROVE  TypeInv'
  BY <1>5 DEF PreadEnd, PreadWait
<1>6. ASSUME NEW t \in Threads, PwritePanic(t) \/ PwriteWait(t)
      PROVE  TypeInv'
  BY <1>6 DEF PwritePanic, PwriteWait, MayStore
<1>7. ASSUME NEW t \in Threads, PwriteStore(t)
      PROVE  TypeInv'
  BY <1>7, ModRange DEF PwriteStore, MayStore
<1>8. ASSUME NEW t \in Threads, SignalRead(t)
      PROVE  TypeInv'
  BY <1>8 DEF SignalRead, WakeOne, At
<1>9. ASSUME NEW t \in Threads, SignalWrote(t)
      PROVE  TypeInv'
  BY <1>9 DEF SignalWrote, WakeOne, At
<1>10. ASSUME NEW t \in Threads, Pclose(t)
      PROVE  TypeInv'
  BY <1>10 DEF Pclose
<1>11. ASSUME NEW t \in Threads, SpuriousWakeup(t)
       PROVE  TypeInv'
  BY <1>11 DEF SpuriousWakeup
<1>12. CASE UNCHANGED vars
  BY <1>12 DEF vars
<1> QED
  BY <1>1, <1>2, <1>3, <1>4, <1>5, <1>6, <1>7, <1>8, <1>9, <1>10, <1>11, <1>12
  DEF Next, Step, Panicked

(* Every variable keeps its type, the mutex is held exactly by the thread  *)
(* inside a critical section, and only readers are inside pread.           *)
THEOREM TypeCorrect == Spec => []TypeInv
<1>1. Init => TypeInv
  BY InitTypeInv
<1>2. TypeInv /\ [Next]_vars => TypeInv'
  BY NextTypeInv
<1> QED
  BY <1>1, <1>2, PTL DEF Spec

(* In particular the write and read positions wrap inside the ring and len *)
(* never passes the number of slots.                                       *)
THEOREM TypesHold == Spec => []TypeOK
  BY TypeCorrect, PTL DEF TypeInv
-----------------------------------------------------------------------------
(***************************************************************************)
(* Counting the threads at some places.                                    *)
(***************************************************************************)

Count(f, places) == Cardinality({t \in Threads : f[t] \in places})

LEMMA CountType ==
  ASSUME NEW f, NEW places
  PROVE  /\ IsFiniteSet({t \in Threads : f[t] \in places})
         /\ Count(f, places) \in Nat
  BY ThreadsAssumption, FS_Subset, FS_CardinalityType DEF Count

(* A thread that moves is counted where it arrives and no longer where it  *)
(* was.                                                                    *)
LEMMA CountMove ==
  ASSUME NEW f, NEW g, NEW t \in Threads,
         \A x \in Threads : x # t => g[x] = f[x],
         NEW places
  PROVE  Count(g, places) = Count(f, places) + (IF g[t] \in places THEN 1 ELSE 0)
                                             - (IF f[t] \in places THEN 1 ELSE 0)
<1> DEFINE S == {x \in Threads : f[x] \in places}
           T == {x \in Threads : g[x] \in places}
<1>1. IsFiniteSet(S) /\ Cardinality(S) \in Nat
  BY CountType DEF Count
<1>2. Count(f, places) = Cardinality(S) /\ Count(g, places) = Cardinality(T)
  BY DEF Count
<1>3. t \in S <=> f[t] \in places
  OBVIOUS
<1>4. CASE g[t] \in places
  <2>1. T = S \cup {t}
    BY <1>4
  <2>2. Cardinality(T) = IF t \in S THEN Cardinality(S) ELSE Cardinality(S) + 1
    BY <1>1, <2>1, FS_AddElement
  <2> QED
    BY <1>1, <1>2, <1>3, <1>4, <2>2
<1>5. CASE g[t] \notin places
  <2>1. T = S \ {t}
    BY <1>5
  <2>2. Cardinality(T) = IF t \in S THEN Cardinality(S) - 1 ELSE Cardinality(S)
    BY <1>1, <2>1, FS_RemoveElement
  <2> QED
    BY <1>1, <1>2, <1>3, <1>5, <2>2
<1> QED
  BY <1>4, <1>5

(* The same when a thread leaves and wakes another one on the way.         *)
LEMMA CountWake ==
  ASSUME NEW f, NEW g, NEW t \in Threads, NEW u \in Threads, t # u,
         \A x \in Threads : x # t /\ x # u => g[x] = f[x],
         NEW places
  PROVE  Count(g, places) = Count(f, places) + (IF g[t] \in places THEN 1 ELSE 0)
                                             - (IF f[t] \in places THEN 1 ELSE 0)
                                             + (IF g[u] \in places THEN 1 ELSE 0)
                                             - (IF f[u] \in places THEN 1 ELSE 0)
<1> DEFINE h == [x \in Threads |-> IF x = t THEN g[x] ELSE f[x]]
<1>1. Count(h, places) = Count(f, places) + (IF h[t] \in places THEN 1 ELSE 0)
                                          - (IF f[t] \in places THEN 1 ELSE 0)
  <2>1. \A x \in Threads : x # t => h[x] = f[x]
    OBVIOUS
  <2>2. Count(f, places) \in Nat /\ Count(h, places) \in Nat
    BY CountType
  <2> HIDE DEF h
  <2> QED
    BY <2>1, <2>2, CountMove
<1>2. Count(g, places) = Count(h, places) + (IF g[u] \in places THEN 1 ELSE 0)
                                          - (IF h[u] \in places THEN 1 ELSE 0)
  <2>1. \A x \in Threads : x # u => g[x] = h[x]
    OBVIOUS
  <2>2. Count(g, places) \in Nat /\ Count(h, places) \in Nat
    BY CountType
  <2> HIDE DEF h
  <2> QED
    BY <2>1, <2>2, CountMove
<1>3. h[t] = g[t] /\ h[u] = f[u]
  OBVIOUS
<1>4. Count(f, places) \in Nat
  BY CountType
<1> HIDE DEF h
<1> QED
  BY <1>1, <1>2, <1>3, <1>4

-----------------------------------------------------------------------------
(***************************************************************************)
(* No wakeup is lost.  The invariant counts: with only "some signal is on  *)
(* its way if a reader sleeps beside an item" the signal sent for the      *)
(* first of two items would leave the second one without a reader.         *)
(***************************************************************************)

WroteSignals(f) == Count(f, {"w_signal"})
ReadSignals(f)  == Count(f, {"r_signal"})
ReadersUp(f)    == Count(f, {"r_woken", "r_loop"})
WritersUp(f)    == Count(f, {"w_woken", "w_check", "w_loop"})

ReaderWakeup ==
  (\E t \in Threads : pc[t] = "r_asleep") => len <= WroteSignals(pc) + ReadersUp(pc)

WriterWakeup ==
  (\E t \in Threads : pc[t] = "w_asleep") =>
     THPIPESIZE - len <= ReadSignals(pc) + WritersUp(pc)

LEMMA WakeupHalves == NoLostWakeup <=> ReaderWakeup /\ WriterWakeup
<1>1. ASSUME NEW p
      PROVE  At({p}) # {} <=> \E t \in Threads : pc[t] = p
  BY DEF At
<1>2. ASSUME NEW places
      PROVE  Cardinality(At(places)) = Count(pc, places)
  BY DEF At, Count
<1>3. /\ Cardinality(At({"w_signal"})) = WroteSignals(pc)
      /\ Cardinality(LookingReaders) = ReadersUp(pc)
      /\ Cardinality(At({"r_signal"})) = ReadSignals(pc)
      /\ Cardinality(LookingWriters) = WritersUp(pc)
  BY <1>2 DEF LookingReaders, LookingWriters, WroteSignals, ReadSignals, ReadersUp, WritersUp
<1> QED
  BY <1>1, <1>3 DEF NoLostWakeup, ReaderWakeup, WriterWakeup

LEMMA CountsType ==
  ASSUME NEW f
  PROVE  /\ WroteSignals(f) \in Nat /\ ReadSignals(f) \in Nat
         /\ ReadersUp(f) \in Nat /\ WritersUp(f) \in Nat
  BY CountType DEF WroteSignals, ReadSignals, ReadersUp, WritersUp

(* The four counts after a thread went from its place to another one.      *)
LEMMA Moved ==
  ASSUME TypeInv, NEW t \in Threads, NEW place, Goto(t, place)
  PROVE  /\ WroteSignals(pc') = WroteSignals(pc) + (IF place = "w_signal" THEN 1 ELSE 0)
                                                 - (IF pc[t] = "w_signal" THEN 1 ELSE 0)
         /\ ReadSignals(pc') = ReadSignals(pc) + (IF place = "r_signal" THEN 1 ELSE 0)
                                               - (IF pc[t] = "r_signal" THEN 1 ELSE 0)
         /\ ReadersUp(pc') = ReadersUp(pc)
              + (IF place \in {"r_woken", "r_loop"} THEN 1 ELSE 0)
              - (IF pc[t] \in {"r_woken", "r_loop"} THEN 1 ELSE 0)
         /\ WritersUp(pc') = WritersUp(pc)
              + (IF place \in {"w_woken", "w_check", "w_loop"} THEN 1 ELSE 0)
              - (IF pc[t] \in {"w_woken", "w_check", "w_loop"} THEN 1 ELSE 0)
<1>1. \A x \in Threads : x # t => pc'[x] = pc[x]
  BY DEF TypeInv, TypeOK, Goto
<1>2. pc'[t] = place
  BY DEF TypeInv, TypeOK, Goto
<1>3. ASSUME NEW places
      PROVE  Count(pc', places)
               = Count(pc, places) + (IF place \in places THEN 1 ELSE 0)
                                   - (IF pc[t] \in places THEN 1 ELSE 0)
  <2>1. Count(pc, places) \in Nat /\ Count(pc', places) \in Nat
    BY CountType
  <2> QED
    BY <1>1, <1>2, <2>1, CountMove
<1>4. /\ place \in {"w_signal"} <=> place = "w_signal"
      /\ pc[t] \in {"w_signal"} <=> pc[t] = "w_signal"
      /\ place \in {"r_signal"} <=> place = "r_signal"
      /\ pc[t] \in {"r_signal"} <=> pc[t] = "r_signal"
  OBVIOUS
<1> QED
  BY <1>3, <1>4 DEF WroteSignals, ReadSignals, ReadersUp, WritersUp

WakesUp(t, u, woken) == pc' = [pc EXCEPT ![t] = "idle", ![u] = woken]

(* The four counts after thread t went to idle and woke u.                 *)
LEMMA Woke ==
  ASSUME TypeInv, NEW t \in Threads, NEW u \in Threads, t # u, NEW woken,
         WakesUp(t, u, woken)
  PROVE  /\ WroteSignals(pc') = WroteSignals(pc) + (IF woken = "w_signal" THEN 1 ELSE 0)
              - (IF pc[t] = "w_signal" THEN 1 ELSE 0) - (IF pc[u] = "w_signal" THEN 1 ELSE 0)
         /\ ReadSignals(pc') = ReadSignals(pc) + (IF woken = "r_signal" THEN 1 ELSE 0)
              - (IF pc[t] = "r_signal" THEN 1 ELSE 0) - (IF pc[u] = "r_signal" THEN 1 ELSE 0)
         /\ ReadersUp(pc') = ReadersUp(pc)
              + (IF woken \in {"r_woken", "r_loop"} THEN 1 ELSE 0)
              - (IF pc[t] \in {"r_woken", "r_loop"} THEN 1 ELSE 0)
              - (IF pc[u] \in {"r_woken", "r_loop"} THEN 1 ELSE 0)
         /\ WritersUp(pc') = WritersUp(pc)
              + (IF woken \in {"w_woken", "w_check", "w_loop"} THEN 1 ELSE 0)
              - (IF pc[t] \in {"w_woken", "w_check", "w_loop"} THEN 1 ELSE 0)
              - (IF pc[u] \in {"w_woken", "w_check", "w_loop"} THEN 1 ELSE 0)
<1>1. \A x \in Threads : x # t /\ x # u => pc'[x] = pc[x]
  BY DEF TypeInv, TypeOK, WakesUp
<1>2. pc'[t] = "idle" /\ pc'[u] = woken
  BY DEF TypeInv, TypeOK, WakesUp
<1>3. ASSUME NEW places, "idle" \notin places
      PROVE  Count(pc', places)
               = Count(pc, places) + (IF woken \in places THEN 1 ELSE 0)
                                   - (IF pc[t] \in places THEN 1 ELSE 0)
                                   - (IF pc[u] \in places THEN 1 ELSE 0)
  <2>1. Count(pc, places) \in Nat /\ Count(pc', places) \in Nat
    BY CountType
  <2>2. Count(pc', places)
               = Count(pc, places) + (IF pc'[t] \in places THEN 1 ELSE 0)
                                   - (IF pc[t] \in places THEN 1 ELSE 0)
                                   + (IF pc'[u] \in places THEN 1 ELSE 0)
                                   - (IF pc[u] \in places THEN 1 ELSE 0)
    BY <1>1, <2>1, CountWake, Z3
  <2> QED
    BY <1>2, <1>3, <2>1, <2>2
<1>4. /\ woken \in {"w_signal"} <=> woken = "w_signal"
      /\ woken \in {"r_signal"} <=> woken = "r_signal"
      /\ \A x \in {t, u} : pc[x] \in {"w_signal"} <=> pc[x] = "w_signal"
      /\ \A x \in {t, u} : pc[x] \in {"r_signal"} <=> pc[x] = "r_signal"
  OBVIOUS
<1> QED
  BY <1>3, <1>4 DEF WroteSignals, ReadSignals, ReadersUp, WritersUp
(* One thread moves and len changes with it: how much each half of the     *)
(* balance gains makes up for what len does.                               *)
Gain(from, to, places) == (IF to \in places THEN 1 ELSE 0) - (IF from \in places THEN 1 ELSE 0)

ReaderGain(from, to) == Gain(from, to, {"w_signal"}) + Gain(from, to, {"r_woken", "r_loop"})
WriterGain(from, to) == Gain(from, to, {"r_signal"}) + Gain(from, to, {"w_woken", "w_check", "w_loop"})

LEMMA MoveWakeup ==
  ASSUME TypeInv, ReaderWakeup, WriterWakeup,
         NEW t \in Threads, NEW place, Goto(t, place), len' \in Nat,
         \/ len' = 0
         \/ place # "r_asleep" /\ len' - len <= ReaderGain(pc[t], place),
         \/ len' = THPIPESIZE
         \/ place # "w_asleep" /\ len - len' <= WriterGain(pc[t], place)
  PROVE  ReaderWakeup' /\ WriterWakeup'
<1>1. /\ len \in Nat /\ THPIPESIZE \in Nat
      /\ WroteSignals(pc) \in Nat /\ ReadSignals(pc) \in Nat
      /\ ReadersUp(pc) \in Nat /\ WritersUp(pc) \in Nat
      /\ WroteSignals(pc') \in Nat /\ ReadSignals(pc') \in Nat
      /\ ReadersUp(pc') \in Nat /\ WritersUp(pc') \in Nat
  BY CountsType, SizeAssumption DEF TypeInv, TypeOK
<1>2. /\ WroteSignals(pc') + ReadersUp(pc')
           = WroteSignals(pc) + ReadersUp(pc) + ReaderGain(pc[t], place)
      /\ ReadSignals(pc') + WritersUp(pc')
           = ReadSignals(pc) + WritersUp(pc) + WriterGain(pc[t], place)
  BY <1>1, Moved DEF ReaderGain, WriterGain, Gain
<1>3. /\ ReaderGain(pc[t], place) \in Int
      /\ WriterGain(pc[t], place) \in Int
  BY DEF ReaderGain, WriterGain, Gain
<1>4. ASSUME NEW asleep, place # asleep, \E x \in Threads : pc'[x] = asleep
      PROVE  \E x \in Threads : pc[x] = asleep
  BY <1>4 DEF Goto, TypeInv, TypeOK
<1>5. ReaderWakeup'
  <2>1. CASE len' = 0
    BY <1>1, <2>1 DEF ReaderWakeup
  <2>2. CASE place # "r_asleep" /\ len' - len <= ReaderGain(pc[t], place)
    <3> SUFFICES ASSUME \E x \in Threads : pc'[x] = "r_asleep"
                 PROVE  len' <= WroteSignals(pc') + ReadersUp(pc')
      BY DEF ReaderWakeup
    <3>1. len <= WroteSignals(pc) + ReadersUp(pc)
      BY <1>4, <2>2 DEF ReaderWakeup
    <3> QED
      BY <1>1, <1>2, <1>3, <2>2, <3>1
  <2> QED
    BY <2>1, <2>2
<1>6. WriterWakeup'
  <2>1. CASE len' = THPIPESIZE
    BY <1>1, <2>1 DEF WriterWakeup
  <2>2. CASE place # "w_asleep" /\ len - len' <= WriterGain(pc[t], place)
    <3> SUFFICES ASSUME \E x \in Threads : pc'[x] = "w_asleep"
                 PROVE  THPIPESIZE - len' <= ReadSignals(pc') + WritersUp(pc')
      BY DEF WriterWakeup
    <3>1. THPIPESIZE - len <= ReadSignals(pc) + WritersUp(pc)
      BY <1>4, <2>2 DEF WriterWakeup
    <3> QED
      BY <1>1, <1>2, <1>3, <2>2, <3>1
  <2> QED
    BY <2>1, <2>2
<1> QED
  BY <1>5, <1>6

LEMMA NextWakeup ==
  TypeInv /\ ReaderWakeup /\ WriterWakeup /\ [Next]_vars => ReaderWakeup' /\ WriterWakeup'
<1> SUFFICES ASSUME TypeInv, ReaderWakeup, WriterWakeup, [Next]_vars
             PROVE  ReaderWakeup' /\ WriterWakeup'
  OBVIOUS
<1>0. /\ pc \in [Threads -> Places]
      /\ len \in Nat /\ len <= THPIPESIZE /\ THPIPESIZE \in Nat
  BY SizeAssumption DEF TypeInv, TypeOK
<1> USE DEF buffer, Unlock, ReaderGain, WriterGain, Gain
<1>1. ASSUME NEW t \in Threads, Call(t)
      PROVE  ReaderWakeup' /\ WriterWakeup'
  <2>1. /\ pc[t] = "idle" /\ len' = len
        /\ \E place \in Entering : Goto(t, place)
    BY <1>1 DEF Call, CallPread, CallPwrite, CallPclose, Entering
  <2> QED
    BY <1>0, <2>1, MoveWakeup DEF Entering
<1>2. ASSUME NEW t \in Threads, Acquire(t)
      PROVE  ReaderWakeup' /\ WriterWakeup'
  <2>1. len' = len
    BY <1>2 DEF Acquire
  <2>2. \/ pc[t] \in {"r_enter", "r_woken"} /\ Goto(t, "r_loop")
        \/ pc[t] = "w_enter" /\ Goto(t, "w_check")
        \/ pc[t] = "w_woken" /\ Goto(t, "w_loop")
        \/ pc[t] = "c_enter" /\ Goto(t, "c_body")
    BY <1>2 DEF Acquire, Entering, Woken
  <2> QED
    BY <1>0, <2>1, <2>2, MoveWakeup
<1>3. ASSUME NEW t \in Threads, PreadTake(t)
      PROVE  ReaderWakeup' /\ WriterWakeup'
  <2>1. pc[t] = "r_loop" /\ Goto(t, "r_signal") /\ len' = len - 1 /\ len > 0
    BY <1>3 DEF PreadTake
  <2> QED
    BY <1>0, <2>1, MoveWakeup
<1>4. ASSUME NEW t \in Threads, PreadEnd(t)
      PROVE  ReaderWakeup' /\ WriterWakeup'
  <2>1. pc[t] = "r_loop" /\ Goto(t, "idle") /\ len' = len /\ len = 0
    BY <1>4 DEF PreadEnd
  <2> QED
    BY <1>0, <2>1, MoveWakeup
<1>5. ASSUME NEW t \in Threads, PreadWait(t)
      PROVE  ReaderWakeup' /\ WriterWakeup'
  <2>1. pc[t] = "r_loop" /\ Goto(t, "r_asleep") /\ len' = len /\ len = 0
    BY <1>5 DEF PreadWait
  <2> QED
    BY <1>0, <2>1, MoveWakeup
<1>6. ASSUME NEW t \in Threads, PwriteStore(t)
      PROVE  ReaderWakeup' /\ WriterWakeup'
  <2>1. pc[t] \in {"w_check", "w_loop"} /\ Goto(t, "w_signal") /\ len' = len + 1
    BY <1>6 DEF PwriteStore, MayStore
  <2> QED
    BY <1>0, <2>1, MoveWakeup
<1>7. ASSUME NEW t \in Threads, PwriteWait(t)
      PROVE  ReaderWakeup' /\ WriterWakeup'
  <2>1. /\ pc[t] \in {"w_check", "w_loop"} /\ Goto(t, "w_asleep")
        /\ len' = len /\ len = THPIPESIZE
    BY <1>0, <1>7 DEF PwriteWait, MayStore
  <2> QED
    BY <1>0, <2>1, MoveWakeup
<1>8. ASSUME NEW t \in Threads, PwritePanic(t)
      PROVE  ReaderWakeup' /\ WriterWakeup'
  BY <1>8 DEF PwritePanic, ReaderWakeup, WriterWakeup
<1>9. ASSUME NEW t \in Threads, SignalRead(t)
      PROVE  ReaderWakeup' /\ WriterWakeup'
  <2>1. len' = len /\ pc[t] = "r_signal"
    BY <1>9 DEF SignalRead
  <2>2. CASE \A u \in Threads : pc[u] # "w_asleep"
    <3>1. Goto(t, "idle")
      BY <1>9, <2>2 DEF SignalRead, WakeOne, At
    <3>2. /\ \A u \in Threads : pc'[u] # "w_asleep"
          /\ \A u \in Threads : pc'[u] = "r_asleep" => pc[u] = "r_asleep"
      BY <1>0, <2>2, <3>1 DEF Goto
    <3>3. WroteSignals(pc') = WroteSignals(pc) /\ ReadersUp(pc') = ReadersUp(pc)
      BY <1>0, <2>1, <3>1, Moved, CountsType
    <3> QED
      BY <2>1, <3>2, <3>3 DEF ReaderWakeup, WriterWakeup
  <2>3. CASE \E u \in Threads : pc[u] = "w_asleep"
    <3>1. PICK u \in Threads : pc[u] = "w_asleep" /\ WakesUp(t, u, "w_woken")
      BY <1>9, <2>3 DEF SignalRead, WakeOne, At, WakesUp
    <3>2. \A x \in Threads : pc'[x] \in Asleep => pc[x] = pc'[x]
      BY <1>0, <3>1 DEF WakesUp, Asleep
    <3>3. /\ ReadSignals(pc') + WritersUp(pc') = ReadSignals(pc) + WritersUp(pc)
          /\ WroteSignals(pc') + ReadersUp(pc') = WroteSignals(pc) + ReadersUp(pc)
      BY <2>1, <3>1, Woke, CountsType
    <3> QED
      BY <2>1, <3>2, <3>3 DEF ReaderWakeup, WriterWakeup, Asleep
  <2> QED
    BY <2>2, <2>3
<1>10. ASSUME NEW t \in Threads, SignalWrote(t)
       PROVE  ReaderWakeup' /\ WriterWakeup'
  <2>1. len' = len /\ pc[t] = "w_signal"
    BY <1>10 DEF SignalWrote
  <2>2. CASE \A u \in Threads : pc[u] # "r_asleep"
    <3>1. Goto(t, "idle")
      BY <1>10, <2>2 DEF SignalWrote, WakeOne, At
    <3>2. /\ \A u \in Threads : pc'[u] # "r_asleep"
          /\ \A u \in Threads : pc'[u] = "w_asleep" => pc[u] = "w_asleep"
      BY <1>0, <2>2, <3>1 DEF Goto
    <3>3. ReadSignals(pc') = ReadSignals(pc) /\ WritersUp(pc') = WritersUp(pc)
      BY <1>0, <2>1, <3>1, Moved, CountsType
    <3> QED
      BY <2>1, <3>2, <3>3 DEF ReaderWakeup, WriterWakeup
  <2>3. CASE \E u \in Threads : pc[u] = "r_asleep"
    <3>1. PICK u \in Threads : pc[u] = "r_asleep" /\ WakesUp(t, u, "r_woken")
      BY <1>10, <2>3 DEF SignalWrote, WakeOne, At, WakesUp
    <3>2. \A x \in Threads : pc'[x] \in Asleep => pc[x] = pc'[x]
      BY <1>0, <3>1 DEF WakesUp, Asleep
    <3>3. /\ ReadSignals(pc') + WritersUp(pc') = ReadSignals(pc) + WritersUp(pc)
          /\ WroteSignals(pc') + ReadersUp(pc') = WroteSignals(pc) + ReadersUp(pc)
      BY <2>1, <3>1, Woke, CountsType
    <3> QED
      BY <2>1, <3>2, <3>3 DEF ReaderWakeup, WriterWakeup, Asleep
  <2> QED
    BY <2>2, <2>3
<1>11. ASSUME NEW t \in Threads, Pclose(t)
       PROVE  ReaderWakeup' /\ WriterWakeup'
  <2>1. /\ len' = len
        /\ \A u \in Threads : pc'[u] # "r_asleep"
        /\ \A u \in Threads : pc'[u] = "w_asleep" => pc[u] = "w_asleep"
    BY <1>0, <1>11 DEF Pclose
  <2>2. /\ {u \in Threads : pc'[u] \in {"r_signal"}} = {u \in Threads : pc[u] \in {"r_signal"}}
        /\ {u \in Threads : pc'[u] \in {"w_woken", "w_check", "w_loop"}}
             = {u \in Threads : pc[u] \in {"w_woken", "w_check", "w_loop"}}
    BY <1>0, <1>11 DEF Pclose
  <2>3. ReadSignals(pc') = ReadSignals(pc) /\ WritersUp(pc') = WritersUp(pc)
    BY <2>2 DEF ReadSignals, WritersUp, Count
  <2> QED
    BY <2>1, <2>3 DEF ReaderWakeup, WriterWakeup
<1>12. ASSUME NEW t \in Threads, SpuriousWakeup(t)
       PROVE  ReaderWakeup' /\ WriterWakeup'
  <2>1. /\ len' = len
        /\ \/ pc[t] = "r_asleep" /\ Goto(t, "r_woken")
           \/ pc[t] = "w_asleep" /\ Goto(t, "w_woken")
    BY <1>12 DEF SpuriousWakeup, Asleep
  <2> QED
    BY <1>0, <2>1, MoveWakeup
<1>13. ASSUME UNCHANGED <<len, pc>>
       PROVE  ReaderWakeup' /\ WriterWakeup'
  BY <1>13 DEF vars, ReaderWakeup, WriterWakeup
<1> QED
  BY <1>1, <1>2, <1>3, <1>4, <1>5, <1>6, <1>7, <1>8, <1>9, <1>10, <1>11, <1>12, <1>13
  DEF Next, Step, Panicked, PanicOutside, vars

(* While a reader sleeps in pread, every item in the pipe is matched by a  *)
(* signal still to be sent or by a reader about to look; while a writer    *)
(* sleeps in pwrite, every free slot is: no wakeup is lost, whatever the   *)
(* number of threads and slots.                                            *)
THEOREM WakeupsAreNotLost == Spec => []NoLostWakeup
<1> DEFINE Inv == TypeInv /\ ReaderWakeup /\ WriterWakeup
<1>1. Init => Inv
  BY InitTypeInv DEF Init, ReaderWakeup, WriterWakeup
<1>2. Inv /\ [Next]_vars => Inv'
  BY NextTypeInv, NextWakeup
<1>3. Inv => NoLostWakeup
  BY WakeupHalves
<1> QED
  BY <1>1, <1>2, <1>3, PTL DEF Spec
-----------------------------------------------------------------------------

(* pclose wakes every reader under the mutex and a reader looks at closed  *)
(* under the mutex before it sleeps: none sleeps on a closed pipe.         *)
THEOREM ClosedPipeHoldsNoReader == Spec => []NoReaderSleepsOnClosed
<1> DEFINE Inv == TypeInv /\ NoReaderSleepsOnClosed
<1>1. Init => Inv
  BY InitTypeInv DEF Init, NoReaderSleepsOnClosed
<1>2. Inv /\ [Next]_vars => Inv'
  <2> SUFFICES ASSUME Inv, [Next]_vars
               PROVE  NoReaderSleepsOnClosed'
    BY NextTypeInv
  <2>0. pc \in [Threads -> Places]
    BY DEF TypeInv, TypeOK
  <2> USE DEF NoReaderSleepsOnClosed, At, buffer, Goto, Unlock
  <2>1. ASSUME NEW t \in Threads, Call(t) \/ PanicOutside(t) \/ Acquire(t) \/ SpuriousWakeup(t)
        PROVE  NoReaderSleepsOnClosed'
    BY <2>0, <2>1 DEF PanicOutside, Call, CallPread, CallPwrite, CallPclose, Acquire, SpuriousWakeup
  <2>2. ASSUME NEW t \in Threads, PreadTake(t) \/ PreadEnd(t) \/ PreadWait(t)
        PROVE  NoReaderSleepsOnClosed'
    BY <2>0, <2>2 DEF PreadTake, PreadEnd, PreadWait
  <2>3. ASSUME NEW t \in Threads, PwritePanic(t) \/ PwriteStore(t) \/ PwriteWait(t)
        PROVE  NoReaderSleepsOnClosed'
    BY <2>0, <2>3 DEF PwritePanic, PwriteStore, PwriteWait
  <2>4. ASSUME NEW t \in Threads, SignalRead(t) \/ SignalWrote(t)
        PROVE  NoReaderSleepsOnClosed'
    BY <2>0, <2>4 DEF SignalRead, SignalWrote, WakeOne
  <2>5. ASSUME NEW t \in Threads, Pclose(t)
        PROVE  NoReaderSleepsOnClosed'
    BY <2>0, <2>5 DEF Pclose
  <2>6. CASE UNCHANGED vars
    BY <2>6 DEF vars
  <2> QED
    BY <2>1, <2>2, <2>3, <2>4, <2>5, <2>6 DEF Next, Step, Panicked
<1> QED
  BY <1>1, <1>2, PTL DEF Spec

-----------------------------------------------------------------------------
(***************************************************************************)
(* The ring buffer is the queue.                                           *)
(***************************************************************************)

LEMMA SlotsDiffer ==
  ASSUME NEW n \in Nat \ {0}, NEW s \in 0 .. n - 1,
         NEW i \in 1 .. n, NEW j \in 1 .. n, i # j
  PROVE  (s + i - 1) % n # (s + j - 1) % n
<1>1. ASSUME NEW k \in 1 .. n
      PROVE  (s + k - 1) % n = IF s + k - 1 < n THEN s + k - 1 ELSE s + k - 1 - n
  <2>1. CASE s + k - 1 < n
    BY <2>1, ModSmall
  <2>2. CASE ~(s + k - 1 < n)
    BY <2>2, ModLarge
  <2> QED
    BY <2>1, <2>2
<1>2. /\ (s + i - 1) % n = IF s + i - 1 < n THEN s + i - 1 ELSE s + i - 1 - n
      /\ (s + j - 1) % n = IF s + j - 1 < n THEN s + j - 1 ELSE s + j - 1 - n
  BY <1>1
<1> QED
  BY <1>2

(* Numbered from the next oldest item, the slots are the same ones.        *)
LEMMA SlotsShift ==
  ASSUME NEW n \in Nat \ {0}, NEW s \in 0 .. n - 1, NEW i \in 1 .. n
  PROVE  (((s + 1) % n) + i - 1) % n = (s + i) % n
<1>1. CASE s + 1 < n
  <2>1. (s + 1) % n = s + 1
    BY <1>1, ModSmall
  <2>2. s + 1 + i - 1 = s + i
    OBVIOUS
  <2> QED
    BY <2>1, <2>2
<1>2. CASE s + 1 = n
  <2>1. (s + 1) % n = 0
    BY <1>2, ModLarge
  <2>2. (s + i) % n = i - 1
    <3>1. s + i \in n .. 2 * n - 1 /\ (s + i) - n = i - 1
      BY <1>2
    <3> QED
      BY <3>1, ModLarge
  <2>3. (i - 1) % n = i - 1
    BY ModSmall
  <2> QED
    BY <2>1, <2>2, <2>3
<1> QED
  BY <1>1, <1>2

LEMMA AppendByIndex ==
  ASSUME NEW S, NEW q \in Seq(S), NEW v \in S, NEW r \in Seq(S),
         Len(r) = Len(q) + 1, r[Len(q) + 1] = v, \A i \in 1 .. Len(q) : r[i] = q[i]
  PROVE  r = Append(q, v)
  BY AppendProperties, SeqEqual

LEMMA TailByIndex ==
  ASSUME NEW S, NEW q \in Seq(S), q # <<>>, NEW r \in Seq(S),
         Len(r) = Len(q) - 1, \A i \in 1 .. Len(r) : r[i] = q[i + 1]
  PROVE  r = Tail(q)
  BY HeadTailProperties, SeqEqual

LEMMA QueueType ==
  ASSUME TypeInv
  PROVE  /\ Queue \in Seq(Items \cup {Nothing})
         /\ Len(Queue) = len
<1>1. ASSUME NEW i \in 1 .. len
      PROVE  items[(start + i - 1) % THPIPESIZE] \in Items \cup {Nothing}
  <2>1. (start + i - 1) % THPIPESIZE \in 0 .. THPIPESIZE - 1
    BY SizeAssumption, ModRange DEF TypeInv, TypeOK
  <2> QED
    BY <2>1 DEF TypeInv, TypeOK
<1>2. len \in Nat
  BY SizeAssumption DEF TypeInv, TypeOK
<1> QED
  BY <1>1, <1>2 DEF Queue

LEMMA StoreAppends ==
  ASSUME TypeInv, NEW t \in Threads, PwriteStore(t)
  PROVE  Queue' = Append(Queue, data[t])
<1> USE SizeAssumption DEF TypeInv, TypeOK
<1>1. len' = len + 1 /\ start' = start /\ len < THPIPESIZE
  BY DEF PwriteStore
<1>2. (start + len) % THPIPESIZE \in 0 .. THPIPESIZE - 1
  BY ModRange
<1>3. items'[(start + len) % THPIPESIZE] = data[t]
  BY <1>2 DEF PwriteStore
<1>4. ASSUME NEW i \in 1 .. len
      PROVE  items'[(start + i - 1) % THPIPESIZE] = items[(start + i - 1) % THPIPESIZE]
  <2>1. (start + i - 1) % THPIPESIZE # (start + (len + 1) - 1) % THPIPESIZE
    BY <1>1, SlotsDiffer
  <2>2. start + (len + 1) - 1 = start + len
    OBVIOUS
  <2>3. (start + i - 1) % THPIPESIZE \in 0 .. THPIPESIZE - 1
    BY ModRange
  <2> QED
    BY <2>1, <2>2, <2>3 DEF PwriteStore
<1>5. Queue' = [i \in 1 .. len + 1 |-> items'[(start + i - 1) % THPIPESIZE]]
  BY <1>1 DEF Queue
<1>6. Queue'[len + 1] = data[t] /\ \A i \in 1 .. len : Queue'[i] = Queue[i]
  <2>1. start + (len + 1) - 1 = start + len
    OBVIOUS
  <2>2. \A i \in 1 .. len : Queue[i] = items[(start + i - 1) % THPIPESIZE]
    BY DEF Queue
  <2>3. Queue'[len + 1] = data[t]
    <3>1. len + 1 \in 1 .. len + 1
      OBVIOUS
    <3>2. Queue'[len + 1] = items'[(start + (len + 1) - 1) % THPIPESIZE]
      BY <1>5, <3>1
    <3> QED
      BY <1>3, <2>1, <3>2
  <2>4. ASSUME NEW i \in 1 .. len
        PROVE  Queue'[i] = Queue[i]
    <3>1. Queue'[i] = items'[(start + i - 1) % THPIPESIZE]
      BY <1>5
    <3> QED
      BY <1>4, <2>2, <3>1
  <2> QED
    BY <2>3, <2>4
<1>7. ASSUME NEW i \in 1 .. len + 1
      PROVE  Queue'[i] \in Items \cup {Nothing}
  BY <1>6, QueueType
<1>8. Queue' \in Seq(Items \cup {Nothing}) /\ Len(Queue') = len + 1
  BY <1>5, <1>7
<1>9. data[t] \in Items \cup {Nothing}
  OBVIOUS
<1> QED
  BY <1>6, <1>8, <1>9, QueueType, AppendByIndex

LEMMA TakeRemoves ==
  ASSUME TypeInv, NEW t \in Threads, PreadTake(t)
  PROVE  /\ Queue # <<>>
         /\ items[start] = Head(Queue)
         /\ Queue' = Tail(Queue)
<1> USE SizeAssumption DEF TypeInv, TypeOK
<1>1. /\ items' = items /\ len' = len - 1 /\ len > 0
      /\ start' = (start + 1) % THPIPESIZE
  BY DEF PreadTake
<1>2. Queue[1] = items[start]
  <2>1. start + 1 - 1 = start /\ start % THPIPESIZE = start
    BY ModSmall
  <2> QED
    BY <1>1, <2>1 DEF Queue
<1>3. Queue # <<>> /\ items[start] = Head(Queue)
  BY <1>1, <1>2, QueueType
<1>4. ASSUME NEW i \in 1 .. len - 1
      PROVE  items[(((start + 1) % THPIPESIZE) + i - 1) % THPIPESIZE] = Queue[i + 1]
  <2>1. (((start + 1) % THPIPESIZE) + i - 1) % THPIPESIZE = (start + i) % THPIPESIZE
    BY <1>1, SlotsShift
  <2>2. start + (i + 1) - 1 = start + i /\ i + 1 \in 1 .. len
    OBVIOUS
  <2> QED
    BY <2>1, <2>2 DEF Queue
<1>5. Queue' = [i \in 1 .. len - 1 |-> items[(((start + 1) % THPIPESIZE) + i - 1) % THPIPESIZE]]
  BY <1>1 DEF Queue
<1>6. \A i \in 1 .. len - 1 : Queue'[i] = Queue[i + 1]
  BY <1>4, <1>5
<1>7. ASSUME NEW i \in 1 .. len - 1
      PROVE  Queue'[i] \in Items \cup {Nothing}
  BY <1>1, <1>6, QueueType
<1>8. Queue' \in Seq(Items \cup {Nothing}) /\ Len(Queue') = len - 1
  BY <1>1, <1>5, <1>7
<1>9. Queue' = Tail(Queue)
  BY <1>3, <1>6, <1>8, QueueType, TailByIndex
<1> QED
  BY <1>3, <1>9

LEMMA QueueStep ==
  ASSUME TypeInv, [Next]_vars
  PROVE  [Abstract!Next]_(Abstract!vars)
<1> USE DEF buffer, Unlock
<1>1. ASSUME items' = items, start' = start, len' = len, closed' = closed, outcome' = outcome
      PROVE  UNCHANGED Abstract!vars
  BY <1>1 DEF Abstract!vars, Queue
<1>2. ASSUME NEW t \in Threads, Call(t) \/ PanicOutside(t) \/ Acquire(t) \/ SpuriousWakeup(t)
      PROVE  UNCHANGED Abstract!vars
  BY <1>1, <1>2 DEF PanicOutside, Call, CallPread, CallPwrite, CallPclose, Acquire, SpuriousWakeup
<1>3. ASSUME NEW t \in Threads,
             PreadWait(t) \/ PwritePanic(t) \/ PwriteWait(t) \/ SignalRead(t) \/ SignalWrote(t)
      PROVE  UNCHANGED Abstract!vars
  BY <1>1, <1>3 DEF PreadWait, PwritePanic, PwriteWait, SignalRead, SignalWrote
<1>4. ASSUME NEW t \in Threads, PreadTake(t)
      PROVE  Abstract!Take
  <2>1. t \in Readers
    BY <1>4 DEF PreadTake, TypeInv, Discipline, ReaderPlaces
  <2>2. outcome' = [outcome EXCEPT ![t] = items[start]] /\ closed' = closed
    BY <1>4 DEF PreadTake
  <2> QED
    BY <1>4, <2>1, <2>2, TakeRemoves DEF Abstract!Take
<1>5. ASSUME NEW t \in Threads, PreadEnd(t)
      PROVE  Abstract!End
  <2>1. t \in Readers
    BY <1>5 DEF PreadEnd, TypeInv, Discipline, ReaderPlaces
  <2>2. /\ outcome' = [outcome EXCEPT ![t] = EndOfPipe] /\ closed
        /\ items' = items /\ start' = start /\ len' = len /\ closed' = closed
    BY <1>5 DEF PreadEnd
  <2>3. Queue = <<>>
    BY <1>5, QueueType DEF PreadEnd
  <2>4. Queue' = Queue
    BY <2>2 DEF Queue
  <2> QED
    BY <2>1, <2>2, <2>3, <2>4 DEF Abstract!End
<1>6. ASSUME NEW t \in Threads, PwriteStore(t)
      PROVE  Abstract!Put
  <2>1. data[t] \in Items
    BY <1>6 DEF PwriteStore, MayStore, TypeInv, Discipline, WriterPlaces
  <2>2. len < THPIPESIZE /\ closed' = closed /\ outcome' = outcome
    BY <1>6 DEF PwriteStore
  <2> QED
    BY <1>6, <2>1, <2>2, StoreAppends, QueueType DEF Abstract!Put
<1>7. ASSUME NEW t \in Threads, Pclose(t)
      PROVE  Abstract!Close
  BY <1>7 DEF Pclose, Abstract!Close, Queue
<1>8. CASE UNCHANGED vars
  BY <1>1, <1>8 DEF vars
<1> QED
  BY <1>2, <1>3, <1>4, <1>5, <1>6, <1>7, <1>8 DEF Next, Step, Panicked, Abstract!Next

(* The pipe of threads.c implements the bounded first-in first-out queue:  *)
(* each critical section that stores, takes, ends or closes is one step of *)
(* the queue and every other step of the code leaves the queue alone.      *)
THEOREM PipeImplementsQueue == Spec => ImplementsQueue
<1>1. Init => Abstract!Init
  BY DEF Init, Abstract!Init, Queue
<1>2. TypeInv /\ [Next]_vars => [Abstract!Next]_(Abstract!vars)
  BY QueueStep
<1> QED
  BY <1>1, <1>2, TypeCorrect, PTL DEF Spec, ImplementsQueue, Abstract!Spec
-----------------------------------------------------------------------------

(* A pipe with one writer that is also the one who closes it, as exab uses *)
(* it: nothing is stored after the close, so a reader that was told "end"  *)
(* has missed nothing.  With a second writer the code does not ensure it.  *)
THEOREM LoneWriterStoresNothingAfterClose ==
  ASSUME NEW w, Writers = {w}, Closers = {w}
  PROVE  Spec => NothingStoredAfterClose
<1> DEFINE Alone == \A t \in Threads :
             /\ pc[t] \in WriterPlaces \cup {"w_signal", "c_enter", "c_body"} => t = w
             /\ closed => pc[t] \notin {"w_loop", "w_asleep", "w_woken"}
           Inv == TypeInv /\ Alone
<1>1. Init => Inv
  BY InitTypeInv DEF Init, WriterPlaces
<1>2. Inv /\ [Next]_vars => Inv'
  <2> SUFFICES ASSUME Inv, [Next]_vars
               PROVE  Alone'
    BY NextTypeInv
  <2>0. pc \in [Threads -> Places]
    BY DEF TypeInv, TypeOK
  <2> USE DEF WriterPlaces, buffer, Goto, Unlock
  <2>1. ASSUME NEW t \in Threads, Call(t) \/ PanicOutside(t)
        PROVE  Alone'
    BY <2>0, <2>1 DEF PanicOutside, Call, CallPread, CallPwrite, CallPclose
  <2>2. ASSUME NEW t \in Threads, Acquire(t)
        PROVE  Alone'
    BY <2>0, <2>2 DEF Acquire, Entering, Woken
  <2>3. ASSUME NEW t \in Threads, PreadTake(t) \/ PreadEnd(t) \/ PreadWait(t)
        PROVE  Alone'
    BY <2>0, <2>3 DEF PreadTake, PreadEnd, PreadWait
  <2>4. ASSUME NEW t \in Threads, PwritePanic(t) \/ PwriteStore(t) \/ PwriteWait(t)
        PROVE  Alone'
    BY <2>0, <2>4 DEF PwritePanic, PwriteStore, PwriteWait, MayStore
  <2>5. ASSUME NEW t \in Threads, SignalRead(t) \/ SignalWrote(t)
        PROVE  Alone'
    BY <2>0, <2>5 DEF SignalRead, SignalWrote, WakeOne, At
  <2>6. ASSUME NEW t \in Threads, Pclose(t)
        PROVE  Alone'
    BY <2>0, <2>6 DEF Pclose
  <2>7. ASSUME NEW t \in Threads, SpuriousWakeup(t)
        PROVE  Alone'
    BY <2>0, <2>7 DEF SpuriousWakeup, Asleep
  <2>8. CASE UNCHANGED vars
    BY <2>8 DEF vars
  <2> QED
    BY <2>1, <2>2, <2>3, <2>4, <2>5, <2>6, <2>7, <2>8 DEF Next, Step, Panicked
<1>3. Inv /\ [Next]_vars => [closed => len' <= len]_vars
  <2> SUFFICES ASSUME Inv, Next, closed
               PROVE  len' <= len
    OBVIOUS
  <2>1. len \in Nat
    BY SizeAssumption DEF TypeInv, TypeOK
  <2>2. ASSUME NEW t \in Threads, Step(t)
        PROVE  len' = len \/ len' = len - 1
    <3>1. ~MayStore(t)
      BY DEF MayStore
    <3> QED
      BY <2>2, <3>1 DEF Step, Acquire, PreadTake, PreadEnd, PreadWait, SignalRead,
         PwritePanic, PwriteStore, PwriteWait, SignalWrote, Pclose, buffer
  <2>3. ASSUME NEW t \in Threads, Call(t) \/ PanicOutside(t) \/ SpuriousWakeup(t)
        PROVE  len' = len
    BY <2>3 DEF PanicOutside, Call, CallPread, CallPwrite, CallPclose, SpuriousWakeup, buffer
  <2>4. ASSUME Panicked
        PROVE  len' = len
    BY <2>4 DEF Panicked, vars
  <2>5. len' = len \/ len' = len - 1
    BY <2>2, <2>3, <2>4 DEF Next
  <2> QED
    BY <2>1, <2>5
<1> QED
  BY <1>1, <1>2, <1>3, PTL DEF Spec, NothingStoredAfterClose
=============================================================================
