----------------------------- MODULE ThreadPipe -----------------------------
(***************************************************************************)
(* The pipe of lib/os/threads.c: a ring buffer of THPIPESIZE slots guarded *)
(* by a mutex, with one condition variable for readers (sig_wrote) and one *)
(* for writers (sig_read).  A thread is outside the pipe, at the mutex,    *)
(* inside a critical section, asleep on a condition variable, or (having   *)
(* already unlocked) about to signal one.  Everything a critical section   *)
(* touches is touched under the mutex only, so a critical section is one   *)
(* action; the signals of pread and pwrite come after the unlock and are   *)
(* actions of their own.                                                   *)
(***************************************************************************)
EXTENDS Integers, Sequences, FiniteSets

CONSTANTS Threads, Readers, Writers, Closers, \* who may call which function
          Items,                              \* what is sent through the pipe
          THPIPESIZE,                         \* slots of the ring buffer
          NoOne, Nothing, EndOfPipe

ASSUME ThreadsAssumption ==
  /\ IsFiniteSet(Threads)
  /\ Readers \subseteq Threads
  /\ Writers \subseteq Threads
  /\ Closers \subseteq Threads
  /\ NoOne \notin Threads

ASSUME SizeAssumption == THPIPESIZE \in Nat \ {0}

ASSUME OutcomeAssumption == EndOfPipe \notin Items \cup {Nothing}

VARIABLES lock,       \* the thread that holds the mutex, or NoOne
          items,      \* the slots
          start, len, \* the oldest item's slot, the number of items
          closed,
          pc,         \* where each thread is in pread, pwrite or pclose
          data,       \* the argument of the thread's last pwrite
          outcome,    \* what the thread's last finished pread gave it
          panicked    \* a panic has ended the process

buffer == <<items, start, len, closed>>
vars == <<lock, items, start, len, closed, pc, data, outcome, panicked>>

Entering  == {"r_enter", "w_enter", "c_enter"}   \* calling lock()
Woken     == {"r_woken", "w_woken"}              \* relocking inside cond_wait
Inside    == {"r_loop", "w_check", "w_loop", "c_body"}
Asleep    == {"r_asleep", "w_asleep"}            \* inside cond_wait
Signaling == {"r_signal", "w_signal"}            \* unlocked, before wake_one
Places    == {"idle"} \cup Entering \cup Woken \cup Inside \cup Asleep \cup Signaling

At(places) == {t \in Threads : pc[t] \in places}

Init ==
  /\ lock = NoOne
  /\ items = [i \in 0 .. THPIPESIZE - 1 |-> Nothing]
  /\ start = 0
  /\ len = 0
  /\ closed = FALSE
  /\ pc = [t \in Threads |-> "idle"]
  /\ data = [t \in Threads |-> Nothing]
  /\ outcome = [r \in Readers |-> Nothing]
  /\ panicked = FALSE

Goto(t, place) == pc' = [pc EXCEPT ![t] = place]

(* Leaves the critical section for place.                                  *)
Unlock(t, place) == lock' = NoOne /\ Goto(t, place)

-----------------------------------------------------------------------------
(* Calls.                                                                  *)

CallPread(t) ==
  /\ pc[t] = "idle"
  /\ Goto(t, "r_enter")
  /\ UNCHANGED <<lock, buffer, data, outcome, panicked>>

CallPwrite(t, v) ==
  /\ pc[t] = "idle"
  /\ data' = [data EXCEPT ![t] = v]
  /\ Goto(t, "w_enter")
  /\ UNCHANGED <<lock, buffer, outcome, panicked>>

CallPclose(t) ==
  /\ pc[t] = "idle"
  /\ Goto(t, "c_enter")
  /\ UNCHANGED <<lock, buffer, data, outcome, panicked>>

(* lock() returns, or cond_wait has the mutex back.                        *)
Acquire(t) ==
  /\ lock = NoOne
  /\ pc[t] \in Entering \cup Woken
  /\ lock' = t
  /\ Goto(t, CASE pc[t] \in {"r_enter", "r_woken"} -> "r_loop"
               [] pc[t] = "w_enter"                -> "w_check"
               [] pc[t] = "w_woken"                -> "w_loop"
               [] OTHER                            -> "c_body")
  /\ UNCHANGED <<buffer, data, outcome, panicked>>

-----------------------------------------------------------------------------
(* pread.                                                                  *)

PreadTake(t) ==
  /\ pc[t] = "r_loop"
  /\ len > 0
  /\ outcome' = [outcome EXCEPT ![t] = items[start]]
  /\ start' = (start + 1) % THPIPESIZE
  /\ len' = len - 1
  /\ Unlock(t, "r_signal")
  /\ UNCHANGED <<items, closed, data, panicked>>

PreadEnd(t) ==
  /\ pc[t] = "r_loop"
  /\ len = 0
  /\ closed
  /\ outcome' = [outcome EXCEPT ![t] = EndOfPipe]
  /\ Unlock(t, "idle")
  /\ UNCHANGED <<buffer, data, panicked>>

PreadWait_IgnoringClose(t) ==     \* a slip: sleeps whether closed or not
  /\ pc[t] = "r_loop"
  /\ len = 0
  /\ Unlock(t, "r_asleep")
  /\ UNCHANGED <<buffer, data, outcome, panicked>>

PreadWait(t) ==
  /\ pc[t] = "r_loop"
  /\ len = 0
  /\ ~closed
  /\ Unlock(t, "r_asleep")
  /\ UNCHANGED <<buffer, data, outcome, panicked>>

-----------------------------------------------------------------------------
(* pwrite.  The close is looked for once, before the loop.                 *)

MayStore(t) == pc[t] = "w_loop" \/ (pc[t] = "w_check" /\ ~closed)

PwritePanic(t) ==
  /\ pc[t] = "w_check"
  /\ closed
  /\ panicked' = TRUE
  /\ UNCHANGED <<lock, buffer, pc, data, outcome>>

PwriteStore_OneTooMany(t) ==      \* a slip: stores when the ring is full
  /\ MayStore(t)
  /\ len <= THPIPESIZE
  /\ items' = [items EXCEPT ![(start + len) % THPIPESIZE] = data[t]]
  /\ len' = len + 1
  /\ Unlock(t, "w_signal")
  /\ UNCHANGED <<start, closed, data, outcome, panicked>>

PwriteStore_FromSlotZero(t) ==    \* a slip: forgets where the ring starts
  /\ MayStore(t)
  /\ len < THPIPESIZE
  /\ items' = [items EXCEPT ![len % THPIPESIZE] = data[t]]
  /\ len' = len + 1
  /\ Unlock(t, "w_signal")
  /\ UNCHANGED <<start, closed, data, outcome, panicked>>

PwriteStore(t) ==
  /\ MayStore(t)
  /\ len < THPIPESIZE
  /\ items' = [items EXCEPT ![(start + len) % THPIPESIZE] = data[t]]
  /\ len' = len + 1
  /\ Unlock(t, "w_signal")
  /\ UNCHANGED <<start, closed, data, outcome, panicked>>

PwriteWait(t) ==
  /\ MayStore(t)
  /\ len >= THPIPESIZE
  /\ Unlock(t, "w_asleep")
  /\ UNCHANGED <<buffer, data, outcome, panicked>>

-----------------------------------------------------------------------------
(* Signals.  wake_one wakes one of the threads asleep on the condition     *)
(* variable, and does nothing if there is none.                            *)

WakeOne(t, place, woken) ==
  IF At({place}) = {}
  THEN Goto(t, "idle")
  ELSE \E u \in At({place}) : pc' = [pc EXCEPT ![t] = "idle", ![u] = woken]

SignalRead(t) ==
  /\ pc[t] = "r_signal"
  /\ WakeOne(t, "w_asleep", "w_woken")
  /\ UNCHANGED <<lock, buffer, data, outcome, panicked>>

SignalWrote_IfWasEmpty(t) ==      \* a slip: signals the first item only
  /\ pc[t] = "w_signal"
  /\ IF len <= 1 THEN WakeOne(t, "r_asleep", "r_woken") ELSE Goto(t, "idle")
  /\ UNCHANGED <<lock, buffer, data, outcome, panicked>>

SignalWrote(t) ==
  /\ pc[t] = "w_signal"
  /\ WakeOne(t, "r_asleep", "r_woken")
  /\ UNCHANGED <<lock, buffer, data, outcome, panicked>>

Pclose_WakingOne(t) ==            \* a slip: wake_one instead of wake_all
  /\ pc[t] = "c_body"
  /\ closed' = TRUE
  /\ lock' = NoOne
  /\ WakeOne(t, "r_asleep", "r_woken")
  /\ UNCHANGED <<items, start, len, data, outcome, panicked>>

(* pclose: sets the flag and wakes every reader, all under the mutex.      *)
Pclose(t) ==
  /\ pc[t] = "c_body"
  /\ closed' = TRUE
  /\ lock' = NoOne
  /\ pc' = [u \in Threads |-> IF u = t THEN "idle"
                              ELSE IF pc[u] = "r_asleep" THEN "r_woken"
                              ELSE pc[u]]
  /\ UNCHANGED <<items, start, len, data, outcome, panicked>>

(* POSIX lets cond_wait return although nobody signalled.                  *)
SpuriousWakeup(t) ==
  /\ pc[t] \in Asleep
  /\ Goto(t, IF pc[t] = "r_asleep" THEN "r_woken" ELSE "w_woken")
  /\ UNCHANGED <<lock, buffer, data, outcome, panicked>>

-----------------------------------------------------------------------------
(* What a thread does inside the three functions, whoever calls them.      *)
Step(t) ==
  \/ Acquire(t)
  \/ PreadTake(t) \/ PreadEnd(t) \/ PreadWait(t) \/ SignalRead(t)
  \/ PwritePanic(t) \/ PwriteStore(t) \/ PwriteWait(t) \/ SignalWrote(t)
  \/ Pclose(t)

Call(t) ==
  \/ t \in Readers /\ CallPread(t)
  \/ t \in Writers /\ \E v \in Items : CallPwrite(t, v)
  \/ t \in Closers /\ CallPclose(t)

(* A thread panics in its own code, outside the pipe.                      *)
PanicOutside(t) ==
  /\ pc[t] = "idle"
  /\ panicked' = TRUE
  /\ UNCHANGED <<lock, buffer, pc, data, outcome>>

(* A panic ends the process: nothing happens after it.                     *)
Panicked == panicked /\ UNCHANGED vars

Next ==
  \/ ~panicked /\ \E t \in Threads : Call(t) \/ PanicOutside(t) \/ Step(t) \/ SpuriousWakeup(t)
  \/ Panicked

Spec == Init /\ [][Next]_vars

-----------------------------------------------------------------------------
(* Every variable has its type, and a thread reads only what it may read.  *)
TypeOK ==
  /\ lock \in Threads \cup {NoOne}
  /\ items \in [0 .. THPIPESIZE - 1 -> Items \cup {Nothing}]
  /\ start \in 0 .. THPIPESIZE - 1
  /\ len \in 0 .. THPIPESIZE
  /\ closed \in BOOLEAN
  /\ pc \in [Threads -> Places]
  /\ data \in [Threads -> Items \cup {Nothing}]
  /\ outcome \in [Readers -> Items \cup {Nothing, EndOfPipe}]
  /\ panicked \in BOOLEAN

(* Readers and writers that are awake and on their way to look at the      *)
(* buffer because somebody woke them, or are looking at it now.            *)
LookingReaders == At({"r_woken", "r_loop"})
LookingWriters == At({"w_woken", "w_check", "w_loop"})

(* No wakeup is lost although the signals are sent after the unlock and    *)
(* one at a time: as long as a reader sleeps, every item in the buffer is  *)
(* matched by a signal still to be sent or by a reader about to look; and  *)
(* as long as a writer sleeps, so is every free slot.                      *)
NoLostWakeup ==
  /\ At({"r_asleep"}) # {} =>
       len <= Cardinality(At({"w_signal"})) + Cardinality(LookingReaders)
  /\ At({"w_asleep"}) # {} =>
       THPIPESIZE - len <= Cardinality(At({"r_signal"})) + Cardinality(LookingWriters)

(* pclose lets every reader go: none sleeps on a closed pipe, where nobody *)
(* would ever signal sig_wrote again.                                      *)
NoReaderSleepsOnClosed == closed => At({"r_asleep"}) = {}

(* The assertion of pwrite (line 172): once the pipe is closed nothing is  *)
(* stored in it, so a reader that was told "end" has missed nothing.       *)
NothingStoredAfterClose == [][closed => len' <= len]_vars

(* A pread that has started is over in the end once the pipe is closed.    *)
ClosedReadersReturn ==
  \A t \in Threads : closed /\ pc[t] \in {"r_enter", "r_asleep", "r_woken"}
                       ~> pc[t] \in {"r_signal", "idle"} \/ panicked

(* The buffer as a queue.                                                  *)
Queue == [i \in 1 .. len |-> items[(start + i - 1) % THPIPESIZE]]

Abstract == INSTANCE PipeQueue WITH queue <- Queue, Capacity <- THPIPESIZE

(* The ring buffer is the queue it promises to be: first in first out,     *)
(* nothing lost, duplicated or overwritten, end reported only when the     *)
(* pipe is closed and empty.                                               *)
ImplementsQueue == Abstract!Spec
=============================================================================
