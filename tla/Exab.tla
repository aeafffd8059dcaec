-------------------------------- MODULE Exab --------------------------------
(***************************************************************************)
(* prog/exab/exab.c: main starts the workers, pushes one nudge per request *)
(* into a pipe of threads.c, closes the pipe, joins the workers in order   *)
(* and frees the pipe.  A worker reads a nudge, connects, exchanges one    *)
(* request and reads again; it leaves at the end of the pipe, and also     *)
(* when it cannot connect.  What happens inside the pipe is ThreadPipe.    *)
(***************************************************************************)
EXTENDS ThreadPipe

CONSTANTS Main,             \* the main thread
          Requests,         \* option -n
          Concurrency,      \* option -c
          MaxFailures,      \* bound on the connects that fail
          SpuriousLimit     \* bound on wakeups without a signal

(* More workers than requests are not started (line 72).                   *)
Started == IF Concurrency > Requests THEN Requests ELSE Concurrency

Workers == 0 .. Started - 1

ASSUME ExabAssumption ==
  /\ Requests \in Nat
  /\ Concurrency \in Nat
  /\ SpuriousLimit \in Nat
  /\ MaxFailures \in Nat
  /\ Main \notin Workers
  /\ Threads = Workers \cup {Main}
  /\ Readers = Workers
  /\ Writers = {Main}
  /\ Closers = {Main}
  /\ Items # {}

VARIABLES started,    \* workers started, and their numbers: 0 .. started - 1
          written,    \* pwrites begun by main
          closing,    \* main has called pclose
          joined,     \* workers main has waited for
          freed,      \* freepipe has run: main returns
          at,         \* where each worker is in its loop
          served,     \* requests answered and printed
          failed,     \* nudges whose connect failed
          spurious    \* wakeups without a signal so far

client == <<started, written, closing, joined, freed, at, served, failed, spurious>>
exabVars == <<vars, client>>

WorkerPlaces == {"unborn", "loop", "reading", "connecting", "exited"}

ExabInit ==
  /\ Init
  /\ started = 0
  /\ written = 0
  /\ closing = FALSE
  /\ joined = 0
  /\ freed = FALSE
  /\ at = [w \in Workers |-> "unborn"]
  /\ served = 0
  /\ failed = 0
  /\ spurious = 0

-----------------------------------------------------------------------------
(* main                                                                    *)

StartWorker ==
  /\ started < Started
  /\ at' = [at EXCEPT ![started] = "loop"]
  /\ started' = started + 1
  /\ UNCHANGED <<vars, written, closing, joined, freed, served, failed, spurious>>

SendNudge ==
  /\ started = Started
  /\ written < Requests
  /\ \E v \in Items : CallPwrite(Main, v)
  /\ written' = written + 1
  /\ UNCHANGED <<started, closing, joined, freed, at, served, failed, spurious>>

SendClose_OneEarly ==         \* a slip: one request too few
  /\ started = Started
  /\ written >= Requests - 1
  /\ ~closing
  /\ CallPclose(Main)
  /\ closing' = TRUE
  /\ UNCHANGED <<started, written, joined, freed, at, served, failed, spurious>>

SendClose ==
  /\ started = Started
  /\ written = Requests
  /\ ~closing
  /\ CallPclose(Main)
  /\ closing' = TRUE
  /\ UNCHANGED <<started, written, joined, freed, at, served, failed, spurious>>

Join ==
  /\ closing
  /\ pc[Main] = "idle"
  /\ joined < Started
  /\ at[joined] = "exited"
  /\ joined' = joined + 1
  /\ UNCHANGED <<vars, started, written, closing, freed, at, served, failed, spurious>>

FreePipe_LastUnjoined ==      \* a slip: does not wait for the last worker
  /\ closing
  /\ pc[Main] = "idle"
  /\ joined + 1 >= Started
  /\ ~freed
  /\ freed' = TRUE
  /\ UNCHANGED <<vars, started, written, closing, joined, at, served, failed, spurious>>

FreePipe ==
  /\ closing
  /\ pc[Main] = "idle"
  /\ joined = Started
  /\ ~freed
  /\ freed' = TRUE
  /\ UNCHANGED <<vars, started, written, closing, joined, at, served, failed, spurious>>

MainStep == StartWorker \/ SendNudge \/ SendClose \/ Join \/ FreePipe

-----------------------------------------------------------------------------
(* A worker                                                                *)

WorkerRead(w) ==
  /\ at[w] = "loop"
  /\ CallPread(w)
  /\ at' = [at EXCEPT ![w] = "reading"]
  /\ UNCHANGED <<started, written, closing, joined, freed, served, failed, spurious>>

WorkerReturn_DroppingAtClose(w) ==  \* a slip: looks at closed, not at the result
  /\ at[w] = "reading"
  /\ pc[w] = "idle"
  /\ at' = [at EXCEPT ![w] = IF closed THEN "exited" ELSE "connecting"]
  /\ UNCHANGED <<vars, started, written, closing, joined, freed, served, failed, spurious>>

WorkerReturn_NeverEnding(w) ==      \* a slip: reads again at the end of the pipe
  /\ at[w] = "reading"
  /\ pc[w] = "idle"
  /\ at' = [at EXCEPT ![w] = IF outcome[w] = EndOfPipe THEN "loop" ELSE "connecting"]
  /\ UNCHANGED <<vars, started, written, closing, joined, freed, served, failed, spurious>>

(* pread returned: true brings a nudge, false ends the worker.             *)
WorkerReturn(w) ==
  /\ at[w] = "reading"
  /\ pc[w] = "idle"
  /\ at' = [at EXCEPT ![w] = IF outcome[w] = EndOfPipe THEN "exited" ELSE "connecting"]
  /\ UNCHANGED <<vars, started, written, closing, joined, freed, served, failed, spurious>>

(* Connect, write, read, parse, print under the print lock.                *)
Exchange(w) ==
  /\ at[w] = "connecting"
  /\ at' = [at EXCEPT ![w] = "loop"]
  /\ served' = served + 1
  /\ UNCHANGED <<vars, started, written, closing, joined, freed, failed, spurious>>

(* The connection is refused: the worker is gone, and its nudge with it.   *)
ConnectFails(w) ==
  /\ failed < MaxFailures
  /\ at[w] = "connecting"
  /\ at' = [at EXCEPT ![w] = "exited"]
  /\ failed' = failed + 1
  /\ UNCHANGED <<vars, started, written, closing, joined, freed, served, spurious>>

(* The panics of lines 129, 134, 137, 146: the process ends.               *)
ExchangePanics(w) ==
  /\ at[w] = "connecting"
  /\ PanicOutside(w)
  /\ UNCHANGED client

WorkerStep(w) == WorkerRead(w) \/ WorkerReturn(w) \/ Exchange(w) \/ ConnectFails(w)
                 \/ ExchangePanics(w)

-----------------------------------------------------------------------------

PipeStep(t) == Step(t) /\ UNCHANGED client

Spurious(t) ==
  /\ spurious < SpuriousLimit
  /\ SpuriousWakeup(t)
  /\ spurious' = spurious + 1
  /\ UNCHANGED <<started, written, closing, joined, freed, at, served, failed>>

Ended == (panicked \/ freed) /\ UNCHANGED exabVars

ExabNext ==
  \/ /\ ~panicked
     /\ \/ MainStep
        \/ \E w \in Workers : WorkerStep(w)
        \/ \E t \in Threads : PipeStep(t) \/ Spurious(t)
  \/ Ended

ExabSpec == ExabInit /\ [][ExabNext]_exabVars

(* Threads that can run are run.  Nothing is asked of the mutex: the work  *)
(* is finite, so whoever waits for it finds it free for good in the end.   *)
ExabFairSpec ==
  /\ ExabSpec
  /\ WF_exabVars(~panicked /\ MainStep)
  /\ \A w \in Workers : WF_exabVars(~panicked /\ WorkerStep(w))
  /\ \A t \in Threads : WF_exabVars(~panicked /\ PipeStep(t))

-----------------------------------------------------------------------------
(* Every variable has its type.                                            *)
ExabTypeOK ==
  /\ TypeOK
  /\ started \in 0 .. Started
  /\ written \in 0 .. Requests
  /\ closing \in BOOLEAN
  /\ joined \in 0 .. Started
  /\ freed \in BOOLEAN
  /\ at \in [Workers -> WorkerPlaces]
  /\ served \in 0 .. Requests
  /\ failed \in 0 .. MaxFailures
  /\ spurious \in 0 .. SpuriousLimit

(* Nudges main has put into the pipe: the pwrites begun, less the one that *)
(* is still on its way to the buffer.                                      *)
Stored == written - (IF pc[Main] \in {"w_enter", "w_check", "w_loop", "w_asleep", "w_woken"}
                     THEN 1 ELSE 0)

(* Workers that have a nudge in hand.                                      *)
InHand ==
  {w \in Workers : \/ at[w] = "connecting"
                   \/ at[w] = "reading" /\ pc[w] = "r_signal"
                   \/ at[w] = "reading" /\ pc[w] = "idle" /\ outcome[w] # EndOfPipe}

(* Line 88: a nudge makes a worker do one more request.  Each nudge is in  *)
(* the pipe, in the hand of one worker, served, or lost to a failed        *)
(* connect: none is lost or served twice in the pipe's interleavings.      *)
EachNudgeAccounted == Stored = len + Cardinality(InHand) + served + failed

(* main frees the pipe when no thread is in it or will enter it again.     *)
FreedPipeUnused == freed => \A w \in Workers : at[w] = "exited" /\ pc[w] = "idle"

(* A run that ends made every request it was asked for (option -n), save   *)
(* one for each failed connect.                                            *)
AllServedAtEnd == freed => served + failed = Requests

(* exab ends: main gets through its loop and its joins, if the server      *)
(* accepts often enough for one worker to be left.                         *)
ExabEnds == <>(freed \/ panicked)
=============================================================================
