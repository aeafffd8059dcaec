----------------------------- MODULE PipeQueue -----------------------------
(***************************************************************************)
(* What a pipe of lib/os/threads.c promises to the threads that share it:  *)
(* a first-in first-out queue of at most Capacity items.  A read either    *)
(* takes the oldest item or, when the pipe is closed and empty, reports    *)
(* the end.  Nothing is said of locks, signals or slots; ThreadPipe is     *)
(* shown to implement this specification.                                  *)
(***************************************************************************)
EXTENDS Naturals, Sequences

CONSTANTS Readers,    \* threads that read
          Items,      \* what can be sent
          Capacity,   \* how many items the pipe holds
          Nothing,    \* the outcome before the first read
          EndOfPipe   \* the outcome of a read that returned false

VARIABLES queue,      \* the items in the pipe, oldest first
          closed,     \* the pipe has been closed
          outcome     \* what the last finished read of each thread gave it

vars == <<queue, closed, outcome>>

Init == /\ queue = <<>>
        /\ closed = FALSE
        /\ outcome = [r \in Readers |-> Nothing]

(* A writer adds an item.  A writer that was let in before the close may  *)
(* still do so after it: the code checks for the close on entry only.     *)
Put == /\ Len(queue) < Capacity
       /\ \E v \in Items : queue' = Append(queue, v)
       /\ UNCHANGED <<closed, outcome>>

Take == /\ queue # <<>>
        /\ \E r \in Readers : outcome' = [outcome EXCEPT ![r] = Head(queue)]
        /\ queue' = Tail(queue)
        /\ UNCHANGED closed

End == /\ closed
       /\ queue = <<>>
       /\ \E r \in Readers : outcome' = [outcome EXCEPT ![r] = EndOfPipe]
       /\ UNCHANGED <<queue, closed>>

Close == /\ closed' = TRUE
         /\ UNCHANGED <<queue, outcome>>

Next == Put \/ Take \/ End \/ Close

Spec == Init /\ [][Next]_vars
=============================================================================
