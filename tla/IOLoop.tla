------------------------------- MODULE IOLoop -------------------------------
(***************************************************************************)
(* The event loop of prog/torrent/ioloop.c: a table of clients (listeners  *)
(* and connections), one pass of which (process) asks select which         *)
(* descriptors are ready, runs the timers that are due, and visits the     *)
(* slots of the table in order to read, write and close.  Handlers are     *)
(* called from inside the pass and may write, close, connect or set a      *)
(* timer; accepted and newly connected clients enter the table while it is *)
(* being visited, and descriptors that were closed are used again.         *)
(***************************************************************************)
EXTENDS Integers, FiniteSets

CONSTANTS Nslots,     \* size of the table (100)
          Ntimers,    \* size of the timers' table (100)
          Nfds,       \* how many descriptors there are
          MaxIn,      \* bound on what waits at a descriptor to be read
          MaxOut,     \* size of an outbox, in writes
          Nobody, NoTimer

ASSUME LoopAssumption ==
  /\ Nslots \in Nat \ {0} /\ Ntimers \in Nat \ {0} /\ Nfds \in Nat \ {0}
  /\ MaxIn \in Nat \ {0} /\ MaxOut \in Nat \ {0}

ASSUME NamesAssumption ==
  /\ Nobody \notin [fd : Nat, listener : BOOLEAN, out : Nat, close : BOOLEAN]
  /\ NoTimer \notin Int

VARIABLES clients,  \* the table: [fd, listener, out, close] or Nobody
          timers,   \* seconds left of each timer, below 0 when overdue
          sock,     \* what the kernel knows of each descriptor
          rset, wset,
          pc, i,    \* the stage of the pass, and the slot being visited
          fate      \* "fine", or what crashed the process

vars == <<clients, timers, sock, rset, wset, pc, i, fate>>

Slots == 0 .. Nslots - 1
TimerSlots == 0 .. Ntimers - 1
Fds == 0 .. Nfds - 1

(* A descriptor's kind, how many connections or pieces of data wait to be  *)
(* accepted or read, whether the other side has closed, and whether there  *)
(* is room to send: without it the kernel takes less than the loop's next  *)
(* buffer, or nothing.  A connection that was refused or reset has failed. *)
Kinds == {"closed", "listening", "connecting", "connected", "accepted", "failed"}
Sock(kind) == [kind |-> kind, in |-> 0, eof |-> FALSE, room |-> TRUE]
Failed(fd) == sock[fd].kind = "failed"
Open(fd) == sock[fd].kind \in {"connected", "accepted"}
Readable(fd) == sock[fd].in > 0 \/ sock[fd].eof \/ Failed(fd)
Writable(fd) == (Open(fd) /\ sock[fd].room) \/ Failed(fd)

Lowest(S) == CHOOSE s \in S : \A t \in S : s <= t

-----------------------------------------------------------------------------
(* What a handler or the loop changes: a world is the table, the timers,   *)
(* the descriptors and the fate of the process.                            *)
World == [clients |-> clients, timers |-> timers, sock |-> sock, fate |-> fate]

Become(w) ==
  /\ clients' = w.clients /\ timers' = w.timers
  /\ sock' = w.sock /\ fate' = w.fate

Blank == [clients |-> [s \in Slots |-> Nobody], timers |-> [k \in TimerSlots |-> NoTimer],
          sock |-> [fd \in Fds |-> Sock("closed")], fate |-> "fine"]

(* A panic or a null pointer ends the process, and leaves nothing.         *)
Crashed(why) == [Blank EXCEPT !.fate = why]

FreeSlots(w) == {s \in Slots : w.clients[s] = Nobody}
FreeTimers(w) == {k \in TimerSlots : w.timers[k] = NoTimer}
FreeFds(w) == {fd \in Fds : w.sock[fd].kind = "closed"}

SlotFor_Ahead(w) ==              \* a slip: the search starts at the slot being visited
  Lowest(IF \E s \in FreeSlots(w) : s >= i THEN {s \in FreeSlots(w) : s >= i}
                                           ELSE FreeSlots(w))

SlotFor(w) == Lowest(FreeSlots(w))

(* addclient, for a descriptor of the given kind (the kernel gives out the *)
(* lowest that is closed).  Without a descriptor conn is NULL, without a   *)
(* slot the client is: both are dereferenced.                              *)
AddClient(w, kind) ==
  IF FreeFds(w) = {} \/ FreeSlots(w) = {} THEN Crashed("no room")
  ELSE LET fd == Lowest(FreeFds(w))
       IN [w EXCEPT !.sock[fd] = Sock(kind),
                    !.clients[SlotFor(w)] =
                       [fd |-> fd, listener |-> kind = "listening", out |-> 0,
                        close |-> FALSE]]

Write(w, s) ==
  IF w.clients[s].out < MaxOut THEN {[w EXCEPT !.clients[s].out = @ + 1]} ELSE {w}

(* The handler's CONNECTED event: it may write.                            *)
Greet(w, s) == IF w.fate = "fine" THEN {w} \cup Write(w, s) ELSE {w}

(* connect.  When connect_nonblock fails at once, addclient is called with *)
(* NULL and dereferences it.                                               *)
Connect(w) ==
  {Crashed("no connection")} \cup Greet(AddClient(w, "connecting"), SlotFor(w))

SetTimer(w) ==
  IF FreeTimers(w) = {} THEN {Crashed("no timer")}
  ELSE {[w EXCEPT !.timers[Lowest(FreeTimers(w))] = secs] : secs \in {0, 1}}

Close(w, s) == [w EXCEPT !.clients[s].close = TRUE]

(* What the handler of the client in slot s may do when called.            *)
Handle(w, s) == {w, Close(w, s)} \cup Write(w, s) \cup Connect(w) \cup SetTimer(w)

-----------------------------------------------------------------------------
(* The program calls listen or connect before it enters the loop.          *)
Init ==
  /\ i = 0
  /\ pc = "idle"
  /\ rset = {} /\ wset = {}
  /\ \E w \in {AddClient(Blank, "listening")} \cup Greet(AddClient(Blank, "connecting"), 0) :
       clients = w.clients /\ timers = w.timers /\ sock = w.sock /\ fate = w.fate

(* Between two passes the program may connect or set a timer.              *)
BetweenPasses ==
  /\ pc = "idle"
  /\ \E w \in Connect(World) \cup SetTimer(World) : Become(w)
  /\ UNCHANGED <<rset, wset, pc, i>>

(* process: create_selection and closest_timeout.  With an overdue timer   *)
(* the time left is negative: select fails at once and leaves the sets as  *)
(* they were, with every descriptor in them.                               *)
Used == {s \in Slots : clients[s] # Nobody}
AllFds == {clients[s].fd : s \in Used}
OutFds_All == AllFds             \* a slip: polls everything for writing

OutFds == {clients[s].fd : s \in {u \in Used : clients[u].out > 0}}

Overdue == \E k \in TimerSlots : timers[k] # NoTimer /\ timers[k] < 0

Select ==
  /\ pc = "idle"
  /\ rset' = AllFds /\ wset' = OutFds
  /\ pc' = IF Used = {} /\ FreeTimers(World) = TimerSlots THEN "stopped"
           ELSE IF Overdue THEN "timers" ELSE "select"
  /\ UNCHANGED <<clients, timers, sock, i, fate>>

(* select returns what is ready, which is nothing when its time is over.   *)
(* It may report a connection that will take some of the next buffer only. *)
SelectReturns ==
  /\ pc = "select"
  /\ rset' = {fd \in rset : Readable(fd)}
  /\ \E some \in SUBSET {fd \in wset : Open(fd) /\ ~sock[fd].room} :
       wset' = some \cup {fd \in wset : Writable(fd)}
  /\ pc' = "timers"
  /\ UNCHANGED <<clients, timers, sock, i, fate>>

RunTimer_OnTheSecond(k) ==       \* a slip: t != now where it should be t > now
  IF timers[k] # 0 THEN {World}
  ELSE LET off == [World EXCEPT !.timers[k] = NoTimer]
       IN {off} \cup SetTimer(off) \cup Connect(off)

(* dispatch_timers calls what is due, after turning it off; the function   *)
(* may set another timer, or connect.                                      *)
RunTimer(k) ==
  IF timers[k] = NoTimer \/ timers[k] > 0 THEN {World}
  ELSE LET off == [World EXCEPT !.timers[k] = NoTimer]
       IN {off} \cup SetTimer(off) \cup Connect(off)

DispatchTimer ==
  /\ pc = "timers"
  /\ \E w \in RunTimer(i) : Become(w)
  /\ IF i + 1 < Ntimers THEN i' = i + 1 /\ UNCHANGED pc ELSE i' = 0 /\ pc' = "read"
  /\ UNCHANGED <<rset, wset>>

-----------------------------------------------------------------------------
(* dispatch_updates: the slots in order, each in three stages.             *)
C == clients[i]
Here == C # Nobody

NextSlot_OneReady ==             \* a slip: one ready client per pass
  IF i + 1 < Nslots /\ ~(Here /\ C.fd \in rset)
  THEN i' = i + 1 /\ pc' = "read" /\ UNCHANGED <<rset, wset>>
  ELSE i' = 0 /\ pc' = "idle" /\ rset' = {} /\ wset' = {}

NextSlot ==
  IF i + 1 < Nslots THEN i' = i + 1 /\ pc' = "read" /\ UNCHANGED <<rset, wset>>
                    ELSE i' = 0 /\ pc' = "idle" /\ rset' = {} /\ wset' = {}

Skip ==
  /\ pc = "read"
  /\ ~Here
  /\ NextSlot
  /\ UNCHANGED <<clients, timers, sock, fate>>

NotReadable ==
  /\ pc = "read"
  /\ Here /\ C.fd \notin rset
  /\ pc' = "write"
  /\ UNCHANGED <<clients, timers, sock, rset, wset, i, fate>>

Ready(isListener) == pc = "read" /\ Here /\ C.fd \in rset /\ C.listener = isListener

(* net_accept waits when nobody has called.                                *)
Accept ==
  /\ Ready(TRUE)
  /\ sock[C.fd].in > 0
  /\ LET taken == [World EXCEPT !.sock[C.fd].in = @ - 1]
     IN \E w \in Greet(AddClient(taken, "accepted"), SlotFor(taken)) : Become(w)
  /\ pc' = "write"
  /\ UNCHANGED <<rset, wset, i>>

(* read waits when there is nothing to read, unless the socket was         *)
(* connected by us: EAGAIN, and the rest of the visit is skipped.          *)
ReadAgain ==
  /\ Ready(FALSE)
  /\ sock[C.fd].kind \in {"connecting", "connected"} /\ ~Readable(C.fd)
  /\ NextSlot
  /\ UNCHANGED <<clients, timers, sock, fate>>

ReadFails ==
  /\ Ready(FALSE)
  /\ Failed(C.fd)
  /\ Become(Crashed("read failed"))
  /\ UNCHANGED <<rset, wset, pc, i>>

ReadEnd ==
  /\ Ready(FALSE)
  /\ ~Failed(C.fd) /\ sock[C.fd].in = 0 /\ sock[C.fd].eof
  /\ Become(Close(World, i))
  /\ pc' = "write"
  /\ UNCHANGED <<rset, wset, i>>

ReadData ==
  /\ Ready(FALSE)
  /\ ~Failed(C.fd) /\ sock[C.fd].in > 0
  /\ \E w \in Handle([World EXCEPT !.sock[C.fd].in = @ - 1], i) : Become(w)
  /\ pc' = "write"
  /\ UNCHANGED <<rset, wset, i>>

(* One buffer's worth is sent, which may leave no room for another; when   *)
(* it was the last one, WRITE_FINISHED.                                    *)
Sent(s, room) == [World EXCEPT !.clients[s].out = @ - 1, !.sock[clients[s].fd].room = room]

WriteOut(s) ==
  UNION {LET sent == Sent(s, room)
         IN IF sent.clients[s].out = 0 THEN Handle(sent, s) ELSE {sent} : room \in BOOLEAN}

(* A buffer the kernel does not take whole: what we connected does not     *)
(* block and the write is a short one; what we accepted waits for room.    *)
ShortWrite == IF sock[C.fd].kind = "connected" THEN {Crashed("partial write")} ELSE {}

(* The outbox, if the descriptor is writable; then net.close and           *)
(* removeclient, if anything has set the client's flag.                    *)
Remove_LeavingIt(w, s) == [w EXCEPT !.sock[w.clients[s].fd] = Sock("closed")]  \* a slip

Remove(w, s) == [w EXCEPT !.sock[w.clients[s].fd] = Sock("closed"), !.clients[s] = Nobody]

WriteAndClose ==
  /\ pc = "write"
  /\ \E w \in IF C.fd \notin wset THEN {World}
              ELSE IF C.out = 0 THEN {Crashed("empty outbox")}
              ELSE IF ~Open(C.fd) THEN {Crashed("partial write")}
              ELSE IF ~sock[C.fd].room THEN ShortWrite
              ELSE WriteOut(i) :
       Become(IF w.fate = "fine" /\ w.clients[i].close THEN Remove(w, i) ELSE w)
  /\ NextSlot

Pass == \/ Select \/ SelectReturns \/ DispatchTimer
        \/ Skip \/ NotReadable \/ Accept \/ ReadAgain \/ ReadFails \/ ReadEnd \/ ReadData
        \/ WriteAndClose

-----------------------------------------------------------------------------
(* The world outside: calls, data, ends, connections made, refused and     *)
(* reset, room in the send buffers, and time.                              *)
Incoming(fd) ==
  /\ (sock[fd].kind = "listening" \/ Open(fd)) /\ ~sock[fd].eof /\ sock[fd].in < MaxIn
  /\ sock' = [sock EXCEPT ![fd].in = @ + 1]

OtherCloses(fd) ==
  /\ Open(fd) /\ ~sock[fd].eof
  /\ sock' = [sock EXCEPT ![fd].eof = TRUE]

Settle(fd) ==
  /\ Open(fd) \/ sock[fd].kind = "connecting"
  /\ \E kind \in {"failed"} \cup IF Open(fd) THEN {} ELSE {"connected"} :
       sock' = [sock EXCEPT ![fd].kind = kind, ![fd].room = TRUE]

Drains(fd) ==
  /\ Open(fd) /\ ~sock[fd].room
  /\ sock' = [sock EXCEPT ![fd].room = TRUE]

SecondPasses ==
  /\ \E k \in TimerSlots : timers[k] # NoTimer /\ timers[k] >= 0
  /\ timers' = [k \in TimerSlots |-> IF timers[k] = NoTimer \/ timers[k] < 0 THEN timers[k]
                                     ELSE timers[k] - 1]
  /\ UNCHANGED <<clients, sock, rset, wset, pc, i, fate>>

Network == /\ \E fd \in Fds : Incoming(fd) \/ OtherCloses(fd) \/ Settle(fd) \/ Drains(fd)
           /\ UNCHANGED <<clients, timers, rset, wset, pc, i, fate>>

Over == (fate # "fine" \/ pc = "stopped") /\ UNCHANGED vars

Next == \/ fate = "fine" /\ pc # "stopped" /\ (Pass \/ BetweenPasses \/ Network \/ SecondPasses)
        \/ Over

Spec == Init /\ [][Next]_vars

(* The program calls process again and again, and select returns in the    *)
(* end: after its timeout if not before.  Nothing is expected of others.   *)
FairSpec == Spec /\ WF_vars(fate = "fine" /\ pc # "stopped" /\ Pass)

-----------------------------------------------------------------------------
(* Every variable has its type.                                            *)
TypeOK ==
  /\ \A s \in Used : clients[s] \in [fd : Fds, listener : BOOLEAN, out : 0 .. MaxOut,
                                     close : BOOLEAN]
  /\ timers \in [TimerSlots -> -1 .. 1 \cup {NoTimer}]
  /\ sock \in [Fds -> [kind : Kinds, in : 0 .. MaxIn, eof : BOOLEAN, room : BOOLEAN]]
  /\ rset \subseteq Fds /\ wset \subseteq Fds
  /\ pc \in {"idle", "select", "timers", "read", "write", "stopped"}
  /\ i \in Slots \cup TimerSlots

(* Lines 290-291: "The next loop run will start processing the new         *)
(* client."  A client that entered the table after select is not visited   *)
(* as ready in the same pass, although it may have the descriptor of one   *)
(* that select reported and that was closed meanwhile.                     *)
NewClientsWait ==
  [][\A s \in Slots :
       clients[s] = Nobody /\ clients'[s] # Nobody /\ pc # "idle" =>
         (s < i /\ pc # "timers") \/ clients'[s].fd \notin rset \cup wset]_vars

(* The process crashes only for want of room for one more client or timer, *)
(* when a connect fails at once (lines 149-150: "If the connection attempt *)
(* fails, the handler will be called with a corresponding event"), on a    *)
(* connection that has failed, or on one that we made and whose other side *)
(* reads too slowly, against lines 173-174.  In particular                 *)
(* the panic of line 316 is not reached: whatever handlers did between     *)
(* select and the write, a client selected for writing has an outbox; and  *)
(* a connection that is still being made is not written to, even when      *)
(* select has failed and left it in the sets.                              *)
CrashesAreProvoked ==
  [][fate = "fine" /\ fate' # "fine" =>
       \/ fate' = "no room" /\ (FreeFds(World) = {} \/ FreeSlots(World) = {})
       \/ fate' = "no timer" /\ FreeTimers(World) = {}
       \/ fate' = "no connection"
       \/ fate' \in {"read failed", "partial write"} /\ Failed(C.fd)
       \/ fate' = "partial write" /\ sock[C.fd].kind = "connected" /\ ~sock[C.fd].room]_vars

(* Lines 173-174: "The write will happen later when it's guaranteed to     *)
(* succeed without blocking."  On a connection that has not failed, what   *)
(* was put into the outbox is not lost to a panic.                         *)
WritesSucceed ==
  [][fate = "fine" /\ fate' = "partial write" => Failed(C.fd)]_vars

(* A client's descriptor is open and its own: after a close it may belong  *)
(* to a new client, of which the old one must know nothing.                *)
DescriptorsApart ==
  \A s, t \in Used : /\ sock[clients[s].fd].kind # "closed"
                     /\ clients[s].fd = clients[t].fd => s = t

(* Waiting in accept or read for something select did not promise, or in   *)
(* write for an other side that reads too slowly.                          *)
Blocked ==
  \/ /\ pc = "read" /\ Here /\ C.fd \in rset /\ ~Readable(C.fd)
     /\ sock[C.fd].kind \in {"listening", "accepted"}
  \/ /\ pc = "write" /\ Here /\ C.fd \in wset
     /\ sock[C.fd].kind = "accepted" /\ ~sock[C.fd].room

(* What arrives is taken, however busy the other clients are, unless the   *)
(* process crashes or is blocked: by an overdue timer's full sets, or by   *)
(* the full send buffer of a client it accepted.                           *)
InputIsServed ==
  \A fd \in Fds : sock[fd].in > 0 ~> sock[fd].in = 0 \/ Blocked \/ fate # "fine"

(* A timer that is overdue is run, with the same exceptions.               *)
TimersRun ==
  \A k \in TimerSlots : timers[k] # NoTimer /\ timers[k] < 0
                          ~> timers[k] = NoTimer \/ timers[k] >= 0 \/ Blocked \/ fate # "fine"
=============================================================================
