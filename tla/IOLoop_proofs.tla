---------------------------- MODULE IOLoop_proofs ----------------------------
(***************************************************************************)
(* Theorems about the event loop of prog/torrent/ioloop.c, for any number  *)
(* of slots, timers and descriptors.  Slots and descriptors are both given *)
(* out lowest first and taken back together, and the program holds no      *)
(* other descriptor while the loop runs: so the client in slot s has the   *)
(* s-th descriptor.  What a pass may do to its own table rests on that.    *)
(***************************************************************************)
EXTENDS IOLoop, NaturalsInduction, WellFoundedInduction, TLAPS

Client == [fd : Fds, listener : BOOLEAN, out : 0 .. MaxOut, close : BOOLEAN]

Fates == {"fine", "no room", "no timer", "no connection",
          "read failed", "empty outbox", "partial write"}

Worlds == [clients : [Slots -> Client \cup {Nobody}],
           timers  : [TimerSlots -> -1 .. 1 \cup {NoTimer}],
           sock    : [Fds -> [kind : Kinds, in : 0 .. MaxIn, eof : BOOLEAN, room : BOOLEAN]],
           fate    : Fates]

(* The client in slot s has descriptor s, and every open descriptor has    *)
(* its client; a listener has nothing to send; nothing arrives on a        *)
(* connection that is being made.                                          *)
Aligned(w) ==
  /\ \A s \in Slots : w.clients[s] # Nobody =>
       /\ w.clients[s].fd = s
       /\ w.sock[s].kind # "closed"
       /\ w.clients[s].listener <=> w.sock[s].kind = "listening"
       /\ w.clients[s].listener => w.clients[s].out = 0
  /\ \A fd \in Fds : w.sock[fd].kind # "closed" => fd \in Slots /\ w.clients[fd] # Nobody
  /\ \A fd \in Fds : w.sock[fd].kind \in {"closed", "connecting"} =>
       w.sock[fd].in = 0 /\ w.sock[fd].eof = FALSE

WorldOK(w) == w \in Worlds /\ Aligned(w)

(* The slot from which on the pass has yet to visit clients.               *)
Ahead == IF pc \in {"read", "write"} THEN i ELSE 0

CanWrite(w, fd) == w.sock[fd].kind \in {"connected", "accepted", "failed"}

(* What the sets R and W of ready descriptors say of the slots from n on:  *)
(* their clients are those select has seen, and one selected for writing   *)
(* has something to write, and can unless it will be skipped for its read. *)
AheadOK(w, n, R, W) ==
  /\ \A fd \in R \cup W : fd >= n => fd \in Slots /\ w.clients[fd] # Nobody
  /\ \A fd \in W : fd >= n => w.clients[fd].out > 0 /\ (fd \notin R => CanWrite(w, fd))

PassInv ==
  /\ pc = "idle" => rset = {} /\ wset = {}
  /\ pc \in {"idle", "select"} => i = 0
  /\ pc = "timers" => i \in TimerSlots
  /\ pc \in {"read", "write"} => i \in Slots
  /\ AheadOK(World, Ahead, rset, wset)
  /\ pc = "write" => clients[i] # Nobody /\ (i \in wset => CanWrite(World, i))

LoopInv ==
  /\ WorldOK(World)
  /\ rset \subseteq Fds /\ wset \subseteq Fds
  /\ pc \in {"idle", "select", "timers", "read", "write", "stopped"}
  /\ i \in Slots \cup TimerSlots
  /\ fate = "fine" => PassInv

-----------------------------------------------------------------------------
(***************************************************************************)
(* Lowest slots and descriptors.                                           *)
(***************************************************************************)

LEMMA LowestIs ==
  ASSUME NEW S \in SUBSET Nat, S # {}
  PROVE  Lowest(S) \in S /\ \A x \in S : Lowest(S) <= x
<1> DEFINE R == OpToRel(<, Nat)
<1>1. IsWellFoundedOn(R, Nat)
  BY NatLessThanWellFounded
<1>2. \A x, y \in Nat : y < x => <<y, x>> \in R
  BY DEF OpToRel
<1> HIDE DEF R
<1>3. PICK x \in S : \A y \in S : ~ (<<y, x>> \in R)
  BY <1>1, WFMin
<1>4. \A y \in S : ~ (y < x)
  BY <1>2, <1>3
<1>5. \A y \in S : x <= y
  BY <1>4
<1> QED
  BY <1>5 DEF Lowest

(* The lowest free slot and the lowest closed descriptor have the same     *)
(* number.                                                                 *)
LEMMA SameNumber ==
  ASSUME NEW w, WorldOK(w), FreeFds(w) # {}, FreeSlots(w) # {}
  PROVE  /\ SlotFor(w) = Lowest(FreeFds(w))
         /\ SlotFor(w) \in Slots /\ SlotFor(w) \in Fds
         /\ w.clients[SlotFor(w)] = Nobody /\ w.sock[SlotFor(w)].kind = "closed"
<1> DEFINE a == Lowest(FreeSlots(w))
           b == Lowest(FreeFds(w))
<1> USE LoopAssumption
<1>1. /\ a \in Slots /\ w.clients[a] = Nobody
      /\ \A x \in Slots : w.clients[x] = Nobody => a <= x
  <2>1. FreeSlots(w) \in SUBSET Nat
    BY DEF FreeSlots, Slots
  <2> HIDE DEF a
  <2>2. a \in FreeSlots(w) /\ \A x \in FreeSlots(w) : a <= x
    BY <2>1, LowestIs DEF a
  <2> QED
    BY <2>2 DEF FreeSlots
<1>2. /\ b \in Fds /\ w.sock[b].kind = "closed"
      /\ \A x \in Fds : w.sock[x].kind = "closed" => b <= x
  <2>1. FreeFds(w) \in SUBSET Nat
    BY DEF FreeFds, Fds
  <2> HIDE DEF b
  <2>2. b \in FreeFds(w) /\ \A x \in FreeFds(w) : b <= x
    BY <2>1, LowestIs DEF b
  <2> QED
    BY <2>2 DEF FreeFds
<1> HIDE DEF a, b
<1>3. \A x \in Slots \cap Fds : w.clients[x] = Nobody <=> w.sock[x].kind = "closed"
  BY DEF WorldOK, Aligned
<1>4. a = b
  <2>1. CASE a \in Fds
    <3>1. b <= a
      BY <1>1, <1>2, <1>3, <2>1
    <3>2. b \in Slots
      BY <1>1, <1>2, <3>1 DEF Slots, Fds
    <3> QED
      BY <1>1, <1>2, <1>3, <3>1, <3>2 DEF Slots
  <2>2. CASE a \notin Fds
    <3>1. b < a /\ b \in Slots
      BY <1>1, <1>2, <2>2 DEF Slots, Fds
    <3> QED
      BY <1>1, <1>2, <1>3, <3>1 DEF Slots, Fds
  <2> QED
    BY <2>1, <2>2
<1> QED
  BY <1>1, <1>2, <1>4 DEF SlotFor, a, b

-----------------------------------------------------------------------------
(***************************************************************************)
(* What a handler does to the table.                                       *)
(***************************************************************************)

(* Every client stays where it is, with its descriptor and at least as     *)
(* much to send, and if it could be written to it still can.               *)
Keeps(v, w) ==
  \A s \in Slots : v.clients[s] # Nobody =>
    /\ w.clients[s] # Nobody
    /\ w.clients[s].fd = v.clients[s].fd
    /\ w.clients[s].out >= v.clients[s].out
    /\ CanWrite(v, s) => CanWrite(w, s)

(* A crash, and what provokes it.                                          *)
Provoked(v, why) ==
  \/ why = "no room" /\ (FreeFds(v) = {} \/ FreeSlots(v) = {})
  \/ why = "no timer" /\ FreeTimers(v) = {}
  \/ why = "no connection"

Outcome(v, w) == \/ WorldOK(w) /\ Keeps(v, w) /\ w.fate = v.fate
                 \/ WorldOK(w) /\ w.fate # "fine" /\ Provoked(v, w.fate)

LEMMA CrashedOK ==
  ASSUME NEW why \in Fates
  PROVE  WorldOK(Crashed(why)) /\ Crashed(why).fate = why
<1>1. Crashed(why) = [clients |-> [s \in Slots |-> Nobody], timers |-> [k \in TimerSlots |-> NoTimer],
                      sock |-> [fd \in Fds |-> Sock("closed")], fate |-> why]
  BY DEF Crashed, Blank
<1>2. Sock("closed") \in [kind : Kinds, in : 0 .. MaxIn, eof : BOOLEAN, room : BOOLEAN]
  BY LoopAssumption DEF Sock, Kinds
<1>3. Crashed(why) \in Worlds
  BY <1>1, <1>2 DEF Worlds
<1>4. Aligned(Crashed(why))
  BY <1>1 DEF Aligned, Sock
<1> QED
  BY <1>1, <1>3, <1>4 DEF WorldOK

LEMMA NotNobody ==
  ASSUME NEW c \in Client
  PROVE  c # Nobody
  BY NamesAssumption, LoopAssumption DEF Client, Fds

LEMMA AddClientOK ==
  ASSUME NEW v, WorldOK(v), NEW kind \in {"listening", "connecting", "accepted"}
  PROVE  /\ Outcome(v, AddClient(v, kind))
         /\ v.fate = "fine" /\ AddClient(v, kind).fate = "fine" =>
              /\ SlotFor(v) \in Slots
              /\ AddClient(v, kind).clients[SlotFor(v)] \in Client
              /\ AddClient(v, kind).clients[SlotFor(v)].out = 0
              /\ AddClient(v, kind).clients[SlotFor(v)].listener <=> kind = "listening"
<1> USE LoopAssumption
<1>1. CASE FreeFds(v) = {} \/ FreeSlots(v) = {}
  <2>1. AddClient(v, kind) = Crashed("no room")
    BY <1>1 DEF AddClient
  <2>2. WorldOK(Crashed("no room")) /\ Crashed("no room").fate = "no room"
    BY CrashedOK DEF Fates
  <2>3. Outcome(v, AddClient(v, kind))
    BY <1>1, <2>1, <2>2 DEF Outcome, Provoked
  <2> QED
    BY <2>1, <2>2, <2>3
<1>2. CASE FreeFds(v) # {} /\ FreeSlots(v) # {}
  <2> DEFINE n == SlotFor(v)
             c == [fd |-> n, listener |-> kind = "listening", out |-> 0, close |-> FALSE]
             w == AddClient(v, kind)
  <2>1. /\ n = Lowest(FreeFds(v)) /\ n \in Slots /\ n \in Fds
        /\ v.clients[n] = Nobody /\ v.sock[n].kind = "closed"
    BY <1>2, SameNumber
  <2>2. w = [v EXCEPT !.sock[n] = Sock(kind), !.clients[n] = c]
    BY <1>2, <2>1 DEF AddClient
  <2> HIDE DEF w, n, c
  <2>3. /\ c \in Client /\ c # Nobody /\ c.fd = n /\ c.out = 0
        /\ c.listener <=> kind = "listening"
    <3>1. CASE kind = "listening"
      <4>1. c = [fd |-> n, listener |-> TRUE, out |-> 0, close |-> FALSE]
        BY <3>1 DEF c
      <4>2. c \in Client
        BY <2>1, <4>1 DEF Client
      <4>3. c.fd = n /\ c.out = 0 /\ (c.listener <=> kind = "listening")
        BY <3>1, <4>1
      <4> QED
        BY <4>2, <4>3, NotNobody
    <3>2. CASE kind # "listening"
      <4>1. c = [fd |-> n, listener |-> FALSE, out |-> 0, close |-> FALSE]
        BY <3>2 DEF c
      <4>2. c \in Client
        BY <2>1, <4>1 DEF Client
      <4>3. c.fd = n /\ c.out = 0 /\ (c.listener <=> kind = "listening")
        BY <3>2, <4>1
      <4> QED
        BY <4>2, <4>3, NotNobody
    <3> QED
      BY <3>1, <3>2
  <2>4. Sock(kind) \in [kind : Kinds, in : 0 .. MaxIn, eof : BOOLEAN, room : BOOLEAN]
    BY DEF Sock, Kinds
  <2>5. v \in Worlds
    BY DEF WorldOK
  <2>6. /\ w.sock = [v.sock EXCEPT ![n] = Sock(kind)]
        /\ w.clients = [v.clients EXCEPT ![n] = c]
        /\ w.timers = v.timers /\ w.fate = v.fate /\ w \in Worlds
    BY <2>1, <2>2, <2>3, <2>4, <2>5 DEF Worlds
  <2>7. w.clients[n] = c /\ w.sock[n] = Sock(kind)
    BY <2>1, <2>5, <2>6 DEF Worlds
  <2>8. \A x \in Slots : x # n => w.clients[x] = v.clients[x]
    BY <2>1, <2>5, <2>6 DEF Worlds
  <2>9. \A x \in Fds : x # n => w.sock[x] = v.sock[x]
    BY <2>1, <2>5, <2>6 DEF Worlds
  <2>10. Aligned(w)
    <3>1. ASSUME NEW s \in Slots, w.clients[s] # Nobody
          PROVE  /\ w.clients[s].fd = s
                 /\ w.sock[s].kind # "closed"
                 /\ w.clients[s].listener <=> w.sock[s].kind = "listening"
                 /\ w.clients[s].listener => w.clients[s].out = 0
      <4>1. CASE s = n
        BY <2>1, <2>3, <2>7, <4>1 DEF Sock
      <4>2. CASE s # n
        <5>1. v.clients[s] \in Client /\ v.clients[s].fd = s /\ s \in Fds
          BY <2>5, <2>8, <3>1, <4>2 DEF Worlds, WorldOK, Aligned, Client
        <5> QED
          BY <2>8, <2>9, <3>1, <4>2, <5>1 DEF WorldOK, Aligned
      <4> QED
        BY <4>1, <4>2
    <3>2. ASSUME NEW fd \in Fds, w.sock[fd].kind # "closed"
          PROVE  fd \in Slots /\ w.clients[fd] # Nobody
      <4>1. CASE fd = n
        BY <2>1, <2>3, <2>7, <4>1
      <4>2. CASE fd # n
        BY <2>8, <2>9, <3>2, <4>2 DEF WorldOK, Aligned
      <4> QED
        BY <4>1, <4>2
    <3>3. ASSUME NEW fd \in Fds, w.sock[fd].kind \in {"closed", "connecting"}
          PROVE  w.sock[fd].in = 0 /\ w.sock[fd].eof = FALSE
      <4>1. CASE fd = n
        BY <2>7, <4>1 DEF Sock
      <4>2. CASE fd # n
        BY <2>9, <3>3, <4>2 DEF WorldOK, Aligned
      <4> QED
        BY <4>1, <4>2
    <3> QED
      BY <3>1, <3>2, <3>3 DEF Aligned
  <2>11. Keeps(v, w)
    <3> SUFFICES ASSUME NEW s \in Slots, v.clients[s] # Nobody
                 PROVE  /\ w.clients[s] = v.clients[s] /\ w.sock[s] = v.sock[s]
                        /\ v.clients[s].out \in Nat
      BY DEF Keeps, CanWrite
    <3>1. s # n
      BY <2>1
    <3>2. v.clients[s] \in Client /\ v.clients[s].fd = s /\ s \in Fds
      BY <2>5 DEF Worlds, WorldOK, Aligned, Client
    <3> QED
      BY <2>8, <2>9, <3>1, <3>2 DEF Client
  <2>12. Outcome(v, w)
    BY <2>6, <2>10, <2>11 DEF Outcome, WorldOK
  <2>13. w.clients[n] \in Client /\ w.clients[n].out = 0 /\ (w.clients[n].listener <=> kind = "listening")
    BY <2>3, <2>7
  <2> QED
    BY <2>1, <2>12, <2>13 DEF w, n
<1> QED
  BY <1>1, <1>2

LEMMA KeepsTransitive ==
  ASSUME NEW u, NEW v, NEW w, WorldOK(u), WorldOK(v), WorldOK(w), Keeps(u, v), Keeps(v, w)
  PROVE  Keeps(u, w)
<1> SUFFICES ASSUME NEW s \in Slots, u.clients[s] # Nobody
             PROVE  /\ w.clients[s] # Nobody
                    /\ w.clients[s].fd = u.clients[s].fd
                    /\ w.clients[s].out >= u.clients[s].out
                    /\ CanWrite(u, s) => CanWrite(w, s)
  BY DEF Keeps
<1>1. v.clients[s] # Nobody /\ w.clients[s] # Nobody
  BY DEF Keeps
<1>2. u.clients[s].out \in Nat /\ v.clients[s].out \in Nat /\ w.clients[s].out \in Nat
  BY <1>1, LoopAssumption DEF WorldOK, Worlds, Client
<1>3. v.clients[s].out >= u.clients[s].out /\ w.clients[s].out >= v.clients[s].out
  BY <1>1 DEF Keeps
<1> QED
  BY <1>1, <1>2, <1>3 DEF Keeps

(* Changing what a client that is not a listener has to send, or whether   *)
(* it is to be closed.                                                     *)
LEMMA ClientChanges ==
  ASSUME NEW v, WorldOK(v), NEW s \in Slots, v.clients[s] # Nobody,
         NEW c \in Client, c.fd = v.clients[s].fd, c.listener = v.clients[s].listener,
         c.listener => c.out = 0,
         NEW w, w = [v EXCEPT !.clients[s] = c]
  PROVE  WorldOK(w) /\ w.fate = v.fate /\ (c.out >= v.clients[s].out => Keeps(v, w))
<1>1. v \in Worlds
  BY DEF WorldOK
<1>2. /\ w.clients = [v.clients EXCEPT ![s] = c]
      /\ w.sock = v.sock /\ w.timers = v.timers /\ w.fate = v.fate /\ w \in Worlds
  BY <1>1 DEF Worlds
<1>3. c # Nobody
  BY NotNobody
<1>4. w.clients[s] = c /\ \A x \in Slots : x # s => w.clients[x] = v.clients[x]
  BY <1>1, <1>2 DEF Worlds
<1>5. Aligned(w)
  <2>1. ASSUME NEW x \in Slots, w.clients[x] # Nobody
        PROVE  /\ w.clients[x].fd = x
               /\ w.sock[x].kind # "closed"
               /\ w.clients[x].listener <=> w.sock[x].kind = "listening"
               /\ w.clients[x].listener => w.clients[x].out = 0
    <3>1. CASE x = s
      BY <1>2, <1>4, <3>1 DEF WorldOK, Aligned
    <3>2. CASE x # s
      BY <1>2, <1>4, <2>1, <3>2 DEF WorldOK, Aligned
    <3> QED
      BY <3>1, <3>2
  <2>2. ASSUME NEW fd \in Fds, w.sock[fd].kind # "closed"
        PROVE  fd \in Slots /\ w.clients[fd] # Nobody
    BY <1>2, <1>3, <1>4, <2>2 DEF WorldOK, Aligned
  <2>3. \A fd \in Fds : w.sock[fd].kind \in {"closed", "connecting"} =>
          w.sock[fd].in = 0 /\ w.sock[fd].eof = FALSE
    BY <1>2 DEF WorldOK, Aligned
  <2> QED
    BY <2>1, <2>2, <2>3 DEF Aligned
<1>6. ASSUME c.out >= v.clients[s].out
      PROVE  Keeps(v, w)
  <2> SUFFICES ASSUME NEW x \in Slots, v.clients[x] # Nobody
               PROVE  /\ w.clients[x] # Nobody
                      /\ w.clients[x].fd = v.clients[x].fd
                      /\ w.clients[x].out >= v.clients[x].out
                      /\ w.sock[x] = v.sock[x]
    BY DEF Keeps, CanWrite
  <2>1. v.clients[x].out \in Nat
    BY <1>1, LoopAssumption DEF Worlds, Client
  <2>2. CASE x = s
    BY <1>2, <1>3, <1>4, <1>6, <2>2
  <2>3. CASE x # s
    BY <1>2, <1>4, <2>1, <2>3
  <2> QED
    BY <2>2, <2>3
<1> QED
  BY <1>2, <1>5, <1>6 DEF WorldOK

LEMMA SelfOutcome ==
  ASSUME NEW v, WorldOK(v)
  PROVE  Outcome(v, v)
<1>1. \A s \in Slots : v.clients[s] # Nobody => v.clients[s].out \in Nat
  BY LoopAssumption DEF WorldOK, Worlds, Client
<1> QED
  BY <1>1 DEF Outcome, Keeps

LEMMA WriteOK ==
  ASSUME NEW v, WorldOK(v), NEW s \in Slots, v.clients[s] # Nobody,
         ~ v.clients[s].listener, NEW w \in Write(v, s)
  PROVE  WorldOK(w) /\ Keeps(v, w) /\ w.fate = v.fate
<1>1. v.clients[s] \in Client
  BY DEF WorldOK, Worlds
<1>2. CASE w = v
  <2>1. \A x \in Slots : v.clients[x] # Nobody => v.clients[x].out \in Nat
    BY LoopAssumption DEF WorldOK, Worlds, Client
  <2> QED
    BY <1>2, <2>1 DEF Keeps
<1>3. CASE v.clients[s].out < MaxOut /\ w = [v EXCEPT !.clients[s].out = @ + 1]
  <2> DEFINE c == [v.clients[s] EXCEPT !.out = @ + 1]
  <2>1. /\ c \in Client /\ c.fd = v.clients[s].fd /\ c.listener = v.clients[s].listener
        /\ c.out >= v.clients[s].out
    BY <1>1, <1>3, LoopAssumption DEF Client
  <2>2. w = [v EXCEPT !.clients[s] = c]
    BY <1>1, <1>3 DEF Client, WorldOK, Worlds
  <2> HIDE DEF c
  <2> QED
    BY <2>1, <2>2, ClientChanges
<1> QED
  BY <1>2, <1>3 DEF Write

LEMMA CloseOK ==
  ASSUME NEW v, WorldOK(v), NEW s \in Slots, v.clients[s] # Nobody
  PROVE  WorldOK(Close(v, s)) /\ Keeps(v, Close(v, s)) /\ Close(v, s).fate = v.fate
<1> DEFINE c == [v.clients[s] EXCEPT !.close = TRUE]
<1>1. v.clients[s] \in Client /\ (v.clients[s].listener => v.clients[s].out = 0)
  BY DEF WorldOK, Worlds, Aligned
<1>2. /\ c \in Client /\ c.fd = v.clients[s].fd /\ c.listener = v.clients[s].listener
      /\ c.out = v.clients[s].out /\ c.out \in Nat
  <2>1. ASSUME NEW b \in BOOLEAN, NEW d, d = [v.clients[s] EXCEPT !.close = b]
        PROVE  /\ d \in Client /\ d.fd = v.clients[s].fd /\ d.listener = v.clients[s].listener
               /\ d.out = v.clients[s].out /\ d.out \in Nat
    BY <1>1, <2>1, LoopAssumption DEF Client
  <2> QED
    BY <2>1
<1>3. Close(v, s) = [v EXCEPT !.clients[s] = c]
  BY <1>1 DEF Close, Client, WorldOK, Worlds
<1>4. c.out >= v.clients[s].out
  BY <1>2
<1> HIDE DEF c
<1> QED
  BY <1>1, <1>2, <1>3, <1>4, ClientChanges

LEMMA GreetOK ==
  ASSUME NEW v, WorldOK(v), v.fate = "fine", NEW kind \in {"connecting", "accepted"},
         NEW w \in Greet(AddClient(v, kind), SlotFor(v))
  PROVE  Outcome(v, w)
<1> DEFINE a == AddClient(v, kind)
           n == SlotFor(v)
<1>1. Outcome(v, a)
  BY AddClientOK
<1>2. a.fate = "fine" =>
        n \in Slots /\ a.clients[n] # Nobody /\ ~ a.clients[n].listener
  BY AddClientOK, NotNobody
<1> HIDE DEF a, n
<1>3. CASE w = a
  BY <1>1, <1>3
<1>4. CASE a.fate = "fine" /\ w \in Write(a, n)
  <2>1. WorldOK(a) /\ Keeps(v, a)
    BY <1>1, <1>4 DEF Outcome
  <2>2. WorldOK(w) /\ Keeps(a, w) /\ w.fate = a.fate
    BY <1>2, <1>4, <2>1, WriteOK
  <2> QED
    BY <1>4, <2>1, <2>2, KeepsTransitive DEF Outcome
<1> QED
  BY <1>3, <1>4 DEF Greet, a, n

LEMMA ConnectOK ==
  ASSUME NEW v, WorldOK(v), v.fate = "fine", NEW w \in Connect(v)
  PROVE  Outcome(v, w)
<1>1. CASE w = Crashed("no connection")
  <2>1. WorldOK(w) /\ w.fate = "no connection"
    BY <1>1, CrashedOK DEF Fates
  <2> QED
    BY <2>1 DEF Outcome, Provoked
<1>2. CASE w \in Greet(AddClient(v, "connecting"), SlotFor(v))
  BY <1>2, GreetOK
<1> QED
  BY <1>1, <1>2 DEF Connect

(* A timer set or turned off.                                              *)
LEMMA TimerChanges ==
  ASSUME NEW v, WorldOK(v), NEW k \in TimerSlots, NEW secs \in -1 .. 1 \cup {NoTimer},
         NEW w, w = [v EXCEPT !.timers[k] = secs]
  PROVE  WorldOK(w) /\ Keeps(v, w) /\ w.fate = v.fate /\ w.clients = v.clients /\ w.sock = v.sock
<1>1. /\ w.clients = v.clients /\ w.sock = v.sock /\ w.fate = v.fate /\ w \in Worlds
  BY DEF WorldOK, Worlds
<1>2. \A x \in Slots : v.clients[x] # Nobody => v.clients[x].out \in Nat
  BY LoopAssumption DEF WorldOK, Worlds, Client
<1> QED
  BY <1>1, <1>2 DEF WorldOK, Aligned, Keeps, CanWrite

(* What the kernel knows of an open descriptor changes, not what it is for. *)
LEMMA SockChanges ==
  ASSUME NEW v, WorldOK(v), NEW fd \in Fds, v.sock[fd].kind # "closed",
         NEW d \in [kind : Kinds, in : 0 .. MaxIn, eof : BOOLEAN, room : BOOLEAN],
         d.kind \notin {"closed", "connecting"},
         d.kind = "listening" <=> v.sock[fd].kind = "listening",
         v.sock[fd].kind \in {"connected", "accepted", "failed"} =>
           d.kind \in {"connected", "accepted", "failed"},
         NEW w, w = [v EXCEPT !.sock[fd] = d]
  PROVE  /\ WorldOK(w) /\ Keeps(v, w)
         /\ w.fate = v.fate /\ w.clients = v.clients /\ w.timers = v.timers
         /\ FreeFds(w) = FreeFds(v) /\ FreeSlots(w) = FreeSlots(v)
<1>1. v \in Worlds
  BY DEF WorldOK
<1>2. /\ w.sock = [v.sock EXCEPT ![fd] = d]
      /\ w.clients = v.clients /\ w.timers = v.timers /\ w.fate = v.fate /\ w \in Worlds
  BY <1>1 DEF Worlds
<1>3. w.sock[fd] = d /\ \A x \in Fds : x # fd => w.sock[x] = v.sock[x]
  BY <1>1, <1>2 DEF Worlds
<1>4. Aligned(w)
  <2>1. ASSUME NEW x \in Slots, w.clients[x] # Nobody
        PROVE  /\ w.clients[x].fd = x
               /\ w.sock[x].kind # "closed"
               /\ w.clients[x].listener <=> w.sock[x].kind = "listening"
               /\ w.clients[x].listener => w.clients[x].out = 0
    <3>1. x \in Fds
      BY <1>1, <1>2, <2>1 DEF Worlds, WorldOK, Aligned, Client
    <3> QED
      BY <1>2, <1>3, <2>1, <3>1 DEF WorldOK, Aligned
  <2>2. ASSUME NEW x \in Fds, w.sock[x].kind # "closed"
        PROVE  x \in Slots /\ w.clients[x] # Nobody
    BY <1>2, <1>3, <2>2 DEF WorldOK, Aligned
  <2>3. ASSUME NEW x \in Fds, w.sock[x].kind \in {"closed", "connecting"}
        PROVE  w.sock[x].in = 0 /\ w.sock[x].eof = FALSE
    BY <1>3, <2>3 DEF WorldOK, Aligned
  <2> QED
    BY <2>1, <2>2, <2>3 DEF Aligned
<1>5. Keeps(v, w)
  <2> SUFFICES ASSUME NEW x \in Slots, v.clients[x] # Nobody
               PROVE  v.clients[x].out \in Nat /\ (CanWrite(v, x) => CanWrite(w, x))
    BY <1>2 DEF Keeps
  <2>1. v.clients[x] \in Client /\ v.clients[x].fd = x /\ x \in Fds
    BY <1>1 DEF Worlds, WorldOK, Aligned, Client
  <2>2. v.clients[x].out \in Nat
    BY <2>1, LoopAssumption DEF Client
  <2>3. CanWrite(v, x) => CanWrite(w, x)
    BY <1>3, <2>1 DEF CanWrite
  <2> QED
    BY <2>2, <2>3
<1>6. FreeFds(w) = FreeFds(v)
  BY <1>3 DEF FreeFds
<1> QED
  BY <1>2, <1>4, <1>5, <1>6 DEF WorldOK, FreeSlots

(* One thing less waits to be read.                                        *)
LEMMA TakenOK ==
  ASSUME NEW v, WorldOK(v), NEW fd \in Fds, v.sock[fd].in > 0,
         NEW w, w = [v EXCEPT !.sock[fd].in = @ - 1]
  PROVE  /\ WorldOK(w) /\ Keeps(v, w)
         /\ w.fate = v.fate /\ w.clients = v.clients /\ w.timers = v.timers
         /\ FreeFds(w) = FreeFds(v) /\ FreeSlots(w) = FreeSlots(v)
<1> DEFINE d == [v.sock[fd] EXCEPT !.in = @ - 1]
<1>1. v.sock[fd] \in [kind : Kinds, in : 0 .. MaxIn, eof : BOOLEAN, room : BOOLEAN] /\ v \in Worlds
  BY DEF WorldOK, Worlds
<1>2. v.sock[fd].kind \notin {"closed", "connecting"}
  BY DEF WorldOK, Aligned
<1>3. d.kind = v.sock[fd].kind /\ d \in [kind : Kinds, in : 0 .. MaxIn, eof : BOOLEAN, room : BOOLEAN]
  BY <1>1, LoopAssumption
<1>4. w = [v EXCEPT !.sock[fd] = d]
  BY <1>1 DEF Worlds
<1> HIDE DEF d
<1>5. /\ v.sock[fd].kind # "closed" /\ d.kind \notin {"closed", "connecting"}
      /\ d.kind = "listening" <=> v.sock[fd].kind = "listening"
      /\ v.sock[fd].kind \in {"connected", "accepted", "failed"} =>
           d.kind \in {"connected", "accepted", "failed"}
  BY <1>2, <1>3
<1> QED
  BY <1>3, <1>4, <1>5, SockChanges

LEMMA SetTimerOK ==
  ASSUME NEW v, WorldOK(v), NEW w \in SetTimer(v)
  PROVE  Outcome(v, w)
<1>1. CASE FreeTimers(v) = {}
  <2>1. w = Crashed("no timer")
    BY <1>1 DEF SetTimer
  <2>2. WorldOK(w) /\ w.fate = "no timer"
    BY <2>1, CrashedOK DEF Fates
  <2> QED
    BY <1>1, <2>2 DEF Outcome, Provoked
<1>2. CASE FreeTimers(v) # {}
  <2>1. FreeTimers(v) \in SUBSET Nat
    BY LoopAssumption DEF FreeTimers, TimerSlots
  <2>2. Lowest(FreeTimers(v)) \in TimerSlots
    BY <1>2, <2>1, LowestIs DEF FreeTimers
  <2>3. PICK secs \in {0, 1} : w = [v EXCEPT !.timers[Lowest(FreeTimers(v))] = secs]
    BY <1>2 DEF SetTimer
  <2> QED
    BY <2>2, <2>3, TimerChanges DEF Outcome
<1> QED
  BY <1>1, <1>2

LEMMA HandleOK ==
  ASSUME NEW v, WorldOK(v), v.fate = "fine", NEW s \in Slots, v.clients[s] # Nobody,
         ~ v.clients[s].listener, NEW w \in Handle(v, s)
  PROVE  Outcome(v, w)
<1>1. CASE w = v
  BY <1>1, SelfOutcome
<1>2. CASE w = Close(v, s)
  BY <1>2, CloseOK DEF Outcome
<1>3. CASE w \in Write(v, s)
  BY <1>3, WriteOK DEF Outcome
<1>4. CASE w \in Connect(v)
  BY <1>4, ConnectOK
<1>5. CASE w \in SetTimer(v)
  BY <1>5, SetTimerOK
<1> QED
  BY <1>1, <1>2, <1>3, <1>4, <1>5 DEF Handle

-----------------------------------------------------------------------------
(***************************************************************************)
(* Steps.                                                                  *)
(***************************************************************************)

LEMMA BecomeIs ==
  ASSUME NEW w, w \in Worlds, Become(w)
  PROVE  World' = w
  BY DEF Become, World, Worlds

LEMMA WorldIs ==
  World.clients = clients /\ World.timers = timers /\ World.sock = sock /\ World.fate = fate
  BY DEF World

LEMMA AheadKept ==
  ASSUME NEW v, NEW w, WorldOK(v), WorldOK(w), Keeps(v, w),
         NEW n, NEW R \in SUBSET Fds, NEW W \in SUBSET Fds, AheadOK(v, n, R, W)
  PROVE  AheadOK(w, n, R, W)
<1>1. ASSUME NEW fd \in R \cup W, fd >= n
      PROVE  fd \in Slots /\ v.clients[fd] # Nobody /\ w.clients[fd] # Nobody
  BY <1>1 DEF AheadOK, Keeps
<1>2. ASSUME NEW fd \in W, fd >= n
      PROVE  w.clients[fd].out > 0 /\ (fd \notin R => CanWrite(w, fd))
  <2>1. fd \in Slots /\ v.clients[fd] # Nobody /\ w.clients[fd] # Nobody
    BY <1>1, <1>2
  <2>2. v.clients[fd].out \in Nat /\ w.clients[fd].out \in Nat
    BY <2>1, LoopAssumption DEF WorldOK, Worlds, Client
  <2>3. w.clients[fd].out >= v.clients[fd].out /\ (CanWrite(v, fd) => CanWrite(w, fd))
    BY <2>1 DEF Keeps
  <2>4. v.clients[fd].out > 0 /\ (fd \notin R => CanWrite(v, fd))
    BY <1>2 DEF AheadOK
  <2> QED
    BY <2>2, <2>3, <2>4
<1> QED
  BY <1>1, <1>2 DEF AheadOK

(* A connection of ours whose other side reads too slowly.                 *)
Slow(fd) == sock[fd].kind = "connected" /\ ~sock[fd].room

(* If this step crashes the process, there is a reason.                    *)
CrashHasReason ==
  fate' # "fine" => \/ Provoked(World, fate')
                    \/ fate' \in {"read failed", "partial write"} /\ Failed(C.fd)
                    \/ fate' = "partial write" /\ Slow(C.fd)

(* A step that changes the world as a handler may, and nothing else.       *)
LEMMA HandlerStep ==
  ASSUME LoopInv, fate = "fine", NEW w, Outcome(World, w), Become(w),
         UNCHANGED <<rset, wset, pc, i>>
  PROVE  LoopInv' /\ CrashHasReason
<1>1. WorldOK(w) /\ World' = w /\ fate' = w.fate
  BY BecomeIs DEF Outcome, WorldOK, Become
<1>2. ASSUME fate' = "fine"
      PROVE  PassInv'
  <2>1. Keeps(World, w) /\ PassInv /\ WorldOK(World)
    BY <1>1, <1>2 DEF Outcome, LoopInv
  <2>2. AheadOK(w, Ahead, rset, wset)
    BY <1>1, <2>1, AheadKept DEF PassInv, LoopInv
  <2>3. Ahead' = Ahead
    BY DEF Ahead
  <2>4. pc = "write" => w.clients[i] # Nobody /\ (i \in wset => CanWrite(w, i))
    <3>1. pc = "write" => /\ i \in Slots /\ World.clients[i] # Nobody
                          /\ i \in wset => CanWrite(World, i)
      BY <2>1, WorldIs DEF PassInv
    <3> QED
      BY <2>1, <3>1 DEF Keeps
  <2>5. pc = "write" => clients'[i] # Nobody
    BY <2>4 DEF Become
  <2> QED
    BY <1>1, <2>1, <2>2, <2>3, <2>4, <2>5 DEF PassInv
<1>3. CrashHasReason
  BY <1>1, WorldIs DEF Outcome, CrashHasReason
<1> QED
  BY <1>1, <1>2, <1>3 DEF LoopInv

LEMMA InitLoopInv == Init => LoopInv
<1> SUFFICES ASSUME Init
             PROVE  LoopInv
  OBVIOUS
<1>0. Blank = Crashed("fine") /\ WorldOK(Blank) /\ Blank.fate = "fine"
  <2>1. Crashed("fine") = Blank
    BY DEF Crashed, Blank
  <2> QED
    BY <2>1, CrashedOK DEF Fates
<1>1. SlotFor(Blank) = 0
  <2>1. FreeSlots(Blank) = Slots /\ 0 \in Slots
    BY LoopAssumption DEF FreeSlots, Blank, Slots
  <2>2. Lowest(Slots) \in Slots /\ Lowest(Slots) <= 0
    <3>1. Slots \in SUBSET Nat /\ Slots # {}
      BY <2>1 DEF Slots
    <3> QED
      BY <2>1, <3>1, LowestIs
  <2> QED
    BY <2>1, <2>2 DEF SlotFor, Slots
<1>2. PICK w \in {AddClient(Blank, "listening")} \cup Greet(AddClient(Blank, "connecting"), 0) :
        clients = w.clients /\ timers = w.timers /\ sock = w.sock /\ fate = w.fate
  BY DEF Init
<1>3. WorldOK(w)
  <2>1. CASE w = AddClient(Blank, "listening")
    BY <1>0, <2>1, AddClientOK DEF Outcome
  <2>2. CASE w \in Greet(AddClient(Blank, "connecting"), 0)
    BY <1>0, <1>1, <2>2, GreetOK DEF Outcome
  <2> QED
    BY <2>1, <2>2
<1>4. World = w
  BY <1>2, <1>3 DEF World, WorldOK, Worlds
<1>5. PassInv
  BY DEF Init, PassInv, AheadOK
<1>6. 0 \in Slots
  BY LoopAssumption DEF Slots
<1> QED
  BY <1>3, <1>4, <1>5, <1>6 DEF Init, LoopInv

LEMMA BetweenPassesStep ==
  ASSUME LoopInv, fate = "fine", BetweenPasses
  PROVE  LoopInv' /\ CrashHasReason
<1>1. PICK w \in Connect(World) \cup SetTimer(World) : Become(w)
  BY DEF BetweenPasses
<1>2. Outcome(World, w)
  BY <1>1, ConnectOK, SetTimerOK, WorldIs DEF LoopInv
<1> QED
  BY <1>1, <1>2, HandlerStep DEF BetweenPasses

LEMMA SelectStep ==
  ASSUME LoopInv, fate = "fine", Select
  PROVE  LoopInv'
<1>1. PassInv /\ WorldOK(World) /\ i = 0
  BY DEF LoopInv, PassInv, Select
<1>2. World' = World
  BY DEF Select, World
<1>3. /\ \A s \in Used : s \in Slots /\ clients[s] # Nobody /\ clients[s].fd = s /\ s \in Fds
      /\ AllFds = Used /\ OutFds = {s \in Used : clients[s].out > 0}
  <2>1. \A s \in Used : s \in Slots /\ clients[s] # Nobody /\ clients[s].fd = s
    BY <1>1, WorldIs DEF Used, WorldOK, Aligned
  <2>2. \A s \in Used : clients[s] \in Client
    BY <1>1, WorldIs DEF Used, WorldOK, Worlds
  <2>3. \A s \in Used : s \in Fds
    BY <2>1, <2>2 DEF Client
  <2> QED
    BY <2>1, <2>3 DEF AllFds, OutFds
<1>4. rset' = Used /\ wset' = {s \in Used : clients[s].out > 0}
  BY <1>3 DEF Select
<1>5. AheadOK(World, 0, rset', wset')
  BY <1>3, <1>4, WorldIs DEF AheadOK
<1>6. pc' \in {"select", "timers", "stopped"} /\ i' = 0 /\ Ahead' = 0
  BY <1>1 DEF Select, Ahead
<1>7. PassInv'
  BY <1>2, <1>5, <1>6, LoopAssumption DEF PassInv, TimerSlots
<1>8. rset' \subseteq Fds /\ wset' \subseteq Fds
  BY <1>3, <1>4
<1>9. i' \in Slots \cup TimerSlots
  BY <1>6, LoopAssumption DEF Slots
<1> QED
  BY <1>1, <1>2, <1>6, <1>7, <1>8, <1>9 DEF LoopInv

LEMMA SelectReturnsStep ==
  ASSUME LoopInv, fate = "fine", SelectReturns
  PROVE  LoopInv'
<1>1. PassInv /\ WorldOK(World) /\ i = 0 /\ Ahead = 0
  BY DEF LoopInv, PassInv, SelectReturns, Ahead
<1>2. World' = World
  BY DEF SelectReturns, World
<1>3. AheadOK(World, 0, rset', wset')
  <2>1. /\ rset' \subseteq rset /\ wset' \subseteq wset
        /\ \A fd \in wset' : Open(fd) \/ Failed(fd)
    BY DEF SelectReturns, Writable
  <2>2. \A fd \in wset' : CanWrite(World, fd)
    BY <2>1, WorldIs DEF CanWrite, Open, Failed
  <2>3. AheadOK(World, 0, rset, wset)
    BY <1>1 DEF PassInv
  <2> QED
    BY <2>1, <2>2, <2>3 DEF AheadOK
<1>4. pc' = "timers" /\ i' = 0 /\ Ahead' = 0 /\ 0 \in TimerSlots
  BY <1>1, LoopAssumption DEF SelectReturns, Ahead, TimerSlots
<1>5. PassInv'
  BY <1>2, <1>3, <1>4 DEF PassInv
<1>6. rset' \subseteq Fds /\ wset' \subseteq Fds
  BY DEF LoopInv, SelectReturns
<1> QED
  BY <1>1, <1>2, <1>4, <1>5, <1>6 DEF LoopInv

LEMMA RunTimerOK ==
  ASSUME LoopInv, fate = "fine", NEW k \in TimerSlots, NEW w \in RunTimer(k)
  PROVE  \/ WorldOK(w) /\ Keeps(World, w) /\ w.fate = "fine"
         \/ WorldOK(w) /\ w.fate = "no connection"
         \/ WorldOK(w) /\ w.fate = "no room" /\ (FreeFds(World) = {} \/ FreeSlots(World) = {})
<1>0. WorldOK(World) /\ World.fate = "fine" /\ World.timers = timers
  BY WorldIs DEF LoopInv
<1>1. CASE w = World
  BY <1>0, <1>1, SelfOutcome DEF Outcome, Provoked
<1>2. CASE w # World
  <2> DEFINE off == [World EXCEPT !.timers[k] = NoTimer]
  <2>1. w = off \/ w \in SetTimer(off) \/ w \in Connect(off)
    BY <1>2 DEF RunTimer
  <2>2. /\ WorldOK(off) /\ Keeps(World, off) /\ off.fate = "fine"
        /\ off.clients = World.clients /\ off.sock = World.sock
    BY <1>0, TimerChanges
  <2>3. off.timers[k] = NoTimer
    BY <1>0 DEF WorldOK, Worlds
  <2> HIDE DEF off
  <2>4. FreeTimers(off) # {} /\ FreeFds(off) = FreeFds(World) /\ FreeSlots(off) = FreeSlots(World)
    BY <2>2, <2>3 DEF FreeTimers, FreeFds, FreeSlots
  <2>5. Outcome(off, w)
    BY <2>1, <2>2, SelfOutcome, SetTimerOK, ConnectOK
  <2>6. CASE WorldOK(w) /\ Keeps(off, w) /\ w.fate = off.fate
    BY <1>0, <2>2, <2>6, KeepsTransitive
  <2>7. CASE WorldOK(w) /\ w.fate # "fine" /\ Provoked(off, w.fate)
    BY <2>4, <2>7 DEF Provoked
  <2> QED
    BY <2>5, <2>6, <2>7 DEF Outcome
<1> QED
  BY <1>1, <1>2

LEMMA DispatchTimerStep ==
  ASSUME LoopInv, fate = "fine", DispatchTimer
  PROVE  LoopInv' /\ CrashHasReason
<1>1. PassInv /\ WorldOK(World) /\ i \in TimerSlots /\ Ahead = 0 /\ pc = "timers"
  BY DEF LoopInv, PassInv, DispatchTimer, Ahead
<1>2. PICK w \in RunTimer(i) : Become(w)
  BY DEF DispatchTimer
<1>3. /\ WorldOK(w) /\ (w.fate = "fine" => Keeps(World, w))
      /\ World' = w /\ fate' = w.fate /\ CrashHasReason
  <2>1. /\ WorldOK(w) /\ (w.fate = "fine" => Keeps(World, w))
        /\ w.fate # "fine" => Provoked(World, w.fate)
    BY <1>1, <1>2, RunTimerOK DEF Provoked
  <2> QED
    BY <1>2, <2>1, BecomeIs DEF WorldOK, Become, CrashHasReason
<1>4. /\ i' \in TimerSlots
      /\ pc' \in {"timers", "read"} /\ (pc' = "read" => i' = 0) /\ Ahead' = 0
      /\ UNCHANGED <<rset, wset>>
  BY <1>1, LoopAssumption DEF DispatchTimer, TimerSlots, Ahead
<1>5. ASSUME fate' = "fine"
      PROVE  PassInv'
  <2>1. AheadOK(w, 0, rset, wset)
    BY <1>1, <1>3, <1>5, AheadKept DEF PassInv, LoopInv
  <2>2. 0 \in Slots
    BY LoopAssumption DEF Slots
  <2> QED
    BY <1>3, <1>4, <2>1, <2>2 DEF PassInv
<1> QED
  BY <1>3, <1>4, <1>5 DEF LoopInv

(* The visit of slot i is over, and nothing is known any more of its       *)
(* descriptor.                                                             *)
LEMMA NextSlotStep ==
  ASSUME NextSlot, i \in Slots, rset \subseteq Fds, wset \subseteq Fds,
         WorldOK(World)', fate' = "fine" => AheadOK(World', i + 1, rset, wset)
  PROVE  LoopInv'
<1>1. CASE i + 1 < Nslots
  <2>1. i' = i + 1 /\ pc' = "read" /\ UNCHANGED <<rset, wset>>
    BY <1>1 DEF NextSlot
  <2>2. i' \in Slots
    BY <1>1, <2>1, LoopAssumption DEF Slots
  <2>3. Ahead' = i + 1
    BY <2>1 DEF Ahead
  <2> QED
    BY <2>1, <2>2, <2>3 DEF LoopInv, PassInv
<1>2. CASE ~ (i + 1 < Nslots)
  <2>1. i' = 0 /\ pc' = "idle" /\ rset' = {} /\ wset' = {}
    BY <1>2 DEF NextSlot
  <2>2. 0 \in Slots
    BY LoopAssumption DEF Slots
  <2> QED
    BY <2>1, <2>2 DEF LoopInv, PassInv, AheadOK
<1> QED
  BY <1>1, <1>2

(* What is known while slot i is being visited.                            *)
LEMMA Visiting ==
  ASSUME LoopInv, fate = "fine", pc \in {"read", "write"}
  PROVE  /\ i \in Slots /\ rset \subseteq Fds /\ wset \subseteq Fds /\ WorldOK(World)
         /\ AheadOK(World, i, rset, wset) /\ AheadOK(World, i + 1, rset, wset)
         /\ Here => /\ C \in Client /\ C.fd = i /\ i \in Fds /\ World.clients[i] = C
                    /\ sock[i].kind # "closed"
                    /\ C.listener <=> sock[i].kind = "listening"
                    /\ C.listener => C.out = 0
<1>1. i \in Slots /\ rset \subseteq Fds /\ wset \subseteq Fds /\ WorldOK(World) /\ PassInv
  BY DEF LoopInv, PassInv
<1>2. AheadOK(World, i, rset, wset)
  BY <1>1 DEF PassInv, Ahead
<1>3. AheadOK(World, i + 1, rset, wset)
  <2>1. \A fd \in rset \cup wset : fd >= i + 1 => fd >= i
    BY <1>1 DEF Slots, Fds
  <2> QED
    BY <1>2, <2>1 DEF AheadOK
<1>4. ASSUME Here
      PROVE  /\ C \in Client /\ C.fd = i /\ i \in Fds /\ World.clients[i] = C
             /\ sock[i].kind # "closed"
             /\ C.listener <=> sock[i].kind = "listening"
             /\ C.listener => C.out = 0
  <2>1. World.clients[i] = C /\ C # Nobody
    BY <1>4, WorldIs DEF Here, C
  <2>2. C \in Client
    BY <1>1, <2>1 DEF WorldOK, Worlds
  <2> QED
    BY <1>1, <2>1, <2>2, WorldIs DEF WorldOK, Aligned, Client
<1> QED
  BY <1>1, <1>2, <1>3, <1>4

LEMMA SkipStep ==
  ASSUME LoopInv, fate = "fine", Skip \/ ReadAgain
  PROVE  LoopInv'
<1>1. World' = World /\ pc = "read" /\ NextSlot
  BY DEF Skip, ReadAgain, World, Ready
<1> QED
  BY <1>1, Visiting, NextSlotStep

(* The visit goes on to the write.                                         *)
LEMMA ToWrite ==
  ASSUME LoopInv, fate = "fine", pc = "read", Here, pc' = "write", UNCHANGED <<rset, wset, i>>,
         NEW w, WorldOK(w), World' = w, fate' = w.fate,
         w.fate = "fine" => Keeps(World, w) /\ (i \in wset => CanWrite(w, i))
  PROVE  LoopInv'
<1>1. /\ i \in Slots /\ rset \subseteq Fds /\ wset \subseteq Fds /\ WorldOK(World)
      /\ AheadOK(World, i, rset, wset) /\ World.clients[i] # Nobody
  BY Visiting, WorldIs DEF Here, C
<1>2. ASSUME fate' = "fine"
      PROVE  PassInv'
  <2>1. AheadOK(w, i, rset, wset)
    BY <1>1, <1>2, AheadKept
  <2>2. w.clients[i] # Nobody /\ w.clients = clients'
    <3>1. w.clients[i] # Nobody
      BY <1>1, <1>2 DEF Keeps
    <3>2. World'.clients = clients'
      BY DEF World
    <3> QED
      BY <3>1, <3>2
  <2>3. Ahead' = i
    BY DEF Ahead
  <2> QED
    BY <1>1, <1>2, <2>1, <2>2, <2>3 DEF PassInv
<1> QED
  BY <1>1, <1>2 DEF LoopInv

LEMMA NotReadableStep ==
  ASSUME LoopInv, fate = "fine", NotReadable
  PROVE  LoopInv'
<1>1. /\ WorldOK(World) /\ AheadOK(World, i, rset, wset) /\ C.fd = i
      /\ i \in Slots /\ World.fate = "fine"
  BY Visiting, WorldIs DEF NotReadable
<1>2. Keeps(World, World)
  BY <1>1, SelfOutcome DEF Outcome, Provoked
<1>3. i \in wset => CanWrite(World, i)
  BY <1>1 DEF AheadOK, NotReadable, Slots
<1>4. World' = World /\ fate' = World.fate
  BY <1>1 DEF NotReadable, World
<1> QED
  BY <1>1, <1>2, <1>3, <1>4, ToWrite DEF NotReadable

LEMMA AcceptStep ==
  ASSUME LoopInv, fate = "fine", Accept
  PROVE  LoopInv' /\ CrashHasReason
<1> DEFINE taken == [World EXCEPT !.sock[C.fd].in = @ - 1]
<1>1. PICK w \in Greet(AddClient(taken, "accepted"), SlotFor(taken)) : Become(w)
  BY DEF Accept
<1>2. /\ WorldOK(World) /\ AheadOK(World, i, rset, wset) /\ C.fd = i /\ i \in Slots /\ i \in Fds
      /\ World.clients[i] = C /\ C.out = 0 /\ World.fate = "fine" /\ Here /\ pc = "read"
      /\ World.sock[i].in > 0
  BY Visiting, WorldIs DEF Accept, Ready
<1>3. /\ WorldOK(taken) /\ Keeps(World, taken)
      /\ taken.fate = "fine" /\ taken.timers = World.timers
      /\ FreeFds(taken) = FreeFds(World) /\ FreeSlots(taken) = FreeSlots(World)
  BY <1>2, TakenOK
<1> HIDE DEF taken
<1>4. Outcome(taken, w)
  BY <1>1, <1>3, GreetOK
<1>5. WorldOK(w) /\ (w.fate = "fine" => Keeps(World, w))
  BY <1>2, <1>3, <1>4, KeepsTransitive DEF Outcome
<1>6. w.fate # "fine" => Provoked(World, w.fate)
  <2>1. FreeTimers(taken) = FreeTimers(World)
    BY <1>3 DEF FreeTimers
  <2> QED
    BY <1>3, <1>4, <2>1 DEF Outcome, Provoked
<1>7. i \notin wset
  BY <1>2 DEF AheadOK, Slots
<1>8. World' = w /\ fate' = w.fate
  BY <1>1, <1>5, BecomeIs DEF WorldOK, Become
<1>9. CrashHasReason
  BY <1>6, <1>8 DEF CrashHasReason
<1> QED
  BY <1>2, <1>5, <1>7, <1>8, <1>9, ToWrite DEF Accept

LEMMA ReadFailsStep ==
  ASSUME LoopInv, fate = "fine", ReadFails
  PROVE  LoopInv' /\ CrashHasReason
<1> DEFINE w == Crashed("read failed")
<1>1. WorldOK(w) /\ w.fate = "read failed"
  BY CrashedOK DEF Fates
<1>2. Become(w) /\ UNCHANGED <<rset, wset, pc, i>>
  BY DEF ReadFails
<1>3. fate' \in {"read failed", "partial write"} /\ Failed(C.fd)
  BY <1>1, <1>2 DEF ReadFails, Become
<1> HIDE DEF w
<1>4. World' = w /\ fate' # "fine"
  BY <1>1, <1>2, BecomeIs DEF WorldOK, Become
<1> QED
  BY <1>1, <1>2, <1>3, <1>4 DEF LoopInv, CrashHasReason

(* A client that is read from is not a listener, and not one that is still *)
(* being connected.                                                        *)
LEMMA ReadFrom ==
  ASSUME LoopInv, fate = "fine", ReadEnd \/ ReadData
  PROVE  CanWrite(World, i) /\ ~ C.listener
<1>1. /\ WorldOK(World) /\ C.fd = i /\ i \in Fds /\ ~ C.listener
      /\ sock[i].kind # "closed" /\ sock[i].kind # "listening"
      /\ sock[i].in > 0 \/ sock[i].eof
  BY Visiting DEF ReadEnd, ReadData, Ready
<1>2. sock[i].kind \in Kinds /\ sock[i].in \in Nat
  BY <1>1, WorldIs, LoopAssumption DEF WorldOK, Worlds
<1>3. sock[i].kind # "connecting"
  BY <1>1, <1>2, WorldIs DEF WorldOK, Aligned
<1> QED
  BY <1>1, <1>2, <1>3, WorldIs DEF CanWrite, Kinds

LEMMA ReadEndStep ==
  ASSUME LoopInv, fate = "fine", ReadEnd
  PROVE  LoopInv' /\ CrashHasReason
<1> DEFINE w == Close(World, i)
<1>1. /\ WorldOK(World) /\ i \in Slots /\ World.clients[i] # Nobody /\ World.fate = "fine"
      /\ Here /\ pc = "read"
  BY Visiting, WorldIs DEF ReadEnd, Ready, Here, C
<1>2. WorldOK(w) /\ Keeps(World, w) /\ w.fate = "fine"
  BY <1>1, CloseOK
<1>3. Become(w)
  BY DEF ReadEnd
<1> HIDE DEF w
<1>4. CanWrite(w, i)
  BY <1>1, <1>2, ReadFrom DEF Keeps
<1>5. World' = w /\ fate' = w.fate
  BY <1>2, <1>3, BecomeIs DEF WorldOK, Become
<1>6. CrashHasReason
  BY <1>2, <1>5 DEF CrashHasReason
<1> QED
  BY <1>1, <1>2, <1>4, <1>5, <1>6, ToWrite DEF ReadEnd

LEMMA ReadDataStep ==
  ASSUME LoopInv, fate = "fine", ReadData
  PROVE  LoopInv' /\ CrashHasReason
<1> DEFINE taken == [World EXCEPT !.sock[C.fd].in = @ - 1]
<1>1. PICK w \in Handle(taken, i) : Become(w)
  BY DEF ReadData
<1>2. /\ WorldOK(World) /\ C.fd = i /\ i \in Slots /\ i \in Fds
      /\ World.clients[i] = C /\ World.clients[i] # Nobody /\ World.fate = "fine"
      /\ Here /\ pc = "read" /\ World.sock[i].in > 0
  BY Visiting, WorldIs DEF ReadData, Ready, Here, C
<1>3. /\ WorldOK(taken) /\ Keeps(World, taken)
      /\ taken.fate = "fine" /\ taken.clients = World.clients /\ taken.timers = World.timers
      /\ FreeFds(taken) = FreeFds(World) /\ FreeSlots(taken) = FreeSlots(World)
  BY <1>2, TakenOK
<1> HIDE DEF taken
<1>4. Outcome(taken, w)
  BY <1>1, <1>2, <1>3, ReadFrom, HandleOK
<1>5. WorldOK(w) /\ (w.fate = "fine" => Keeps(World, w))
  BY <1>2, <1>3, <1>4, KeepsTransitive DEF Outcome
<1>6. w.fate # "fine" => Provoked(World, w.fate)
  <2>1. FreeTimers(taken) = FreeTimers(World)
    BY <1>3 DEF FreeTimers
  <2> QED
    BY <1>3, <1>4, <2>1 DEF Outcome, Provoked
<1>7. w.fate = "fine" => CanWrite(w, i)
  BY <1>2, <1>5, ReadFrom DEF Keeps
<1>8. World' = w /\ fate' = w.fate
  BY <1>1, <1>5, BecomeIs DEF WorldOK, Become
<1>9. CrashHasReason
  BY <1>6, <1>8 DEF CrashHasReason
<1> QED
  BY <1>2, <1>5, <1>7, <1>8, <1>9, ToWrite DEF ReadData

(* Closing a client and its descriptor.                                    *)
LEMMA RemoveOK ==
  ASSUME NEW v, WorldOK(v), NEW s \in Slots, v.clients[s] # Nobody
  PROVE  /\ WorldOK(Remove(v, s)) /\ Remove(v, s).fate = v.fate
         /\ \A x \in Slots : x # s => /\ Remove(v, s).clients[x] = v.clients[x]
                                      /\ Remove(v, s).sock[x] = v.sock[x]
<1> DEFINE w == Remove(v, s)
<1>1. v \in Worlds /\ v.clients[s].fd = s /\ v.clients[s] \in Client /\ s \in Fds
  BY DEF WorldOK, Worlds, Aligned, Client
<1>2. Sock("closed") \in [kind : Kinds, in : 0 .. MaxIn, eof : BOOLEAN, room : BOOLEAN]
  BY LoopAssumption DEF Sock, Kinds
<1>3. w = [v EXCEPT !.sock[s] = Sock("closed"), !.clients[s] = Nobody]
  BY <1>1 DEF Remove
<1> HIDE DEF w
<1>4. /\ w.sock = [v.sock EXCEPT ![s] = Sock("closed")]
      /\ w.clients = [v.clients EXCEPT ![s] = Nobody]
      /\ w.timers = v.timers /\ w.fate = v.fate /\ w \in Worlds
  BY <1>1, <1>2, <1>3 DEF Worlds
<1>5. w.clients[s] = Nobody /\ \A x \in Slots : x # s => w.clients[x] = v.clients[x]
  BY <1>1, <1>4 DEF Worlds
<1>6. w.sock[s] = Sock("closed") /\ \A x : x # s => w.sock[x] = v.sock[x]
  BY <1>1, <1>4 DEF Worlds
<1>7. Aligned(w)
  BY <1>5, <1>6 DEF WorldOK, Aligned, Sock
<1> QED
  BY <1>4, <1>5, <1>6, <1>7 DEF WorldOK, w

(* Sending one write's worth, and what the handler does when it was the    *)
(* last.                                                                   *)
LEMMA WriteOutOK ==
  ASSUME NEW s \in Slots, WorldOK(World), World.fate = "fine", World.clients[s] # Nobody,
         World.clients[s].out > 0, World.sock[World.clients[s].fd].kind \in {"connected", "accepted"},
         NEW w \in WriteOut(s)
  PROVE  /\ WorldOK(w)
         /\ \/ /\ w.fate = "fine"
               /\ \A x \in Slots : x # s /\ World.clients[x] # Nobody =>
                    /\ w.clients[x] # Nobody
                    /\ w.clients[x].out >= World.clients[x].out
                    /\ CanWrite(World, x) => CanWrite(w, x)
               /\ w.clients[s] # Nobody
            \/ w.fate # "fine" /\ Provoked(World, w.fate)
<1> DEFINE fd == World.clients[s].fd
<1>1. /\ World.clients[s] \in Client /\ ~ World.clients[s].listener /\ World \in Worlds
      /\ fd \in Fds /\ World.sock[fd] \in [kind : Kinds, in : 0 .. MaxIn, eof : BOOLEAN, room : BOOLEAN]
  BY LoopAssumption DEF WorldOK, Worlds, Aligned, Client
<1>2. PICK room \in BOOLEAN : w \in {Sent(s, room)} \cup Handle(Sent(s, room), s)
  BY DEF WriteOut
<1> DEFINE c == [World.clients[s] EXCEPT !.out = @ - 1]
           d == [World.sock[fd] EXCEPT !.room = room]
           after == [World EXCEPT !.sock[fd] = d]
           sent == [after EXCEPT !.clients[s] = c]
<1>3. c \in Client /\ c.fd = World.clients[s].fd /\ c.listener = World.clients[s].listener
  BY <1>1, LoopAssumption DEF Client
<1>4. d \in [kind : Kinds, in : 0 .. MaxIn, eof : BOOLEAN, room : BOOLEAN] /\ d.kind = World.sock[fd].kind
  BY <1>1
<1>5. Sent(s, room) = sent
  BY <1>1, WorldIs DEF Sent, Client, Worlds
<1> HIDE DEF c, d
<1>6. /\ WorldOK(after) /\ Keeps(World, after)
      /\ after.fate = World.fate /\ after.clients = World.clients /\ after.timers = World.timers
      /\ FreeFds(after) = FreeFds(World) /\ FreeSlots(after) = FreeSlots(World)
  BY <1>1, <1>4, SockChanges
<1> HIDE DEF after
<1>7. WorldOK(sent) /\ sent.fate = "fine"
  BY <1>1, <1>3, <1>6, ClientChanges
<1>8. after \in Worlds
  BY <1>6 DEF WorldOK
<1>9. /\ sent.clients[s] = c /\ c # Nobody
      /\ \A x \in Slots : x # s => sent.clients[x] = World.clients[x]
      /\ sent.sock = after.sock /\ sent.timers = World.timers
  BY <1>3, <1>6, <1>8, NotNobody DEF Worlds
<1> HIDE DEF sent
<1>10. Outcome(sent, w)
  BY <1>2, <1>3, <1>5, <1>1, <1>7, <1>9, SelfOutcome, HandleOK
<1>11. CASE WorldOK(w) /\ Keeps(sent, w) /\ w.fate = sent.fate
  <2>1. \A x \in Slots : x # s /\ World.clients[x] # Nobody =>
          /\ w.clients[x] # Nobody
          /\ w.clients[x].out >= World.clients[x].out
          /\ CanWrite(World, x) => CanWrite(w, x)
    <3> SUFFICES ASSUME NEW x \in Slots, x # s, World.clients[x] # Nobody
                 PROVE  /\ w.clients[x] # Nobody
                        /\ w.clients[x].out >= World.clients[x].out
                        /\ CanWrite(World, x) => CanWrite(w, x)
      OBVIOUS
    <3>1. sent.clients[x] = World.clients[x] /\ (CanWrite(World, x) => CanWrite(after, x))
      BY <1>6, <1>9 DEF Keeps
    <3>2. CanWrite(after, x) <=> CanWrite(sent, x)
      BY <1>9 DEF CanWrite
    <3> QED
      BY <1>11, <3>1, <3>2 DEF Keeps
  <2> QED
    BY <1>7, <1>9, <1>11, <2>1 DEF Keeps
<1>12. CASE WorldOK(w) /\ w.fate # "fine" /\ Provoked(sent, w.fate)
  <2>1. FreeSlots(sent) = FreeSlots(World)
    BY <1>9 DEF FreeSlots
  <2>2. FreeFds(sent) = FreeFds(World) /\ FreeTimers(sent) = FreeTimers(World)
    BY <1>6, <1>9 DEF FreeFds, FreeTimers
  <2> QED
    BY <1>12, <2>1, <2>2 DEF Provoked
<1> QED
  BY <1>10, <1>11, <1>12 DEF Outcome

(* The first part of the visit's last stage: what was written, or why it   *)
(* could not be.                                                           *)
Attempts == IF C.fd \notin wset THEN {World}
            ELSE IF C.out = 0 THEN {Crashed("empty outbox")}
            ELSE IF ~Open(C.fd) THEN {Crashed("partial write")}
            ELSE IF ~sock[C.fd].room THEN ShortWrite
            ELSE WriteOut(i)

Unwritable == Failed(C.fd) \/ Slow(C.fd)

LEMMA WriteStage ==
  ASSUME LoopInv, fate = "fine", pc = "write", NEW w \in Attempts
  PROVE  /\ WorldOK(w)
         /\ \/ w.fate = "fine" /\ AheadOK(w, i + 1, rset, wset) /\ w.clients[i] # Nobody
            \/ w.fate # "fine" /\ Provoked(World, w.fate)
            \/ w.fate = "partial write" /\ Unwritable
<1>1. /\ i \in Slots /\ WorldOK(World) /\ World.fate = "fine" /\ Here
      /\ AheadOK(World, i, rset, wset) /\ AheadOK(World, i + 1, rset, wset)
      /\ i \in wset => CanWrite(World, i)
  BY Visiting, WorldIs DEF LoopInv, PassInv, Here, C
<1>2. C \in Client /\ C.fd = i /\ World.clients[i] = C /\ C # Nobody
  BY <1>1, Visiting DEF Here
<1>3. CASE C.fd \notin wset
  BY <1>1, <1>2, <1>3 DEF Attempts
<1>4. CASE C.fd \in wset
  <2>1. World.clients[i].out > 0 /\ C.out # 0
    <3>1. i \in wset /\ i >= i
      BY <1>1, <1>2, <1>4 DEF Slots
    <3>2. World.clients[i].out > 0
      BY <1>1, <3>1 DEF AheadOK
    <3>3. C.out \in Nat
      BY <1>2, LoopAssumption DEF Client
    <3> QED
      BY <1>2, <3>2, <3>3
  <2>2. CASE ~ Open(C.fd)
    <3>1. w = Crashed("partial write")
      BY <1>4, <2>1, <2>2 DEF Attempts
    <3>2. WorldOK(w) /\ w.fate = "partial write"
      BY <3>1, CrashedOK DEF Fates
    <3>3. Failed(C.fd)
      BY <1>1, <1>2, <1>4, <2>2, WorldIs DEF CanWrite, Open, Failed
    <3> QED
      BY <3>2, <3>3 DEF Unwritable
  <2>3. CASE Open(C.fd) /\ ~ sock[C.fd].room
    <3>1. w = Crashed("partial write") /\ Slow(C.fd)
      BY <1>4, <2>1, <2>3 DEF Attempts, ShortWrite, Slow
    <3>2. WorldOK(w) /\ w.fate = "partial write"
      BY <3>1, CrashedOK DEF Fates
    <3> QED
      BY <3>1, <3>2 DEF Unwritable
  <2>4. CASE Open(C.fd) /\ sock[C.fd].room
    <3>1. w \in WriteOut(i)
      BY <1>4, <2>1, <2>4 DEF Attempts
    <3>2. /\ WorldOK(w)
          /\ \/ /\ w.fate = "fine"
                /\ \A x \in Slots : x # i /\ World.clients[x] # Nobody =>
                     /\ w.clients[x] # Nobody
                     /\ w.clients[x].out >= World.clients[x].out
                     /\ CanWrite(World, x) => CanWrite(w, x)
                /\ w.clients[i] # Nobody
             \/ w.fate # "fine" /\ Provoked(World, w.fate)
      BY <1>1, <1>2, <2>1, <2>4, <3>1, WorldIs, WriteOutOK DEF Open
    <3>3. ASSUME w.fate = "fine"
          PROVE  AheadOK(w, i + 1, rset, wset)
      <4>1. ASSUME NEW fd \in rset \cup wset, fd >= i + 1
            PROVE  /\ fd \in Slots /\ fd # i
                   /\ World.clients[fd] # Nobody /\ w.clients[fd] # Nobody
        <5>1. fd \in Slots /\ World.clients[fd] # Nobody
          BY <1>1, <4>1 DEF AheadOK
        <5>2. fd # i
          BY <1>1, <4>1, <5>1 DEF Slots
        <5> QED
          BY <3>2, <3>3, <5>1, <5>2
      <4>2. ASSUME NEW fd \in wset, fd >= i + 1
            PROVE  w.clients[fd].out > 0 /\ (fd \notin rset => CanWrite(w, fd))
        <5>1. World.clients[fd].out \in Nat /\ w.clients[fd].out \in Nat
          <6>1. /\ fd \in Slots
                /\ World.clients[fd] # Nobody /\ w.clients[fd] # Nobody
            BY <4>1, <4>2
          <6>2. World.clients[fd] \in Client /\ w.clients[fd] \in Client
            BY <1>1, <3>2, <6>1 DEF WorldOK, Worlds
          <6> QED
            BY <6>2, LoopAssumption DEF Client
        <5>2. w.clients[fd].out >= World.clients[fd].out /\ (CanWrite(World, fd) => CanWrite(w, fd))
          BY <3>2, <3>3, <4>1, <4>2
        <5>3. World.clients[fd].out > 0 /\ (fd \notin rset => CanWrite(World, fd))
          BY <1>1, <4>2 DEF AheadOK
        <5> QED
          BY <5>1, <5>2, <5>3
      <4> QED
        BY <4>1, <4>2 DEF AheadOK
    <3> QED
      BY <3>2, <3>3
  <2> QED
    BY <2>2, <2>3, <2>4
<1> QED
  BY <1>3, <1>4

LEMMA WriteAndCloseStep ==
  ASSUME LoopInv, fate = "fine", WriteAndClose
  PROVE  LoopInv' /\ CrashHasReason
<1>1. /\ i \in Slots /\ rset \subseteq Fds /\ wset \subseteq Fds /\ NextSlot /\ pc = "write"
  BY Visiting DEF WriteAndClose
<1>2. PICK w \in Attempts :
               Become(IF w.fate = "fine" /\ w.clients[i].close THEN Remove(w, i) ELSE w)
  BY DEF WriteAndClose, Attempts
<1>3. /\ WorldOK(w)
      /\ \/ w.fate = "fine" /\ AheadOK(w, i + 1, rset, wset) /\ w.clients[i] # Nobody
         \/ w.fate # "fine" /\ Provoked(World, w.fate)
         \/ w.fate = "partial write" /\ Unwritable
  BY <1>1, <1>2, WriteStage
<1>4. PICK f : /\ f = IF w.fate = "fine" /\ w.clients[i].close THEN Remove(w, i) ELSE w
               /\ Become(f)
  BY <1>2
<1>5. /\ WorldOK(f) /\ f.fate = w.fate
      /\ f.fate = "fine" => AheadOK(f, i + 1, rset, wset)
  <2>1. CASE w.fate = "fine" /\ w.clients[i].close
    <3>1. f = Remove(w, i) /\ w.clients[i] # Nobody /\ AheadOK(w, i + 1, rset, wset)
      BY <1>3, <1>4, <2>1
    <3>2. /\ WorldOK(f) /\ f.fate = w.fate
          /\ \A x \in Slots : x # i => f.clients[x] = w.clients[x] /\ f.sock[x] = w.sock[x]
      BY <1>1, <1>3, <3>1, RemoveOK
    <3>3. ASSUME NEW fd \in rset \cup wset, fd >= i + 1
          PROVE  fd \in Slots /\ fd # i
      <4>1. fd \in Slots
        BY <3>1, <3>3 DEF AheadOK
      <4> QED
        BY <1>1, <3>3, <4>1 DEF Slots
    <3>4. AheadOK(f, i + 1, rset, wset)
      BY <3>1, <3>2, <3>3 DEF AheadOK, CanWrite
    <3> QED
      BY <3>2, <3>4
  <2>2. CASE ~ (w.fate = "fine" /\ w.clients[i].close)
    BY <1>3, <1>4, <2>2
  <2> QED
    BY <2>1, <2>2
<1>6. World' = f /\ fate' = f.fate
  BY <1>4, <1>5, BecomeIs DEF WorldOK, Become
<1>7. LoopInv'
  BY <1>1, <1>5, <1>6, NextSlotStep
<1>8. CrashHasReason
  BY <1>3, <1>5, <1>6 DEF CrashHasReason, Unwritable
<1> QED
  BY <1>7, <1>8

LEMMA NetworkStep ==
  ASSUME LoopInv, fate = "fine", Network
  PROVE  LoopInv' /\ CrashHasReason
<1>1. PICK fd \in Fds : Incoming(fd) \/ OtherCloses(fd) \/ Settle(fd) \/ Drains(fd)
  BY DEF Network
<1>2. WorldOK(World) /\ World.fate = "fine"
  BY WorldIs DEF LoopInv
<1>3. PICK d \in [kind : Kinds, in : 0 .. MaxIn, eof : BOOLEAN, room : BOOLEAN] :
        /\ sock' = [sock EXCEPT ![fd] = d]
        /\ sock[fd].kind # "closed" /\ d.kind \notin {"closed", "connecting"}
        /\ d.kind = "listening" <=> sock[fd].kind = "listening"
        /\ sock[fd].kind \in {"connected", "accepted", "failed"} =>
             d.kind \in {"connected", "accepted", "failed"}
  <2>1. sock[fd] \in [kind : Kinds, in : 0 .. MaxIn, eof : BOOLEAN, room : BOOLEAN]
    BY <1>2, WorldIs DEF WorldOK, Worlds
  <2>2. CASE Incoming(fd)
    <3> DEFINE d == [sock[fd] EXCEPT !.in = @ + 1]
    <3>1. d \in [kind : Kinds, in : 0 .. MaxIn, eof : BOOLEAN, room : BOOLEAN] /\ d.kind = sock[fd].kind
      BY <2>1, <2>2, LoopAssumption DEF Incoming
    <3>2. sock' = [sock EXCEPT ![fd] = d]
      BY <2>2 DEF Incoming
    <3> HIDE DEF d
    <3> QED
      BY <2>2, <3>1, <3>2 DEF Incoming, Open
  <2>3. CASE OtherCloses(fd)
    <3>1. PICK b \in BOOLEAN : sock' = [sock EXCEPT ![fd].eof = b]
      BY <2>3 DEF OtherCloses
    <3> DEFINE d == [sock[fd] EXCEPT !.eof = b]
    <3>2. d \in [kind : Kinds, in : 0 .. MaxIn, eof : BOOLEAN, room : BOOLEAN] /\ d.kind = sock[fd].kind
      BY <2>1
    <3>3. sock' = [sock EXCEPT ![fd] = d]
      BY <3>1
    <3> HIDE DEF d
    <3> QED
      BY <2>3, <3>2, <3>3 DEF OtherCloses, Open
  <2>4. CASE Settle(fd)
    <3>1. PICK kind \in {"failed"} \cup IF Open(fd) THEN {} ELSE {"connected"} :
            sock' = [sock EXCEPT ![fd].kind = kind, ![fd].room = TRUE]
      BY <2>4 DEF Settle
    <3> DEFINE d == [sock[fd] EXCEPT !.kind = kind, !.room = TRUE]
    <3>2. kind \in {"failed", "connected"}
      BY <3>1
    <3>3. d \in [kind : Kinds, in : 0 .. MaxIn, eof : BOOLEAN, room : BOOLEAN] /\ d.kind \in {"failed", "connected"}
      BY <2>1, <3>2 DEF Kinds
    <3>4. sock' = [sock EXCEPT ![fd] = d]
      BY <1>2, <3>1, WorldIs DEF WorldOK, Worlds
    <3> HIDE DEF d
    <3> QED
      BY <2>4, <3>3, <3>4 DEF Settle, Open
  <2>5. CASE Drains(fd)
    <3> DEFINE d == [sock[fd] EXCEPT !.room = TRUE]
    <3>1. d \in [kind : Kinds, in : 0 .. MaxIn, eof : BOOLEAN, room : BOOLEAN] /\ d.kind = sock[fd].kind
      BY <2>1
    <3>2. sock' = [sock EXCEPT ![fd] = d]
      BY <2>5 DEF Drains
    <3> HIDE DEF d
    <3> QED
      BY <2>5, <3>1, <3>2 DEF Drains, Open
  <2> QED
    BY <1>1, <2>2, <2>3, <2>4, <2>5
<1>4. PICK w : w = [World EXCEPT !.sock[fd] = d]
  OBVIOUS
<1>5. WorldOK(w) /\ Keeps(World, w) /\ w.fate = "fine"
  BY <1>2, <1>3, <1>4, WorldIs, SockChanges
<1>6. Become(w)
  BY <1>3, <1>4 DEF Network, Become, World
<1> QED
  BY <1>2, <1>5, <1>6, HandlerStep DEF Network, Outcome

LEMMA SecondPassesStep ==
  ASSUME LoopInv, fate = "fine", SecondPasses
  PROVE  LoopInv' /\ CrashHasReason
<1>1. WorldOK(World) /\ World.fate = "fine" /\ World \in Worlds
  BY WorldIs DEF LoopInv, WorldOK
<1>2. timers' \in [TimerSlots -> -1 .. 1 \cup {NoTimer}]
  <2>1. timers \in [TimerSlots -> -1 .. 1 \cup {NoTimer}]
    BY <1>1, WorldIs DEF Worlds
  <2>2. \A k \in TimerSlots : ~ (timers[k] = NoTimer \/ timers[k] < 0) => timers[k] - 1 \in -1 .. 1
    BY <2>1
  <2> QED
    BY <2>1, <2>2 DEF SecondPasses
<1>3. PICK w : w = [World EXCEPT !.timers = timers']
  OBVIOUS
<1>4. /\ w \in Worlds /\ w.clients = World.clients /\ w.sock = World.sock
      /\ w.timers = timers' /\ w.fate = "fine"
  BY <1>1, <1>2, <1>3 DEF Worlds
<1>5. WorldOK(w)
  BY <1>1, <1>4 DEF WorldOK, Aligned
<1>6. Keeps(World, w)
  <2>1. Keeps(World, World)
    BY <1>1, SelfOutcome DEF Outcome, Provoked
  <2> QED
    BY <1>4, <2>1 DEF Keeps, CanWrite
<1>7. Become(w)
  BY <1>1, <1>4, WorldIs DEF SecondPasses, Become
<1> QED
  BY <1>1, <1>4, <1>5, <1>6, <1>7, HandlerStep DEF SecondPasses, Outcome

LEMMA StepKeeps == LoopInv /\ [Next]_vars => LoopInv' /\ (fate = "fine" => CrashHasReason)
<1> SUFFICES ASSUME LoopInv, [Next]_vars
             PROVE  LoopInv' /\ (fate = "fine" => CrashHasReason)
  OBVIOUS
<1>1. CASE fate = "fine" /\ Pass
  <2>1. CASE Select
    BY <1>1, <2>1, SelectStep DEF Select, CrashHasReason
  <2>2. CASE SelectReturns
    BY <1>1, <2>2, SelectReturnsStep DEF SelectReturns, CrashHasReason
  <2>3. CASE DispatchTimer
    BY <1>1, <2>3, DispatchTimerStep
  <2>4. CASE Skip \/ ReadAgain
    BY <1>1, <2>4, SkipStep DEF Skip, ReadAgain, CrashHasReason
  <2>5. CASE NotReadable
    BY <1>1, <2>5, NotReadableStep DEF NotReadable, CrashHasReason
  <2>6. CASE Accept
    BY <1>1, <2>6, AcceptStep
  <2>7. CASE ReadFails
    BY <1>1, <2>7, ReadFailsStep
  <2>8. CASE ReadEnd
    BY <1>1, <2>8, ReadEndStep
  <2>9. CASE ReadData
    BY <1>1, <2>9, ReadDataStep
  <2>10. CASE WriteAndClose
    BY <1>1, <2>10, WriteAndCloseStep
  <2> QED
    BY <1>1, <2>1, <2>2, <2>3, <2>4, <2>5, <2>6, <2>7, <2>8, <2>9, <2>10 DEF Pass
<1>2. CASE fate = "fine" /\ BetweenPasses
  BY <1>2, BetweenPassesStep
<1>3. CASE fate = "fine" /\ Network
  BY <1>3, NetworkStep
<1>4. CASE fate = "fine" /\ SecondPasses
  BY <1>4, SecondPassesStep
<1>5. CASE UNCHANGED vars
  <2>1. LoopInv'
    BY <1>5 DEF LoopInv, PassInv, World, Ahead, vars
  <2>2. fate' = fate
    BY <1>5 DEF vars
  <2>3. fate = "fine" => CrashHasReason
    BY <2>2 DEF CrashHasReason
  <2> QED
    BY <2>1, <2>3
<1> QED
  BY <1>1, <1>2, <1>3, <1>4, <1>5 DEF Next, Over

LEMMA LoopInvariant == Spec => []LoopInv
<1>1. LoopInv /\ [Next]_vars => LoopInv'
  BY StepKeeps
<1> QED
  BY <1>1, InitLoopInv, PTL DEF Spec

-----------------------------------------------------------------------------
(***************************************************************************)
(* Theorems.                                                               *)
(***************************************************************************)

(* Every variable of the loop has its type.                                *)
THEOREM LoopTypesHold == Spec => []TypeOK
<1>1. LoopInv => TypeOK
  <2> SUFFICES ASSUME LoopInv
               PROVE  TypeOK
    OBVIOUS
  <2>1. World \in Worlds
    BY DEF LoopInv, WorldOK
  <2>2. \A s \in Used : clients[s] \in [fd : Fds, listener : BOOLEAN, out : 0 .. MaxOut,
                                        close : BOOLEAN]
    BY <2>1, WorldIs DEF Used, Worlds, Client
  <2>3. /\ timers \in [TimerSlots -> -1 .. 1 \cup {NoTimer}]
        /\ sock \in [Fds -> [kind : Kinds, in : 0 .. MaxIn, eof : BOOLEAN, room : BOOLEAN]]
    BY <2>1, WorldIs DEF Worlds
  <2> QED
    BY <2>2, <2>3 DEF TypeOK, LoopInv
<1> QED
  BY <1>1, LoopInvariant, PTL

(* A client's descriptor is open and its own.                              *)
THEOREM DescriptorsStayApart == Spec => []DescriptorsApart
<1>1. LoopInv => DescriptorsApart
  <2> SUFFICES ASSUME LoopInv, NEW s \in Used, NEW t \in Used
               PROVE  /\ sock[clients[s].fd].kind # "closed"
                      /\ clients[s].fd = clients[t].fd => s = t
    BY DEF DescriptorsApart
  <2>1. /\ clients[s].fd = s /\ sock[s].kind # "closed"
        /\ clients[t].fd = t
    BY WorldIs DEF LoopInv, WorldOK, Aligned, Used
  <2> QED
    BY <2>1
<1> QED
  BY <1>1, LoopInvariant, PTL

(* A client that enters the table while it is being visited is not served  *)
(* in the same pass as if select had reported it.                          *)
THEOREM NewClientsWaitTheirTurn == Spec => NewClientsWait
<1>1. LoopInv /\ LoopInv' /\ [Next]_vars =>
        [\A s \in Slots :
           clients[s] = Nobody /\ clients'[s] # Nobody /\ pc # "idle" =>
             (s < i /\ pc # "timers") \/ clients'[s].fd \notin rset \cup wset]_vars
  <2> SUFFICES ASSUME LoopInv, LoopInv', Next, NEW s \in Slots,
                      clients[s] = Nobody, clients'[s] # Nobody, s \in rset \cup wset
               PROVE  s < i /\ pc # "timers" /\ clients'[s].fd = s
    <3>1. ASSUME LoopInv', NEW s \in Slots, clients'[s] # Nobody
          PROVE  clients'[s].fd = s
      <4>1. World'.clients = clients'
        BY DEF World
      <4> QED
        BY <3>1, <4>1 DEF LoopInv, WorldOK, Aligned
    <3> QED
      BY <3>1
  <2>1. fate = "fine"
    BY DEF Next, Over, vars
  <2>2. AheadOK(World, Ahead, rset, wset) /\ i \in Nat
    BY <2>1, LoopAssumption DEF LoopInv, PassInv, Slots, TimerSlots
  <2>3. ~ (s >= Ahead)
    BY <2>2, WorldIs DEF AheadOK
  <2>4. Ahead # 0
    BY <2>3 DEF Slots
  <2>5. Ahead = i /\ pc \in {"read", "write"}
    BY <2>4 DEF Ahead
  <2>6. World'.clients = clients'
    BY DEF World
  <2> QED
    BY <2>2, <2>3, <2>5, <2>6 DEF LoopInv, WorldOK, Aligned, Slots
<1> QED
  BY <1>1, LoopInvariant, PTL DEF Spec, NewClientsWait

(* The process crashes only for want of room, when a connect fails at      *)
(* once, on a connection that has failed, or by a short write on one that  *)
(* we made and whose other side reads too slowly: never in the panic of an *)
(* empty outbox, never by writing to a connection still being made, and    *)
(* never by a short write on a connection we accepted.                     *)
THEOREM OnlyProvokedCrashes == Spec => CrashesAreProvoked
<1>1. LoopInv /\ [Next]_vars =>
        [fate = "fine" /\ fate' # "fine" =>
           \/ fate' = "no room" /\ (FreeFds(World) = {} \/ FreeSlots(World) = {})
           \/ fate' = "no timer" /\ FreeTimers(World) = {}
           \/ fate' = "no connection"
           \/ fate' \in {"read failed", "partial write"} /\ Failed(C.fd)
           \/ fate' = "partial write" /\ sock[C.fd].kind = "connected" /\ ~sock[C.fd].room]_vars
  BY StepKeeps DEF CrashHasReason, Provoked, Slow
<1> QED
  BY <1>1, LoopInvariant, PTL DEF Spec, CrashesAreProvoked
=============================================================================
