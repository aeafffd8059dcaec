------------------------------ MODULE WebServer ------------------------------
(* prog/webserver: a thread for each client, which reads one request after *)
(* another and answers it with a listing, a file or what a script writes   *)
(* (srvcgi.c), and the scripts, started by lib/os/proc.c behind pipes that *)
(* hold so much and no more. A unit of output is half of what is read at   *)
(* once. A panic, wherever it happens, ends the whole server.              *)
EXTENDS Integers, Sequences, FiniteSets, SequencesExt, FiniteSetsExt

CONSTANTS Clients,
          Wanted,      \* sequences of requests: "/", "missing", "file" or a script
          Scripts,     \* name -> [input, err, out, head, plain, status]
          FileSizes, ReadSize, PipeSize, MaxFds, None

Pages == {"/", "missing", "file"}
ScriptKinds == [input : BOOLEAN, err : Nat, out : Seq(Nat \ {0}), head : Nat, plain : BOOLEAN, status : Nat]

Settings ==
  /\ IsFiniteSet(Clients) /\ FileSizes \subseteq Nat
  /\ \A name \in DOMAIN Scripts : name \notin Pages \cup {None} /\ Scripts[name] \in ScriptKinds
  /\ Wanted \subseteq Seq(Pages \cup DOMAIN Scripts) /\ None \notin Pages
  /\ ReadSize \in Nat \ {0} /\ PipeSize \in Nat /\ MaxFds \in Nat

(* A script reads its input to the end (input), or else writes to its      *)
(* standard error (err units) and then what it has to say (out, the sizes  *)
(* of single writes; the first units, head, are its head), and exits with  *)
(* a status. A head is plain without a Content-Length or a Status other    *)
(* than 200.                                                               *)
VARIABLES conn,     \* of each client: what it asks, what is still to be read, what it got
          thread,   \* of each client: at, the request, and how much was read or sent
          script,   \* the last script that was started for a client
          file,     \* the file's size, and whether that has ever changed
          started,  \* how many scripts there have been
          fate      \* "up", or why the server is no more

webserver == <<conn, thread, script, file, started, fate>>

Sum(s) ==
  LET upto[n \in 0 .. Len(s)] == IF n = 0 THEN 0 ELSE upto[n - 1] + s[n] IN upto[Len(s)]
IsScript(r) == r \in DOMAIN Scripts
At(c, at) == fate = "up" /\ thread[c].at = at
Goes(c, at, req, n) == thread' = [thread EXCEPT ![c] = [at |-> at, req |-> req, n |-> n]]
Dies(why) == fate' = why /\ UNCHANGED <<conn, thread, script, file, started>>

(* An open descriptor for each client and each file that is being sent, and*)
(* three for every script that was ever started: proc.wait frees the       *)
(* readers and closes nothing.                                             *)
Fds == Cardinality({c \in Clients : thread[c].at # "none"})
       + Cardinality({c \in Clients : thread[c].at = "sending"}) + 3 * started
Lacks(n) == Fds + n > MaxFds

Init ==
  /\ conn \in [Clients -> {[asked |-> w, todo |-> w, here |-> TRUE, got |-> <<>>] : w \in Wanted}]
  /\ thread = [c \in Clients |-> [at |-> "none", req |-> None, n |-> 0]]
  /\ script = [c \in Clients |-> None]
  /\ file \in [size : FileSizes, changed : {FALSE}]
  /\ started = 0
  /\ fate = "up"

(* main: accept, and a thread.                                             *)
Accept(c) ==
  /\ At(c, "none")
  /\ IF Lacks(1) THEN Dies("accept failed")
     ELSE Goes(c, "reading", None, 0) /\ UNCHANGED <<conn, script, file, started, fate>>

(* What has been asked is read even if the client has gone.                *)
ReadRequest(c) ==
  /\ At(c, "reading") /\ conn[c].todo # <<>>
  /\ LET r == conn[c].todo[1] IN Goes(c, IF IsScript(r) THEN "spawn" ELSE r, r, 0)
  /\ conn' = [conn EXCEPT ![c].todo = Tail(@)]
  /\ UNCHANGED <<script, file, started, fate>>

RequestsEnd(c) ==
  /\ At(c, "reading") /\ conn[c].todo = <<>> /\ ~conn[c].here
  /\ Dies("failed to read request")

Unusable(s, n) == s.status # 0 \/ n < s.head \/ n = 0 \/ ~s.plain

(* What is sent to a client that has gone is lost, or raises SIGPIPE.      *)
Got(c, answers) == IF conn[c].here THEN [conn EXCEPT ![c].got = answers] ELSE conn
Answer(c, says, body) == Append(conn[c].got, [req |-> thread[c].req, says |-> says, body |-> body])
PipeBreaks(c) ==
  /\ \/ \E at \in {"/", "missing", "file", "sending"} : At(c, at)
     \/ At(c, "wait") /\ script[c].exited /\ ~Unusable(Scripts[thread[c].req], thread[c].n)
  /\ ~conn[c].here
  /\ Dies("SIGPIPE")

(* The listing, and the answer to what is not there: a newline too many    *)
(* precedes its text and is not counted.                                   *)
ServeText(c) ==
  /\ \/ At(c, "/") /\ ~Lacks(1) /\ conn' = Got(c, Answer(c, 1, 1))
     \/ At(c, "missing") /\ conn' = Got(c, Answer(c, 1, 2))
  /\ Goes(c, "reading", None, 0)
  /\ UNCHANGED <<script, file, started, fate>>

(* The directory or the file cannot be opened.                             *)
OpenFails(c) == (At(c, "/") \/ At(c, "file")) /\ Lacks(1) /\ Dies("open failed")

(* servefile: the size that the file has now, and then what it has.        *)
ServeHead(c) ==
  /\ At(c, "file") /\ ~Lacks(1)
  /\ conn' = Got(c, Answer(c, file.size, 0))
  /\ Goes(c, "sending", "file", 0)
  /\ UNCHANGED <<script, file, started, fate>>

ServeChunk(c) ==
  /\ At(c, "sending")
  /\ LET got == conn[c].got
     IN IF thread[c].n < file.size
        THEN /\ conn' = Got(c, [got EXCEPT ![Len(got)].body = @ + 1])
             /\ Goes(c, "sending", "file", thread[c].n + 1)
        ELSE Goes(c, "reading", None, 0) /\ UNCHANGED conn
  /\ UNCHANGED <<script, file, started, fate>>

(* start and proc.spawn: six descriptors, of which the script takes three. *)
Spawn(c) ==
  /\ At(c, "spawn")
  /\ IF Lacks(6) THEN Dies("spawn failed")
     ELSE /\ script' = [script EXCEPT ![c] = [todo |-> Scripts[thread[c].req], piped |-> 0, errors |-> 0, exited |-> FALSE]]
          /\ started' = started + 1
          /\ Goes(c, "output", thread[c].req, 0)
          /\ UNCHANGED <<conn, file, fate>>

(* One read of the script's output, which waits until there is any.        *)
ReadOutput_All(c) ==             \* a slip: the pipe's capacity at once
  /\ At(c, "output") /\ (script[c].piped > 0 \/ script[c].exited)
  /\ script' = [script EXCEPT ![c].piped = 0]
  /\ Goes(c, "wait", thread[c].req, script[c].piped)
  /\ UNCHANGED <<conn, file, started, fate>>
ReadOutput(c) ==
  /\ At(c, "output") /\ (script[c].piped > 0 \/ script[c].exited)
  /\ LET n == Min({script[c].piped, ReadSize})
     IN script' = [script EXCEPT ![c].piped = @ - n] /\ Goes(c, "wait", thread[c].req, n)
  /\ UNCHANGED <<conn, file, started, fate>>

(* proc.wait; then the head is parsed, and the rest of what was read sent. *)
Reply_HeadCounted(c) ==          \* a slip: the length of all that was read
  LET n == thread[c].n
      s == Scripts[thread[c].req]
  IN  /\ At(c, "wait") /\ script[c].exited
      /\ IF Unusable(s, n) THEN Dies("bad script")
         ELSE /\ conn' = Got(c, Answer(c, n, n - s.head))
              /\ Goes(c, "reading", None, 0)
              /\ UNCHANGED <<script, file, started, fate>>
Reply(c) ==
  LET n == thread[c].n
      s == Scripts[thread[c].req]
  IN  /\ At(c, "wait") /\ script[c].exited
      /\ IF Unusable(s, n) THEN Dies("bad script")
         ELSE /\ conn' = Got(c, Answer(c, n - s.head, n - s.head))
              /\ Goes(c, "reading", None, 0)
              /\ UNCHANGED <<script, file, started, fate>>

(* The script. Its input is never closed; a write that fits a pipe is not  *)
(* divided, and waits until there is room.                                 *)
HasRoom(s) ==
  /\ ~s.todo.input
  /\ IF s.todo.err > 0 THEN s.errors < PipeSize
     ELSE s.todo.out # <<>> /\ s.piped + s.todo.out[1] <= PipeSize
IsDone(s) == ~s.todo.input /\ s.todo.err = 0 /\ s.todo.out = <<>>

ScriptWrites(c) ==
  LET s == script[c]
  IN  /\ s # None /\ HasRoom(s)
      /\ script' = [script EXCEPT ![c] =
           IF s.todo.err > 0 THEN [s EXCEPT !.todo.err = @ - 1, !.errors = @ + 1]
                             ELSE [s EXCEPT !.todo.out = Tail(@), !.piped = @ + s.todo.out[1]]]
      /\ UNCHANGED <<conn, thread, file, started, fate>>

ScriptExits(c) ==
  LET s == script[c]
  IN  /\ s # None /\ IsDone(s) /\ ~s.exited
      /\ script' = [script EXCEPT ![c].exited = TRUE]
      /\ UNCHANGED <<conn, thread, file, started, fate>>

(* Clients go away, and files are changed, without asking.                 *)
Leave(c) ==
  /\ fate = "up" /\ thread[c].at # "none" /\ conn[c].here
  /\ conn' = [conn EXCEPT ![c].here = FALSE]
  /\ UNCHANGED <<thread, script, file, started, fate>>

FileChanges ==
  /\ fate = "up" /\ ~file.changed
  /\ \E n \in FileSizes : file' = [size |-> n, changed |-> n # file.size]
  /\ UNCHANGED <<conn, thread, script, started, fate>>

Serve(c) == \/ Accept(c) \/ ReadRequest(c) \/ RequestsEnd(c) \/ PipeBreaks(c) \/ OpenFails(c)
            \/ ServeText(c) \/ ServeHead(c) \/ ServeChunk(c)
            \/ Spawn(c) \/ ReadOutput(c) \/ Reply(c)
ScriptRuns(c) == fate = "up" /\ (ScriptWrites(c) \/ ScriptExits(c))

(* A server waits for clients, or for scripts, until it is no more.        *)
Waits == UNCHANGED webserver

Next == (\E c \in Clients : Serve(c) \/ ScriptRuns(c) \/ Leave(c)) \/ FileChanges \/ Waits
-----------------------------------------------------------------------------
(* A thread that waits for a script that waits for the thread.             *)
Stuck(c) ==
  /\ thread[c].at = "wait" \/ (thread[c].at = "output" /\ script[c].piped = 0)
  /\ ~script[c].exited /\ ~HasRoom(script[c]) /\ ~IsDone(script[c])

(* A client is left without an answer, or the server ends, only if a       *)
(* client goes away, if a script reads its input, says more (or complains  *)
(* more) than a pipe holds, fails, or has not written its head by the end  *)
(* of the one read, or when scripts have used up the descriptors. A script *)
(* that says more than one read and a pipe is never answered.              *)
ServesUnlessProvoked ==
  /\ \A c \in Clients : fate = "up" /\ Stuck(c) =>
       LET s == Scripts[thread[c].req] IN s.input \/ s.err > PipeSize \/ Sum(s.out) > PipeSize
  /\ \/ fate = "up"
     \/ \E c \in Clients : ~conn[c].here
     \/ \E c \in Clients : IsScript(thread[c].req) /\
          LET s == Scripts[thread[c].req]
          IN s.status # 0 \/ ~s.plain \/ s.out = <<>> \/ Min({s.out[1], ReadSize}) < s.head
     \/ 2 * Cardinality(Clients) + 3 * (started + 2) > MaxFds
  /\ \A c \in Clients : \A k \in DOMAIN conn[c].got : IsScript(conn[c].got[k].req) =>
       LET s == Scripts[conn[c].got[k].req]
       IN ~s.input /\ s.err <= PipeSize /\ Sum(s.out) <= PipeSize + ReadSize

(* Each client gets the answers to its own requests, in their order, as    *)
(* long as they say they are: but for a file that changes, for the newline *)
(* before "The file was not found", and for what is still being sent. What *)
(* a script says is cut off, unless it says it at once.                    *)
AnswersMatch ==
  \A c \in Clients :
    LET got == conn[c].got
        ended(k) == k < Len(got) \/ (conn[c].here /\ thread[c].at # "sending")
    IN  /\ IsPrefix([k \in DOMAIN got |-> got[k].req], conn[c].asked)
        /\ \A k \in DOMAIN got :
             LET a == got[k]
             IN  /\ a.body = a.says \/ a.req = "missing" \/ (a.req = "file" /\ (file.changed \/ ~ended(k)))
                 /\ IsScript(a.req) =>
                      LET s == Scripts[a.req]
                          all == Sum(s.out) - s.head
                      IN a.body <= all /\ (Len(s.out) = 1 /\ Sum(s.out) <= ReadSize => a.body = all)
=============================================================================
