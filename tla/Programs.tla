------------------------------ MODULE Programs ------------------------------
(* The programs that need no other one to run, in one model: program says   *)
(* which of them it is, and the variables of the others stay as they are.  *)
EXTENDS CheRun

CONSTANTS Tests, Dirs, NArgs, Outcomes, ExitCodes,               \* of TestRunner
          Games, Tries, Aim(_),                                  \* of Battleship
          Messages, MaxDict, LenLimit, ByteBits,                 \* of Lzw
          Clients, Wanted, Scripts, FileSizes, ReadSize, PipeSize, MaxFds,  \* of WebServer
          Ids, TorrentNames, MaxLines                                   \* of TorrentList

VARIABLES program,
          args, outcome, arg, atTest, doing, testout, executed, printed,
          fails, total, argfails, status,
          game, ships, board, shots, state, turn, left, ai, winner,
          message, rest, dict, stream, pos, known, prev, out, phase,
          conn, thread, script, file, started, fate,
          torrents, list, tmp, command, hidden, unsure

che == vars
chetest == <<args, outcome, arg, atTest, doing, testout, executed, printed,
             fails, total, argfails, status>>
battleship == <<game, ships, board, shots, state, turn, left, ai, winner>>
lzw == <<message, rest, dict, stream, pos, known, prev, out, phase>>
webserver == <<conn, thread, script, file, started, fate>>
tl == <<torrents, list, tmp, command, hidden, unsure>>

T == INSTANCE TestRunner WITH at <- atTest, pc <- doing
B == INSTANCE Battleship
Z == INSTANCE Lzw
W == INSTANCE WebServer WITH None <- Nothing
D == INSTANCE TorrentList WITH Absent <- Nothing, Names <- TorrentNames

ASSUME TestAssumption == T!Settings
ASSUME GameAssumption == B!Settings
ASSUME ServerAssumption == W!Settings
ASSUME ListAssumption == D!Settings

Chosen(p) == program = p

NoTest ==
  /\ args = Nothing /\ outcome = Nothing /\ arg = Nothing /\ atTest = Nothing
  /\ doing = Nothing /\ testout = Nothing /\ executed = Nothing /\ printed = Nothing
  /\ fails = Nothing /\ total = Nothing /\ argfails = Nothing /\ status = Nothing

NoGame ==
  /\ game = Nothing /\ ships = Nothing /\ board = Nothing /\ shots = Nothing
  /\ state = Nothing /\ turn = Nothing /\ left = Nothing /\ ai = Nothing
  /\ winner = Nothing

NoMessage ==
  /\ message = Nothing /\ rest = Nothing /\ dict = Nothing /\ stream = Nothing
  /\ pos = Nothing /\ known = Nothing /\ prev = Nothing /\ out = Nothing
  /\ phase = Nothing

NoServer ==
  /\ conn = Nothing /\ thread = Nothing /\ script = Nothing
  /\ file = Nothing /\ started = Nothing /\ fate = Nothing

NoList ==
  /\ torrents = Nothing /\ list = Nothing /\ tmp = Nothing
  /\ command = Nothing /\ hidden = Nothing /\ unsure = Nothing

MachinesInit ==
  /\ Init
  /\ IF Chosen("che test") THEN T!Init ELSE NoTest
  /\ IF Chosen("battleship") THEN B!Init ELSE NoGame
  /\ IF Chosen("lzw") THEN Z!Init ELSE NoMessage
  /\ IF Chosen("web server") THEN W!Init ELSE NoServer
  /\ IF Chosen("torrent list") THEN D!Init ELSE NoList

Che == Chosen("che") /\ Next /\ UNCHANGED <<program, chetest, battleship, lzw, webserver, tl>>
CheTest == Chosen("che test") /\ T!Next /\ UNCHANGED <<program, che, battleship, lzw, webserver, tl>>
Battleship == Chosen("battleship") /\ B!Next /\ UNCHANGED <<program, che, chetest, lzw, webserver, tl>>
LZW == Chosen("lzw") /\ Z!Next /\ UNCHANGED <<program, che, chetest, battleship, webserver, tl>>
WebServer == Chosen("web server") /\ W!Next /\ UNCHANGED <<program, che, chetest, battleship, lzw, tl>>
TorrentList == Chosen("torrent list") /\ D!Next /\ UNCHANGED <<program, che, chetest, battleship, lzw, webserver>>

machines == <<program, che, chetest, battleship, lzw, webserver, tl>>
MachinesNext == Che \/ CheTest \/ Battleship \/ LZW \/ WebServer \/ TorrentList
MachinesSpec == MachinesInit /\ [][MachinesNext]_machines
-----------------------------------------------------------------------------
(* che test: what is executed for a test is that test, every executed test *)
(* that fails is counted, and the exit status tells.                       *)
VerdictsCount == Chosen("che test") => T!VerdictsCount

(* Battleship: what a player has marked on the other's board is there, and *)
(* the winner has sunk all of the other's ships.                           *)
PlayIsTrue == Chosen("battleship") => B!MarksAreTrue /\ B!WinnerSankAll

(* Battleship: a game that has begun comes to its end.                     *)
GameEnds == (Chosen("battleship") /\ state = "playing") ~> state = "finished"

(* LZW: what was compressed is what the decompressor writes.               *)
RoundTrip == Chosen("lzw") => Z!RoundTrip

(* The web server: only a client that goes away or a script that does not  *)
(* end as it should ends the server, or leaves a client without an answer. *)
ServesUnlessProvoked == Chosen("web server") => W!ServesUnlessProvoked

(* The web server: each client gets the answers to what it asked, in that  *)
(* order, and of the lengths that they say.                                *)
AnswersMatch == Chosen("web server") => W!AnswersMatch

(* The torrent list: what the user has hidden is hidden and nothing else,  *)
(* whatever was killed, but for what was said while transmission was       *)
(* silent and for torrents of the same name.                               *)
ListedAsHidden == Chosen("torrent list") => D!ListedAsHidden
=============================================================================
