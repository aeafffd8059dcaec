------------------------------ MODULE Torrent -------------------------------
(***************************************************************************)
(* A download of prog/torrent: a downloader that has connected to a seeder *)
(* (peer.c), the stream of messages in both directions (peerproto.c), and  *)
(* the files on either side's disk, seen as pieces and slices (files.c).   *)
(* The stream is delivered in portions that begin and end anywhere; each   *)
(* side keeps what it has read in a stash and takes whole messages out.    *)
(* A byte here is what a slice is made of: the units in which messages are *)
(* cut up and files are read are coarser than in the program.              *)
(***************************************************************************)
EXTENDS Integers, Sequences, SequencesExt

CONSTANTS FileLens,     \* lengths of the torrent's files, in their order
          PieceLength,
          SliceSize,    \* 16 KB
          MaxRead,      \* the most one read of the event loop returns (4096)
          FlagRoom,     \* bytes of a msg_t, one for each flag of a bitfield (1000)
          Spoilt,       \* sets of places <<file, position>> that the seeder may have wrong
          Missing,      \* no such file
          NoPlace       \* nor a directory for it

ASSUME TorrentAssumption ==
  /\ FileLens \in Seq(Nat \ {0}) /\ FileLens # <<>>
  /\ PieceLength \in Nat \ {0} /\ SliceSize \in Nat \ {0} /\ MaxRead \in Nat \ {0}
  /\ FlagRoom \in Nat

VARIABLES disk,   \* disk[p][f]: contents of file f, or Missing
          wire,   \* wire[p]: what was sent to p and not yet read
          stash,  \* stash[p]: what p has read and not yet shifted out
          state,  \* of each side's peer_t
          next,   \* next_req_piece of the downloader
          link    \* "none", "up", "lost", or "panic" when a side is down

vars == <<disk, wire, stash, state, next, link>>

Peers == {"downloader", "seeder"}
Other(p) == IF p = "seeder" THEN "downloader" ELSE "seeder"
Lower(a, b) == IF a < b THEN a ELSE b
Upper(a, b) == IF a < b THEN b ELSE a

-----------------------------------------------------------------------------
(* Pieces and files (torrent.c and files.c).                               *)
Files == DOMAIN FileLens
FileEnd[f \in {0} \cup Files] == IF f = 0 THEN 0 ELSE FileEnd[f - 1] + FileLens[f]
FileBegin(f) == FileEnd[f - 1]
TotalSize == FileEnd[Len(FileLens)]

Npieces == TotalSize \div PieceLength + (IF TotalSize % PieceLength # 0 THEN 1 ELSE 0)

LastLen == IF TotalSize % PieceLength # 0 THEN TotalSize % PieceLength ELSE PieceLength

(* get_piece_length.                                                       *)
PieceLen(i) == IF i = Npieces - 1 THEN LastLen ELSE PieceLength

(* No piece lies in two files.                                             *)
OneFileEach ==
  \A i \in 0 .. Npieces - 1 : \E f \in Files :
    FileBegin(f) <= i * PieceLength /\ i * PieceLength + PieceLen(i) <= FileEnd[f]

(* The contents a file should have: every byte tells its place in the      *)
(* torrent.  0 is a hole.                                                  *)
Proper == [f \in Files |-> [pos \in 0 .. FileLens[f] - 1 |-> FileBegin(f) + pos + 1]]
ProperPiece(i) == [k \in 0 .. PieceLen(i) - 1 |-> i * PieceLength + k + 1]
Contents == 0 .. TotalSize

ASSUME NamesAssumption ==
  /\ Missing # NoPlace
  /\ \A f \in Files : {Missing, NoPlace} \cap [0 .. FileLens[f] - 1 -> Contents] = {}

(* map: the part of each file that lies in the slice s.                    *)
Begin(s) == s.index * PieceLength + s.begin
Touched(s) == {f \in Files : FileEnd[f] > Begin(s) /\ FileBegin(f) < Begin(s) + s.length}
Part(s, f) ==
  LET af == Upper(FileBegin(f), Begin(s))
      bf == Lower(FileEnd[f], Begin(s) + s.length)
  IN [begin |-> af - FileBegin(f), length |-> bf - af]

(* sliceop reads or writes the parts one after the other, each at the      *)
(* beginning of the buffer.                                                *)
ReadSlice(d, s) ==
  [k \in 0 .. s.length - 1 |->
     LET Here == {f \in Touched(s) : k < Part(s, f).length}
     IN IF Here = {} THEN 0
        ELSE LET f == CHOOSE f \in Here : \A g \in Here : g <= f
             IN d[f][Part(s, f).begin + k]]

Readable(d, s) == \A f \in Touched(s) : d[f] \notin {Missing, NoPlace}

WriteSlice_Truncating(d, s, data) ==  \* a slip: fopen(path, "w+b")
  [f \in Files |->
     IF f \notin Touched(s) THEN d[f]
     ELSE [pos \in 0 .. FileLens[f] - 1 |->
             LET k == pos - Part(s, f).begin
             IN IF k \in 0 .. Part(s, f).length - 1 THEN data[k] ELSE 0]]

(* _write makes a file that is not there, but no directory for it: then    *)
(* the files behind it are not written either.  What it does not write is  *)
(* a hole.                                                                 *)
Writable(d, s) == \A f \in Touched(s) : d[f] # NoPlace
WriteSlice(d, s, data) ==
  [f \in Files |->
     IF f \notin Touched(s) \/ \E g \in Touched(s) : g <= f /\ d[g] = NoPlace THEN d[f]
     ELSE [pos \in 0 .. FileLens[f] - 1 |->
             LET k == pos - Part(s, f).begin
             IN IF k \in 0 .. Part(s, f).length - 1 THEN data[k]
                ELSE IF d[f] = Missing THEN 0 ELSE d[f][pos]]]

WholePiece_Full(i) == [index |-> i, begin |-> 0, length |-> PieceLength]  \* a slip: the last one too

WholePiece(i) == [index |-> i, begin |-> 0, length |-> PieceLen(i)]

(* check_piece: the hash of what is read is the piece's hash.              *)
CheckPiece(d, i) == ReadSlice(d, WholePiece(i)) = ProperPiece(i)

-----------------------------------------------------------------------------
(* Messages: a head and one or more parts behind it.                       *)
Slices_WholeOnly(i) ==           \* a slip: forgets the rest of the piece
  [k \in 1 .. PieceLen(i) \div SliceSize |->
     [index |-> i, begin |-> (k - 1) * SliceSize, length |-> SliceSize]]

Slices(i) ==
  LET n == (PieceLen(i) + SliceSize - 1) \div SliceSize
  IN [k \in 1 .. n |-> [index |-> i, begin |-> (k - 1) * SliceSize,
                        length |-> Lower(SliceSize, PieceLen(i) - (k - 1) * SliceSize)]]

Plain(type) == [type |-> type]
Request(s) == [type |-> "REQUEST", slice |-> s]
Piece(s, data) == [type |-> "PIECE", slice |-> s, data |-> data]

Size(m) == IF m.type = "PIECE" THEN 3 ELSE 2
Bytes(m) == [k \in 1 .. Size(m) |-> [msg |-> m, part |-> k]]
Encode(ms) == FlattenSeq([k \in DOMAIN ms |-> Bytes(ms[k])])

Send(p, ms) == wire' = [wire EXCEPT ![Other(p)] = @ \o Encode(ms)]

(* read_request: nothing until a whole message is in the stash.            *)
Complete(st) == st # <<>> /\ Len(st) >= Size(Head(st).msg)

Shift_Tail(st, m) == SubSeq(st, Size(m), Len(st))  \* a slip: the size without the head

Shift(st, m) == SubSeq(st, Size(m) + 1, Len(st))

-----------------------------------------------------------------------------
(* The seeder has all of it, as long as no byte went wrong on its disk; the*)
(* downloader what an earlier attempt left.                                *)
SeederDisk(wrong) == [f \in Files |-> [pos \in 0 .. FileLens[f] - 1 |->
                                       IF <<f, pos>> \in wrong THEN 0 ELSE Proper[f][pos]]]
LeftOver(f) == {Missing, NoPlace} \cup {[pos \in 0 .. FileLens[f] - 1 |->
                                 IF pos \in good THEN Proper[f][pos] ELSE 0]
                              : good \in SUBSET (0 .. FileLens[f] - 1)}

Init ==
  /\ disk \in {[seeder |-> SeederDisk(wrong), downloader |-> d] :
                wrong \in Spoilt,
                d \in {d \in [Files -> UNION {LeftOver(f) : f \in Files}] :
                        \A f \in Files : d[f] \in LeftOver(f)}}
  /\ wire = [p \in Peers |-> <<>>]
  /\ stash = [p \in Peers |-> <<>>]
  /\ state = [p \in Peers |-> "WAITING_HANDSHAKE"]
  /\ next = 0
  /\ link = "none"

(* request_pieces: the slices of the next piece, if there is one.          *)
NextRequests ==
  IF next < Npieces THEN [k \in DOMAIN Slices(next) |-> Request(Slices(next)[k])] ELSE <<>>

RequestPieces(greeting) ==
  /\ Send("downloader", greeting \o NextRequests)
  /\ next' = IF next < Npieces THEN next + 1 ELSE next

(* CONNECTED with init data: handshake, bitfield and the first requests.   *)
Connected ==
  /\ link = "none"
  /\ link' = "up"
  /\ RequestPieces(<<Plain("HANDSHAKE"), Plain("BITFIELD")>>)
  /\ UNCHANGED <<disk, stash, state>>

(* DATA_IN: the first bytes on the wire, when the loop of the last one has *)
(* found no more messages in the stash.                                    *)
Receive_Eagerly(p) ==            \* a slip: one message per DATA_IN
  /\ link = "up"
  /\ \E n \in 1 .. Lower(MaxRead, Len(wire[p])) :
       /\ stash' = [stash EXCEPT ![p] = @ \o SubSeq(wire[p], 1, n)]
       /\ wire' = [wire EXCEPT ![p] = SubSeq(@, n + 1, Len(@))]
  /\ UNCHANGED <<disk, state, next, link>>

Receive(p) ==
  /\ link = "up"
  /\ ~Complete(stash[p])
  /\ \E n \in 1 .. Lower(MaxRead, Len(wire[p])) :
       /\ stash' = [stash EXCEPT ![p] = @ \o SubSeq(wire[p], 1, n)]
       /\ wire' = [wire EXCEPT ![p] = SubSeq(@, n + 1, Len(@))]
  /\ UNCHANGED <<disk, state, next, link>>

(* A whole message: read_request takes it out, write_response acts on it.  *)
(* What does not begin where a message begins is taken for something else. *)
Type(p) == IF Head(stash[p]).part = 1 THEN Head(stash[p]).msg.type ELSE "unknown"

Ready(p) == link = "up" /\ Complete(stash[p])

Take(p) == stash' = [stash EXCEPT ![p] = Shift(@, Head(@).msg)]

Message(p) == Head(stash[p]).msg

(* The first one is the handshake, which the seeder answers.               *)
Handshake(p) ==
  /\ Ready(p) /\ state[p] = "WAITING_HANDSHAKE"
  /\ Take(p)
  /\ state' = [state EXCEPT ![p] = "READING_MESSAGE_LENGTH"]
  /\ link' = IF Type(p) = "HANDSHAKE" THEN link ELSE "panic"
  /\ IF p = "seeder" THEN Send(p, <<Plain("HANDSHAKE")>>) ELSE UNCHANGED wire
  /\ UNCHANGED <<disk, next>>

Later(p) == Ready(p) /\ state[p] = "READING_MESSAGE_LENGTH"

(* MSG_BITFIELD has a bit for each piece, in whole bytes, and read_message *)
(* writes a flag for each bit into a msg_t on the stack, however many there*)
(* are: those for which there is no room go over what lies behind it, and  *)
(* the side goes on or is brought down.  The flags are then printed.       *)
(* Anything else is not known.                                             *)
Flags == 8 * ((Npieces + 7) \div 8)
FewPieces == Flags <= FlagRoom

Bitfield(p) ==
  /\ Later(p) /\ Type(p) \notin {"REQUEST", "PIECE"}
  /\ Take(p)
  /\ link' \in CASE Type(p) # "BITFIELD" -> {"panic"}
                [] Type(p) = "BITFIELD" /\ FewPieces -> {link}
                [] Type(p) = "BITFIELD" /\ ~FewPieces -> {link, "panic"}
  /\ UNCHANGED <<disk, wire, state, next>>

(* MSG_REQUEST: readslice and write_piece.                                 *)
Serve(p) ==
  /\ Later(p) /\ Type(p) = "REQUEST"
  /\ Take(p)
  /\ LET s == Message(p).slice
     IN IF Readable(disk[p], s)
        THEN Send(p, <<Piece(s, ReadSlice(disk[p], s))>>) /\ UNCHANGED link
        ELSE link' = "panic" /\ UNCHANGED wire
  /\ UNCHANGED <<disk, state, next>>

(* MSG_PIECE: writeslice, check_piece, and the next requests when the      *)
(* piece is right.                                                         *)
Store(p) ==
  /\ Later(p) /\ Type(p) = "PIECE"
  /\ Take(p)
  /\ LET s == Message(p).slice
         d == WriteSlice(disk[p], s, Message(p).data)
     IN /\ disk' = [disk EXCEPT ![p] = d]
        /\ IF ~Writable(disk[p], s) \/ ~Readable(d, WholePiece(s.index))
           THEN link' = "panic" /\ UNCHANGED <<wire, next>>
           ELSE /\ IF CheckPiece(d, s.index) THEN RequestPieces(<<>>)
                                              ELSE UNCHANGED <<wire, next>>
                /\ UNCHANGED link
  /\ UNCHANGED state

(* The connection breaks; the downloader does not connect again.           *)
Lose ==
  /\ link = "up"
  /\ link' = "lost"
  /\ UNCHANGED <<disk, wire, stash, state, next>>

(* The downloader waits for what nobody will send when it has everything,  *)
(* or when the piece that came last was wrong.                             *)
Idle == link = "up" /\ \A p \in Peers : wire[p] = <<>> /\ ~Complete(stash[p])
Over == (link \in {"lost", "panic"} \/ Idle) /\ UNCHANGED vars

Step(p) == Receive(p) \/ Handshake(p) \/ Bitfield(p) \/ Serve(p) \/ Store(p)

Next == Connected \/ (\E p \in Peers : Step(p)) \/ Lose \/ Over

Spec == Init /\ [][Next]_vars

(* Both processes run, and the network delivers while the link is up.      *)
FairSpec == Spec /\ WF_vars(Connected) /\ \A p \in Peers : WF_vars(Step(p))

-----------------------------------------------------------------------------
(* Every variable has its type.                                            *)
TypeOK ==
  /\ next \in 0 .. Npieces
  /\ state \in [Peers -> {"WAITING_HANDSHAKE", "READING_MESSAGE_LENGTH"}]
  /\ link \in {"none", "up", "lost", "panic"}
  /\ \A p \in Peers : \A f \in Files :
       disk[p][f] \notin {Missing, NoPlace} => disk[p][f] \in [0 .. FileLens[f] - 1 -> Contents]

(* The stash holds less than a message and one read, however much is on    *)
(* the wire.                                                               *)
StashIsSmall == \A p \in Peers : Len(stash[p]) < 3 + MaxRead

Right(p, i) ==
  LET s == WholePiece(i)
  IN \A f \in Touched(s) :
       \A pos \in Part(s, f).begin .. Part(s, f).begin + Part(s, f).length - 1 :
         disk[p][f][pos] = Proper[f][pos]

(* check_piece finds a piece right exactly when each of its bytes is in    *)
(* its place on the disk.                                                  *)
ChecksAgree ==
  \A p \in Peers : \A i \in 0 .. Npieces - 1 :
    Readable(disk[p], WholePiece(i)) => (CheckPiece(disk[p], i) <=> Right(p, i))

(* What is on the disk and right stays right, from the first attempt to    *)
(* the last: no slice is written where it does not belong.  Only a byte    *)
(* that the seeder has wrong takes the place of one that was right.        *)
RightBytesStay ==
  [][\A f \in Files : disk.downloader[f] \notin {Missing, NoPlace} =>
       \A pos \in 0 .. FileLens[f] - 1 :
         disk.downloader[f][pos] = Proper[f][pos] =>
           disk'.downloader[f][pos] \in {Proper[f][pos], disk.seeder[f][pos]}]_vars

(* Neither side panics over what the other one sends, however the stream   *)
(* is cut up: the stash never fills up ("stash too small", peer.c:50), and *)
(* every message is taken where it begins, for what it is and when it is   *)
(* expected, and its slice is on the disk.  Only a directory that is       *)
(* missing brings the downloader down.  This holds of torrents of up to    *)
(* 1000 pieces, FewPieces: more have no room in msg_t (peerproto.c:61).    *)
PanicsForNoPlace ==
  /\ StashIsSmall
  /\ link = "panic" => \E f \in Files : disk.downloader[f] = NoPlace

(* While the link holds and there is a place for each file, the download   *)
(* completes, whatever an earlier one left behind and however the stream   *)
(* is cut up: all of it, or when the seeder has a piece wrong all pieces   *)
(* before that one, with which the download stops.                         *)
DownloadCompletes ==
  <>(\/ link = "lost"
     \/ \E f \in Files : disk.downloader[f] = NoPlace
     \/ \A i \in 0 .. Npieces - 1 :
          (\A j \in 0 .. i : Right("seeder", j)) =>
            Readable(disk.downloader, WholePiece(i)) /\ Right("downloader", i))
=============================================================================
