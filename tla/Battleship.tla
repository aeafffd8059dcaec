----------------------------- MODULE Battleship -----------------------------
(***************************************************************************)
(* The game of prog/battleship: placing the ships, the three ways to play  *)
(* of battleship.c, the rules of game.c and the computer's search of ai.c. *)
(*                                                                         *)
(* The player is the one who places ships and shoots where it likes; the   *)
(* computer's shots follow from its search state and the random numbers.   *)
(* Board size and ships are those of the game chosen from Games; in the    *)
(* code they are 10 by 10 and five ships of 5, 4, 3, 3 and 2.  Drawing,    *)
(* the log, the status line and the count of won games are left out.  The  *)
(* rules' closepack is left out too: the option -c sets a variable of      *)
(* battleship.c and never the one the rules look at, which stays false.    *)
(***************************************************************************)
EXTENDS Integers, Sequences, FiniteSets

CONSTANTS Games,      \* records: the board's w and d, the ships' lengths, the mode
          Tries,      \* where and in which direction the player places ships by hand
          Aim(_)      \* of a set of cells, those at which the player may shoot

BoardOf(g) == (0 .. g.w - 1) \X (0 .. g.d - 1)

Settings ==
  /\ \A g \in Games : /\ g.w \in Nat /\ g.d \in Nat /\ g.mode \in {"regular", "blitz", "salvo"}
                       /\ g.lengths \in Seq(Nat \ {0}) /\ g.lengths # <<>>
                       /\ \A S \in SUBSET BoardOf(g) : Aim(S) \subseteq S
  /\ \A try \in Tries : try[1] \in Int \X Int /\ try[2] \in {0, 2, 4, 6}

PLAYER == 0
COMPUTER == 1
Players == {PLAYER, COMPUTER}

EMPTY == 0           \* what a player knows of a cell: nothing,
MARK_MISS == -1      \* that there is no ship,
MARK_HIT == -2       \* or that there is one; its number when it has been sunk

Outside == <<-1, -1>>

VARIABLES game,      \* the options and the board
          ships,     \* per player and ship: x, y, dir, hits, placed
          board,     \* per player and cell the ship that is there, or 0
          shots,     \* per player and cell of the other board what the player knows
          state,     \* gamestate.state
          turn, left,  \* whose turn, and how many more shots in a salvo
          ai,        \* the computer's search
          winner

vars == <<game, ships, board, shots, state, turn, left, ai, winner>>

Cells == BoardOf(game)
Fleet == DOMAIN game.lengths
E == 0
S == 2

xincr == <<1, 1, 0, -1, -1, -1, 0, 1>>
yincr == <<0, 1, 1, 1, 0, -1, -1, -1>>

shipxy(c, dir, dist) == <<c[1] + dist * xincr[dir + 1], c[2] + dist * yincr[dir + 1]>>

(* The cells of ship k lying at c in direction dir.                        *)
Lie(k, c, dir) == {shipxy(c, dir, i) : i \in 0 .. game.lengths[k] - 1}

HasCollision_OnlyTheSquare(b, c) == b[c] # 0     \* a slip: ships may touch

HasCollision(b, c) ==
  \/ b[c] # 0
  \/ \E dir \in 0 .. 7 : LET n == shipxy(c, dir, 1) IN n \in Cells /\ b[n] # 0

(* checkplacement returns no error.                                        *)
Fits(b, k, c, dir) ==
  /\ shipxy(c, dir, game.lengths[k] - 1) \in Cells
  /\ \A n \in Lie(k, c, dir) : ~HasCollision(b, n)

(* Where randomplace may put ship k on an empty board.                     *)
RandomSpots(k) ==
  {<<<<x, y>>, E>> : x \in 0 .. game.w - game.lengths[k] - 1, y \in 0 .. game.d - 1}
  \cup {<<<<x, y>>, S>> : x \in 0 .. game.w - 1, y \in 0 .. game.d - game.lengths[k] - 1}

Reset(g) ==
  [ships |-> [p \in Players |-> [k \in DOMAIN g.lengths |->
                [x |-> 0, y |-> 0, dir |-> E, hits |-> 0, placed |-> FALSE]]],
   water |-> [p \in Players |-> [c \in BoardOf(g) |-> EMPTY]],
   ai    |-> [next |-> "random", step |-> 3, off |-> 0, counted |-> FALSE, hit |-> "miss",
              used |-> [i \in 0 .. 3 |-> FALSE], x |-> 0, y |-> 0, dir |-> 0, hits |-> 0]]

Init ==
  /\ game \in Games
  /\ ships = Reset(game).ships
  /\ board = Reset(game).water
  /\ shots = Reset(game).water
  /\ ai = Reset(game).ai
  /\ state = "arming"
  /\ turn = PLAYER
  /\ left = 0
  /\ winner = -1

Unplaced(p) == {k \in Fleet : ~ships[p][k].placed}

(* placeall_random: the ships that are left, one after the other, each in  *)
(* a place where it fits.  A fleet that cannot be completed would keep the *)
(* code looking for ever; it never comes to that on the board of 10 by 10. *)
PlaceAll(p) ==
  \E at \in [Unplaced(p) -> UNION {RandomSpots(k) : k \in Unplaced(p)}] :
    LET Upto[n \in 0 .. Len(game.lengths)] ==      \* the board with ships 1 .. n placed
          IF n = 0 THEN board[p]
          ELSE IF n \notin Unplaced(p) THEN Upto[n - 1]
          ELSE [c \in Cells |-> IF c \in Lie(n, at[n][1], at[n][2]) THEN n ELSE Upto[n - 1][c]]
    IN  /\ \A k \in Unplaced(p) : /\ at[k] \in RandomSpots(k)
                                  /\ Fits(Upto[k - 1], k, at[k][1], at[k][2])
        /\ board' = [board EXCEPT ![p] = Upto[Len(game.lengths)]]
        /\ ships' = [ships EXCEPT ![p] = [k \in Fleet |->
             IF k \in Unplaced(p)
               THEN [@[k] EXCEPT !.x = at[k][1][1], !.y = at[k][1][2], !.dir = at[k][2],
                                 !.placed = TRUE]
               ELSE @[k]]]

ArmComputer ==
  /\ state = "arming"
  /\ PlaceAll(COMPUTER)
  /\ state' = "placing"
  /\ UNCHANGED <<game, shots, turn, left, ai, winner>>

(* place_ships: the player chooses a ship that is not placed, the cursor   *)
(* and a direction; a ship that does not fit keeps the coordinates.        *)
PlaceShip(k, c, dir) ==
  /\ state = "placing"
  /\ k \in Unplaced(PLAYER) /\ c \in Cells
  /\ LET fits == Fits(board[PLAYER], k, c, dir)
     IN  /\ ships' = [ships EXCEPT ![PLAYER][k].x = c[1], ![PLAYER][k].y = c[2],
                                   ![PLAYER][k].dir = dir, ![PLAYER][k].placed = fits]
         /\ IF fits
              THEN board' = [board EXCEPT ![PLAYER] = [n \in Cells |->
                              IF n \in Lie(k, c, dir) THEN k ELSE @[n]]]
              ELSE UNCHANGED board
  /\ UNCHANGED <<game, shots, state, turn, left, ai, winner>>

PlaceRest ==
  /\ state = "placing"
  /\ Unplaced(PLAYER) # {}
  /\ PlaceAll(PLAYER)
  /\ state' = "placed"
  /\ UNCHANGED <<game, shots, turn, left, ai, winner>>

StartPlaying ==
  /\ \/ state = "placed"
     \/ state = "placing" /\ Unplaced(PLAYER) = {}
  /\ state' = "playing"
  /\ turn' \in Players
  /\ UNCHANGED <<game, ships, board, shots, left, ai, winner>>

-----------------------------------------------------------------------------
(* Shooting.                                                               *)

Sunk(p, k) == ships[p][k].hits >= game.lengths[k]

Afloat(p) == {k \in Fleet : ~Sunk(p, k)}

Decided == \E p \in Players : Afloat(p) = {}

(* What shoot returns when p shoots at c.                                  *)
Result(p, c) ==
  LET k == board[1 - p][c]
  IN  IF k = 0 THEN "miss"
      ELSE IF ships[1 - p][k].hits + 1 < game.lengths[k] THEN "hit" ELSE "sunk"

(* The cells on and around ship k of player q.                             *)
Around(q, k) ==
  LET s == ships[q][k]
  IN  {shipxy(shipxy(<<s.x, s.y>>, (s.dir + 2) % 8, j), s.dir, i) :
         i \in -1 .. game.lengths[k], j \in -1 .. 1} \cap Cells

(* What p knows after a shot at c: shoot, mark_empty_water and mark_sunk.  *)
Marks(p, c) ==
  LET k == board[1 - p][c]
      s == ships[1 - p][k]
  IN  CASE Result(p, c) = "miss" -> [shots[p] EXCEPT ![c] = MARK_MISS]
        [] Result(p, c) = "hit"  -> [shots[p] EXCEPT ![c] = MARK_HIT]
        [] Result(p, c) = "sunk" -> [n \in Cells |->
              IF n \in Lie(k, <<s.x, s.y>>, s.dir) THEN k
              ELSE IF n \in Around(1 - p, k) THEN MARK_MISS ELSE shots[p][n]]

Shoot(p, c) ==
  /\ UNCHANGED <<game, board>>
  /\ shots' = [shots EXCEPT ![p] = Marks(p, c)]
  /\ ships' = IF Result(p, c) = "miss" THEN ships
              ELSE [ships EXCEPT ![1 - p][board[1 - p][c]].hits = @ + 1]

MayShoot(p) ==
  /\ state = "playing" /\ turn = p /\ ~Decided
  /\ game.mode = "salvo" => left > 0

EndShot_KeepingTheTurn(again) ==      \* a slip: the last shot of a salvo keeps the turn
  /\ turn' = CASE game.mode = "regular" -> 1 - turn
               [] game.mode = "blitz"   -> IF again THEN turn ELSE 1 - turn
               [] game.mode = "salvo"   -> IF ~Decided' /\ left = 1 THEN 1 - turn ELSE turn
  /\ left' = IF game.mode = "salvo" /\ ~Decided' THEN left - 1 ELSE 0
  /\ UNCHANGED <<state, winner>>

(* After turn() in the loop of the mode; again is what turn() returned.    *)
EndShot(again) ==
  /\ turn' = CASE game.mode = "regular" -> 1 - turn
               [] game.mode = "blitz"   -> IF again THEN turn ELSE 1 - turn
               [] game.mode = "salvo"   -> IF Decided' \/ left = 1 THEN 1 - turn ELSE turn
  /\ left' = IF game.mode = "salvo" /\ ~Decided' THEN left - 1 ELSE 0
  /\ UNCHANGED <<state, winner>>

(* play_salvo counts the ships of whose turn it is.                        *)
CountShots ==
  /\ state = "playing" /\ ~Decided
  /\ game.mode = "salvo" /\ left = 0
  /\ left' = Cardinality(Afloat(turn))
  /\ UNCHANGED <<game, ships, board, shots, state, turn, ai, winner>>

PlayerShoots(c) ==
  /\ MayShoot(PLAYER)
  /\ c \in Aim({n \in Cells : shots[PLAYER][n] = EMPTY})
  /\ Shoot(PLAYER, c)
  /\ UNCHANGED ai
  /\ EndShot(CASE Result(PLAYER, c) = "miss" -> FALSE
               [] Result(PLAYER, c) = "hit"  -> TRUE
               [] Result(PLAYER, c) = "sunk" -> ~Decided')
-----------------------------------------------------------------------------
(* The computer's search.                                                  *)

Possible(c) == c \in Cells /\ shots[COMPUTER][c] = EMPTY

(* Where the computer gets to from its last hit.  Directions go up to 7;   *)
(* ai_reverse_jump adds 4 to one that may be 4 or 6, and what is read      *)
(* behind the ends of xincr and yincr may be anything.                     *)
Reached(dir, dist) ==
  IF dir < 8 THEN {shipxy(<<ai.x, ai.y>>, dir, dist)} ELSE Cells \cup {Outside}

(* The computer shoots at c, or at nothing, and goes on with the search b. *)
(* turn() returns AI.hit, which a random shot leaves as it was.            *)
Fire(c, b) ==
  /\ Shoot(COMPUTER, c)
  /\ ai' = b
  /\ EndShot(~Decided' /\ b.hit # "miss")

Pause(b) ==
  /\ UNCHANGED <<game, board, ships, shots>>
  /\ ai' = b
  /\ EndShot(b.hit # "miss")

(* ai_choose_move: a cell not shot at, off the pattern if there is one.    *)
RandomFire(a) ==
  LET possible == {c \in Cells : Possible(c)}
  IN  \E off \in IF a.counted THEN {a.off} ELSE 0 .. a.step - 1 :
        LET preferred == {c \in possible : (c[1] + off) % a.step # c[2] % a.step}
            b == [a EXCEPT !.counted = TRUE, !.off = off,
                           !.step = IF preferred = {} /\ @ > 1 THEN @ - 1 ELSE @]
        IN  \E c \in IF preferred # {} THEN preferred ELSE possible :
              Fire(c, IF Result(COMPUTER, c) = "hit"
                        THEN [b EXCEPT !.x = c[1], !.y = c[2], !.hits = 1, !.next = "hunt",
                                       !.used = [i \in 0 .. 3 |-> FALSE]]
                        ELSE b)

AiRandomFire == MayShoot(COMPUTER) /\ ai.next = "random" /\ RandomFire(ai)

(* The search after a shot at c in direction dir with next as the mode for *)
(* each result.                                                            *)
After(a, c, dir, next) ==
  LET r == Result(COMPUTER, c)
      b == [a EXCEPT !.hit = r, !.next = next[r]]
  IN  IF r = "hit" THEN [b EXCEPT !.x = c[1], !.y = c[2], !.dir = dir, !.hits = @ + 1] ELSE b

(* The loop over the directions never moves on from the first that is      *)
(* not used, whatever the random number.                                   *)
AiFindOrientation ==
  /\ MayShoot(COMPUTER) /\ ai.next = "hunt"
  /\ LET Next(i) == shipxy(<<ai.x, ai.y>>, 2 * i, 1)
         a == [ai EXCEPT !.used = [i \in 0 .. 3 |-> @[i] \/ ~Possible(Next(i))]]
         avail == {i \in 0 .. 3 : ~a.used[i]}
         d == CHOOSE i \in avail : \A j \in avail : i <= j
     IN  IF avail = {}
           THEN RandomFire(a)
           ELSE Fire(Next(d), After(a, Next(d), 2 * d,
                       [miss |-> "hunt", sunk |-> "random", hit |-> "first"]))

AiFirstPass_Again ==      \* a slip: looks on where there is nothing to shoot at
  /\ MayShoot(COMPUTER) /\ ai.next = "first"
  /\ \E c \in Reached(ai.dir, 1) :
       IF Possible(c)
         THEN Fire(c, After(ai, c, ai.dir,
                [miss |-> "reverse", sunk |-> "random", hit |-> "first"]))
         ELSE Pause(ai)

AiFirstPass ==
  /\ MayShoot(COMPUTER) /\ ai.next = "first"
  /\ \E c \in Reached(ai.dir, 1) :
       IF Possible(c)
         THEN Fire(c, After(ai, c, ai.dir,
                [miss |-> "reverse", sunk |-> "random", hit |-> "first"]))
         ELSE Pause([ai EXCEPT !.next = "reverse"])

AiReverseJump ==
  /\ MayShoot(COMPUTER) /\ ai.next = "reverse"
  /\ \E c \in Reached(ai.dir + 4, ai.hits) :
       IF Possible(c)
         THEN Fire(c, After(ai, c, ai.dir + 4,
                [miss |-> "random", sunk |-> "random", hit |-> "second"]))
         ELSE Pause([ai EXCEPT !.next = "random"])

AiSecondPass ==
  /\ MayShoot(COMPUTER) /\ ai.next = "second"
  /\ \E c \in Reached(ai.dir, 1) :
       IF Possible(c)
         THEN Fire(c, After(ai, c, ai.dir,
                [miss |-> "random", sunk |-> "random", hit |-> "second"]))
         ELSE Pause([ai EXCEPT !.next = "random"])

(* game.winner takes it that the turn has passed to the loser.             *)
Finish ==
  /\ state = "playing" /\ Decided
  /\ state' = "finished"
  /\ winner' = 1 - turn
  /\ UNCHANGED <<game, ships, board, shots, turn, left, ai>>

PlayAgain ==
  /\ state = "finished"
  /\ ships' = Reset(game).ships
  /\ board' = Reset(game).water
  /\ shots' = Reset(game).water
  /\ ai' = Reset(game).ai
  /\ state' = "arming"
  /\ UNCHANGED <<game, turn, left, winner>>

Next ==
  \/ ArmComputer \/ PlaceRest \/ StartPlaying
  \/ \E k \in Fleet, try \in Tries : PlaceShip(k, try[1], try[2])
  \/ CountShots
  \/ \E c \in Cells : PlayerShoots(c)
  \/ AiRandomFire \/ AiFindOrientation \/ AiFirstPass \/ AiReverseJump \/ AiSecondPass
  \/ Finish \/ PlayAgain

(* The computer plays on, and so does the player, who may stop at the end. *)
Spec == Init /\ [][Next]_vars /\ WF_vars(Next)
-----------------------------------------------------------------------------
TypeOK ==
  /\ game \in Games
  /\ ships \in [Players -> [Fleet ->
       [x : 0 .. game.w - 1, y : 0 .. game.d - 1, dir : {0, 2, 4, 6},
        hits : 0 .. game.w + game.d, placed : BOOLEAN]]]
  /\ board \in [Players -> [Cells -> {0} \cup Fleet]]
  /\ shots \in [Players -> [Cells -> {EMPTY, MARK_MISS, MARK_HIT} \cup Fleet]]
  /\ state \in {"arming", "placing", "placed", "playing", "finished"}
  /\ turn \in Players /\ left \in 0 .. Len(game.lengths) /\ winner \in {-1} \cup Players
  /\ ai \in [next : {"random", "hunt", "first", "reverse", "second"}, step : 1 .. 3, off : 0 .. 2,
              counted : BOOLEAN, hit : {"miss", "hit", "sunk"}, used : [0 .. 3 -> BOOLEAN],
              x : 0 .. game.w - 1, y : 0 .. game.d - 1, dir : {0, 2, 4, 6, 8, 10},
              hits : 0 .. game.w + game.d]

(* What a player has marked is true: a miss, also one inferred around a    *)
(* sunk ship, is water, a hit is a ship, a sunk ship lies where it is      *)
(* shown, and a ship has as many hits as it has marked squares.            *)
MarksAreTrue ==
  \A p \in Players :
    /\ \A c \in Cells :
         /\ shots[p][c] = MARK_MISS => board[1 - p][c] = 0
         /\ shots[p][c] = MARK_HIT => /\ board[1 - p][c] # 0
                                      /\ ~Sunk(1 - p, board[1 - p][c])
         /\ shots[p][c] > 0 => board[1 - p][c] = shots[p][c] /\ Sunk(1 - p, shots[p][c])
    /\ \A k \in Fleet :
         ships[1 - p][k].hits =
           Cardinality({c \in Cells : board[1 - p][c] = k /\ shots[p][c] # EMPTY})

(* The winner is the one who has sunk all of the other's ships and has not *)
(* lost all of its own, in all three ways to play.                         *)
WinnerSankAll ==
  state = "finished" => /\ winner \in Players
                        /\ Afloat(1 - winner) = {}
                        /\ Afloat(winner) # {}

(* A game that has begun comes to its end: the computer never searches on  *)
(* without shooting, and always finds a cell to shoot at.                  *)
GameEnds == state = "playing" ~> state = "finished"
=============================================================================
