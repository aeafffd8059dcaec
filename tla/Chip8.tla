-------------------------------- MODULE Chip8 --------------------------------
(* prog/emu/chip8.c and chip8instr.c: the CHIP-8 machine, its instructions *)
(* and the listing of a program. A byte of the memory where nothing was    *)
(* stored is 0; of the video the lit pixels are kept. To read or to write  *)
(* outside an array leaves a machine of which nothing more is said: undef. *)
EXTENDS Integers, Sequences, SequencesExt, FiniteSetsExt, Bitwise

RECURSIVE RunFor(_, _), Drawn(_, _, _)

MemBegin == 512
MemEnd == 4096
Width == 64
VideoEnd == 64 * 32
VF == 15
Nibbles == 0 .. 15

Keypad == [c \in {"1", "2", "3", "q", "w", "e", "a", "s", "d"} |->
             CHOOSE k \in 1 .. 9 : <<"1", "2", "3", "q", "w", "e", "a", "s", "d">>[k] = c]
          @@ [c \in {"4", "r", "f", "z", "x", "c", "v"} |->
                CASE c = "4" -> 12 [] c = "r" -> 13 [] c = "f" -> 14 [] c = "z" -> 10 [] c = "x" -> 0 [] c = "c" -> 11 [] c = "v" -> 15]

(* The left halves of the rows of the digits; the right ones are 0.        *)
Digits == <<15, 9, 9, 9, 15,  2, 6, 2, 2, 7,  15, 1, 15, 8, 15,  15, 1, 15, 1, 15,  9, 9, 15, 1, 1,  15, 8, 15, 1, 15,
            15, 8, 15, 9, 15,  15, 1, 2, 4, 4,  15, 9, 15, 9, 15,  15, 9, 15, 1, 15,  15, 9, 15, 9, 9,  14, 9, 14, 9, 14,
            15, 8, 8, 8, 15,  14, 9, 9, 9, 14,  15, 8, 15, 8, 15,  15, 8, 15, 8, 8>>
-----------------------------------------------------------------------------
(* decode: what no case names leaves the operation as it was found.        *)
Decode(b1, b2) ==
  LET c == b1 \div 16
      last == b2 % 16
      op == CASE b1 = 0 /\ b2 = 238 -> "RET"
              [] b1 = 0 /\ b2 = 224 -> "CLS"
              [] c \in {1, 2, 3, 4, 5, 6, 7} ->
                   <<"JPnnn", "CALLnnn", "SEVxkk", "SNEVxkk", "SEVxVy", "LDVxkk", "ADDVxkk">>[c]
              [] c = 8 /\ last \in 0 .. 7 ->
                   <<"LDVxVy", "ORVxVy", "ANDVxVy", "XORVxVy", "ADDVxVy", "SUBVxVy", "SHRVx_Vy_", "SUBNVxVy">>[last + 1]
              [] c = 8 /\ last = 14 -> "SHLVx_Vy_"
              [] c \in 9 .. 13 -> <<"SNEVxVy", "LDInnn", "JPV0nnn", "RNDVxkk", "DRWVxVyn">>[c - 8]
              [] c = 14 /\ b2 = 158 -> "SKPVx"
              [] c = 14 /\ b2 = 161 -> "SKNPVx"
              [] c = 15 /\ b2 = 7 -> "LDVxDT"
              [] c = 15 /\ b2 = 10 -> "LDVxK"
              [] c = 15 /\ b2 = 21 -> "LDDTVx"
              [] c = 15 /\ b2 = 24 -> "LDSTVx"
              [] c = 15 /\ b2 = 30 -> "ADDIVx"
              [] c = 15 /\ b2 = 41 -> "LDFVx"
              [] c = 15 /\ b2 = 51 -> "LDBVx"
              [] c = 15 /\ b2 = 85 -> "LD_I_Vx"
              [] c = 15 /\ b2 = 101 -> "LDVx_I_"
              [] OTHER -> "unassigned"
      arguments == IF op \in {"RET", "CLS"} THEN 0 ELSE 1
  IN  [op |-> op, x |-> arguments * (b1 % 16), y |-> arguments * (b2 \div 16),
       nnn |-> arguments * (b2 + (b1 % 16) * 256), kk |-> arguments * b2, d4 |-> arguments * last]

(* print_instr: the arguments that the line of an instruction shows.       *)
Shown(i) ==
  CASE i.op \in {"JPnnn", "CALLnnn", "LDInnn"} -> <<i.nnn>>
    [] i.op \in {"SEVxkk", "SNEVxkk", "LDVxkk", "ADDVxkk", "RNDVxkk"} -> <<i.x, i.kk>>
    [] i.op \in {"SEVxVy", "SNEVxVy", "LDVxVy", "ORVxVy", "ANDVxVy", "XORVxVy", "ADDVxVy", "SUBVxVy"} -> <<i.x, i.y>>
    [] i.op = "JPV0nnn" -> <<i.x, i.nnn>>
    [] i.op = "DRWVxVyn" -> <<i.x, i.y, i.d4>>
    [] i.op \in {"SKPVx", "SKNPVx", "LDVxDT", "LDDTVx", "LDVxK", "LDSTVx", "ADDIVx", "LDFVx", "LDBVx", "LD_I_Vx", "LDVx_I_"} -> <<i.x>>
    [] OTHER -> <<>>

(* disas: a line for every two bytes, marked where a call goes.            *)
Listing(bytes) ==
  LET n == Len(bytes) \div 2
      image == [k \in 1 .. n |-> Decode(bytes[2 * k - 1], bytes[2 * k])]
      targets == [k \in 1 .. Len(SelectSeq(image, LAMBDA i : i.op = "CALLnnn")) |-> SelectSeq(image, LAMBDA i : i.op = "CALLnnn")[k].nnn]
      pos(k) == MemBegin + 2 * (k - 1)
  IN  [status |-> Len(bytes) % 2,
       undef |-> n > 4000 \/ Len(targets) > 100,
       lines |-> IF Len(bytes) % 2 = 1 THEN <<>>
                 ELSE [k \in 1 .. n |-> [at |-> pos(k), op |-> image[k].op, args |-> Shown(image[k]),
                                         proc |-> pos(k + 1) \in ToSet(targets)]]]
-----------------------------------------------------------------------------
Byte(n) == n % 256
Undefined(m) == [m EXCEPT !.undef = TRUE]
At(m, a) == IF a \in DOMAIN m.mem THEN m.mem[a] ELSE 0
Sets(m, r, b) == [m EXCEPT !.v[r] = Byte(b)]
Skips(m, condition) == IF condition THEN [m EXCEPT !.pc = @ + 2] ELSE m
StoreAt(m, a, bytes) ==
  IF a + Len(bytes) > MemEnd THEN Undefined(m)
  ELSE [m EXCEPT !.mem = [k \in a .. a + Len(bytes) - 1 |-> bytes[k - a + 1]] @@ @]

(* xor_pixel and xor_sprite: the pixels of a row follow those of the row   *)
(* before, so that what is right of the screen is at the left of the next. *)
Lit(x, y, sprite) == {y * Width + x + k : k \in {k \in 0 .. 7 : (sprite \div 2^(7 - k)) % 2 = 1}}
XorSprite_Union(m, x, y, sprite) ==                       \* a slip: what is lit stays lit
  [m EXCEPT !.video = @ \cup Lit(x, y, sprite), !.collision = @ \/ Lit(x, y, sprite) \cap m.video # {}]
XorSprite(m, x, y, sprite) ==
  IF y * Width + x + 7 >= VideoEnd THEN Undefined(m)
  ELSE [m EXCEPT !.video = SymDiff(@, Lit(x, y, sprite)), !.collision = @ \/ Lit(x, y, sprite) \cap m.video # {}]

(* The rows k, k + 1, ... of the sprite at I.                              *)
Drawn(m, i, k) ==
  IF k = i.d4 THEN m
  ELSE IF m.i + k >= MemEnd THEN Undefined(m)
  ELSE Drawn(XorSprite(m, m.v[i.x], m.v[i.y] + k, At(m, m.i + k)), i, k + 1)

Calls(m, i) ==
  IF m.sp >= 16 THEN Undefined(m)
  ELSE [m EXCEPT !.stack[m.sp] = m.pc, !.sp = @ + 1, !.pc = i.nnn]
Returns_KeepsTop(m) == [m EXCEPT !.pc = m.stack[m.sp]]       \* a slip
Returns(m) ==
  IF m.sp = 0 THEN Undefined(m)
  ELSE [m EXCEPT !.sp = @ - 1, !.pc = m.stack[m.sp - 1], !.stack[m.sp - 1] = 0]

(* The flag is set first or last: where it is also an operand, that shows. *)
AddsWithCarry(m, i) ==
  Sets(Sets(m, i.x, m.v[i.x] + m.v[i.y]), VF, IF m.v[i.x] + m.v[i.y] > 255 THEN 1 ELSE 0)
Subtracts(m, i) ==
  LET borrow == m.v[i.x] < m.v[i.y]
      f == Sets(m, VF, IF borrow THEN 1 ELSE 0)
  IN  Sets(f, i.x, (IF borrow THEN 255 ELSE 0) + f.v[i.x] - f.v[i.y])
SubtractsFrom(m, i) ==
  LET borrow == m.v[i.y] < m.v[i.x]
  IN  Sets(Sets(m, i.x, (IF borrow THEN 255 ELSE 0) + m.v[i.y] - m.v[i.x]), VF, IF borrow THEN 0 ELSE 1)
ShiftsRight(m, i) ==
  LET f == Sets(m, VF, m.v[i.x] % 2) IN Sets(f, i.x, f.v[i.x] \div 2)
ShiftsLeft(m, i) == Sets(Sets(m, VF, m.v[i.x] \div 128), i.x, 2 * m.v[i.x])

Pressed(m, i) == m.v[i.x] \in m.keys

(* step.                                                                   *)
Step(m, i) ==
  LET vx == m.v[i.x]
      vy == m.v[i.y]
  IN  CASE i.op = "CLS" -> [m EXCEPT !.video = {}]
        [] i.op = "LDFVx" -> IF vx > 15 THEN [m EXCEPT !.panicked = TRUE] ELSE [m EXCEPT !.i = vx * 5]
        [] i.op = "LDBVx" -> StoreAt(m, m.i, <<vx \div 100, (vx \div 10) % 10, vx % 10>>)
        [] i.op = "DRWVxVyn" -> LET d == Drawn([m EXCEPT !.collision = FALSE], i, 0) IN Sets(d, VF, IF d.collision THEN 1 ELSE 0)
        [] i.op = "LDVxK" -> [m EXCEPT !.panicked = TRUE]
        [] i.op = "JPnnn" -> [m EXCEPT !.pc = i.nnn]
        [] i.op = "JPV0nnn" -> [m EXCEPT !.pc = m.v[0] + i.nnn]
        [] i.op = "CALLnnn" -> Calls(m, i)
        [] i.op = "RET" -> Returns(m)
        [] i.op = "SEVxkk" -> Skips(m, vx = i.kk)
        [] i.op = "SNEVxkk" -> Skips(m, vx # i.kk)
        [] i.op = "SEVxVy" -> Skips(m, vx = vy)
        [] i.op = "SNEVxVy" -> Skips(m, vx # vy)
        [] i.op = "SKPVx" -> IF vx > 15 THEN Undefined(m) ELSE [Skips(m, Pressed(m, i)) EXCEPT !.keys = {}]
        [] i.op = "SKNPVx" -> IF vx > 15 THEN Undefined(m) ELSE Skips(m, ~Pressed(m, i))
        [] i.op = "LDVxkk" -> Sets(m, i.x, i.kk)
        [] i.op = "ADDVxkk" -> Sets(m, i.x, vx + i.kk)
        [] i.op = "LDVxVy" -> Sets(m, i.x, vy)
        [] i.op = "LDInnn" -> [m EXCEPT !.i = i.nnn]
        [] i.op = "ADDIVx" -> [m EXCEPT !.i = (@ + vx) % 65536]
        [] i.op = "LD_I_Vx" -> StoreAt(m, m.i, [k \in 1 .. i.x + 1 |-> m.v[k - 1]])
        [] i.op = "LDVx_I_" ->
             IF m.i + i.x >= MemEnd THEN Undefined(m)
             ELSE [m EXCEPT !.v = [r \in Nibbles |-> IF r <= i.x THEN At(m, m.i + r) ELSE @[r]]]
        [] i.op = "LDSTVx" -> [m EXCEPT !.st = vx]
        [] i.op = "LDVxDT" -> Sets(m, i.x, m.dt)
        [] i.op = "LDDTVx" -> [m EXCEPT !.dt = vx]
        [] i.op = "ORVxVy" -> Sets(m, i.x, (vx | vy))
        [] i.op = "ANDVxVy" -> Sets(m, i.x, (vx & vy))
        [] i.op = "XORVxVy" -> Sets(m, i.x, (vx ^^ vy))
        [] i.op = "ADDVxVy" -> AddsWithCarry(m, i)
        [] i.op = "SUBVxVy" -> Subtracts(m, i)
        [] i.op = "SUBNVxVy" -> SubtractsFrom(m, i)
        [] i.op = "SHRVx_Vy_" -> ShiftsRight(m, i)
        [] i.op = "SHLVx_Vy_" -> ShiftsLeft(m, i)
        [] i.op = "RNDVxkk" -> Sets(m, i.x, (m.dice & i.kk))
        [] i.op = "unassigned" -> Undefined(m)

(* draw: a screen that has as many pixels as the last one is not shown.    *)
Draws(m) == IF Cardinality(m.video) = m.sum THEN m ELSE [m EXCEPT !.sum = Cardinality(m.video), !.screen = m.video]

(* pollkeyboard: one character is read in a turn that has an instruction.  *)
Polls(m) ==
  IF m.in = <<>> THEN m
  ELSE [m EXCEPT !.in = Tail(@), !.keys = @ \cup (IF m.in[1] \in DOMAIN Keypad THEN {Keypad[m.in[1]]} ELSE {})]

(* A turn of the loop of run: while a timer runs it is all that goes on.   *)
Ticks(m) == [m EXCEPT !.dt = IF @ > 0 THEN @ - 1 ELSE 0, !.st = IF @ > 0 THEN @ - 1 ELSE 0, !.buzzes = @ + (IF m.st > 0 THEN 1 ELSE 0)]
Turn(m) ==
  IF m.dt > 0 \/ m.st > 0 THEN Ticks(m)
  ELSE IF m.pc + 1 >= MemEnd THEN Undefined(m)
  ELSE LET k == Polls(m)
           i == Decode(At(k, k.pc), At(k, k.pc + 1))
       IN  Draws(Step([k EXCEPT !.pc = @ + 2], i))

(* loadrom does not ask whether there is room.                             *)
Boot(rom, in, dice) ==
  [mem |-> [a \in 0 .. 79 |-> 16 * Digits[a + 1]] @@ [a \in MemBegin .. MemBegin + Len(rom) - 1 |-> rom[a - MemBegin + 1]],
   v |-> [r \in Nibbles |-> 0], pc |-> MemBegin, i |-> 0, stack |-> [k \in Nibbles |-> 0], sp |-> 0, dt |-> 0, st |-> 0,
   video |-> {}, screen |-> {}, sum |-> -1, keys |-> {}, in |-> in, dice |-> dice, collision |-> FALSE, buzzes |-> 0,
   panicked |-> FALSE, undef |-> Len(rom) > MemEnd - MemBegin, turns |-> 0]
(* A program is left to itself until it jumps to where it is.              *)
Idle(m) == m.dt = 0 /\ m.st = 0 /\ At(m, m.pc) = 16 + m.pc \div 256 /\ At(m, m.pc + 1) = m.pc % 256
RunFor(m, fuel) ==
  IF fuel = 0 \/ m.panicked \/ m.undef \/ Idle(m) THEN m ELSE RunFor([Turn(m) EXCEPT !.turns = @ + 1], fuel - 1)
-----------------------------------------------------------------------------
(* Programs, assembled, and what they are to compute.                      *)

K(c, x, kk) == <<16 * c + x, kk>>
XY(c, x, y, n) == <<16 * c + x, 16 * y + n>>
N(c, nnn) == <<16 * c + nnn \div 256, nnn % 256>>
LD(x, kk) == K(6, x, kk)
INC(x, kk) == K(7, x, kk)
MOV(x, y) == XY(8, x, y, 0)
OR_(x, y) == XY(8, x, y, 1)
AND_(x, y) == XY(8, x, y, 2)
XOR_(x, y) == XY(8, x, y, 3)
ADD(x, y) == XY(8, x, y, 4)
SUB(x, y) == XY(8, x, y, 5)
SHR(x) == XY(8, x, 0, 6)
SUBN(x, y) == XY(8, x, y, 7)
SHL(x) == XY(8, x, 0, 14)
SE(x, kk) == K(3, x, kk)
SNE(x, kk) == K(4, x, kk)
SEXY(x, y) == XY(5, x, y, 0)
SNEXY(x, y) == XY(9, x, y, 0)
Label(k) == MemBegin + 2 * (k - 1)       \* the place of the k-th instruction
JP(k) == N(1, Label(k))
CALL(k) == N(2, Label(k))
RET == <<0, 238>>
CLS == <<0, 224>>
LDI(a) == N(10, a)
DRW(x, y, n) == XY(13, x, y, n)
F(x, b) == K(15, x, b)
Buffer == 3000

(* The program, then a jump to itself, then a sprite.                      *)
EndsBy(turns, code, tail, in) ==
  RunFor(Boot(FlattenSeq(code) \o N(1, Label(Len(code) + 1)) \o tail, in, 165), turns)
Ends(code, tail, in) == EndsBy(160, code, tail, in)
Flag(c) == IF c THEN 1 ELSE 0
Right(m) == ~m.undef /\ ~m.panicked /\ Idle(m)

(* A sum of two numbers of two bytes, a sum by halves, and a difference by *)
(* SUB and by SUBN.  Excepted is what is against "Vx -= Vy, VF = not       *)
(* borrow" (chip8.c:377): the flag of SUB, which is that of a borrow, and  *)
(* the difference of either when it Borrows, which is one too small (255 + *)
(* for 256 + in lines 381 and 401).                                        *)
Sums(a, b) ==
  LET m == Ends(<<LD(0, a \div 256), LD(1, a % 256), LD(2, b \div 256), LD(3, b % 256), MOV(4, 0), MOV(5, 0), OR_(4, 2), AND_(5, 2),
                  ADD(4, 5), ADD(1, 3), MOV(6, VF), ADD(0, 2), ADD(0, 6)>>, <<>>, <<>>)
  IN  Right(m) /\ 256 * m.v[0] + m.v[1] = (a + b) % 65536 /\ m.v[4] = (a \div 256 + b \div 256) % 256
Borrows(a, b) == a < b
Differences(a, b) ==
  LET m == Ends(<<LD(0, a), LD(1, b), MOV(2, 0), SUB(2, 1), MOV(4, 1), SUBN(4, 0), MOV(5, VF)>>, <<>>, <<>>)
  IN  /\ Right(m) /\ m.v[5] = Flag(~Borrows(a, b))
      /\ ~Borrows(a, b) => m.v[2] = a - b /\ m.v[4] = a - b

(* A product by shifts, and a swap without a third register.               *)
Product(a, b) ==
  LET m == Ends(<<LD(0, a), LD(1, b), XOR_(0, 1), XOR_(1, 0), XOR_(0, 1), MOV(3, 0), MOV(4, 1),
                  SNE(1, 0), JP(15), SHR(1), SE(VF, 0), ADD(2, 0), SHL(0), JP(8)>>, <<>>, <<>>)
  IN  Right(m) /\ m.v[2] = (a * b) % 256 /\ m.v[3] = b /\ m.v[4] = a

(* A routine that calls itself until it is n deep: each call returns, once.*)
Depth(n) ==
  LET m == Ends(<<LD(0, n), CALL(4), JP(9), INC(1, 1), SEXY(1, 0), CALL(4), INC(2, 1), RET>>, <<>>, <<>>)
  IN  IF n > 16 THEN m.undef ELSE Right(m) /\ m.v[1] = n /\ m.v[2] = n /\ m.sp = 0

(* What is dumped is loaded again, and nothing else.                       *)
Dumped(x, b) ==
  LET Fill == [r \in 1 .. 16 |-> LD(r - 1, (b + 17 * r) % 256)]
      Clear == [r \in 1 .. 16 |-> LD(r - 1, r)]
      m == Ends(Fill \o <<LDI(Buffer - 240), F(14, 30), F(x, 85)>> \o Clear \o <<F(x, 101)>>, <<>>, <<>>)
  IN  Right(m) /\ \A r \in Nibbles : m.v[r] = IF r <= x THEN (b + 17 * (r + 1)) % 256 ELSE r + 1

(* A sprite is drawn, drawn over, taken away and moved, as games do: what  *)
(* is left is the sprite where it went, and that is what the screen shows. *)
Dots(x, y, rows) ==
  {d \in (x .. x + 7) \X (y .. y + Len(rows) - 1) : (rows[d[2] - y + 1] \div 2^(7 - (d[1] - x))) % 2 = 1}
OnScreen(pixels) == {<<p % Width, p \div Width>> : p \in pixels}
Sprite(x, y, rows) ==
  LET d == DRW(0, 1, Len(rows))
      m == Ends(<<LD(0, x), LD(1, y), LDI(Label(19)), CLS, d, MOV(2, VF), INC(0, 1), d, MOV(3, VF), d, MOV(4, VF),
                  INC(0, 255), d, MOV(5, VF), INC(0, 1), d, MOV(6, VF)>>, rows, <<>>)
      old == Dots(x, y, rows)
      new == Dots(x + 1, y, rows)
  IN  /\ Right(m) /\ OnScreen(m.video) = new /\ m.screen = m.video
      /\ m.v[2] = 0 /\ m.v[3] = Flag(old \cap new # {}) /\ m.v[4] = Flag(new \ old # {})
      /\ m.v[5] = Flag(old # {}) /\ m.v[6] = 0

(* A number is shown in decimal.                                           *)
Decimal(n) ==
  LET m == Ends(<<LD(0, n), LDI(Buffer), F(0, 51), F(2, 101), LD(4, 1), F(0, 41), DRW(4, 5, 5), LD(4, 9), F(1, 41), DRW(4, 5, 5),
                  LD(4, 17), F(2, 41), DRW(4, 5, 5)>>, <<>>, <<>>)
      Glyph(k, x) == Dots(x, 0, [r \in 1 .. 5 |-> 16 * Digits[5 * k + r]])
  IN  /\ Right(m) /\ 100 * m.v[0] + 10 * m.v[1] + m.v[2] = n
      /\ OnScreen(m.screen) = Glyph(m.v[0], 1) \cup Glyph(m.v[1], 9) \cup Glyph(m.v[2], 17)
Legible == Cardinality({SubSeq(Digits, 5 * k + 1, 5 * k + 5) : k \in Nibbles}) = 16

(* A table of jumps, and both timers: the program stands still as long.    *)
Timers(n) ==
  LET m == Ends(<<LD(0, 2 * (n % 4)), N(11, Label(3)), INC(1, 1), INC(1, 1), INC(1, 1), LD(2, n), F(2, 21), F(2, 24), F(3, 7),
                  K(12, 4, 15)>>, <<>>, <<>>)
  IN  Right(m) /\ m.v[1] = 3 - (n % 4) /\ m.v[3] = 0 /\ m.v[4] = 5 /\ m.buzzes = n /\ m.turns = 7 + 2 * n + m.v[1]

(* Who waits for a key goes on when it is pressed, and no sooner; who      *)
(* waits for one and then for another has them in that order.              *)
Keys(k1, k2, n, in) ==
  LET Typed(k) == {j \in DOMAIN in : in[j] \in DOMAIN Keypad /\ Keypad[in[j]] = k}
      one == EndsBy(30, <<LD(0, k1), LD(2, n), F(2, 21), K(14, 0, 158), JP(4)>>, <<>>, in)
      none == EndsBy(30, <<LD(0, k1), K(14, 0, 161), JP(5), JP(2)>>, <<>>, in)
      two == EndsBy(30, <<LD(0, k1), LD(1, k2), LD(2, n), F(2, 24), K(14, 0, 158), JP(5), K(14, 1, 158), JP(7)>>, <<>>, in)
  IN  /\ ~one.undef /\ (Idle(one) <=> Typed(k1) # {})
      /\ ~none.undef /\ (Idle(none) <=> Typed(k1) # {})
      /\ ~two.undef /\ (Idle(two) => \E i \in Typed(k1), j \in Typed(k2) : i < j)

(* What is listed, assembled again, is the program.                        *)
Assembled(op, a) ==
  LET Nr(ops) == CHOOSE k \in DOMAIN ops : ops[k] = op
      addresses == <<"JPnnn", "CALLnnn", "LDInnn">>
      bytes == <<"SEVxkk", "SNEVxkk", "LDVxkk", "ADDVxkk", "RNDVxkk">>
      pairs == <<"LDVxVy", "ORVxVy", "ANDVxVy", "XORVxVy", "ADDVxVy", "SUBVxVy">>
      ones == <<"LDVxDT", "LDVxK", "LDDTVx", "LDSTVx", "ADDIVx", "LDFVx", "LDBVx", "LD_I_Vx", "LDVx_I_">>
  IN  CASE op = "RET" -> RET
        [] op = "CLS" -> CLS
        [] op \in ToSet(addresses) -> N(<<1, 2, 10>>[Nr(addresses)], a[1])
        [] op \in ToSet(bytes) -> K(<<3, 4, 6, 7, 12>>[Nr(bytes)], a[1], a[2])
        [] op \in ToSet(pairs) -> XY(8, a[1], a[2], Nr(pairs) - 1)
        [] op \in ToSet(ones) -> F(a[1], <<7, 10, 21, 24, 30, 41, 51, 85, 101>>[Nr(ones)])
        [] op = "SEVxVy" -> SEXY(a[1], a[2])
        [] op = "SNEVxVy" -> SNEXY(a[1], a[2])
        [] op = "JPV0nnn" -> N(11, a[2])
        [] op = "DRWVxVyn" -> DRW(a[1], a[2], a[3])
        [] op = "SKPVx" -> K(14, a[1], 158)
        [] op = "SKNPVx" -> K(14, a[1], 161)
Unshown == {"SHRVx_Vy_", "SHLVx_Vy_", "SUBNVxVy", "unassigned"}
Lists(bytes) ==
  LET l == Listing(bytes)
  IN  /\ ~l.undef /\ Len(l.lines) = IF Len(bytes) % 2 = 1 THEN 0 ELSE Len(bytes) \div 2
      /\ \A k \in DOMAIN l.lines :
           LET b == Assembled(l.lines[k].op, l.lines[k].args)
               i == Decode(bytes[2 * k - 1], bytes[2 * k])
           IN  /\ l.lines[k].op \in Unshown \/ (Decode(b[1], b[2]).op = i.op /\ Shown(Decode(b[1], b[2])) = Shown(i))
               /\ l.lines[k].at = Label(k)
               /\ l.lines[k].proc <=> \E c \in DOMAIN l.lines : l.lines[c].op = "CALLnnn" /\ l.lines[c].args = <<Label(k) + 2>>

Computes(x) ==
  CASE x[1] = "words" -> \A b \in x[3] : Sums(x[2], b)
    [] x[1] = "bytes" -> \A b \in x[3] : Differences(x[2], b) /\ Product(x[2], b)
    [] x[1] = "depth" -> Depth(x[2]) /\ Timers(x[2]) /\ Legible
    [] x[1] = "dump" -> \A r \in Nibbles : Dumped(r, x[2])
    [] x[1] = "numbers" -> Decimal(x[2])
    [] x[1] = "sprite" -> \A x0 \in {0, 31, 55} : \A y \in {0, 15, 32 - Len(x[2])} : Sprite(x0, y, x[2])
    [] x[1] = "keys" -> \A k1, k2 \in {0, 1} : \A n \in {0, 2} : Keys(k1, k2, n, x[2])
    [] x[1] = "code" -> \A b2 \in 0 .. 255 : Lists(<<34, 2, x[2], b2, x[2], b2, 34, 4>>) /\ Lists(<<x[2], b2, 34>>)
=============================================================================
