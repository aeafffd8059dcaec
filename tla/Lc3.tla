--------------------------------- MODULE Lc3 ---------------------------------
(* prog/emu/lc3.c: the LC-3 machine, an instruction after another. A word  *)
(* has 16 bits; where nothing was stored the memory is 0. The terminal has *)
(* the characters in, and what was written is out, without the prompts of  *)
(* the machine itself.                                                     *)
EXTENDS Integers, Sequences, SequencesExt, Bitwise

RECURSIVE Written(_, _), WrittenPacked(_, _), RunFor(_, _)

Words == 65536
PcStart == 12288
KBSR == 65024
KBDR == 65026
EndOfFile == Words - 1          \* getchar's EOF as a word

Plus(a, b) == (a + b) % Words
Bits(w, lo, n) == (w \div 2^lo) % 2^n
Complement(w) == Words - 1 - w
SignExtend_Plain(x, count) == x        \* a slip: an offset is never negative
SignExtend(x, count) == IF Bits(x, count - 1, 1) = 1 THEN x + Words - 2^count ELSE x

At(m, a) == IF a \in DOMAIN m.mem THEN m.mem[a] ELSE 0
MemWrite(m, a, w) == [m EXCEPT !.mem = [x \in {a} |-> w] @@ @]

Getchar(m) == [m EXCEPT !.char = IF m.in = <<>> THEN EndOfFile ELSE m.in[1], !.in = IF m.in = <<>> THEN <<>> ELSE Tail(@)]
Putc(m, w) == [m EXCEPT !.out = Append(@, w % 256)]

(* mem_read: to read the keyboard's status is to look for a character.     *)
MemRead(m, a) ==
  LET c == Getchar(m)
      polled == IF m.in # <<>> THEN MemWrite(MemWrite(c, KBSR, 2^15), KBDR, c.char) ELSE MemWrite(m, KBSR, 0)
      r == IF a = KBSR THEN polled ELSE m
  IN  [r EXCEPT !.val = At(r, a)]

Positive == 1
Zero == 2
Negative == 4
UpdateFlags(m, r) ==
  [m EXCEPT !.cond = IF m.reg[r] = 0 THEN Zero ELSE IF m.reg[r] >= 2^15 THEN Negative ELSE Positive]
Sets(m, r, w) == UpdateFlags([m EXCEPT !.reg[r] = w], r)

R0(i) == Bits(i, 9, 3)
R1(i) == Bits(i, 6, 3)
Second(m, i) == IF Bits(i, 5, 1) = 1 THEN SignExtend(Bits(i, 0, 5), 5) ELSE m.reg[Bits(i, 0, 3)]
Near(m, i) == Plus(m.pc, SignExtend(Bits(i, 0, 9), 9))
Based(m, i) == Plus(m.reg[R1(i)], SignExtend(Bits(i, 0, 6), 6))
Loads(m, i, a) == LET r == MemRead(m, a) IN Sets(r, R0(i), r.val)

OpAdd(m, i) == Sets(m, R0(i), Plus(m.reg[R1(i)], Second(m, i)))
OpAnd(m, i) == Sets(m, R0(i), (m.reg[R1(i)] & Second(m, i)))
OpNot(m, i) == Sets(m, R0(i), Complement(m.reg[R1(i)]))
OpBr(m, i) == IF (R0(i) & m.cond) # 0 THEN [m EXCEPT !.pc = Near(m, i)] ELSE m
OpJmp(m, i) == [m EXCEPT !.pc = m.reg[R1(i)]]
OpJsr(m, i) ==
  [m EXCEPT !.reg[7] = m.pc,
            !.pc = IF Bits(i, 11, 1) = 1 THEN Plus(m.pc, SignExtend(Bits(i, 0, 11), 11))
                   ELSE IF R1(i) = 7 THEN m.pc ELSE m.reg[R1(i)]]
OpLd(m, i) == Loads(m, i, Near(m, i))
OpLdi(m, i) == LET r == MemRead(m, Near(m, i)) IN Loads(r, i, r.val)
OpLdr(m, i) == Loads(m, i, Based(m, i))
OpLea(m, i) == Sets(m, R0(i), Near(m, i))
OpSt(m, i) == MemWrite(m, Near(m, i), m.reg[R0(i)])
OpStr(m, i) == MemWrite(m, Based(m, i), m.reg[R0(i)])
OpSti(m, i) == LET r == MemRead(m, Near(m, i)) IN MemWrite(r, r.val, r.reg[R0(i)])

(* puts, and puts of two characters to a word, up to the word 0.           *)
Written(m, a) == IF a = Words THEN [m EXCEPT !.undef = TRUE]
                 ELSE IF At(m, a) = 0 THEN m ELSE Written(Putc(m, At(m, a)), a + 1)
WrittenPacked(m, a) ==
  LET low == Putc(m, At(m, a))
      high == At(m, a) \div 256
  IN  IF a = Words THEN [m EXCEPT !.undef = TRUE]
      ELSE IF At(m, a) = 0 THEN m
      ELSE WrittenPacked(IF high = 0 THEN low ELSE Putc(low, high), a + 1)

OpTrap(m0, i) ==
  LET m == [m0 EXCEPT !.reg[7] = m0.pc]
      c == Getchar(m)
  IN  CASE Bits(i, 0, 8) = 32 -> Sets(c, 0, c.char)                       \* GETC
        [] Bits(i, 0, 8) = 33 -> Putc(m, m.reg[0])                        \* OUT
        [] Bits(i, 0, 8) = 34 -> Written(m, m.reg[0])                     \* PUTS
        [] Bits(i, 0, 8) = 35 -> Sets(Putc(c, c.char), 0, c.char)         \* IN
        [] Bits(i, 0, 8) = 36 -> WrittenPacked(m, m.reg[0])               \* PUTSP
        [] Bits(i, 0, 8) = 37 -> [m EXCEPT !.running = FALSE]             \* HALT
        [] OTHER -> m

(* One turn of the loop of run.                                            *)
Cycle(m0) ==
  LET r == MemRead(m0, m0.pc)
      i == r.val
      m == [r EXCEPT !.pc = Plus(@, 1)]
      op == Bits(i, 12, 4)
  IN  CASE op = 0 -> OpBr(m, i)
        [] op = 1 -> OpAdd(m, i)
        [] op = 2 -> OpLd(m, i)
        [] op = 3 -> OpSt(m, i)
        [] op = 4 -> OpJsr(m, i)
        [] op = 5 -> OpAnd(m, i)
        [] op = 6 -> OpLdr(m, i)
        [] op = 7 -> OpStr(m, i)
        [] op = 9 -> OpNot(m, i)
        [] op = 10 -> OpLdi(m, i)
        [] op = 11 -> OpSti(m, i)
        [] op = 12 -> OpJmp(m, i)
        [] op = 14 -> OpLea(m, i)
        [] op = 15 -> OpTrap(m, i)
        [] op \in {8, 13} -> [m EXCEPT !.panicked = TRUE]

(* run reads the image from its origin on; the read that finds the end of  *)
(* the file leaves -257 behind the last word. With more words than there   *)
(* is room for the machine does not start.                                 *)
Load(origin, image) ==
  [a \in origin .. origin + Len(image) |-> IF a = origin + Len(image) THEN Words - 257 ELSE image[a - origin + 1]]
Boot(origin, image, in) ==
  [mem |-> Load(origin, image), reg |-> [r \in 0 .. 7 |-> 0], pc |-> PcStart, cond |-> Zero, in |-> in, out |-> <<>>,
   char |-> 0, val |-> 0, running |-> origin + Len(image) < Words, panicked |-> FALSE, undef |-> FALSE]
RunFor(m, fuel) == IF fuel = 0 \/ ~m.running \/ m.panicked \/ m.undef THEN m ELSE RunFor(Cycle(m), fuel - 1)

-----------------------------------------------------------------------------
(* Programs, assembled, and what they are to compute.                      *)

Asm(op, d, rest) == 4096 * op + 512 * d + rest
Imm(n) == 32 + (n % 32)
ADD(d, a, x) == Asm(1, d, 64 * a + x)
AND(d, a, x) == Asm(5, d, 64 * a + x)
NOT(d, a) == Asm(9, d, 64 * a + 63)
BR(nzp, off) == Asm(0, nzp, off % 512)
LD(d, off) == Asm(2, d, off % 512)
ST(d, off) == Asm(3, d, off % 512)
LDI(d, off) == Asm(10, d, off % 512)
STI(d, off) == Asm(11, d, off % 512)
LEA(d, off) == Asm(14, d, off % 512)
LDR(d, b, off) == Asm(6, d, 64 * b + (off % 64))
STR(d, b, off) == Asm(7, d, 64 * b + (off % 64))
JSR(off) == 4 * 4096 + 2048 + (off % 2048)
JSRR(b) == Asm(4, 0, 64 * b)
JMP(b) == Asm(12, 0, 64 * b)
TRAP(v) == 15 * 4096 + v
GETC == TRAP(32)
OUT == TRAP(33)
PUTS == TRAP(34)
IN_ == TRAP(35)
PUTSP == TRAP(36)
HALT == TRAP(37)

Signed(w) == IF w >= 2^15 THEN w - Words ELSE w
Ends(image, in) == RunFor(Boot(PcStart, image, in), 200)
Halted(m) == ~m.running /\ ~m.panicked /\ ~m.undef

(* a - b, by the complement, and a branch on its sign.                     *)
Difference(a, b) ==
  LET m == Ends(<<LD(0, 10), LD(1, 10), NOT(1, 1), ADD(1, 1, Imm(1)), ADD(2, 0, 1), BR(4, 3), BR(2, 1), ADD(3, 3, Imm(1)),
                  ADD(3, 3, Imm(1)), ADD(3, 3, Imm(1)), HALT, a, b>>, <<>>)
      d == (a - b) % Words
  IN  Halted(m) /\ m.reg[2] = d /\ m.reg[3] = IF Signed(d) < 0 THEN 1 ELSE IF d = 0 THEN 2 ELSE 3

(* (a or b) + (a and b) is a + b.                                          *)
Disjunction(a, b) ==
  LET m == Ends(<<LD(0, 8), LD(1, 8), AND(2, 0, 1), NOT(0, 0), NOT(1, 1), AND(0, 0, 1), NOT(0, 0), ADD(0, 0, 2), HALT,
                  a, b>>, <<>>)
  IN  Halted(m) /\ m.reg[0] = (a + b) % Words

(* a * n, by n additions: branches backwards.                              *)
Product(a, n) ==
  LET m == Ends(<<LD(0, 6), LD(1, 6), BR(2, 3), ADD(2, 2, 0), ADD(1, 1, Imm(-1)), BR(1, -3), HALT, a, n>>, <<>>)
  IN  Halted(m) /\ m.reg[2] = (a * n) % Words

(* A routine that doubles twice by calling another and keeps its way back  *)
(* in memory: it is called by its place and through a register.            *)
Calls(a) ==
  LET m == Ends(<<LD(0, 15), JSR(4), LEA(2, 3), JSRR(2), ST(0, 12), HALT,
                  ST(7, 8), JSR(4), JSR(3), OUT, LD(7, 4), JMP(7),
                  ADD(0, 0, 0), ADD(4, 4, Imm(1)), JMP(7), 0, a, 0>>, <<>>)
  IN  /\ Halted(m) /\ m.reg[4] = 4
      /\ At(m, PcStart + 17) = (16 * a) % Words
      /\ m.out = <<(4 * a) % 256, (16 * a) % 256>>

(* A word is carried by a register and an offset, and through pointers.    *)
Pointers(a, off) ==
  LET m == Ends(<<LD(1, 6), LD(2, 6), LDR(0, 1, off), STR(0, 2, off), LDI(3, 4), STI(3, 4), HALT,
                  (PcStart + 11 - off) % Words, (PcStart + 12 - off) % Words, PcStart + 11, PcStart + 13, a, 0, 0>>, <<>>)
  IN  Halted(m) /\ At(m, PcStart + 12) = a /\ At(m, PcStart + 13) = a

(* What is typed is polled for, and echoed; it is read, stored and written *)
(* as a string.                                                            *)
Echo(in) ==
  LET m == Ends(<<LD(3, 8), BR(2, 6), LDI(1, 7), BR(3, -2), LDI(0, 6), OUT, ADD(3, 3, Imm(-1)), BR(1, -6), HALT,
                  Len(in), KBSR, KBDR>>, in)
  IN  Halted(m) /\ m.out = in
Store(c1, c2, c3) ==
  LET m == Ends(<<LEA(1, 10), GETC, STR(0, 1, 0), ADD(1, 1, Imm(1)), GETC, STR(0, 1, 0), IN_, STR(0, 1, 1), LEA(0, 2), PUTS,
                  HALT, 0, 0, 0, 0>>, <<c1, c2, c3>>)
  IN  Halted(m) /\ m.out = <<c3>> \o <<c1, c2, c3>>
Packed(chars) ==
  LET Char(k) == IF k <= Len(chars) THEN chars[k] ELSE 0
      m == Ends(<<LEA(0, 2), PUTSP, HALT>> \o [k \in 1 .. (Len(chars) + 1) \div 2 |-> Char(2 * k - 1) + 256 * Char(2 * k)] \o <<0>>, <<>>)
  IN  Halted(m) /\ m.out = chars

(* What is asked of a program is true of what it leaves behind.            *)
Computes(x) ==
  CASE x[1] = "words" -> \A b \in x[3] : Difference(x[2], b) /\ Disjunction(x[2], b)
    [] x[1] = "multiples" -> \A n \in x[3] : Product(x[2], n)
    [] x[1] = "calls" -> Calls(x[2])
    [] x[1] = "pointers" -> \A off \in -32 .. 31 : Pointers(x[2], off)
    [] x[1] = "terminal" -> Echo(x[2]) /\ Packed(x[2]) /\ (Len(x[2]) = 3 => Store(x[2][1], x[2][2], x[2][3]))
=============================================================================
