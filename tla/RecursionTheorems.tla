------------------------- MODULE RecursionTheorems --------------------------
(***************************************************************************)
(* Induction and recursion over numbers, with sets and functions in the    *)
(* place of operators: what the proofs about FileEnd, about sequences put  *)
(* together and about the headers of C units rest on.                      *)
(***************************************************************************)

EXTENDS Integers, NaturalsInduction, WellFoundedInduction, TLAPS

(* A set of numbers with 0 and the successor of each has them all.         *)
LEMMA SetInduction ==
  ASSUME NEW S, 0 \in S, \A n \in Nat : n \in S => n + 1 \in S
  PROVE  Nat \subseteq S
<1> DEFINE R == OpToRel(<, Nat)
           Bad == Nat \ S
<1>1. IsWellFoundedOn(R, Nat)
  BY NatLessThanWellFounded
<1>2. \A x, y \in Nat : y < x => <<y, x>> \in R
  BY DEF OpToRel
<1> SUFFICES ASSUME Bad # {}
             PROVE  FALSE
  OBVIOUS
<1>3. Bad \subseteq Nat
  OBVIOUS
<1> HIDE DEF R, Bad
<1>4. PICK x \in Bad : \A y \in Bad : ~ (<<y, x>> \in R)
  BY <1>1, <1>3, WFMin
<1>5. x \in Nat /\ x \notin S /\ x # 0
  BY <1>4 DEF Bad
<1>6. x - 1 \in Nat /\ x - 1 < x /\ (x - 1) + 1 = x
  BY <1>5
<1>7. x - 1 \in Bad
  BY <1>5, <1>6 DEF Bad
<1> QED
  BY <1>2, <1>4, <1>5, <1>6, <1>7

(* The functions that are given by a value at 0 and a step to each n.      *)
Steps(N, T) == [1 .. N -> [T -> T]]
Recursions(N, T, base, step) ==
  {g \in [0 .. N -> T] : g[0] = base /\ \A n \in 1 .. N : g[n] = step[n][g[n - 1]]}

LEMMA Recursion ==
  ASSUME NEW N \in Nat, NEW T, NEW base \in T, NEW step \in Steps(N, T)
  PROVE  Recursions(N, T, base, step) # {}
<1> DEFINE Good(m, g) == g[0] = base /\ \A n \in 1 .. m : g[n] = step[n][g[n - 1]]
           S == {m \in Nat : m <= N => \E g \in [0 .. m -> T] : Good(m, g)}
<1>0. step \in [1 .. N -> [T -> T]]
  BY DEF Steps
<1>1. 0 \in S
  <2>1. [n \in 0 .. 0 |-> base] \in [0 .. 0 -> T] /\ Good(0, [n \in 0 .. 0 |-> base])
    OBVIOUS
  <2> QED
    BY <2>1
<1>2. ASSUME NEW m \in Nat, m \in S
      PROVE  m + 1 \in S
  <2> SUFFICES ASSUME m + 1 <= N
               PROVE  \E g \in [0 .. m + 1 -> T] : Good(m + 1, g)
    OBVIOUS
  <2>1. PICK g \in [0 .. m -> T] : Good(m, g)
    BY <1>2
  <2> DEFINE h == [n \in 0 .. m + 1 |-> IF n = m + 1 THEN step[m + 1][g[m]] ELSE g[n]]
  <2>2. step[m + 1] \in [T -> T] /\ g[m] \in T
    BY <1>0, <2>1
  <2>3. \A n \in 0 .. m + 1 : n = m + 1 \/ n \in 0 .. m
    OBVIOUS
  <2>4. h \in [0 .. m + 1 -> T]
    BY <2>1, <2>2, <2>3
  <2>5. h[0] = base
    BY <2>1
  <2>6. \A n \in 1 .. m + 1 : h[n] = step[n][h[n - 1]]
    <3> SUFFICES ASSUME NEW n \in 1 .. m + 1
                 PROVE  h[n] = step[n][h[n - 1]]
      OBVIOUS
    <3>1. CASE n = m + 1
      BY <3>1
    <3>2. CASE n \in 1 .. m
      BY <2>1, <3>2
    <3> QED
      BY <2>3, <3>1, <3>2
  <2> QED
    BY <2>4, <2>5, <2>6
<1> HIDE DEF S
<1>3. N \in S
  BY <1>1, <1>2, SetInduction
<1> QED
  BY <1>3 DEF S, Recursions
=============================================================================
