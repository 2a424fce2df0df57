------------------------------ MODULE Recursion ------------------------------
(***************************************************************************)
(* Induction over the natural numbers, and the functions that are defined  *)
(* by recursion over the positions of a sequence.  The induction theorems  *)
(* of the library take the predicate as a parameter, which the provers     *)
(* here cannot instantiate; a set of numbers serves instead, and that the  *)
(* order of the numbers is well founded is the library's.                  *)
(***************************************************************************)
EXTENDS Integers, Sequences, WellFoundedInduction, TLAPS

Less == {p \in Nat \X Nat : p[1] < p[2]}

LEMMA LessWellFounded == IsWellFoundedOn(Less, Nat)
  <1>1. IsWellFoundedOn(OpToRel(<, Nat), Nat)
    BY NatLessThanWellFounded
  <1>2. OpToRel(<, Nat) = Less
    BY DEF OpToRel, Less
  <1> QED
    BY <1>1, <1>2

(* A set of natural numbers has a least element. *)
LEMMA LeastNat ==
    ASSUME NEW T \in SUBSET Nat, T # {}
    PROVE  \E x \in T : \A y \in T : x <= y
  <1>1. PICK x \in T : \A y \in T : <<y, x>> \notin Less
    BY LessWellFounded, WFMin
  <1>2. ASSUME NEW y \in T
        PROVE  x <= y
    <2>1. <<y, x>> \notin Less
      BY <1>1
    <2>2. x \in Nat /\ y \in Nat
      OBVIOUS
    <2>3. y < x => <<y, x>> \in Less
      BY <2>2 DEF Less
    <2> QED
      BY <2>1, <2>2, <2>3
  <1> QED
    BY <1>2

(* Induction: the set stands for the numbers that have the property. *)
LEMMA Induct ==
    ASSUME NEW S, 0 \in S, \A n \in Nat : n \in S => n + 1 \in S
    PROVE  \A n \in Nat : n \in S
  <1> SUFFICES ASSUME Nat \ S # {}
               PROVE  FALSE
    OBVIOUS
  <1>1. PICK x \in Nat \ S : \A y \in Nat \ S : x <= y
    BY LeastNat
  <1>2. x - 1 \in Nat
    OBVIOUS
  <1>3. x - 1 \in S
    BY <1>1, <1>2
  <1> QED
    BY <1>2, <1>3

(* Induction up to a bound. *)
LEMMA InductUpTo ==
    ASSUME NEW L \in Nat, NEW S, 0 \in S,
           \A n \in 0 .. L - 1 : n \in S => n + 1 \in S
    PROVE  \A n \in 0 .. L : n \in S
  <1> DEFINE T == {n \in Nat : n <= L => n \in S}
  <1>1. 0 \in T
    OBVIOUS
  <1>2. \A n \in Nat : n \in T => n + 1 \in T
    OBVIOUS
  <1> HIDE DEF T
  <1>3. \A n \in Nat : n \in T
    BY <1>1, <1>2, Induct
  <1> QED
    BY <1>3 DEF T

(* Induction over the finite sequences. *)
LEMMA InductSeq ==
    ASSUME NEW E, NEW S, <<>> \in S,
           \A s \in Seq(E), e \in E : s \in S => Append(s, e) \in S
    PROVE  \A s \in Seq(E) : s \in S
  <1> DEFINE T == {n \in Nat : \A s \in Seq(E) : Len(s) = n => s \in S}
  <1>1. 0 \in T
    <2>1. \A s \in Seq(E) : Len(s) = 0 => s = <<>>
      OBVIOUS
    <2> QED
      BY <2>1
  <1>2. ASSUME NEW n \in Nat, n \in T
        PROVE  n + 1 \in T
    <2>1. ASSUME NEW s \in Seq(E), Len(s) = n + 1
          PROVE  s \in S
      <3> DEFINE f == SubSeq(s, 1, n)
      <3>1. f \in Seq(E) /\ Len(f) = n /\ s[n + 1] \in E
        BY <2>1
      <3>2. s = Append(f, s[n + 1])
        BY <2>1
      <3>3. f \in S
        BY <3>1, <1>2
      <3> HIDE DEF f
      <3> QED
        BY <3>1, <3>2, <3>3
    <2> QED
      BY <2>1
  <1> HIDE DEF T
  <1>3. \A n \in Nat : n \in T
    BY <1>1, <1>2, Induct
  <1>4. ASSUME NEW s \in Seq(E)
        PROVE  s \in S
    <2>1. Len(s) \in Nat
      OBVIOUS
    <2> QED
      BY <1>3, <2>1 DEF T
  <1> QED
    BY <1>4

-----------------------------------------------------------------------------
(* f starts with c, and step tells its next value from the last. *)
Unfolds(f, c, step, n) ==
    /\ f[0] = c
    /\ \A k \in 1 .. n : f[k] = step[<<k, f[k - 1]>>]

(* A recursion whose steps stay in S has a solution, with values in S. *)
LEMMA RecursionExists ==
    ASSUME NEW S, NEW c \in S, NEW L \in Nat, NEW step \in [(1 .. L) \X S -> S]
    PROVE  \E f \in [0 .. L -> S] : Unfolds(f, c, step, L)
  <1> DEFINE G == {n \in 0 .. L : \E f \in [0 .. n -> S] : Unfolds(f, c, step, n)}
  <1>1. 0 \in G
    <2>1. [k \in 0 .. 0 |-> c] \in [0 .. 0 -> S]
      OBVIOUS
    <2>2. Unfolds([k \in 0 .. 0 |-> c], c, step, 0)
      BY DEF Unfolds
    <2> QED
      BY <2>1, <2>2
  <1>2. ASSUME NEW n \in 0 .. L - 1, n \in G
        PROVE  n + 1 \in G
    <2>1. PICK f \in [0 .. n -> S] : Unfolds(f, c, step, n)
      BY <1>2
    <2> DEFINE v == step[<<n + 1, f[n]>>]
               g == [k \in 0 .. n + 1 |-> IF k <= n THEN f[k] ELSE v]
    <2>2. v \in S
      OBVIOUS
    <2>3. g \in [0 .. n + 1 -> S]
      BY <2>2
    <2>4. g[0] = c
      BY <2>1 DEF Unfolds
    <2>5. ASSUME NEW k \in 1 .. n + 1
          PROVE  g[k] = step[<<k, g[k - 1]>>]
      <3>1. CASE k = n + 1
        <4>1. g[k - 1] = f[n] /\ g[k] = v
          BY <3>1
        <4> HIDE DEF g
        <4> QED
          BY <4>1, <3>1
      <3>2. CASE k # n + 1
        <4>1. k \in 1 .. n /\ g[k] = f[k] /\ g[k - 1] = f[k - 1]
          BY <3>2
        <4> HIDE DEF g
        <4> QED
          BY <2>1, <4>1 DEF Unfolds
      <3> QED
        BY <3>1, <3>2
    <2> HIDE DEF g
    <2>6. Unfolds(g, c, step, n + 1)
      BY <2>4, <2>5 DEF Unfolds
    <2> QED
      BY <2>3, <2>6
  <1> HIDE DEF G
  <1>3. L \in G
    BY <1>1, <1>2, InductUpTo
  <1> QED
    BY <1>3 DEF G
=============================================================================
