---------------------------- MODULE Units_proofs ----------------------------
(***************************************************************************)
(* The arithmetic of units.rs for every width of a u64, every basis, every *)
(* number of decimals and every argument.  A property of Units only looks  *)
(* at the last call, so nothing about earlier ones is needed: what is left *)
(* is what each function returns, a lemma of its own, and each of those    *)
(* rests on what a quotient and a remainder are.                           *)
(*                                                                         *)
(* What format_units and parse_units make of an amount (AmountsExact) is   *)
(* by induction over its digits, with the lemmas of Recursion.             *)
(***************************************************************************)
EXTENDS Units, Recursion, TLAPS

-----------------------------------------------------------------------------
(* Quotients and remainders. *)

\* The rounded down quotient is the largest multiple not above n.
LEMMA Quotient ==
    ASSUME NEW n \in Nat, NEW d \in Nat, d > 0
    PROVE  /\ n \div d \in Nat
           /\ (n \div d) * d <= n
           /\ n < (n \div d) * d + d
  OBVIOUS

\* A remainder is what the quotient leaves.
LEMMA Remainder ==
    ASSUME NEW n \in Int, NEW d \in Int, d > 0
    PROVE  n % d = n - (n \div d) * d
  BY Z3

\* Multiplication keeps the order.
LEMMA TimesMonotone ==
    ASSUME NEW a \in Int, NEW b \in Int, NEW d \in Nat, a <= b
    PROVE  a * d <= b * d
  OBVIOUS

\* div_ceil is the least multiple not below n.
LEMMA CeilExact ==
    ASSUME NEW n \in Nat, NEW d \in Nat, d > 0
    PROVE  /\ DivCeil(n, d) \in Nat
           /\ DivCeil(n, d) * d >= n
           /\ (DivCeil(n, d) - 1) * d < n
  <1> DEFINE q == (n + d - 1) \div d
  <1>1. n + d - 1 \in Nat
    OBVIOUS
  <1>2. q \in Nat /\ q * d <= n + d - 1 /\ n + d - 1 < q * d + d
    BY <1>1, Quotient
  <1>3. (q - 1) * d = q * d - d
    BY <1>2
  <1> HIDE DEF q
  <1>4. q * d \in Int
    BY <1>2
  <1>5. q \in Nat /\ q * d >= n /\ (q - 1) * d < n
    BY <1>2, <1>3, <1>4
  <1> QED
    BY <1>5 DEF DivCeil, q

-----------------------------------------------------------------------------
(* Powers: the recursive function has a value, and it is the power. *)

PowFn(b, n) ==
    CHOOSE power : power = [k \in 0 .. n |->
                               IF k = 0 THEN 1 ELSE b * power[k - 1]]

LEMMA PowFnDef ==
    ASSUME NEW b \in Nat, NEW n \in Nat
    PROVE  /\ PowFn(b, n) \in [0 .. n -> Nat]
           /\ PowFn(b, n)[0] = 1
           /\ \A k \in 1 .. n : PowFn(b, n)[k] = b * PowFn(b, n)[k - 1]
  <1> DEFINE step == [p \in (1 .. n) \X Nat |-> b * p[2]]
             IsPow(f) == f = [k \in 0 .. n |->
                                 IF k = 0 THEN 1 ELSE b * f[k - 1]]
  <1>1. step \in [(1 .. n) \X Nat -> Nat]
    OBVIOUS
  <1>2. PICK f \in [0 .. n -> Nat] : Unfolds(f, 1, step, n)
    <2> HIDE DEF step
    <2> QED
      BY <1>1, RecursionExists
  <1>3. \A k \in 1 .. n : step[<<k, f[k - 1]>>] = b * f[k - 1]
    <2>1. \A p \in (1 .. n) \X Nat : step[p] = b * p[2]
      OBVIOUS
    <2> HIDE DEF step, IsPow
    <2> TAKE k \in 1 .. n
    <2>2. k - 1 \in 0 .. n
      OBVIOUS
    <2>3. <<k, f[k - 1]>> \in (1 .. n) \X Nat
      BY <2>2
    <2> QED
      BY <2>1, <2>3
  <1>4. IsPow(f)
    <2> HIDE DEF step
    <2>1. f[0] = 1 /\ \A k \in 1 .. n : f[k] = b * f[k - 1]
      BY <1>2, <1>3 DEF Unfolds
    <2> QED
      BY <2>1
  <1>5. IsPow(PowFn(b, n))
    <2> HIDE DEF IsPow
    <2>1. IsPow(CHOOSE g : IsPow(g))
      BY <1>4
    <2> QED
      BY <2>1 DEF IsPow, PowFn
  <1> DEFINE g == PowFn(b, n)
  <1>6. \A k \in 0 .. n : g[k] = IF k = 0 THEN 1 ELSE b * g[k - 1]
    <2> HIDE DEF g
    <2>1. g = [k \in 0 .. n |-> IF k = 0 THEN 1 ELSE b * g[k - 1]]
      BY <1>5 DEF g
    <2> QED
      BY <2>1
  <1> HIDE DEF g, IsPow
  <1>7. \A k \in 0 .. n : g[k] \in Nat
    <2> DEFINE G == {k \in 0 .. n : g[k] \in Nat}
    <2>1. 0 \in G
      BY <1>6
    <2>2. ASSUME NEW k \in 0 .. n - 1, k \in G
          PROVE  k + 1 \in G
      <3>1. g[k + 1] = b * g[k]
        BY <1>6
      <3> QED
        BY <2>2, <3>1
    <2> HIDE DEF G
    <2>3. \A k \in 0 .. n : k \in G
      BY <2>1, <2>2, InductUpTo
    <2> QED
      BY <2>3 DEF G
  <1>8. g = [k \in 0 .. n |-> g[k]]
    <2>1. g = [k \in 0 .. n |-> IF k = 0 THEN 1 ELSE b * g[k - 1]]
      BY <1>5 DEF g, IsPow
    <2> QED
      BY <2>1, <1>6
  <1>9. g \in [0 .. n -> Nat]
    BY <1>7, <1>8
  <1> QED
    BY <1>6, <1>9 DEF g

LEMMA PowNext ==
    ASSUME NEW b \in Nat, NEW n \in Nat
    PROVE  /\ Pow(b, n) \in Nat
           /\ Pow(b, 0) = 1
           /\ Pow(b, n + 1) = b * Pow(b, n)
  <1>1. \A m \in Nat : Pow(b, m) = PowFn(b, m)[m]
    BY DEF Pow, PowFn
  <1> DEFINE f == PowFn(b, n)
             g == PowFn(b, n + 1)
  <1>2. /\ f \in [0 .. n -> Nat] /\ f[0] = 1
        /\ \A k \in 1 .. n : f[k] = b * f[k - 1]
    BY PowFnDef
  <1>3. /\ g[0] = 1
        /\ \A k \in 1 .. n + 1 : g[k] = b * g[k - 1]
    BY PowFnDef
  <1>4. PowFn(b, 0)[0] = 1
    BY PowFnDef
  <1>5. Pow(b, 0) = 1 /\ Pow(b, n) = f[n] /\ Pow(b, n + 1) = g[n + 1]
    BY <1>1, <1>4
  <1> HIDE DEF f, g
  <1> DEFINE G == {k \in 0 .. n : f[k] = g[k]}
  <1>6. 0 \in G
    BY <1>2, <1>3
  <1>7. ASSUME NEW k \in 0 .. n - 1, k \in G
        PROVE  k + 1 \in G
    <2>1. k + 1 \in 1 .. n /\ k + 1 \in 1 .. n + 1 /\ (k + 1) - 1 = k
      OBVIOUS
    <2>2. f[k + 1] = b * f[k] /\ g[k + 1] = b * g[k]
      BY <1>2, <1>3, <2>1
    <2> QED
      BY <1>7, <2>1, <2>2
  <1> HIDE DEF G
  <1>8. n \in G
    BY <1>6, <1>7, InductUpTo
  <1>9. f[n] = g[n] /\ f[n] \in Nat
    BY <1>2, <1>8 DEF G
  <1>10. g[n + 1] = b * g[n]
    BY <1>3
  <1> QED
    BY <1>5, <1>9, <1>10

LEMMA PowPositive ==
    ASSUME NEW b \in Nat \ {0}, NEW n \in Nat
    PROVE  Pow(b, n) \in Nat \ {0}
  <1> DEFINE G == {k \in Nat : Pow(b, k) \in Nat \ {0}}
  <1>1. 0 \in G
    BY PowNext
  <1>2. ASSUME NEW k \in Nat, k \in G
        PROVE  k + 1 \in G
    <2>1. Pow(b, k + 1) = b * Pow(b, k)
      BY PowNext
    <2>2. ASSUME NEW p \in Nat \ {0}
          PROVE  b * p \in Nat \ {0}
      OBVIOUS
    <2> QED
      BY <1>2, <2>1, <2>2
  <1> HIDE DEF G
  <1>3. n \in G
    BY <1>1, <1>2, Induct
  <1> QED
    BY <1>3 DEF G

LEMMA PowSum ==
    ASSUME NEW b \in Nat, NEW m \in Nat, NEW n \in Nat
    PROVE  Pow(b, m + n) = Pow(b, m) * Pow(b, n)
  <1> DEFINE G == {k \in Nat : Pow(b, m + k) = Pow(b, m) * Pow(b, k)}
  <1>1. 0 \in G
    <2>1. Pow(b, m) \in Nat /\ Pow(b, 0) = 1
      BY PowNext
    <2>2. m + 0 = m
      OBVIOUS
    <2> QED
      BY <2>1, <2>2
  <1>2. ASSUME NEW k \in Nat, k \in G
        PROVE  k + 1 \in G
    <2> m + k \in Nat /\ (m + k) + 1 = m + (k + 1)
      OBVIOUS
    <2>1. /\ Pow(b, k + 1) = b * Pow(b, k)
          /\ Pow(b, (m + k) + 1) = b * Pow(b, m + k)
          /\ Pow(b, m) \in Nat /\ Pow(b, k) \in Nat
      BY PowNext
    <2>2. ASSUME NEW p \in Nat, NEW q \in Nat
          PROVE  b * (p * q) = p * (b * q)
      OBVIOUS
    <2> QED
      BY <1>2, <2>1, <2>2
  <1> HIDE DEF G
  <1>3. n \in G
    BY <1>1, <1>2, Induct
  <1> QED
    BY <1>3 DEF G

-----------------------------------------------------------------------------
(* Decimal numbers. *)

NumFn(s) ==
    CHOOSE value : value = [k \in 0 .. Len(s) |->
                               IF k = 0 THEN 0 ELSE 10 * value[k - 1] + s[k]]

LEMMA NumFnDef ==
    ASSUME NEW s \in Seq(Nat)
    PROVE  /\ Number(s) = NumFn(s)[Len(s)]
           /\ \A k \in 0 .. Len(s) : NumFn(s)[k] \in Nat
           /\ NumFn(s)[0] = 0
           /\ \A k \in 1 .. Len(s) : NumFn(s)[k] = 10 * NumFn(s)[k - 1] + s[k]
  <1> DEFINE L == Len(s)
             step == [p \in (1 .. L) \X Nat |-> 10 * p[2] + s[p[1]]]
             IsNum(f) == f = [k \in 0 .. L |->
                                 IF k = 0 THEN 0 ELSE 10 * f[k - 1] + s[k]]
  <1>1. step \in [(1 .. L) \X Nat -> Nat] /\ L \in Nat
    OBVIOUS
  <1>2. PICK f \in [0 .. L -> Nat] : Unfolds(f, 0, step, L)
    <2> HIDE DEF step, L
    <2> QED
      BY <1>1, RecursionExists
  <1>3. \A k \in 1 .. L : step[<<k, f[k - 1]>>] = 10 * f[k - 1] + s[k]
    <2>1. \A p \in (1 .. L) \X Nat : step[p] = 10 * p[2] + s[p[1]]
      OBVIOUS
    <2> HIDE DEF step, L, IsNum
    <2> TAKE k \in 1 .. L
    <2>2. k - 1 \in 0 .. L
      BY <1>1
    <2>3. <<k, f[k - 1]>> \in (1 .. L) \X Nat
      BY <2>2
    <2> QED
      BY <2>1, <2>3
  <1>4. IsNum(f)
    <2> HIDE DEF step
    <2>1. f[0] = 0 /\ \A k \in 1 .. L : f[k] = 10 * f[k - 1] + s[k]
      BY <1>2, <1>3 DEF Unfolds
    <2> QED
      BY <2>1
  <1>5. IsNum(NumFn(s))
    <2> HIDE DEF IsNum
    <2>1. IsNum(CHOOSE g : IsNum(g))
      BY <1>4
    <2> QED
      BY <2>1 DEF IsNum, NumFn
  <1> DEFINE g == NumFn(s)
  <1> HIDE DEF g
  <1>6. g = [k \in 0 .. L |-> IF k = 0 THEN 0 ELSE 10 * g[k - 1] + s[k]]
    BY <1>5 DEF g
  <1> HIDE DEF IsNum
  <1>7. g[0] = 0 /\ \A k \in 1 .. L : g[k] = 10 * g[k - 1] + s[k]
    <2> HIDE DEF L
    <2> QED
      BY <1>1, <1>6
  <1>8. \A k \in 0 .. L : g[k] \in Nat
    <2> DEFINE G == {k \in 0 .. L : g[k] \in Nat}
    <2>1. 0 \in G
      BY <1>7
    <2>2. ASSUME NEW k \in 0 .. L - 1, k \in G
          PROVE  k + 1 \in G
      <3>1. g[k + 1] = 10 * g[k] + s[k + 1] /\ s[k + 1] \in Nat
        BY <1>7
      <3> QED
        BY <2>2, <3>1
    <2> HIDE DEF G, L
    <2>3. \A k \in 0 .. L : k \in G
      BY <1>1, <2>1, <2>2, InductUpTo
    <2> QED
      BY <2>3 DEF G
  <1>9. Number(s) = g[L]
    BY DEF Number, NumFn, g
  <1> QED
    BY <1>7, <1>8, <1>9 DEF g

LEMMA NumberType ==
    ASSUME NEW s \in Seq(Nat)
    PROVE  Number(s) \in Nat
  <1>1. Len(s) \in 0 .. Len(s)
    OBVIOUS
  <1> QED
    BY <1>1, NumFnDef

\* Reading on after s: each digit of t shifts what s stands for.
LEMMA NumberConcat ==
    ASSUME NEW s \in Seq(Nat), NEW t \in Seq(Nat)
    PROVE  Number(s \o t) = Number(s) * Pow(10, Len(t)) + Number(t)
  <1> DEFINE u == s \o t
             A == NumFn(s)
             B == NumFn(t)
             C == NumFn(u)
             m == Len(s)
             n == Len(t)
  <1>1. /\ u \in Seq(Nat) /\ Len(u) = m + n /\ m \in Nat /\ n \in Nat
        /\ \A k \in 1 .. m : u[k] = s[k]
        /\ \A k \in 1 .. n : u[m + k] = t[k] /\ t[k] \in Nat
    OBVIOUS
  <1>2. /\ Number(s) = A[m] /\ A[0] = 0
        /\ \A k \in 0 .. m : A[k] \in Nat
        /\ \A k \in 1 .. m : A[k] = 10 * A[k - 1] + s[k]
    BY NumFnDef
  <1>3. /\ Number(t) = B[n] /\ B[0] = 0
        /\ \A k \in 0 .. n : B[k] \in Nat
        /\ \A k \in 1 .. n : B[k] = 10 * B[k - 1] + t[k]
    BY NumFnDef
  <1> HIDE DEF u
  <1>4. /\ Number(u) = C[m + n] /\ C[0] = 0
        /\ \A k \in 1 .. m + n : C[k] = 10 * C[k - 1] + u[k]
    BY <1>1, NumFnDef
  <1> HIDE DEF A, B, C, m, n
  <1>5. C[m] = A[m]
    <2> DEFINE G == {k \in 0 .. m : C[k] = A[k]}
    <2>1. 0 \in G
      BY <1>1, <1>2, <1>4
    <2>2. ASSUME NEW k \in 0 .. m - 1, k \in G
          PROVE  k + 1 \in G
      <3>1. k + 1 \in 1 .. m /\ k + 1 \in 1 .. m + n /\ (k + 1) - 1 = k
        BY <1>1
      <3>2. C[k + 1] = 10 * C[k] + u[k + 1] /\ A[k + 1] = 10 * A[k] + s[k + 1]
        BY <1>2, <1>4, <3>1
      <3> QED
        BY <1>1, <2>2, <3>1, <3>2
    <2> HIDE DEF G
    <2>3. \A k \in 0 .. m : k \in G
      BY <1>1, <2>1, <2>2, InductUpTo
    <2> QED
      BY <1>1, <2>3 DEF G
  <1>6. C[m + n] = A[m] * Pow(10, n) + B[n]
    <2> DEFINE G == {k \in 0 .. n : C[m + k] = A[m] * Pow(10, k) + B[k]}
    <2>1. 0 \in G
      <3>1. m + 0 = m /\ m \in 0 .. m /\ A[m] \in Nat
        BY <1>1, <1>2
      <3>2. Pow(10, 0) = 1
        BY PowNext
      <3> QED
        BY <1>1, <1>3, <1>5, <3>1, <3>2
    <2>2. ASSUME NEW k \in 0 .. n - 1, k \in G
          PROVE  k + 1 \in G
      <3>1. /\ k + 1 \in 1 .. n /\ m + (k + 1) \in 1 .. m + n
            /\ (k + 1) - 1 = k /\ (m + (k + 1)) - 1 = m + k
            /\ k \in Nat /\ m \in 0 .. m
        BY <1>1
      <3>2. /\ C[m + (k + 1)] = 10 * C[m + k] + t[k + 1]
            /\ B[k + 1] = 10 * B[k] + t[k + 1]
        BY <1>1, <1>3, <1>4, <3>1
      <3>3. Pow(10, k) \in Nat /\ Pow(10, k + 1) = 10 * Pow(10, k)
        BY <3>1, PowNext
      <3>4. A[m] \in Nat /\ B[k] \in Nat /\ t[k + 1] \in Nat
        BY <1>1, <1>2, <1>3, <3>1
      <3>5. C[m + k] = A[m] * Pow(10, k) + B[k]
        BY <2>2
      <3>6. C[m + (k + 1)] = A[m] * Pow(10, k + 1) + B[k + 1]
        <4> DEFINE a == A[m]
                   p == Pow(10, k)
                   b == B[k]
                   d == t[k + 1]
        <4>1. a \in Nat /\ p \in Nat /\ b \in Nat /\ d \in Nat
          BY <3>3, <3>4
        <4> HIDE DEF a, p, b, d
        <4>2. 10 * (a * p + b) + d = a * (10 * p) + (10 * b + d)
          BY <4>1
        <4> QED
          BY <3>2, <3>3, <3>5, <4>2, Zenon DEF a, p, b, d
      <3> QED
        BY <3>1, <3>6
    <2> HIDE DEF G
    <2>3. \A k \in 0 .. n : k \in G
      BY <1>1, <2>1, <2>2, InductUpTo
    <2> QED
      BY <1>1, <2>3 DEF G
  <1> QED
    BY <1>2, <1>3, <1>4, <1>6 DEF u, n

\* Dividing by ten digit by digit.
LEMMA QuotientTen ==
    ASSUME NEW n \in Nat, NEW p \in Nat \ {0}
    PROVE  /\ n \div p \in Nat
           /\ n \div p = 10 * (n \div (10 * p)) + ((n \div p) % 10)
  <1> DEFINE q == n \div p
             r == n \div (10 * p)
  <1>1. q \in Nat /\ q * p <= n /\ n < q * p + p
    BY Quotient
  <1>2. 10 * p \in Nat /\ 10 * p > 0
    OBVIOUS
  <1>3. r \in Nat /\ r * (10 * p) <= n /\ n < r * (10 * p) + 10 * p
    BY <1>2, Quotient
  <1> HIDE DEF q, r
  <1>4. ASSUME NEW a \in Nat, NEW b \in Nat, a * p < b * p PROVE a < b
    BY <1>4
  <1>5. 10 * r < q + 1
    <2>1. (10 * r) * p = r * (10 * p) /\ (q + 1) * p = q * p + p
      BY <1>1, <1>3
    <2>2. (10 * r) * p < (q + 1) * p
      BY <1>1, <1>3, <2>1
    <2> QED
      BY <1>1, <1>3, <1>4, <2>2
  <1>6. q < 10 * r + 10
    <2>1. (10 * r + 10) * p = r * (10 * p) + 10 * p
      BY <1>1, <1>3
    <2>2. q * p < (10 * r + 10) * p
      BY <1>1, <1>3, <2>1
    <2> QED
      BY <1>1, <1>3, <1>4, <2>2
  <1>7. q % 10 = q - 10 * r
    BY <1>1, <1>3, <1>5, <1>6
  <1>8. q = 10 * r + (q - 10 * r)
    BY <1>1, <1>3
  <1> QED
    BY <1>1, <1>7, <1>8 DEF q, r

\* The k digits of a number below 10^k stand for it.
LEMMA DigitsExact ==
    ASSUME NEW k \in Nat, NEW n \in Nat, n < Pow(10, k)
    PROVE  /\ Digits(n, k) \in Seq(0 .. 9) /\ Len(Digits(n, k)) = k
           /\ Number(Digits(n, k)) = n
  <1> DEFINE d == Digits(n, k)
             V == NumFn(d)
  <1>1. \A i \in 0 .. k : k - i \in Nat /\ Pow(10, k - i) \in Nat \ {0}
    BY PowPositive
  <1>2. \A i \in 0 .. k : n \div Pow(10, k - i) \in Nat
    BY <1>1, QuotientTen
  <1>3. d = [i \in 1 .. k |-> (n \div Pow(10, k - i)) % 10]
    BY DEF Digits
  <1>4. ASSUME NEW q \in Nat
        PROVE  q % 10 \in 0 .. 9
    OBVIOUS
  <1> HIDE DEF d
  <1>5. d \in [1 .. k -> 0 .. 9]
    <2>1. ASSUME NEW i \in 1 .. k
          PROVE  (n \div Pow(10, k - i)) % 10 \in 0 .. 9
      BY <1>2, <1>4
    <2> QED
      BY <1>3, <2>1
  <1>6. d \in Seq(0 .. 9) /\ Len(d) = k /\ d \in Seq(Nat)
    BY <1>5
  <1>7. /\ Number(d) = V[k] /\ V[0] = 0
        /\ \A i \in 1 .. k : V[i] = 10 * V[i - 1] + d[i]
    BY <1>6, NumFnDef
  <1> HIDE DEF V
  <1> DEFINE G == {i \in 0 .. k : V[i] = n \div Pow(10, k - i)}
  <1>8. 0 \in G
    <2>1. k - 0 = k /\ Pow(10, k) \in Nat \ {0}
      BY PowPositive
    <2>2. ASSUME NEW p \in Nat, n < p
          PROVE  n \div p = 0
      BY <2>2
    <2> QED
      BY <1>7, <2>1, <2>2
  <1>9. ASSUME NEW i \in 0 .. k - 1, i \in G
        PROVE  i + 1 \in G
    <2> DEFINE j == k - (i + 1)
    <2>1. /\ j \in Nat /\ k - i = j + 1
          /\ i + 1 \in 1 .. k /\ i + 1 \in 0 .. k /\ (i + 1) - 1 = i
      OBVIOUS
    <2>2. Pow(10, j + 1) = 10 * Pow(10, j)
      BY <2>1, PowNext
    <2>3. Pow(10, j) \in Nat \ {0}
      BY <1>1, <2>1
    <2>4. V[i] = n \div (10 * Pow(10, j))
      BY <1>9, <2>1, <2>2
    <2>5. d[i + 1] = (n \div Pow(10, j)) % 10
      BY <1>3, <2>1
    <2>6. V[i + 1] = 10 * V[i] + d[i + 1]
      BY <1>7, <2>1
    <2> HIDE DEF j
    <2>7. V[i + 1] = n \div Pow(10, j)
      BY <2>3, <2>4, <2>5, <2>6, QuotientTen
    <2> QED
      BY <2>1, <2>7 DEF j
  <1> HIDE DEF G
  <1>10. k \in G
    BY <1>8, <1>9, InductUpTo
  <1>11. V[k] = n \div 1
    BY <1>10, PowNext DEF G
  <1> QED
    BY <1>6, <1>7, <1>11 DEF d

-----------------------------------------------------------------------------
(* u64. *)

LEMMA Constants ==
    /\ BPS \in Nat /\ BPS > 0 /\ BPS <= U64Max
    /\ RaoPerTao \in Nat /\ RaoPerTao > 0
    /\ MinStake \in Nat /\ MinStake > 1
    /\ Pow(2, Width) \in Nat /\ U64Max \in Nat
    /\ Pow(2, Frac) \in Nat /\ Pow(2, Frac) > 0
    /\ ((MinStake * 3) \div 2) * RaoPerTao <= U64Max
    /\ Amounts \subseteq 0 .. U64Max
    /\ Rates \subseteq 0 .. U64Max
    /\ Reserves \subseteq 0 .. U64Max
    /\ Bits \subseteq Int
  <1>1. {2, 10} \subseteq Nat \ {0} /\ {Width, Frac, Decimals} \subseteq Nat
    BY UnitsAssumption
  <1>2. /\ Pow(2, Width) \in Nat \ {0}
        /\ Pow(2, Frac) \in Nat \ {0}
        /\ RaoPerTao \in Nat \ {0}
    BY <1>1, PowPositive DEF RaoPerTao
  <1> QED
    BY <1>2, UnitsAssumption DEF U64Max

\* An addition or a cast that stays in range does not wrap.
LEMMA WrapInRange ==
    ASSUME NEW n \in 0 .. U64Max
    PROVE  Wrap(n) = n
  <1>1. n \in Nat /\ Pow(2, Width) \in Nat /\ n < Pow(2, Width)
    BY Constants DEF U64Max
  <1>2. ASSUME NEW d \in Nat, n < d
        PROVE  n % d = n
    BY <1>1, <1>2
  <1> QED
    BY <1>1, <1>2 DEF Wrap

LEMMA SaturatedLeast ==
    ASSUME NEW n \in Nat
    PROVE  /\ Saturated(n) \in 0 .. U64Max
           /\ Saturated(n) <= n
           /\ Saturated(n) = n \/ (Saturated(n) = U64Max /\ n > U64Max)
  BY Constants DEF Saturated

-----------------------------------------------------------------------------
(* What the functions return. *)

\* add_bps_ceil for rates that keep BPS + bps in range.
LEMMA AddBpsExact ==
    ASSUME NEW v \in 0 .. U64Max, NEW r \in 0 .. U64Max, BPS + r <= U64Max
    PROVE  LET out == AddBpsCeil(v, r)  exact == v * (BPS + r) IN
           /\ out = Saturated(DivCeil(exact, BPS))
           /\ out \in 0 .. U64Max
           /\ out * BPS >= exact \/ out = U64Max
           /\ (out - 1) * BPS < exact
  <1> DEFINE exact == v * (BPS + r)
             q == DivCeil(exact, BPS)
             out == Saturated(q)
  <1>1. BPS + r \in 0 .. U64Max /\ v \in Nat /\ exact \in Nat
    BY Constants
  <1>2. Wrap(BPS + r) = BPS + r
    BY <1>1, WrapInRange
  <1>3. AddBpsCeil(v, r) = out
    BY <1>2 DEF AddBpsCeil
  <1> HIDE DEF exact
  <1>4. q \in Nat /\ q * BPS >= exact /\ (q - 1) * BPS < exact
    BY <1>1, CeilExact, Constants
  <1> HIDE DEF q
  <1>5. out \in 0 .. U64Max /\ out <= q /\ (out = q \/ out = U64Max)
    BY <1>4, SaturatedLeast
  <1> HIDE DEF out
  <1>6. out - 1 \in Int /\ q - 1 \in Int /\ out - 1 <= q - 1
    BY <1>4, <1>5, Constants
  <1>7. (out - 1) * BPS <= (q - 1) * BPS
    BY <1>6, TimesMonotone, Constants
  <1>8. (out - 1) * BPS \in Int /\ (q - 1) * BPS \in Int
    BY <1>6, Constants
  <1>9. (out - 1) * BPS < exact
    BY <1>1, <1>4, <1>7, <1>8
  <1> QED
    BY <1>3, <1>4, <1>5, <1>9 DEF out, q, exact

\* buy_limit_price is never below a rao.
LEMMA LimitExact ==
    ASSUME NEW v \in 0 .. U64Max, NEW r \in 0 .. U64Max, BPS + r <= U64Max
    PROVE  LET out == BuyLimitPrice(v, r)  exact == v * (BPS + r) IN
           /\ out * BPS >= exact \/ out = U64Max
           /\ (out - 1) * BPS < exact \/ out = 1
  <1> DEFINE exact == v * (BPS + r)
             low == AddBpsCeil(v, r)
  <1>1. /\ low \in 0 .. U64Max
        /\ low * BPS >= exact \/ low = U64Max
        /\ (low - 1) * BPS < exact
    BY AddBpsExact
  <1>2. exact \in Nat
    BY Constants
  <1> HIDE DEF exact, low
  <1>3. CASE low >= 1
    <2>1. BuyLimitPrice(v, r) = low
      BY <1>1, <1>3 DEF BuyLimitPrice, Larger, low
    <2> QED
      BY <1>1, <2>1 DEF exact
  <1>4. CASE low = 0
    <2>1. BuyLimitPrice(v, r) = 1
      BY <1>4 DEF BuyLimitPrice, Larger, low
    <2>2. 0 * BPS = 0 /\ 1 * BPS = BPS /\ U64Max > 0
      BY Constants
    <2>3. 1 * BPS >= exact
      BY <1>1, <1>2, <1>4, <2>2, Constants
    <2> QED
      BY <2>1, <2>3 DEF exact
  <1> QED
    BY <1>1, <1>3, <1>4

\* funding_needed is what the balance is short of the goal.
LEMMA FundingExact ==
    ASSUME NEW fees \in 0 .. U64Max, NEW r \in 0 .. U64Max,
           NEW ed \in 0 .. U64Max, NEW free \in 0 .. U64Max,
           BPS + r <= U64Max
    PROVE  free + FundingNeeded(fees, r, ed, free)
             = Larger(free, Saturated(
                   Saturated(DivCeil(fees * (BPS + r), BPS)) + ed))
  <1> DEFINE due == AddBpsCeil(fees, r)
             goal == Saturated(due + ed)
  <1>1. due = Saturated(DivCeil(fees * (BPS + r), BPS)) /\ due \in 0 .. U64Max
    BY AddBpsExact
  <1> HIDE DEF due
  <1>2. due + ed \in Nat
    BY <1>1, Constants
  <1>3. goal \in 0 .. U64Max
    BY <1>2, SaturatedLeast
  <1> HIDE DEF goal
  <1>4. free + SatSub(goal, free) = Larger(free, goal)
    BY <1>3, Constants DEF SatSub, Larger
  <1>5. FundingNeeded(fees, r, ed, free) = SatSub(goal, free)
    BY DEF FundingNeeded, goal, due
  <1> QED
    BY <1>1, <1>4, <1>5 DEF goal

\* strict_buyback_amount of what spendable leaves.
LEMMA BudgetExact ==
    ASSUME NEW amount \in 0 .. U64Max, NEW free \in 0 .. U64Max,
           NEW reserve \in 0 .. U64Max, NEW ed \in 0 .. U64Max
    PROVE  StrictBuybackAmount(amount, Spendable(free, reserve, ed))
             = IF amount >= MinStake /\ free - amount >= reserve + ed
               THEN amount ELSE Err
  BY Constants DEF StrictBuybackAmount, Spendable, SatSub, Larger

\* What reaches sweep_floor is worth the minimum stake.
LEMMA FloorExact ==
    ASSUME NEW price \in 1 .. RaoPerTao, NEW alpha \in 0 .. U64Max,
           NEW dust \in 0 .. U64Max, alpha >= SweepFloor(price, dust)
    PROVE  AlphaValueInTao(alpha, price) >= MinStake
  <1> DEFINE K == (MinStake * 3) \div 2
             target == K * RaoPerTao
             q == target \div price
             value == alpha * price
             worth == value \div RaoPerTao
  <1>0. price \in Nat /\ price > 0 /\ price <= RaoPerTao /\ alpha \in Nat
    BY Constants
  <1>1. K \in Nat /\ K - 1 >= MinStake /\ K >= MinStake
    BY Constants
  <1>2. target \in Nat /\ target <= U64Max /\ MinStake <= target
    <2> HIDE DEF K
    <2>1. 1 * K <= RaoPerTao * K
      BY <1>1, TimesMonotone, Constants
    <2> QED
      BY <1>1, <2>1, Constants DEF K
  <1>3. target = (K - 1) * RaoPerTao + RaoPerTao
    BY <1>1, Constants
  <1> HIDE DEF target
  <1>4. q \in Nat /\ target < q * price + price
    BY <1>0, <1>2, Quotient
  <1>5. q <= target
    <2>1. q * price <= target
      BY <1>0, <1>2, Quotient
    <2> HIDE DEF q
    <2>2. 1 * q <= price * q
      BY <1>0, <1>4, TimesMonotone
    <2> QED
      BY <1>0, <1>2, <1>4, <2>1, <2>2
  <1>6. SweepFloor(price, dust) = Larger(dust, q)
    <2>1. Wrap(q) = q
      BY <1>2, <1>4, <1>5, WrapInRange, Constants
    <2>2. Larger(price, 1) = price
      BY <1>0 DEF Larger
    <2> QED
      BY <2>1, <2>2 DEF SweepFloor, target
  <1> HIDE DEF q
  <1>7. alpha >= q
    BY <1>4, <1>6, Constants DEF Larger
  <1>8. q * price <= value
    BY <1>0, <1>4, <1>7, TimesMonotone
  <1>9. value \in Nat
    BY <1>0
  <1>10. worth \in Nat /\ value < worth * RaoPerTao + RaoPerTao
    BY <1>9, Quotient, Constants
  <1> HIDE DEF value, worth, K
  <1>11. value > (K - 1) * RaoPerTao
    <2>1. q * price \in Int /\ (K - 1) * RaoPerTao \in Int
      BY <1>0, <1>1, <1>4, Constants
    <2> QED
      BY <1>0, <1>3, <1>4, <1>8, <1>9, <2>1, Constants
  <1>12. worth >= MinStake
    <2> SUFFICES ASSUME worth + 1 <= K - 1
                 PROVE  FALSE
      BY <1>1, <1>10, Constants
    <2>1. (worth + 1) * RaoPerTao <= (K - 1) * RaoPerTao
      BY <1>1, <1>10, TimesMonotone, Constants
    <2>2. (worth + 1) * RaoPerTao = worth * RaoPerTao + RaoPerTao
      BY <1>10, Constants
    <2>3. (K - 1) * RaoPerTao \in Int /\ worth * RaoPerTao \in Int
      BY <1>1, <1>10, Constants
    <2> QED
      BY <1>9, <1>10, <1>11, <2>1, <2>2, <2>3, Constants
  <1>13. Saturated(worth) >= MinStake
    BY <1>2, <1>10, <1>12, Constants DEF Saturated
  <1> QED
    BY <1>13 DEF AlphaValueInTao, worth, value

\* fixed_bits_to_rao in two parts loses less than a rao.
LEMMA FixedExact ==
    ASSUME NEW bits \in Nat
    PROVE  LET out == FixedBitsToRao(bits)  exact == bits * RaoPerTao IN
           /\ out * Pow(2, Frac) <= exact
           /\ (out + 1) * Pow(2, Frac) > exact \/ out = U64Max
  <1>1. ASSUME NEW F \in Nat, F > 0, F = Pow(2, Frac)
        PROVE  LET out == FixedBitsToRao(bits)  exact == bits * RaoPerTao IN
               /\ out * F <= exact
               /\ (out + 1) * F > exact \/ out = U64Max
    <2> DEFINE R == RaoPerTao
               q == bits \div F
               r == bits % F
               part == r * R
               s == part \div F
               all == q * R + s
               out == Saturated(all)
    <2>1. q \in Nat /\ r \in Nat /\ r = bits - q * F
      BY <1>1, Quotient, Remainder
    <2>2. R \in Nat
      BY Constants
    <2> HIDE DEF q, r, R
    <2>3. part \in Nat
      BY <2>1, <2>2
    <2>4. s \in Nat /\ s * F <= part /\ part < s * F + F
      BY <1>1, <2>3, Quotient
    <2>5. bits * R = (q * R) * F + part
      BY <1>1, <2>1, <2>2
    <2> HIDE DEF part, s
    <2>6. q * R \in Nat
      BY <2>1, <2>2
    <2>7. all * F = (q * R) * F + s * F /\ (all + 1) * F = all * F + F
      BY <1>1, <2>4, <2>6
    <2>8. all \in Nat /\ (q * R) * F \in Nat /\ s * F \in Nat /\ all * F \in Nat
      BY <1>1, <2>4, <2>6
    <2>9. all * F <= bits * R /\ (all + 1) * F > bits * R
      BY <1>1, <2>3, <2>4, <2>5, <2>7, <2>8
    <2> HIDE DEF all
    <2>10. out \in Nat /\ out <= all /\ (out = all \/ out = U64Max)
      BY <2>8, SaturatedLeast, Constants
    <2> HIDE DEF out
    <2>11. out * F <= all * F
      BY <1>1, <2>8, <2>10, TimesMonotone
    <2>12. out * F \in Nat /\ bits * R \in Nat
      BY <1>1, <2>2, <2>10
    <2>13. out * F <= bits * R /\ ((out + 1) * F > bits * R \/ out = U64Max)
      BY <2>8, <2>9, <2>10, <2>11, <2>12
    <2>14. FixedBitsToRao(bits) = out
      BY <1>1 DEF FixedBitsToRao, out, all, s, part, q, r, R
    <2> QED
      BY <2>13, <2>14 DEF R
  <1> QED
    BY <1>1, Constants

LEMMA MovingPriceExact ==
    ASSUME NEW bits \in Int
    PROVE  LET out == I96F32ToRao(bits)
               exact == Larger(bits, 0) * RaoPerTao IN
           /\ out * Pow(2, Frac) <= exact
           /\ (out + 1) * Pow(2, Frac) > exact \/ out = U64Max
  <1>1. CASE bits <= 0
    <2>1. I96F32ToRao(bits) = 0 /\ Larger(bits, 0) = 0
      BY <1>1 DEF I96F32ToRao, Larger
    <2>2. /\ 0 * RaoPerTao = 0
          /\ 0 * Pow(2, Frac) = 0
          /\ (0 + 1) * Pow(2, Frac) = Pow(2, Frac)
      BY Constants
    <2> QED
      BY <2>1, <2>2, Constants
  <1>2. CASE bits > 0
    <2>1. I96F32ToRao(bits) = FixedBitsToRao(bits) /\ Larger(bits, 0) = bits
      BY <1>2 DEF I96F32ToRao, Larger
    <2> QED
      BY <1>2, <2>1, FixedExact
  <1> QED
    BY <1>1, <1>2

\* parse_amount: the padded fraction counts as many units as its digits say.
LEMMA ParseExact ==
    ASSUME NEW int \in Seq(Nat), NEW frac \in Seq(Nat),
           ParseAmount(int, frac) # Err
    PROVE  Number(int \o frac) * RaoPerTao
              = ParseAmount(int, frac) * Pow(10, Len(frac))
  <1> DEFINE a == Number(int)
             f == Number(frac)
             q == Pow(10, Len(frac))
             p == Pow(10, Decimals - Len(frac))
  <1>1. /\ ~(Len(frac) > Decimals)
        /\ ParseAmount(int, frac) = a * RaoPerTao + f * p
    <2> HIDE DEF a, f, p
    <2> QED
      BY Zenon DEF ParseAmount, a, f, p
  <1>2. Len(frac) \in Nat /\ Decimals \in Nat /\ Decimals - Len(frac) \in Nat
    BY <1>1, UnitsAssumption
  <1>3. a \in Nat /\ f \in Nat
    BY NumberType
  <1>4. q \in Nat /\ p \in Nat /\ RaoPerTao \in Nat
    BY <1>2, PowNext, Constants
  <1>5. RaoPerTao = p * q
    <2>1. (Decimals - Len(frac)) + Len(frac) = Decimals
      BY <1>2
    <2> QED
      BY <1>2, <2>1, PowSum DEF RaoPerTao
  <1>6. Number(int \o frac) = a * q + f
    BY NumberConcat
  <1> HIDE DEF a, f, p, q
  <1>7. ASSUME NEW R \in Nat, R = p * q
        PROVE  (a * q + f) * R = (a * R + f * p) * q
    <2>1. (a * q + f) * R = a * q * R + f * R
      BY <1>3, <1>4
    <2>2. (a * R + f * p) * q = a * R * q + f * p * q
      BY <1>3, <1>4
    <2>3. f * R = f * p * q /\ a * q * R = a * R * q
      BY <1>3, <1>4, <1>7
    <2> QED
      BY <2>1, <2>2, <2>3
  <1> QED
    BY <1>1, <1>4, <1>5, <1>6, <1>7 DEF q

LEMMA PowTwoTen ==
    ASSUME NEW n \in Nat
    PROVE  Pow(2, n) <= Pow(10, n)
  <1> DEFINE G == {k \in Nat : Pow(2, k) <= Pow(10, k)}
  <1>1. 0 \in G
    BY PowNext
  <1>2. ASSUME NEW k \in Nat, k \in G
        PROVE  k + 1 \in G
    <2>1. /\ Pow(2, k + 1) = 2 * Pow(2, k) /\ Pow(10, k + 1) = 10 * Pow(10, k)
          /\ Pow(2, k) \in Nat /\ Pow(10, k) \in Nat
      BY PowNext
    <2> QED
      BY <1>2, <2>1
  <1> HIDE DEF G
  <1>3. n \in G
    BY <1>1, <1>2, Induct
  <1> QED
    BY <1>3 DEF G

\* A u64 has a number of digits.
LEMMA WidthExists ==
    ASSUME NEW whole \in Nat, whole <= U64Max
    PROVE  \E k \in 1 .. Width :
              whole < Pow(10, k) /\ (k = 1 \/ whole >= Pow(10, k - 1))
  <1> DEFINE T == {k \in 1 .. Width : whole < Pow(10, k)}
  <1>1. Width \in Nat \ {0} /\ Pow(2, Width) \in Nat
    BY UnitsAssumption, Constants
  <1>2. \A k \in Nat : Pow(10, k) \in Nat
    BY PowNext
  <1>3. whole < Pow(10, Width)
    BY <1>1, <1>2, PowTwoTen DEF U64Max
  <1>4. T # {} /\ T \in SUBSET Nat
    BY <1>1, <1>3
  <1>5. PICK k \in T : \A j \in T : k <= j
    <2> HIDE DEF T
    <2> QED
      BY <1>4, LeastNat
  <1>6. k = 1 \/ whole >= Pow(10, k - 1)
    <2> SUFFICES ASSUME k # 1, ~(whole >= Pow(10, k - 1))
                 PROVE  FALSE
      OBVIOUS
    <2>1. k - 1 \in 1 .. Width /\ k - 1 \in Nat
      BY <1>1
    <2>2. k - 1 \in T
      BY <1>2, <2>1
    <2> QED
      BY <1>1, <1>5, <2>2
  <1> QED
    BY <1>6

\* parse_amount reads back what format_amount writes.
LEMMA FormatParses ==
    ASSUME NEW rao \in 0 .. U64Max
    PROVE  LET out == FormatAmount(rao) IN ParseAmount(out[1], out[2]) = rao
  <1> DEFINE whole == rao \div RaoPerTao
             rest == rao % RaoPerTao
             Fits(k) == whole < Pow(10, k) /\ (k = 1 \/ whole >= Pow(10, k - 1))
             w == CHOOSE k \in 1 .. Width : Fits(k)
             int == Digits(whole, w)
             frac == Digits(rest, Decimals)
  <1>1. /\ rao \in Nat /\ U64Max \in Nat
        /\ RaoPerTao \in Nat /\ RaoPerTao > 0 /\ Decimals \in Nat
    BY Constants, UnitsAssumption
  <1>2. /\ whole \in Nat /\ whole * RaoPerTao <= rao
        /\ rest = rao - whole * RaoPerTao
        /\ rest \in Nat /\ rest < RaoPerTao
    <2>1. whole \in Nat /\ whole * RaoPerTao <= rao
          /\ rao < whole * RaoPerTao + RaoPerTao
      BY <1>1, Quotient
    <2>2. rest = rao - whole * RaoPerTao
      BY <1>1, Remainder
    <2> HIDE DEF whole, rest
    <2>3. whole * RaoPerTao \in Nat
      BY <1>1, <2>1
    <2> QED
      BY <1>1, <2>1, <2>2, <2>3
  <1>3. FormatAmount(rao) = <<int, frac>>
    BY DEF FormatAmount
  <1> HIDE DEF whole, rest
  <1>4. whole <= U64Max
    <2>1. ASSUME NEW R \in Nat, R > 0
          PROVE  whole <= whole * R
      BY <1>2, <2>1
    <2>2. whole * RaoPerTao \in Nat
      BY <1>1, <1>2
    <2> QED
      BY <1>1, <1>2, <2>1, <2>2
  <1>5. w \in 1 .. Width /\ whole < Pow(10, w)
    <2>1. \E k \in 1 .. Width : Fits(k)
      BY <1>2, <1>4, WidthExists
    <2> HIDE DEF Fits
    <2>2. w \in 1 .. Width /\ Fits(w)
      BY <2>1
    <2> QED
      BY <2>2 DEF Fits
  <1>6. w \in Nat /\ w > 0
    BY <1>5, UnitsAssumption
  <1> HIDE DEF w
  <1>7. int \in Seq(0 .. 9) /\ Len(int) = w /\ Number(int) = whole
    BY <1>2, <1>5, <1>6, DigitsExact
  <1>8. frac \in Seq(0 .. 9) /\ Len(frac) = Decimals /\ Number(frac) = rest
    BY <1>1, <1>2, DigitsExact DEF RaoPerTao
  <1> HIDE DEF int, frac
  <1>9. Pow(10, Decimals - Len(frac)) = 1
    <2>1. Decimals - Len(frac) = 0
      BY <1>1, <1>8
    <2> QED
      BY <2>1, PowNext
  <1>10. Number(int) * RaoPerTao + Number(frac) * Pow(10, Decimals - Len(frac))
            = rao
    <2>1. ASSUME NEW x \in Nat, x <= rao
          PROVE  x + (rao - x) * 1 = rao
      BY <1>1, <2>1
    <2>2. whole * RaoPerTao \in Nat
      BY <1>1, <1>2
    <2> QED
      BY <1>2, <1>7, <1>8, <1>9, <2>1, <2>2
  <1>11. ~ \E c \in ToSet(int \o frac) : c = 10
    <2>1. int \o frac \in Seq(0 .. 9)
      BY <1>7, <1>8
    <2>2. ASSUME NEW s \in Seq(0 .. 9), NEW i \in DOMAIN s
          PROVE  s[i] # 10
      <3>1. s[i] \in 0 .. 9
        OBVIOUS
      <3> QED
        BY <3>1
    <2> QED
      BY <2>1, <2>2, Zenon DEF ToSet
  <1>12. int # <<>> /\ ~(Len(frac) > Decimals) /\ ~(rao > U64Max)
    BY <1>1, <1>6, <1>7, <1>8
  <1>13. ParseAmount(int, frac) = rao
    BY <1>10, <1>11, <1>12 DEF ParseAmount
  <1> QED
    BY <1>3, <1>13

-----------------------------------------------------------------------------
(* The theorems.  Each call puts its arguments and its result in call. *)

(* add_bps_ceil returns the least amount not below value * (1 + bps/BPS),   *)
(* or the largest u64, and buy_limit_price that or 1: for every amount,     *)
(* width and basis, as long as BPS + bps is in range.                       *)
THEOREM RatesExact == Spec => []BpsExact
  <1>1. Init => BpsExact
    BY DEF Init, BpsExact, None
  <1>2. CallAddBps => BpsExact'
    <2> SUFFICES ASSUME NEW v \in Amounts, NEW r \in Rates,
                        Called("add_bps", <<v, r>>,
                               AddBpsCeil(v, r))
                 PROVE  BpsExact'
      BY DEF CallAddBps
    <2>1. v \in 0 .. U64Max /\ r \in 0 .. U64Max
      BY Constants
    <2>2. /\ call'.op = "add_bps" /\ call'.in = <<v, r>>
          /\ call'.out = AddBpsCeil(v, r)
      BY DEF Called
    <2> QED
      BY <2>1, <2>2, AddBpsExact DEF BpsExact
  <1>3. CallLimit => BpsExact'
    <2> SUFFICES ASSUME NEW v \in Amounts, NEW r \in Rates,
                        Called("limit", <<v, r>>,
                               BuyLimitPrice(v, r))
                 PROVE  BpsExact'
      BY DEF CallLimit
    <2>1. v \in 0 .. U64Max /\ r \in 0 .. U64Max
      BY Constants
    <2>2. /\ call'.op = "limit" /\ call'.in = <<v, r>>
          /\ call'.out = BuyLimitPrice(v, r)
      BY DEF Called
    <2> QED
      BY <2>1, <2>2, LimitExact DEF BpsExact
  <1>4. CallFunding \/ CallBudget \/ CallFloor \/ CallParse
         \/ CallFormat \/ CallPrice \/ Return => BpsExact'
    BY DEF CallFunding, CallBudget, CallFloor, CallParse, CallFormat, CallPrice,
           Return, Called, None, BpsExact
  <1>5. BpsExact /\ UNCHANGED call => BpsExact'
    BY DEF BpsExact
  <1>6. BpsExact /\ [Next]_call => BpsExact'
    BY <1>2, <1>3, <1>4, <1>5 DEF Next
  <1> QED
    BY <1>1, <1>6, PTL DEF Spec

(* funding_needed brings a balance exactly to the fees with their margin    *)
(* plus the existential deposit, and asks for nothing where it is there.    *)
THEOREM FundingSuffices == Spec => []FundingCovers
  <1>1. Init => FundingCovers
    BY DEF Init, FundingCovers, None
  <1>2. CallFunding => FundingCovers'
    <2> SUFFICES ASSUME NEW fees \in Amounts, NEW free \in Amounts,
                        NEW r \in Rates, NEW ed \in Reserves,
                        Called("funding", <<fees, r, ed, free>>,
                               FundingNeeded(fees, r, ed, free))
                 PROVE  FundingCovers'
      BY DEF CallFunding
    <2>1. /\ fees \in 0 .. U64Max /\ free \in 0 .. U64Max
          /\ r \in 0 .. U64Max /\ ed \in 0 .. U64Max
      BY Constants
    <2>2. /\ call'.op = "funding" /\ call'.in = <<fees, r, ed, free>>
          /\ call'.out = FundingNeeded(fees, r, ed, free)
      BY DEF Called
    <2> QED
      BY <2>1, <2>2, FundingExact DEF FundingCovers
  <1>3. CallAddBps \/ CallLimit \/ CallBudget \/ CallFloor
         \/ CallParse \/ CallFormat \/ CallPrice \/ Return => FundingCovers'
    BY DEF CallAddBps, CallLimit, CallBudget, CallFloor, CallParse, CallFormat,
           CallPrice, Return, Called, None, FundingCovers
  <1>4. FundingCovers /\ UNCHANGED call => FundingCovers'
    BY DEF FundingCovers
  <1>5. FundingCovers /\ [Next]_call => FundingCovers'
    BY <1>2, <1>3, <1>4 DEF Next
  <1> QED
    BY <1>1, <1>5, PTL DEF Spec

(* strict_buyback_amount passes a budget exactly when the treasury keeps    *)
(* fee_reserve and the existential deposit, although spendable saturates    *)
(* twice.                                                                   *)
THEOREM BudgetKeepsReserve == Spec => []ReserveKept
  <1>1. Init => ReserveKept
    BY DEF Init, ReserveKept, None
  <1>2. CallBudget => ReserveKept'
    <2> SUFFICES ASSUME NEW amount \in Amounts, NEW free \in Amounts,
                        NEW reserve \in Reserves, NEW ed \in Reserves,
                        Called("budget", <<amount, free, reserve, ed>>,
                          StrictBuybackAmount(amount, Spendable(free, reserve, ed)))
                 PROVE  ReserveKept'
      BY DEF CallBudget
    <2>1. /\ amount \in 0 .. U64Max /\ free \in 0 .. U64Max
          /\ reserve \in 0 .. U64Max /\ ed \in 0 .. U64Max
      BY Constants
    <2>2. /\ call'.op = "budget" /\ call'.in = <<amount, free, reserve, ed>>
          /\ call'.out = StrictBuybackAmount(amount, Spendable(free, reserve, ed))
      BY DEF Called
    <2> QED
      BY <2>1, <2>2, BudgetExact DEF ReserveKept
  <1>3. CallAddBps \/ CallLimit \/ CallFunding \/ CallFloor
         \/ CallParse \/ CallFormat \/ CallPrice \/ Return => ReserveKept'
    BY DEF CallAddBps, CallLimit, CallFunding, CallFloor, CallParse, CallFormat,
           CallPrice, Return, Called, None, ReserveKept
  <1>4. ReserveKept /\ UNCHANGED call => ReserveKept'
    BY DEF ReserveKept
  <1>5. ReserveKept /\ [Next]_call => ReserveKept'
    BY <1>2, <1>3, <1>4 DEF Next
  <1> QED
    BY <1>1, <1>5, PTL DEF Spec

(* A position that reaches sweep_floor is worth the chain's minimum stake   *)
(* at every price up to 1 TAO: one and a half MinStake outweighs what the   *)
(* two divisions round off, from a MinStake of 2 on.                        *)
THEOREM FloorSuffices == Spec => []FloorSweepable
  <1>1. Init => FloorSweepable
    BY DEF Init, FloorSweepable, None
  <1>2. CallFloor => FloorSweepable'
    <2> SUFFICES ASSUME NEW price \in Amounts, NEW alpha \in Amounts,
                        NEW dust \in Reserves,
                        Called("floor", <<price, alpha>>,
                               SweepFloor(price, dust))
                 PROVE  FloorSweepable'
      BY DEF CallFloor
    <2>1. alpha \in 0 .. U64Max /\ dust \in 0 .. U64Max
      BY Constants
    <2>2. /\ call'.op = "floor" /\ call'.in = <<price, alpha>>
          /\ call'.out = SweepFloor(price, dust)
      BY DEF Called
    <2> QED
      BY <2>1, <2>2, FloorExact DEF FloorSweepable
  <1>3. CallAddBps \/ CallLimit \/ CallFunding \/ CallBudget
         \/ CallParse \/ CallFormat \/ CallPrice \/ Return => FloorSweepable'
    BY DEF CallAddBps, CallLimit, CallFunding, CallBudget, CallParse,
           CallFormat, CallPrice, Return, Called, None, FloorSweepable
  <1>4. FloorSweepable /\ UNCHANGED call => FloorSweepable'
    BY DEF FloorSweepable
  <1>5. FloorSweepable /\ [Next]_call => FloorSweepable'
    BY <1>2, <1>3, <1>4 DEF Next
  <1> QED
    BY <1>1, <1>5, PTL DEF Spec

(* i96f32_to_rao rounds a moving price down by less than a rao, although    *)
(* its whole and its fractional part are converted apart, or saturates.     *)
THEOREM PriceRoundsDown == Spec => []PriceExact
  <1>1. Init => PriceExact
    BY DEF Init, PriceExact, None
  <1>2. CallPrice => PriceExact'
    <2> SUFFICES ASSUME NEW bits \in Bits,
                        Called("price", <<bits>>,
                               I96F32ToRao(bits))
                 PROVE  PriceExact'
      BY DEF CallPrice
    <2>1. bits \in Int
      BY Constants
    <2>2. /\ call'.op = "price" /\ call'.in = <<bits>>
          /\ call'.out = I96F32ToRao(bits)
      BY DEF Called
    <2> QED
      BY <2>1, <2>2, MovingPriceExact DEF PriceExact
  <1>3. CallAddBps \/ CallLimit \/ CallFunding \/ CallBudget
         \/ CallFloor \/ CallParse \/ CallFormat \/ Return => PriceExact'
    BY DEF CallAddBps, CallLimit, CallFunding, CallBudget, CallFloor, CallParse,
           CallFormat, Return, Called, None, PriceExact
  <1>4. PriceExact /\ UNCHANGED call => PriceExact'
    BY DEF PriceExact
  <1>5. PriceExact /\ [Next]_call => PriceExact'
    BY <1>2, <1>3, <1>4 DEF Next
  <1> QED
    BY <1>1, <1>5, PTL DEF Spec

(* parse_amount returns the exact value of what it accepts, at every length *)
(* of the integer and fractional digits, and format_amount followed by      *)
(* parse_amount is the identity on every u64.                               *)
THEOREM AmountsRoundTrip == Spec => []AmountsExact
  <1>1. Init => AmountsExact
    BY DEF Init, AmountsExact, None
  <1>2. CallParse => AmountsExact'
    <2> SUFFICES ASSUME NEW int \in BoundedSeq(Chars, MaxLen),
                        NEW frac \in BoundedSeq(Chars, MaxLen),
                        Called("parse", <<int, frac>>, ParseAmount(int, frac))
                 PROVE  AmountsExact'
      BY DEF CallParse
    <2>1. int \in Seq(Nat) /\ frac \in Seq(Nat)
      <3>1. Chars \subseteq Nat /\ MaxLen \in Nat
        BY UnitsAssumption
      <3>2. ASSUME NEW s \in BoundedSeq(Chars, MaxLen)
            PROVE  s \in Seq(Nat)
        <4>1. PICK m \in 0 .. MaxLen : s \in [1 .. m -> Chars]
          BY DEF BoundedSeq, SeqOf
        <4>2. m \in Nat /\ DOMAIN s = 1 .. m /\ s = [i \in 1 .. m |-> s[i]]
          BY <3>1, <4>1
        <4>3. \A i \in 1 .. m : s[i] \in Nat
          BY <3>1, <4>1
        <4>4. s \in [1 .. m -> Nat]
          BY <4>2, <4>3
        <4> QED
          BY <4>2, <4>4
      <3> QED
        BY <3>2
    <2>2. /\ call'.op = "parse" /\ call'.in = <<int, frac>>
          /\ call'.out = ParseAmount(int, frac)
      BY DEF Called
    <2> QED
      BY <2>1, <2>2, ParseExact DEF AmountsExact
  <1>3. CallFormat => AmountsExact'
    <2> SUFFICES ASSUME NEW rao \in 0 .. U64Max,
                        Called("format", <<rao>>, FormatAmount(rao))
                 PROVE  AmountsExact'
      BY DEF CallFormat
    <2>1. /\ call'.op = "format" /\ call'.in = <<rao>>
          /\ call'.out = FormatAmount(rao)
      BY DEF Called
    <2> QED
      BY <2>1, FormatParses DEF AmountsExact
  <1>4. CallAddBps \/ CallLimit \/ CallFunding \/ CallBudget
         \/ CallFloor \/ CallPrice \/ Return => AmountsExact'
    BY DEF CallAddBps, CallLimit, CallFunding, CallBudget, CallFloor, CallPrice,
           Return, Called, None, AmountsExact
  <1>5. AmountsExact /\ UNCHANGED call => AmountsExact'
    BY DEF AmountsExact
  <1>6. AmountsExact /\ [Next]_call => AmountsExact'
    BY <1>2, <1>3, <1>4, <1>5 DEF Next
  <1> QED
    BY <1>1, <1>6, PTL DEF Spec
=============================================================================
