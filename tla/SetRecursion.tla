---------------------------- MODULE SetRecursion ----------------------------
(***************************************************************************)
(* Induction and recursion over the natural numbers in the form the proofs *)
(* of this project use: for sets of numbers and functions, not operators.  *)
(***************************************************************************)
EXTENDS Integers, WellFoundedInduction, TLAPS

\* Induction over the natural numbers, for a set of them.
LEMMA SetInduction ==
    ASSUME NEW S \in SUBSET Nat, 0 \in S, \A n \in S : n + 1 \in S
    PROVE  S = Nat
<1>1. SUFFICES ASSUME Nat \ S # {} PROVE FALSE
  OBVIOUS
<1>2. PICK m \in Nat \ S : \A n \in Nat \ S : ~(<<n, m>> \in OpToRel(<, Nat))
  <2>1. IsWellFoundedOn(OpToRel(<, Nat), Nat)
    BY NatLessThanWellFounded
  <2>. QED
    BY <1>1, <2>1, WFMin
<1>3. m \in Nat \ S /\ \A n \in Nat \ S : ~(n < m)
  BY <1>2 DEF OpToRel
<1>4. m - 1 \in S
  BY <1>3
<1>. QED
  BY <1>3, <1>4

\* Induction up to a bound.
LEMMA InductionUpTo ==
    ASSUME NEW N \in Nat, NEW S, 0 \in S, \A n \in 0 .. (N - 1) : n \in S => n + 1 \in S
    PROVE  0 .. N \subseteq S
<1> DEFINE T == {n \in Nat : n \in 0 .. N => n \in S}
<1>1. 0 \in T
  OBVIOUS
<1>2. ASSUME NEW n \in T
      PROVE  n + 1 \in T
  <2>1. CASE n + 1 \in 0 .. N
    <3>1. n \in 0 .. (N - 1)
      BY <2>1
    <3>. QED
      BY <3>1
  <2>2. CASE ~(n + 1 \in 0 .. N)
    BY <2>2
  <2>. QED
    BY <2>1, <2>2
<1>3. T = Nat
  <2>1. T \in SUBSET Nat
    OBVIOUS
  <2> HIDE DEF T
  <2>. QED
    BY <1>1, <1>2, <2>1, SetInduction, Zenon
<1>. QED
  BY <1>3

\* The same for the values of a function, which belong to a set.
LEMMA TypedUpTo ==
    ASSUME NEW X, NEW N \in Nat, NEW f, f[0] \in X,
           \A n \in 0 .. (N - 1) : f[n] \in X => f[n + 1] \in X
    PROVE  \A n \in 0 .. N : f[n] \in X
<1> DEFINE S == {n \in 0 .. N : f[n] \in X}
<1>1. 0 \in S
  OBVIOUS
<1>2. \A n \in 0 .. (N - 1) : n \in S => n + 1 \in S
  OBVIOUS
<1>3. 0 .. N \subseteq S
  <2> HIDE DEF S
  <2>. QED
    BY <1>1, <1>2, InductionUpTo
<1>. QED
  BY <1>3

\* The function g on 0 .. N that starts with x0 and goes on by F.
IsRecursion(g, x0, F, N) == g = [n \in 0 .. N |-> IF n = 0 THEN x0 ELSE F[n][g[n - 1]]]

\* A function that is defined by its value at 0 and a step exists.
LEMMA RecursiveFunctionExists ==
    ASSUME NEW X, NEW x0 \in X, NEW F \in [Nat -> [X -> X]], NEW N \in Nat
    PROVE  \E g \in [0 .. N -> X] : IsRecursion(g, x0, F, N)
<1> DEFINE Exists(m) ==
             \E g \in [0 .. m -> X] : g = [n \in 0 .. m |-> IF n = 0 THEN x0 ELSE F[n][g[n - 1]]]
           S == {m \in Nat : Exists(m)}
<1>1. Exists(0)
  <2> DEFINE g == [n \in 0 .. 0 |-> x0]
  <2>1. g \in [0 .. 0 -> X] /\ g = [n \in 0 .. 0 |-> IF n = 0 THEN x0 ELSE F[n][g[n - 1]]]
    OBVIOUS
  <2>. QED
    BY <2>1
<1>2. ASSUME NEW m \in Nat, Exists(m)
      PROVE  Exists(m + 1)
  <2>1. PICK g \in [0 .. m -> X] : g = [n \in 0 .. m |-> IF n = 0 THEN x0 ELSE F[n][g[n - 1]]]
    BY <1>2
  <2> DEFINE h == [n \in 0 .. (m + 1) |-> IF n = m + 1 THEN F[m + 1][g[m]] ELSE g[n]]
  <2>2. F[m + 1][g[m]] \in X
    OBVIOUS
  <2>3. h \in [0 .. (m + 1) -> X]
    BY <2>2
  <2>4. \A n \in 0 .. (m + 1) : h[n] = IF n = 0 THEN x0 ELSE F[n][h[n - 1]]
    <3> TAKE n \in 0 .. (m + 1)
    <3>1. CASE n = 0
      BY <3>1, <2>1
    <3>2. CASE n \in 1 .. m
      <4>1. g[n] = F[n][g[n - 1]] /\ h[n] = g[n] /\ h[n - 1] = g[n - 1]
        BY <3>2, <2>1
      <4>. QED
        BY <4>1, <3>2
    <3>3. CASE n = m + 1
      BY <3>3
    <3>. QED
      BY <3>1, <3>2, <3>3
  <2>5. h = [n \in 0 .. (m + 1) |-> IF n = 0 THEN x0 ELSE F[n][h[n - 1]]]
    <3> HIDE DEF h
    <3>. QED
      BY <2>3, <2>4
  <2>. QED
    BY <2>3, <2>5
<1>3. S = Nat
  <2> HIDE DEF Exists
  <2>1. S \in SUBSET Nat /\ 0 \in S /\ \A n \in S : n + 1 \in S
    BY <1>1, <1>2
  <2> HIDE DEF S
  <2>. QED
    BY <2>1, SetInduction, Zenon
<1>. QED
  BY <1>3 DEF IsRecursion
=============================================================================
