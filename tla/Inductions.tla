----------------------------- MODULE Inductions -----------------------------
(***************************************************************************)
(* Induction over the natural numbers in the form the proofs beside it     *)
(* use: a set of numbers in place of a predicate.  It rests on the order   *)
(* of the naturals being well founded, a theorem of the library.           *)
(***************************************************************************)
EXTENDS Naturals, NaturalsInduction, WellFoundedInduction, TLAPS

(* A set of numbers that is not empty has a least one.                     *)
LEMMA LeastNat ==
  ASSUME NEW T \in SUBSET Nat, T # {}
  PROVE  \E x \in T : \A y \in T : x <= y
<1> DEFINE R == OpToRel(<, Nat)
<1>1. IsWellFoundedOn(R, Nat)
  BY NatLessThanWellFounded
<1>2. \A x, y \in Nat : <<x, y>> \in R <=> x < y
  BY DEF OpToRel
<1> HIDE DEF R
<1>3. PICK x \in T : \A y \in T : <<y, x>> \notin R
  BY <1>1, WFMin
<1>4. \A y \in T : x <= y
  <2> SUFFICES ASSUME NEW y \in T PROVE x <= y
    OBVIOUS
  <2>1. x \in Nat /\ y \in Nat
    OBVIOUS
  <2>2. ~(y < x)
    BY <1>2, <1>3, <2>1
  <2> QED BY <2>1, <2>2
<1> QED BY <1>4

(* What holds of the first number of an interval, and of the next one      *)
(* whenever of one, holds of them all.                                     *)
LEMMA Stepwise ==
  ASSUME NEW a \in Nat, NEW b \in Nat, NEW S,
         a \in S, \A n \in a..b : n \in S /\ n < b => n + 1 \in S
  PROVE  \A n \in a..b : n \in S
<1> DEFINE T == {n \in a..b : n \notin S}
<1> SUFFICES ASSUME T # {} PROVE FALSE
  OBVIOUS
<1>1. PICK x \in T : \A y \in T : x <= y
  <2>1. T \in SUBSET Nat
    OBVIOUS
  <2> HIDE DEF T
  <2> QED BY <2>1, LeastNat
<1>2. x # a /\ x \in a..b /\ x - 1 \in a..b
  OBVIOUS
<1>3. x - 1 \notin T
  BY <1>1, <1>2
<1>4. x - 1 \in S /\ (x - 1) + 1 = x /\ x - 1 < b
  BY <1>2, <1>3
<1> QED BY <1>2, <1>4

(* A step of a primitive recursion over 1..N with values in D.             *)
StepOver(h, N, D) == h \in [(1..N) \X D -> D]

(* The function that begins at d and takes that step at every number.      *)
Recurses(f, h, N, D, d) ==
  f \in [0..N -> D] /\ f[0] = d /\ \A n \in 1..N : f[n] = h[<<n, f[n - 1]>>]

(* There is the function a primitive recursion defines.                    *)
LEMMA RecursionExists ==
  ASSUME NEW N \in Nat, NEW D, NEW d \in D, NEW h, StepOver(h, N, D)
  PROVE  \E f : Recurses(f, h, N, D, d)
<1> DEFINE S == {m \in 0..N : \E f : Recurses(f, h, m, D, d)}
<1>1. 0 \in S
  <2>1. Recurses([n \in 0..0 |-> d], h, 0, D, d)
    BY DEF Recurses
  <2> QED BY <2>1
<1>2. ASSUME NEW m \in 0..N, m \in S, m < N PROVE m + 1 \in S
  <2>1. PICK f : Recurses(f, h, m, D, d)
    BY <1>2
  <2> DEFINE g == [n \in 0..(m + 1) |-> IF n = m + 1 THEN h[<<m + 1, f[m]>>] ELSE f[n]]
  <2>2. g \in [0..(m + 1) -> D] /\ g[0] = d
    BY <1>2, <2>1 DEF Recurses, StepOver
  <2>3. ASSUME NEW n \in 1..(m + 1) PROVE g[n] = h[<<n, g[n - 1]>>]
    <3>1. CASE n = m + 1
      <4>1. g[n - 1] = f[m] /\ g[n] = h[<<m + 1, f[m]>>]
        BY <1>2, <3>1
      <4> HIDE DEF g
      <4> QED BY <3>1, <4>1
    <3>2. CASE n \in 1..m
      <4>1. g[n] = f[n] /\ g[n - 1] = f[n - 1]
        BY <1>2, <3>2
      <4>2. f[n] = h[<<n, f[n - 1]>>]
        BY <2>1, <3>2 DEF Recurses
      <4> HIDE DEF g
      <4> QED BY <4>1, <4>2
    <3> QED BY <2>3, <3>1, <3>2
  <2> HIDE DEF g
  <2>4. Recurses(g, h, m + 1, D, d)
    BY <2>2, <2>3 DEF Recurses
  <2> QED BY <1>2, <2>4
<1>3. N \in S
  <2>1. N \in 0..N /\ \A m \in 0..N : m \in S /\ m < N => m + 1 \in S
    BY <1>2
  <2> HIDE DEF S
  <2> QED BY <1>1, <2>1, Stepwise
<1> QED BY <1>3
=============================================================================
