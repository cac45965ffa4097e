-------------------------- MODULE Induction_proofs --------------------------
(* Induction over the numbers, with a set in place of a predicate, and the *)
(* functions that recursion over them defines: what the proofs about loops *)
(* and lists rest on.                                                      *)
EXTENDS Naturals, WellFoundedInduction, TLAPS

(* A set of numbers that is not empty has a least one.                     *)
LEMMA LeastNumber ==
  ASSUME NEW T, T \subseteq Nat, T # {}
  PROVE  \E m \in T : \A k \in T : m <= k
<1> DEFINE R == OpToRel(<, Nat)
<1>1. IsWellFoundedOn(R, Nat)
  BY NatLessThanWellFounded
<1>2. \A x, y \in Nat : y < x => <<y, x>> \in R
  BY DEF OpToRel
<1> HIDE DEF R
<1>3. PICK m \in T : \A y \in T : ~(<<y, m>> \in R)
  BY <1>1, WFMin
<1>4. SUFFICES ASSUME NEW k \in T PROVE m <= k
  OBVIOUS
<1>5. m \in Nat /\ k \in Nat
  OBVIOUS
<1>6. ~(k < m)
  BY <1>2, <1>3, <1>5
<1> QED
  BY <1>5, <1>6

(* Induction over the numbers, from the least one that a set leaves out.   *)
LEMMA InductionOnNat ==
  ASSUME NEW S, 0 \in S, \A n \in Nat : n \in S => n + 1 \in S
  PROVE  Nat \subseteq S
<1> SUFFICES ASSUME NEW n \in Nat \ S PROVE FALSE
  OBVIOUS
<1>1. PICK m \in Nat \ S : \A k \in Nat \ S : m <= k
  BY LeastNumber
<1>2. m # 0 /\ m - 1 \in Nat /\ m - 1 \in S
  BY <1>1
<1>3. (m - 1) + 1 = m
  BY <1>2
<1> QED
  BY <1>1, <1>2, <1>3

(* A step that gives a value of X for each one of X can be taken n times:  *)
(* there is the function of the values after k steps.                      *)
Steps(n, X, init, step) ==
  n \in Nat /\ init \in X /\ \A k \in 1..n : \A v \in X : step[<<k, v>>] \in X
Recurses(f, n, X, init, step) ==
  f \in [0..n -> X] /\ f[0] = init /\ \A k \in 1..n : f[k] = step[<<k, f[k - 1]>>]

LEMMA Recursion ==
  ASSUME NEW n, NEW X, NEW init, NEW step, Steps(n, X, init, step)
  PROVE  \E f : Recurses(f, n, X, init, step)
<1>0. n \in Nat /\ init \in X /\ \A k \in 1..n : \A v \in X : step[<<k, v>>] \in X
  BY DEF Steps
<1> USE <1>0
<1> DEFINE Goes(m, f) == f[0] = init /\ \A k \in 1..m : f[k] = step[<<k, f[k - 1]>>]
           S == {m \in Nat : m <= n => \E f \in [0..m -> X] : Goes(m, f)}
<1>1. 0 \in S
  <2> DEFINE f == [k \in 0..0 |-> init]
  <2>1. f \in [0..0 -> X] /\ f[0] = init
    OBVIOUS
  <2>2. Goes(0, f)
    BY <2>1
  <2> QED
    BY <2>1, <2>2
<1>2. ASSUME NEW m \in Nat, m \in S PROVE m + 1 \in S
  <2> SUFFICES ASSUME m + 1 <= n PROVE \E g \in [0..m + 1 -> X] : Goes(m + 1, g)
    OBVIOUS
  <2>1. PICK f \in [0..m -> X] : Goes(m, f)
    BY <1>2
  <2>2. m + 1 \in 1..n /\ m \in 0..m /\ f[m] \in X
    BY <2>1
  <2> DEFINE v == step[<<m + 1, f[m]>>]
             g == [k \in 0..m + 1 |-> IF k = m + 1 THEN v ELSE f[k]]
  <2>3. v \in X
    BY <2>2
  <2> HIDE DEF v
  <2>4. g \in [0..m + 1 -> X]
    BY <2>1, <2>3
  <2>5. g[m + 1] = v /\ \A k \in 0..m : g[k] = f[k]
    OBVIOUS
  <2> HIDE DEF g
  <2>6. ASSUME NEW k \in 1..m + 1 PROVE g[k] = step[<<k, g[k - 1]>>]
    <3>1. CASE k = m + 1
      <4>1. g[k - 1] = f[m]
        BY <2>5, <3>1
      <4> QED
        BY <2>5, <3>1, <4>1 DEF v
    <3>2. CASE k # m + 1
      <4>1. k \in 1..m /\ k - 1 \in 0..m /\ k \in 0..m
        BY <3>2
      <4> QED
        BY <2>1, <2>5, <4>1
    <3> QED
      BY <3>1, <3>2
  <2>7. g[0] = init
    BY <2>1, <2>5
  <2> QED
    BY <2>4, <2>6, <2>7
<1>3. n \in S
  <2> HIDE DEF S
  <2> QED
    BY <1>1, <1>2, InductionOnNat
<1> QED
  BY <1>3 DEF Recurses
=============================================================================
