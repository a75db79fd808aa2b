------------------------------ MODULE Induction ------------------------------
(***************************************************************************)
(* Induction and recursion up to a bound, stated with sets and functions   *)
(* instead of operators, for the proofs about recursive functions.         *)
(***************************************************************************)
EXTENDS Naturals, WellFoundedInduction, TLAPS

\* Every set of natural numbers has a least member ...
LEMMA LeastMember ==
  ASSUME NEW S \in SUBSET Nat, S # {}
  PROVE  \E m \in S : \A k \in S : m <= k
<1> DEFINE R == OpToRel(<, Nat)
<1>1. IsWellFoundedOn(R, Nat)
  BY NatLessThanWellFounded
<1>2. \A k, m \in Nat : k < m => <<k, m>> \in R
  BY DEF OpToRel
<1> HIDE DEF R
<1>3. PICK m \in S : \A k \in S : ~(<<k, m>> \in R)
  BY <1>1, WFMin
<1>4. ASSUME NEW k \in S PROVE m <= k
  <2>1. k \in Nat /\ m \in Nat
    OBVIOUS
  <2>2. ~(k < m)
    BY <1>2, <1>3, <2>1
  <2> QED
    BY <2>1, <2>2
<1> QED
  BY <1>4

\* ... so a set that has 0, and every i up to n if it has i - 1, has them all.
LEMMA InductionTo ==
  ASSUME NEW n \in Nat, NEW S, 0 \in S, \A i \in 1..n : i - 1 \in S => i \in S
  PROVE  \A i \in 0..n : i \in S
<1> DEFINE B == {i \in 0..n : i \notin S}
<1> SUFFICES ASSUME B # {} PROVE FALSE
  OBVIOUS
<1>1. PICK m \in B : \A k \in B : m <= k
  <2>1. B \in SUBSET Nat
    OBVIOUS
  <2> HIDE DEF B
  <2> QED
    BY <2>1, LeastMember
<1>2. m \in 0..n /\ m \notin S /\ m # 0
  BY <1>1
<1>3. m \in 1..n /\ m - 1 \in 0..n
  BY <1>2
<1>4. m - 1 \in S
  BY <1>1, <1>2, <1>3
<1> QED
  BY <1>2, <1>3, <1>4

\* A set that has 0, and n + 1 with every n, has them all.
LEMMA InductionNat ==
  ASSUME NEW S, 0 \in S, \A n \in Nat : n \in S => n + 1 \in S
  PROVE  Nat \subseteq S
<1> SUFFICES ASSUME Nat \ S # {} PROVE FALSE
  OBVIOUS
<1>1. PICK m \in Nat \ S : \A k \in Nat \ S : m <= k
  BY LeastMember
<1>2. m # 0 /\ m - 1 \in Nat
  BY <1>1
<1>3. m - 1 \in S
  BY <1>1, <1>2
<1> QED
  BY <1>1, <1>2, <1>3

\* A function is defined by its value at 0 and by how each value follows from the one
\* before.
IsRecursive(f, n, a, G) == f = [i \in 0..n |-> IF i = 0 THEN a ELSE G[<<f[i - 1], i>>]]

\* A function defined by recursion on 0..n exists.
LEMMA RecursiveFunction ==
  ASSUME NEW V, NEW a \in V, NEW n \in Nat, NEW G \in [V \X (1..n) -> V]
  PROVE  \E f \in [0..n -> V] : IsRecursive(f, n, a, G)
<1> DEFINE Defines(f, m) == f \in [0..m -> V] /\ f[0] = a /\ \A i \in 1..m : f[i] = G[<<f[i - 1], i>>]
           S == {m \in 0..n : \E f : Defines(f, m)}
<1>1. 0 \in S
  <2> DEFINE f == [i \in 0..0 |-> a]
  <2>1. Defines(f, 0)
    OBVIOUS
  <2>2. 0 \in 0..n
    OBVIOUS
  <2> QED
    BY <2>1, <2>2
<1>2. ASSUME NEW m \in 1..n, m - 1 \in S PROVE m \in S
  <2>1. PICK f : Defines(f, m - 1)
    BY <1>2
  <2>2. m - 1 \in 0..(m - 1) /\ f[m - 1] \in V
    BY <2>1
  <2> DEFINE x == G[<<f[m - 1], m>>]
             g == [i \in 0..m |-> IF i = m THEN x ELSE f[i]]
  <2>3. x \in V
    BY <2>2
  <2> HIDE DEF x
  <2>4. g \in [0..m -> V]
    <3>1. ASSUME NEW i \in 0..m, i # m PROVE f[i] \in V
      <4>1. i \in 0..(m - 1)
        BY <3>1
      <4> QED
        BY <2>1, <4>1
    <3> QED
      BY <2>3, <3>1
  <2>5. g[0] = a
    <3>1. 0 \in 0..m /\ 0 # m
      OBVIOUS
    <3> QED
      BY <2>1, <3>1
  <2>6. ASSUME NEW i \in 1..m PROVE g[i] = G[<<g[i - 1], i>>]
    <3>1. CASE i = m
      <4>1. i \in 0..m /\ i - 1 \in 0..m /\ i - 1 # m
        BY <3>1
      <4>2. g[i] = x /\ g[i - 1] = f[m - 1]
        BY <3>1, <4>1
      <4> QED
        BY <3>1, <4>2 DEF x
    <3>2. CASE i # m
      <4>1. i \in 0..m /\ i - 1 \in 0..m /\ i - 1 # m /\ i \in 1..(m - 1)
        BY <3>2
      <4>2. g[i] = f[i] /\ g[i - 1] = f[i - 1]
        BY <3>2, <4>1
      <4> QED
        BY <2>1, <4>1, <4>2
    <3> QED
      BY <3>1, <3>2
  <2>7. Defines(g, m)
    BY <2>4, <2>5, <2>6
  <2>8. m \in 0..n
    OBVIOUS
  <2> HIDE DEF g
  <2> QED
    BY <2>7, <2>8
<1>3. n \in S
  <2>1. n \in 0..n
    OBVIOUS
  <2> HIDE DEF S
  <2> QED
    BY <1>1, <1>2, <2>1, InductionTo
<1>4. PICK f : Defines(f, n)
  BY <1>3
<1>5. ASSUME NEW i \in 0..n PROVE f[i] = IF i = 0 THEN a ELSE G[<<f[i - 1], i>>]
  <2>1. i # 0 => i \in 1..n
    OBVIOUS
  <2> QED
    BY <1>4, <2>1
<1>6. f = [i \in 0..n |-> f[i]]
  BY <1>4
<1>7. IsRecursive(f, n, a, G)
  <2> HIDE DEF Defines
  <2> QED
    BY <1>5, <1>6 DEF IsRecursive
<1> QED
  BY <1>4, <1>7

=============================================================================
