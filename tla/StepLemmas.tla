------------------------------ MODULE StepLemmas ------------------------------
(***************************************************************************)
(* Walks over the numbers from 0 to N, each value made of the one before:  *)
(* over the hosts and processes of a gateway, or the ranges of a request.  *)
(* The code does them in loops, the modules with recursive functions.      *)
(***************************************************************************)
EXTENDS Integers, WellFoundedInduction, TLAPS

\* A set of numbers that is not empty has a least one.
LEMMA LeastNumber ==
    ASSUME NEW N \in Nat, NEW B \in SUBSET (0..N), B # {}
    PROVE  \E m \in B : \A n \in B : m <= n
<1>1. B \subseteq Nat OBVIOUS
<1>2. PICK m \in B : \A n \in B : <<n, m>> \notin OpToRel(<, Nat) BY <1>1, NatLessThanWellFounded, WFMin
<1>3. \A n \in B : ~(n < m) BY <1>1, <1>2 DEF OpToRel
<1>4. \A n \in B : m <= n BY <1>1, <1>3
<1> QED BY <1>4

\* A function is defined by its first value and the next of each.
Steps(f, N, first, T) == f[0] = first /\ \A n \in 1..N : f[n] = T[<<f[n - 1], n>>]
LEMMA StepsExist ==
    ASSUME NEW N \in Nat, NEW S, NEW first \in S, NEW T \in [S \X (1..N) -> S]
    PROVE  \E f \in [0..N -> S] : Steps(f, N, first, T)
<1> DEFINE Good(m, f) == f[0] = first /\ \A n \in 1..m : f[n] = T[<<f[n - 1], n>>]
           Bad == {m \in 0..N : \A f \in [0..m -> S] : ~Good(m, f)}
<1>1. ASSUME Bad # {} PROVE FALSE
  <2>1. PICK m \in Bad : \A n \in Bad : m <= n
    <3>1. Bad \in SUBSET (0..N) OBVIOUS
    <3> HIDE DEF Bad
    <3> QED BY <1>1, <3>1, LeastNumber
  <2>2. CASE m = 0
    <3>1. [n \in 0..0 |-> first] \in [0..0 -> S] /\ Good(0, [n \in 0..0 |-> first]) OBVIOUS
    <3> QED BY <2>2, <3>1
  <2>3. CASE m # 0
    <3>1. m - 1 \in 0..N /\ m - 1 \notin Bad /\ m \in 1..N BY <2>1, <2>3
    <3>2. PICK f \in [0..(m - 1) -> S] : Good(m - 1, f) BY <3>1
    <3> DEFINE g == [n \in 0..m |-> IF n = m THEN T[<<f[m - 1], m>>] ELSE f[n]]
    <3>3. f[m - 1] \in S BY <3>1
    <3>4. T[<<f[m - 1], m>>] \in S BY <3>1, <3>3
    <3>5. \A n \in 0..m : n # m => n \in 0..(m - 1) BY <3>1
    <3>6. g \in [0..m -> S] BY <3>4, <3>5
    <3>7. g[0] = first BY <2>3, <3>1, <3>2
    <3>8. ASSUME NEW n \in 1..m PROVE g[n] = T[<<g[n - 1], n>>]
      <4>1. CASE n = m
        <5>1. m - 1 \in 0..m /\ m - 1 # m /\ m \in 0..m BY <3>1
        <5>2. g[m - 1] = f[m - 1] BY <5>1
        <5>3. g[m] = T[<<f[m - 1], m>>] BY <5>1
        <5> QED BY <4>1, <5>2, <5>3
      <4>2. CASE n # m
        <5>1. n \in 1..(m - 1) /\ n - 1 \in 0..(m - 1) /\ n - 1 # m BY <3>1, <4>2
        <5>2. g[n] = f[n] /\ g[n - 1] = f[n - 1] BY <3>1, <4>2, <5>1
        <5>3. f[n] = T[<<f[n - 1], n>>] BY <3>2, <5>1
        <5> QED BY <5>2, <5>3
      <4> QED BY <4>1, <4>2
    <3> HIDE DEF g
    <3>9. Good(m, g) BY <3>7, <3>8
    <3> QED BY <2>1, <3>6, <3>9
  <2> QED BY <2>2, <2>3
<1>2. N \in 0..N /\ N \notin Bad BY ONLY <1>1
<1>3. PICK f \in [0..N -> S] : Good(N, f) BY <1>2
<1> QED BY <1>3 DEF Steps

\* What is so first, and is so next if it was so before, is so of every value.
LEMMA StepsStay ==
    ASSUME NEW N \in Nat, NEW S, NEW f, f[0] \in S, \A n \in 1..N : f[n - 1] \in S => f[n] \in S
    PROVE  \A n \in 0..N : f[n] \in S
<1> DEFINE Bad == {n \in 0..N : f[n] \notin S}
<1>1. ASSUME Bad # {} PROVE FALSE
  <2>1. PICK m \in Bad : \A n \in Bad : m <= n
    <3>1. Bad \in SUBSET (0..N) OBVIOUS
    <3> HIDE DEF Bad
    <3> QED BY <1>1, <3>1, LeastNumber
  <2>2. m # 0 /\ m \in 1..N BY <2>1
  <2>3. m - 1 \in 0..N /\ ~(m <= m - 1) BY <2>2
  <2>4. f[m - 1] \in S BY <2>1, <2>3
  <2> QED BY <2>1, <2>2, <2>4
<1> QED BY <1>1
=============================================================================
