----------------------------- MODULE NatInduction -----------------------------
(***************************************************************************)
(* Induction over the natural numbers, for sets in place of predicates,    *)
(* and what it says of the functions that go through a sequence.           *)
(***************************************************************************)
EXTENDS Integers, Sequences, WellFoundedInduction, TLAPS

\* A set of natural numbers that is not empty has a least member.
LEMMA NatLeast ==
    ASSUME NEW S \in SUBSET Nat, S # {}
    PROVE  \E n \in S : \A m \in S : n <= m
<1> DEFINE R == OpToRel(<, Nat)
<1>1. IsWellFoundedOn(R, Nat)
  BY NatLessThanWellFounded
<1>2. \A x, y \in Nat : x < y => <<x, y>> \in R
  BY DEF OpToRel
<1> HIDE DEF R
<1>3. \E x \in S : \A y \in S : <<y, x>> \notin R
  BY <1>1, WFMin
<1>4. PICK n \in S : \A m \in S : <<m, n>> \notin R
  BY <1>3
<1>5. \A m \in S : ~(m < n)
  BY <1>2, <1>4
<1> QED BY <1>5

\* What holds of 0, and of n + 1 when it holds of n, holds of all numbers up to N.
LEMMA Induction ==
    ASSUME NEW N \in Nat, NEW S, 0 \in S, \A n \in 0..(N - 1) : n \in S => n + 1 \in S
    PROVE  0..N \subseteq S
<1> SUFFICES ASSUME NEW k \in 0..N, k \notin S PROVE FALSE
  OBVIOUS
<1> DEFINE T == {n \in 0..N : n \notin S}
<1>1. T \in SUBSET Nat /\ T # {}
  OBVIOUS
<1>2. PICK n \in T : \A m \in T : n <= m
  BY <1>1, NatLeast
<1>3. n # 0 /\ n - 1 \in 0..(N - 1) /\ n - 1 \in S
  BY <1>2
<1> QED BY <1>2, <1>3

\* f starts at base and takes a step for each of the first k elements of s.
Iterates(step, base, s, k, f) ==
    f[0] = base /\ \A i \in 1..k : f[i] = step[<<f[i - 1], s[i]>>]

\* Such a function exists, and it stays in the set the steps lead to.
LEMMA Iteration ==
    ASSUME NEW X, NEW Y, NEW step \in [X \X Y -> X], NEW base \in X, NEW s \in Seq(Y)
    PROVE  \E f \in [0..Len(s) -> X] : Iterates(step, base, s, Len(s), f)
<1> DEFINE S == {k \in 0..Len(s) : \E f \in [0..k -> X] : Iterates(step, base, s, k, f)}
<1>1. 0 \in S
  <2> DEFINE f == [i \in 0..0 |-> base]
  <2>1. f \in [0..0 -> X] /\ Iterates(step, base, s, 0, f)
    BY DEF Iterates
  <2> HIDE DEF f
  <2>2. 0 \in 0..Len(s)
    OBVIOUS
  <2> QED BY <2>1, <2>2
<1>2. ASSUME NEW k \in 0..(Len(s) - 1), k \in S PROVE k + 1 \in S
  <2>1. PICK f \in [0..k -> X] : Iterates(step, base, s, k, f)
    BY <1>2
  <2>2. f[k] \in X /\ s[k + 1] \in Y
    OBVIOUS
  <2> DEFINE v == step[<<f[k], s[k + 1]>>]
             g == [i \in 0..(k + 1) |-> IF i = k + 1 THEN v ELSE f[i]]
  <2>3. v \in X
    BY <2>2
  <2>4. ASSUME NEW i \in 1..(k + 1) PROVE g[i] = step[<<g[i - 1], s[i]>>]
    <3>1. CASE i = k + 1
      <4>1. g[i] = v /\ i - 1 = k /\ g[k] = f[k]
        BY <3>1
      <4> HIDE DEF g
      <4> QED BY <4>1, <3>1
    <3>2. CASE i \in 1..k
      <4>1. g[i] = f[i] /\ g[i - 1] = f[i - 1]
        BY <3>2
      <4> HIDE DEF g, v
      <4> QED BY <4>1, <3>2, <2>1 DEF Iterates
    <3> QED BY <3>1, <3>2
  <2> HIDE DEF v
  <2>5. g \in [0..(k + 1) -> X] /\ g[0] = base
    BY <2>3, <2>1 DEF Iterates
  <2> HIDE DEF g
  <2>6. Iterates(step, base, s, k + 1, g)
    BY <2>4, <2>5 DEF Iterates, v
  <2> QED BY <2>5, <2>6
<1>3. 0..Len(s) \subseteq S
  <2> DEFINE N == Len(s)
  <2>1. N \in Nat /\ \A k \in 0..(N - 1) : k \in S => k + 1 \in S
    BY <1>2
  <2> HIDE DEF N, S
  <2>2. 0..N \subseteq S
    BY <1>1, <2>1, Induction
  <2> QED BY <2>2 DEF N
<1>4. Len(s) \in S
  BY <1>3
<1> QED BY <1>4
=============================================================================
