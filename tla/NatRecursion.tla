------------------------------ MODULE NatRecursion ------------------------------
(***************************************************************************)
(* Induction and recursion over the natural numbers in first-order form:   *)
(* the property is a set of numbers, the step a function.  They rest on    *)
(* the order of the natural numbers being well-founded.                    *)
(***************************************************************************)
EXTENDS Integers, WellFoundedInduction, TLAPS

\* A set of natural numbers has a least element.
LEMMA LeastNumber ==
    ASSUME NEW T \in SUBSET Nat, T # {}
    PROVE  \E m \in T : \A k \in T : ~(k < m)
<1>1. IsWellFoundedOn(OpToRel(<, Nat), Nat)
  BY NatLessThanWellFounded
<1>2. PICK m \in T : \A k \in T : ~(<<k, m>> \in OpToRel(<, Nat))
  BY <1>1, WFMin
<1> QED
  BY <1>2 DEF OpToRel

LEMMA Induction ==
    ASSUME NEW P \in SUBSET Nat, 0 \in P, \A n \in P : n + 1 \in P
    PROVE  \A n \in Nat : n \in P
<1> SUFFICES ASSUME Nat \ P # {} PROVE FALSE
  OBVIOUS
<1>1. PICK m \in Nat \ P : \A k \in Nat \ P : ~(k < m)
  BY LeastNumber
<1> QED
  BY <1>1

-----------------------------------------------------------------------------
(* A first value and a step define a sequence of values.                   *)

Follows(f, n, first, step) ==
    f[0] = first /\ \A i \in 0 .. n - 1 : f[i + 1] = step[<<i, f[i]>>]

Recurs(f, first, step) ==
    f[0] = first /\ \A i \in Nat : f[i + 1] = step[<<i, f[i]>>]

\* There is a sequence of any length,
LEMMA Extension ==
    ASSUME NEW S, NEW first \in S, NEW step \in [Nat \X S -> S]
    PROVE  \A n \in Nat : \E f \in [0 .. n -> S] : Follows(f, n, first, step)
<1> DEFINE P == {n \in Nat : \E f \in [0 .. n -> S] : Follows(f, n, first, step)}
<1>1. 0 \in P
  <2>1. [i \in 0 .. 0 |-> first] \in [0 .. 0 -> S]
    OBVIOUS
  <2>2. Follows([i \in 0 .. 0 |-> first], 0, first, step)
    BY DEF Follows
  <2> QED
    BY <2>1, <2>2
<1>2. ASSUME NEW n \in P
      PROVE  n + 1 \in P
  <2>1. n \in Nat
    OBVIOUS
  <2>2. PICK f \in [0 .. n -> S] : Follows(f, n, first, step)
    OBVIOUS
  <2>3. step[<<n, f[n]>>] \in S
    BY <2>1
  <2> DEFINE g == [i \in 0 .. n + 1 |-> IF i = n + 1 THEN step[<<n, f[n]>>] ELSE f[i]]
  <2>4. g \in [0 .. n + 1 -> S]
    BY <2>1, <2>3
  <2>5. g[n + 1] = step[<<n, f[n]>>] /\ \A i \in 0 .. n : g[i] = f[i]
    BY <2>1
  <2> HIDE DEF g, P
  <2>6. Follows(g, n + 1, first, step)
    <3>1. g[0] = first
      BY <2>1, <2>2, <2>5 DEF Follows
    <3>2. ASSUME NEW i \in 0 .. (n + 1) - 1
          PROVE  g[i + 1] = step[<<i, g[i]>>]
      <4>1. CASE i = n
        BY <2>1, <2>5, <4>1
      <4>2. CASE i # n
        <5>1. i \in 0 .. n - 1 /\ i \in 0 .. n /\ i + 1 \in 0 .. n
          BY <2>1, <4>2
        <5> QED
          BY <2>2, <2>5, <5>1 DEF Follows
      <4> QED
        BY <4>1, <4>2
    <3> QED
      BY <3>1, <3>2 DEF Follows
  <2> QED
    BY <2>1, <2>4, <2>6 DEF P
<1>3. \A n \in Nat : n \in P
  <2>1. P \in SUBSET Nat
    OBVIOUS
  <2> HIDE DEF P
  <2> QED
    BY <1>1, <1>2, <2>1, Induction
<1> QED
  BY <1>3

\* and two of them agree as far as both go.
LEMMA Agreement ==
    ASSUME NEW first, NEW step, NEW n \in Nat, NEW m \in Nat, NEW f, NEW g,
           Follows(f, n, first, step), Follows(g, m, first, step)
    PROVE  \A i \in Nat : i <= n /\ i <= m => f[i] = g[i]
<1> DEFINE P == {i \in Nat : i <= n /\ i <= m => f[i] = g[i]}
<1>1. 0 \in P
  BY DEF Follows
<1>2. ASSUME NEW i \in P
      PROVE  i + 1 \in P
  <2>1. i \in Nat /\ (i <= n /\ i <= m => f[i] = g[i])
    OBVIOUS
  <2>2. ASSUME i + 1 <= n, i + 1 <= m
        PROVE  f[i + 1] = g[i + 1]
    <3>1. i \in 0 .. n - 1 /\ i \in 0 .. m - 1 /\ f[i] = g[i]
      BY <2>1, <2>2
    <3> HIDE DEF P
    <3> QED
      BY <3>1 DEF Follows
  <2> QED
    BY <2>1, <2>2
<1>3. \A i \in Nat : i \in P
  <2>1. P \in SUBSET Nat
    OBVIOUS
  <2> HIDE DEF P
  <2> QED
    BY <1>1, <1>2, <2>1, Induction
<1> QED
  BY <1>3

\* So there is one without an end.
LEMMA Recursion ==
    ASSUME NEW S, NEW first \in S, NEW step \in [Nat \X S -> S]
    PROVE  \E f \in [Nat -> S] : Recurs(f, first, step)
<1> DEFINE Part(n) == CHOOSE f \in [0 .. n -> S] : Follows(f, n, first, step)
           f == [n \in Nat |-> Part(n)[n]]
<1>1. \A n \in Nat : Part(n) \in [0 .. n -> S] /\ Follows(Part(n), n, first, step)
  BY Extension
<1> HIDE DEF Part
<1>2. f \in [Nat -> S]
  BY <1>1
<1>3. f[0] = first
  BY <1>1 DEF Follows
<1>4. ASSUME NEW i \in Nat
      PROVE  f[i + 1] = step[<<i, f[i]>>]
  <2>1. Part(i + 1)[i + 1] = step[<<i, Part(i + 1)[i]>>]
    BY <1>1 DEF Follows
  <2>2. Part(i + 1)[i] = Part(i)[i]
    <3>1. i + 1 \in Nat /\ i <= i + 1 /\ i <= i
      OBVIOUS
    <3>2. Follows(Part(i + 1), i + 1, first, step) /\ Follows(Part(i), i, first, step)
      BY <1>1, <3>1
    <3> QED
      BY <3>1, <3>2, Agreement
  <2> QED
    BY <2>1, <2>2
<1> QED
  BY <1>2, <1>3, <1>4 DEF Recurs
=============================================================================
