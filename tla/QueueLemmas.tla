------------------------------ MODULE QueueLemmas ------------------------------
(***************************************************************************)
(* Facts about a queue in which nothing is twice, such as the queue of     *)
(* offers between the handlers and a front end: what is in it after an     *)
(* element is appended, or the first one taken.                            *)
(***************************************************************************)
EXTENDS Naturals, Sequences, SequenceTheorems, TLAPS

Contains(q, x) == \E i \in 1 .. Len(q) : q[i] = x

Distinct(q) == \A i, j \in 1 .. Len(q) : q[i] = q[j] => i = j

LEMMA EmptyQueue == Distinct(<<>>) /\ \A x : ~Contains(<<>>, x)
<1>1. Len(<<>>) = 0
  BY EmptySeq
<1> QED
  BY <1>1 DEF Distinct, Contains

\* Appending an element.
LEMMA ContainsAppend ==
    ASSUME NEW S, NEW q \in Seq(S), NEW x \in S
    PROVE  /\ \A y : Contains(Append(q, x), y) <=> Contains(q, y) \/ y = x
           /\ Distinct(q) /\ ~Contains(q, x) => Distinct(Append(q, x))
<1> DEFINE r == Append(q, x)
<1>1. Len(q) \in Nat
  BY LenProperties
<1>2. /\ Len(r) = Len(q) + 1
      /\ \A i \in 1 .. Len(q) : r[i] = q[i]
      /\ r[Len(q) + 1] = x
  BY AppendProperties
<1> HIDE DEF r
<1>3. \A i \in 1 .. Len(r) : i \in 1 .. Len(q) \/ i = Len(q) + 1
  BY <1>1, <1>2
<1>4. /\ \A i \in 1 .. Len(q) : i \in 1 .. Len(r)
      /\ Len(q) + 1 \in 1 .. Len(r)
  BY <1>1, <1>2
<1>5. ASSUME NEW y PROVE Contains(r, y) <=> Contains(q, y) \/ y = x
  BY <1>2, <1>3, <1>4 DEF Contains
<1>6. ASSUME Distinct(q), ~Contains(q, x) PROVE Distinct(r)
  <2> SUFFICES ASSUME NEW i \in 1 .. Len(r), NEW j \in 1 .. Len(r), r[i] = r[j]
               PROVE  i = j
    BY DEF Distinct
  <2>1. CASE i \in 1 .. Len(q) /\ j \in 1 .. Len(q)
    BY <1>2, <1>6, <2>1 DEF Distinct
  <2>2. CASE i \in 1 .. Len(q) /\ j = Len(q) + 1
    BY <1>2, <1>6, <2>2 DEF Contains
  <2>3. CASE i = Len(q) + 1 /\ j \in 1 .. Len(q)
    BY <1>2, <1>6, <2>3 DEF Contains
  <2> QED
    BY <1>3, <2>1, <2>2, <2>3
<1> QED
  BY <1>5, <1>6 DEF r

\* Taking the first element.
LEMMA ContainsTail ==
    ASSUME NEW S, NEW q \in Seq(S), q # <<>>, Distinct(q)
    PROVE  /\ Head(q) \in S
           /\ Contains(q, Head(q))
           /\ \A y : Contains(Tail(q), y) <=> Contains(q, y) /\ y # Head(q)
           /\ Distinct(Tail(q))
<1> DEFINE r == Tail(q)
<1>1. Len(q) \in Nat \ {0}
  BY EmptySeq
<1>2. /\ Head(q) = q[1]
      /\ Head(q) \in S
      /\ Len(r) = Len(q) - 1
      /\ \A i \in 1 .. Len(r) : r[i] = q[i + 1]
  BY HeadTailProperties
<1> HIDE DEF r
<1>3. \A i \in 1 .. Len(r) : i + 1 \in 1 .. Len(q) /\ i + 1 # 1
  BY <1>1, <1>2
<1>4. \A i \in 1 .. Len(q) : i # 1 => i - 1 \in 1 .. Len(r) /\ (i - 1) + 1 = i
  BY <1>1, <1>2
<1>5. 1 \in 1 .. Len(q)
  BY <1>1
<1>6. Contains(q, Head(q))
  BY <1>2, <1>5 DEF Contains
<1>7. ASSUME NEW y PROVE Contains(r, y) <=> Contains(q, y) /\ y # Head(q)
  <2>1. ASSUME Contains(r, y) PROVE Contains(q, y) /\ y # Head(q)
    <3>1. PICK i \in 1 .. Len(r) : r[i] = y
      BY <2>1 DEF Contains
    <3>2. q[i + 1] = y /\ i + 1 \in 1 .. Len(q) /\ i + 1 # 1
      BY <1>2, <1>3, <3>1
    <3> QED
      BY <1>2, <1>5, <3>2 DEF Contains, Distinct
  <2>2. ASSUME Contains(q, y), y # Head(q) PROVE Contains(r, y)
    <3>1. PICK i \in 1 .. Len(q) : q[i] = y
      BY <2>2 DEF Contains
    <3>2. i - 1 \in 1 .. Len(r) /\ (i - 1) + 1 = i
      BY <1>2, <1>4, <2>2, <3>1
    <3>3. r[i - 1] = y
      BY <1>2, <3>1, <3>2
    <3> QED
      BY <3>2, <3>3 DEF Contains
  <2> QED
    BY <2>1, <2>2
<1>8. Distinct(r)
  <2> SUFFICES ASSUME NEW i \in 1 .. Len(r), NEW j \in 1 .. Len(r), r[i] = r[j]
               PROVE  i = j
    BY DEF Distinct
  <2>1. q[i + 1] = q[j + 1]
    BY <1>2
  <2>2. i + 1 = j + 1
    BY <1>3, <2>1 DEF Distinct
  <2> QED
    BY <1>1, <1>2, <2>2
<1> QED
  BY <1>2, <1>6, <1>7, <1>8 DEF r
=============================================================================
