------------------------------- MODULE WireProofs -------------------------------
(***************************************************************************)
(* Proofs about Wire, for bytes of any number of values, fields of any     *)
(* width, names and tickets of any length: numbers survive their encoding, *)
(* an offer is read as it was written, and statuses are read one by one.   *)
(***************************************************************************)
EXTENDS Wire, NatRecursion, SequenceTheorems

Byte == 0 .. Base - 1

-----------------------------------------------------------------------------
(* Numbers.                                                                *)

\* Cutting off bytes, one at a time.
LEMMA ShiftedSteps ==
    ASSUME NEW n \in Nat
    PROVE  /\ Shifted(n, 0) = n
           /\ \A k \in Nat : /\ Shifted(n, k) \in Nat
                             /\ Shifted(n, k + 1) = Shifted(n, k) \div Base
<1> DEFINE Step(q) == [i \in Nat |-> IF i = 0 THEN n ELSE q[i - 1] \div Base]
           step == [x \in Nat \X Nat |-> x[2] \div Base]
           q == CHOOSE q : q = Step(q)
<1>1. step \in [Nat \X Nat -> Nat]
  BY ByteAssumption
<1>2. PICK f \in [Nat -> Nat] : Recurs(f, n, step)
  <2> HIDE DEF step
  <2> QED
    BY <1>1, Recursion
<1>3. f = Step(f)
  <2>1. f[0] = n /\ \A i \in Nat : f[i + 1] = f[i] \div Base
    BY <1>2 DEF Recurs
  <2>2. \A i \in Nat : i # 0 => i - 1 \in Nat /\ (i - 1) + 1 = i
    OBVIOUS
  <2>3. ASSUME NEW i \in Nat
        PROVE  f[i] = IF i = 0 THEN n ELSE f[i - 1] \div Base
    BY <2>1, <2>2
  <2> QED
    BY <2>3
<1>4. q = Step(q)
  <2> HIDE DEF Step
  <2> QED
    BY <1>3
<1>5. \A k : Shifted(n, k) = q[k]
  BY DEF Shifted
<1> HIDE DEF q
<1>6. q[0] = n /\ \A k \in Nat : q[k + 1] = q[k] \div Base
  BY <1>4
<1> DEFINE P == {k \in Nat : q[k] \in Nat}
<1>7. \A k \in Nat : k \in P
  <2>1. P \in SUBSET Nat /\ 0 \in P
    BY <1>6
  <2>2. ASSUME NEW k \in P PROVE k + 1 \in P
    <3>1. k \in Nat /\ q[k] \in Nat /\ q[k + 1] = q[k] \div Base
      BY <1>6
    <3>2. \A m \in Nat : m \div Base \in Nat
      BY ByteAssumption
    <3> QED
      BY <3>1, <3>2
  <2> HIDE DEF P
  <2> QED
    BY <2>1, <2>2, Induction
<1> QED
  BY <1>5, <1>6, <1>7

\* Horner's rule.
LEMMA ValueSteps ==
    ASSUME NEW bytes \in Seq(Byte)
    PROVE  \E v : /\ Value(bytes) = v[Len(bytes)]
                  /\ v[0] = 0
                  /\ \A i \in 1 .. Len(bytes) : v[i] = v[i - 1] * Base + bytes[i]
<1> DEFINE Step(v) == [i \in 0 .. Len(bytes) |->
                         IF i = 0 THEN 0 ELSE v[i - 1] * Base + bytes[i]]
           step == [x \in Nat \X Nat |->
                      IF x[1] + 1 <= Len(bytes) THEN x[2] * Base + bytes[x[1] + 1] ELSE 0]
           v == CHOOSE v : v = Step(v)
<1>1. /\ Len(bytes) \in Nat
      /\ \A i \in 1 .. Len(bytes) : bytes[i] \in Nat
  <2>1. ASSUME NEW i \in 1 .. Len(bytes) PROVE bytes[i] \in Byte
    BY ElementOfSeq
  <2> QED
    BY <2>1, LenProperties, ByteAssumption DEF Byte
<1>2. step \in [Nat \X Nat -> Nat]
  BY <1>1, ByteAssumption
<1>3. PICK f \in [Nat -> Nat] : Recurs(f, 0, step)
  <2> HIDE DEF step
  <2> QED
    BY <1>2, Recursion
<1> DEFINE g == [i \in 0 .. Len(bytes) |-> f[i]]
<1>4. g = Step(g)
  <2>1. ASSUME NEW i \in 1 .. Len(bytes)
        PROVE  g[i] = g[i - 1] * Base + bytes[i]
    <3>1. i - 1 \in Nat /\ (i - 1) + 1 = i /\ i - 1 \in 0 .. Len(bytes) /\ i \in 0 .. Len(bytes)
      BY <1>1
    <3>2. f[i] = step[<<i - 1, f[i - 1]>>]
      BY <1>3, <3>1 DEF Recurs
    <3>3. step[<<i - 1, f[i - 1]>>] = f[i - 1] * Base + bytes[i]
      <4>1. <<i - 1, f[i - 1]>> \in Nat \X Nat /\ (i - 1) + 1 <= Len(bytes)
        <5>1. f[i - 1] \in Nat
          BY <3>1
        <5>2. (i - 1) + 1 <= Len(bytes)
          BY <1>1, <3>1
        <5> HIDE DEF step, g
        <5> QED
          BY <3>1, <5>1, <5>2
      <4> QED
        BY <3>1, <4>1
    <3> QED
      BY <3>1, <3>2, <3>3
  <2>2. g[0] = 0
    BY <1>1, <1>3 DEF Recurs
  <2> HIDE DEF step
  <2>3. ASSUME NEW i \in 0 .. Len(bytes)
        PROVE  g[i] = IF i = 0 THEN 0 ELSE g[i - 1] * Base + bytes[i]
    <3>1. i # 0 => i \in 1 .. Len(bytes)
      BY <1>1
    <3> HIDE DEF g
    <3> QED
      BY <2>1, <2>2, <3>1
  <2> QED
    BY <2>3
<1>5. v = Step(v)
  <2> HIDE DEF Step, g
  <2> QED
    BY <1>4
<1>6. Value(bytes) = v[Len(bytes)]
  BY DEF Value
<1> HIDE DEF v
<1>7. v[0] = 0
  BY <1>1, <1>5
<1>8. ASSUME NEW i \in 1 .. Len(bytes)
      PROVE  v[i] = v[i - 1] * Base + bytes[i]
  <2>1. i \in 0 .. Len(bytes) /\ i # 0
    BY <1>1
  <2> QED
    BY <1>5, <2>1
<1> QED
  BY <1>6, <1>7, <1>8

LEMMA ValueType ==
    ASSUME NEW bytes \in Seq(Byte)
    PROVE  Value(bytes) \in Nat
<1>1. PICK v : /\ Value(bytes) = v[Len(bytes)]
               /\ v[0] = 0
               /\ \A i \in 1 .. Len(bytes) : v[i] = v[i - 1] * Base + bytes[i]
  BY ValueSteps
<1>2. /\ Len(bytes) \in Nat
      /\ \A i \in 1 .. Len(bytes) : bytes[i] \in Nat
  <2>1. ASSUME NEW i \in 1 .. Len(bytes) PROVE bytes[i] \in Byte
    BY ElementOfSeq
  <2> QED
    BY <2>1, LenProperties, ByteAssumption DEF Byte
<1> DEFINE P == {i \in Nat : i <= Len(bytes) => v[i] \in Nat}
<1>3. \A i \in Nat : i \in P
  <2>1. P \in SUBSET Nat /\ 0 \in P
    BY <1>1
  <2>2. ASSUME NEW i \in P PROVE i + 1 \in P
    <3>1. ASSUME i + 1 <= Len(bytes)
          PROVE  v[i + 1] = v[i] * Base + bytes[i + 1] /\ bytes[i + 1] \in Nat
      <4>1. i + 1 \in 1 .. Len(bytes) /\ (i + 1) - 1 = i
        BY <1>2, <3>1
      <4> QED
        BY <1>1, <1>2, <4>1
    <3>2. i \in Nat /\ (i <= Len(bytes) => v[i] \in Nat)
      OBVIOUS
    <3>3. \A m, b \in Nat : m * Base + b \in Nat
      BY ByteAssumption
    <3>4. ASSUME i + 1 <= Len(bytes)
          PROVE  v[i + 1] \in Nat
      <4>1. v[i] \in Nat
        BY <1>2, <3>2, <3>4
      <4> HIDE DEF P
      <4> QED
        BY <3>1, <3>3, <3>4, <4>1
    <3> QED
      BY <3>2, <3>4
  <2> HIDE DEF P
  <2> QED
    BY <2>1, <2>2, Induction
<1> QED
  BY <1>1, <1>2, <1>3

LEMMA WordType ==
    ASSUME NEW n \in Nat, NEW width \in Nat
    PROVE  /\ Word(n, width) \in Seq(Byte)
           /\ Len(Word(n, width)) = width
           /\ \A i \in 1 .. width : Word(n, width)[i] = Shifted(n, width - i) % Base
<1>1. ASSUME NEW i \in 1 .. width PROVE Shifted(n, width - i) % Base \in Byte
  BY ShiftedSteps, ByteAssumption DEF Byte
<1>2. Word(n, width) \in [1 .. width -> Byte]
  BY <1>1 DEF Word
<1> QED
  BY <1>2 DEF Word

\* A number that fits is read as it was written.
THEOREM RoundTrip ==
    ASSUME NEW n \in Nat, NEW width \in Nat, Fits(n, width)
    PROVE  Value(Word(n, width)) = n
<1> DEFINE w == Word(n, width)
<1>1. /\ w \in Seq(Byte) /\ Len(w) = width
      /\ \A i \in 1 .. width : w[i] = Shifted(n, width - i) % Base
  BY WordType
<1> HIDE DEF w
<1>2. PICK v : /\ Value(w) = v[width]
               /\ v[0] = 0
               /\ \A i \in 1 .. width : v[i] = v[i - 1] * Base + w[i]
  BY <1>1, ValueSteps
<1> DEFINE P == {i \in Nat : i <= width => v[i] = Shifted(n, width - i)}
<1>3. \A i \in Nat : i \in P
  <2>1. P \in SUBSET Nat /\ 0 \in P
    BY <1>2 DEF Fits
  <2>2. ASSUME NEW i \in P PROVE i + 1 \in P
    <3>1. i \in Nat /\ (i <= width => v[i] = Shifted(n, width - i))
      OBVIOUS
    <3>2. ASSUME i + 1 <= width
          PROVE  v[i + 1] = Shifted(n, width - (i + 1))
      <4> DEFINE k == width - (i + 1)
      <4>1. k \in Nat /\ k + 1 = width - i /\ i + 1 \in 1 .. width /\ (i + 1) - 1 = i
        BY <3>1, <3>2
      <4> HIDE DEF k
      <4>2. Shifted(n, k) \in Nat /\ Shifted(n, k + 1) = Shifted(n, k) \div Base
        BY <4>1, ShiftedSteps
      <4>3. w[i + 1] = Shifted(n, k) % Base
        BY <1>1, <4>1 DEF k
      <4>4. v[i + 1] = (Shifted(n, k) \div Base) * Base + (Shifted(n, k) % Base)
        BY <1>2, <3>1, <3>2, <4>1, <4>2, <4>3
      <4>5. \A m \in Nat : (m \div Base) * Base + (m % Base) = m
        BY ByteAssumption
      <4> QED
        BY <4>2, <4>4, <4>5 DEF k
    <3> QED
      BY <3>1, <3>2
  <2> HIDE DEF P
  <2> QED
    BY <2>1, <2>2, Induction
<1>4. v[width] = Shifted(n, width - width)
  BY <1>3
<1> QED
  BY <1>2, <1>4, ShiftedSteps DEF w

-----------------------------------------------------------------------------
(* Byte strings.                                                           *)

\* The first n elements of a sequence, and the others.
LEMMA Split ==
    ASSUME NEW S, NEW s \in Seq(S), NEW n \in 0 .. Len(s)
    PROVE  /\ SubSeq(s, 1, n) \in Seq(S) /\ Len(SubSeq(s, 1, n)) = n
           /\ \A i \in 1 .. n : SubSeq(s, 1, n)[i] = s[i]
           /\ SubSeq(s, n + 1, Len(s)) \in Seq(S)
           /\ Len(SubSeq(s, n + 1, Len(s))) = Len(s) - n
           /\ \A i \in 1 .. Len(s) - n : SubSeq(s, n + 1, Len(s))[i] = s[n + i]
<1>1. Len(s) \in Nat /\ \A i \in 1 .. Len(s) : s[i] \in S
  BY LenProperties, ElementOfSeq
<1>2. (\A i \in 1 .. n : s[i] \in S) /\ (\A i \in n + 1 .. Len(s) : s[i] \in S)
  BY <1>1
<1>3. /\ SubSeq(s, 1, n) \in Seq(S)
      /\ Len(SubSeq(s, 1, n)) = IF 1 <= n THEN n - 1 + 1 ELSE 0
      /\ \A i \in 1 .. n - 1 + 1 : SubSeq(s, 1, n)[i] = s[1 + i - 1]
  BY <1>1, <1>2, SubSeqProperties
<1>4. /\ SubSeq(s, n + 1, Len(s)) \in Seq(S)
      /\ Len(SubSeq(s, n + 1, Len(s)))
           = IF n + 1 <= Len(s) THEN Len(s) - (n + 1) + 1 ELSE 0
      /\ \A i \in 1 .. Len(s) - (n + 1) + 1 :
           SubSeq(s, n + 1, Len(s))[i] = s[(n + 1) + i - 1]
  BY <1>1, <1>2, SubSeqProperties
<1>5. \A i \in 1 .. Len(s) - n :
        i \in 1 .. Len(s) - (n + 1) + 1 /\ (n + 1) + i - 1 = n + i
  BY <1>1
<1>6. \A i \in 1 .. n : i \in 1 .. n - 1 + 1 /\ 1 + i - 1 = i
  OBVIOUS
<1> QED
  BY <1>1, <1>3, <1>4, <1>5, <1>6

LEMMA Rejoin ==
    ASSUME NEW S, NEW s \in Seq(S), NEW n \in 0 .. Len(s)
    PROVE  SubSeq(s, 1, n) \o SubSeq(s, n + 1, Len(s)) = s
<1> DEFINE a == SubSeq(s, 1, n)
           b == SubSeq(s, n + 1, Len(s))
<1>1. /\ Len(s) \in Nat
      /\ a \in Seq(S) /\ Len(a) = n /\ \A i \in 1 .. n : a[i] = s[i]
      /\ b \in Seq(S) /\ Len(b) = Len(s) - n /\ \A i \in 1 .. Len(s) - n : b[i] = s[n + i]
  BY Split, LenProperties
<1> HIDE DEF a, b
<1>2. /\ a \o b \in Seq(S)
      /\ Len(a \o b) = Len(a) + Len(b)
      /\ \A i \in 1 .. Len(a) + Len(b) : (a \o b)[i] = IF i <= Len(a) THEN a[i] ELSE b[i - Len(a)]
  BY <1>1, ConcatProperties
<1>3. \A i \in 1 .. Len(s) : (a \o b)[i] = s[i]
  BY <1>1, <1>2
<1>4. Len(a \o b) = Len(s)
  BY <1>1, <1>2
<1> QED
  BY <1>2, <1>3, <1>4, SeqEqual DEF a, b

\* Concatenation of byte strings.
LEMMA Associates ==
    ASSUME NEW a \in Seq(Byte), NEW b \in Seq(Byte), NEW c \in Seq(Byte)
    PROVE  (a \o b) \o c = a \o (b \o c)
BY ConcatAssociative

LEMMA Cancels ==
    ASSUME NEW a \in Seq(Byte), NEW b \in Seq(Byte), NEW c \in Seq(Byte), a \o b = a \o c
    PROVE  b = c
BY ConcatSimplifications

-----------------------------------------------------------------------------
(* A byte string that holds statuses, one after another.                   *)

LEMMA StatusTags == \A s \in Status : s.tag \in 0 .. 4 /\ (s.tag # 2 => s.count = 0)
BY DEF Status

LEMMA StatusEncoded ==
    ASSUME NEW s \in Status
    PROVE  /\ StatusEncoding(s) \in Seq(Byte)
           /\ Len(StatusEncoding(s)) = IF s.tag = 2 THEN SizeBytes + 1 ELSE 1
           /\ StatusEncoding(s)[1] = s.tag
           /\ s.tag = 2 => /\ s.count \in Nat /\ Fits(s.count, SizeBytes)
                           /\ StatusEncoding(s) = <<2>> \o Word(s.count, SizeBytes)
           /\ s.tag # 2 => StatusEncoding(s) = <<s.tag>>
<1>1. /\ s.tag \in Byte /\ <<s.tag>> \in Seq(Byte)
      /\ Len(<<s.tag>>) = 1 /\ <<s.tag>>[1] = s.tag
  BY StatusTags, ByteAssumption DEF Byte
<1>2. CASE s.tag = 2
  <2>1. s.count \in Nat /\ Fits(s.count, SizeBytes) /\ SizeBytes \in Nat
    BY <1>2, CountsAssumption, WidthAssumption DEF Status
  <2> DEFINE w == Word(s.count, SizeBytes)
  <2>2. w \in Seq(Byte) /\ Len(w) = SizeBytes
    BY <2>1, WordType
  <2>3. StatusEncoding(s) = <<s.tag>> \o w
    BY <1>2 DEF StatusEncoding
  <2> HIDE DEF w
  <2>4. /\ <<s.tag>> \o w \in Seq(Byte)
        /\ Len(<<s.tag>> \o w) = Len(<<s.tag>>) + Len(w)
        /\ \A i \in 1 .. Len(<<s.tag>>) + Len(w) :
             (<<s.tag>> \o w)[i] = IF i <= Len(<<s.tag>>) THEN <<s.tag>>[i]
                                   ELSE w[i - Len(<<s.tag>>)]
    BY <1>1, <2>2, ConcatProperties
  <2>5. Len(<<s.tag>> \o w) = SizeBytes + 1 /\ (<<s.tag>> \o w)[1] = s.tag
    BY <1>1, <2>1, <2>2, <2>4
  <2> QED
    BY <1>2, <2>1, <2>3, <2>4, <2>5 DEF w
<1>3. CASE s.tag # 2
  <2>1. StatusEncoding(s) = <<s.tag>> \o <<>>
    BY <1>3 DEF StatusEncoding
  <2>2. StatusEncoding(s) = <<s.tag>>
    BY <1>1, <2>1, ConcatEmptySeq
  <2> QED
    BY <1>1, <1>3, <2>2
<1> QED
  BY <1>2, <1>3

\* at[i] is where the i-th status of q ends in r, which holds those after
\* the k-th.
Ends(at, r, q, k) ==
    /\ at[k] = 0 /\ at[Len(q)] = Len(r)
    /\ \A i, j \in k .. Len(q) : i <= j => at[i] <= at[j]
    /\ \A i \in k + 1 .. Len(q) :
         /\ at[i] = at[i - 1] + Len(StatusEncoding(q[i]))
         /\ \A j \in 1 .. Len(StatusEncoding(q[i])) :
              r[at[i - 1] + j] = StatusEncoding(q[i])[j]

Holds(r, q, k) ==
    k \in 0 .. Len(q) /\ \E at \in [k .. Len(q) -> Nat] : Ends(at, r, q, k)

LEMMA HoldsNothing ==
    ASSUME NEW q \in Seq(Status)
    PROVE  Holds(<<>>, q, Len(q))
<1> DEFINE at == [i \in Len(q) .. Len(q) |-> 0]
<1>1. Len(q) \in Nat /\ Len(<<>>) = 0
  BY LenProperties, EmptySeq
<1>2. at \in [Len(q) .. Len(q) -> Nat] /\ Ends(at, <<>>, q, Len(q))
  BY <1>1 DEF Ends
<1>3. Len(q) \in 0 .. Len(q)
  BY <1>1
<1> HIDE DEF at
<1> QED
  BY <1>2, <1>3 DEF Holds

\* Another status is written behind the others.
LEMMA HoldsWrite ==
    ASSUME NEW r \in Seq(Byte), NEW q \in Seq(Status), NEW s \in Status, NEW k \in Nat,
           Holds(r, q, k)
    PROVE  Holds(r \o StatusEncoding(s), Append(q, s), k)
<1> DEFINE e == StatusEncoding(s)
           p == Append(q, s)
           t == r \o e
           n == Len(q)
<1>1. /\ e \in Seq(Byte) /\ Len(e) \in Nat
      /\ Len(r) \in Nat /\ n \in Nat
  BY StatusEncoded, LenProperties
<1>2. Len(p) = n + 1 /\ p[n + 1] = s /\ \A i \in 1 .. n : p[i] = q[i]
  BY AppendProperties
<1> HIDE DEF e
<1>3. /\ Len(t) = Len(r) + Len(e)
      /\ \A i \in 1 .. Len(r) + Len(e) : t[i] = IF i <= Len(r) THEN r[i] ELSE e[i - Len(r)]
  BY <1>1, ConcatProperties
<1>4. PICK at \in [k .. n -> Nat] : Ends(at, r, q, k)
  BY DEF Holds
<1>5. k \in 0 .. n
  BY DEF Holds
<1> DEFINE bt == [i \in k .. n + 1 |-> IF i = n + 1 THEN Len(t) ELSE at[i]]
<1> HIDE DEF p, t, n
<1>6. /\ bt \in [k .. n + 1 -> Nat]
      /\ bt[n + 1] = Len(t)
      /\ \A i \in k .. n : bt[i] = at[i] /\ at[i] \in Nat
  BY <1>1, <1>3, <1>5
<1> HIDE DEF bt
<1>7. /\ at[k] = 0 /\ at[n] = Len(r)
      /\ \A i, j \in k .. n : i <= j => at[i] <= at[j]
      /\ \A i \in k + 1 .. n :
           /\ at[i] = at[i - 1] + Len(StatusEncoding(q[i]))
           /\ \A j \in 1 .. Len(StatusEncoding(q[i])) :
                r[at[i - 1] + j] = StatusEncoding(q[i])[j]
  BY <1>4 DEF Ends, n
<1>8. \A i, j \in k .. n + 1 : i <= j => bt[i] <= bt[j]
  <2> SUFFICES ASSUME NEW i \in k .. n + 1, NEW j \in k .. n + 1, i <= j
               PROVE  bt[i] <= bt[j]
    OBVIOUS
  <2>1. CASE j \in k .. n
    <3>1. i \in k .. n
      BY <1>1, <2>1
    <3> QED
      BY <1>6, <1>7, <2>1, <3>1
  <2>2. CASE j = n + 1
    <3>1. CASE i = n + 1
      BY <1>1, <1>3, <1>6, <2>2, <3>1
    <3>2. CASE i \in k .. n
      <4>1. n \in k .. n /\ i <= n
        BY <1>1, <1>5, <3>2
      <4>2. at[i] <= Len(r)
        BY <1>7, <3>2, <4>1
      <4> QED
        BY <1>1, <1>3, <1>6, <2>2, <3>2, <4>2
    <3> QED
      BY <1>1, <1>5, <3>1, <3>2
  <2> QED
    BY <1>1, <1>5, <2>1, <2>2
<1>9. ASSUME NEW i \in k + 1 .. n + 1
      PROVE  /\ bt[i] = bt[i - 1] + Len(StatusEncoding(p[i]))
             /\ \A j \in 1 .. Len(StatusEncoding(p[i])) :
                  t[bt[i - 1] + j] = StatusEncoding(p[i])[j]
  <2>1. CASE i = n + 1
    <3>1. p[i] = s /\ i - 1 = n /\ n \in k .. n
      BY <1>1, <1>2, <1>5, <2>1 DEF n
    <3>2. bt[i] = Len(r) + Len(e) /\ bt[i - 1] = Len(r)
      BY <1>3, <1>6, <1>7, <2>1, <3>1
    <3>3. \A j \in 1 .. Len(e) : t[Len(r) + j] = e[j]
      BY <1>1, <1>3
    <3> QED
      BY <3>1, <3>2, <3>3 DEF e
  <2>2. CASE i \in k + 1 .. n
    <3>1. i \in 1 .. n /\ i \in k .. n /\ i - 1 \in k .. n /\ n \in k .. n /\ i <= n
      BY <1>1, <1>5, <2>2
    <3>2. p[i] = q[i] /\ q[i] \in Status
      BY <1>2, <3>1, ElementOfSeq DEF n
    <3>3. bt[i] = at[i] /\ bt[i - 1] = at[i - 1] /\ at[i] \in Nat /\ at[i - 1] \in Nat
      BY <1>6, <3>1
    <3>4. /\ at[i] = at[i - 1] + Len(StatusEncoding(q[i]))
          /\ \A j \in 1 .. Len(StatusEncoding(q[i])) :
               r[at[i - 1] + j] = StatusEncoding(q[i])[j]
          /\ at[i] <= Len(r)
      BY <1>7, <2>2, <3>1
    <3>5. Len(StatusEncoding(q[i])) \in Nat
      BY <3>2, StatusEncoded, LenProperties
    <3>6. \A j \in 1 .. Len(StatusEncoding(q[i])) : t[at[i - 1] + j] = r[at[i - 1] + j]
      <4> SUFFICES ASSUME NEW j \in 1 .. Len(StatusEncoding(q[i]))
                   PROVE  t[at[i - 1] + j] = r[at[i - 1] + j]
        OBVIOUS
      <4> DEFINE x == at[i - 1] + j
      <4>1. x \in 1 .. Len(r)
        BY <1>1, <3>3, <3>4, <3>5
      <4> HIDE DEF x
      <4>2. x \in 1 .. Len(r) + Len(e) /\ x <= Len(r)
        BY <1>1, <4>1
      <4>3. t[x] = r[x]
        BY <1>3, <4>2
      <4> QED
        BY <4>3 DEF x
    <3> QED
      BY <3>2, <3>3, <3>4, <3>6
  <2> QED
    BY <1>1, <1>5, <2>1, <2>2
<1>10. bt[k] = 0
  BY <1>1, <1>5, <1>6, <1>7
<1>11. Ends(bt, t, p, k)
  BY <1>1, <1>2, <1>6, <1>8, <1>9, <1>10 DEF Ends, n
<1>12. bt \in [k .. Len(p) -> Nat] /\ k \in 0 .. Len(p)
  BY <1>1, <1>2, <1>5, <1>6 DEF n
<1> QED
  BY <1>11, <1>12 DEF Holds, t, p, e

\* What is there begins with the next status.
LEMMA HoldsRead ==
    ASSUME NEW r \in Seq(Byte), r # <<>>, NEW q \in Seq(Status), NEW k \in Nat,
           Holds(r, q, k)
    PROVE  /\ k + 1 \in 1 .. Len(q)
           /\ \E rest \in Seq(Byte) :
                r = StatusEncoding(q[k + 1]) \o rest /\ Holds(rest, q, k + 1)
<1> DEFINE n == Len(q)
           e == StatusEncoding(q[k + 1])
           m == Len(e)
           rest == SubSeq(r, m + 1, Len(r))
<1>1. n \in Nat /\ Len(r) \in Nat \ {0}
  BY LenProperties, EmptySeq
<1>2. PICK at \in [k .. n -> Nat] : Ends(at, r, q, k)
  BY DEF Holds
<1>3. k \in 0 .. n
  BY DEF Holds
<1> HIDE DEF n
<1>4. /\ at[k] = 0 /\ at[n] = Len(r)
      /\ \A i, j \in k .. n : i <= j => at[i] <= at[j]
      /\ \A i \in k + 1 .. n :
           /\ at[i] = at[i - 1] + Len(StatusEncoding(q[i]))
           /\ \A j \in 1 .. Len(StatusEncoding(q[i])) :
                r[at[i - 1] + j] = StatusEncoding(q[i])[j]
  BY <1>2 DEF Ends, n
<1>5. k # n
  BY <1>1, <1>4
<1>6. /\ k + 1 \in 1 .. n /\ k + 1 \in k + 1 .. n /\ (k + 1) - 1 = k
      /\ k + 1 \in k .. n /\ n \in k .. n
  BY <1>1, <1>3, <1>5
<1>7. q[k + 1] \in Status
  BY <1>6, ElementOfSeq DEF n
<1>8. e \in Seq(Byte) /\ m \in Nat
  BY <1>7, StatusEncoded, LenProperties
<1> HIDE DEF e
<1>9. at[k + 1] = m /\ m <= Len(r) /\ \A j \in 1 .. m : r[j] = e[j]
  <2>1. /\ at[k + 1] = at[k] + m
        /\ \A j \in 1 .. m : r[at[k] + j] = e[j]
    <3>1. /\ at[k + 1] = at[(k + 1) - 1] + Len(StatusEncoding(q[k + 1]))
          /\ \A j \in 1 .. Len(StatusEncoding(q[k + 1])) :
               r[at[(k + 1) - 1] + j] = StatusEncoding(q[k + 1])[j]
      BY <1>4, <1>6
    <3> QED
      BY <1>6, <3>1 DEF e
  <2>2. at[k + 1] <= at[n]
    <3>1. k + 1 \in k .. n /\ n \in k .. n /\ k + 1 <= n
      BY <1>1, <1>6
    <3> QED
      BY <1>4, <3>1
  <2>3. 0 + m = m /\ \A j \in 1 .. m : 0 + j = j
    BY <1>8
  <2> QED
    BY <1>4, <2>1, <2>2, <2>3
<1> HIDE DEF m
<1>10. m \in 0 .. Len(r)
  BY <1>1, <1>8, <1>9
<1>11. /\ SubSeq(r, 1, m) \in Seq(Byte) /\ Len(SubSeq(r, 1, m)) = m
       /\ \A i \in 1 .. m : SubSeq(r, 1, m)[i] = r[i]
       /\ rest \in Seq(Byte) /\ Len(rest) = Len(r) - m
       /\ \A i \in 1 .. Len(r) - m : rest[i] = r[m + i]
  BY <1>10, Split
<1>12. SubSeq(r, 1, m) = e
  BY <1>8, <1>9, <1>11, SeqEqual DEF m
<1>13. r = e \o rest
  BY <1>10, <1>12, Rejoin
<1> HIDE DEF rest
<1> DEFINE bt == [i \in k + 1 .. n |-> at[i] - m]
<1>14. ASSUME NEW i \in k + 1 .. n
       PROVE  at[i] \in Nat /\ m <= at[i] /\ at[i] <= Len(r) /\ bt[i] = at[i] - m
  <2>1. i \in k .. n /\ k + 1 <= i /\ i <= n
    BY <1>1, <1>6
  <2> QED
    BY <1>4, <1>6, <1>9, <2>1
<1>15. bt \in [k + 1 .. n -> Nat]
  BY <1>8, <1>14
<1> HIDE DEF bt
<1>16. bt[k + 1] = 0 /\ bt[n] = Len(rest)
  <2>1. n \in k + 1 .. n /\ k + 1 \in k + 1 .. n
    BY <1>1, <1>6
  <2>2. bt[k + 1] = at[k + 1] - m /\ bt[n] = at[n] - m
    BY <1>14, <2>1
  <2> QED
    BY <1>4, <1>8, <1>9, <1>11, <2>2
<1>17. \A i, j \in k + 1 .. n : i <= j => bt[i] <= bt[j]
  <2> SUFFICES ASSUME NEW i \in k + 1 .. n, NEW j \in k + 1 .. n, i <= j
               PROVE  bt[i] <= bt[j]
    OBVIOUS
  <2>1. i \in k .. n /\ j \in k .. n
    BY <1>1
  <2>2. at[i] <= at[j]
    BY <1>4, <2>1
  <2> QED
    BY <1>8, <1>14, <2>2
<1>18. ASSUME NEW i \in (k + 1) + 1 .. n
       PROVE  /\ bt[i] = bt[i - 1] + Len(StatusEncoding(q[i]))
              /\ \A j \in 1 .. Len(StatusEncoding(q[i])) :
                   rest[bt[i - 1] + j] = StatusEncoding(q[i])[j]
  <2>1. i \in 1 .. n /\ i \in k + 1 .. n /\ i - 1 \in k + 1 .. n
    BY <1>1
  <2>2. q[i] \in Status
    BY <2>1, ElementOfSeq DEF n
  <2>3. Len(StatusEncoding(q[i])) \in Nat
    BY <2>2, StatusEncoded, LenProperties
  <2>4. /\ at[i] = at[i - 1] + Len(StatusEncoding(q[i]))
        /\ \A j \in 1 .. Len(StatusEncoding(q[i])) :
             r[at[i - 1] + j] = StatusEncoding(q[i])[j]
    BY <1>4, <2>1
  <2>5. /\ at[i] \in Nat /\ at[i] <= Len(r) /\ bt[i] = at[i] - m
        /\ at[i - 1] \in Nat /\ m <= at[i - 1] /\ bt[i - 1] = at[i - 1] - m
    BY <1>14, <2>1
  <2>6. bt[i] = bt[i - 1] + Len(StatusEncoding(q[i]))
    BY <1>8, <2>3, <2>4, <2>5
  <2>7. ASSUME NEW j \in 1 .. Len(StatusEncoding(q[i]))
        PROVE  rest[bt[i - 1] + j] = r[at[i - 1] + j]
    <3>1. /\ bt[i - 1] + j \in 1 .. Len(r) - m
          /\ m + (bt[i - 1] + j) = at[i - 1] + j
      <4> DEFINE a == at[i - 1]
                 l == Len(StatusEncoding(q[i]))
      <4>1. /\ a \in Nat /\ l \in Nat /\ m \in Nat /\ Len(r) \in Nat /\ j \in 1 .. l
            /\ m <= a /\ a + l <= Len(r) /\ bt[i - 1] = a - m
        BY <1>1, <1>8, <2>3, <2>4, <2>5
      <4> HIDE DEF a, l
      <4>2. (a - m) + j \in 1 .. Len(r) - m /\ m + ((a - m) + j) = a + j
        BY <4>1
      <4> QED
        BY <4>1, <4>2 DEF a
    <3> QED
      BY <1>11, <3>1
  <2> QED
    BY <2>4, <2>6, <2>7
<1>19. Ends(bt, rest, q, k + 1)
  BY <1>16, <1>17, <1>18 DEF Ends, n
<1>20. Holds(rest, q, k + 1)
  <2>1. k + 1 \in 0 .. n
    BY <1>1, <1>6
  <2> QED
    BY <1>15, <1>19, <2>1 DEF Holds, n
<1> QED
  BY <1>6, <1>11, <1>13, <1>20 DEF n, e

-----------------------------------------------------------------------------
(* Types.  They need the length of the name that is being read, which is   *)
(* within the limit once the reader has gone on to the name.               *)

Typed ==
    /\ offer \in Offers /\ sent \in 0 .. Len(Encoding)
    /\ up \in Seq(Byte) /\ unsent \in Seq(Byte) /\ down \in Seq(Byte)
    /\ parsed \in [length : Nat, name : Seq(Byte), size : Nat, ticket : Seq(Byte)]
    /\ Len(parsed.name) <= NameMax
    /\ field = "name" => parsed.length <= NameMax
    /\ field \in {"length", "name", "size", "ticket", "done", "refused"}
    /\ expects \in {"decision", "status", "count", "end", "error"}
    /\ wrote \in Seq(Status) /\ got \in Seq(Status) /\ Len(wrote) <= MaxStatuses
    /\ finished \in BOOLEAN /\ lost \in BOOLEAN

LEMMA TypedIsTypeOK == Typed => TypeOK
BY DEF Typed, TypeOK, Byte

LEMMA OfferFacts ==
    ASSUME NEW o \in Offers
    PROVE  /\ o.name \in Seq(Byte) /\ Len(o.name) \in Nat
           /\ o.size \in Nat /\ Fits(o.size, SizeBytes)
           /\ o.ticket \in Tickets /\ o.ticket \in Seq(Byte)
           /\ Len(o.ticket) \in Nat /\ Len(o.ticket) <= TicketMax
<1>1. /\ o.name \in Seq(Byte) /\ o.size \in Nat /\ Fits(o.size, SizeBytes)
      /\ o.ticket \in Tickets
  BY OffersAssumption DEF Byte
<1>2. o.ticket \in Seq(Byte) /\ Len(o.ticket) \in 1 .. TicketMax
  BY <1>1, TicketsAssumption DEF Byte
<1>3. TicketMax \in Nat
  BY LimitAssumption
<1> QED
  BY <1>1, <1>2, <1>3, LenProperties

\* The four parts of an encoded offer.
LEMMA EncodingParts ==
    ASSUME offer \in Offers
    PROVE  /\ Encoding \in Seq(Byte)
           /\ Len(Encoding) = LenBytes + Len(offer.name) + SizeBytes + Len(offer.ticket)
           /\ \A i \in 1 .. LenBytes : Encoding[i] = Word(Len(offer.name), LenBytes)[i]
           /\ \A i \in 1 .. Len(offer.name) : Encoding[LenBytes + i] = offer.name[i]
           /\ \A i \in 1 .. SizeBytes :
                Encoding[LenBytes + Len(offer.name) + i] = Word(offer.size, SizeBytes)[i]
           /\ \A i \in 1 .. Len(offer.ticket) :
                Encoding[LenBytes + Len(offer.name) + SizeBytes + i] = offer.ticket[i]
<1> DEFINE a == Word(Len(offer.name), LenBytes)
           b == offer.name
           c == Word(offer.size, SizeBytes)
           d == offer.ticket
           ab == a \o b
           abc == ab \o c
<1>1. LenBytes \in Nat /\ SizeBytes \in Nat
  BY WidthAssumption
<1>2. /\ b \in Seq(Byte) /\ Len(b) \in Nat /\ d \in Seq(Byte) /\ Len(d) \in Nat
      /\ offer.size \in Nat
  BY OfferFacts
<1>3. /\ a \in Seq(Byte) /\ Len(a) = LenBytes
      /\ c \in Seq(Byte) /\ Len(c) = SizeBytes
  BY <1>1, <1>2, WordType
<1>4. Encoding = abc \o d
  BY DEF Encoding
<1> HIDE DEF a, b, c, d
<1>5. /\ ab \in Seq(Byte) /\ Len(ab) = Len(a) + Len(b)
      /\ \A i \in 1 .. Len(a) + Len(b) : ab[i] = IF i <= Len(a) THEN a[i] ELSE b[i - Len(a)]
  BY <1>2, <1>3, ConcatProperties
<1> HIDE DEF ab
<1>6. /\ abc \in Seq(Byte) /\ Len(abc) = Len(ab) + Len(c)
      /\ \A i \in 1 .. Len(ab) + Len(c) : abc[i] = IF i <= Len(ab) THEN ab[i] ELSE c[i - Len(ab)]
  <2>1. ab \in Seq(Byte) /\ c \in Seq(Byte)
    BY <1>3, <1>5
  <2> QED
    BY <2>1, ConcatProperties
<1> HIDE DEF abc
<1>7. /\ Encoding \in Seq(Byte) /\ Len(Encoding) = Len(abc) + Len(d)
      /\ \A i \in 1 .. Len(abc) + Len(d) :
           Encoding[i] = IF i <= Len(abc) THEN abc[i] ELSE d[i - Len(abc)]
  <2>1. abc \in Seq(Byte) /\ d \in Seq(Byte)
    BY <1>2, <1>6
  <2> QED
    BY <1>4, <2>1, ConcatProperties
<1>8. Len(Encoding) = LenBytes + Len(b) + SizeBytes + Len(d)
  BY <1>1, <1>2, <1>3, <1>5, <1>6, <1>7
<1>9. ASSUME NEW i \in 1 .. Len(ab) PROVE Encoding[i] = ab[i]
  <2>1. i \in 1 .. Len(ab) + Len(c) /\ i <= Len(ab) /\ Len(ab) \in Nat
    BY <1>1, <1>2, <1>3, <1>5
  <2>2. i \in 1 .. Len(abc) + Len(d) /\ i <= Len(abc)
    BY <1>1, <1>2, <1>3, <1>6, <2>1
  <2> QED
    BY <1>6, <1>7, <2>1, <2>2
<1>10. ASSUME NEW i \in 1 .. LenBytes PROVE Encoding[i] = a[i]
  <2>1. i \in 1 .. Len(a) + Len(b) /\ i <= Len(a)
    BY <1>1, <1>2, <1>3
  <2> QED
    BY <1>5, <1>9, <2>1
<1>11. ASSUME NEW i \in 1 .. Len(b) PROVE Encoding[LenBytes + i] = b[i]
  <2>1. /\ LenBytes + i \in 1 .. Len(a) + Len(b) /\ ~(LenBytes + i <= Len(a))
        /\ (LenBytes + i) - Len(a) = i
    BY <1>1, <1>2, <1>3
  <2> QED
    BY <1>5, <1>9, <2>1
<1>12. ASSUME NEW i \in 1 .. SizeBytes PROVE Encoding[LenBytes + Len(b) + i] = c[i]
  <2> DEFINE m == LenBytes + Len(b) + i
  <2>1. Len(ab) = LenBytes + Len(b)
    BY <1>3, <1>5
  <2>2. /\ m \in 1 .. Len(ab) + Len(c) /\ ~(m <= Len(ab)) /\ m - Len(ab) = i
        /\ Len(ab) \in Nat
    BY <1>1, <1>2, <1>3, <2>1
  <2> HIDE DEF m
  <2>3. m \in 1 .. Len(abc) + Len(d) /\ m <= Len(abc)
    BY <1>1, <1>2, <1>3, <1>6, <2>2
  <2> QED
    BY <1>6, <1>7, <2>2, <2>3 DEF m
<1>13. ASSUME NEW i \in 1 .. Len(d) PROVE Encoding[LenBytes + Len(b) + SizeBytes + i] = d[i]
  <2>1. Len(abc) = LenBytes + Len(b) + SizeBytes
    BY <1>1, <1>2, <1>3, <1>5, <1>6
  <2>2. /\ LenBytes + Len(b) + SizeBytes + i \in 1 .. Len(abc) + Len(d)
        /\ ~(LenBytes + Len(b) + SizeBytes + i <= Len(abc))
        /\ (LenBytes + Len(b) + SizeBytes + i) - Len(abc) = i
    BY <1>1, <1>2, <2>1
  <2> QED
    BY <1>7, <2>2
<1> QED
  BY <1>7, <1>8, <1>10, <1>11, <1>12, <1>13 DEF a, b, c, d

LEMMA TypedInit == Init => Typed
<1> SUFFICES ASSUME Init PROVE Typed
  OBVIOUS
<1>1. /\ <<>> \in Seq(Byte) /\ Len(<<>>) = 0 /\ <<>> \in Seq(Status)
  BY EmptySeq
<1>2. sent \in 0 .. Len(Encoding)
  BY EncodingParts, LenProperties DEF Init
<1>3. parsed \in [length : Nat, name : Seq(Byte), size : Nat, ticket : Seq(Byte)]
  BY <1>1 DEF Init
<1>4. 0 <= NameMax /\ 0 <= MaxStatuses
  BY LimitAssumption
<1> QED
  BY <1>1, <1>2, <1>3, <1>4 DEF Init, Typed

\* A read takes the first n bytes.
LEMMA ArrivedType ==
    ASSUME Typed, NEW n \in Nat, n <= Len(up)
    PROVE  /\ Arrived(n) \in Seq(Byte) /\ Len(Arrived(n)) = n
           /\ \A i \in 1 .. n : Arrived(n)[i] = up[i]
           /\ SubSeq(up, n + 1, Len(up)) \in Seq(Byte)
           /\ Len(SubSeq(up, n + 1, Len(up))) = Len(up) - n
           /\ \A i \in 1 .. Len(up) - n : SubSeq(up, n + 1, Len(up))[i] = up[n + i]
<1>1. up \in Seq(Byte) /\ n \in 0 .. Len(up)
  BY LenProperties DEF Typed
<1> QED
  BY <1>1, Split DEF Arrived

ReadStep == ReadLength \/ ReadName \/ ReadSize \/ ReadTicket

LEMMA ReadTyping ==
    ASSUME Typed, ReadStep
    PROVE  Typed'
<1>1. LenBytes \in Nat /\ SizeBytes \in Nat /\ up \in Seq(Byte) /\ Len(up) \in Nat
  BY WidthAssumption, LenProperties DEF Typed
<1>2. Encoding' = Encoding
  BY DEF ReadStep, ReadLength, ReadName, ReadSize, ReadTicket, Read, Encoding
<1>3. UNCHANGED <<offer, sent, finished, statusVars, lost>>
  BY DEF ReadStep, ReadLength, ReadName, ReadSize, ReadTicket, Read
<1>4. ASSUME NEW this \in {"length", "name", "size", "ticket"}, NEW n \in Nat, n <= Len(up),
             NEW next, next \in {"name", "size", "ticket", "done", "refused"},
             NEW result \in [length : Nat, name : Seq(Byte), size : Nat, ticket : Seq(Byte)],
             Len(result.name) <= NameMax, next = "name" => result.length <= NameMax,
             Read(this, n, next, result)
      PROVE  Typed'
  <2>1. up' \in Seq(Byte)
    BY <1>4, ArrivedType DEF Read
  <2> QED
    BY <1>2, <1>3, <1>4, <2>1 DEF Read, Typed, statusVars
<1>5. CASE ReadLength
  <2> DEFINE n == Value(Arrived(LenBytes))
  <2>1. n \in Nat
    BY <1>1, <1>5, ArrivedType, ValueType DEF ReadLength, Read
  <2>2. Read("length", LenBytes, IF n <= NameMax THEN "name" ELSE "refused", [parsed EXCEPT !.length = n])
    BY <1>5 DEF ReadLength
  <2> HIDE DEF n
  <2>3. LenBytes <= Len(up)
    BY <2>2 DEF Read
  <2>4. /\ [parsed EXCEPT !.length = n] \in [length : Nat, name : Seq(Byte), size : Nat, ticket : Seq(Byte)]
        /\ [parsed EXCEPT !.length = n].name = parsed.name
        /\ [parsed EXCEPT !.length = n].length = n
    BY <2>1 DEF Typed
  <2>5. Len(parsed.name) <= NameMax
    BY DEF Typed
  <2> QED
    BY <1>1, <1>4, <2>2, <2>3, <2>4, <2>5
<1>6. CASE ReadName
  <2>1. parsed.length \in Nat /\ parsed.length <= NameMax /\ parsed.length <= Len(up)
    BY <1>6 DEF ReadName, Read, Typed
  <2>2. Arrived(parsed.length) \in Seq(Byte) /\ Len(Arrived(parsed.length)) = parsed.length
    BY <2>1, ArrivedType
  <2>3. /\ [parsed EXCEPT !.name = Arrived(parsed.length)]
             \in [length : Nat, name : Seq(Byte), size : Nat, ticket : Seq(Byte)]
        /\ [parsed EXCEPT !.name = Arrived(parsed.length)].name = Arrived(parsed.length)
    BY <2>2 DEF Typed
  <2> QED
    BY <1>4, <1>6, <2>1, <2>2, <2>3 DEF ReadName
<1>7. CASE ReadSize
  <2>1. SizeBytes <= Len(up)
    BY <1>1, <1>7 DEF ReadSize, Read
  <2>2. Value(Arrived(SizeBytes)) \in Nat
    BY <1>1, <2>1, ArrivedType, ValueType
  <2>3. /\ [parsed EXCEPT !.size = Value(Arrived(SizeBytes))]
             \in [length : Nat, name : Seq(Byte), size : Nat, ticket : Seq(Byte)]
        /\ [parsed EXCEPT !.size = Value(Arrived(SizeBytes))].name = parsed.name
    BY <2>2 DEF Typed
  <2>4. Len(parsed.name) <= NameMax
    BY DEF Typed
  <2> QED
    BY <1>1, <1>4, <1>7, <2>1, <2>3, <2>4 DEF ReadSize
<1>8. CASE ReadTicket
  <2>1. /\ [parsed EXCEPT !.ticket = up] \in [length : Nat, name : Seq(Byte), size : Nat, ticket : Seq(Byte)]
        /\ [parsed EXCEPT !.ticket = up].name = parsed.name
    BY DEF Typed
  <2>2. Len(parsed.name) <= NameMax
    BY DEF Typed
  <2> QED
    BY <1>1, <1>4, <1>8, <2>1, <2>2 DEF ReadTicket
<1> QED
  BY <1>5, <1>6, <1>7, <1>8 DEF ReadStep

LEMMA WriteTyping ==
    ASSUME Typed, WriteOffer
    PROVE  Typed'
<1>1. PICK n \in sent + 1 .. Len(Encoding) : sent' = n /\ up' = up \o SubSeq(Encoding, sent + 1, n)
  BY DEF WriteOffer
<1>2. Encoding' = Encoding /\ Encoding \in Seq(Byte) /\ Len(Encoding) \in Nat /\ sent \in Nat
  <2>1. Encoding' = Encoding
    BY DEF WriteOffer, Encoding
  <2>2. Encoding \in Seq(Byte) /\ sent \in 0 .. Len(Encoding)
    BY EncodingParts DEF Typed
  <2>3. Len(Encoding) \in Nat
    BY <2>2, LenProperties
  <2> QED
    BY <2>1, <2>2, <2>3
<1>3. \A i \in sent + 1 .. n : Encoding[i] \in Byte
  <2> SUFFICES ASSUME NEW i \in sent + 1 .. n PROVE Encoding[i] \in Byte
    OBVIOUS
  <2>1. i \in 1 .. Len(Encoding)
    BY <1>1, <1>2
  <2> QED
    BY <1>2, <2>1, ElementOfSeq
<1>4. SubSeq(Encoding, sent + 1, n) \in Seq(Byte)
  BY <1>1, <1>2, <1>3, SubSeqProperties
<1>5. up' \in Seq(Byte)
  BY <1>1, <1>4, ConcatProperties DEF Typed
<1>6. sent' \in 0 .. Len(Encoding)
  BY <1>1, <1>2
<1> QED
  BY <1>2, <1>5, <1>6 DEF WriteOffer, Typed, readVars, statusVars

\* ReadCount is left to the invariant of the statuses, which says what it reads.
LEMMA StatusTyping ==
    ASSUME Typed, WriteStatus \/ Deliver \/ ReadTag \/ StatusFails
    PROVE  Typed'
<1>1. Encoding' = Encoding /\ UNCHANGED <<offer, upVars, readVars, lost>>
  BY DEF WriteStatus, Deliver, ReadTag, StatusFails, Encoding
<1>2. /\ Len(wrote) \in Nat /\ Len(down) \in Nat /\ Len(unsent) \in Nat /\ SizeBytes \in Nat
      /\ MaxStatuses \in Nat
  BY LenProperties, WidthAssumption, LimitAssumption DEF Typed
<1>3. CASE WriteStatus
  <2>1. PICK s \in Status : wrote' = Append(wrote, s) /\ unsent' = StatusEncoding(s)
    BY <1>3 DEF WriteStatus
  <2>2. wrote' \in Seq(Status) /\ Len(wrote') = Len(wrote) + 1
    BY <2>1, AppendProperties DEF Typed
  <2>3. unsent' \in Seq(Byte)
    BY <2>1, StatusEncoded
  <2>4. Len(wrote') <= MaxStatuses
    BY <1>2, <1>3, <2>2 DEF WriteStatus
  <2> QED
    BY <1>1, <1>3, <2>2, <2>3, <2>4 DEF WriteStatus, Typed, upVars, readVars
<1>4. CASE Deliver
  <2>1. PICK n \in 1 .. Len(unsent) :
          /\ down' = down \o SubSeq(unsent, 1, n)
          /\ unsent' = SubSeq(unsent, n + 1, Len(unsent))
    BY <1>4 DEF Deliver
  <2>2. unsent \in Seq(Byte) /\ down \in Seq(Byte) /\ n \in 0 .. Len(unsent)
    BY <1>2 DEF Typed
  <2>3. SubSeq(unsent, 1, n) \in Seq(Byte) /\ unsent' \in Seq(Byte)
    BY <2>1, <2>2, Split
  <2>4. down' \in Seq(Byte)
    BY <2>1, <2>2, <2>3, ConcatProperties
  <2> QED
    BY <1>1, <1>4, <2>3, <2>4 DEF Deliver, Typed, upVars, readVars
<1>5. CASE ReadTag
  <2>1. Tail(down) \in Seq(Byte)
    BY <1>5, HeadTailProperties DEF ReadTag, Typed
  <2>2. expects' \in {"decision", "status", "count", "end", "error"}
    BY <1>5 DEF ReadTag, AfterTag
  <2>3. ASSUME expects' \in {"end", "status"}
        PROVE  [tag |-> Head(down), count |-> 0] \in Status
    BY <1>5, <2>3 DEF ReadTag, AfterTag, Status
  <2>4. got' \in Seq(Status)
    BY <1>5, <2>3, AppendProperties DEF ReadTag, Typed
  <2> QED
    BY <1>1, <1>5, <2>1, <2>2, <2>4 DEF ReadTag, Typed, upVars, readVars
<1>6. CASE StatusFails
  BY <1>1, <1>6 DEF StatusFails, Typed, upVars, readVars
<1> QED
  BY <1>3, <1>4, <1>5, <1>6

-----------------------------------------------------------------------------
(* The offer.  What has not been read yet is the encoding from the field   *)
(* that is read next on, up to the byte that was written last.             *)

Unread(p) ==
    /\ p <= sent /\ Len(up) = sent - p
    /\ \A i \in 1 .. sent - p : up[i] = Encoding[p + i]

OfferInv ==
    /\ sent > 0 => Fits(Len(offer.name), LenBytes)
    /\ field = "length" => Unread(0)
    /\ field = "name" => Unread(LenBytes)
    /\ field = "size" => Unread(LenBytes + Len(offer.name))
    /\ field = "ticket" => Unread(LenBytes + Len(offer.name) + SizeBytes)
    /\ field \in {"name", "size", "ticket", "done"} =>
         Len(offer.name) <= NameMax /\ parsed.length = Len(offer.name)
    /\ field \in {"size", "ticket", "done"} => parsed.name = offer.name
    /\ field \in {"ticket", "done"} => parsed.size = offer.size
    /\ OfferIsIntact
    /\ field = "refused" => \/ Len(offer.name) > NameMax
                            \/ finished /\ sent < Len(Encoding)
                            \/ lost

LEMMA OfferInvInit == Init => OfferInv
<1> SUFFICES ASSUME Init PROVE OfferInv
  OBVIOUS
<1>1. sent = 0 /\ Len(up) = 0 /\ field = "length"
  BY EmptySeq DEF Init
<1>2. Unread(0)
  BY <1>1 DEF Unread
<1> QED
  BY <1>1, <1>2 DEF OfferInv, OfferIsIntact

\* More of the offer is written.
LEMMA UnreadWritten ==
    ASSUME Typed, WriteOffer, NEW p \in Nat, Unread(p)
    PROVE  /\ p <= sent' /\ Len(up') = sent' - p
           /\ \A i \in 1 .. sent' - p : up'[i] = Encoding[p + i]
<1>1. PICK n \in sent + 1 .. Len(Encoding) : sent' = n /\ up' = up \o SubSeq(Encoding, sent + 1, n)
  BY DEF WriteOffer
<1>2. /\ Encoding \in Seq(Byte) /\ Len(Encoding) \in Nat /\ sent \in Nat
      /\ up \in Seq(Byte) /\ Len(up) \in Nat
  BY EncodingParts, LenProperties DEF Typed
<1> DEFINE more == SubSeq(Encoding, sent + 1, n)
<1>3. /\ more \in Seq(Byte) /\ Len(more) = n - sent
      /\ \A i \in 1 .. n - sent : more[i] = Encoding[sent + i]
  <2>1. \A i \in sent + 1 .. n : Encoding[i] \in Byte
    <3> SUFFICES ASSUME NEW i \in sent + 1 .. n PROVE Encoding[i] \in Byte
      OBVIOUS
    <3>1. i \in 1 .. Len(Encoding)
      BY <1>1, <1>2
    <3> QED
      BY <1>2, <3>1, ElementOfSeq
  <2>2. sent + 1 \in Int /\ n \in Int /\ sent + 1 <= n
    BY <1>2
  <2>3. /\ more \in Seq(Byte)
        /\ Len(more) = IF sent + 1 <= n THEN n - (sent + 1) + 1 ELSE 0
        /\ \A i \in 1 .. n - (sent + 1) + 1 : more[i] = Encoding[(sent + 1) + i - 1]
    BY <2>1, <2>2, SubSeqProperties
  <2>4. \A i \in 1 .. n - sent : i \in 1 .. n - (sent + 1) + 1 /\ (sent + 1) + i - 1 = sent + i
    BY <1>2
  <2> HIDE DEF more
  <2> QED
    BY <1>2, <2>2, <2>3, <2>4
<1> HIDE DEF more
<1>4. up' = up \o more
  BY <1>1 DEF more
<1>5. /\ Len(up') = Len(up) + Len(more)
      /\ \A i \in 1 .. Len(up) + Len(more) :
           up'[i] = IF i <= Len(up) THEN up[i] ELSE more[i - Len(up)]
  <2>1. up \in Seq(Byte) /\ more \in Seq(Byte)
    BY <1>2, <1>3
  <2> QED
    BY <1>4, <2>1, ConcatProperties
<1>6. p <= sent /\ Len(up) = sent - p /\ \A i \in 1 .. sent - p : up[i] = Encoding[p + i]
  BY DEF Unread
<1>7. p <= n /\ Len(up') = n - p /\ n \in Nat
  BY <1>2, <1>3, <1>5, <1>6
<1>8. ASSUME NEW i \in 1 .. n - p
      PROVE  up'[i] = Encoding[p + i]
  <2>1. i \in 1 .. Len(up) + Len(more)
    BY <1>2, <1>3, <1>6
  <2>2. CASE i <= Len(up)
    <3>1. i \in 1 .. sent - p
      BY <1>6, <2>2
    <3> QED
      BY <1>5, <1>6, <2>1, <2>2, <3>1
  <2>3. CASE ~(i <= Len(up))
    <3>1. i - Len(up) \in 1 .. n - sent /\ sent + (i - Len(up)) = p + i
      BY <1>2, <1>6, <2>3
    <3> QED
      BY <1>3, <1>5, <2>1, <2>3, <3>1
  <2> QED
    BY <2>2, <2>3
<1> QED
  BY <1>1, <1>7, <1>8

\* Some of it is read.
LEMMA UnreadRead ==
    ASSUME Typed, NEW p \in Nat, NEW n \in Nat, Unread(p), n <= Len(up),
           up' = SubSeq(up, n + 1, Len(up)), UNCHANGED sent
    PROVE  /\ Arrived(n) \in Seq(Byte) /\ Len(Arrived(n)) = n
           /\ \A i \in 1 .. n : Arrived(n)[i] = Encoding[p + i]
           /\ p + n <= sent' /\ Len(up') = sent' - (p + n)
           /\ \A i \in 1 .. sent' - (p + n) : up'[i] = Encoding[(p + n) + i]
<1>1. sent \in Nat /\ p <= sent /\ Len(up) = sent - p
  <2>1. Len(Encoding) \in Nat
    BY EncodingParts, LenProperties DEF Typed
  <2> QED
    BY <2>1 DEF Typed, Unread
<1>2. \A i \in 1 .. sent - p : up[i] = Encoding[p + i]
  BY DEF Unread
<1>3. /\ Arrived(n) \in Seq(Byte) /\ Len(Arrived(n)) = n
      /\ \A i \in 1 .. n : Arrived(n)[i] = up[i]
      /\ Len(up') = Len(up) - n
      /\ \A i \in 1 .. Len(up) - n : up'[i] = up[n + i]
  BY ArrivedType
<1>4. \A i \in 1 .. n : i \in 1 .. sent - p
  BY <1>1
<1>5. ASSUME NEW i \in 1 .. sent - (p + n)
      PROVE  up'[i] = Encoding[(p + n) + i]
  <2>1. i \in 1 .. Len(up) - n /\ n + i \in 1 .. sent - p /\ p + (n + i) = (p + n) + i
    BY <1>1
  <2> QED
    BY <1>2, <1>3, <2>1
<1> QED
  BY <1>1, <1>2, <1>3, <1>4, <1>5

LEMMA OfferInvWrite ==
    ASSUME Typed, OfferInv, WriteOffer
    PROVE  OfferInv'
<1>1. /\ UNCHANGED <<offer, field, parsed, lost, finished>> /\ Encoding' = Encoding
      /\ ~finished /\ Fits(Len(offer.name), LenBytes)
  BY DEF WriteOffer, readVars, Encoding
<1>2. LenBytes \in Nat /\ SizeBytes \in Nat /\ Len(offer.name) \in Nat
  BY WidthAssumption, OfferFacts DEF Typed
<1>3. ASSUME NEW p \in Nat, Unread(p)
      PROVE  /\ p <= sent' /\ Len(up') = sent' - p
             /\ \A i \in 1 .. sent' - p : up'[i] = Encoding[p + i]
  BY <1>3, UnreadWritten
<1>4. /\ Unread(0) => Unread(0)'
      /\ Unread(LenBytes) => Unread(LenBytes)'
  BY <1>1, <1>2, <1>3 DEF Unread
<1>5. Unread(LenBytes + Len(offer.name)) => Unread(LenBytes + Len(offer.name))'
  <2>1. LenBytes + Len(offer.name) \in Nat
    BY <1>2
  <2> QED
    BY <1>1, <1>3, <2>1 DEF Unread
<1>6. Unread(LenBytes + Len(offer.name) + SizeBytes)
        => Unread(LenBytes + Len(offer.name) + SizeBytes)'
  <2>1. LenBytes + Len(offer.name) + SizeBytes \in Nat
    BY <1>2
  <2> QED
    BY <1>1, <1>3, <2>1 DEF Unread
<1> QED
  BY <1>1, <1>4, <1>5, <1>6 DEF OfferInv, OfferIsIntact

\* A number is read as it was written.
LEMMA NumberRead ==
    ASSUME NEW n \in Nat, NEW width \in Nat, Fits(n, width),
           NEW bytes \in Seq(Byte), Len(bytes) = width,
           \A i \in 1 .. width : bytes[i] = Word(n, width)[i]
    PROVE  Value(bytes) = n
<1>1. Word(n, width) \in Seq(Byte) /\ Len(Word(n, width)) = width
  BY WordType
<1>2. bytes = Word(n, width)
  BY <1>1, SeqEqual
<1> QED
  BY <1>2, RoundTrip

LEMMA OfferInvRead ==
    ASSUME Typed, OfferInv, ReadStep
    PROVE  OfferInv'
<1> DEFINE L == Len(offer.name)
<1>1. /\ UNCHANGED <<offer, sent, finished, lost>> /\ Encoding' = Encoding
  BY DEF ReadStep, ReadLength, ReadName, ReadSize, ReadTicket, Read, Encoding
<1>2. /\ LenBytes \in Nat \ {0} /\ SizeBytes \in Nat \ {0} /\ NameMax \in Nat /\ TicketMax \in Nat
      /\ offer \in Offers /\ L \in Nat /\ sent \in Nat
      /\ Len(up) \in Nat /\ up \in Seq(Byte)
  <2>1. Len(Encoding) \in Nat
    BY EncodingParts, LenProperties DEF Typed
  <2> QED
    BY <2>1, WidthAssumption, LimitAssumption, OfferFacts, LenProperties DEF Typed
<1>3. CASE ReadLength
  <2> DEFINE n == Value(Arrived(LenBytes))
  <2>1. /\ field = "length" /\ LenBytes <= Len(up)
        /\ up' = SubSeq(up, LenBytes + 1, Len(up))
        /\ field' = IF n <= NameMax THEN "name" ELSE "refused"
        /\ parsed' = [parsed EXCEPT !.length = n]
    BY <1>3 DEF ReadLength, Read
  <2>2. Unread(0)
    BY <2>1 DEF OfferInv
  <2>3. /\ Arrived(LenBytes) \in Seq(Byte) /\ Len(Arrived(LenBytes)) = LenBytes
        /\ \A i \in 1 .. LenBytes : Arrived(LenBytes)[i] = Encoding[i]
        /\ LenBytes <= sent' /\ Len(up') = sent' - LenBytes
        /\ \A i \in 1 .. sent' - LenBytes : up'[i] = Encoding[LenBytes + i]
    <3>1. /\ Arrived(LenBytes) \in Seq(Byte) /\ Len(Arrived(LenBytes)) = LenBytes
          /\ \A i \in 1 .. LenBytes : Arrived(LenBytes)[i] = Encoding[0 + i]
          /\ 0 + LenBytes <= sent' /\ Len(up') = sent' - (0 + LenBytes)
          /\ \A i \in 1 .. sent' - (0 + LenBytes) : up'[i] = Encoding[(0 + LenBytes) + i]
      <4>1. 0 \in Nat /\ LenBytes \in Nat
        BY <1>2
      <4> QED
        BY <1>1, <2>1, <2>2, <4>1, UnreadRead
    <3>2. 0 + LenBytes = LenBytes /\ \A i \in 1 .. LenBytes : 0 + i = i
      BY <1>2
    <3> QED
      BY <3>1, <3>2
  <2>4. \A i \in 1 .. LenBytes : Arrived(LenBytes)[i] = Word(L, LenBytes)[i]
    BY <1>2, <2>3, EncodingParts
  <2>5. Fits(L, LenBytes)
    BY <1>1, <1>2, <2>3 DEF OfferInv
  <2>6. n = L
    BY <1>2, <2>3, <2>4, <2>5, NumberRead
  <2> HIDE DEF n
  <2>7. Unread(LenBytes)'
    BY <1>1, <1>2, <2>3 DEF Unread
  <2>8. parsed'.length = L
    BY <2>1, <2>6 DEF Typed
  <2> QED
    BY <1>1, <1>2, <2>1, <2>5, <2>6, <2>7, <2>8 DEF OfferInv, OfferIsIntact
<1>4. CASE ReadName
  <2>1. /\ field = "name" /\ parsed.length <= Len(up)
        /\ up' = SubSeq(up, parsed.length + 1, Len(up))
        /\ field' = "size"
        /\ parsed' = [parsed EXCEPT !.name = Arrived(parsed.length)]
    BY <1>4 DEF ReadName, Read
  <2>2. parsed.length = L /\ L <= NameMax /\ Unread(LenBytes) /\ L' = L
    BY <1>1, <2>1 DEF OfferInv
  <2> HIDE DEF L
  <2>3. /\ Arrived(L) \in Seq(Byte) /\ Len(Arrived(L)) = L
        /\ \A i \in 1 .. L : Arrived(L)[i] = Encoding[LenBytes + i]
        /\ LenBytes + L <= sent' /\ Len(up') = sent' - (LenBytes + L)
        /\ \A i \in 1 .. sent' - (LenBytes + L) : up'[i] = Encoding[(LenBytes + L) + i]
    <3>1. L <= Len(up) /\ up' = SubSeq(up, L + 1, Len(up)) /\ LenBytes \in Nat /\ L \in Nat
      BY <1>2, <2>1, <2>2
    <3> QED
      BY <1>1, <2>2, <3>1, UnreadRead
  <2>4. \A i \in 1 .. L : Arrived(L)[i] = offer.name[i]
    BY <1>2, <2>3, EncodingParts DEF L
  <2>5. Arrived(L) = offer.name
    BY <1>2, <2>3, <2>4, OfferFacts, SeqEqual DEF L
  <2>6. Unread(LenBytes + L)'
    BY <1>1, <2>2, <2>3 DEF Unread
  <2>7. parsed'.name = offer.name /\ parsed'.length = L
    BY <2>1, <2>2, <2>5 DEF Typed
  <2> QED
    BY <1>1, <2>1, <2>2, <2>6, <2>7 DEF OfferInv, OfferIsIntact, L
<1>5. CASE ReadSize
  <2>1. /\ field = "size" /\ SizeBytes <= Len(up)
        /\ up' = SubSeq(up, SizeBytes + 1, Len(up))
        /\ field' = "ticket"
        /\ parsed' = [parsed EXCEPT !.size = Value(Arrived(SizeBytes))]
    BY <1>5 DEF ReadSize, Read
  <2>2. /\ parsed.length = L /\ L <= NameMax /\ parsed.name = offer.name
        /\ Unread(LenBytes + L) /\ LenBytes + L \in Nat
    BY <1>2, <2>1 DEF OfferInv
  <2>3. /\ Arrived(SizeBytes) \in Seq(Byte) /\ Len(Arrived(SizeBytes)) = SizeBytes
        /\ \A i \in 1 .. SizeBytes : Arrived(SizeBytes)[i] = Encoding[(LenBytes + L) + i]
        /\ (LenBytes + L) + SizeBytes <= sent' /\ Len(up') = sent' - ((LenBytes + L) + SizeBytes)
        /\ \A i \in 1 .. sent' - ((LenBytes + L) + SizeBytes) :
             up'[i] = Encoding[((LenBytes + L) + SizeBytes) + i]
    BY <1>1, <1>2, <2>1, <2>2, UnreadRead
  <2>4. \A i \in 1 .. SizeBytes : Arrived(SizeBytes)[i] = Word(offer.size, SizeBytes)[i]
    BY <1>2, <2>3, EncodingParts
  <2>5. offer.size \in Nat /\ Fits(offer.size, SizeBytes)
    BY <1>2, OfferFacts
  <2>6. Value(Arrived(SizeBytes)) = offer.size
    BY <1>2, <2>3, <2>4, <2>5, NumberRead
  <2>7. Unread(LenBytes + L + SizeBytes)'
    BY <1>1, <2>3 DEF Unread
  <2>8. parsed'.size = offer.size /\ parsed'.name = offer.name /\ parsed'.length = L
    BY <2>1, <2>2, <2>6 DEF Typed
  <2> QED
    BY <1>1, <2>1, <2>2, <2>7, <2>8 DEF OfferInv, OfferIsIntact
<1>6. CASE ReadTicket
  <2> DEFINE t == offer.ticket
             p == LenBytes + L + SizeBytes
  <2>1. /\ field = "ticket" /\ finished
        /\ field' = IF Len(up) <= TicketMax /\ up \in Tickets THEN "done" ELSE "refused"
        /\ parsed' = [parsed EXCEPT !.ticket = up]
    BY <1>6 DEF ReadTicket, Read
  <2>2. /\ parsed.length = L /\ L <= NameMax /\ parsed.name = offer.name
        /\ parsed.size = offer.size
        /\ Unread(p) /\ p \in Nat
    BY <1>2, <2>1 DEF OfferInv
  <2>3. /\ t \in Seq(Byte) /\ Len(t) \in Nat /\ Len(t) <= TicketMax /\ t \in Tickets
    BY <1>2, OfferFacts
  <2>4. /\ Len(Encoding) = p + Len(t)
        /\ \A i \in 1 .. Len(t) : Encoding[p + i] = t[i]
    BY <1>2, EncodingParts
  <2>5. sent <= Len(Encoding)
    <3>1. Len(Encoding) \in Nat /\ sent \in 0 .. Len(Encoding)
      BY EncodingParts, LenProperties DEF Typed
    <3> QED
      BY <3>1
  <2> HIDE DEF t, p, L
  <2>6. Len(up) <= Len(t) /\ \A i \in 1 .. Len(up) : up[i] = t[i]
    <3>1. p <= sent /\ Len(up) = sent - p /\ \A i \in 1 .. sent - p : up[i] = Encoding[p + i]
      BY <2>2 DEF Unread
    <3>2. Len(up) <= Len(t)
      BY <1>2, <2>2, <2>3, <2>4, <2>5, <3>1
    <3>3. \A i \in 1 .. Len(up) : i \in 1 .. Len(t)
      BY <1>2, <2>3, <3>2
    <3> QED
      BY <2>4, <3>1, <3>2, <3>3
  <2>7. CASE up \in Tickets /\ Len(up) <= TicketMax
    <3>1. IsPrefix(up, t)
      <4>1. /\ SubSeq(up, 1, Len(up)) \in Seq(Byte) /\ Len(SubSeq(up, 1, Len(up))) = Len(up)
            /\ \A i \in 1 .. Len(up) : SubSeq(up, 1, Len(up))[i] = up[i]
        BY <1>2, Split
      <4>2. /\ SubSeq(t, 1, Len(up)) \in Seq(Byte) /\ Len(SubSeq(t, 1, Len(up))) = Len(up)
            /\ \A i \in 1 .. Len(up) : SubSeq(t, 1, Len(up))[i] = t[i]
        <5>1. Len(up) \in 0 .. Len(t)
          BY <1>2, <2>3, <2>6
        <5> QED
          BY <2>3, <5>1, Split
      <4>3. SubSeq(up, 1, Len(up)) = SubSeq(t, 1, Len(up))
        BY <2>6, <4>1, <4>2, SeqEqual
      <4> QED
        BY <2>6, <4>3 DEF IsPrefix
    <3>2. up = t
      BY <2>3, <2>7, <3>1, TicketsAssumption
    <3>3. /\ parsed'.ticket = t /\ parsed'.size = offer.size
          /\ parsed'.name = offer.name /\ parsed'.length = L
      BY <2>1, <2>2, <3>2 DEF Typed
    <3> QED
      BY <1>1, <2>1, <2>2, <2>7, <3>3 DEF OfferInv, OfferIsIntact, t, L
  <2>8. CASE ~(up \in Tickets /\ Len(up) <= TicketMax)
    <3>1. sent < Len(Encoding)
      <4>1. SUFFICES ASSUME sent = Len(Encoding) PROVE FALSE
        <5>1. sent \in Nat /\ Len(Encoding) \in Nat
          BY <1>2, <2>2, <2>3, <2>4
        <5> QED
          BY <2>5, <5>1
      <4>2. Len(up) = Len(t)
        BY <1>2, <2>2, <2>3, <2>4, <4>1 DEF Unread
      <4>3. up = t
        BY <1>2, <2>3, <2>6, <4>2, SeqEqual
      <4> QED
        BY <2>3, <2>8, <4>3
    <3> QED
      BY <1>1, <2>1, <2>8, <3>1 DEF OfferInv, OfferIsIntact
  <2> QED
    BY <2>7, <2>8
<1> QED
  BY <1>3, <1>4, <1>5, <1>6 DEF ReadStep

\* A read fails only when something is missing.
LEMMA OfferInvFails ==
    ASSUME Typed, OfferInv, ReadFails
    PROVE  OfferInv'
<1>1. /\ UNCHANGED <<offer, sent, finished, lost>> /\ Encoding' = Encoding
      /\ field' = "refused" /\ field \in {"length", "name", "size", "ticket"}
      /\ lost \/ (finished /\ Missing)
  BY DEF ReadFails, upVars, Encoding, Typed
<1>2. ASSUME finished, Missing
      PROVE  sent < Len(Encoding)
  <2> DEFINE L == Len(offer.name)
  <2>1. /\ LenBytes \in Nat /\ SizeBytes \in Nat /\ L \in Nat /\ Len(offer.ticket) \in Nat
        /\ Len(Encoding) = LenBytes + L + SizeBytes + Len(offer.ticket)
        /\ sent \in 0 .. Len(Encoding)
    BY WidthAssumption, OfferFacts, EncodingParts DEF Typed
  <2>2. CASE field = "length"
    BY <1>2, <2>1, <2>2 DEF OfferInv, Unread, Missing
  <2>3. CASE field = "name"
    BY <1>2, <2>1, <2>3 DEF OfferInv, Unread, Missing
  <2>4. CASE field = "size"
    BY <1>2, <2>1, <2>4 DEF OfferInv, Unread, Missing
  <2>5. CASE field = "ticket"
    BY <1>2, <2>5 DEF Missing
  <2> QED
    BY <1>1, <2>2, <2>3, <2>4, <2>5
<1> QED
  BY <1>1, <1>2 DEF OfferInv, OfferIsIntact

LEMMA OfferInvKept ==
    ASSUME OfferInv, UNCHANGED <<offer, sent, up, readVars>>,
           finished => finished', lost => lost'
    PROVE  OfferInv'
<1>1. Encoding' = Encoding
  BY DEF Encoding
<1> QED
  BY <1>1 DEF OfferInv, OfferIsIntact, Unread, readVars

LEMMA OfferInvStep == Typed /\ OfferInv /\ [Next]_vars => OfferInv'
<1> SUFFICES ASSUME Typed, OfferInv, [Next]_vars
             PROVE  OfferInv'
  OBVIOUS
<1>1. CASE EndOffer
  BY <1>1, OfferInvKept DEF EndOffer
<1>2. CASE WriteStatus \/ Deliver \/ ReadTag \/ ReadCount \/ StatusFails
  BY <1>2, OfferInvKept DEF WriteStatus, Deliver, ReadTag, ReadCount, StatusFails, upVars
<1>3. CASE LoseConnection
  BY <1>3, OfferInvKept DEF LoseConnection, upVars
<1>4. CASE UNCHANGED vars
  BY <1>4, OfferInvKept DEF vars, upVars
<1> QED
  BY <1>1, <1>2, <1>3, <1>4, OfferInvWrite, OfferInvRead, OfferInvFails
     DEF Next, ReadStep, Over
-----------------------------------------------------------------------------
(* The statuses.  What has not been read yet, with the tag of the progress *)
(* whose count is read next, holds the statuses after those in got.        *)

Ahead == IF expects = "count" THEN <<2>> \o (down \o unsent) ELSE down \o unsent

\* A decision comes first; statuses follow an acceptance or a progress.
InSequence ==
    \A i \in 1 .. Len(wrote) :
      IF i = 1 THEN wrote[i].tag \in {0, 1}
      ELSE wrote[i].tag > 1 /\ wrote[i - 1].tag \in {1, 2}

GotInOrder ==
    Len(got) <= Len(wrote) /\ \A i \in 1 .. Len(got) : got[i] = wrote[i]

StatusInv ==
    /\ InSequence
    /\ GotInOrder
    /\ expects = "decision" => Len(got) = 0
    /\ expects \in {"status", "count"} => Len(got) > 0
    /\ expects \in {"decision", "status", "count"} => Holds(Ahead, wrote, Len(got))
    /\ expects = "end" => /\ Len(got) = Len(wrote) /\ Len(got) > 0
                          /\ got[Len(got)].tag \in {0, 3, 4}
    /\ expects = "error" => lost \/ field = "refused"

LEMMA StatusInvInit == Init => StatusInv
<1> SUFFICES ASSUME Init PROVE StatusInv
  OBVIOUS
<1>1. /\ wrote = <<>> /\ got = <<>> /\ expects = "decision"
      /\ down = <<>> /\ unsent = <<>>
  BY DEF Init
<1>2. Len(wrote) = 0 /\ Len(got) = 0 /\ <<>> \in Seq(Status) /\ <<>> \in Seq(Byte)
  BY <1>1, EmptySeq
<1>3. <<>> \o <<>> = <<>>
  BY <1>2, ConcatEmptySeq
<1>4. Ahead = <<>>
  BY <1>1, <1>3 DEF Ahead
<1>5. Holds(Ahead, wrote, Len(got))
  BY <1>1, <1>2, <1>4, HoldsNothing
<1> QED
  BY <1>1, <1>2, <1>5 DEF StatusInv, InSequence, GotInOrder

LEMMA AheadType ==
    ASSUME Typed
    PROVE  down \o unsent \in Seq(Byte) /\ Ahead \in Seq(Byte) /\ <<2>> \in Seq(Byte)
<1>1. 2 \in Byte
  BY ByteAssumption DEF Byte
<1>2. <<2>> \in Seq(Byte)
  BY <1>1
<1>3. down \o unsent \in Seq(Byte)
  BY ConcatProperties DEF Typed
<1>4. <<2>> \o (down \o unsent) \in Seq(Byte)
  BY <1>2, <1>3, ConcatProperties
<1> QED
  BY <1>2, <1>3, <1>4 DEF Ahead

LEMMA StatusInvWrite ==
    ASSUME Typed, StatusInv, WriteStatus
    PROVE  StatusInv'
<1> DEFINE n == Len(wrote)
<1>1. PICK s \in Status :
        /\ IF wrote = <<>> THEN s.tag \in {0, 1} ELSE s.tag > 1 /\ Last(wrote).tag \in {1, 2}
        /\ wrote' = Append(wrote, s)
        /\ unsent' = StatusEncoding(s)
  BY DEF WriteStatus
<1>2. /\ UNCHANGED <<down, expects, got, field, lost>> /\ unsent = <<>>
  BY DEF WriteStatus, readVars
<1>3. /\ n \in Nat /\ Len(got) \in Nat /\ (wrote = <<>> <=> n = 0)
      /\ wrote \in Seq(Status) /\ got \in Seq(Status)
  BY LenProperties, EmptySeq DEF Typed
<1>4. Len(wrote') = n + 1 /\ wrote'[n + 1] = s /\ \A i \in 1 .. n : wrote'[i] = wrote[i]
  BY <1>1, <1>3, AppendProperties
<1>5. InSequence'
  <2> SUFFICES ASSUME NEW i \in 1 .. n + 1
               PROVE  IF i = 1 THEN wrote'[i].tag \in {0, 1}
                      ELSE wrote'[i].tag > 1 /\ wrote'[i - 1].tag \in {1, 2}
    BY <1>4 DEF InSequence
  <2>1. CASE i \in 1 .. n
    <3>1. IF i = 1 THEN wrote[i].tag \in {0, 1}
          ELSE wrote[i].tag > 1 /\ wrote[i - 1].tag \in {1, 2}
      BY <2>1 DEF StatusInv, InSequence
    <3>2. i # 1 => i - 1 \in 1 .. n
      BY <1>3, <2>1
    <3> QED
      BY <1>4, <2>1, <3>1, <3>2
  <2>2. CASE i = n + 1 /\ n = 0
    BY <1>1, <1>3, <1>4, <2>2
  <2>3. CASE i = n + 1 /\ n # 0
    <3>1. n \in 1 .. n /\ i - 1 = n /\ i # 1
      BY <1>3, <2>3
    <3>2. s.tag > 1 /\ wrote[n].tag \in {1, 2}
      BY <1>1, <1>3, <2>3 DEF Last
    <3> QED
      BY <1>4, <2>3, <3>1, <3>2
  <2> QED
    BY <1>3, <2>1, <2>2, <2>3
<1>6. GotInOrder'
  <2>1. Len(got) <= n /\ \A i \in 1 .. Len(got) : got[i] = wrote[i]
    BY DEF StatusInv, GotInOrder
  <2>2. \A i \in 1 .. Len(got) : i \in 1 .. n
    BY <1>3, <2>1
  <2>3. Len(got) <= n + 1
    BY <1>3, <2>1
  <2> QED
    BY <1>2, <1>4, <2>1, <2>2, <2>3 DEF GotInOrder
<1>7. expects # "end"
  <2> SUFFICES ASSUME expects = "end" PROVE FALSE
    OBVIOUS
  <2>1. /\ Len(got) = n /\ n > 0 /\ got[n].tag \in {0, 3, 4}
        /\ \A i \in 1 .. n : got[i] = wrote[i]
    BY DEF StatusInv, GotInOrder
  <2>2. n \in 1 .. n /\ wrote # <<>>
    BY <1>3, <2>1
  <2>3. Last(wrote).tag \in {0, 3, 4}
    BY <2>1, <2>2 DEF Last
  <2> QED
    BY <1>1, <2>2, <2>3
<1>8. Ahead' = Ahead \o unsent'
  <2>1. unsent' \in Seq(Byte) /\ down \in Seq(Byte)
    BY <1>1, StatusEncoded DEF Typed
  <2>2. down \o unsent = down
    BY <1>2, <2>1, ConcatEmptySeq
  <2>3. <<2>> \in Seq(Byte)
    BY AheadType
  <2>4. <<2>> \o (down \o unsent') = (<<2>> \o down) \o unsent'
    BY <2>1, <2>3, Associates
  <2> QED
    BY <1>2, <2>2, <2>4 DEF Ahead
<1>9. ASSUME expects \in {"decision", "status", "count"}
      PROVE  Holds(Ahead, wrote, Len(got))'
  <2>1. Holds(Ahead, wrote, Len(got))
    BY <1>9 DEF StatusInv
  <2>2. Holds(Ahead \o StatusEncoding(s), Append(wrote, s), Len(got))
    BY <1>3, <2>1, AheadType, HoldsWrite
  <2> QED
    BY <1>1, <1>2, <1>8, <2>2
<1> QED
  BY <1>2, <1>5, <1>6, <1>7, <1>9 DEF StatusInv

LEMMA StatusInvDeliver ==
    ASSUME Typed, StatusInv, Deliver
    PROVE  StatusInv'
<1>1. PICK n \in 1 .. Len(unsent) :
        /\ down' = down \o SubSeq(unsent, 1, n)
        /\ unsent' = SubSeq(unsent, n + 1, Len(unsent))
  BY DEF Deliver
<1>2. UNCHANGED <<wrote, expects, got, field, lost>>
  BY DEF Deliver, readVars
<1>3. /\ unsent \in Seq(Byte) /\ down \in Seq(Byte) /\ Len(unsent) \in Nat
      /\ n \in 0 .. Len(unsent)
  BY LenProperties DEF Typed
<1>4. SubSeq(unsent, 1, n) \in Seq(Byte) /\ SubSeq(unsent, n + 1, Len(unsent)) \in Seq(Byte)
  BY <1>3, Split
<1>5. SubSeq(unsent, 1, n) \o SubSeq(unsent, n + 1, Len(unsent)) = unsent
  BY <1>3, Rejoin
<1>6. down' \o unsent' = down \o unsent
  <2> DEFINE a == SubSeq(unsent, 1, n)
             b == SubSeq(unsent, n + 1, Len(unsent))
  <2>1. a \in Seq(Byte) /\ b \in Seq(Byte) /\ down \in Seq(Byte)
    BY <1>3, <1>4
  <2>2. down' \o unsent' = (down \o a) \o b /\ a \o b = unsent
    BY <1>1, <1>5
  <2> HIDE DEF a, b
  <2>3. (down \o a) \o b = down \o (a \o b)
    BY <2>1, Associates
  <2> QED
    BY <2>2, <2>3
<1>7. Ahead' = Ahead
  BY <1>2, <1>6 DEF Ahead
<1> QED
  BY <1>2, <1>7 DEF StatusInv, InSequence, GotInOrder

\* What is read next is the status after those in got.
LEMMA NextStatus ==
    ASSUME Typed, StatusInv, expects \in {"decision", "status", "count"}, Ahead # <<>>
    PROVE  /\ Len(got) \in Nat /\ Len(wrote) \in Nat /\ Len(got) + 1 \in 1 .. Len(wrote)
           /\ wrote[Len(got) + 1] \in Status
           /\ \E rest \in Seq(Byte) :
                /\ Ahead = StatusEncoding(wrote[Len(got) + 1]) \o rest
                /\ Holds(rest, wrote, Len(got) + 1)
<1>1. /\ Ahead \in Seq(Byte) /\ wrote \in Seq(Status) /\ Len(got) \in Nat /\ Len(wrote) \in Nat
      /\ Holds(Ahead, wrote, Len(got))
  BY AheadType, LenProperties DEF Typed, StatusInv
<1> HIDE DEF Ahead
<1>2. /\ Len(got) + 1 \in 1 .. Len(wrote)
      /\ \E rest \in Seq(Byte) :
           /\ Ahead = StatusEncoding(wrote[Len(got) + 1]) \o rest
           /\ Holds(rest, wrote, Len(got) + 1)
  BY <1>1, HoldsRead
<1> QED
  BY <1>1, <1>2, ElementOfSeq

\* A status that is read joins those in got.
LEMMA GotNext ==
    ASSUME Typed, StatusInv, Len(got) + 1 \in 1 .. Len(wrote),
           got' = Append(got, wrote[Len(got) + 1]), UNCHANGED wrote
    PROVE  /\ got' \in Seq(Status) /\ Len(got') = Len(got) + 1
           /\ got'[Len(got) + 1] = wrote[Len(got) + 1]
           /\ InSequence' /\ GotInOrder'
<1>1. /\ wrote \in Seq(Status) /\ got \in Seq(Status)
      /\ Len(got) \in Nat /\ Len(wrote) \in Nat
  BY LenProperties DEF Typed
<1>2. wrote[Len(got) + 1] \in Status
  BY <1>1, ElementOfSeq
<1>3. /\ got' \in Seq(Status) /\ Len(got') = Len(got) + 1
      /\ got'[Len(got) + 1] = wrote[Len(got) + 1]
      /\ \A i \in 1 .. Len(got) : got'[i] = got[i]
  BY <1>1, <1>2, AppendProperties
<1>4. GotInOrder'
  <2>1. \A i \in 1 .. Len(got) : got[i] = wrote[i]
    BY DEF StatusInv, GotInOrder
  <2>2. \A i \in 1 .. Len(got) + 1 : i \in 1 .. Len(got) \/ i = Len(got) + 1
    BY <1>1
  <2>3. Len(got) + 1 <= Len(wrote)
    BY <1>1
  <2> QED
    BY <1>3, <2>1, <2>2, <2>3 DEF GotInOrder
<1>5. InSequence'
  BY DEF StatusInv, InSequence
<1> QED
  BY <1>3, <1>4, <1>5

LEMMA StatusInvTag ==
    ASSUME Typed, StatusInv, ReadTag
    PROVE  StatusInv'
<1> DEFINE k == Len(got)
           s == wrote[k + 1]
           later == Tail(down) \o unsent
           h == Head(down)
<1>1. /\ expects \in {"decision", "status"} /\ down # <<>>
      /\ expects' = AfterTag(h)
      /\ got' = IF expects' \in {"end", "status"}
                THEN Append(got, [tag |-> h, count |-> 0]) ELSE got
      /\ down' = Tail(down)
      /\ UNCHANGED <<field, wrote, unsent, lost>>
  BY DEF ReadTag, readVars
<1>2. /\ h \in Byte /\ <<h>> \in Seq(Byte) /\ Tail(down) \in Seq(Byte)
      /\ down \in Seq(Byte) /\ unsent \in Seq(Byte) /\ later \in Seq(Byte)
      /\ down = <<h>> \o Tail(down)
  <2>1. down \in Seq(Byte) /\ unsent \in Seq(Byte)
    BY DEF Typed
  <2>2. h \in Byte /\ Tail(down) \in Seq(Byte)
    BY <1>1, <2>1, HeadTailProperties
  <2>3. <<h>> \in Seq(Byte) /\ later \in Seq(Byte)
    BY <2>1, <2>2, ConcatProperties
  <2>4. down = <<h>> \o Tail(down)
    <3>1. /\ Len(down) \in Nat /\ Len(down) # 0
      BY <1>1, <2>1, LenProperties, EmptySeq
    <3>2. /\ Len(Tail(down)) = Len(down) - 1 /\ Head(down) = down[1]
          /\ \A i \in 1 .. Len(down) - 1 : Tail(down)[i] = down[i + 1]
      BY <1>1, <2>1, HeadTailProperties
    <3>3. /\ Len(<<h>>) = 1 /\ <<h>>[1] = h
          /\ <<h>> \o Tail(down) \in Seq(Byte)
          /\ Len(<<h>> \o Tail(down)) = Len(<<h>>) + Len(Tail(down))
          /\ \A i \in 1 .. Len(<<h>>) + Len(Tail(down)) :
               (<<h>> \o Tail(down))[i] = IF i <= Len(<<h>>) THEN <<h>>[i]
                                          ELSE Tail(down)[i - Len(<<h>>)]
      BY <2>2, <2>3, ConcatProperties
    <3>4. Len(<<h>> \o Tail(down)) = Len(down)
      BY <3>1, <3>2, <3>3
    <3>5. ASSUME NEW i \in 1 .. Len(down)
          PROVE  (<<h>> \o Tail(down))[i] = down[i]
      <4>1. CASE i = 1
        BY <3>1, <3>2, <3>3, <4>1
      <4>2. CASE i # 1
        <5>1. i - 1 \in 1 .. Len(down) - 1 /\ (i - 1) + 1 = i /\ ~(i <= 1)
          BY <3>1, <4>2
        <5> QED
          BY <3>1, <3>2, <3>3, <5>1
      <4> QED
        BY <4>1, <4>2
    <3> QED
      BY <2>1, <3>3, <3>4, <3>5, SeqEqual
  <2> QED
    BY <2>1, <2>2, <2>3, <2>4
<1> HIDE DEF h
<1>3. Ahead = <<h>> \o later
  <2>1. Ahead = down \o unsent
    BY <1>1 DEF Ahead
  <2>2. (<<h>> \o Tail(down)) \o unsent = <<h>> \o (Tail(down) \o unsent)
    BY <1>2, Associates
  <2> QED
    BY <1>2, <2>1, <2>2
<1> HIDE DEF later
<1>4. /\ Len(<<h>>) = 1 /\ <<h>>[1] = h /\ Len(later) \in Nat
  BY <1>2, LenProperties
<1>5. Ahead # <<>> /\ Ahead[1] = h
  <2>1. /\ Len(<<h>> \o later) = Len(<<h>>) + Len(later)
        /\ \A i \in 1 .. Len(<<h>>) + Len(later) :
             (<<h>> \o later)[i] = IF i <= Len(<<h>>) THEN <<h>>[i] ELSE later[i - Len(<<h>>)]
    BY <1>2, ConcatProperties
  <2>2. Len(Ahead) # 0 /\ Ahead[1] = h
    BY <1>3, <1>4, <2>1
  <2> QED
    BY <2>2, EmptySeq
<1>6. /\ k \in Nat /\ Len(wrote) \in Nat /\ k + 1 \in 1 .. Len(wrote) /\ s \in Status
      /\ \E rest \in Seq(Byte) : Ahead = StatusEncoding(s) \o rest /\ Holds(rest, wrote, k + 1)
  BY <1>1, <1>5, NextStatus
<1>7. PICK rest \in Seq(Byte) : Ahead = StatusEncoding(s) \o rest /\ Holds(rest, wrote, k + 1)
  BY <1>6
<1> DEFINE e == StatusEncoding(s)
<1>8. s.tag = h
  <2>1. e \in Seq(Byte) /\ Len(e) \in Nat /\ Len(e) # 0 /\ e[1] = s.tag
    <3>1. e \in Seq(Byte) /\ e[1] = s.tag /\ Len(e) = IF s.tag = 2 THEN SizeBytes + 1 ELSE 1
      BY <1>6, StatusEncoded
    <3>2. SizeBytes \in Nat
      BY WidthAssumption
    <3> HIDE DEF e
    <3> QED
      BY <3>1, <3>2
  <2> HIDE DEF e
  <2>2. /\ Len(rest) \in Nat
        /\ \A i \in 1 .. Len(e) + Len(rest) :
             (e \o rest)[i] = IF i <= Len(e) THEN e[i] ELSE rest[i - Len(e)]
    BY <2>1, ConcatProperties, LenProperties
  <2>3. (e \o rest)[1] = e[1]
    BY <2>1, <2>2
  <2> QED
    BY <1>5, <1>7, <2>1, <2>3 DEF e
<1>9. /\ k = 0 => s.tag \in {0, 1}
      /\ k > 0 => s.tag > 1 /\ wrote[k].tag \in {1, 2}
  <2>1. IF k + 1 = 1 THEN s.tag \in {0, 1} ELSE s.tag > 1 /\ wrote[(k + 1) - 1].tag \in {1, 2}
    BY <1>6 DEF StatusInv, InSequence
  <2>2. (k + 1) - 1 = k /\ (k + 1 = 1 <=> k = 0)
    BY <1>6
  <2> QED
    BY <1>6, <2>1, <2>2
<1>10. /\ expects = "decision" => k = 0
       /\ expects = "status" => k > 0
  BY DEF StatusInv
<1>11. s.tag \in 0 .. 4
  BY <1>6, StatusTags
<1>12. CASE s.tag = 2
  <2>1. expects = "status" /\ expects' = "count" /\ got' = got /\ k > 0
    <3>1. expects = "status"
      BY <1>1, <1>9, <1>10, <1>12
    <3> QED
      BY <1>1, <1>8, <1>10, <1>12, <3>1 DEF AfterTag
  <2>2. Ahead' = <<2>> \o later
    BY <1>1, <2>1 DEF Ahead, later
  <2>3. Holds(Ahead, wrote, k)
    BY <1>1 DEF StatusInv
  <2>4. Holds(Ahead, wrote, Len(got))'
    BY <1>1, <1>3, <1>8, <1>12, <2>1, <2>2, <2>3
  <2> QED
    BY <1>1, <2>1, <2>4 DEF StatusInv, InSequence, GotInOrder
<1>13. CASE s.tag # 2
  <2>1. /\ expects' = IF s.tag = 1 THEN "status" ELSE "end"
        /\ expects' \in {"end", "status"}
    <3>1. CASE expects = "decision"
      <4>1. s.tag \in {0, 1}
        BY <1>9, <1>10, <3>1
      <4> QED
        BY <1>1, <1>8, <3>1, <4>1 DEF AfterTag
    <3>2. CASE expects = "status"
      <4>1. s.tag \in {3, 4}
        BY <1>9, <1>10, <1>11, <1>13, <3>2
      <4> QED
        BY <1>1, <1>8, <3>2, <4>1 DEF AfterTag
    <3> QED
      BY <1>1, <3>1, <3>2
  <2>2. s = [tag |-> h, count |-> 0]
    BY <1>6, <1>8, <1>13 DEF Status
  <2>3. got' = Append(got, s)
    BY <1>1, <2>1, <2>2
  <2>4. /\ got' \in Seq(Status) /\ Len(got') = k + 1 /\ got'[k + 1] = s
        /\ InSequence' /\ GotInOrder'
    BY <1>1, <1>6, <2>3, GotNext
  <2>5. Ahead' = rest
    <3>1. StatusEncoding(s) = <<h>>
      BY <1>6, <1>8, <1>13, StatusEncoded
    <3>2. <<h>> \o later = <<h>> \o rest
      BY <1>3, <1>7, <3>1
    <3>3. later = rest
      BY <1>2, <3>2, Cancels
    <3>4. Ahead' = later
      BY <1>1, <2>1 DEF Ahead, later
    <3> QED
      BY <3>3, <3>4
  <2>6. Holds(Ahead, wrote, Len(got))'
    BY <1>1, <1>7, <2>4, <2>5
  <2>7. ASSUME expects' = "end"
        PROVE  /\ Len(got') = Len(wrote') /\ Len(got') > 0
               /\ got'[Len(got')].tag \in {0, 3, 4}
    <3>1. s.tag \in {0, 3, 4}
      BY <1>11, <1>13, <2>1, <2>7
    <3>2. k + 1 = Len(wrote)
      <4> SUFFICES ASSUME k + 1 # Len(wrote) PROVE FALSE
        OBVIOUS
      <4>1. k + 2 \in 1 .. Len(wrote) /\ k + 2 # 1 /\ (k + 2) - 1 = k + 1
        BY <1>6
      <4>2. wrote[(k + 2) - 1].tag \in {1, 2}
        BY <4>1 DEF StatusInv, InSequence
      <4> QED
        BY <3>1, <4>1, <4>2
    <3> QED
      BY <1>1, <1>6, <2>4, <3>1, <3>2
  <2>8. Len(got') > 0
    BY <1>6, <2>4
  <2> QED
    BY <2>1, <2>4, <2>6, <2>7, <2>8 DEF StatusInv
<1> QED
  BY <1>12, <1>13

LEMMA StatusInvCount ==
    ASSUME Typed, StatusInv, ReadCount
    PROVE  StatusInv' /\ Typed'
<1> DEFINE k == Len(got)
           s == wrote[k + 1]
           d == SubSeq(down, SizeBytes + 1, Len(down))
           first == SubSeq(down, 1, SizeBytes)
           w == Word(s.count, SizeBytes)
<1>1. /\ expects = "count" /\ Len(down) >= SizeBytes
      /\ expects' = "status" /\ down' = d
      /\ got' = Append(got, [tag |-> 2, count |-> Value(first)])
      /\ UNCHANGED <<offer, upVars, readVars, wrote, unsent, lost>>
  BY DEF ReadCount
<1>2. /\ down \in Seq(Byte) /\ unsent \in Seq(Byte) /\ Len(down) \in Nat
      /\ SizeBytes \in Nat /\ SizeBytes \in 0 .. Len(down)
  BY <1>1, LenProperties, WidthAssumption DEF Typed
<1>3. /\ first \in Seq(Byte) /\ Len(first) = SizeBytes
      /\ \A i \in 1 .. SizeBytes : first[i] = down[i]
      /\ d \in Seq(Byte)
  BY <1>2, Split
<1>4. first \o d = down
  BY <1>2, Rejoin
<1> HIDE DEF first, d
<1>5. Ahead = <<2>> \o (down \o unsent)
  BY <1>1 DEF Ahead
<1>6. /\ down \o unsent \in Seq(Byte) /\ <<2>> \in Seq(Byte) /\ d \o unsent \in Seq(Byte)
  BY <1>2, <1>3, AheadType, ConcatProperties
<1>7. Ahead # <<>> /\ Ahead[1] = 2
  <2>1. /\ Len(<<2>>) = 1 /\ <<2>>[1] = 2 /\ Len(down \o unsent) \in Nat
    BY <1>6, LenProperties
  <2>2. /\ Len(Ahead) = Len(<<2>>) + Len(down \o unsent)
        /\ \A i \in 1 .. Len(<<2>>) + Len(down \o unsent) :
             Ahead[i] = IF i <= Len(<<2>>) THEN <<2>>[i] ELSE (down \o unsent)[i - Len(<<2>>)]
    BY <1>5, <1>6, ConcatProperties
  <2>3. Len(Ahead) # 0 /\ Ahead[1] = 2
    BY <2>1, <2>2
  <2> QED
    BY <2>3, EmptySeq
<1>8. /\ k \in Nat /\ Len(wrote) \in Nat /\ k + 1 \in 1 .. Len(wrote) /\ s \in Status
      /\ \E rest \in Seq(Byte) : Ahead = StatusEncoding(s) \o rest /\ Holds(rest, wrote, k + 1)
  BY <1>1, <1>7, NextStatus
<1>9. PICK rest \in Seq(Byte) : Ahead = StatusEncoding(s) \o rest /\ Holds(rest, wrote, k + 1)
  BY <1>8
<1>10. s.tag = 2
  <2> DEFINE e == StatusEncoding(s)
  <2>1. e \in Seq(Byte) /\ Len(e) \in Nat /\ Len(e) # 0 /\ e[1] = s.tag
    <3>1. e \in Seq(Byte) /\ e[1] = s.tag /\ Len(e) = IF s.tag = 2 THEN SizeBytes + 1 ELSE 1
      BY <1>8, StatusEncoded
    <3> HIDE DEF e
    <3> QED
      BY <1>2, <3>1
  <2> HIDE DEF e
  <2>2. /\ Len(rest) \in Nat
        /\ \A i \in 1 .. Len(e) + Len(rest) :
             (e \o rest)[i] = IF i <= Len(e) THEN e[i] ELSE rest[i - Len(e)]
    BY <2>1, ConcatProperties, LenProperties
  <2>3. (e \o rest)[1] = e[1]
    BY <2>1, <2>2
  <2> QED
    BY <1>7, <1>9, <2>1, <2>3 DEF e
<1>11. /\ s.count \in Nat /\ Fits(s.count, SizeBytes) /\ StatusEncoding(s) = <<2>> \o w
       /\ w \in Seq(Byte) /\ Len(w) = SizeBytes
  <2>1. s.count \in Nat /\ Fits(s.count, SizeBytes) /\ StatusEncoding(s) = <<2>> \o w
    BY <1>8, <1>10, StatusEncoded
  <2> QED
    BY <1>2, <2>1, WordType
<1> HIDE DEF w
<1>12. first \o (d \o unsent) = w \o rest
  <2>1. (<<2>> \o w) \o rest = <<2>> \o (w \o rest)
    BY <1>6, <1>11, Associates
  <2>2. w \o rest \in Seq(Byte)
    BY <1>11, ConcatProperties
  <2>3. <<2>> \o (down \o unsent) = <<2>> \o (w \o rest)
    BY <1>5, <1>9, <1>11, <2>1
  <2>4. down \o unsent = w \o rest
    BY <1>6, <2>2, <2>3, Cancels
  <2>5. first \in Seq(Byte) /\ d \in Seq(Byte) /\ unsent \in Seq(Byte)
    BY <1>2, <1>3
  <2>6. (first \o d) \o unsent = first \o (d \o unsent)
    BY <2>5, Associates
  <2> QED
    BY <1>4, <2>4, <2>6
<1>13. first = w
  <2> DEFINE x == d \o unsent
  <2>1. x \in Seq(Byte) /\ Len(x) \in Nat /\ Len(rest) \in Nat
    BY <1>6, LenProperties
  <2> HIDE DEF x
  <2>2. \A i \in 1 .. Len(first) + Len(x) :
          (first \o x)[i] = IF i <= Len(first) THEN first[i] ELSE x[i - Len(first)]
    BY <1>3, <2>1, ConcatProperties
  <2>3. \A i \in 1 .. Len(w) + Len(rest) :
          (w \o rest)[i] = IF i <= Len(w) THEN w[i] ELSE rest[i - Len(w)]
    BY <1>11, ConcatProperties
  <2>4. first \o x = w \o rest
    BY <1>12 DEF x
  <2>5. ASSUME NEW i \in 1 .. SizeBytes PROVE first[i] = w[i]
    <3>1. i \in 1 .. Len(first) + Len(x) /\ i \in 1 .. Len(w) + Len(rest) /\ i <= SizeBytes
      BY <1>2, <1>3, <1>11, <2>1
    <3> QED
      BY <1>3, <1>11, <2>2, <2>3, <2>4, <3>1
  <2> QED
    BY <1>3, <1>11, <2>5, SeqEqual
<1>14. Ahead' = rest
  <2>1. d \o unsent = rest
    <3>1. w \o (d \o unsent) = w \o rest
      BY <1>12, <1>13
    <3> QED
      BY <1>6, <1>11, <3>1, Cancels
  <2> QED
    BY <1>1, <2>1 DEF Ahead
<1>15. got' = Append(got, s)
  <2>1. Value(first) = s.count
    BY <1>2, <1>11, <1>13, RoundTrip DEF w
  <2>2. s = [tag |-> 2, count |-> s.count]
    BY <1>8, <1>10 DEF Status
  <2> QED
    BY <1>1, <2>1, <2>2
<1>16. /\ got' \in Seq(Status) /\ Len(got') = k + 1
       /\ InSequence' /\ GotInOrder'
  BY <1>1, <1>8, <1>15, GotNext
<1>17. Holds(Ahead, wrote, Len(got))'
  BY <1>1, <1>9, <1>14, <1>16
<1>18. Len(got') > 0
  BY <1>8, <1>16
<1>19. Typed'
  <2>1. Encoding' = Encoding
    BY <1>1 DEF Encoding
  <2> QED
    BY <1>1, <1>3, <1>16, <2>1 DEF Typed, upVars, readVars
<1> QED
  BY <1>1, <1>16, <1>17, <1>18, <1>19 DEF StatusInv

\* A read of the other stream leaves a refusal as it is.
LEMMA StatusInvKept ==
    ASSUME StatusInv, UNCHANGED statusVars,
           field = "refused" => field' = "refused", lost => lost'
    PROVE  StatusInv'
BY DEF StatusInv, InSequence, GotInOrder, Ahead, statusVars

LEMMA StatusInvStep == Typed /\ StatusInv /\ [Next]_vars => StatusInv'
<1> SUFFICES ASSUME Typed, StatusInv, [Next]_vars
             PROVE  StatusInv'
  OBVIOUS
<1>1. CASE WriteOffer \/ EndOffer \/ LoseConnection \/ UNCHANGED vars
  BY <1>1, StatusInvKept DEF WriteOffer, EndOffer, LoseConnection, vars, readVars
<1>2. CASE ReadStep
  BY <1>2, StatusInvKept DEF ReadStep, ReadLength, ReadName, ReadSize, ReadTicket, Read
<1>3. CASE ReadFails
  BY <1>3, StatusInvKept DEF ReadFails
<1>4. CASE StatusFails
  BY <1>4 DEF StatusFails, StatusInv, InSequence, GotInOrder, readVars
<1> QED
  BY <1>1, <1>2, <1>3, <1>4, StatusInvWrite, StatusInvDeliver, StatusInvTag, StatusInvCount
     DEF Next, ReadStep, Over

-----------------------------------------------------------------------------
(* The inductive invariant, and what it implies.                           *)

IInv == Typed /\ OfferInv /\ StatusInv

LEMMA IInvInit == Init => IInv
BY TypedInit, OfferInvInit, StatusInvInit DEF IInv

LEMMA IInvStep == IInv /\ [Next]_vars => IInv'
<1> SUFFICES ASSUME Typed, OfferInv, StatusInv, [Next]_vars
             PROVE  Typed'
  BY OfferInvStep, StatusInvStep DEF IInv
<1>1. CASE EndOffer \/ ReadFails \/ LoseConnection \/ UNCHANGED vars
  <2>1. Encoding' = Encoding
    BY <1>1 DEF EndOffer, ReadFails, LoseConnection, vars, Encoding
  <2> QED
    BY <1>1, <2>1 DEF Typed, EndOffer, ReadFails, LoseConnection, vars, upVars, readVars, statusVars
<1> QED
  BY <1>1, WriteTyping, ReadTyping, StatusTyping, StatusInvCount DEF Next, ReadStep, Over

LEMMA Invariance == Spec => []IInv
BY IInvInit, IInvStep, PTL DEF Spec

\* The variables of the byte streams keep their types.
THEOREM Typing == Spec => []TypeOK
<1>1. IInv => TypeOK
  BY TypedIsTypeOK DEF IInv
<1> QED
  BY <1>1, Invariance, PTL

\* An offer that read_from returns is the one that write_to wrote: names and
\* tickets of any length, however the bytes are cut up.
THEOREM OfferArrivesIntact == Spec => []OfferIsIntact
<1>1. IInv => OfferIsIntact
  BY DEF IInv, OfferInv
<1> QED
  BY <1>1, Invariance, PTL

\* read_from refuses an offer that was written in full only for its name.
THEOREM RefusalIsJustified == Spec => []OnlyLongNamesRefused
<1>1. IInv => OnlyLongNamesRefused
  BY DEF IInv, OfferInv, OnlyLongNamesRefused
<1> QED
  BY <1>1, Invariance, PTL

\* run_sender reads the statuses that the handler wrote, in their order and
\* none half: a count is never taken for a tag.
THEOREM StatusesArriveInStep == Spec => []StatusesInStep
<1>1. IInv => StatusesInStep
  <2> SUFFICES ASSUME Typed, StatusInv PROVE StatusesInStep
    BY DEF IInv
  <2>1. /\ wrote \in Seq(Status) /\ got \in Seq(Status)
        /\ Len(wrote) \in Nat /\ Len(got) \in Nat
    BY LenProperties DEF Typed
  <2>2. Len(got) <= Len(wrote) /\ \A i \in 1 .. Len(got) : got[i] = wrote[i]
    BY DEF StatusInv, GotInOrder
  <2>3. Len(got) \in 0 .. Len(got) /\ Len(got) \in 0 .. Len(wrote)
    BY <2>1, <2>2
  <2>4. /\ SubSeq(got, 1, Len(got)) \in Seq(Status)
        /\ Len(SubSeq(got, 1, Len(got))) = Len(got)
        /\ \A i \in 1 .. Len(got) : SubSeq(got, 1, Len(got))[i] = got[i]
    BY <2>1, <2>3, Split
  <2>5. /\ SubSeq(wrote, 1, Len(got)) \in Seq(Status)
        /\ Len(SubSeq(wrote, 1, Len(got))) = Len(got)
        /\ \A i \in 1 .. Len(got) : SubSeq(wrote, 1, Len(got))[i] = wrote[i]
    BY <2>1, <2>3, Split
  <2>6. SubSeq(got, 1, Len(got)) = SubSeq(wrote, 1, Len(got))
    BY <2>2, <2>4, <2>5, SeqEqual
  <2>7. IsPrefix(got, wrote)
    BY <2>2, <2>6 DEF IsPrefix
  <2>8. expects = "end" => got = wrote
    BY <2>1, <2>2, SeqEqual DEF StatusInv
  <2>9. expects = "error" => lost \/ field = "refused"
    BY DEF StatusInv
  <2> QED
    BY <2>7, <2>8, <2>9 DEF StatusesInStep
<1> QED
  BY <1>1, Invariance, PTL
=============================================================================
