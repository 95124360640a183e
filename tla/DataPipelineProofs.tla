------------------------- MODULE DataPipelineProofs -------------------------
(***************************************************************************)
(* Machine-checked proofs about DataPipeline, for any number of protos,    *)
(* workers, epochs and deaths and any sizes of the queues and the buffer:  *)
(* the types, that epochs do not mix and are complete, and that every      *)
(* chunk is in one place.                                                  *)
(***************************************************************************)
EXTENDS DataPipeline, SequenceTheorems, FiniteSetTheorems, TLAPS

-----------------------------------------------------------------------------
(* Markers in a queue *)

\* Markers among the first n entries.
Marks(q, n) == Cardinality({j \in 1 .. n : q[j] = EndOfEpoch})

LEMMA MarksType ==
  ASSUME NEW q, NEW n \in Nat
  PROVE  Marks(q, n) \in Nat /\ IsFiniteSet({j \in 1 .. n : q[j] = EndOfEpoch})
<1>1. IsFiniteSet(1 .. n)
  BY FS_Interval
<1>2. IsFiniteSet({j \in 1 .. n : q[j] = EndOfEpoch})
  BY <1>1, FS_Subset
<1> QED
  BY <1>2, FS_CardinalityType DEF Marks

LEMMA MarksNat == \A q : \A n \in Nat : Marks(q, n) \in Nat
BY MarksType

LEMMA MarksNone == \A q : Marks(q, 0) = 0
BY FS_EmptySet DEF Marks

LEMMA MarksNext ==
  ASSUME NEW q, NEW n \in Nat
  PROVE  Marks(q, n + 1) = Marks(q, n) + (IF q[n + 1] = EndOfEpoch THEN 1 ELSE 0)
<1> DEFINE A == {j \in 1 .. n : q[j] = EndOfEpoch}
           B == {j \in 1 .. n + 1 : q[j] = EndOfEpoch}
<1>1. IsFiniteSet(A) /\ Cardinality(A) \in Nat
  BY MarksType DEF Marks
<1>2. CASE q[n + 1] = EndOfEpoch
  <2>1. B = A \union {n + 1} /\ n + 1 \notin A
    BY <1>2
  <2> QED
    BY <1>1, <1>2, <2>1, FS_AddElement DEF Marks
<1>3. CASE q[n + 1] # EndOfEpoch
  <2>1. B = A
    BY <1>3
  <2> QED
    BY <1>1, <1>3, <2>1 DEF Marks
<1> QED
  BY <1>2, <1>3

LEMMA MarksSame ==
  ASSUME NEW q, NEW r, NEW n \in Nat, \A j \in 1 .. n : r[j] = q[j]
  PROVE  Marks(r, n) = Marks(q, n)
<1>1. {j \in 1 .. n : r[j] = EndOfEpoch} = {j \in 1 .. n : q[j] = EndOfEpoch}
  OBVIOUS
<1> QED
  BY <1>1 DEF Marks

LEMMA MarksGrow ==
  ASSUME NEW q, NEW m \in Nat, NEW n \in Nat, m <= n
  PROVE  Marks(q, m) <= Marks(q, n)
<1> DEFINE A == {j \in 1 .. m : q[j] = EndOfEpoch}
           B == {j \in 1 .. n : q[j] = EndOfEpoch}
<1>1. IsFiniteSet(B) /\ A \subseteq B
  BY MarksType
<1>2. Cardinality(A) <= Cardinality(B)
  BY <1>1, FS_Subset
<1> QED
  BY <1>2 DEF Marks

\* The same queue without its first entry.
LEMMA MarksTail ==
  ASSUME NEW q, NEW r, NEW n \in Nat, \A j \in 1 .. n : r[j] = q[j + 1]
  PROVE  Marks(q, n + 1) = Marks(r, n) + (IF q[1] = EndOfEpoch THEN 1 ELSE 0)
<1> DEFINE A == {j \in 1 .. n : r[j] = EndOfEpoch}
           B == {j \in 2 .. n + 1 : q[j] = EndOfEpoch}
           C == {j \in 1 .. n + 1 : q[j] = EndOfEpoch}
           f == [j \in A |-> j + 1]
<1>1. f \in Bijection(A, B)
  <2>1. \A j \in A : j + 1 \in B
    OBVIOUS
  <2>2. \A j \in B : j - 1 \in A /\ j = (j - 1) + 1
    OBVIOUS
  <2>3. f \in [A -> B]
    BY <2>1
  <2>4. \A a, b \in A : f[a] = f[b] => a = b
    OBVIOUS
  <2>5. \A b \in B : \E a \in A : f[a] = b
    BY <2>2
  <2> HIDE DEF A, B, f
  <2>6. f \in Injection(A, B)
    BY <2>3, <2>4 DEF Injection, IsInjective
  <2>7. f \in Surjection(A, B)
    BY <2>3, <2>5 DEF Surjection
  <2> QED
    BY <2>6, <2>7 DEF Bijection
<1>2. IsFiniteSet(A) /\ Cardinality(A) \in Nat /\ Cardinality(A) = Marks(r, n)
  BY MarksType DEF Marks
<1>3. IsFiniteSet(B) /\ Cardinality(B) = Cardinality(A)
  <2> HIDE DEF A, B, f
  <2> QED
    BY <1>1, <1>2, FS_Bijection DEF ExistsBijection
<1>4. CASE q[1] = EndOfEpoch
  <2>1. C = B \union {1} /\ 1 \notin B
    BY <1>4
  <2>2. Cardinality(C) = Cardinality(B) + 1
    BY <1>3, <2>1, FS_AddElement
  <2> QED
    BY <1>2, <1>3, <1>4, <2>2 DEF Marks
<1>5. CASE q[1] # EndOfEpoch
  <2>1. C = B
    BY <1>5
  <2>2. Marks(q, n + 1) = Cardinality(C)
    BY DEF Marks
  <2> HIDE DEF A, B, C
  <2> QED
    BY <1>2, <1>3, <1>5, <2>1, <2>2
<1> QED
  BY <1>4, <1>5

-----------------------------------------------------------------------------
(* The epochs of the entries of a queue *)

\* Every entry of q has the epoch its place between the markers says.
Tagged(q, k) == \A i \in 1 .. Len(q) : q[i] # EndOfEpoch => q[i].epoch = EpochAt(q, k, i)

\* The epoch of whatever is put into q next.
EpochAfter(q, k) == EpochAt(q, k, Len(q) + 1)

LEMMA EpochMarks ==
  ASSUME NEW q, NEW k \in Nat, NEW i \in Nat \ {0}
  PROVE  EpochAt(q, k, i) = k + Marks(q, i - 1) /\ EpochAt(q, k, i) \in Nat
<1>1. i - 1 \in Nat
  OBVIOUS
<1>2. Marks(q, i - 1) \in Nat
  BY <1>1, MarksNat
<1> QED
  BY <1>2 DEF EpochAt, Marks

LEMMA AfterMarks ==
  ASSUME NEW S, NEW q \in Seq(S), NEW k \in Nat
  PROVE  EpochAfter(q, k) = k + Marks(q, Len(q)) /\ EpochAfter(q, k) \in Nat
<1>1. Len(q) \in Nat /\ Len(q) + 1 \in Nat \ {0} /\ (Len(q) + 1) - 1 = Len(q)
  OBVIOUS
<1> QED
  BY <1>1, EpochMarks DEF EpochAfter

LEMMA TagEmpty == \A k \in Nat : Tagged(<<>>, k) /\ EpochAfter(<<>>, k) = k
<1> SUFFICES ASSUME NEW k \in Nat PROVE Tagged(<<>>, k) /\ EpochAfter(<<>>, k) = k
  OBVIOUS
<1>1. Len(<<>>) = 0 /\ <<>> \in Seq({})
  OBVIOUS
<1>2. EpochAfter(<<>>, k) = k + Marks(<<>>, Len(<<>>))
  BY <1>1, AfterMarks
<1>3. EpochAfter(<<>>, k) = k
  BY <1>1, <1>2, MarksNone
<1> QED
  BY <1>1, <1>3 DEF Tagged

LEMMA TagAppend ==
  ASSUME NEW S, NEW q \in Seq(S), NEW k \in Nat, NEW x \in S, Tagged(q, k),
         x # EndOfEpoch => x.epoch = EpochAfter(q, k)
  PROVE  /\ Tagged(Append(q, x), k)
         /\ EpochAfter(Append(q, x), k) = EpochAfter(q, k) + (IF x = EndOfEpoch THEN 1 ELSE 0)
<1> DEFINE r == Append(q, x)
           n == Len(q)
<1>1. n \in Nat /\ r \in Seq(S) /\ Len(r) = n + 1 /\ r[n + 1] = x /\ \A j \in 1 .. n : r[j] = q[j]
  OBVIOUS
<1> HIDE DEF r, n
<1>2. \A m \in 0 .. n : Marks(r, m) = Marks(q, m)
  BY <1>1, MarksSame
<1>3. EpochAfter(r, k) = k + Marks(q, n) + (IF x = EndOfEpoch THEN 1 ELSE 0)
  <2>1. EpochAfter(r, k) = k + Marks(r, n + 1)
    BY <1>1, AfterMarks
  <2>2. Marks(r, n + 1) = Marks(r, n) + (IF x = EndOfEpoch THEN 1 ELSE 0)
    BY <1>1, MarksNext
  <2>3. Marks(r, n) = Marks(q, n) /\ Marks(q, n) \in Nat
    BY <1>1, <1>2, MarksNat
  <2> QED
    BY <2>1, <2>2, <2>3
<1>4. EpochAfter(q, k) = k + Marks(q, n) /\ Marks(q, n) \in Nat
  BY <1>1, AfterMarks, MarksNat DEF n
<1>5. ASSUME NEW i \in 1 .. n + 1, r[i] # EndOfEpoch PROVE r[i].epoch = EpochAt(r, k, i)
  <2>1. i \in Nat \ {0} /\ i - 1 \in 0 .. n
    BY <1>1
  <2>2. EpochAt(r, k, i) = k + Marks(q, i - 1) /\ EpochAt(q, k, i) = k + Marks(q, i - 1)
    BY <1>2, <2>1, EpochMarks
  <2>3. CASE i = n + 1
    <3>1. r[i] = x /\ i - 1 = n
      BY <1>1, <2>3
    <3> QED
      BY <1>4, <1>5, <2>2, <3>1
  <2>4. CASE i # n + 1
    <3>1. i \in 1 .. n /\ r[i] = q[i]
      BY <1>1, <2>4
    <3> QED
      BY <1>5, <2>2, <3>1 DEF Tagged, n
  <2> QED
    BY <2>3, <2>4
<1>6. Tagged(r, k)
  BY <1>1, <1>5 DEF Tagged
<1> QED
  BY <1>3, <1>4, <1>6 DEF r

LEMMA TagTail ==
  ASSUME NEW S, NEW q \in Seq(S), q # <<>>, NEW k \in Nat, Tagged(q, k)
  PROVE  /\ Head(q) # EndOfEpoch =>
              Head(q).epoch = k /\ Tagged(Tail(q), k) /\ EpochAfter(Tail(q), k) = EpochAfter(q, k)
         /\ Head(q) = EndOfEpoch =>
              Tagged(Tail(q), k + 1) /\ EpochAfter(Tail(q), k + 1) = EpochAfter(q, k)
<1> DEFINE r == Tail(q)
           n == Len(q)
           b == IF q[1] = EndOfEpoch THEN 1 ELSE 0
<1>1. /\ n \in Nat \ {0} /\ n - 1 \in Nat /\ r \in Seq(S) /\ Len(r) = n - 1 /\ Head(q) = q[1]
      /\ \A j \in 1 .. n - 1 : r[j] = q[j + 1]
  BY HeadTailProperties
<1> HIDE DEF r, n
<1>2. b \in Nat /\ k + b \in Nat
  OBVIOUS
<1>3. ASSUME NEW m \in 0 .. n - 1 PROVE Marks(q, m + 1) = Marks(r, m) + b /\ Marks(r, m) \in Nat
  <2>1. m \in Nat /\ \A j \in 1 .. m : r[j] = q[j + 1]
    BY <1>1
  <2> QED
    BY <2>1, MarksTail, MarksNat DEF b
<1> HIDE DEF b
<1>4. EpochAfter(r, k + b) = EpochAfter(q, k)
  <2>1. EpochAfter(r, k + b) = k + b + Marks(r, n - 1)
    BY <1>1, <1>2, AfterMarks
  <2>2. EpochAfter(q, k) = k + Marks(q, n)
    BY <1>1, AfterMarks DEF n
  <2>3. n - 1 \in 0 .. n - 1 /\ (n - 1) + 1 = n
    BY <1>1
  <2>4. Marks(q, n) = Marks(r, n - 1) + b /\ Marks(r, n - 1) \in Nat
    BY <1>3, <2>3
  <2> QED
    BY <1>2, <2>1, <2>2, <2>4
<1>5. ASSUME NEW i \in 1 .. n - 1, r[i] # EndOfEpoch PROVE r[i].epoch = EpochAt(r, k + b, i)
  <2>1. i \in Nat \ {0} /\ i - 1 \in 0 .. n - 1 /\ (i - 1) + 1 = i /\ i + 1 \in 1 .. n /\ (i + 1) - 1 = i
    BY <1>1
  <2>2. r[i] = q[i + 1]
    BY <1>1
  <2>3. r[i].epoch = EpochAt(q, k, i + 1)
    BY <1>5, <2>1, <2>2 DEF Tagged, n
  <2>4. EpochAt(q, k, i + 1) = k + Marks(q, i)
    BY <2>1, EpochMarks
  <2>5. EpochAt(r, k + b, i) = k + b + Marks(r, i - 1)
    BY <1>2, <2>1, EpochMarks
  <2>6. Marks(q, i) = Marks(r, i - 1) + b /\ Marks(r, i - 1) \in Nat
    BY <1>3, <2>1
  <2> QED
    BY <1>2, <2>3, <2>4, <2>5, <2>6
<1>6. Tagged(r, k + b)
  BY <1>1, <1>5 DEF Tagged
<1>7. q[1] # EndOfEpoch => q[1].epoch = k
  <2>1. 1 \in 1 .. n /\ 1 \in Nat \ {0} /\ 1 - 1 = 0
    BY <1>1
  <2>2. EpochAt(q, k, 1) = k
    BY <2>1, EpochMarks, MarksNone
  <2> QED
    BY <2>1, <2>2 DEF Tagged, n
<1>8. (q[1] # EndOfEpoch => k + b = k) /\ (q[1] = EndOfEpoch => k + b = k + 1)
  BY DEF b
<1> QED
  BY <1>1, <1>4, <1>6, <1>7, <1>8 DEF r

\* Every entry is between the epoch the reader is in and that of what comes next.
LEMMA TagRange ==
  ASSUME NEW S, NEW q \in Seq(S), NEW k \in Nat, Tagged(q, k)
  PROVE  /\ EpochAfter(q, k) \in Nat /\ k <= EpochAfter(q, k)
         /\ \A x \in ToSet(q) \ {EndOfEpoch} : x.epoch \in Nat /\ k <= x.epoch /\ x.epoch <= EpochAfter(q, k)
<1>1. Len(q) \in Nat /\ Marks(q, Len(q)) \in Nat /\ EpochAfter(q, k) = k + Marks(q, Len(q))
  BY AfterMarks, MarksNat
<1>2. ASSUME NEW i \in 1 .. Len(q), q[i] # EndOfEpoch
      PROVE  q[i].epoch \in Nat /\ k <= q[i].epoch /\ q[i].epoch <= EpochAfter(q, k)
  <2>1. i \in Nat \ {0} /\ i - 1 \in Nat /\ i - 1 <= Len(q)
    BY <1>1
  <2>2. q[i].epoch = k + Marks(q, i - 1)
    BY <1>2, <2>1, EpochMarks DEF Tagged
  <2>3. Marks(q, i - 1) \in Nat /\ Marks(q, i - 1) <= Marks(q, Len(q))
    BY <1>1, <2>1, MarksNat, MarksGrow
  <2> QED
    BY <1>1, <2>2, <2>3
<1>3. DOMAIN q = 1 .. Len(q)
  OBVIOUS
<1> QED
  BY <1>1, <1>2, <1>3 DEF ToSet

LEMMA TagCut ==
  ASSUME NEW S, NEW q \in Seq(S), NEW k \in Nat, Tagged(q, k), NEW n \in 0 .. Len(q)
  PROVE  Tagged(SubSeq(q, 1, n), k) /\ EpochAfter(SubSeq(q, 1, n), k) <= EpochAfter(q, k)
<1> DEFINE r == SubSeq(q, 1, n)
<1>1. n \in Nat /\ Len(q) \in Nat /\ n <= Len(q) /\ r \in Seq(S) /\ Len(r) = n /\ \A j \in 1 .. n : r[j] = q[j]
  OBVIOUS
<1> HIDE DEF r
<1>2. \A m \in 0 .. n : Marks(r, m) = Marks(q, m)
  BY <1>1, MarksSame
<1>3. EpochAfter(r, k) <= EpochAfter(q, k)
  <2>1. EpochAfter(r, k) = k + Marks(r, n) /\ EpochAfter(q, k) = k + Marks(q, Len(q))
    BY <1>1, AfterMarks
  <2>2. Marks(r, n) = Marks(q, n) /\ Marks(q, n) <= Marks(q, Len(q)) /\ Marks(q, n) \in Nat /\ Marks(q, Len(q)) \in Nat
    BY <1>1, <1>2, MarksGrow, MarksNat
  <2> QED
    BY <2>1, <2>2
<1>4. ASSUME NEW i \in 1 .. n, r[i] # EndOfEpoch PROVE r[i].epoch = EpochAt(r, k, i)
  <2>1. i \in Nat \ {0} /\ i - 1 \in 0 .. n /\ i \in 1 .. Len(q)
    BY <1>1
  <2>2. EpochAt(r, k, i) = k + Marks(q, i - 1) /\ EpochAt(q, k, i) = k + Marks(q, i - 1)
    BY <1>2, <2>1, EpochMarks
  <2> QED
    BY <1>1, <1>4, <2>1, <2>2 DEF Tagged
<1> QED
  BY <1>1, <1>3, <1>4 DEF Tagged, r

\* No markers: one epoch.
LEMMA TagPlain ==
  ASSUME NEW S, NEW q \in Seq(S), NEW k \in Nat, \A i \in 1 .. Len(q) : q[i] # EndOfEpoch /\ q[i].epoch = k
  PROVE  Tagged(q, k) /\ EpochAfter(q, k) = k
<1>1. ASSUME NEW n \in 0 .. Len(q) PROVE Marks(q, n) = 0
  <2>1. {j \in 1 .. n : q[j] = EndOfEpoch} = {}
    OBVIOUS
  <2> QED
    BY <2>1, FS_EmptySet DEF Marks
<1>2. EpochAfter(q, k) = k
  BY <1>1, AfterMarks
<1>3. \A i \in 1 .. Len(q) : EpochAt(q, k, i) = k
  BY <1>1, EpochMarks
<1> QED
  BY <1>2, <1>3 DEF Tagged
-----------------------------------------------------------------------------
(* What is in a queue, once *)

Uniq(s) == \A i, j \in 1 .. Len(s) : i # j /\ s[i] = s[j] => s[i] = EndOfEpoch

LEMMA SetAppend ==
  ASSUME NEW S, NEW s \in Seq(S), NEW x \in S
  PROVE  /\ ToSet(Append(s, x)) = ToSet(s) \union {x}
         /\ Uniq(s) /\ (x = EndOfEpoch \/ x \notin ToSet(s)) => Uniq(Append(s, x))
<1> DEFINE r == Append(s, x)
           n == Len(s)
<1>1. /\ n \in Nat /\ DOMAIN s = 1 .. n /\ Len(r) = n + 1 /\ DOMAIN r = 1 .. n + 1
      /\ r[n + 1] = x /\ \A j \in 1 .. n : r[j] = s[j]
  OBVIOUS
<1> HIDE DEF r, n
<1>2. ToSet(r) = ToSet(s) \union {x}
  BY <1>1 DEF ToSet
<1>3. ASSUME Uniq(s), x = EndOfEpoch \/ x \notin ToSet(s) PROVE Uniq(r)
  <2> SUFFICES ASSUME NEW i \in 1 .. n + 1, NEW j \in 1 .. n + 1, i # j, r[i] = r[j] PROVE r[i] = EndOfEpoch
    BY <1>1 DEF Uniq
  <2>1. CASE i \in 1 .. n /\ j \in 1 .. n
    BY <1>1, <1>3, <2>1 DEF Uniq, n
  <2>2. CASE i = n + 1 \/ j = n + 1
    <3>1. r[i] = x /\ r[j] = x /\ (i \in 1 .. n \/ j \in 1 .. n)
      BY <1>1, <2>2
    <3>2. x = EndOfEpoch \/ \A m \in 1 .. n : s[m] # x
      BY <1>1, <1>3 DEF ToSet
    <3> QED
      BY <1>1, <3>1, <3>2
  <2> QED
    BY <1>1, <2>1, <2>2
<1> QED
  BY <1>2, <1>3 DEF r

LEMMA SetTail ==
  ASSUME NEW S, NEW s \in Seq(S), s # <<>>
  PROVE  /\ ToSet(s) = ToSet(Tail(s)) \union {Head(s)} /\ Head(s) \in S
         /\ Uniq(s) => Uniq(Tail(s)) /\ (Head(s) # EndOfEpoch => Head(s) \notin ToSet(Tail(s)))
<1> DEFINE r == Tail(s)
           n == Len(s)
<1>1. /\ n \in Nat \ {0} /\ DOMAIN s = 1 .. n /\ Len(r) = n - 1 /\ DOMAIN r = 1 .. n - 1
      /\ Head(s) = s[1] /\ Head(s) \in S /\ \A j \in 1 .. n - 1 : r[j] = s[j + 1]
  BY HeadTailProperties
<1> HIDE DEF r, n
<1>2. ToSet(s) = ToSet(r) \union {s[1]}
  <2>1. \A j \in 1 .. n : j = 1 \/ (j - 1 \in 1 .. n - 1 /\ (j - 1) + 1 = j)
    BY <1>1
  <2>2. \A j \in 1 .. n : s[j] \in ToSet(r) \union {s[1]}
    <3> TAKE j \in 1 .. n
    <3>1. CASE j = 1
      BY <3>1
    <3>2. CASE j - 1 \in 1 .. n - 1 /\ (j - 1) + 1 = j
      <4>1. r[j - 1] = s[j]
        BY <1>1, <3>2
      <4> QED
        BY <1>1, <3>2, <4>1 DEF ToSet
    <3> QED
      BY <2>1, <3>1, <3>2
  <2>3. \A j \in 1 .. n - 1 : r[j] \in ToSet(s)
    <3>1. \A j \in 1 .. n - 1 : j + 1 \in 1 .. n
      BY <1>1
    <3>2. \A x \in 1 .. n : s[x] \in ToSet(s)
      BY <1>1 DEF ToSet
    <3> QED
      BY ONLY <1>1, <3>1, <3>2
  <2>4. s[1] \in ToSet(s)
    BY <1>1 DEF ToSet
  <2> QED
    BY <1>1, <2>2, <2>3, <2>4 DEF ToSet
<1>3. ASSUME Uniq(s) PROVE Uniq(r) /\ (s[1] # EndOfEpoch => s[1] \notin ToSet(r))
  <2>1. \A j \in 1 .. n - 1 : j + 1 \in 1 .. n /\ j + 1 # 1
    BY <1>1
  <2>2. 1 \in 1 .. n
    BY <1>1
  <2>3. \A i, j \in 1 .. n : i # j /\ s[i] = s[j] => s[i] = EndOfEpoch
    BY <1>3 DEF Uniq, n
  <2>4. Uniq(r)
    BY <1>1, <2>1, <2>3 DEF Uniq
  <2>5. s[1] # EndOfEpoch => s[1] \notin ToSet(r)
    BY <1>1, <2>1, <2>2, <2>3 DEF ToSet
  <2> QED
    BY <2>4, <2>5
<1> QED
  BY <1>1, <1>2, <1>3 DEF r

LEMMA SetCut ==
  ASSUME NEW S, NEW s \in Seq(S), NEW m \in 0 .. Len(s)
  PROVE  /\ ToSet(s) = ToSet(SubSeq(s, 1, m)) \union ToSet(SubSeq(s, m + 1, Len(s)))
         /\ Uniq(s) => /\ Uniq(SubSeq(s, 1, m))
                       /\ ToSet(SubSeq(s, 1, m)) \intersect ToSet(SubSeq(s, m + 1, Len(s))) \subseteq {EndOfEpoch}
<1> DEFINE n == Len(s)
           a == SubSeq(s, 1, m)
           b == SubSeq(s, m + 1, n)
<1>1. /\ n \in Nat /\ m \in Nat /\ m <= n /\ DOMAIN s = 1 .. n
      /\ Len(a) = m /\ DOMAIN a = 1 .. m /\ \A j \in 1 .. m : a[j] = s[j]
  OBVIOUS
<1>2. DOMAIN b = 1 .. n - m /\ \A j \in 1 .. n - m : b[j] = s[j + m]
  OBVIOUS
<1> HIDE DEF a, b, n
<1>3. ToSet(s) = ToSet(a) \union ToSet(b)
  <2>1. \A j \in 1 .. n : j \in 1 .. m \/ (j - m \in 1 .. n - m /\ (j - m) + m = j)
    BY <1>1
  <2>2. \A j \in 1 .. n : s[j] \in ToSet(a) \union ToSet(b)
    <3> TAKE j \in 1 .. n
    <3>1. CASE j \in 1 .. m
      BY <1>1, <3>1 DEF ToSet
    <3>2. CASE j - m \in 1 .. n - m /\ (j - m) + m = j
      <4>1. b[j - m] = s[j]
        BY <1>2, <3>2
      <4> QED
        BY <1>2, <3>2, <4>1 DEF ToSet
    <3> QED
      BY <2>1, <3>1, <3>2
  <2>3. \A j \in 1 .. m : a[j] \in ToSet(s)
    BY <1>1 DEF ToSet
  <2>4. \A j \in 1 .. n - m : b[j] \in ToSet(s)
    <3>1. \A j \in 1 .. n - m : j + m \in 1 .. n
      BY <1>1
    <3>2. \A x \in 1 .. n : s[x] \in ToSet(s)
      BY <1>1 DEF ToSet
    <3> QED
      BY ONLY <1>2, <3>1, <3>2
  <2> QED
    BY <1>1, <1>2, <2>2, <2>3, <2>4 DEF ToSet
<1>4. ASSUME Uniq(s) PROVE Uniq(a) /\ ToSet(a) \intersect ToSet(b) \subseteq {EndOfEpoch}
  <2>1. \A i, j \in 1 .. n : i # j /\ s[i] = s[j] => s[i] = EndOfEpoch
    BY <1>4 DEF Uniq, n
  <2>2. Uniq(a)
    BY <1>1, <2>1 DEF Uniq
  <2>3. \A i \in 1 .. m : \A j \in 1 .. n - m : i \in 1 .. n /\ j + m \in 1 .. n /\ i # j + m
    BY <1>1
  <2>4. ToSet(a) \intersect ToSet(b) \subseteq {EndOfEpoch}
    BY <1>1, <1>2, <2>1, <2>3 DEF ToSet
  <2> QED
    BY <2>2, <2>4
<1> QED
  BY <1>3, <1>4 DEF a, b, n

-----------------------------------------------------------------------------
(* What is in the queues of a kind, once *)

\* What is in the queues other than that of i.
Others(q, i) == (UNION {ToSet(q[j]) : j \in DOMAIN q \ {i}}) \ {EndOfEpoch}

LEMMA QSplit ==
  ASSUME NEW I, NEW S, NEW q \in [I -> Seq(S)], NEW i \in I
  PROVE  /\ InQueues(q) = Others(q, i) \union (ToSet(q[i]) \ {EndOfEpoch})
         /\ Once(q) => Uniq(q[i]) /\ Others(q, i) \intersect ToSet(q[i]) = {}
BY DEF InQueues, Others, Once, Uniq

\* The queue of i is replaced.
LEMMA QSwap ==
  ASSUME NEW I, NEW S, NEW q \in [I -> Seq(S)], NEW i \in I, NEW s \in Seq(S)
  PROVE  /\ InQueues([q EXCEPT ![i] = s]) = Others(q, i) \union (ToSet(s) \ {EndOfEpoch})
         /\ Once(q) /\ Uniq(s) /\ Others(q, i) \intersect ToSet(s) = {} => Once([q EXCEPT ![i] = s])
<1> DEFINE r == [q EXCEPT ![i] = s]
<1>1. DOMAIN q = I /\ DOMAIN r = I /\ r[i] = s /\ \A j \in I \ {i} : r[j] = q[j]
  OBVIOUS
<1> HIDE DEF r
<1>2. InQueues(r) = Others(q, i) \union (ToSet(s) \ {EndOfEpoch})
  BY <1>1 DEF InQueues, Others
<1>3. ASSUME Once(q), Uniq(s), Others(q, i) \intersect ToSet(s) = {} PROVE Once(r)
  <2>1. \A x \in I : Uniq(r[x])
    BY <1>1, <1>3 DEF Once, Uniq
  <2>2. \A x \in I \ {i} : ToSet(q[x]) \intersect ToSet(s) \subseteq {EndOfEpoch}
    BY <1>1, <1>3 DEF Others
  <2>3. \A x, y \in I : x # y => ToSet(r[x]) \intersect ToSet(r[y]) \subseteq {EndOfEpoch}
    <3> TAKE x, y \in I
    <3> HAVE x # y
    <3>1. CASE x = i
      BY <1>1, <2>2, <3>1
    <3>2. CASE y = i
      BY <1>1, <2>2, <3>2
    <3>3. CASE x # i /\ y # i
      BY <1>1, <1>3, <3>3 DEF Once
    <3> QED
      BY <3>1, <3>2, <3>3
  <2> QED
    BY <1>1, <2>1, <2>3 DEF Once, Uniq
<1> QED
  BY <1>2, <1>3 DEF r

LEMMA QAppend ==
  ASSUME NEW I, NEW S, NEW q \in [I -> Seq(S)], NEW i \in I, NEW x \in S
  PROVE  /\ InQueues([q EXCEPT ![i] = Append(@, x)]) = InQueues(q) \union ({x} \ {EndOfEpoch})
         /\ Once(q) /\ (x = EndOfEpoch \/ x \notin InQueues(q)) => Once([q EXCEPT ![i] = Append(@, x)])
<1> DEFINE s == Append(q[i], x)
<1>1. q[i] \in Seq(S) /\ s \in Seq(S)
  OBVIOUS
<1>2. ToSet(s) = ToSet(q[i]) \union {x}
      /\ (Uniq(q[i]) /\ (x = EndOfEpoch \/ x \notin ToSet(q[i])) => Uniq(s))
  BY <1>1, SetAppend
<1>3. /\ InQueues([q EXCEPT ![i] = s]) = Others(q, i) \union (ToSet(s) \ {EndOfEpoch})
      /\ Once(q) /\ Uniq(s) /\ Others(q, i) \intersect ToSet(s) = {} => Once([q EXCEPT ![i] = s])
  BY <1>1, QSwap
<1>4. EndOfEpoch \notin Others(q, i)
  BY DEF Others
<1>6. /\ InQueues(q) = Others(q, i) \union (ToSet(q[i]) \ {EndOfEpoch})
      /\ Once(q) => Uniq(q[i]) /\ Others(q, i) \intersect ToSet(q[i]) = {}
  BY QSplit
<1> HIDE DEF s
<1>5. /\ InQueues([q EXCEPT ![i] = s]) = InQueues(q) \union ({x} \ {EndOfEpoch})
      /\ Once(q) /\ (x = EndOfEpoch \/ x \notin InQueues(q)) => Once([q EXCEPT ![i] = s])
  BY ONLY <1>2, <1>3, <1>4, <1>6
<1> QED
  BY <1>5 DEF s

LEMMA QTail ==
  ASSUME NEW I, NEW S, NEW q \in [I -> Seq(S)], NEW i \in I, q[i] # <<>>
  PROVE  /\ InQueues(q) = InQueues([q EXCEPT ![i] = Tail(@)]) \union ({Head(q[i])} \ {EndOfEpoch})
         /\ Once(q) => /\ Once([q EXCEPT ![i] = Tail(@)])
                       /\ Head(q[i]) # EndOfEpoch => Head(q[i]) \notin InQueues([q EXCEPT ![i] = Tail(@)])
<1> DEFINE s == Tail(q[i])
           h == Head(q[i])
<1>1. q[i] \in Seq(S) /\ s \in Seq(S)
  BY HeadTailProperties
<1>2. ToSet(q[i]) = ToSet(s) \union {h}
      /\ (Uniq(q[i]) => Uniq(s) /\ (h # EndOfEpoch => h \notin ToSet(s)))
  BY <1>1, SetTail
<1>3. /\ InQueues([q EXCEPT ![i] = s]) = Others(q, i) \union (ToSet(s) \ {EndOfEpoch})
      /\ Once(q) /\ Uniq(s) /\ Others(q, i) \intersect ToSet(s) = {} => Once([q EXCEPT ![i] = s])
  BY <1>1, QSwap
<1> HIDE DEF s, h
<1>4. /\ InQueues(q) = InQueues([q EXCEPT ![i] = s]) \union ({h} \ {EndOfEpoch})
      /\ Once(q) => /\ Once([q EXCEPT ![i] = s])
                    /\ h # EndOfEpoch => h \notin InQueues([q EXCEPT ![i] = s])
  BY <1>2, <1>3, QSplit
<1> QED
  BY <1>4 DEF s, h

\* The end of a queue is lost.
LEMMA QCut ==
  ASSUME NEW I, NEW S, NEW q \in [I -> Seq(S)], NEW i \in I, NEW n \in 0 .. Len(q[i])
  PROVE  LET lost == ToSet(SubSeq(q[i], n + 1, Len(q[i])))
             kept == [q EXCEPT ![i] = SubSeq(@, 1, n)]
         IN  /\ InQueues(q) \ lost \subseteq InQueues(kept) /\ InQueues(kept) \subseteq InQueues(q)
             /\ Once(q) => Once(kept) /\ InQueues(kept) \intersect lost = {}
<1> DEFINE s == SubSeq(q[i], 1, n)
           t == SubSeq(q[i], n + 1, Len(q[i]))
<1>1. q[i] \in Seq(S) /\ s \in Seq(S)
  OBVIOUS
<1>2. ToSet(q[i]) = ToSet(s) \union ToSet(t)
      /\ (Uniq(q[i]) => Uniq(s) /\ ToSet(s) \intersect ToSet(t) \subseteq {EndOfEpoch})
  BY <1>1, SetCut
<1>3. /\ InQueues([q EXCEPT ![i] = s]) = Others(q, i) \union (ToSet(s) \ {EndOfEpoch})
      /\ Once(q) /\ Uniq(s) /\ Others(q, i) \intersect ToSet(s) = {} => Once([q EXCEPT ![i] = s])
  BY <1>1, QSwap
<1>5. /\ InQueues(q) = Others(q, i) \union (ToSet(q[i]) \ {EndOfEpoch})
      /\ Once(q) => Uniq(q[i]) /\ Others(q, i) \intersect ToSet(q[i]) = {}
  BY QSplit
<1>6. EndOfEpoch \notin Others(q, i)
  BY DEF Others
<1> HIDE DEF s, t
<1>4. /\ InQueues(q) \ ToSet(t) \subseteq InQueues([q EXCEPT ![i] = s])
      /\ InQueues([q EXCEPT ![i] = s]) \subseteq InQueues(q)
      /\ Once(q) => Once([q EXCEPT ![i] = s]) /\ InQueues([q EXCEPT ![i] = s]) \intersect ToSet(t) = {}
  BY ONLY <1>2, <1>3, <1>5, <1>6
<1> QED
  BY <1>4 DEF s, t

\* An empty queue is filled, with entries that are in no other queue.
LEMMA QFill ==
  ASSUME NEW I, NEW S, NEW q \in [I -> Seq(S)], NEW i \in I, q[i] = <<>>, NEW s \in Seq(S)
  PROVE  /\ InQueues([q EXCEPT ![i] = s]) = InQueues(q) \union (ToSet(s) \ {EndOfEpoch})
         /\ Once(q) /\ Uniq(s) /\ InQueues(q) \intersect ToSet(s) = {} => Once([q EXCEPT ![i] = s])
<1>1. /\ InQueues([q EXCEPT ![i] = s]) = Others(q, i) \union (ToSet(s) \ {EndOfEpoch})
      /\ Once(q) /\ Uniq(s) /\ Others(q, i) \intersect ToSet(s) = {} => Once([q EXCEPT ![i] = s])
  BY QSwap
<1>2. ToSet(q[i]) = {}
  BY DEF ToSet
<1>3. /\ InQueues(q) = Others(q, i) \union (ToSet(q[i]) \ {EndOfEpoch})
      /\ Once(q) => Uniq(q[i]) /\ Others(q, i) \intersect ToSet(q[i]) = {}
  BY QSplit
<1> QED
  BY ONLY <1>1, <1>2, <1>3

\* A queue is lost.
LEMMA QClear ==
  ASSUME NEW I, NEW S, NEW q \in [I -> Seq(S)], NEW i \in I
  PROVE  /\ InQueues([q EXCEPT ![i] = <<>>]) \subseteq InQueues(q)
         /\ Once(q) => Once([q EXCEPT ![i] = <<>>])
<1>1. <<>> \in Seq(S) /\ ToSet(<<>>) = {} /\ Uniq(<<>>)
  BY DEF ToSet, Uniq
<1>2. /\ InQueues([q EXCEPT ![i] = <<>>]) = Others(q, i) \union (ToSet(<<>>) \ {EndOfEpoch})
      /\ Once(q) /\ Uniq(<<>>) /\ Others(q, i) \intersect ToSet(<<>>) = {} => Once([q EXCEPT ![i] = <<>>])
  BY <1>1, QSwap
<1>3. /\ InQueues(q) = Others(q, i) \union (ToSet(q[i]) \ {EndOfEpoch})
      /\ Once(q) => Uniq(q[i]) /\ Others(q, i) \intersect ToSet(q[i]) = {}
  BY QSplit
<1> QED
  BY ONLY <1>1, <1>2, <1>3

\* A marker to every queue.
LEMMA QMark ==
  ASSUME NEW I, NEW S, EndOfEpoch \in S, NEW q \in [I -> Seq(S)]
  PROVE  /\ InQueues([i \in I |-> Append(q[i], EndOfEpoch)]) = InQueues(q)
         /\ Once(q) => Once([i \in I |-> Append(q[i], EndOfEpoch)])
<1> DEFINE r == [i \in I |-> Append(q[i], EndOfEpoch)]
<1>1. DOMAIN q = I /\ DOMAIN r = I /\ \A i \in I : q[i] \in Seq(S) /\ r[i] = Append(q[i], EndOfEpoch)
  OBVIOUS
<1> HIDE DEF r
<1>2. \A i \in I : ToSet(r[i]) = ToSet(q[i]) \union {EndOfEpoch} /\ (Uniq(q[i]) => Uniq(r[i]))
  <2> TAKE i \in I
  <2>1. q[i] \in Seq(S) /\ r[i] = Append(q[i], EndOfEpoch)
    BY <1>1
  <2> QED
    BY <2>1, SetAppend
<1>3. InQueues(r) = InQueues(q)
  BY <1>1, <1>2 DEF InQueues
<1>4. Once(q) => Once(r)
  <2> HAVE Once(q)
  <2>1. \A i \in I : Uniq(r[i])
    BY <1>1, <1>2 DEF Once, Uniq
  <2>2. \A i, j \in I : i # j => ToSet(r[i]) \intersect ToSet(r[j]) \subseteq {EndOfEpoch}
    BY <1>1, <1>2 DEF Once
  <2> QED
    BY <1>1, <2>1, <2>2 DEF Once, Uniq
<1> QED
  BY <1>3, <1>4 DEF r

LEMMA QNone ==
  ASSUME NEW I
  PROVE  InQueues([i \in I |-> <<>>]) = {} /\ Once([i \in I |-> <<>>])
BY DEF InQueues, Once, ToSet
-----------------------------------------------------------------------------
(* The way of a preprocess worker's items *)

Items == Chunks \union {EndOfEpoch}
Queued == Videos \union {EndOfEpoch}

\* The entries of a worker's queues carry on counting where the next stage is: cq is what the
\* shuffle thread has still to read, from epoch k on, pt what the worker has still to put, pq
\* what it has still to read, and qe the epoch the proto process is queueing.  The chunks and
\* markers in pt and the tail of cq are lost when the worker dies.
Behind(cq, pt, pq, k, qe, live) ==
  /\ Tagged(cq, k)
  /\ live => /\ Tagged(pt, EpochAfter(cq, k))
             /\ Tagged(pq, EpochAfter(pt, EpochAfter(cq, k)))
             /\ EpochAfter(pq, EpochAfter(pt, EpochAfter(cq, k))) = qe
  /\ ~live => /\ pt = <<>>
              /\ EpochAfter(cq, k) <= qe
              /\ \A v \in ToSet(pq) \ {EndOfEpoch} : v.epoch >= EpochAfter(cq, k)

LEMMA BRange ==
  ASSUME NEW cq \in Seq(Items), NEW pt \in Seq(Items), NEW pq \in Seq(Queued), NEW k \in Nat, NEW qe \in Nat,
         NEW live \in BOOLEAN, Behind(cq, pt, pq, k, qe, live)
  PROVE  /\ k <= EpochAfter(cq, k) /\ EpochAfter(cq, k) <= qe
         /\ EpochAfter(cq, k) \in Nat
         /\ \A x \in ToSet(cq) \union ToSet(pt) \union ToSet(pq) : x # EndOfEpoch => x.epoch >= k
         /\ \A x \in ToSet(pt) : x # EndOfEpoch => x.epoch <= qe
<1>0. Tagged(cq, k)
  BY DEF Behind
<1>1. /\ EpochAfter(cq, k) \in Nat /\ k <= EpochAfter(cq, k)
      /\ \A x \in ToSet(cq) \ {EndOfEpoch} : x.epoch \in Nat /\ k <= x.epoch /\ x.epoch <= EpochAfter(cq, k)
  BY <1>0, TagRange
<1> DEFINE s == EpochAfter(cq, k)
<1> HIDE DEF s
<1>2. CASE live
  <2>0. Tagged(pt, s) /\ s \in Nat
    BY <1>1, <1>2 DEF Behind, s
  <2>1. /\ EpochAfter(pt, s) \in Nat /\ s <= EpochAfter(pt, s)
        /\ \A x \in ToSet(pt) \ {EndOfEpoch} : x.epoch \in Nat /\ s <= x.epoch /\ x.epoch <= EpochAfter(pt, s)
    BY <2>0, TagRange
  <2> DEFINE m == EpochAfter(pt, s)
  <2> HIDE DEF m
  <2>2. Tagged(pq, m) /\ EpochAfter(pq, m) = qe /\ m \in Nat
    BY <1>2, <2>1 DEF Behind, s, m
  <2>3. /\ EpochAfter(pq, m) \in Nat /\ m <= EpochAfter(pq, m)
        /\ \A x \in ToSet(pq) \ {EndOfEpoch} : x.epoch \in Nat /\ m <= x.epoch /\ x.epoch <= EpochAfter(pq, m)
    BY <2>2, TagRange
  <2> QED
    BY <1>1, <2>1, <2>2, <2>3 DEF s, m
<1>3. CASE ~live
  <2>1. pt = <<>> /\ s <= qe /\ \A v \in ToSet(pq) \ {EndOfEpoch} : v.epoch >= s
    BY <1>3 DEF Behind, s
  <2>2. ToSet(pt) = {}
    BY <2>1 DEF ToSet
  <2>3. \A v \in ToSet(pq) \ {EndOfEpoch} : v.epoch \in Nat
    <3>1. ToSet(pq) \subseteq Queued
      BY DEF ToSet
    <3> QED
      BY <3>1 DEF Queued, Videos, Epochs
  <2> QED
    BY <1>1, <2>1, <2>2, <2>3 DEF s
<1> QED
  BY <1>2, <1>3

LEMMA BQueue ==
  ASSUME NEW cq \in Seq(Items), NEW pt \in Seq(Items), NEW pq \in Seq(Queued), NEW k \in Nat, NEW qe \in Nat,
         NEW live \in BOOLEAN, Behind(cq, pt, pq, k, qe, live), NEW x \in Queued, x # EndOfEpoch => x.epoch = qe
  PROVE  Behind(cq, pt, Append(pq, x), k, qe + (IF x = EndOfEpoch THEN 1 ELSE 0), live)
<1> DEFINE s == EpochAfter(cq, k)
           m == EpochAfter(pt, s)
<1>1. Tagged(cq, k) /\ s \in Nat /\ s <= qe
  BY BRange DEF Behind
<1>2. CASE live
  <2>1. Tagged(pt, s) /\ Tagged(pq, m) /\ EpochAfter(pq, m) = qe
    BY <1>2 DEF Behind
  <2>2. m \in Nat
    BY <1>1, <2>1, AfterMarks
  <2> HIDE DEF s, m
  <2>3. /\ Tagged(Append(pq, x), m)
        /\ EpochAfter(Append(pq, x), m) = EpochAfter(pq, m) + (IF x = EndOfEpoch THEN 1 ELSE 0)
    BY <2>1, <2>2, TagAppend
  <2> QED
    BY <1>1, <1>2, <2>1, <2>3 DEF Behind, s, m
<1>3. CASE ~live
  <2>1. pt = <<>> /\ \A v \in ToSet(pq) \ {EndOfEpoch} : v.epoch >= s
    BY <1>3 DEF Behind
  <2>2. ToSet(Append(pq, x)) = ToSet(pq) \union {x}
    BY SetAppend
  <2> HIDE DEF s
  <2>3. \A v \in ToSet(Append(pq, x)) \ {EndOfEpoch} : v.epoch >= s
    BY <1>1, <2>1, <2>2
  <2>4. s <= qe + (IF x = EndOfEpoch THEN 1 ELSE 0)
    BY <1>1
  <2> QED
    BY <1>1, <1>3, <2>1, <2>3, <2>4 DEF Behind, s
<1> QED
  BY <1>2, <1>3

\* The worker takes a marker, or a video that becomes chunks of its epoch.
LEMMA BGet ==
  ASSUME NEW cq \in Seq(Items), NEW pq \in Seq(Queued), pq # <<>>, NEW k \in Nat, NEW qe \in Nat,
         Behind(cq, <<>>, pq, k, qe, TRUE), NEW pt \in Seq(Items),
         \/ Head(pq) = EndOfEpoch /\ pt = <<EndOfEpoch>>
         \/ Head(pq) # EndOfEpoch /\ \A i \in 1 .. Len(pt) : pt[i] # EndOfEpoch /\ pt[i].epoch = Head(pq).epoch
  PROVE  Behind(cq, pt, Tail(pq), k, qe, TRUE)
<1> DEFINE s == EpochAfter(cq, k)
<1>1. Tagged(cq, k) /\ s \in Nat
  BY AfterMarks DEF Behind
<1>2. EpochAfter(<<>>, s) = s /\ Tagged(<<>>, s)
  BY <1>1, TagEmpty
<1>3. Tagged(pq, s) /\ EpochAfter(pq, s) = qe
  BY <1>2 DEF Behind
<1> HIDE DEF s
<1>4. /\ Head(pq) # EndOfEpoch =>
           Head(pq).epoch = s /\ Tagged(Tail(pq), s) /\ EpochAfter(Tail(pq), s) = EpochAfter(pq, s)
      /\ Head(pq) = EndOfEpoch =>
           Tagged(Tail(pq), s + 1) /\ EpochAfter(Tail(pq), s + 1) = EpochAfter(pq, s)
  BY <1>1, <1>3, TagTail
<1>5. CASE Head(pq) = EndOfEpoch
  <2>1. pt = Append(<<>>, EndOfEpoch) /\ <<>> \in Seq(Items) /\ EndOfEpoch \in Items
    BY <1>5 DEF Items
  <2>2. Tagged(Append(<<>>, EndOfEpoch), s)
        /\ EpochAfter(Append(<<>>, EndOfEpoch), s) = EpochAfter(<<>>, s) + (IF EndOfEpoch = EndOfEpoch THEN 1 ELSE 0)
    BY ONLY <1>1, <1>2, <2>1, TagAppend
  <2>3. Tagged(pt, s) /\ EpochAfter(pt, s) = s + 1
    BY <1>2, <2>1, <2>2
  <2> QED
    BY <1>1, <1>3, <1>4, <1>5, <2>3 DEF Behind, s
<1>6. CASE Head(pq) # EndOfEpoch
  <2>1. \A i \in 1 .. Len(pt) : pt[i] # EndOfEpoch /\ pt[i].epoch = s
    BY <1>4, <1>6
  <2>2. Tagged(pt, s) /\ EpochAfter(pt, s) = s
    BY <1>1, <2>1, TagPlain
  <2> QED
    BY <1>1, <1>3, <1>4, <1>6, <2>2 DEF Behind, s
<1> QED
  BY <1>5, <1>6

LEMMA BPut ==
  ASSUME NEW cq \in Seq(Items), NEW pt \in Seq(Items), pt # <<>>, NEW pq \in Seq(Queued), NEW k \in Nat,
         NEW qe \in Nat, Behind(cq, pt, pq, k, qe, TRUE)
  PROVE  Behind(Append(cq, Head(pt)), Tail(pt), pq, k, qe, TRUE)
<1> DEFINE s == EpochAfter(cq, k)
           h == Head(pt)
           c == Append(cq, h)
           b == IF h = EndOfEpoch THEN 1 ELSE 0
<1>1. Tagged(cq, k) /\ s \in Nat
  BY BRange DEF Behind
<1>2. Tagged(pt, s) /\ Tagged(pq, EpochAfter(pt, s)) /\ EpochAfter(pq, EpochAfter(pt, s)) = qe
  BY DEF Behind
<1>3. h \in Items
  BY HeadTailProperties
<1> HIDE DEF s, h
<1>4. /\ h # EndOfEpoch => h.epoch = s /\ Tagged(Tail(pt), s) /\ EpochAfter(Tail(pt), s) = EpochAfter(pt, s)
      /\ h = EndOfEpoch => Tagged(Tail(pt), s + 1) /\ EpochAfter(Tail(pt), s + 1) = EpochAfter(pt, s)
  BY <1>1, <1>2, TagTail DEF h
<1>5. Tagged(c, k) /\ EpochAfter(c, k) = s + b
  BY <1>1, <1>3, <1>4, TagAppend DEF s
<1>6. Tagged(Tail(pt), s + b) /\ EpochAfter(Tail(pt), s + b) = EpochAfter(pt, s)
  BY <1>1, <1>4
<1> HIDE DEF c, b
<1>7. Behind(c, Tail(pt), pq, k, qe, TRUE)
  BY <1>2, <1>5, <1>6 DEF Behind
<1> QED
  BY <1>7 DEF c, h

LEMMA BCrash ==
  ASSUME NEW cq \in Seq(Items), NEW pt \in Seq(Items), NEW pq \in Seq(Queued), NEW k \in Nat, NEW qe \in Nat,
         Behind(cq, pt, pq, k, qe, TRUE), NEW n \in 0 .. Len(cq)
  PROVE  Behind(SubSeq(cq, 1, n), <<>>, pq, k, qe, FALSE)
<1> DEFINE s == EpochAfter(cq, k)
           m == EpochAfter(pt, s)
           c == SubSeq(cq, 1, n)
<1>1. Tagged(cq, k) /\ s \in Nat /\ s <= qe
  BY BRange DEF Behind
<1>2. Tagged(pt, s) /\ Tagged(pq, m)
  BY DEF Behind
<1> HIDE DEF s
<1>3. m \in Nat /\ s <= m
  BY <1>1, <1>2, TagRange
<1> HIDE DEF m
<1>4. \A x \in ToSet(pq) \ {EndOfEpoch} : x.epoch \in Nat /\ m <= x.epoch
  BY <1>2, <1>3, TagRange
<1>5. Tagged(c, k) /\ EpochAfter(c, k) <= s
  BY <1>1, TagCut DEF s
<1>6. c \in Seq(Items)
  OBVIOUS
<1> HIDE DEF c
<1>7. EpochAfter(c, k) \in Nat
  BY <1>6, AfterMarks
<1>8. EpochAfter(c, k) <= qe /\ \A x \in ToSet(pq) \ {EndOfEpoch} : x.epoch >= EpochAfter(c, k)
  BY <1>1, <1>3, <1>4, <1>5, <1>7
<1>9. Behind(c, <<>>, pq, k, qe, FALSE)
  BY <1>5, <1>8 DEF Behind
<1> QED
  BY <1>9 DEF c

\* The shuffle thread reads an entry.
LEMMA BTake ==
  ASSUME NEW cq \in Seq(Items), cq # <<>>, NEW pt \in Seq(Items), NEW pq \in Seq(Queued), NEW k \in Nat,
         NEW qe \in Nat, NEW live \in BOOLEAN, Behind(cq, pt, pq, k, qe, live)
  PROVE  /\ Head(cq) # EndOfEpoch => Head(cq).epoch = k /\ Behind(Tail(cq), pt, pq, k, qe, live)
         /\ Head(cq) = EndOfEpoch => Behind(Tail(cq), pt, pq, k + 1, qe, live)
<1>1. Tagged(cq, k)
  BY DEF Behind
<1>2. /\ Head(cq) # EndOfEpoch =>
           Head(cq).epoch = k /\ Tagged(Tail(cq), k) /\ EpochAfter(Tail(cq), k) = EpochAfter(cq, k)
      /\ Head(cq) = EndOfEpoch =>
           Tagged(Tail(cq), k + 1) /\ EpochAfter(Tail(cq), k + 1) = EpochAfter(cq, k)
  BY <1>1, TagTail
<1> QED
  BY <1>2 DEF Behind
-----------------------------------------------------------------------------
(* The inductive invariant: epochs *)

\* Markers of w that the shuffle thread has read: those of the epochs that ended, and the
\* one that took w out of workers_still_running.
Passed(w) == shuffleEpoch + (IF w \in running THEN 0 ELSE 1)

WorkerBehind(w) == Behind(chunkQ[w], parts[w], protoQ[w], Passed(w), queueEpoch, w \in alive)

Epochal ==
  /\ todo # {} => queueEpoch < MaxEpochs
  /\ \A w \in Workers : WorkerBehind(w)
  /\ \A x \in ToSet(incoming) \union buffer : x.epoch = shuffleEpoch
  /\ finishing => running = {} /\ incoming = <<>>
  /\ \A d \in DatasetWorkers : Tagged(outQ[d], epoch[d]) /\ EpochAfter(outQ[d], epoch[d]) = shuffleEpoch

LEMMA Bounds ==
  /\ MaxEpochs \in Nat /\ BatchSize \in Nat \ {0} /\ NWorkers \in Nat \ {0} /\ 0 \in Workers
  /\ \A w \in Workers : (w + 1) % NWorkers \in Workers
<1>1. MaxEpochs \in Nat /\ BatchSize \in Nat \ {0} /\ NWorkers \in Nat \ {0} /\ 0 \in Workers
  BY PipelineAssumption DEF Workers
<1>2. ASSUME NEW w \in Workers PROVE (w + 1) % NWorkers \in Workers
  <2>1. w + 1 \in Nat
    BY <1>1 DEF Workers
  <2> QED
    BY <1>1, <2>1 DEF Workers
<1> QED
  BY <1>1, <1>2

LEMMA Known ==
  ASSUME TypeOK
  PROVE  /\ \A w \in Workers : /\ chunkQ[w] \in Seq(Items) /\ parts[w] \in Seq(Items) /\ protoQ[w] \in Seq(Queued)
                               /\ Passed(w) \in Nat
         /\ \A d \in DatasetWorkers : outQ[d] \in Seq(Items) /\ epoch[d] \in Nat
         /\ chunkQ \in [Workers -> Seq(Items)] /\ parts \in [Workers -> Seq(Items)]
         /\ protoQ \in [Workers -> Seq(Queued)] /\ outQ \in [DatasetWorkers -> Seq(Items)]
         /\ queueEpoch \in Nat /\ shuffleEpoch \in Nat /\ MaxEpochs \in Nat
         /\ 0 \in Workers /\ NWorkers \in Nat \ {0} /\ BatchSize \in Nat \ {0}
         /\ EndOfEpoch \in Items /\ EndOfEpoch \in Queued
         /\ EndOfEpoch \notin Chunks /\ EndOfEpoch \notin Videos
<1>1. /\ chunkQ \in [Workers -> Seq(Items)] /\ parts \in [Workers -> Seq(Items)]
      /\ protoQ \in [Workers -> Seq(Queued)] /\ outQ \in [DatasetWorkers -> Seq(Items)]
  BY DEF TypeOK, Items, Queued
<1>2. queueEpoch \in Nat /\ shuffleEpoch \in Nat /\ MaxEpochs \in Nat
  BY PipelineAssumption DEF TypeOK
<1>3. 0 \in Workers /\ NWorkers \in Nat \ {0} /\ BatchSize \in Nat \ {0}
  BY PipelineAssumption DEF Workers
<1>4. EndOfEpoch \in Items /\ EndOfEpoch \in Queued
  BY DEF Items, Queued
<1>5. EndOfEpoch \notin Chunks /\ EndOfEpoch \notin Videos
  BY PipelineAssumption
<1>6. \A d \in DatasetWorkers : epoch[d] \in Nat
  BY <1>2 DEF TypeOK
<1>7. \A w \in Workers : Passed(w) \in Nat
  BY <1>2 DEF Passed
<1> QED
  BY <1>1, <1>2, <1>3, <1>4, <1>5, <1>6, <1>7

\* The shuffle thread is never ahead of the proto process.
LEMMA PassedBound ==
  ASSUME TypeOK, Epochal, NEW w \in Workers
  PROVE  Passed(w) <= queueEpoch /\ queueEpoch <= MaxEpochs
<1> DEFINE live == w \in alive
<1>1. Behind(chunkQ[w], parts[w], protoQ[w], Passed(w), queueEpoch, live)
  BY DEF Epochal, WorkerBehind
<1>2. /\ chunkQ[w] \in Seq(Items) /\ parts[w] \in Seq(Items) /\ protoQ[w] \in Seq(Queued)
      /\ Passed(w) \in Nat /\ queueEpoch \in Nat
  BY Known
<1>5. live \in BOOLEAN
  OBVIOUS
<1> HIDE DEF live
<1> DEFINE s == EpochAfter(chunkQ[w], Passed(w))
<1>3. Passed(w) <= s /\ s <= queueEpoch /\ s \in Nat
  BY <1>1, <1>2, <1>5, BRange
<1>4. queueEpoch <= MaxEpochs /\ MaxEpochs \in Nat
  BY PipelineAssumption DEF TypeOK
<1> HIDE DEF s
<1> QED
  BY <1>2, <1>3, <1>4

LEMMA PartsType ==
  ASSUME NEW v \in Videos, NEW n \in 0 .. MaxChunks
  PROVE  Parts(v, n) \in Seq(Chunks) /\ Parts(v, n) \in Seq(Items) /\ Len(Parts(v, n)) = n
         /\ \A i \in 1 .. n : Parts(v, n)[i] = [epoch |-> v.epoch, proto |-> v.proto, part |-> i]
<1>0. n \in Nat /\ MaxChunks \in Nat /\ n <= MaxChunks
  BY PipelineAssumption
<1>1. \A i \in 1 .. n : [epoch |-> v.epoch, proto |-> v.proto, part |-> i] \in Chunks
  BY <1>0 DEF Videos, Chunks
<1>2. Parts(v, n) \in [1 .. n -> Chunks]
  BY <1>1 DEF Parts
<1>3. Parts(v, n) \in Seq(Chunks) /\ Len(Parts(v, n)) = n
  BY <1>0, <1>2, LenProperties, SeqDef
<1>4. Parts(v, n) \in Seq(Items)
  BY <1>3 DEF Items
<1> QED
  BY <1>3, <1>4 DEF Parts
-----------------------------------------------------------------------------
(* Types *)

LEMMA NextType ==
  ASSUME TypeOK, Epochal, Next
  PROVE  TypeOK'
<1> USE DEF protoVars, workerVars, shuffleVars, datasetVars
<1>1. ASSUME NEW p \in Protos, QueueProto(p) PROVE TypeOK'
  <2>1. queueEpoch \in Epochs
    BY <1>1, Bounds DEF QueueProto, Epochal, TypeOK, Epochs
  <2>2. [epoch |-> queueEpoch, proto |-> p] \in Videos \union {EndOfEpoch}
    BY <2>1 DEF Videos
  <2>3. protoQ[nextWorker] \in Seq(Videos \union {EndOfEpoch})
    BY DEF TypeOK
  <2>4. Append(protoQ[nextWorker], [epoch |-> queueEpoch, proto |-> p]) \in Seq(Videos \union {EndOfEpoch})
    BY <2>2, <2>3
  <2>5. protoQ' \in [Workers -> Seq(Videos \union {EndOfEpoch})]
    BY <1>1, <2>4 DEF QueueProto, TypeOK
  <2>6. nextWorker' \in Workers
    BY <1>1, Bounds DEF QueueProto, TypeOK
  <2> QED
    BY <1>1, <2>5, <2>6 DEF QueueProto, TypeOK
<1>2. CASE TryNextWorker
  <2>1. nextWorker' \in Workers
    BY <1>2, Bounds DEF TryNextWorker, TypeOK
  <2> QED
    BY <1>2, <2>1 DEF TryNextWorker, TypeOK
<1>3. CASE QueueEndOfEpoch
  <2>1. protoQ' \in [Workers -> Seq(Videos \union {EndOfEpoch})]
    BY <1>3 DEF QueueEndOfEpoch, TypeOK
  <2>2. queueEpoch' \in 0 .. MaxEpochs /\ todo' \in SUBSET Protos /\ nextWorker' \in Workers
    BY <1>3, Bounds DEF QueueEndOfEpoch, TypeOK
  <2> QED
    BY <1>3, <2>1, <2>2 DEF QueueEndOfEpoch, TypeOK
<1>4. ASSUME NEW w \in Workers, GetProto(w) PROVE TypeOK'
  <2>1. Head(protoQ[w]) \in Videos \union {EndOfEpoch} /\ Tail(protoQ[w]) \in Seq(Videos \union {EndOfEpoch})
    BY <1>4, HeadTailProperties DEF GetProto, TypeOK
  <2>2. protoQ' \in [Workers -> Seq(Videos \union {EndOfEpoch})]
    BY <1>4, <2>1 DEF GetProto, TypeOK
  <2>3. parts' \in [Workers -> Seq(Chunks \union {EndOfEpoch})]
    <3>1. CASE parts' = [parts EXCEPT ![w] = <<EndOfEpoch>>]
      BY <3>1 DEF TypeOK
    <3>2. ASSUME Head(protoQ[w]) # EndOfEpoch, NEW n \in 0 .. MaxChunks,
                 parts' = [parts EXCEPT ![w] = Parts(Head(protoQ[w]), n)]
          PROVE  parts' \in [Workers -> Seq(Chunks \union {EndOfEpoch})]
      <4>1. Head(protoQ[w]) \in Videos
        BY <2>1, <3>2
      <4>2. Parts(Head(protoQ[w]), n) \in Seq(Chunks \union {EndOfEpoch})
        BY <4>1, PartsType DEF Items
      <4> QED
        BY <3>2, <4>2 DEF TypeOK
    <3> QED
      BY <1>4, <3>1, <3>2 DEF GetProto
  <2> QED
    BY <1>4, <2>2, <2>3 DEF GetProto, TypeOK
<1>5. ASSUME NEW w \in Workers, PutPart(w) PROVE TypeOK'
  <2>1. Head(parts[w]) \in Chunks \union {EndOfEpoch} /\ Tail(parts[w]) \in Seq(Chunks \union {EndOfEpoch})
    BY <1>5, HeadTailProperties DEF PutPart, TypeOK
  <2>2. parts' \in [Workers -> Seq(Chunks \union {EndOfEpoch})]
    BY <1>5, <2>1 DEF PutPart, TypeOK
  <2>3. Append(chunkQ[w], Head(parts[w])) \in Seq(Chunks \union {EndOfEpoch})
    BY <2>1 DEF TypeOK
  <2>4. chunkQ' \in [Workers -> Seq(Chunks \union {EndOfEpoch})]
    BY <1>5, <2>3 DEF PutPart, TypeOK
  <2>5. produced' \in SUBSET Chunks
    BY <1>5, <2>1 DEF PutPart, TypeOK
  <2> QED
    BY <1>5, <2>2, <2>4, <2>5 DEF PutPart, TypeOK
<1>6. ASSUME NEW w \in Workers, CrashWorker(w) PROVE TypeOK'
  <2>1. parts' \in [Workers -> Seq(Chunks \union {EndOfEpoch})]
    <3>1. parts \in [Workers -> Seq(Chunks \union {EndOfEpoch})] /\ parts' = [parts EXCEPT ![w] = <<>>]
      BY <1>6 DEF CrashWorker, TypeOK
    <3> QED
      BY ONLY <3>1
  <2>2. chunkQ' \in [Workers -> Seq(Chunks \union {EndOfEpoch})] /\ produced' \in SUBSET Chunks
    <3>1. PICK n \in 0 .. Len(chunkQ[w]) :
                 /\ chunkQ' = [chunkQ EXCEPT ![w] = SubSeq(@, 1, n)]
                 /\ produced' = produced \ ToSet(SubSeq(chunkQ[w], n + 1, Len(chunkQ[w])))
      BY <1>6 DEF CrashWorker
    <3>2. SubSeq(chunkQ[w], 1, n) \in Seq(Chunks \union {EndOfEpoch})
      BY DEF TypeOK
    <3> QED
      BY <3>1, <3>2 DEF TypeOK
  <2> QED
    BY <1>6, <2>1, <2>2 DEF CrashWorker, TypeOK
<1>7. CASE PollNothing
  <2>1. scan' \in Workers
    BY <1>7, Bounds DEF PollNothing, ScanOn, TypeOK
  <2> QED
    BY <1>7, <2>1 DEF PollNothing, TypeOK
<1>8. ASSUME PollChunk PROVE TypeOK'
  <2>1. Head(chunkQ[scan]) \in Chunks /\ Tail(chunkQ[scan]) \in Seq(Chunks \union {EndOfEpoch})
    BY <1>8, HeadTailProperties DEF PollChunk, TypeOK
  <2>2. chunkQ' \in [Workers -> Seq(Chunks \union {EndOfEpoch})]
    BY <1>8, <2>1 DEF PollChunk, TypeOK
  <2>3. scan' \in Workers
    BY <1>8, Bounds DEF PollChunk, ScanOn, TypeOK
  <2>4. <<Head(chunkQ[scan])>> \in Seq(Chunks) /\ Len(<<Head(chunkQ[scan])>>) = 1
    BY <2>1
  <2>5. incoming' \in Seq(Chunks) /\ Len(incoming') <= 1 /\ buffer' \in SUBSET Chunks
    <3>1. CASE Cardinality(buffer) < config.bufferSize
      BY <1>8, <2>1, <3>1 DEF PollChunk, TypeOK
    <3>2. CASE ~(Cardinality(buffer) < config.bufferSize)
      <4>1. incoming' = <<Head(chunkQ[scan])>> /\ buffer' = buffer
        BY <1>8, <3>2 DEF PollChunk
      <4> QED
        BY <2>4, <4>1 DEF TypeOK
    <3> QED
      BY <3>1, <3>2
  <2> QED
    BY <1>8, <2>2, <2>3, <2>5 DEF PollChunk, TypeOK
<1>9. CASE PollMarker
  <2>1. Tail(chunkQ[scan]) \in Seq(Chunks \union {EndOfEpoch})
    BY <1>9, HeadTailProperties DEF PollMarker, TypeOK
  <2>2. chunkQ' \in [Workers -> Seq(Chunks \union {EndOfEpoch})]
    BY <1>9, <2>1 DEF PollMarker, TypeOK
  <2>3. scan' \in Workers
    BY <1>9, Bounds DEF PollMarker, ScanOn, TypeOK
  <2>4. running' \in SUBSET Workers /\ finishing' \in BOOLEAN
    BY <1>9 DEF PollMarker, TypeOK
  <2> QED
    BY <1>9, <2>2, <2>3, <2>4 DEF PollMarker, TypeOK
<1>10. ASSUME NEW x \in Chunks, Emit(x) PROVE outQ' \in [DatasetWorkers -> Seq(Chunks \union {EndOfEpoch})]
  <2>1. PICK d \in DatasetWorkers : outQ' = [outQ EXCEPT ![d] = Append(@, x)]
    BY <1>10 DEF Emit
  <2>2. Append(outQ[d], x) \in Seq(Chunks \union {EndOfEpoch})
    BY DEF TypeOK
  <2> QED
    BY <2>1, <2>2 DEF TypeOK
<1>11. CASE AddItem
  <2>1. Head(incoming) \in Chunks
    BY <1>11, HeadTailProperties DEF AddItem, TypeOK
  <2>2. outQ' \in [DatasetWorkers -> Seq(Chunks \union {EndOfEpoch})] /\ buffer' \in SUBSET Chunks
    BY <1>10, <1>11, <2>1 DEF AddItem, TypeOK
  <2>3. scan' \in Workers
    BY <1>11, Bounds DEF AddItem, ScanOn, TypeOK
  <2>4. incoming' \in Seq(Chunks) /\ Len(incoming') <= 1
    BY <1>11 DEF AddItem
  <2> QED
    BY <1>11, <2>2, <2>3, <2>4 DEF AddItem, TypeOK
<1>12. CASE DrainBuffer
  <2>1. outQ' \in [DatasetWorkers -> Seq(Chunks \union {EndOfEpoch})] /\ buffer' \in SUBSET Chunks
    BY <1>10, <1>12 DEF DrainBuffer, TypeOK
  <2> QED
    BY <1>12, <2>1 DEF DrainBuffer, TypeOK
<1>13. CASE FinishEpoch
  <2>1. outQ' \in [DatasetWorkers -> Seq(Chunks \union {EndOfEpoch})]
    BY <1>13 DEF FinishEpoch, TypeOK
  <2>2. 0 \in Workers /\ MaxEpochs \in Nat /\ shuffleEpoch \in Nat /\ queueEpoch \in Nat
    BY Known
  <2>3. Passed(0) = shuffleEpoch + 1
    BY <1>13 DEF FinishEpoch, Epochal, Passed
  <2>4. shuffleEpoch' \in 0 .. MaxEpochs
    <3>1. Passed(0) <= queueEpoch /\ queueEpoch <= MaxEpochs
      BY <2>2, PassedBound
    <3> QED
      BY <1>13, <2>2, <2>3, <3>1 DEF FinishEpoch
  <2> QED
    BY <1>13, <2>1, <2>2, <2>4 DEF FinishEpoch, TypeOK
<1>14. ASSUME NEW d \in DatasetWorkers, GetExample(d) PROVE TypeOK'
  <2>1. Head(outQ[d]) \in Chunks /\ Tail(outQ[d]) \in Seq(Chunks \union {EndOfEpoch})
    BY <1>14, HeadTailProperties DEF GetExample, TypeOK
  <2>2. outQ' \in [DatasetWorkers -> Seq(Chunks \union {EndOfEpoch})]
    BY <1>14, <2>1 DEF GetExample, TypeOK
  <2>3. examples' \in [DatasetWorkers -> 0 .. BatchSize]
    <3>1. /\ examples \in [DatasetWorkers -> 0 .. BatchSize] /\ BatchSize \in Nat
          /\ examples' = [examples EXCEPT ![d] = IF @ < BatchSize THEN @ + 1 ELSE @]
      BY <1>14, Bounds DEF GetExample, TypeOK
    <3> QED
      BY ONLY <3>1
  <2>4. delivered' \in SUBSET Chunks
    BY <1>14, <2>1 DEF GetExample, TypeOK
  <2> QED
    BY <1>14, <2>2, <2>3, <2>4 DEF GetExample, TypeOK
<1>15. ASSUME NEW d \in DatasetWorkers, GetMarker(d) PROVE TypeOK'
  <2>1. Tail(outQ[d]) \in Seq(Chunks \union {EndOfEpoch})
    BY <1>15, HeadTailProperties DEF GetMarker, TypeOK
  <2>2. outQ' \in [DatasetWorkers -> Seq(Chunks \union {EndOfEpoch})]
    BY <1>15, <2>1 DEF GetMarker, TypeOK
  <2>3. examples' \in [DatasetWorkers -> 0 .. BatchSize]
    BY <1>15, Bounds DEF GetMarker, TypeOK
  <2>4. iter' \in [DatasetWorkers -> {"iterating", "ended", "failed"}]
    BY <1>15 DEF GetMarker, TypeOK
  <2>5. epoch[d] + 1 \in 0 .. MaxEpochs
    <3>1. outQ[d] \in Seq(Items) /\ outQ[d] # <<>> /\ Head(outQ[d]) = EndOfEpoch /\ epoch[d] \in Nat
      BY <1>15, Known DEF GetMarker
    <3>2. Tagged(outQ[d], epoch[d]) /\ EpochAfter(outQ[d], epoch[d]) = shuffleEpoch
      BY DEF Epochal
    <3>3. Tail(outQ[d]) \in Seq(Items) /\ epoch[d] + 1 \in Nat
      BY <2>1, <3>1 DEF Items
    <3>4. Tagged(Tail(outQ[d]), epoch[d] + 1) /\ EpochAfter(Tail(outQ[d]), epoch[d] + 1) = shuffleEpoch
      BY <3>1, <3>2, TagTail
    <3>5. epoch[d] + 1 <= shuffleEpoch
      BY <3>3, <3>4, TagRange
    <3>6. shuffleEpoch \in 0 .. MaxEpochs /\ MaxEpochs \in Nat
      BY Known DEF TypeOK
    <3> QED
      BY <3>1, <3>5, <3>6
  <2>6. epoch' \in [DatasetWorkers -> 0 .. MaxEpochs]
    BY <1>15, <2>5 DEF GetMarker, TypeOK
  <2> QED
    BY <1>15, <2>2, <2>3, <2>4, <2>6 DEF GetMarker, TypeOK
<1>16. CASE NextIteration
  BY <1>16 DEF NextIteration, TypeOK
<1> QED
  BY <1>1, <1>2, <1>3, <1>4, <1>5, <1>6, <1>7, <1>8, <1>9, <1>11, <1>12, <1>13, <1>14, <1>15, <1>16
     DEF Next, ProtoProcess, Preprocess, ShuffleThread, DatasetWorker
-----------------------------------------------------------------------------
(* Epochs *)

LEMMA InitEpochal == Init => TypeOK /\ Epochal
<1> SUFFICES ASSUME Init PROVE TypeOK /\ Epochal
  OBVIOUS
<1>1. TypeOK
  <2>1. 0 \in Workers /\ MaxEpochs \in Nat /\ BatchSize \in Nat
    BY Bounds
  <2>2. /\ protoQ \in [Workers -> Seq(Videos \union {EndOfEpoch})]
        /\ parts \in [Workers -> Seq(Chunks \union {EndOfEpoch})]
        /\ chunkQ \in [Workers -> Seq(Chunks \union {EndOfEpoch})]
        /\ outQ \in [DatasetWorkers -> Seq(Chunks \union {EndOfEpoch})]
    BY DEF Init
  <2>3. incoming \in Seq(Chunks) /\ Len(incoming) <= 1
    BY DEF Init
  <2>4. todo \in SUBSET Protos /\ queueEpoch \in 0 .. MaxEpochs /\ shuffleEpoch \in 0 .. MaxEpochs
    BY <2>1 DEF Init
  <2>5. /\ epoch \in [DatasetWorkers -> 0 .. MaxEpochs] /\ examples \in [DatasetWorkers -> 0 .. BatchSize]
        /\ iter \in [DatasetWorkers -> {"iterating", "ended", "failed"}]
    BY <2>1 DEF Init
  <2> QED
    BY <2>1, <2>2, <2>3, <2>4, <2>5 DEF Init, TypeOK
<1>2. ASSUME NEW w \in Workers PROVE WorkerBehind(w)
  <2>1. Tagged(<<>>, 0) /\ EpochAfter(<<>>, 0) = 0
    BY TagEmpty
  <2>2. chunkQ[w] = <<>> /\ parts[w] = <<>> /\ protoQ[w] = <<>> /\ Passed(w) = 0 /\ queueEpoch = 0 /\ w \in alive
    BY DEF Init, Passed
  <2> QED
    BY <2>1, <2>2 DEF WorkerBehind, Behind
<1>3. ASSUME NEW d \in DatasetWorkers
      PROVE  Tagged(outQ[d], epoch[d]) /\ EpochAfter(outQ[d], epoch[d]) = shuffleEpoch
  BY TagEmpty DEF Init
<1>4. todo # {} => queueEpoch < MaxEpochs
  BY Bounds DEF Init
<1>5. \A x \in ToSet(incoming) \union buffer : x.epoch = shuffleEpoch
  BY DEF Init, ToSet
<1> QED
  BY <1>1, <1>2, <1>3, <1>4, <1>5 DEF Epochal, Init

LEMMA Becomes ==
  ASSUME NEW w \in Workers, NEW live \in BOOLEAN, live = (w \in alive'),
         Behind(chunkQ'[w], parts'[w], protoQ'[w], Passed(w)', queueEpoch', live)
  PROVE  WorkerBehind(w)'
BY DEF WorkerBehind

LEMMA Stays ==
  ASSUME NEW w \in Workers, WorkerBehind(w), chunkQ'[w] = chunkQ[w], parts'[w] = parts[w], protoQ'[w] = protoQ[w],
         Passed(w)' = Passed(w), queueEpoch' = queueEpoch, (w \in alive') <=> (w \in alive)
  PROVE  WorkerBehind(w)'
BY DEF WorkerBehind

LEMMA NextBehind ==
  ASSUME TypeOK, Epochal, Next, NEW w \in Workers
  PROVE  WorkerBehind(w)'
<1> USE DEF protoVars, workerVars, shuffleVars, datasetVars
<1> DEFINE live == w \in alive
<1>a. WorkerBehind(w) /\ Behind(chunkQ[w], parts[w], protoQ[w], Passed(w), queueEpoch, live)
  BY DEF Epochal, WorkerBehind
<1>b. chunkQ[w] \in Seq(Items) /\ parts[w] \in Seq(Items) /\ protoQ[w] \in Seq(Queued)
  BY Known
<1>c. Passed(w) \in Nat /\ queueEpoch \in Nat /\ live \in BOOLEAN
  BY Known
<1>d. EndOfEpoch \in Queued /\ EndOfEpoch \notin Videos /\ EndOfEpoch \notin Chunks
  BY Known
<1>e. (alive' = alive => live = (w \in alive')) /\ (live <=> w \in alive)
  OBVIOUS
<1>f. shuffleEpoch' = shuffleEpoch /\ running' = running => Passed(w)' = Passed(w)
  BY DEF Passed
<1>g. \A u \in Workers : protoQ[u] \in Seq(Queued) /\ parts[u] \in Seq(Items) /\ chunkQ[u] \in Seq(Items)
  BY Known
<1>h. /\ chunkQ \in [Workers -> Seq(Items)] /\ parts \in [Workers -> Seq(Items)]
      /\ protoQ \in [Workers -> Seq(Queued)]
  BY Known
<1> HIDE DEF live
<1>1. ASSUME NEW p \in Protos, QueueProto(p) PROVE WorkerBehind(w)'
  <2> DEFINE v == [epoch |-> queueEpoch, proto |-> p]
  <2>1. CASE w = nextWorker
    <3>1. v \in Queued /\ v.epoch = queueEpoch /\ v # EndOfEpoch
      <4>1. queueEpoch \in Epochs
        BY <1>1, Bounds DEF QueueProto, Epochal, TypeOK, Epochs
      <4> QED
        BY <1>d, <4>1 DEF Queued, Videos
    <3>2. protoQ'[w] = Append(protoQ[w], v)
      BY <1>1, <1>h, <2>1 DEF QueueProto
    <3> HIDE DEF v
    <3>3. Behind(chunkQ[w], parts[w], Append(protoQ[w], v), Passed(w), queueEpoch + 0, live)
      BY <1>a, <1>b, <1>c, <3>1, BQueue
    <3>4. /\ chunkQ' = chunkQ /\ parts' = parts /\ queueEpoch' = queueEpoch /\ alive' = alive
          /\ shuffleEpoch' = shuffleEpoch /\ running' = running /\ queueEpoch + 0 = queueEpoch
      BY <1>1, <1>c DEF QueueProto
    <3> QED
      BY <1>c, <1>e, <1>f, <3>2, <3>3, <3>4, Becomes
  <2>2. CASE w # nextWorker
    <3>1. /\ chunkQ' = chunkQ /\ parts' = parts /\ queueEpoch' = queueEpoch /\ alive' = alive
          /\ shuffleEpoch' = shuffleEpoch /\ running' = running /\ protoQ'[w] = protoQ[w]
      BY <1>1, <1>h, <2>2 DEF QueueProto
    <3> QED
      BY <1>a, <1>f, <3>1, Stays
  <2> QED
    BY <2>1, <2>2
<1>2. CASE TryNextWorker
  BY <1>2, <1>a, <1>f, Stays DEF TryNextWorker
<1>3. CASE QueueEndOfEpoch
  <2>1. Behind(chunkQ[w], parts[w], Append(protoQ[w], EndOfEpoch), Passed(w), queueEpoch + 1, live)
    <3>1. Behind(chunkQ[w], parts[w], Append(protoQ[w], EndOfEpoch), Passed(w),
                 queueEpoch + (IF EndOfEpoch = EndOfEpoch THEN 1 ELSE 0), live)
      BY <1>a, <1>b, <1>c, <1>d, BQueue
    <3> QED
      BY <3>1
  <2>2. /\ chunkQ' = chunkQ /\ parts' = parts /\ queueEpoch' = queueEpoch + 1 /\ alive' = alive
        /\ shuffleEpoch' = shuffleEpoch /\ running' = running /\ protoQ'[w] = Append(protoQ[w], EndOfEpoch)
    BY <1>3 DEF QueueEndOfEpoch
  <2> QED
    BY <1>c, <1>e, <1>f, <2>1, <2>2, Becomes
<1>4. ASSUME NEW u \in Workers, GetProto(u) PROVE WorkerBehind(w)'
  <2>0. /\ chunkQ' = chunkQ /\ queueEpoch' = queueEpoch /\ alive' = alive
        /\ shuffleEpoch' = shuffleEpoch /\ running' = running
    BY <1>4 DEF GetProto
  <2>1. CASE u = w
    <3>1. w \in alive /\ parts[w] = <<>> /\ protoQ[w] # <<>> /\ protoQ'[w] = Tail(protoQ[w])
      BY <1>4, <1>h, <2>1 DEF GetProto
    <3>2. /\ parts'[w] \in Seq(Items)
          /\ \/ Head(protoQ[w]) = EndOfEpoch /\ parts'[w] = <<EndOfEpoch>>
             \/ /\ Head(protoQ[w]) # EndOfEpoch
                /\ \A i \in 1 .. Len(parts'[w]) : parts'[w][i] # EndOfEpoch
                                                   /\ parts'[w][i].epoch = Head(protoQ[w]).epoch
      <4>1. CASE Head(protoQ[w]) = EndOfEpoch
        <5>1. parts'[w] = <<EndOfEpoch>>
          BY <1>4, <1>h, <2>1, <4>1 DEF GetProto
        <5> QED
          BY <4>1, <5>1 DEF Items
      <4>2. CASE Head(protoQ[w]) # EndOfEpoch
        <5>1. PICK n \in 0 .. MaxChunks : parts' = [parts EXCEPT ![w] = Parts(Head(protoQ[w]), n)]
          BY <1>4, <2>1, <4>2 DEF GetProto
        <5>2. parts'[w] = Parts(Head(protoQ[w]), n)
          BY <1>h, <5>1
        <5>3. Head(protoQ[w]) \in Videos
          BY <1>b, <3>1, <4>2, HeadTailProperties DEF Queued
        <5> DEFINE v == Head(protoQ[w])
                   r == Parts(v, n)
        <5> HIDE DEF v, r
        <5>4. /\ r \in Seq(Chunks) /\ r \in Seq(Items) /\ Len(r) = n
              /\ \A i \in 1 .. n : r[i] = [epoch |-> v.epoch, proto |-> v.proto, part |-> i]
          BY <5>3, PartsType DEF v, r
        <5>5. \A i \in 1 .. n : r[i].epoch = v.epoch
          BY <5>4
        <5>6. /\ parts'[w] \in Seq(Items) /\ parts'[w] \in Seq(Chunks) /\ Len(parts'[w]) = n
              /\ \A i \in 1 .. n : parts'[w][i].epoch = Head(protoQ[w]).epoch
          BY <5>2, <5>4, <5>5 DEF v, r
        <5>7. \A i \in 1 .. n : parts'[w][i] \in Chunks
          BY <5>6
        <5> QED
          BY <1>d, <4>2, <5>6, <5>7
      <4> QED
        BY <4>1, <4>2
    <3>3. Behind(chunkQ[w], <<>>, protoQ[w], Passed(w), queueEpoch, TRUE)
      BY <1>a, <1>e, <3>1
    <3> DEFINE pt == parts'[w]
    <3>4. /\ pt \in Seq(Items)
          /\ \/ Head(protoQ[w]) = EndOfEpoch /\ pt = <<EndOfEpoch>>
             \/ /\ Head(protoQ[w]) # EndOfEpoch
                /\ \A i \in 1 .. Len(pt) : pt[i] # EndOfEpoch /\ pt[i].epoch = Head(protoQ[w]).epoch
      BY <3>2
    <3> HIDE DEF pt
    <3>5. Behind(chunkQ[w], pt, Tail(protoQ[w]), Passed(w), queueEpoch, TRUE)
      BY <1>b, <1>c, <3>1, <3>3, <3>4, BGet
    <3>6. TRUE = (w \in alive')
      BY <2>0, <3>1
    <3>7. Behind(chunkQ'[w], parts'[w], protoQ'[w], Passed(w)', queueEpoch', TRUE)
      BY <1>f, <2>0, <3>1, <3>5 DEF pt
    <3> QED
      BY <3>6, <3>7, Becomes
  <2>2. CASE u # w
    <3>1. protoQ'[w] = protoQ[w] /\ parts'[w] = parts[w]
      BY <1>4, <1>h, <2>2 DEF GetProto
    <3> QED
      BY <1>a, <1>f, <2>0, <3>1, Stays
  <2> QED
    BY <2>1, <2>2
<1>5. ASSUME NEW u \in Workers, PutPart(u) PROVE WorkerBehind(w)'
  <2>0. /\ protoQ' = protoQ /\ queueEpoch' = queueEpoch /\ alive' = alive
        /\ shuffleEpoch' = shuffleEpoch /\ running' = running
    BY <1>5 DEF PutPart
  <2>1. CASE u = w
    <3>1. /\ w \in alive /\ parts[w] # <<>>
          /\ parts'[w] = Tail(parts[w]) /\ chunkQ'[w] = Append(chunkQ[w], Head(parts[w]))
      BY <1>5, <1>h, <2>1 DEF PutPart
    <3>2. Behind(chunkQ[w], parts[w], protoQ[w], Passed(w), queueEpoch, TRUE)
      BY <1>a, <1>e, <3>1
    <3>3. Behind(Append(chunkQ[w], Head(parts[w])), Tail(parts[w]), protoQ[w], Passed(w), queueEpoch, TRUE)
      BY <1>b, <1>c, <3>1, <3>2, BPut
    <3>4. TRUE = (w \in alive')
      BY <2>0, <3>1
    <3>5. Behind(chunkQ'[w], parts'[w], protoQ'[w], Passed(w)', queueEpoch', TRUE)
      BY <1>f, <2>0, <3>1, <3>3
    <3> QED
      BY <3>4, <3>5, Becomes
  <2>2. CASE u # w
    <3>1. chunkQ'[w] = chunkQ[w] /\ parts'[w] = parts[w]
      BY <1>5, <1>h, <2>2 DEF PutPart
    <3> QED
      BY <1>a, <1>f, <2>0, <3>1, Stays
  <2> QED
    BY <2>1, <2>2
<1>6. ASSUME NEW u \in Workers, CrashWorker(u) PROVE WorkerBehind(w)'
  <2>0. /\ protoQ' = protoQ /\ queueEpoch' = queueEpoch /\ shuffleEpoch' = shuffleEpoch /\ running' = running
    BY <1>6 DEF CrashWorker
  <2>1. CASE u = w
    <3>1. w \in alive /\ ~(w \in alive') /\ parts'[w] = <<>>
      BY <1>6, <1>h, <2>1 DEF CrashWorker
    <3>2. PICK n \in 0 .. Len(chunkQ[w]) : chunkQ'[w] = SubSeq(chunkQ[w], 1, n)
      BY <1>6, <1>h, <2>1 DEF CrashWorker
    <3>3. Behind(chunkQ[w], parts[w], protoQ[w], Passed(w), queueEpoch, TRUE)
      BY <1>a, <1>e, <3>1
    <3>4. Behind(SubSeq(chunkQ[w], 1, n), <<>>, protoQ[w], Passed(w), queueEpoch, FALSE)
      BY <1>b, <1>c, <3>3, BCrash
    <3>5. FALSE = (w \in alive')
      BY <3>1
    <3>6. Behind(chunkQ'[w], parts'[w], protoQ'[w], Passed(w)', queueEpoch', FALSE)
      BY <1>f, <2>0, <3>1, <3>2, <3>4
    <3> QED
      BY <3>5, <3>6, Becomes
  <2>2. CASE u # w
    <3>1. chunkQ'[w] = chunkQ[w] /\ parts'[w] = parts[w] /\ ((w \in alive') <=> (w \in alive))
      BY <1>6, <1>h, <2>2 DEF CrashWorker
    <3> QED
      BY <1>a, <1>f, <2>0, <3>1, Stays
  <2> QED
    BY <2>1, <2>2
<1>7. CASE PollNothing
  BY <1>7, <1>a, <1>f, Stays DEF PollNothing
<1>8. CASE PollChunk
  <2>0. /\ protoQ' = protoQ /\ parts' = parts /\ queueEpoch' = queueEpoch /\ alive' = alive
        /\ shuffleEpoch' = shuffleEpoch /\ running' = running
    BY <1>8 DEF PollChunk
  <2>1. CASE w = scan
    <3>1. chunkQ[w] # <<>> /\ Head(chunkQ[w]) # EndOfEpoch /\ chunkQ'[w] = Tail(chunkQ[w])
      BY <1>8, <1>h, <2>1 DEF PollChunk
    <3>2. Behind(Tail(chunkQ[w]), parts[w], protoQ[w], Passed(w), queueEpoch, live)
      BY <1>a, <1>b, <1>c, <3>1, BTake
    <3> QED
      BY <1>c, <1>e, <1>f, <2>0, <3>1, <3>2, Becomes
  <2>2. CASE w # scan
    <3>1. chunkQ'[w] = chunkQ[w]
      BY <1>8, <1>h, <2>2 DEF PollChunk
    <3> QED
      BY <1>a, <1>f, <2>0, <3>1, Stays
  <2> QED
    BY <2>1, <2>2
<1>9. CASE PollMarker
  <2>0. /\ protoQ' = protoQ /\ parts' = parts /\ queueEpoch' = queueEpoch /\ alive' = alive
        /\ shuffleEpoch' = shuffleEpoch /\ running' = running \ {scan} /\ shuffleEpoch \in Nat
    BY <1>9, Known DEF PollMarker
  <2>1. CASE w = scan
    <3>1. chunkQ[w] # <<>> /\ Head(chunkQ[w]) = EndOfEpoch /\ chunkQ'[w] = Tail(chunkQ[w]) /\ w \in running
      BY <1>9, <1>h, <2>1 DEF PollMarker
    <3>2. Behind(Tail(chunkQ[w]), parts[w], protoQ[w], Passed(w) + 1, queueEpoch, live)
      BY <1>a, <1>b, <1>c, <3>1, BTake
    <3>3. Passed(w)' = Passed(w) + 1
      BY <2>0, <2>1, <3>1 DEF Passed
    <3> QED
      BY <1>c, <1>e, <2>0, <3>1, <3>2, <3>3, Becomes
  <2>2. CASE w # scan
    <3>1. chunkQ'[w] = chunkQ[w]
      BY <1>9, <1>h, <2>2 DEF PollMarker
    <3>2. Passed(w)' = Passed(w)
      BY <2>0, <2>2 DEF Passed
    <3> QED
      BY <1>a, <2>0, <3>1, <3>2, Stays
  <2> QED
    BY <2>1, <2>2
<1>10. CASE AddItem
  BY <1>10, <1>a, <1>f, Stays DEF AddItem
<1>11. CASE DrainBuffer
  BY <1>11, <1>a, <1>f, Stays DEF DrainBuffer
<1>12. CASE FinishEpoch
  <2>1. running = {} /\ running' = Workers /\ shuffleEpoch' = shuffleEpoch + 1 /\ shuffleEpoch \in Nat
    BY <1>12, Known DEF FinishEpoch, Epochal
  <2>2. Passed(w)' = Passed(w)
    BY <2>1 DEF Passed
  <2> QED
    BY <1>12, <1>a, <2>2, Stays DEF FinishEpoch
<1>13. ASSUME NEW d \in DatasetWorkers, GetExample(d) \/ GetMarker(d) PROVE WorkerBehind(w)'
  BY <1>13, <1>a, <1>f, Stays DEF GetExample, GetMarker
<1>14. CASE NextIteration
  BY <1>14, <1>a, <1>f, Stays DEF NextIteration
<1> QED
  BY <1>1, <1>2, <1>3, <1>4, <1>5, <1>6, <1>7, <1>8, <1>9, <1>10, <1>11, <1>12, <1>13, <1>14
     DEF Next, ProtoProcess, Preprocess, ShuffleThread, DatasetWorker
\* The dataset workers and what the shuffle thread holds.
LEMMA NextHeld ==
  ASSUME TypeOK, Epochal, Next
  PROVE  /\ \A x \in ToSet(incoming') \union buffer' : x.epoch = shuffleEpoch'
         /\ finishing' => running' = {} /\ incoming' = <<>>
         /\ todo' # {} => queueEpoch' < MaxEpochs
<1> USE DEF protoVars, workerVars, shuffleVars, datasetVars
<1> DEFINE Held == \A x \in ToSet(incoming') \union buffer' : x.epoch = shuffleEpoch'
           Closing == finishing' => running' = {} /\ incoming' = <<>>
           Queueing == todo' # {} => queueEpoch' < MaxEpochs
<1>a. /\ \A x \in ToSet(incoming) \union buffer : x.epoch = shuffleEpoch
      /\ finishing => running = {} /\ incoming = <<>>
      /\ todo # {} => queueEpoch < MaxEpochs
  BY DEF Epochal
<1>b. ToSet(<<>>) = {}
  BY DEF ToSet
<1>1. CASE (\E p \in Protos : QueueProto(p)) \/ TryNextWorker
  <2>1. /\ todo' \subseteq todo /\ queueEpoch' = queueEpoch /\ incoming' = incoming /\ buffer' = buffer
        /\ shuffleEpoch' = shuffleEpoch /\ finishing' = finishing /\ running' = running
    BY <1>1 DEF QueueProto, TryNextWorker
  <2> QED
    BY ONLY <1>a, <2>1 DEF Held, Closing, Queueing
<1>2. CASE QueueEndOfEpoch
  BY <1>a, <1>2 DEF QueueEndOfEpoch
<1>3. ASSUME NEW w \in Workers, Preprocess(w) \/ CrashWorker(w) PROVE Held /\ Closing /\ Queueing
  BY <1>a, <1>3 DEF Preprocess, GetProto, PutPart, CrashWorker
<1>4. CASE PollNothing
  BY <1>a, <1>4 DEF PollNothing
<1>5. CASE PollChunk
  <2>1. /\ scan \in running /\ chunkQ[scan] # <<>> /\ Head(chunkQ[scan]) # EndOfEpoch /\ incoming = <<>> /\ ~finishing
        /\ running' = running /\ finishing' = finishing /\ todo' = todo /\ queueEpoch' = queueEpoch
        /\ shuffleEpoch' = shuffleEpoch
    BY <1>5 DEF PollChunk, Polling
  <2>2. scan \in Workers
    BY DEF TypeOK
  <2>3. Head(chunkQ[scan]).epoch = shuffleEpoch
    <3> DEFINE live == scan \in alive
    <3>1. /\ chunkQ[scan] \in Seq(Items) /\ parts[scan] \in Seq(Items) /\ protoQ[scan] \in Seq(Queued)
          /\ Passed(scan) \in Nat /\ queueEpoch \in Nat /\ live \in BOOLEAN
      BY <2>2, Known
    <3>2. Behind(chunkQ[scan], parts[scan], protoQ[scan], Passed(scan), queueEpoch, live)
      BY <2>2 DEF Epochal, WorkerBehind
    <3> HIDE DEF live
    <3>3. Head(chunkQ[scan]).epoch = Passed(scan)
      BY <2>1, <3>1, <3>2, BTake
    <3>4. Passed(scan) = shuffleEpoch
      <4>1. shuffleEpoch \in Nat
        BY Known
      <4> QED
        BY <2>1, <4>1 DEF Passed
    <3> QED
      BY <3>3, <3>4
  <2>4. ToSet(incoming') \union buffer' \subseteq buffer \union {Head(chunkQ[scan])}
    <3>1. CASE Cardinality(buffer) < config.bufferSize
      BY <1>5, <1>b, <2>1, <3>1 DEF PollChunk
    <3>2. CASE ~(Cardinality(buffer) < config.bufferSize)
      <4>1. incoming' = <<Head(chunkQ[scan])>> /\ buffer' = buffer
        BY <1>5, <3>2 DEF PollChunk
      <4>2. ToSet(<<Head(chunkQ[scan])>>) = {Head(chunkQ[scan])}
        BY DEF ToSet
      <4> QED
        BY <4>1, <4>2
    <3> QED
      BY <3>1, <3>2
  <2> QED
    BY <1>a, <2>1, <2>3, <2>4
<1>6. CASE PollMarker
  <2>1. running' = {} <=> finishing'
    BY <1>a, <1>6 DEF PollMarker, Polling
  <2> QED
    BY <1>a, <1>6, <2>1 DEF PollMarker, Polling
<1>7. CASE AddItem
  <2>1. Head(incoming) \in ToSet(incoming)
    <3>1. incoming \in Seq(Chunks) /\ incoming # <<>>
      BY <1>7 DEF AddItem, TypeOK
    <3> QED
      BY <3>1, SetTail
  <2>2. ToSet(incoming') = {}
    BY <1>7, <1>b DEF AddItem
  <2>3. buffer' \subseteq buffer \union ToSet(incoming)
    BY <1>7, <2>1 DEF AddItem
  <2> QED
    BY <1>a, <1>7, <2>2, <2>3 DEF AddItem
<1>8. CASE DrainBuffer
  BY <1>a, <1>8 DEF DrainBuffer
<1>9. CASE FinishEpoch
  BY <1>a, <1>b, <1>9 DEF FinishEpoch
<1>10. ASSUME NEW d \in DatasetWorkers, DatasetWorker(d) PROVE Held /\ Closing /\ Queueing
  BY <1>a, <1>10 DEF DatasetWorker, GetExample, GetMarker
<1>11. CASE NextIteration
  BY <1>a, <1>11 DEF NextIteration
<1> QED
  BY <1>1, <1>2, <1>3, <1>4, <1>5, <1>6, <1>7, <1>8, <1>9, <1>10, <1>11
     DEF Next, ProtoProcess, ShuffleThread

LEMMA NextOut ==
  ASSUME TypeOK, Epochal, Next, NEW d \in DatasetWorkers
  PROVE  Tagged(outQ'[d], epoch'[d]) /\ EpochAfter(outQ'[d], epoch'[d]) = shuffleEpoch'
<1> USE DEF protoVars, workerVars, shuffleVars, datasetVars
<1>a. Tagged(outQ[d], epoch[d]) /\ EpochAfter(outQ[d], epoch[d]) = shuffleEpoch
  BY DEF Epochal
<1>b. /\ outQ[d] \in Seq(Items) /\ epoch[d] \in Nat /\ shuffleEpoch \in Nat /\ EndOfEpoch \in Items
      /\ outQ \in [DatasetWorkers -> Seq(Items)] /\ EndOfEpoch \notin Chunks
  BY Known
<1>c. epoch \in [DatasetWorkers -> Nat]
  BY Known DEF TypeOK
<1>1. CASE outQ' = outQ /\ epoch' = epoch /\ shuffleEpoch' = shuffleEpoch
  BY <1>a, <1>1
<1>2. ASSUME NEW x \in Chunks, x.epoch = shuffleEpoch, Emit(x), epoch' = epoch, shuffleEpoch' = shuffleEpoch
      PROVE  Tagged(outQ'[d], epoch'[d]) /\ EpochAfter(outQ'[d], epoch'[d]) = shuffleEpoch'
  <2>1. x \in Items /\ x # EndOfEpoch
    BY <1>b DEF Items
  <2>2. /\ Tagged(Append(outQ[d], x), epoch[d])
        /\ EpochAfter(Append(outQ[d], x), epoch[d]) = EpochAfter(outQ[d], epoch[d]) + 0
    BY <1>2, <1>a, <1>b, <2>1, TagAppend
  <2>3. outQ'[d] = outQ[d] \/ outQ'[d] = Append(outQ[d], x)
    <3>1. PICK e \in DatasetWorkers : outQ' = [outQ EXCEPT ![e] = Append(@, x)]
      BY <1>2 DEF Emit
    <3> QED
      BY <1>b, <3>1
  <2>4. EpochAfter(outQ[d], epoch[d]) + 0 = shuffleEpoch
    BY <1>a, <1>b
  <2>5. epoch'[d] = epoch[d] /\ shuffleEpoch' = shuffleEpoch
    BY <1>2
  <2> QED
    BY ONLY <1>a, <2>2, <2>3, <2>4, <2>5
<1>3. CASE AddItem
  <2>1. incoming \in Seq(Chunks) /\ incoming # <<>>
    BY <1>3 DEF AddItem, TypeOK
  <2>2. Head(incoming) \in ToSet(incoming) /\ Head(incoming) \in Chunks
    BY <2>1, SetTail
  <2>3. Head(incoming).epoch = shuffleEpoch /\ \A s \in buffer : s.epoch = shuffleEpoch /\ s \in Chunks
    BY <2>2 DEF Epochal, TypeOK
  <2>4. epoch' = epoch /\ shuffleEpoch' = shuffleEpoch
    BY <1>3 DEF AddItem
  <2>5. Emit(Head(incoming)) \/ \E s \in buffer : Emit(s)
    BY <1>3 DEF AddItem
  <2> QED
    BY <1>2, <2>2, <2>3, <2>4, <2>5
<1>4. CASE DrainBuffer
  <2>1. \A s \in buffer : s.epoch = shuffleEpoch /\ s \in Chunks
    BY DEF Epochal, TypeOK
  <2>2. epoch' = epoch /\ shuffleEpoch' = shuffleEpoch /\ \E s \in buffer : Emit(s)
    BY <1>4 DEF DrainBuffer
  <2> QED
    BY <1>2, <2>1, <2>2
<1>5. CASE FinishEpoch
  <2>1. outQ'[d] = Append(outQ[d], EndOfEpoch) /\ epoch' = epoch /\ shuffleEpoch' = shuffleEpoch + 1
    BY <1>5 DEF FinishEpoch
  <2>2. /\ Tagged(Append(outQ[d], EndOfEpoch), epoch[d])
        /\ EpochAfter(Append(outQ[d], EndOfEpoch), epoch[d])
             = EpochAfter(outQ[d], epoch[d]) + (IF EndOfEpoch = EndOfEpoch THEN 1 ELSE 0)
    BY <1>a, <1>b, TagAppend
  <2> QED
    BY <1>a, <2>1, <2>2
<1>6. ASSUME NEW e \in DatasetWorkers, GetExample(e) \/ GetMarker(e)
      PROVE  Tagged(outQ'[d], epoch'[d]) /\ EpochAfter(outQ'[d], epoch'[d]) = shuffleEpoch'
  <2>0. shuffleEpoch' = shuffleEpoch
    BY <1>6 DEF GetExample, GetMarker
  <2>1. CASE e # d
    <3>1. outQ'[d] = outQ[d] /\ epoch'[d] = epoch[d]
      BY <1>6, <1>b, <1>c, <2>1 DEF GetExample, GetMarker
    <3> QED
      BY <1>a, <2>0, <3>1
  <2>2. CASE e = d
    <3>1. outQ[d] # <<>> /\ outQ'[d] = Tail(outQ[d])
      BY <1>6, <1>b, <2>2 DEF GetExample, GetMarker
    <3>2. epoch'[d] = epoch[d] + (IF Head(outQ[d]) = EndOfEpoch THEN 1 ELSE 0)
      BY <1>6, <1>c, <2>2 DEF GetExample, GetMarker
    <3>3. /\ Head(outQ[d]) # EndOfEpoch =>
               Tagged(Tail(outQ[d]), epoch[d]) /\ EpochAfter(Tail(outQ[d]), epoch[d]) = EpochAfter(outQ[d], epoch[d])
          /\ Head(outQ[d]) = EndOfEpoch =>
               Tagged(Tail(outQ[d]), epoch[d] + 1)
                 /\ EpochAfter(Tail(outQ[d]), epoch[d] + 1) = EpochAfter(outQ[d], epoch[d])
      BY <1>a, <1>b, <3>1, TagTail
    <3>4. CASE Head(outQ[d]) = EndOfEpoch
      BY <1>a, <2>0, <3>1, <3>2, <3>3, <3>4
    <3>5. CASE Head(outQ[d]) # EndOfEpoch
      <4>1. epoch'[d] = epoch[d]
        BY <1>b, <3>2, <3>5
      <4> QED
        BY <1>a, <2>0, <3>1, <3>3, <3>5, <4>1
    <3> QED
      BY <3>4, <3>5
  <2> QED
    BY <2>1, <2>2
<1>7. CASE \/ \E p \in Protos : QueueProto(p)
           \/ TryNextWorker \/ QueueEndOfEpoch
           \/ \E w \in Workers : Preprocess(w) \/ CrashWorker(w)
           \/ PollNothing \/ PollChunk \/ PollMarker \/ NextIteration
  <2>1. outQ' = outQ /\ epoch' = epoch /\ shuffleEpoch' = shuffleEpoch
    BY <1>7 DEF QueueProto, TryNextWorker, QueueEndOfEpoch, Preprocess, GetProto, PutPart, CrashWorker,
                PollNothing, PollChunk, PollMarker, NextIteration
  <2> QED
    BY <1>1, <2>1
<1> QED
  BY <1>3, <1>4, <1>5, <1>6, <1>7 DEF Next, ProtoProcess, ShuffleThread, DatasetWorker

LEMMA NextEpochal == TypeOK /\ Epochal /\ [Next]_vars => TypeOK' /\ Epochal'
<1> SUFFICES ASSUME TypeOK, Epochal, [Next]_vars PROVE TypeOK' /\ Epochal'
  OBVIOUS
<1>1. CASE Next
  BY <1>1, NextType, NextBehind, NextHeld, NextOut DEF Epochal
<1>2. CASE UNCHANGED vars
  BY <1>2 DEF vars, protoVars, workerVars, shuffleVars, datasetVars, TypeOK, Epochal, WorkerBehind, Passed, Emit
<1> QED
  BY <1>1, <1>2

LEMMA EpochalInductive == Spec => [](TypeOK /\ Epochal)
<1>1. TypeOK /\ Epochal /\ [Next]_vars => (TypeOK /\ Epochal)'
  BY NextEpochal
<1> QED
  BY <1>1, InitEpochal, PTL DEF Spec
\* The types hold in every reachable state, however long it runs.
THEOREM TypeCorrect == Spec => []TypeOK
BY EpochalInductive, PTL

\* Epochs do not mix in what a dataset worker reads (the workers_still_running barrier and
\* finish_epoch of shuffle_thread.rs, the FIFO per client of the queues): for any number of
\* workers and protos, any buffer, and whichever preprocess workers die.
LEMMA BarrierHolds == TypeOK /\ Epochal => EpochBarrier
BY DEF Epochal, EpochBarrier, Tagged

\* When the shuffle thread has sent the marker of an epoch nothing of it is left upstream.
LEMMA CompleteHolds == TypeOK /\ Epochal => EpochComplete
<1> SUFFICES ASSUME TypeOK, Epochal, NEW x \in Upstream PROVE x.epoch >= shuffleEpoch
  BY DEF EpochComplete
<1>1. shuffleEpoch \in Nat
  BY Known
<1>2. ASSUME NEW w \in Workers, x \in ToSet(chunkQ[w]) \union ToSet(parts[w]) \union ToSet(protoQ[w]),
             x # EndOfEpoch
      PROVE  x.epoch >= shuffleEpoch
  <2> DEFINE live == w \in alive
  <2>1. Behind(chunkQ[w], parts[w], protoQ[w], Passed(w), queueEpoch, live)
    BY DEF Epochal, WorkerBehind
  <2>2. /\ chunkQ[w] \in Seq(Items) /\ parts[w] \in Seq(Items) /\ protoQ[w] \in Seq(Queued)
        /\ Passed(w) \in Nat /\ queueEpoch \in Nat /\ live \in BOOLEAN
    BY Known
  <2> HIDE DEF live
  <2>3. x.epoch >= Passed(w)
    BY <1>2, <2>1, <2>2, BRange
  <2>4. x.epoch \in Nat
    <3>1. x \in Items \union Queued
      <4>1. ToSet(chunkQ[w]) \subseteq Items /\ ToSet(parts[w]) \subseteq Items /\ ToSet(protoQ[w]) \subseteq Queued
        BY <2>2 DEF ToSet
      <4> QED
        BY <1>2, <4>1
    <3> QED
      BY <1>2, <3>1 DEF Items, Queued, Chunks, Videos, Epochs
  <2>5. shuffleEpoch <= Passed(w)
    BY <1>1 DEF Passed
  <2> QED
    BY <1>1, <2>2, <2>3, <2>4, <2>5
<1>3. CASE x \in ToSet(incoming) \union buffer
  BY <1>1, <1>3 DEF Epochal
<1>4. CASE x \in InQueues(chunkQ) \union InQueues(parts) \union InQueues(protoQ)
  <2>1. DOMAIN chunkQ = Workers /\ DOMAIN parts = Workers /\ DOMAIN protoQ = Workers
    BY DEF TypeOK
  <2>2. x # EndOfEpoch /\ \E w \in Workers : x \in ToSet(chunkQ[w]) \union ToSet(parts[w]) \union ToSet(protoQ[w])
    BY <1>4, <2>1 DEF InQueues
  <2> QED
    BY <1>2, <2>2
<1> QED
  BY <1>3, <1>4 DEF Upstream

\* A marker separates its epoch from the next one on both sides of the shuffle thread, for
\* any number of workers and protos and any buffer, and whichever preprocess workers die.
THEOREM EpochsApartTheorem == Spec => []EpochsApart
<1>1. TypeOK /\ Epochal => EpochsApart
  BY BarrierHolds, CompleteHolds DEF EpochsApart
<1> QED
  BY <1>1, EpochalInductive, PTL

-----------------------------------------------------------------------------
(* The inductive invariant: chunks *)

Video(x) == [epoch |-> x.epoch, proto |-> x.proto]

\* The videos that the proto process still queues in this epoch.
Fresh == {[epoch |-> queueEpoch, proto |-> p] : p \in todo}

\* A video is queued once, and becomes chunks once.
MadeOnce ==
  /\ Once(protoQ) /\ Once(parts)
  /\ InQueues(parts) \intersect produced = {}
  /\ \A v \in InQueues(protoQ) : v.epoch <= queueEpoch /\ v \notin Fresh
  /\ \A x \in produced \union InQueues(parts) :
       x.epoch <= queueEpoch /\ Video(x) \notin InQueues(protoQ) \union Fresh

LEMMA Contents ==
  ASSUME TypeOK
  PROVE  /\ InQueues(protoQ) \subseteq Videos
         /\ InQueues(parts) \subseteq Chunks /\ InQueues(chunkQ) \subseteq Chunks /\ InQueues(outQ) \subseteq Chunks
         /\ produced \subseteq Chunks
         /\ EndOfEpoch \notin InQueues(protoQ) \union InQueues(parts) \union InQueues(chunkQ) \union InQueues(outQ)
<1>1. /\ \A w \in Workers : /\ ToSet(protoQ[w]) \subseteq Videos \union {EndOfEpoch}
                            /\ ToSet(parts[w]) \subseteq Chunks \union {EndOfEpoch}
                            /\ ToSet(chunkQ[w]) \subseteq Chunks \union {EndOfEpoch}
      /\ \A d \in DatasetWorkers : ToSet(outQ[d]) \subseteq Chunks \union {EndOfEpoch}
  <2>1. ASSUME NEW S, NEW q \in Seq(S) PROVE ToSet(q) \subseteq S
    BY ONLY DEF ToSet
  <2>2. \A w \in Workers : /\ protoQ[w] \in Seq(Videos \union {EndOfEpoch})
                           /\ parts[w] \in Seq(Chunks \union {EndOfEpoch})
                           /\ chunkQ[w] \in Seq(Chunks \union {EndOfEpoch})
    BY DEF TypeOK
  <2>3. \A d \in DatasetWorkers : outQ[d] \in Seq(Chunks \union {EndOfEpoch})
    BY DEF TypeOK
  <2> QED
    BY ONLY <2>1, <2>2, <2>3
<1>2. DOMAIN protoQ = Workers /\ DOMAIN parts = Workers /\ DOMAIN chunkQ = Workers /\ DOMAIN outQ = DatasetWorkers
  BY DEF TypeOK
<1> QED
  BY <1>1, <1>2 DEF InQueues, TypeOK

LEMMA InitMade == Init => MadeOnce
<1> SUFFICES ASSUME Init PROVE MadeOnce
  OBVIOUS
<1>1. /\ protoQ = [w \in Workers |-> <<>>] /\ parts = [w \in Workers |-> <<>>] /\ produced = {}
  BY DEF Init
<1>2. InQueues(protoQ) = {} /\ InQueues(parts) = {} /\ Once(protoQ) /\ Once(parts)
  BY <1>1, QNone
<1> QED
  BY <1>1, <1>2 DEF MadeOnce

LEMMA NextMade ==
  ASSUME TypeOK, Epochal, MadeOnce, Next
  PROVE  MadeOnce'
<1> USE DEF protoVars, workerVars, shuffleVars, datasetVars
<1>a. /\ parts \in [Workers -> Seq(Items)] /\ protoQ \in [Workers -> Seq(Queued)]
      /\ chunkQ \in [Workers -> Seq(Items)] /\ queueEpoch \in Nat
      /\ EndOfEpoch \notin Chunks /\ EndOfEpoch \notin Videos /\ EndOfEpoch \in Queued
  BY Known
<1>b. /\ Once(protoQ) /\ Once(parts)
      /\ InQueues(parts) \intersect produced = {}
      /\ \A v \in InQueues(protoQ) : v.epoch <= queueEpoch /\ v \notin Fresh
      /\ \A x \in produced \union InQueues(parts) :
           x.epoch <= queueEpoch /\ Video(x) \notin InQueues(protoQ) \union Fresh
  BY DEF MadeOnce
<1>c. /\ InQueues(protoQ) \subseteq Videos /\ InQueues(parts) \subseteq Chunks /\ produced \subseteq Chunks
      /\ EndOfEpoch \notin InQueues(protoQ) \union InQueues(parts)
  BY Contents
\* What a step may take away without harm.
<1>d. ASSUME Once(protoQ'), Once(parts'), InQueues(protoQ') \subseteq InQueues(protoQ),
             InQueues(parts') \subseteq InQueues(parts), produced' \subseteq produced, queueEpoch' = queueEpoch, todo' = todo
      PROVE  MadeOnce'
  <2>1. Fresh' = Fresh
    BY <1>d DEF Fresh
  <2>2. /\ InQueues(parts') \intersect produced' = {}
        /\ \A v \in InQueues(protoQ') : v.epoch <= queueEpoch' /\ v \notin Fresh'
        /\ \A x \in produced' \union InQueues(parts') :
             x.epoch <= queueEpoch' /\ Video(x) \notin InQueues(protoQ') \union Fresh'
    BY ONLY <1>b, <1>d, <2>1
  <2> QED
    BY <1>d, <2>2 DEF MadeOnce, Video
<1>1. ASSUME NEW p \in Protos, QueueProto(p) PROVE MadeOnce'
  <2> DEFINE v == [epoch |-> queueEpoch, proto |-> p]
  <2>1. v \in Queued /\ v.epoch = queueEpoch /\ v # EndOfEpoch
    <3>1. queueEpoch \in Epochs
      BY <1>1, Bounds DEF QueueProto, Epochal, TypeOK, Epochs
    <3> QED
      BY <1>a, <3>1 DEF Queued, Videos
  <2>2. /\ protoQ' = [protoQ EXCEPT ![nextWorker] = Append(@, v)] /\ nextWorker \in Workers
        /\ parts' = parts /\ produced' = produced /\ queueEpoch' = queueEpoch
    BY <1>1 DEF QueueProto, TypeOK
  <2>3. v \in Fresh /\ Fresh' = Fresh \ {v}
    BY <1>1 DEF QueueProto, Fresh
  <2> HIDE DEF v
  <2>4. v \notin InQueues(protoQ)
    BY <1>b, <2>3
  <2>5. InQueues(protoQ') = InQueues(protoQ) \union {v} /\ Once(protoQ')
    <3>1. /\ InQueues([protoQ EXCEPT ![nextWorker] = Append(@, v)]) = InQueues(protoQ) \union ({v} \ {EndOfEpoch})
          /\ Once(protoQ) /\ (v = EndOfEpoch \/ v \notin InQueues(protoQ))
               => Once([protoQ EXCEPT ![nextWorker] = Append(@, v)])
      BY <1>a, <2>1, <2>2, QAppend
    <3> QED
      BY <1>b, <2>1, <2>2, <2>4, <3>1
  <2>6. /\ \A u \in InQueues(protoQ') : u.epoch <= queueEpoch /\ u \notin Fresh'
        /\ \A x \in produced \union InQueues(parts) :
             x.epoch <= queueEpoch /\ Video(x) \notin InQueues(protoQ') \union Fresh'
    BY <1>a, <1>b, <2>1, <2>3, <2>5
  <2> QED
    BY <1>b, <2>2, <2>5, <2>6 DEF MadeOnce, Video
<1>2. CASE TryNextWorker
  BY <1>2, <1>b, <1>d DEF TryNextWorker
<1>3. CASE QueueEndOfEpoch
  <2>1. /\ protoQ' = [w \in Workers |-> Append(protoQ[w], EndOfEpoch)] /\ parts' = parts /\ produced' = produced
        /\ queueEpoch' = queueEpoch + 1
    BY <1>3 DEF QueueEndOfEpoch
  <2>2. InQueues(protoQ') = InQueues(protoQ) /\ Once(protoQ')
    BY <1>a, <1>b, <2>1, QMark
  <2>3. \A v \in Fresh' : v.epoch = queueEpoch + 1
    BY <2>1 DEF Fresh
  <2>4. \A v \in InQueues(protoQ) : v.epoch <= queueEpoch' /\ v \notin Fresh'
    <3> TAKE v \in InQueues(protoQ)
    <3>1. v.epoch \in Nat /\ v.epoch <= queueEpoch
      BY <1>b, <1>c DEF Videos, Epochs
    <3> QED
      BY <1>a, <2>1, <2>3, <3>1
  <2>5. \A x \in produced \union InQueues(parts) :
          x.epoch <= queueEpoch' /\ Video(x) \notin InQueues(protoQ) \union Fresh'
    <3> TAKE x \in produced \union InQueues(parts)
    <3>1. x.epoch \in Nat /\ x.epoch <= queueEpoch /\ Video(x) \notin InQueues(protoQ) /\ Video(x).epoch = x.epoch
      BY <1>b, <1>c DEF Chunks, Epochs, Video
    <3> QED
      BY <1>a, <2>1, <2>3, <3>1
  <2> QED
    BY <1>b, <2>1, <2>2, <2>4, <2>5 DEF MadeOnce, Video
<1>4. ASSUME NEW w \in Workers, GetProto(w) PROVE MadeOnce'
  <2>0. /\ parts[w] = <<>> /\ protoQ[w] # <<>> /\ protoQ' = [protoQ EXCEPT ![w] = Tail(@)]
        /\ produced' = produced /\ queueEpoch' = queueEpoch /\ todo' = todo
    BY <1>4 DEF GetProto
  <2>1. /\ InQueues(protoQ) = InQueues(protoQ') \union ({Head(protoQ[w])} \ {EndOfEpoch})
        /\ Once(protoQ') /\ (Head(protoQ[w]) # EndOfEpoch => Head(protoQ[w]) \notin InQueues(protoQ'))
    <3>1. /\ InQueues(protoQ) = InQueues([protoQ EXCEPT ![w] = Tail(@)]) \union ({Head(protoQ[w])} \ {EndOfEpoch})
          /\ Once(protoQ) => /\ Once([protoQ EXCEPT ![w] = Tail(@)])
                             /\ Head(protoQ[w]) # EndOfEpoch
                                  => Head(protoQ[w]) \notin InQueues([protoQ EXCEPT ![w] = Tail(@)])
      BY <1>a, <2>0, QTail
    <3> QED
      BY <1>b, <2>0, <3>1
  <2>2. CASE parts' = [parts EXCEPT ![w] = <<EndOfEpoch>>]
    <3>1. <<EndOfEpoch>> \in Seq(Items) /\ Uniq(<<EndOfEpoch>>) /\ ToSet(<<EndOfEpoch>>) = {EndOfEpoch}
      BY DEF Items, Uniq, ToSet
    <3>2. /\ InQueues([parts EXCEPT ![w] = <<EndOfEpoch>>]) = InQueues(parts) \union (ToSet(<<EndOfEpoch>>) \ {EndOfEpoch})
          /\ Once(parts) /\ Uniq(<<EndOfEpoch>>) /\ InQueues(parts) \intersect ToSet(<<EndOfEpoch>>) = {}
               => Once([parts EXCEPT ![w] = <<EndOfEpoch>>])
      BY <1>a, <2>0, <3>1, QFill
    <3>3. InQueues(parts') = InQueues(parts) /\ Once(parts')
      BY <1>b, <1>c, <2>2, <3>1, <3>2
    <3> QED
      BY <1>d, <2>0, <2>1, <3>3
  <2>3. ASSUME Head(protoQ[w]) # EndOfEpoch, NEW n \in 0 .. MaxChunks,
               parts' = [parts EXCEPT ![w] = Parts(Head(protoQ[w]), n)]
        PROVE  MadeOnce'
    <3> DEFINE v == Head(protoQ[w])
               r == Parts(v, n)
    <3>1. v \in InQueues(protoQ) /\ v \notin InQueues(protoQ') /\ v \in Videos /\ v \notin Fresh
      BY <1>b, <1>c, <2>1, <2>3
    <3>2. InQueues(protoQ') \subseteq InQueues(protoQ)
      BY <2>1
    <3> HIDE DEF v
    <3>3. /\ r \in Seq(Chunks) /\ r \in Seq(Items) /\ Len(r) = n
          /\ \A i \in 1 .. n : r[i] = [epoch |-> v.epoch, proto |-> v.proto, part |-> i]
      BY <3>1, PartsType
    <3> HIDE DEF r
    <3>4. \A i \in 1 .. n : r[i] \in Chunks /\ Video(r[i]) = v /\ r[i].epoch = v.epoch /\ r[i].part = i
      <4> TAKE i \in 1 .. n
      <4>1. r[i] \in Chunks
        BY <3>3
      <4>2. r[i].epoch = v.epoch /\ r[i].proto = v.proto /\ r[i].part = i
        BY <3>3
      <4>3. v = [epoch |-> v.epoch, proto |-> v.proto]
        BY <3>1 DEF Videos
      <4> QED
        BY <4>1, <4>2, <4>3 DEF Video
    <3>5. Uniq(r) /\ \A x \in ToSet(r) : x \in Chunks /\ Video(x) = v /\ x.epoch = v.epoch
      <4>1. DOMAIN r = 1 .. n
        BY <3>3
      <4>2. \A i, j \in 1 .. n : i # j => r[i] # r[j]
        BY <3>4
      <4> QED
        BY <3>3, <3>4, <4>1, <4>2 DEF Uniq, ToSet
    <3>6. ToSet(r) \intersect (produced \union InQueues(parts)) = {} /\ EndOfEpoch \notin ToSet(r)
      BY <1>a, <1>b, <3>1, <3>5
    <3>7. /\ InQueues([parts EXCEPT ![w] = r]) = InQueues(parts) \union (ToSet(r) \ {EndOfEpoch})
          /\ Once(parts) /\ Uniq(r) /\ InQueues(parts) \intersect ToSet(r) = {} => Once([parts EXCEPT ![w] = r])
      BY <1>a, <2>0, <3>3, QFill
    <3>8. parts' = [parts EXCEPT ![w] = r]
      BY <2>3 DEF r, v
    <3>9. InQueues(parts') = InQueues(parts) \union ToSet(r) /\ Once(parts')
      BY <1>b, <3>5, <3>6, <3>7, <3>8
    <3>10. Fresh' = Fresh
      BY <2>0 DEF Fresh
    <3>11. \A x \in produced \union InQueues(parts') :
             x.epoch <= queueEpoch /\ Video(x) \notin InQueues(protoQ') \union Fresh
      BY <1>b, <3>1, <3>2, <3>5, <3>9
    <3>12. InQueues(parts') \intersect produced = {} /\ \A u \in InQueues(protoQ') : u.epoch <= queueEpoch /\ u \notin Fresh
      BY <1>b, <3>2, <3>6, <3>9
    <3> QED
      BY <2>0, <2>1, <3>9, <3>10, <3>11, <3>12 DEF MadeOnce, Video
  <2> QED
    BY <1>4, <2>2, <2>3 DEF GetProto
<1>5. ASSUME NEW w \in Workers, PutPart(w) PROVE MadeOnce'
  <2>0. /\ parts[w] # <<>> /\ parts' = [parts EXCEPT ![w] = Tail(@)] /\ protoQ' = protoQ
        /\ produced' = produced \union ({Head(parts[w])} \ {EndOfEpoch}) /\ queueEpoch' = queueEpoch /\ todo' = todo
    BY <1>5 DEF PutPart
  <2>1. /\ InQueues([parts EXCEPT ![w] = Tail(@)]) \union ({Head(parts[w])} \ {EndOfEpoch}) = InQueues(parts)
        /\ Once(parts) => /\ Once([parts EXCEPT ![w] = Tail(@)])
                          /\ Head(parts[w]) # EndOfEpoch
                               => Head(parts[w]) \notin InQueues([parts EXCEPT ![w] = Tail(@)])
    <3>1. parts \in [Workers -> Seq(Items)] /\ w \in Workers /\ parts[w] # <<>>
      BY <1>a, <2>0
    <3> QED
      BY ONLY <3>1, QTail
  <2> DEFINE h == Head(parts[w])
             new == InQueues(parts')
  <2>2. /\ InQueues(parts) = new \union ({h} \ {EndOfEpoch}) /\ Once(parts')
        /\ h # EndOfEpoch => h \notin new
    BY <1>b, <2>0, <2>1
  <2> HIDE DEF h, new
  <2>3. produced' \union new = produced \union InQueues(parts) /\ new \intersect produced' = {}
    BY <1>b, <2>0, <2>2 DEF h
  <2>4. Fresh' = Fresh
    BY <2>0 DEF Fresh
  <2> QED
    BY <1>b, <2>0, <2>2, <2>3, <2>4 DEF MadeOnce, Video, new
<1>6. ASSUME NEW w \in Workers, CrashWorker(w) PROVE MadeOnce'
  <2>1. /\ parts' = [parts EXCEPT ![w] = <<>>] /\ protoQ' = protoQ /\ produced' \subseteq produced
        /\ queueEpoch' = queueEpoch /\ todo' = todo
    BY <1>6 DEF CrashWorker
  <2>2. InQueues(parts') \subseteq InQueues(parts) /\ Once(parts')
    BY <1>a, <1>b, <2>1, QClear
  <2> QED
    BY <1>b, <1>d, <2>1, <2>2
<1>7. CASE ShuffleThread \/ NextIteration \/ \E d \in DatasetWorkers : DatasetWorker(d)
  <2>1. parts' = parts /\ protoQ' = protoQ /\ produced' = produced /\ queueEpoch' = queueEpoch /\ todo' = todo
    BY <1>7 DEF ShuffleThread, PollNothing, PollChunk, PollMarker, AddItem, DrainBuffer, FinishEpoch,
                NextIteration, DatasetWorker, GetExample, GetMarker
  <2> QED
    BY <1>b, <1>d, <2>1
<1> QED
  BY <1>1, <1>2, <1>3, <1>4, <1>5, <1>6, <1>7 DEF Next, ProtoProcess, Preprocess
-----------------------------------------------------------------------------
(* Every chunk in one place *)

Divided(a, b, c, d, e, p) ==
  /\ a \union b \union c \union d \union e = p
  /\ a \intersect (b \union c \union d \union e) = {}
  /\ b \intersect (c \union d \union e) = {}
  /\ c \intersect (d \union e) = {}
  /\ d \intersect e = {}

LEMMA Divides ==
  ChunkConservation <=> /\ Divided(InQueues(chunkQ), ToSet(incoming), buffer, InQueues(outQ), delivered, produced)
                        /\ Once(chunkQ) /\ Once(outQ)
<1> DEFINE a == InQueues(chunkQ)
           b == ToSet(incoming)
           d == InQueues(outQ)
<1>1. Stages = <<a, b, buffer, d, delivered>>
  BY DEF Stages
<1> HIDE DEF a, b, d
<1>2. /\ Stages[1] = a /\ Stages[2] = b /\ Stages[3] = buffer /\ Stages[4] = d /\ Stages[5] = delivered
  BY <1>1
<1>3. \A s \in 1 .. 5 : s = 1 \/ s = 2 \/ s = 3 \/ s = 4 \/ s = 5
  OBVIOUS
<1>4. 1 \in 1 .. 5 /\ 2 \in 1 .. 5 /\ 3 \in 1 .. 5 /\ 4 \in 1 .. 5 /\ 5 \in 1 .. 5
  OBVIOUS
<1>5. UNION {Stages[s] : s \in 1 .. 5} = a \union b \union buffer \union d \union delivered
  <2>1. \A x : (\E s \in 1 .. 5 : x \in Stages[s]) <=> x \in a \union b \union buffer \union d \union delivered
    BY <1>2, <1>3, <1>4
  <2> QED
    BY <2>1
<1>6. (\A s, t \in 1 .. 5 : s # t => Stages[s] \intersect Stages[t] = {}) <=>
        /\ a \intersect (b \union buffer \union d \union delivered) = {}
        /\ b \intersect (buffer \union d \union delivered) = {}
        /\ buffer \intersect (d \union delivered) = {}
        /\ d \intersect delivered = {}
  <2>1. ASSUME \A s, t \in 1 .. 5 : s # t => Stages[s] \intersect Stages[t] = {}
        PROVE  /\ a \intersect (b \union buffer \union d \union delivered) = {}
               /\ b \intersect (buffer \union d \union delivered) = {}
               /\ buffer \intersect (d \union delivered) = {}
               /\ d \intersect delivered = {}
    <3>1. /\ Stages[1] \intersect Stages[2] = {} /\ Stages[1] \intersect Stages[3] = {}
          /\ Stages[1] \intersect Stages[4] = {} /\ Stages[1] \intersect Stages[5] = {}
      BY <1>4, <2>1
    <3>2. /\ Stages[2] \intersect Stages[3] = {} /\ Stages[2] \intersect Stages[4] = {}
          /\ Stages[2] \intersect Stages[5] = {}
      BY <1>4, <2>1
    <3>3. /\ Stages[3] \intersect Stages[4] = {} /\ Stages[3] \intersect Stages[5] = {}
          /\ Stages[4] \intersect Stages[5] = {}
      BY <1>4, <2>1
    <3> QED
      BY <1>2, <3>1, <3>2, <3>3
  <2>2. ASSUME a \intersect (b \union buffer \union d \union delivered) = {},
               b \intersect (buffer \union d \union delivered) = {},
               buffer \intersect (d \union delivered) = {},
               d \intersect delivered = {},
               NEW s \in 1 .. 5, NEW t \in 1 .. 5, s # t
        PROVE  Stages[s] \intersect Stages[t] = {}
    <3>1. CASE s = 1
      BY <1>2, <1>3, <2>2, <3>1
    <3>2. CASE s = 2
      BY <1>2, <1>3, <2>2, <3>2
    <3>3. CASE s = 3
      BY <1>2, <1>3, <2>2, <3>3
    <3>4. CASE s = 4
      BY <1>2, <1>3, <2>2, <3>4
    <3>5. CASE s = 5
      BY <1>2, <1>3, <2>2, <3>5
    <3> QED
      BY <1>3, <3>1, <3>2, <3>3, <3>4, <3>5
  <2> QED
    BY <2>1, <2>2
<1> QED
  BY <1>5, <1>6 DEF ChunkConservation, Divided, a, b, d

LEMMA InitDivided == Init => ChunkConservation
<1> SUFFICES ASSUME Init PROVE ChunkConservation
  OBVIOUS
<1>1. /\ chunkQ = [w \in Workers |-> <<>>] /\ outQ = [d \in DatasetWorkers |-> <<>>]
      /\ incoming = <<>> /\ buffer = {} /\ delivered = {} /\ produced = {}
  BY DEF Init
<1>2. InQueues(chunkQ) = {} /\ InQueues(outQ) = {} /\ Once(chunkQ) /\ Once(outQ)
  BY <1>1, QNone
<1>3. ToSet(incoming) = {}
  BY <1>1 DEF ToSet
<1> QED
  BY <1>1, <1>2, <1>3, Divides DEF Divided

LEMMA NextDivided ==
  ASSUME TypeOK, MadeOnce, ChunkConservation, Next
  PROVE  ChunkConservation'
<1> USE DEF protoVars, workerVars, shuffleVars, datasetVars
<1> DEFINE a == InQueues(chunkQ)
           b == ToSet(incoming)
           d == InQueues(outQ)
<1>a. /\ chunkQ \in [Workers -> Seq(Items)] /\ parts \in [Workers -> Seq(Items)]
      /\ outQ \in [DatasetWorkers -> Seq(Items)]
      /\ EndOfEpoch \in Items /\ EndOfEpoch \notin Chunks
  BY Known
<1>b. Divided(a, b, buffer, d, delivered, produced) /\ Once(chunkQ) /\ Once(outQ)
  BY Divides
<1>c. EndOfEpoch \notin a \union d \union buffer \union delivered \union produced \union b
  <2>1. produced \subseteq Chunks
    BY Contents
  <2> QED
    BY <1>a, <1>b, <2>1 DEF Divided
\* The invariant of the next state, from its parts.
<1>d. ASSUME Once(chunkQ'), Once(outQ'),
             Divided(InQueues(chunkQ'), ToSet(incoming'), buffer', InQueues(outQ'), delivered', produced')
      PROVE  ChunkConservation'
  <2>1. (ChunkConservation <=> /\ Divided(InQueues(chunkQ), ToSet(incoming), buffer, InQueues(outQ), delivered, produced)
                               /\ Once(chunkQ) /\ Once(outQ))'
    BY Divides, PTL
  <2> QED
    BY <1>d, <2>1
<1>e. ToSet(<<>>) = {} /\ \A x : ToSet(<<x>>) = {x}
  BY DEF ToSet
<1>f. incoming # <<>> => b = {Head(incoming)} /\ Head(incoming) \in Chunks
  <2> HAVE incoming # <<>>
  <2>1. incoming \in Seq(Chunks) /\ Len(incoming) <= 1
    BY DEF TypeOK
  <2>2. Tail(incoming) = <<>>
    BY <2>1
  <2>3. b = ToSet(Tail(incoming)) \union {Head(incoming)} /\ Head(incoming) \in Chunks
    BY <2>1, SetTail
  <2> QED
    BY <1>e, <2>2, <2>3
<1>g. buffer \subseteq Chunks
  BY DEF TypeOK
<1> HIDE DEF a, b, d
\* shuffle_queue.put of a chunk that is not in the queue.
<1>h. ASSUME NEW x \in Chunks, x \notin d, Emit(x)
      PROVE  InQueues(outQ') = d \union {x} /\ Once(outQ')
  <2>1. PICK e \in DatasetWorkers : outQ' = [outQ EXCEPT ![e] = Append(@, x)]
    BY <1>h DEF Emit
  <2>2. x \in Items /\ x # EndOfEpoch
    BY <1>a, <1>h DEF Items
  <2>3. /\ InQueues([outQ EXCEPT ![e] = Append(@, x)]) = InQueues(outQ) \union ({x} \ {EndOfEpoch})
        /\ Once(outQ) /\ (x = EndOfEpoch \/ x \notin InQueues(outQ)) => Once([outQ EXCEPT ![e] = Append(@, x)])
    BY <1>a, <2>2, QAppend
  <2> QED
    BY <1>b, <1>h, <2>1, <2>2, <2>3 DEF d
<1>1. ASSUME NEW w \in Workers, PutPart(w) PROVE ChunkConservation'
  <2> DEFINE h == Head(parts[w])
  <2>1. /\ chunkQ' = [chunkQ EXCEPT ![w] = Append(@, h)] /\ parts[w] # <<>>
        /\ produced' = produced \union ({h} \ {EndOfEpoch})
        /\ incoming' = incoming /\ buffer' = buffer /\ outQ' = outQ /\ delivered' = delivered
    BY <1>1 DEF PutPart
  <2>2. h \in Items
    BY <1>a, <2>1, HeadTailProperties
  <2>3. h # EndOfEpoch => h \in InQueues(parts)
    <3>1. parts \in [Workers -> Seq(Items)] /\ w \in Workers /\ parts[w] # <<>>
      BY <1>a, <2>1
    <3>2. InQueues(parts) = InQueues([parts EXCEPT ![w] = Tail(@)]) \union ({h} \ {EndOfEpoch})
      BY ONLY <3>1, QTail
    <3> QED
      BY <3>2
  <2> HIDE DEF h
  <2>4. h # EndOfEpoch => h \notin produced
    BY <2>3 DEF MadeOnce
  <2>5. h # EndOfEpoch => h \notin a
    BY <1>b, <2>4 DEF Divided
  <2>6. InQueues(chunkQ') = a \union ({h} \ {EndOfEpoch}) /\ Once(chunkQ')
    <3>1. /\ InQueues([chunkQ EXCEPT ![w] = Append(@, h)]) = InQueues(chunkQ) \union ({h} \ {EndOfEpoch})
          /\ Once(chunkQ) /\ (h = EndOfEpoch \/ h \notin InQueues(chunkQ)) => Once([chunkQ EXCEPT ![w] = Append(@, h)])
      BY <1>a, <2>2, QAppend
    <3> QED
      BY <1>b, <2>1, <2>5, <3>1 DEF a
  <2>7. Divided(a \union ({h} \ {EndOfEpoch}), b, buffer, d, delivered, produced')
    BY <1>b, <2>1, <2>4 DEF Divided
  <2> QED
    BY <1>b, <1>d, <2>1, <2>6, <2>7 DEF a, b, d
<1>2. ASSUME NEW w \in Workers, CrashWorker(w) PROVE ChunkConservation'
  <2>1. incoming' = incoming /\ buffer' = buffer /\ outQ' = outQ /\ delivered' = delivered
    BY <1>2 DEF CrashWorker
  <2>2. PICK n \in 0 .. Len(chunkQ[w]) :
               /\ chunkQ' = [chunkQ EXCEPT ![w] = SubSeq(@, 1, n)]
               /\ produced' = produced \ ToSet(SubSeq(chunkQ[w], n + 1, Len(chunkQ[w])))
    BY <1>2 DEF CrashWorker
  <2> DEFINE lost == ToSet(SubSeq(chunkQ[w], n + 1, Len(chunkQ[w])))
             kept == [chunkQ EXCEPT ![w] = SubSeq(@, 1, n)]
  <2>3. /\ InQueues(chunkQ) \ lost \subseteq InQueues(kept) /\ InQueues(kept) \subseteq InQueues(chunkQ)
        /\ Once(chunkQ) => Once(kept) /\ InQueues(kept) \intersect lost = {}
    BY <1>a, QCut
  <2>4. lost \ {EndOfEpoch} \subseteq a
    <3>1. ToSet(chunkQ[w]) = ToSet(SubSeq(chunkQ[w], 1, n)) \union lost
      BY <1>a, SetCut
    <3>2. ToSet(chunkQ[w]) \ {EndOfEpoch} \subseteq a
      BY <1>a DEF a, InQueues
    <3> QED
      BY <3>1, <3>2
  <2> HIDE DEF lost, kept
  <2>5. chunkQ' = kept /\ produced' = produced \ lost
    BY <2>2 DEF lost, kept
  <2>6. InQueues(kept) = a \ lost /\ Once(kept)
    BY <1>b, <2>3 DEF a
  <2>7. Divided(a \ lost, b, buffer, d, delivered, produced \ lost)
    BY <1>b, <1>c, <2>4 DEF Divided
  <2> QED
    BY <1>b, <1>d, <2>1, <2>5, <2>6, <2>7 DEF b, d
\* The shuffle thread reads an entry: what was in the queue is the entry and the rest.
<1>i. ASSUME chunkQ[scan] # <<>>, chunkQ' = [chunkQ EXCEPT ![scan] = Tail(@)]
      PROVE  /\ a = InQueues(chunkQ') \union ({Head(chunkQ[scan])} \ {EndOfEpoch}) /\ Once(chunkQ')
             /\ Head(chunkQ[scan]) # EndOfEpoch => Head(chunkQ[scan]) \notin InQueues(chunkQ')
  <2>0. scan \in Workers
    BY DEF TypeOK
  <2>1. /\ InQueues(chunkQ) = InQueues([chunkQ EXCEPT ![scan] = Tail(@)]) \union ({Head(chunkQ[scan])} \ {EndOfEpoch})
        /\ Once(chunkQ) => /\ Once([chunkQ EXCEPT ![scan] = Tail(@)])
                           /\ Head(chunkQ[scan]) # EndOfEpoch
                                => Head(chunkQ[scan]) \notin InQueues([chunkQ EXCEPT ![scan] = Tail(@)])
    BY <1>a, <1>i, <2>0, QTail
  <2> QED
    BY <1>b, <1>i, <2>1 DEF a
<1>3. CASE PollChunk
  <2> DEFINE h == Head(chunkQ[scan])
             new == InQueues(chunkQ')
  <2>1. /\ chunkQ[scan] # <<>> /\ h # EndOfEpoch /\ chunkQ' = [chunkQ EXCEPT ![scan] = Tail(@)] /\ incoming = <<>>
        /\ outQ' = outQ /\ delivered' = delivered /\ produced' = produced
    BY <1>3 DEF PollChunk, Polling
  <2>2. a = new \union {h} /\ Once(chunkQ') /\ h \notin new
    BY <1>i, <2>1
  <2>3. b = {}
    BY <1>e, <2>1 DEF b
  <2>4. \/ ToSet(incoming') = {} /\ buffer' = buffer \union {h}
        \/ ToSet(incoming') = {h} /\ buffer' = buffer
    <3>1. CASE Cardinality(buffer) < config.bufferSize
      BY <1>3, <1>e, <2>1, <3>1 DEF PollChunk
    <3>2. CASE ~(Cardinality(buffer) < config.bufferSize)
      BY <1>3, <1>e, <3>2 DEF PollChunk
    <3> QED
      BY <3>1, <3>2
  <2> HIDE DEF h, new
  <2>5. Divided(new, ToSet(incoming'), buffer', d, delivered, produced)
    BY <1>b, <2>2, <2>3, <2>4 DEF Divided
  <2> QED
    BY <1>b, <1>d, <2>1, <2>2, <2>5 DEF d, new
<1>4. CASE PollMarker
  <2>1. /\ chunkQ[scan] # <<>> /\ Head(chunkQ[scan]) = EndOfEpoch /\ chunkQ' = [chunkQ EXCEPT ![scan] = Tail(@)]
        /\ incoming' = incoming /\ buffer' = buffer /\ outQ' = outQ /\ delivered' = delivered /\ produced' = produced
    BY <1>4 DEF PollMarker
  <2>2. a = InQueues(chunkQ') /\ Once(chunkQ')
    BY <1>i, <2>1
  <2> QED
    BY <1>b, <1>d, <2>1, <2>2 DEF b, d
<1>5. CASE AddItem
  <2> DEFINE h == Head(incoming)
  <2>1. incoming # <<>> /\ incoming' = <<>> /\ chunkQ' = chunkQ /\ delivered' = delivered /\ produced' = produced
    BY <1>5 DEF AddItem
  <2>2. b = {h} /\ h \in Chunks
    BY <1>f, <2>1
  <2>3. ToSet(incoming') = {}
    BY <1>e, <2>1
  <2>4. CASE Emit(h) /\ buffer' = buffer
    <3>1. h \notin d
      BY <1>b, <2>2 DEF Divided
    <3>2. InQueues(outQ') = d \union {h} /\ Once(outQ')
      BY <1>h, <2>2, <2>4, <3>1
    <3> HIDE DEF h
    <3>3. Divided(a, {}, buffer, d \union {h}, delivered, produced)
      BY <1>b, <2>2 DEF Divided
    <3> QED
      BY <1>b, <1>d, <2>1, <2>3, <2>4, <3>2, <3>3 DEF a
  <2>5. ASSUME NEW s \in buffer, Emit(s), buffer' = (buffer \ {s}) \union {h} PROVE ChunkConservation'
    <3>1. s \notin d /\ s \in Chunks
      BY <1>b, <1>g DEF Divided
    <3>2. InQueues(outQ') = d \union {s} /\ Once(outQ')
      BY <1>h, <2>5, <3>1
    <3> HIDE DEF h
    <3>3. Divided(a, {}, (buffer \ {s}) \union {h}, d \union {s}, delivered, produced)
      BY <1>b, <2>2 DEF Divided
    <3> QED
      BY <1>b, <1>d, <2>1, <2>3, <2>5, <3>2, <3>3 DEF a
  <2> QED
    BY <1>5, <2>4, <2>5 DEF AddItem
<1>6. CASE DrainBuffer
  <2>1. chunkQ' = chunkQ /\ incoming' = incoming /\ delivered' = delivered /\ produced' = produced
    BY <1>6 DEF DrainBuffer
  <2>2. PICK s \in buffer : Emit(s) /\ buffer' = buffer \ {s}
    BY <1>6 DEF DrainBuffer
  <2>3. s \notin d /\ s \in Chunks
    BY <1>b, <1>g DEF Divided
  <2>4. InQueues(outQ') = d \union {s} /\ Once(outQ')
    BY <1>h, <2>2, <2>3
  <2>5. Divided(a, b, buffer \ {s}, d \union {s}, delivered, produced)
    BY <1>b DEF Divided
  <2> QED
    BY <1>b, <1>d, <2>1, <2>2, <2>4, <2>5 DEF a, b
<1>7. CASE FinishEpoch
  <2>1. /\ outQ' = [e \in DatasetWorkers |-> Append(outQ[e], EndOfEpoch)] /\ chunkQ' = chunkQ
        /\ incoming' = incoming /\ buffer' = buffer /\ delivered' = delivered /\ produced' = produced
    BY <1>7 DEF FinishEpoch
  <2>2. InQueues(outQ') = d /\ Once(outQ')
    BY <1>a, <1>b, <2>1, QMark DEF d
  <2> QED
    BY <1>b, <1>d, <2>1, <2>2 DEF a, b
<1>8. ASSUME NEW e \in DatasetWorkers, DatasetWorker(e) PROVE ChunkConservation'
  <2> DEFINE h == Head(outQ[e])
             new == InQueues(outQ')
  <2>1. /\ outQ[e] # <<>> /\ outQ' = [outQ EXCEPT ![e] = Tail(@)]
        /\ delivered' = delivered \union ({h} \ {EndOfEpoch})
        /\ chunkQ' = chunkQ /\ incoming' = incoming /\ buffer' = buffer /\ produced' = produced
    BY <1>8 DEF DatasetWorker, GetExample, GetMarker
  <2>2. d = new \union ({h} \ {EndOfEpoch}) /\ Once(outQ') /\ (h # EndOfEpoch => h \notin new)
    <3>1. /\ InQueues(outQ) = InQueues([outQ EXCEPT ![e] = Tail(@)]) \union ({h} \ {EndOfEpoch})
          /\ Once(outQ) => /\ Once([outQ EXCEPT ![e] = Tail(@)])
                           /\ h # EndOfEpoch => h \notin InQueues([outQ EXCEPT ![e] = Tail(@)])
      BY <1>a, <2>1, QTail
    <3> QED
      BY <1>b, <2>1, <3>1 DEF d
  <2> HIDE DEF h, new
  <2>3. Divided(a, b, buffer, new, delivered \union ({h} \ {EndOfEpoch}), produced)
    BY <1>b, <2>2 DEF Divided
  <2> QED
    BY <1>b, <1>d, <2>1, <2>2, <2>3 DEF a, b, new
<1>9. CASE ProtoProcess \/ PollNothing \/ NextIteration \/ \E w \in Workers : GetProto(w)
  <2>1. /\ chunkQ' = chunkQ /\ outQ' = outQ /\ incoming' = incoming /\ buffer' = buffer
        /\ delivered' = delivered /\ produced' = produced
    BY <1>9 DEF ProtoProcess, QueueProto, TryNextWorker, QueueEndOfEpoch, PollNothing, NextIteration, GetProto
  <2> QED
    BY <1>b, <1>d, <2>1 DEF a, b, d
<1> QED
  BY <1>1, <1>2, <1>3, <1>4, <1>5, <1>6, <1>7, <1>8, <1>9 DEF Next, Preprocess, ShuffleThread

LEMMA DividedInductive == Spec => [](TypeOK /\ Epochal /\ MadeOnce /\ ChunkConservation)
<1> DEFINE IInv == TypeOK /\ Epochal /\ MadeOnce /\ ChunkConservation
<1>1. Init => IInv
  BY InitEpochal, InitMade, InitDivided
<1>2. IInv /\ [Next]_vars => IInv'
  <2> SUFFICES ASSUME IInv, [Next]_vars PROVE IInv'
    OBVIOUS
  <2>1. TypeOK' /\ Epochal'
    BY NextEpochal
  <2>2. CASE Next
    BY <2>1, <2>2, NextMade, NextDivided
  <2>3. CASE UNCHANGED vars
    <3>1. /\ protoQ' = protoQ /\ parts' = parts /\ chunkQ' = chunkQ /\ outQ' = outQ /\ incoming' = incoming
          /\ buffer' = buffer /\ produced' = produced /\ delivered' = delivered
          /\ queueEpoch' = queueEpoch /\ todo' = todo
      BY <2>3 DEF vars, protoVars, workerVars, shuffleVars, datasetVars
    <3>2. MadeOnce'
      BY <3>1 DEF MadeOnce, Fresh, Video
    <3>3. ChunkConservation'
      BY <3>1 DEF ChunkConservation, Stages
    <3> QED
      BY <2>1, <3>2, <3>3
  <2> QED
    BY <2>2, <2>3
<1> QED
  BY <1>1, <1>2, PTL DEF Spec

\* Every chunk that a preprocess worker has put is in exactly one place, once, until one
\* dataset worker yields it: the queues, the buffer and the dataset workers neither lose nor
\* repeat one, whatever the order of their steps and whichever preprocess workers die.
THEOREM ConservationTheorem == Spec => []ChunkConservation
BY DividedInductive, PTL
-----------------------------------------------------------------------------
(* The inductive invariant: who waits for what *)

\* Epochs that d has begun.
Begun(d) == epoch[d] + (IF iter[d] = "iterating" THEN 1 ELSE 0)

\* add_item has a sample to give away for the example it holds, the shuffle thread waits for
\* some marker until it has the last, and the DataLoader keeps its workers in one epoch.
Waits ==
  /\ incoming # <<>> => config.bufferSize = 0 \/ buffer # {}
  /\ ~finishing => running # {}
  /\ config.ignoreReset => \A d \in DatasetWorkers : iter[d] = "iterating"
  /\ ~config.ignoreReset => \A d, e \in DatasetWorkers :
       iter[d] # "failed" /\ iter[e] # "failed" => Begun(d) = Begun(e)

LEMMA InitWaits == Init => Waits
<1> SUFFICES ASSUME Init PROVE Waits
  OBVIOUS
<1>1. running # {} /\ incoming = <<>>
  BY Bounds DEF Init
<1>2. \A d \in DatasetWorkers : iter[d] = "iterating" /\ Begun(d) = 1
  BY DEF Init, Begun
<1> QED
  BY <1>1, <1>2 DEF Waits

LEMMA NextWaits ==
  ASSUME TypeOK, Epochal, Waits, Next
  PROVE  Waits'
<1> USE DEF protoVars, workerVars, shuffleVars, datasetVars
<1>a. config' = config
  BY DEF Next, ProtoProcess, QueueProto, TryNextWorker, QueueEndOfEpoch, Preprocess, GetProto, PutPart,
         CrashWorker, ShuffleThread, PollNothing, PollChunk, PollMarker, AddItem, DrainBuffer, FinishEpoch,
         DatasetWorker, GetExample, GetMarker, NextIteration
\* The shuffle thread leaves the dataset workers' state alone, the others its own.
<1>b. ASSUME iter' = iter, epoch' = epoch,
             incoming' # <<>> => config'.bufferSize = 0 \/ buffer' # {}, ~finishing' => running' # {}
      PROVE  Waits'
  BY <1>a, <1>b DEF Waits, Begun
<1>c. ASSUME incoming' = incoming, buffer' = buffer, finishing' = finishing, running' = running,
             config.ignoreReset => \A d \in DatasetWorkers : iter'[d] = "iterating",
             ~config.ignoreReset => \A d, e \in DatasetWorkers :
               iter'[d] # "failed" /\ iter'[e] # "failed" => Begun(d)' = Begun(e)'
      PROVE  Waits'
  BY <1>a, <1>c DEF Waits
<1>1. CASE \/ ProtoProcess \/ PollNothing
           \/ \E w \in Workers : Preprocess(w) \/ CrashWorker(w)
           \/ \E d \in DatasetWorkers : GetExample(d)
  <2>1. /\ incoming' = incoming /\ buffer' = buffer /\ finishing' = finishing /\ running' = running
        /\ iter' = iter /\ epoch' = epoch
    BY <1>1 DEF ProtoProcess, QueueProto, TryNextWorker, QueueEndOfEpoch, Preprocess, GetProto, PutPart,
                CrashWorker, PollNothing, GetExample
  <2> QED
    BY <2>1, <1>a, <1>b DEF Waits
<1>2. CASE PollChunk
  <2>1. iter' = iter /\ epoch' = epoch /\ finishing' = finishing /\ running' = running /\ ~finishing /\ incoming = <<>>
    BY <1>2 DEF PollChunk, Polling
  <2>2. CASE Cardinality(buffer) < config.bufferSize
    BY <1>2, <1>b, <2>1, <2>2 DEF PollChunk, Waits
  <2>3. CASE ~(Cardinality(buffer) < config.bufferSize)
    <3>1. buffer' = buffer
      BY <1>2, <2>3 DEF PollChunk
    <3>2. config.bufferSize \in Nat
      BY PipelineAssumption DEF TypeOK
    <3>3. buffer = {} => config.bufferSize = 0
      BY <2>3, <3>2, FS_EmptySet
    <3> QED
      BY <1>a, <1>b, <2>1, <3>1, <3>3 DEF Waits
  <2> QED
    BY <2>2, <2>3
<1>3. CASE PollMarker
  <2>1. /\ iter' = iter /\ epoch' = epoch /\ incoming' = incoming /\ incoming = <<>>
        /\ ~finishing' => running' # {}
    BY <1>3 DEF PollMarker, Polling
  <2> QED
    BY <1>b, <2>1
<1>4. CASE AddItem
  <2>1. incoming' = <<>> /\ finishing' = finishing /\ running' = running /\ iter' = iter /\ epoch' = epoch
    BY <1>4 DEF AddItem
  <2> QED
    BY <1>b, <2>1 DEF Waits
<1>5. CASE DrainBuffer
  <2>1. /\ incoming' = incoming /\ finishing' = finishing /\ finishing
        /\ iter' = iter /\ epoch' = epoch
    BY <1>5 DEF DrainBuffer
  <2>2. incoming = <<>>
    BY <2>1 DEF Epochal
  <2> QED
    BY <1>b, <2>1, <2>2
<1>6. CASE FinishEpoch
  <2>1. /\ incoming' = incoming /\ finishing /\ running' = Workers
        /\ iter' = iter /\ epoch' = epoch
    BY <1>6 DEF FinishEpoch
  <2>2. incoming = <<>> /\ Workers # {}
    BY <2>1, Bounds DEF Epochal
  <2> QED
    BY <1>b, <2>1, <2>2
<1>7. ASSUME NEW d \in DatasetWorkers, GetMarker(d) PROVE Waits'
  <2>1. incoming' = incoming /\ buffer' = buffer /\ finishing' = finishing /\ running' = running
    BY <1>7 DEF GetMarker
  <2>2. epoch \in [DatasetWorkers -> Nat] /\ epoch' = [epoch EXCEPT ![d] = @ + 1] /\ iter[d] = "iterating"
    BY <1>7, Known DEF GetMarker, TypeOK
  <2>3. CASE config.ignoreReset
    BY <1>7, <1>c, <2>1, <2>3 DEF GetMarker, Waits
  <2>4. CASE ~config.ignoreReset
    <3>1. /\ iter'[d] # "iterating"
          /\ \A e \in DatasetWorkers : e # d => iter'[e] = iter[e] /\ epoch'[e] = epoch[e]
      BY <1>7, <2>2, <2>4 DEF GetMarker, TypeOK
    <3>2. Begun(d) = epoch[d] + 1 /\ Begun(d)' = epoch[d] + 1
      BY <2>2, <3>1 DEF Begun
    <3>3. \A e \in DatasetWorkers : Begun(e)' = Begun(e) /\ (iter'[e] # "failed" => iter[e] # "failed")
      BY <2>2, <3>1, <3>2 DEF Begun
    <3> QED
      BY <1>c, <2>1, <2>4, <3>3 DEF Waits
  <2> QED
    BY <2>3, <2>4
<1>8. CASE NextIteration
  <2>1. /\ incoming' = incoming /\ buffer' = buffer /\ finishing' = finishing /\ running' = running
        /\ epoch' = epoch /\ \A d \in DatasetWorkers : iter[d] = "ended" /\ iter'[d] = "iterating"
    BY <1>8 DEF NextIteration
  <2>2. \A d \in DatasetWorkers : Begun(d) = epoch[d] + 0 /\ Begun(d)' = epoch[d] + 1
    BY <2>1 DEF Begun
  <2>3. \A d \in DatasetWorkers : epoch[d] \in Nat
    BY Known
  <2>4. ~config.ignoreReset => \A d, e \in DatasetWorkers : Begun(d)' = Begun(e)'
    BY <2>1, <2>2, <2>3 DEF Waits
  <2> QED
    BY <1>c, <2>1, <2>4
<1> QED
  BY <1>1, <1>2, <1>3, <1>4, <1>5, <1>6, <1>7, <1>8 DEF Next, ShuffleThread, DatasetWorker

LEMMA WaitsInductive == Spec => [](TypeOK /\ Epochal /\ Waits)
<1>1. TypeOK /\ Epochal /\ Waits /\ [Next]_vars => (TypeOK /\ Epochal /\ Waits)'
  <2> SUFFICES ASSUME TypeOK, Epochal, Waits, [Next]_vars PROVE TypeOK' /\ Epochal' /\ Waits'
    OBVIOUS
  <2>1. TypeOK' /\ Epochal'
    BY NextEpochal
  <2>2. CASE UNCHANGED vars
    <3>1. /\ config' = config /\ incoming' = incoming /\ buffer' = buffer /\ finishing' = finishing
          /\ running' = running /\ iter' = iter /\ epoch' = epoch
      BY <2>2 DEF vars, shuffleVars, datasetVars
    <3>2. \A d \in DatasetWorkers : Begun(d)' = Begun(d)
      BY <3>1 DEF Begun
    <3>3. Waits'
      BY ONLY Waits, <3>1, <3>2 DEF Waits
    <3> QED
      BY <2>1, <3>3
  <2> QED
    BY <2>1, <2>2, NextWaits
<1> QED
  BY <1>1, InitEpochal, InitWaits, PTL DEF Spec

-----------------------------------------------------------------------------
(* No cycle of waits *)

\* A worker of the current epoch that nobody can help on has nothing, so the proto process
\* has queued every epoch and the shuffle thread has finished it.
LEMMA NothingOnTheWay ==
  ASSUME TypeOK, Epochal, ~SomeoneCanMove, NEW w \in running \intersect alive, Polling
  PROVE  shuffleEpoch = MaxEpochs
<1>1. w \in Workers /\ ProtoQueueSize \in Nat \ {0} /\ ChunkQueueSize \in Nat \ {0}
  BY PipelineAssumption DEF TypeOK
<1>2. chunkQ[w] = <<>> /\ Len(chunkQ[w]) = 0
  BY DEF SomeoneCanMove
<1>3. parts[w] = <<>> /\ protoQ[w] = <<>>
  BY <1>1, <1>2 DEF SomeoneCanMove
<1>4. Len(protoQ[w]) < ProtoQueueSize
  BY <1>1, <1>3
<1>5. todo = {}
  BY <1>1, <1>4 DEF SomeoneCanMove
<1>6. queueEpoch = MaxEpochs
  BY <1>5, Bounds DEF SomeoneCanMove, TypeOK
<1>7. Behind(<<>>, <<>>, <<>>, Passed(w), queueEpoch, w \in alive) /\ w \in alive
  BY <1>1, <1>2, <1>3 DEF Epochal, WorkerBehind
<1>8. Passed(w) \in Nat /\ Passed(w) = shuffleEpoch
  <2>1. shuffleEpoch \in Nat
    BY Known
  <2> QED
    BY <2>1 DEF Passed
<1>9. EpochAfter(<<>>, EpochAfter(<<>>, EpochAfter(<<>>, Passed(w)))) = queueEpoch
  BY <1>7 DEF Behind
<1> QED
  BY <1>6, <1>8, <1>9, TagEmpty

\* Nothing is upstream of the shuffle thread once it has finished the last epoch.
LEMMA NothingUpstream ==
  ASSUME TypeOK, EpochComplete, shuffleEpoch = MaxEpochs
  PROVE  InQueues(chunkQ) = {} /\ buffer = {} /\ ToSet(incoming) = {}
<1>1. InQueues(chunkQ) \subseteq Chunks /\ ToSet(incoming) \subseteq Chunks /\ buffer \subseteq Chunks
  <2>1. incoming \in Seq(Chunks) /\ buffer \subseteq Chunks
    BY DEF TypeOK
  <2>2. ToSet(incoming) \subseteq Chunks
    BY ONLY <2>1 DEF ToSet
  <2> QED
    BY <2>1, <2>2, Contents
<1>2. \A x \in Chunks : ~(x.epoch >= MaxEpochs)
  BY Bounds DEF Chunks, Epochs
<1>3. \A x \in InQueues(chunkQ) \union ToSet(incoming) \union buffer : x.epoch >= MaxEpochs
  BY DEF EpochComplete, Upstream
<1> QED
  BY <1>1, <1>2, <1>3

LEMMA NobodyWaitsForEver ==
  ASSUME TypeOK, Epochal, Waits, ChunkConservation, alive = Workers,
         \A d \in DatasetWorkers : iter[d] # "failed", ~SomeoneCanMove
  PROVE  AllDelivered
<1>1. PICK d0 \in DatasetWorkers : iter[d0] = "iterating"
  BY DEF SomeoneCanMove, TypeOK
<1>2. \A d \in DatasetWorkers : iter[d] = "iterating" => outQ[d] = <<>>
  BY DEF SomeoneCanMove
<1>3. Len(outQ[d0]) < OutQueueSize
  BY <1>1, <1>2, PipelineAssumption
\* The shuffle thread is not waiting for room.
<1>4. ~(buffer # {} /\ ~Polling) /\ ~(config.bufferSize = 0 /\ incoming # <<>>) /\ ~(finishing /\ buffer = {})
  BY <1>3 DEF SomeoneCanMove
<1>5. Polling /\ running # {}
  BY <1>4 DEF Waits, Polling
<1>6. shuffleEpoch = MaxEpochs
  <2>1. PICK w \in running \intersect alive : TRUE
    BY <1>5 DEF TypeOK
  <2> QED
    BY <1>5, <2>1, NothingOnTheWay
\* So every dataset worker has had all the markers ...
<1>7. \A d \in DatasetWorkers : iter[d] = "iterating" => epoch[d] = MaxEpochs
  <2>1. \A d \in DatasetWorkers : EpochAfter(outQ[d], epoch[d]) = MaxEpochs /\ epoch[d] \in Nat
    BY <1>6, Known DEF Epochal
  <2> QED
    BY <1>2, <2>1, TagEmpty
<1>8. \A d \in DatasetWorkers : iter[d] = "iterating"
  <2> SUFFICES ASSUME NEW d \in DatasetWorkers, iter[d] # "iterating" PROVE FALSE
    OBVIOUS
  <2>1. Begun(d) = Begun(d0)
    BY DEF Waits
  <2>2. Begun(d0) = MaxEpochs + 1 /\ Begun(d) = epoch[d] + 0
    BY <1>1, <1>7 DEF Begun
  <2>3. epoch[d] \in 0 .. MaxEpochs /\ MaxEpochs \in Nat
    BY Bounds DEF TypeOK
  <2> QED
    BY <2>1, <2>2, <2>3
\* ... and nothing is left on the way to them.
<1>9. outQ = [d \in DatasetWorkers |-> <<>>]
  BY <1>2, <1>8 DEF TypeOK
<1>10. InQueues(outQ) = {}
  BY <1>9, QNone
<1>11. InQueues(chunkQ) = {} /\ buffer = {} /\ ToSet(incoming) = {}
  BY <1>6, CompleteHolds, NothingUpstream
<1>12. delivered = produced
  BY <1>10, <1>11, Divides DEF Divided
<1> QED
  BY <1>7, <1>8, <1>12 DEF AllDelivered

\* Four stages of bounded queues with two barriers (video_proto_dataset.py and
\* shuffle_thread.rs) never wait for each other in a cycle: while no preprocess worker has
\* died and no dataset worker has raised, some process can go on until everything that was
\* made has been delivered, however many workers there are and however small the queues.
THEOREM NoCycleTheorem == Spec => []NoCycleOfWaits
<1>1. TypeOK /\ Epochal /\ Waits /\ ChunkConservation => NoCycleOfWaits
  BY NobodyWaitsForEver DEF NoCycleOfWaits
<1> QED
  BY <1>1, WaitsInductive, DividedInductive, PTL
=============================================================================
