------------------------ MODULE InferenceServerProofs ------------------------
(***************************************************************************)
(* Machine-checked proofs about InferenceServer, for any number of         *)
(* connections, frames, threads and rows of the window: the types, the     *)
(* order of frames and answers, the removal of connections, and the rows   *)
(* of the shared window.                                                   *)
(***************************************************************************)
EXTENDS InferenceServer, SequenceTheorems, FiniteSetTheorems, TLAPS

Before(A, B) == \A a \in A, b \in B : a < b

\* The frames of F in q come in the order they were sent, each once.
Increasing(F, q) == \A i, j \in DOMAIN q : i < j /\ q[i] \in F /\ q[j] \in F => q[i] < q[j]

\* The way of a connection whose client has sent n frames: socket s, in_queue q, the frame h
\* the thread works on, out_queue o, and the frames p it has answered.  AnswersInOrder alone
\* says nothing of frames still to be sent, nor of an answer that has left out_queue.
WayOK(F, n, s, q, h, o, p) ==
  /\ n \in Nat /\ s \in Seq(F \cup {Bad}) /\ q \in Seq(F \cup {Stop}) /\ o \in Seq(F \cup {Stop})
  /\ h \in F \cup {Stop} /\ p \subseteq F
  /\ Increasing(F, s) /\ Increasing(F, q) /\ Increasing(F, o)
  /\ ToSet(o) \cap F \subseteq p
  /\ Before(p \ ToSet(o), ToSet(o) \cap F)
  /\ Before(p, {h} \cap F) /\ Before(p, ToSet(q) \cap F) /\ Before(p, ToSet(s) \cap F)
  /\ Before({h} \cap F, ToSet(q) \cap F) /\ Before({h} \cap F, ToSet(s) \cap F)
  /\ Before(ToSet(q) \cap F, ToSet(s) \cap F)
  /\ \A f \in p \cup ({h} \cap F) \cup (ToSet(q) \cap F) \cup (ToSet(s) \cap F) : f <= n

-----------------------------------------------------------------------------
(* Sequences *)

LEMMA AppendSet ==
  ASSUME NEW S, NEW q \in Seq(S), NEW x \in S
  PROVE  ToSet(Append(q, x)) = ToSet(q) \cup {x}
<1> DEFINE t == Append(q, x)
<1>1. /\ Len(q) \in Nat /\ DOMAIN q = 1 .. Len(q) /\ DOMAIN t = 1 .. Len(q) + 1
      /\ \A i \in 1 .. Len(q) : t[i] = q[i]
      /\ t[Len(q) + 1] = x
  OBVIOUS
<1> HIDE DEF t
<1>2. ToSet(t) = ToSet(q) \cup {x}
  BY <1>1 DEF ToSet
<1> QED
  BY <1>2 DEF t

LEMMA AppendIn ==
  ASSUME NEW S, NEW q \in Seq(S), NEW x \in S, NEW F
  PROVE  /\ Append(q, x) \in Seq(S)
         /\ ToSet(Append(q, x)) = ToSet(q) \cup {x}
         /\ Increasing(F, q) /\ Before(ToSet(q) \cap F, {x} \cap F) => Increasing(F, Append(q, x))
<1> DEFINE t == Append(q, x)
<1>1. /\ t \in Seq(S) /\ Len(q) \in Nat /\ Len(t) = Len(q) + 1
      /\ DOMAIN q = 1 .. Len(q) /\ DOMAIN t = 1 .. Len(q) + 1
      /\ \A i \in 1 .. Len(q) : t[i] = q[i]
      /\ t[Len(q) + 1] = x
  OBVIOUS
<1> HIDE DEF t
<1>2. ToSet(t) = ToSet(q) \cup {x}
  BY AppendSet DEF t
<1>3. ASSUME Increasing(F, q), Before(ToSet(q) \cap F, {x} \cap F),
             NEW i \in DOMAIN t, NEW j \in DOMAIN t, i < j, t[i] \in F, t[j] \in F
      PROVE  t[i] < t[j]
  <2>1. i \in 1 .. Len(q) /\ t[i] = q[i]
    BY <1>1, <1>3
  <2>2. CASE j = Len(q) + 1
    <3>1. q[i] \in ToSet(q)
      BY <1>1, <2>1 DEF ToSet
    <3> QED
      BY <1>1, <1>3, <2>1, <2>2, <3>1 DEF Before
  <2>3. CASE j # Len(q) + 1
    <3>1. j \in 1 .. Len(q) /\ t[j] = q[j]
      BY <1>1, <2>3
    <3> QED
      BY <1>1, <1>3, <2>1, <3>1 DEF Increasing
  <2> QED
    BY <2>2, <2>3
<1> QED
  BY <1>1, <1>2, <1>3 DEF Increasing, t

LEMMA TailIn ==
  ASSUME NEW S, NEW q \in Seq(S), q # <<>>, NEW F
  PROVE  /\ Tail(q) \in Seq(S) /\ Head(q) \in S /\ Head(q) \in ToSet(q)
         /\ ToSet(q) = ToSet(Tail(q)) \cup {Head(q)}
         /\ Increasing(F, q) => Increasing(F, Tail(q)) /\ Before({Head(q)} \cap F, ToSet(Tail(q)) \cap F)
<1> DEFINE t == Tail(q)
<1>1. /\ t \in Seq(S) /\ Len(q) \in Nat /\ Len(q) > 0 /\ Len(t) = Len(q) - 1
      /\ DOMAIN q = 1 .. Len(q) /\ DOMAIN t = 1 .. Len(q) - 1
      /\ \A i \in 1 .. Len(q) - 1 : t[i] = q[i + 1]
      /\ Head(q) = q[1] /\ q[1] \in S
  BY HeadTailProperties, LenProperties
<1> HIDE DEF t
<1>2. ToSet(q) = ToSet(t) \cup {q[1]}
  <2>1. \A i \in DOMAIN q : i = 1 \/ (i - 1 \in DOMAIN t /\ t[i - 1] = q[i])
    BY <1>1
  <2>2. \A i \in DOMAIN t : i + 1 \in DOMAIN q /\ t[i] = q[i + 1]
    BY <1>1
  <2>3. 1 \in DOMAIN q
    BY <1>1
  <2> QED
    BY <2>1, <2>2, <2>3 DEF ToSet
<1>3. ASSUME Increasing(F, q) PROVE Increasing(F, t)
  <2>1. ASSUME NEW i \in DOMAIN t, NEW j \in DOMAIN t, i < j, t[i] \in F, t[j] \in F
        PROVE  t[i] < t[j]
    <3>1. i + 1 \in DOMAIN q /\ j + 1 \in DOMAIN q /\ i + 1 < j + 1 /\ t[i] = q[i + 1] /\ t[j] = q[j + 1]
      BY <1>1, <2>1
    <3> QED
      BY <1>3, <2>1, <3>1 DEF Increasing
  <2> QED
    BY <2>1 DEF Increasing
<1>4. ASSUME Increasing(F, q) PROVE Before({q[1]} \cap F, ToSet(t) \cap F)
  <2>1. ASSUME q[1] \in F, NEW i \in DOMAIN t, t[i] \in F PROVE q[1] < t[i]
    <3>1. 1 \in DOMAIN q /\ i + 1 \in DOMAIN q /\ 1 < i + 1 /\ t[i] = q[i + 1]
      BY <1>1
    <3> QED
      BY <1>4, <2>1, <3>1 DEF Increasing
  <2> QED
    BY <2>1 DEF Before, ToSet
<1> QED
  BY <1>1, <1>2, <1>3, <1>4 DEF t, ToSet

LEMMA EmptyIn ==
  ASSUME NEW S, NEW F
  PROVE  <<>> \in Seq(S) /\ ToSet(<<>>) = {} /\ Increasing(F, <<>>)
BY DEF ToSet, Increasing

LEMMA LastIn ==
  ASSUME NEW S, NEW q \in Seq(S), q # <<>>
  PROVE  Last(q) \in ToSet(q) /\ Last(q) \in S
<1>1. Len(q) \in 1 .. Len(q) /\ DOMAIN q = 1 .. Len(q)
  BY LenProperties, EmptySeq
<1> QED
  BY <1>1 DEF Last, ToSet

\* What one sequence after another holds.
LEMMA ConcatHolds ==
  ASSUME NEW S, NEW q \in Seq(S), NEW r \in Seq(S)
  PROVE  q \o r \in Seq(S) /\ ToSet(q \o r) = ToSet(q) \cup ToSet(r)
<1> DEFINE t == q \o r
           m == Len(q)
           k == Len(r)
<1>1. /\ t \in Seq(S) /\ m \in Nat /\ k \in Nat
      /\ DOMAIN q = 1 .. m /\ DOMAIN r = 1 .. k /\ DOMAIN t = 1 .. m + k
      /\ \A i \in 1 .. m + k : t[i] = IF i <= m THEN q[i] ELSE r[i - m]
  BY ConcatProperties, LenProperties
<1> HIDE DEF t, m, k
<1>2. ToSet(t) = ToSet(q) \cup ToSet(r)
  <2>1. \A i \in DOMAIN t : (i \in DOMAIN q /\ t[i] = q[i]) \/ (i - m \in DOMAIN r /\ t[i] = r[i - m])
    BY <1>1
  <2>2. \A i \in DOMAIN q : i \in DOMAIN t /\ t[i] = q[i]
    BY <1>1
  <2>3. \A i \in DOMAIN r : i + m \in DOMAIN t /\ t[i + m] = r[i]
    BY <1>1
  <2> QED
    BY <2>1, <2>2, <2>3 DEF ToSet
<1> QED
  BY <1>1, <1>2 DEF t

\* Two increasing sequences, one before the other, are increasing one after the other.
LEMMA ConcatIn ==
  ASSUME NEW S, NEW q \in Seq(S), NEW r \in Seq(S), NEW F
  PROVE  /\ Increasing(F, q) /\ Increasing(F, r) /\ Before(ToSet(q) \cap F, ToSet(r) \cap F) =>
              Increasing(F, q \o r)
<1> DEFINE t == q \o r
           m == Len(q)
           k == Len(r)
<1>1. /\ t \in Seq(S) /\ m \in Nat /\ k \in Nat
      /\ DOMAIN q = 1 .. m /\ DOMAIN r = 1 .. k /\ DOMAIN t = 1 .. m + k
      /\ \A i \in 1 .. m + k : t[i] = IF i <= m THEN q[i] ELSE r[i - m]
  BY ConcatProperties, LenProperties
<1> HIDE DEF t, m, k
<1>2. ASSUME Increasing(F, q), Increasing(F, r), Before(ToSet(q) \cap F, ToSet(r) \cap F),
             NEW i \in DOMAIN t, NEW j \in DOMAIN t, i < j, t[i] \in F, t[j] \in F
      PROVE  t[i] < t[j]
  <2>1. CASE j <= m
    <3>1. i \in DOMAIN q /\ j \in DOMAIN q /\ t[i] = q[i] /\ t[j] = q[j]
      BY <1>1, <1>2, <2>1
    <3> QED
      BY <1>2, <3>1 DEF Increasing
  <2>2. CASE i > m
    <3>1. i - m \in DOMAIN r /\ j - m \in DOMAIN r /\ i - m < j - m /\ t[i] = r[i - m] /\ t[j] = r[j - m]
      BY <1>1, <1>2, <2>2
    <3> QED
      BY <1>2, <3>1 DEF Increasing
  <2>3. CASE i <= m /\ j > m
    <3>1. i \in DOMAIN q /\ j - m \in DOMAIN r /\ t[i] = q[i] /\ t[j] = r[j - m]
      BY <1>1, <2>3
    <3>2. t[i] \in ToSet(q) /\ t[j] \in ToSet(r)
      BY <3>1 DEF ToSet
    <3> QED
      BY <1>2, <3>2 DEF Before
  <2> QED
    BY <1>1, <2>1, <2>2, <2>3
<1> QED
  BY <1>1, <1>2 DEF t, Increasing
-----------------------------------------------------------------------------
(* What a step does to the way of its connection *)

\* SendFrame
LEMMA WaySends ==
  ASSUME NEW F \in SUBSET (Nat \ {0}), NEW n, NEW s, NEW q, NEW h, NEW o, NEW p,
         WayOK(F, n, s, q, h, o, p), n + 1 \in F, NEW f \in {n + 1, Bad}
  PROVE  WayOK(F, n + 1, Append(s, f), q, h, o, p)
<1> USE DEF WayOK
<1>1. f \in F \cup {Bad} /\ s \in Seq(F \cup {Bad}) /\ n \in Nat
  OBVIOUS
<1>2. Before(ToSet(s) \cap F, {f} \cap F)
  <2>1. ASSUME NEW g \in ToSet(s) \cap F, f \in F PROVE g < f
    <3>1. g \in Nat /\ g <= n
      OBVIOUS
    <3>2. f = n + 1
      BY <2>1 DEF Bad
    <3> QED
      BY <1>1, <3>1, <3>2
  <2> QED
    BY <2>1 DEF Before
<1>3. /\ Append(s, f) \in Seq(F \cup {Bad}) /\ ToSet(Append(s, f)) = ToSet(s) \cup {f}
      /\ Increasing(F, Append(s, f))
  <2>1. Increasing(F, s)
    OBVIOUS
  <2> QED
    BY ONLY <1>1, <1>2, <2>1, AppendIn
<1>4. \A g \in p \cup ({h} \cap F) \cup (ToSet(q) \cap F) : g <= n /\ g \in Nat
  OBVIOUS
<1>5. \A g \in ToSet(s) \cap F : g <= n /\ g \in Nat
  OBVIOUS
<1>6. f \in F => f = n + 1
  BY DEF Bad
<1>7. ASSUME NEW g \in p \cup ({h} \cap F) \cup (ToSet(q) \cap F), f \in F PROVE g < f
  <2>1. g \in Nat /\ g <= n /\ f = n + 1
    BY <1>4, <1>6, <1>7
  <2> QED
    BY ONLY <1>1, <2>1
<1>8. /\ Before(p, ToSet(Append(s, f)) \cap F) /\ Before({h} \cap F, ToSet(Append(s, f)) \cap F)
      /\ Before(ToSet(q) \cap F, ToSet(Append(s, f)) \cap F)
  BY <1>3, <1>7 DEF Before
<1>9. \A g \in p \cup ({h} \cap F) \cup (ToSet(q) \cap F) \cup (ToSet(Append(s, f)) \cap F) : g <= n + 1
  BY <1>1, <1>3, <1>4, <1>5, <1>6
<1> QED
  BY <1>1, <1>3, <1>8, <1>9

\* ReadFrame: the frame is queued, or it ends the reading.
LEMMA WayReads ==
  ASSUME NEW F \in SUBSET (Nat \ {0}), NEW n, NEW s, NEW q, NEW h, NEW o, NEW p,
         WayOK(F, n, s, q, h, o, p), s # <<>>
  PROVE  /\ WayOK(F, n, Tail(s), q, h, o, p)
         /\ Head(s) # Bad => WayOK(F, n, Tail(s), Append(q, Head(s)), h, o, p)
<1> USE DEF WayOK
<1>1. /\ Tail(s) \in Seq(F \cup {Bad}) /\ Head(s) \in F \cup {Bad}
      /\ ToSet(s) = ToSet(Tail(s)) \cup {Head(s)} /\ Head(s) \in ToSet(s)
      /\ Increasing(F, Tail(s)) /\ Before({Head(s)} \cap F, ToSet(Tail(s)) \cap F)
  BY TailIn
<1>2. WayOK(F, n, Tail(s), q, h, o, p)
  BY <1>1 DEF Before
<1>3. ASSUME Head(s) # Bad PROVE WayOK(F, n, Tail(s), Append(q, Head(s)), h, o, p)
  <2> DEFINE x == Head(s)
  <2>1. x \in F /\ x \in ToSet(s) \cap F
    BY <1>1, <1>3
  <2>2. Before(ToSet(q) \cap F, {x} \cap F) /\ Before(p, {x}) /\ Before({h} \cap F, {x}) /\ x <= n
    BY <2>1 DEF Before
  <2>3. /\ Append(q, x) \in Seq(F \cup {Stop}) /\ ToSet(Append(q, x)) = ToSet(q) \cup {x}
        /\ Increasing(F, Append(q, x))
    BY <2>1, <2>2, AppendIn
  <2> HIDE DEF x
  <2>4. /\ Before(p, ToSet(Append(q, x)) \cap F) /\ Before({h} \cap F, ToSet(Append(q, x)) \cap F)
        /\ Before(ToSet(Append(q, x)) \cap F, ToSet(Tail(s)) \cap F)
    BY <1>1, <2>1, <2>2, <2>3 DEF Before, x
  <2> QED
    BY <1>1, <1>2, <2>1, <2>2, <2>3, <2>4 DEF x
<1> QED
  BY <1>2, <1>3

\* CloseGenerator puts None for the thread.
LEMMA WayStops ==
  ASSUME NEW F \in SUBSET (Nat \ {0}), NEW n, NEW s, NEW q, NEW h, NEW o, NEW p,
         WayOK(F, n, s, q, h, o, p)
  PROVE  WayOK(F, n, s, Append(q, Stop), h, o, p)
<1> USE DEF WayOK
<1>1. Stop \notin F /\ {Stop} \cap F = {}
  BY DEF Stop
<1>2. /\ Append(q, Stop) \in Seq(F \cup {Stop}) /\ ToSet(Append(q, Stop)) = ToSet(q) \cup {Stop}
      /\ Increasing(F, Append(q, Stop))
  BY <1>1, AppendIn DEF Before
<1>3. ToSet(Append(q, Stop)) \cap F = ToSet(q) \cap F
  BY <1>1, <1>2
<1> QED
  BY <1>2, <1>3

\* EndThread
LEMMA WayEnds ==
  ASSUME NEW F \in SUBSET (Nat \ {0}), NEW n, NEW s, NEW q, NEW h, NEW o, NEW p,
         WayOK(F, n, s, q, h, o, p)
  PROVE  WayOK(F, n, s, <<>>, h, Append(o, Stop), p)
<1> USE DEF WayOK
<1>1. Stop \notin F /\ {Stop} \cap F = {}
  BY DEF Stop
<1>2. /\ Append(o, Stop) \in Seq(F \cup {Stop}) /\ ToSet(Append(o, Stop)) = ToSet(o) \cup {Stop}
      /\ Increasing(F, Append(o, Stop))
  BY <1>1, AppendIn DEF Before
<1>3. ToSet(Append(o, Stop)) \cap F = ToSet(o) \cap F /\ p \ ToSet(Append(o, Stop)) = p \ ToSet(o)
  BY <1>1, <1>2
<1>4. <<>> \in Seq(F \cup {Stop}) /\ ToSet(<<>>) \cap F = {} /\ Increasing(F, <<>>)
  BY EmptyIn
<1> QED
  BY <1>2, <1>3, <1>4 DEF Before

\* TakeFrame
LEMMA WayTakes ==
  ASSUME NEW F \in SUBSET (Nat \ {0}), NEW n, NEW s, NEW q, NEW h, NEW o, NEW p,
         WayOK(F, n, s, q, h, o, p), q # <<>>
  PROVE  WayOK(F, n, s, <<>>, Last(q), o, p)
<1> USE DEF WayOK
<1>1. Last(q) \in ToSet(q) /\ Last(q) \in F \cup {Stop}
  BY LastIn
<1>2. <<>> \in Seq(F \cup {Stop}) /\ ToSet(<<>>) \cap F = {} /\ Increasing(F, <<>>)
  BY EmptyIn
<1> QED
  BY <1>1, <1>2 DEF Before

\* RaisePushing
LEMMA WaySkips ==
  ASSUME NEW F \in SUBSET (Nat \ {0}), NEW n, NEW s, NEW q, NEW h, NEW o, NEW p,
         WayOK(F, n, s, q, h, o, p)
  PROVE  WayOK(F, n, s, <<>>, h, o, p)
<1>1. <<>> \in Seq(F \cup {Stop}) /\ ToSet(<<>>) \cap F = {} /\ Increasing(F, <<>>)
  BY EmptyIn
<1> QED
  BY <1>1 DEF WayOK, Before

\* Raise
LEMMA WayRaises ==
  ASSUME NEW F \in SUBSET (Nat \ {0}), NEW n, NEW s, NEW q, NEW h, NEW o, NEW p,
         WayOK(F, n, s, q, h, o, p)
  PROVE  WayOK(F, n, s, q, Stop, o, p)
<1>1. {Stop} \cap F = {}
  BY DEF Stop
<1> QED
  BY <1>1 DEF WayOK, Before

\* Answer
LEMMA WayAnswers ==
  ASSUME NEW F \in SUBSET (Nat \ {0}), NEW n, NEW s, NEW q, NEW h, NEW o, NEW p,
         WayOK(F, n, s, q, h, o, p), h # Stop
  PROVE  WayOK(F, n, s, q, Stop, Append(o, h), p \cup {h})
<1> USE DEF WayOK
<1>1. {Stop} \cap F = {} /\ h \in F /\ {h} \cap F = {h}
  BY DEF Stop
<1>2. Before(ToSet(o) \cap F, {h} \cap F)
  BY DEF Before
<1>3. /\ Append(o, h) \in Seq(F \cup {Stop}) /\ ToSet(Append(o, h)) = ToSet(o) \cup {h}
      /\ Increasing(F, Append(o, h))
  BY <1>1, <1>2, AppendIn
<1>4. /\ (p \cup {h}) \ ToSet(Append(o, h)) \subseteq p \ ToSet(o)
      /\ ToSet(Append(o, h)) \cap F = (ToSet(o) \cap F) \cup {h}
  BY <1>1, <1>3
<1>5. Before((p \cup {h}) \ ToSet(Append(o, h)), ToSet(Append(o, h)) \cap F)
  BY <1>1, <1>4 DEF Before
<1>6. Before(p \cup {h}, ToSet(q) \cap F) /\ Before(p \cup {h}, ToSet(s) \cap F)
  BY <1>1 DEF Before
<1>7. Before(p \cup {h}, {Stop} \cap F) /\ Before({Stop} \cap F, ToSet(q) \cap F) /\ Before({Stop} \cap F, ToSet(s) \cap F)
  BY <1>1 DEF Before
<1>8. \A f \in (p \cup {h}) \cup ({Stop} \cap F) \cup (ToSet(q) \cap F) \cup (ToSet(s) \cap F) : f <= n
  BY <1>1
<1> QED
  BY <1>1, <1>3, <1>4, <1>5, <1>6, <1>7, <1>8

\* TakeAnswer
LEMMA WayLeaves ==
  ASSUME NEW F \in SUBSET (Nat \ {0}), NEW n, NEW s, NEW q, NEW h, NEW o, NEW p,
         WayOK(F, n, s, q, h, o, p), o # <<>>
  PROVE  WayOK(F, n, s, q, h, Tail(o), p)
<1> USE DEF WayOK
<1>1. /\ Tail(o) \in Seq(F \cup {Stop}) /\ Head(o) \in F \cup {Stop}
      /\ ToSet(o) = ToSet(Tail(o)) \cup {Head(o)}
      /\ Increasing(F, Tail(o)) /\ Before({Head(o)} \cap F, ToSet(Tail(o)) \cap F)
  BY TailIn
<1>2. /\ p \ ToSet(Tail(o)) \subseteq (p \ ToSet(o)) \cup ({Head(o)} \cap F)
      /\ ToSet(Tail(o)) \cap F \subseteq ToSet(o) \cap F
  BY <1>1
<1>3. Before(p \ ToSet(Tail(o)), ToSet(Tail(o)) \cap F)
  BY <1>1, <1>2 DEF Before
<1> QED
  BY <1>1, <1>2, <1>3

\* What is on its way is in order, and after what has left (AnswersInOrder).
LEMMA WayInOrder ==
  ASSUME NEW F \in SUBSET (Nat \ {0}), NEW n, NEW s, NEW q, NEW h, NEW o, NEW p,
         WayOK(F, n, s, q, h, o, p), NEW line, line = o \o <<h>> \o q \o s
  PROVE  /\ Increasing(F, line)
         /\ Before(p \ ToSet(o), ToSet(line) \cap F)
<1> USE DEF WayOK
<1> DEFINE S == F \cup {Stop, Bad}
           t == <<h>>
           u == o \o t
           v == u \o q
<1>1. /\ o \in Seq(S) /\ q \in Seq(S) /\ s \in Seq(S) /\ t \in Seq(S)
      /\ ToSet(t) = {h} /\ Increasing(F, t)
  BY DEF ToSet, Increasing
<1>2. Increasing(F, s) /\ Increasing(F, q) /\ Increasing(F, o)
  OBVIOUS
<1>3. Before(ToSet(o) \cap F, ToSet(t) \cap F)
  BY <1>1 DEF Before
<1> HIDE DEF S, t
<1>4. u \in Seq(S) /\ ToSet(u) = ToSet(o) \cup {h} /\ Increasing(F, u)
  <2>1. u \in Seq(S) /\ ToSet(u) = ToSet(o) \cup {h}
    <3>1. o \in Seq(S) /\ t \in Seq(S) /\ ToSet(t) = {h}
      BY ONLY <1>1
    <3>2. u \in Seq(S) /\ ToSet(u) = ToSet(o) \cup ToSet(t)
      BY ONLY <3>1, ConcatHolds
    <3> QED
      BY ONLY <3>1, <3>2
  <2>2. Increasing(F, u)
    <3>1. o \in Seq(S) /\ t \in Seq(S) /\ Increasing(F, o) /\ Increasing(F, t)
      BY ONLY <1>1, <1>2
    <3> QED
      BY ONLY <3>1, <1>3, ConcatIn, ZenonT(40)
  <2> QED
    BY <2>1, <2>2
<1> HIDE DEF u
<1>5. Before(ToSet(u) \cap F, ToSet(q) \cap F)
  BY <1>4 DEF Before
<1>6. v \in Seq(S) /\ ToSet(v) = ToSet(u) \cup ToSet(q) /\ Increasing(F, v)
  <2>1. u \in Seq(S) /\ q \in Seq(S) /\ Increasing(F, u) /\ Increasing(F, q)
    BY ONLY <1>1, <1>2, <1>4
  <2>2. u \o q \in Seq(S) /\ ToSet(u \o q) = ToSet(u) \cup ToSet(q)
    BY ONLY <2>1, ConcatHolds
  <2>3. Increasing(F, u \o q)
    BY ONLY <2>1, <1>5, ConcatIn, ZenonT(40)
  <2> QED
    BY ONLY <2>2, <2>3
<1>7. line = v \o s
  BY DEF v, u, t
<1> HIDE DEF v
<1>8. Before(ToSet(v) \cap F, ToSet(s) \cap F)
  BY <1>4, <1>6 DEF Before
<1>9. ToSet(line) = ToSet(v) \cup ToSet(s) /\ Increasing(F, line)
  <2>1. v \in Seq(S) /\ s \in Seq(S) /\ Increasing(F, v) /\ Increasing(F, s)
    BY ONLY <1>1, <1>2, <1>6
  <2>2. ToSet(v \o s) = ToSet(v) \cup ToSet(s)
    BY ONLY <2>1, ConcatHolds
  <2>3. Increasing(F, v \o s)
    BY ONLY <2>1, <1>8, ConcatIn, ZenonT(40)
  <2> QED
    BY ONLY <1>7, <2>2, <2>3
<1>10. Before(p \ ToSet(o), ToSet(line) \cap F)
  BY <1>4, <1>6, <1>9 DEF Before
<1> QED
  BY <1>9, <1>10
-----------------------------------------------------------------------------
(* Types *)

Loop ==
  /\ running \in BOOLEAN /\ spinning \in BOOLEAN
  /\ shut \in {"no", "signalled", "closing", "cleared", "exited"}

Roles ==
  /\ active \subseteq Clients
  /\ link \in [Clients -> {"none", "open", "eof", "lost", "closing", "closed"}]
  /\ reader \in [Clients -> {"none", "reading", "ended"}]
  /\ handler \in [Clients -> {"none", "poll", "drain", "close", "closing", "done", "failed"}]
  /\ gen \in [Clients -> {"none", "live", "dropped", "closed"}]

\* A reply is written only by a handler whose client has read all but Room of them.
Replies ==
  /\ unread \in [Clients -> 0..Room + 1]
  /\ \A c \in Clients : link[c] = "none" \/ handler[c] = "poll" => unread[c] <= Room

Window ==
  /\ frames \in Seq(Rows) /\ actions \in Seq(Rows \cup {NoAction})
  /\ Len(frames) = Len(actions) /\ Len(frames) <= T /\ misaligned \in BOOLEAN

Inward ==
  /\ DOMAIN sent = Clients /\ DOMAIN sock = Clients /\ DOMAIN inq = Clients
  /\ \A c \in Clients : /\ sent[c] \in 0..MaxFrames[c]
                        /\ sock[c] \in Seq(Frame(c) \cup {Bad})
                        /\ inq[c] \in Seq(Frame(c) \cup {Stop})

Outward ==
  /\ thread \in [Clients -> {"none", "queued", "idle", "working", "exited"}]
  /\ DOMAIN held = Clients /\ DOMAIN outq = Clients /\ DOMAIN produced = Clients
  /\ \A c \in Clients : /\ held[c] \in Frame(c) \cup {Stop} /\ (held[c] = Stop <=> thread[c] # "working")
                        /\ outq[c] \in Seq(Frame(c) \cup {Stop})
                        /\ produced[c] \subseteq Frame(c)
                        /\ link[c] = "none" => thread[c] = "none"

Types == Loop /\ Roles /\ Replies /\ Window /\ Inward /\ Outward

LEMMA TypesHaveTypes == Types => TypeOK
<1> SUFFICES ASSUME Types PROVE TypeOK
  OBVIOUS
<1>1. unread \in [Clients -> 0..Room + 1]
  BY DEF Types, Replies
<1>2. {DOMAIN sent, DOMAIN sock, DOMAIN inq, DOMAIN outq, DOMAIN held, DOMAIN produced} = {Clients}
  BY DEF Types, Inward, Outward
<1>3. ASSUME NEW c \in Clients
      PROVE  /\ sent[c] \in 0..MaxFrames[c]
             /\ sock[c] \in Seq(Frame(c) \cup {Bad})
             /\ inq[c] \in Seq(Frame(c) \cup {Stop}) /\ outq[c] \in Seq(Frame(c) \cup {Stop})
             /\ held[c] \in Frame(c) \cup {Stop} /\ (held[c] = Stop <=> thread[c] # "working")
             /\ produced[c] \subseteq Frame(c)
  BY DEF Types, Inward, Outward
<1>4. thread \in [Clients -> {"none", "queued", "idle", "working", "exited"}]
  BY DEF Types, Outward
<1>5. Loop /\ Roles /\ Window
  BY DEF Types
<1> QED
  BY ONLY <1>1, <1>2, <1>3, <1>4, <1>5 DEF TypeOK, Loop, Roles, Window

\* PushFrame keeps both arrays at the length of the window.
LEMMA PushTypes ==
  ASSUME Window, T \in Nat \ {0}, NEW r \in Rows, PushFrame(r)
  PROVE  Window'
<1> USE DEF Window, PushFrame
<1>1. CASE Len(frames) < T
  <2>1. /\ Append(frames, r) \in Seq(Rows) /\ Len(Append(frames, r)) = Len(frames) + 1
        /\ Append(actions, NoAction) \in Seq(Rows \cup {NoAction}) /\ Len(Append(actions, NoAction)) = Len(actions) + 1
    OBVIOUS
  <2>2. frames' = Append(frames, r) /\ actions' = Append(actions, NoAction) /\ Len(frames) \in Nat
        /\ UNCHANGED misaligned
    BY <1>1
  <2> QED
    BY ONLY Window, T \in Nat \ {0}, <1>1, <2>1, <2>2 DEF Window
<1>2. CASE ~(Len(frames) < T)
  <2>1. frames # <<>> /\ actions # <<>> /\ Len(frames) \in Nat
    BY <1>2
  <2>2. /\ Tail(frames) \in Seq(Rows) /\ Len(Tail(frames)) = Len(frames) - 1
        /\ Tail(actions) \in Seq(Rows \cup {NoAction}) /\ Len(Tail(actions)) = Len(actions) - 1
        /\ Head(actions) \in Rows \cup {NoAction}
    BY <2>1, HeadTailProperties
  <2>3. /\ Append(Tail(frames), r) \in Seq(Rows) /\ Len(Append(Tail(frames), r)) = Len(Tail(frames)) + 1
        /\ Append(Tail(actions), Head(actions)) \in Seq(Rows \cup {NoAction})
        /\ Len(Append(Tail(actions), Head(actions))) = Len(Tail(actions)) + 1
    BY <2>2
  <2>4. frames' = Append(Tail(frames), r) /\ actions' = Append(Tail(actions), Head(actions)) /\ UNCHANGED misaligned
    BY <1>2 DEF Rolled
  <2> QED
    BY ONLY Window, <2>1, <2>2, <2>3, <2>4 DEF Window
<1> QED
  BY <1>1, <1>2

LEMMA RolledRows ==
  ASSUME NEW S, NEW q \in Seq(S), q # <<>>
  PROVE  /\ Rolled(q) \in Seq(S) /\ Len(Rolled(q)) = Len(q) /\ Rolled(q)[Len(q)] = q[1]
         /\ \A i \in 1 .. Len(q) - 1 : Rolled(q)[i] = q[i + 1]
<1> DEFINE t == Tail(q)
<1>1. /\ t \in Seq(S) /\ Len(q) \in Nat /\ Len(q) > 0 /\ Len(t) = Len(q) - 1
      /\ \A i \in 1 .. Len(q) - 1 : t[i] = q[i + 1]
      /\ Head(q) = q[1] /\ q[1] \in S
  BY HeadTailProperties, LenProperties
<1> HIDE DEF t
<1>2. /\ Append(t, q[1]) \in Seq(S) /\ Len(Append(t, q[1])) = Len(q) /\ Append(t, q[1])[Len(q)] = q[1]
      /\ \A i \in 1 .. Len(q) - 1 : Append(t, q[1])[i] = t[i]
  BY <1>1
<1> QED
  BY <1>1, <1>2 DEF Rolled, t

\* A push that fails leaves the window as it was, or with its frames rolled.
LEMMA FailedPush ==
  ASSUME Window, T \in Nat \ {0}, PushFails
  PROVE  /\ Window'
         /\ \/ UNCHANGED window
            \/ frames # <<>> /\ frames' = Rolled(frames)
               /\ (misaligned' = TRUE \/ (actions' = Rolled(actions) /\ UNCHANGED misaligned))
<1>1. CASE UNCHANGED window
  BY <1>1 DEF Window, window
<1>2. CASE /\ Len(frames) = T /\ frames' = Rolled(frames)
           /\ \/ actions' = Rolled(actions) /\ UNCHANGED misaligned
              \/ UNCHANGED actions /\ misaligned' = TRUE
  <2>1. /\ frames \in Seq(Rows) /\ actions \in Seq(Rows \cup {NoAction}) /\ Len(frames) = Len(actions)
        /\ misaligned \in BOOLEAN
    BY DEF Window
  <2>2. frames # <<>> /\ actions # <<>>
    BY <1>2, <2>1
  <2>3. /\ Rolled(frames) \in Seq(Rows) /\ Len(Rolled(frames)) = Len(frames)
        /\ Rolled(actions) \in Seq(Rows \cup {NoAction}) /\ Len(Rolled(actions)) = Len(actions)
    BY <2>1, <2>2, RolledRows
  <2>4. Window'
    BY <1>2, <2>1, <2>3 DEF Window
  <2>5. frames # <<>> /\ frames' = Rolled(frames)
    BY <1>2, <2>2
  <2>6. misaligned' = TRUE \/ (actions' = Rolled(actions) /\ UNCHANGED misaligned)
    BY <1>2
  <2> QED
    BY <2>4, <2>5, <2>6
<1> QED
  BY <1>1, <1>2 DEF PushFails

LEMMA TypesInit == Init => Types
<1> SUFFICES ASSUME Init PROVE Types
  OBVIOUS
<1> USE ConstantsAssumption DEF Init
<1>1. Loop
  BY DEF Loop, Stop
<1>2. Roles
  BY DEF Roles, Stop
<1>3. Replies
  BY DEF Replies, Stop
<1>4. Window
  <2>1. frames = <<>> /\ actions = <<>> /\ <<>> \in Seq(Rows) /\ <<>> \in Seq(Rows \cup {NoAction}) /\ Len(<<>>) = 0
    OBVIOUS
  <2>2. misaligned \in BOOLEAN
    OBVIOUS
  <2> QED
    BY ONLY T \in Nat \ {0}, <2>1, <2>2, ConstantsAssumption DEF Window
<1>5. Inward
  BY DEF Inward, Stop
<1>6. Outward
  BY DEF Outward, Stop
<1> QED
  BY <1>1, <1>2, <1>3, <1>4, <1>5, <1>6 DEF Types

LEMMA TypesStep ==
  ASSUME Types, [Next]_vars
  PROVE  Types'
<1>1. /\ Room \in Nat \ {0} /\ T \in Nat \ {0} /\ Workers \in Nat \ {0}
      /\ \A c \in Clients : MaxFrames[c] \in Nat \ {0} /\ Frame(c) = 1 .. MaxFrames[c]
  <2>1. Room \in Nat \ {0} /\ T \in Nat \ {0} /\ Workers \in Nat \ {0}
    BY ConstantsAssumption
  <2>2. \A c \in Clients : MaxFrames[c] \in Nat \ {0}
    BY ConstantsAssumption
  <2> QED
    BY <2>1, <2>2 DEF Frame
<1> USE DEF Types
<1>2. ASSUME NEW c \in Clients, Connect(c) PROVE Types'
  <2> USE <1>1, <1>2 DEF Connect, loopVars, window
  <2>1. Loop'
    BY DEF Loop
  <2>2. Roles'
    BY DEF Roles
  <2>3. Replies'
    BY DEF Replies
  <2>4. Window'
    BY DEF Window
  <2>5. Inward'
    BY DEF Inward
  <2>6. Outward'
    <3> USE DEF Outward
    <3>1. thread' \in [Clients -> {"none", "queued", "idle", "working", "exited"}]
          /\ DOMAIN held' = Clients /\ DOMAIN outq' = Clients /\ DOMAIN produced' = Clients
      OBVIOUS
    <3>2. held'[c] \in Frame(c) \cup {Stop}
      BY DEF Roles
    <3>3. (held'[c] = Stop <=> thread'[c] # "working")
      BY DEF Roles
    <3>4. outq'[c] \in Seq(Frame(c) \cup {Stop})
      BY DEF Roles
    <3>5. produced'[c] \subseteq Frame(c)
      BY DEF Roles
    <3>6. (link'[c] = "none" => thread'[c] = "none")
      BY DEF Roles
    <3>9. \A d \in Clients : d # c => thread'[d] = thread[d] /\ held'[d] = held[d] /\ outq'[d] = outq[d] /\ produced'[d] = produced[d] /\ link'[d] = link[d]
      BY DEF Roles
    <3> QED
      BY ONLY Types, <3>1, <3>2, <3>3, <3>4, <3>5, <3>6, <3>9 DEF Types, Outward
  <2> QED
    BY <2>1, <2>2, <2>3, <2>4, <2>5, <2>6
<1>3. ASSUME NEW c \in Clients, SendFrame(c) PROVE Types'
  <2> USE <1>1, <1>3 DEF SendFrame, loopVars, window
  <2>1. Loop'
    BY DEF Loop
  <2>2. Roles'
    BY DEF Roles
  <2>3. Replies'
    BY DEF Replies
  <2>4. Window'
    BY DEF Window
  <2>5. Inward'
    <3> USE DEF Inward
    <3>1. DOMAIN sent' = Clients /\ DOMAIN sock' = Clients /\ DOMAIN inq' = Clients
      OBVIOUS
    <3>2. sent'[c] \in 1..MaxFrames[c]
      <4>1. sent[c] \in 0 .. MaxFrames[c] /\ DOMAIN sent = Clients
        BY ONLY Types DEF Types, Inward
      <4>2. sent' = [sent EXCEPT ![c] = @ + 1] /\ sent[c] < MaxFrames[c]
        BY ONLY <1>3 DEF SendFrame
      <4>3. sent'[c] = sent[c] + 1
        BY ONLY <4>1, <4>2
      <4> QED
        BY ONLY <1>1, <4>1, <4>2, <4>3
    <3>3. sock'[c] \in Seq(Frame(c) \cup {Bad})
      <4>1. sent'[c] \in Frame(c)
        BY <3>2
      <4>2. PICK f \in Frame(c) \cup {Bad} : sock' = [sock EXCEPT ![c] = Append(@, f)]
        BY <4>1
      <4>3. sock'[c] = Append(sock[c], f) /\ sock[c] \in Seq(Frame(c) \cup {Bad})
        BY <4>2
      <4> QED
        BY <4>2, <4>3, AppendIn
    <3>4. inq'[c] \in Seq(Frame(c) \cup {Stop})
      BY DEF Roles
    <3>9. \A d \in Clients : d # c => sent'[d] = sent[d] /\ sock'[d] = sock[d] /\ inq'[d] = inq[d]
      BY DEF Roles
    <3>10. sent'[c] \in 0..MaxFrames[c]
      BY <3>2
    <3> QED
      BY ONLY Types, <3>1, <3>3, <3>4, <3>9, <3>10 DEF Types, Inward
  <2>6. Outward'
    BY DEF Outward
  <2> QED
    BY <2>1, <2>2, <2>3, <2>4, <2>5, <2>6
<1>4. ASSUME NEW c \in Clients, ReadReply(c) PROVE Types'
  <2> USE <1>1, <1>4 DEF ReadReply, loopVars, window
  <2>1. Loop'
    BY DEF Loop
  <2>2. Roles'
    BY DEF Roles
  <2>3. Replies'
    BY DEF Replies
  <2>4. Window'
    BY DEF Window
  <2>5. Inward'
    BY DEF Inward
  <2>6. Outward'
    BY DEF Outward
  <2> QED
    BY <2>1, <2>2, <2>3, <2>4, <2>5, <2>6
<1>5. ASSUME NEW c \in Clients, Leave(c) PROVE Types'
  <2> USE <1>1, <1>5 DEF Leave, loopVars, window
  <2>1. Loop'
    BY DEF Loop
  <2>2. Roles'
    BY DEF Roles
  <2>3. Replies'
    BY DEF Replies
  <2>4. Window'
    BY DEF Window
  <2>5. Inward'
    BY DEF Inward
  <2>6. Outward'
    <3>1. /\ UNCHANGED <<thread, held, outq, produced>>
          /\ \A d \in Clients : link'[d] = "none" => link[d] = "none"
      BY DEF Roles
    <3> QED
      BY ONLY Types, <3>1 DEF Types, Outward
  <2> QED
    BY <2>1, <2>2, <2>3, <2>4, <2>5, <2>6
<1>6. ASSUME NEW c \in Clients, ReadFrame(c) PROVE Types'
  <2> USE <1>1, <1>6 DEF ReadFrame, loopVars, window
  <2>1. Loop'
    BY DEF Loop
  <2>2. Roles'
    BY DEF Roles
  <2>3. Replies'
    BY DEF Replies
  <2>4. Window'
    BY DEF Window
  <2>5. Inward'
    <3> USE DEF Inward
    <3>1. DOMAIN sent' = Clients /\ DOMAIN sock' = Clients /\ DOMAIN inq' = Clients
      OBVIOUS
    <3>2. sent'[c] \in 0..MaxFrames[c]
      BY DEF Roles
    <3>3. sock'[c] \in Seq(Frame(c) \cup {Bad})
      <4>1. sock[c] \in Seq(Frame(c) \cup {Bad}) /\ inq[c] \in Seq(Frame(c) \cup {Stop}) /\ sock[c] # <<>>
        OBVIOUS
      <4>2. Tail(sock[c]) \in Seq(Frame(c) \cup {Bad}) /\ Head(sock[c]) \in Frame(c) \cup {Bad}
        BY <4>1, TailIn
      <4> QED
        BY <4>2
    <3>4. inq'[c] \in Seq(Frame(c) \cup {Stop})
      <4>1. sock[c] \in Seq(Frame(c) \cup {Bad}) /\ inq[c] \in Seq(Frame(c) \cup {Stop}) /\ sock[c] # <<>>
        OBVIOUS
      <4>2. Tail(sock[c]) \in Seq(Frame(c) \cup {Bad}) /\ Head(sock[c]) \in Frame(c) \cup {Bad}
        BY <4>1, TailIn
      <4>3. CASE Head(sock[c]) # Bad
        <5>1. Append(inq[c], Head(sock[c])) \in Seq(Frame(c) \cup {Stop})
          BY <4>1, <4>2, <4>3, AppendIn
        <5> QED
          BY <4>1, <5>1
      <4>4. CASE Head(sock[c]) = Bad
        BY <4>1, <4>4
      <4> QED
        BY <4>3, <4>4
    <3>9. \A d \in Clients : d # c => sent'[d] = sent[d] /\ sock'[d] = sock[d] /\ inq'[d] = inq[d]
      BY DEF Roles
    <3> QED
      BY ONLY Types, <3>1, <3>2, <3>3, <3>4, <3>9 DEF Types, Inward
  <2>6. Outward'
    BY DEF Outward
  <2> QED
    BY <2>1, <2>2, <2>3, <2>4, <2>5, <2>6
<1>7. ASSUME NEW c \in Clients, ReadEnd(c) PROVE Types'
  <2> USE <1>1, <1>7 DEF ReadEnd, loopVars, window
  <2>1. Loop'
    BY DEF Loop
  <2>2. Roles'
    BY DEF Roles
  <2>3. Replies'
    BY DEF Replies
  <2>4. Window'
    BY DEF Window
  <2>5. Inward'
    BY DEF Inward
  <2>6. Outward'
    BY DEF Outward
  <2> QED
    BY <2>1, <2>2, <2>3, <2>4, <2>5, <2>6
<1>8. ASSUME NEW c \in Clients, LeaveLoop(c) PROVE Types'
  <2> USE <1>1, <1>8 DEF LeaveLoop, CloseGenerator, loopVars, window
  <2>1. Loop'
    BY DEF Loop
  <2>2. Roles'
    BY DEF Roles
  <2>3. Replies'
    BY DEF Replies
  <2>4. Window'
    BY DEF Window
  <2>5. Inward'
    <3> USE DEF Inward
    <3>1. DOMAIN sent' = Clients /\ DOMAIN sock' = Clients /\ DOMAIN inq' = Clients
      OBVIOUS
    <3>2. sent'[c] \in 0..MaxFrames[c]
      BY DEF Roles
    <3>3. sock'[c] \in Seq(Frame(c) \cup {Bad})
      BY DEF Roles
    <3>4. inq'[c] \in Seq(Frame(c) \cup {Stop})
      <4>1. inq'[c] = Append(inq[c], Stop) /\ inq[c] \in Seq(Frame(c) \cup {Stop})
        OBVIOUS
      <4> QED
        BY <4>1, AppendIn
    <3>9. \A d \in Clients : d # c => sent'[d] = sent[d] /\ sock'[d] = sock[d] /\ inq'[d] = inq[d]
      BY DEF Roles
    <3> QED
      BY ONLY Types, <3>1, <3>2, <3>3, <3>4, <3>9 DEF Types, Inward
  <2>6. Outward'
    BY DEF Outward
  <2> QED
    BY <2>1, <2>2, <2>3, <2>4, <2>5, <2>6
<1>9. ASSUME NEW c \in Clients, TakeAnswer(c) PROVE Types'
  <2> USE <1>1, <1>9 DEF TakeAnswer, loopVars, window
  <2>1. Loop'
    BY DEF Loop
  <2>2. Roles'
    BY DEF Roles
  <2>3. Replies'
    <3> USE DEF Replies
    <3>1. unread' \in [Clients -> 0..Room + 1]
      <4>1. unread[c] \in 0..Room + 1 /\ unread[c] <= Room /\ Room \in Nat
        OBVIOUS
      <4>2. unread[c] + 1 \in 0..Room + 1
        BY ONLY <4>1
      <4> HIDE <1>1
      <4> QED
        BY <4>2
    <3>2. unread'[c] \in 0..Room + 1
      BY DEF Roles
    <3>3. (link'[c] = "none" \/ handler'[c] = "poll" => unread'[c] <= Room)
      BY DEF Roles
    <3>9. \A d \in Clients : d # c => unread'[d] = unread[d] /\ link'[d] = link[d] /\ handler'[d] = handler[d]
      BY DEF Roles
    <3> QED
      BY ONLY Types, <3>1, <3>2, <3>3, <3>9 DEF Types, Replies
  <2>4. Window'
    BY DEF Window
  <2>5. Inward'
    BY DEF Inward
  <2>6. Outward'
    <3> USE DEF Outward
    <3>1. thread' \in [Clients -> {"none", "queued", "idle", "working", "exited"}]
          /\ DOMAIN held' = Clients /\ DOMAIN outq' = Clients /\ DOMAIN produced' = Clients
      OBVIOUS
    <3>2. held'[c] \in Frame(c) \cup {Stop}
      BY DEF Roles
    <3>3. (held'[c] = Stop <=> thread'[c] # "working")
      BY DEF Roles
    <3>4. outq'[c] \in Seq(Frame(c) \cup {Stop})
      BY DEF Roles
    <3>5. produced'[c] \subseteq Frame(c)
      BY DEF Roles
    <3>6. (link'[c] = "none" => thread'[c] = "none")
      BY DEF Roles
    <3>9. \A d \in Clients : d # c => thread'[d] = thread[d] /\ held'[d] = held[d] /\ outq'[d] = outq[d] /\ produced'[d] = produced[d] /\ link'[d] = link[d]
      BY DEF Roles
    <3> QED
      BY ONLY Types, <3>1, <3>2, <3>3, <3>4, <3>5, <3>6, <3>9 DEF Types, Outward
  <2> QED
    BY <2>1, <2>2, <2>3, <2>4, <2>5, <2>6
<1>10. ASSUME NEW c \in Clients, Drained(c) PROVE Types'
  <2> USE <1>1, <1>10 DEF Drained, loopVars, window
  <2>1. Loop'
    BY DEF Loop
  <2>2. Roles'
    BY DEF Roles
  <2>3. Replies'
    <3> USE DEF Replies
    <3>1. unread' \in [Clients -> 0..Room + 1]
      BY DEF Roles
    <3>2. unread'[c] \in 0..Room + 1
      BY DEF Roles
    <3>3. (link'[c] = "none" \/ handler'[c] = "poll" => unread'[c] <= Room)
      BY DEF Roles
    <3>9. \A d \in Clients : d # c => unread'[d] = unread[d] /\ link'[d] = link[d] /\ handler'[d] = handler[d]
      BY DEF Roles
    <3> QED
      BY ONLY Types, <3>1, <3>2, <3>3, <3>9 DEF Types, Replies
  <2>4. Window'
    BY DEF Window
  <2>5. Inward'
    BY DEF Inward
  <2>6. Outward'
    BY DEF Outward
  <2> QED
    BY <2>1, <2>2, <2>3, <2>4, <2>5, <2>6
<1>11. ASSUME NEW c \in Clients, CloseDropped(c) PROVE Types'
  <2> USE <1>1, <1>11 DEF CloseDropped, CloseGenerator, loopVars, window
  <2>1. Loop'
    BY DEF Loop
  <2>2. Roles'
    BY DEF Roles
  <2>3. Replies'
    BY DEF Replies
  <2>4. Window'
    BY DEF Window
  <2>5. Inward'
    <3> USE DEF Inward
    <3>1. DOMAIN sent' = Clients /\ DOMAIN sock' = Clients /\ DOMAIN inq' = Clients
      OBVIOUS
    <3>2. sent'[c] \in 0..MaxFrames[c]
      BY DEF Roles
    <3>3. sock'[c] \in Seq(Frame(c) \cup {Bad})
      BY DEF Roles
    <3>4. inq'[c] \in Seq(Frame(c) \cup {Stop})
      <4>1. inq'[c] = Append(inq[c], Stop) /\ inq[c] \in Seq(Frame(c) \cup {Stop})
        OBVIOUS
      <4> QED
        BY <4>1, AppendIn
    <3>9. \A d \in Clients : d # c => sent'[d] = sent[d] /\ sock'[d] = sock[d] /\ inq'[d] = inq[d]
      BY DEF Roles
    <3> QED
      BY ONLY Types, <3>1, <3>2, <3>3, <3>4, <3>9 DEF Types, Inward
  <2>6. Outward'
    BY DEF Outward
  <2> QED
    BY <2>1, <2>2, <2>3, <2>4, <2>5, <2>6
<1>12. ASSUME NEW c \in Clients, CloseWriter(c) PROVE Types'
  <2> USE <1>1, <1>12 DEF CloseWriter, loopVars, window
  <2>1. Loop'
    BY DEF Loop
  <2>2. Roles'
    BY DEF Roles
  <2>3. Replies'
    <3> USE DEF Replies
    <3>1. unread' \in [Clients -> 0..Room + 1]
      BY DEF Roles
    <3>2. unread'[c] \in 0..Room + 1
      BY DEF Roles
    <3>3. (link'[c] = "none" \/ handler'[c] = "poll" => unread'[c] <= Room)
      BY DEF Roles
    <3>9. \A d \in Clients : d # c => unread'[d] = unread[d] /\ link'[d] = link[d] /\ handler'[d] = handler[d]
      BY DEF Roles
    <3> QED
      BY ONLY Types, <3>1, <3>2, <3>3, <3>9 DEF Types, Replies
  <2>4. Window'
    BY DEF Window
  <2>5. Inward'
    BY DEF Inward
  <2>6. Outward'
    <3>1. /\ UNCHANGED <<thread, held, outq, produced>>
          /\ \A d \in Clients : link'[d] = "none" => link[d] = "none"
      BY DEF Roles
    <3> QED
      BY ONLY Types, <3>1 DEF Types, Outward
  <2> QED
    BY <2>1, <2>2, <2>3, <2>4, <2>5, <2>6
<1>13. ASSUME NEW c \in Clients, WriterClosed(c) PROVE Types'
  <2> USE <1>1, <1>13 DEF WriterClosed, loopVars, window
  <2>1. Loop'
    BY DEF Loop
  <2>2. Roles'
    BY DEF Roles
  <2>3. Replies'
    BY DEF Replies
  <2>4. Window'
    BY DEF Window
  <2>5. Inward'
    BY DEF Inward
  <2>6. Outward'
    <3>1. /\ UNCHANGED <<thread, held, outq, produced>>
          /\ \A d \in Clients : link'[d] = "none" => link[d] = "none"
      BY DEF Roles
    <3> QED
      BY ONLY Types, <3>1 DEF Types, Outward
  <2> QED
    BY <2>1, <2>2, <2>3, <2>4, <2>5, <2>6
<1>14. ASSUME NEW c \in Clients, StartThread(c) PROVE Types'
  <2> USE <1>1, <1>14 DEF StartThread, loopVars, window
  <2>1. Loop'
    BY DEF Loop
  <2>2. Roles'
    BY DEF Roles
  <2>3. Replies'
    BY DEF Replies
  <2>4. Window'
    BY DEF Window
  <2>5. Inward'
    BY DEF Inward
  <2>6. Outward'
    BY DEF Outward
  <2> QED
    BY <2>1, <2>2, <2>3, <2>4, <2>5, <2>6
<1>15. ASSUME NEW c \in Clients, StopThread(c) PROVE Types'
  <2> USE <1>1, <1>15 DEF StopThread, loopVars, window
  <2>1. Loop'
    BY DEF Loop
  <2>2. Roles'
    BY DEF Roles
  <2>3. Replies'
    BY DEF Replies
  <2>4. Window'
    BY DEF Window
  <2>5. Inward'
    BY DEF Inward
  <2>6. Outward'
    BY DEF Outward
  <2> QED
    BY <2>1, <2>2, <2>3, <2>4, <2>5, <2>6
<1>16. ASSUME NEW c \in Clients, EndThread(c) PROVE Types'
  <2> USE <1>1, <1>16 DEF EndThread, loopVars, window
  <2>1. Loop'
    BY DEF Loop
  <2>2. Roles'
    BY DEF Roles
  <2>3. Replies'
    BY DEF Replies
  <2>4. Window'
    BY DEF Window
  <2>5. Inward'
    <3> USE DEF Inward
    <3>1. DOMAIN sent' = Clients /\ DOMAIN sock' = Clients /\ DOMAIN inq' = Clients
      OBVIOUS
    <3>2. sent'[c] \in 0..MaxFrames[c]
      BY DEF Roles
    <3>3. sock'[c] \in Seq(Frame(c) \cup {Bad})
      BY DEF Roles
    <3>4. inq'[c] \in Seq(Frame(c) \cup {Stop})
      BY DEF Roles
    <3>9. \A d \in Clients : d # c => sent'[d] = sent[d] /\ sock'[d] = sock[d] /\ inq'[d] = inq[d]
      BY DEF Roles
    <3> QED
      BY ONLY Types, <3>1, <3>2, <3>3, <3>4, <3>9 DEF Types, Inward
  <2>6. Outward'
    <3> USE DEF Outward
    <3>1. thread' \in [Clients -> {"none", "queued", "idle", "working", "exited"}]
          /\ DOMAIN held' = Clients /\ DOMAIN outq' = Clients /\ DOMAIN produced' = Clients
      OBVIOUS
    <3>2. held'[c] \in Frame(c) \cup {Stop}
      BY DEF Roles
    <3>3. (held'[c] = Stop <=> thread'[c] # "working")
      BY DEF Roles
    <3>4. outq'[c] \in Seq(Frame(c) \cup {Stop})
      <4>1. outq[c] \in Seq(Frame(c) \cup {Stop}) /\ outq'[c] = Append(outq[c], Stop)
        OBVIOUS
      <4> QED
        BY ONLY <4>1, AppendIn
    <3>5. produced'[c] \subseteq Frame(c)
      BY DEF Roles
    <3>6. (link'[c] = "none" => thread'[c] = "none")
      BY DEF Roles
    <3>9. \A d \in Clients : d # c => thread'[d] = thread[d] /\ held'[d] = held[d] /\ outq'[d] = outq[d] /\ produced'[d] = produced[d] /\ link'[d] = link[d]
      BY DEF Roles
    <3> QED
      BY ONLY Types, <3>1, <3>2, <3>3, <3>4, <3>5, <3>6, <3>9 DEF Types, Outward
  <2> QED
    BY <2>1, <2>2, <2>3, <2>4, <2>5, <2>6
<1>17. ASSUME NEW c \in Clients, TakeFrame(c) PROVE Types'
  <2> USE <1>1, <1>17 DEF TakeFrame, loopVars, window
  <2>1. Loop'
    BY DEF Loop
  <2>2. Roles'
    BY DEF Roles
  <2>3. Replies'
    BY DEF Replies
  <2>4. Window'
    <3>1. Row(c, held'[c]) \in Rows
      <4>1. held'[c] \in Frame(c)
        <5>1. inq[c] \in Seq(Frame(c) \cup {Stop}) /\ inq[c] # <<>> /\ ~Contains(inq[c], Stop) /\ held'[c] = Last(inq[c])
          BY DEF Inward, Outward
        <5>2. Last(inq[c]) \in ToSet(inq[c]) /\ Last(inq[c]) \in Frame(c) \cup {Stop}
          BY <5>1, LastIn
        <5> QED
          BY <5>1, <5>2 DEF Contains, ToSet
      <4> QED
        BY <4>1 DEF Rows
    <3>2. PushFrame(Row(c, held'[c]))
      OBVIOUS
    <3> QED
      BY ONLY Types, <1>1, <3>1, <3>2, PushTypes DEF Types
  <2>5. Inward'
    <3> USE DEF Inward
    <3>1. DOMAIN sent' = Clients /\ DOMAIN sock' = Clients /\ DOMAIN inq' = Clients
      OBVIOUS
    <3>2. sent'[c] \in 0..MaxFrames[c]
      BY DEF Roles
    <3>3. sock'[c] \in Seq(Frame(c) \cup {Bad})
      BY DEF Roles
    <3>4. inq'[c] \in Seq(Frame(c) \cup {Stop})
      BY DEF Roles
    <3>9. \A d \in Clients : d # c => sent'[d] = sent[d] /\ sock'[d] = sock[d] /\ inq'[d] = inq[d]
      BY DEF Roles
    <3> QED
      BY ONLY Types, <3>1, <3>2, <3>3, <3>4, <3>9 DEF Types, Inward
  <2>6. Outward'
    <3> USE DEF Outward
    <3>1. thread' \in [Clients -> {"none", "queued", "idle", "working", "exited"}]
          /\ DOMAIN held' = Clients /\ DOMAIN outq' = Clients /\ DOMAIN produced' = Clients
      OBVIOUS
    <3>2. held'[c] \in Frame(c) \cup {Stop}
      <4>1. inq[c] \in Seq(Frame(c) \cup {Stop}) /\ inq[c] # <<>> /\ ~Contains(inq[c], Stop) /\ held'[c] = Last(inq[c])
        BY ONLY <1>17, Types DEF Types, Inward, Outward, TakeFrame
      <4>2. Last(inq[c]) \in ToSet(inq[c]) /\ Last(inq[c]) \in Frame(c) \cup {Stop}
        BY <4>1, LastIn
      <4>3. Last(inq[c]) # Stop
        BY <4>1, <4>2 DEF Contains, ToSet
      <4> QED
        BY <4>1, <4>2, <4>3
    <3>3. (held'[c] = Stop <=> thread'[c] # "working")
      <4>1. inq[c] \in Seq(Frame(c) \cup {Stop}) /\ inq[c] # <<>> /\ ~Contains(inq[c], Stop) /\ held'[c] = Last(inq[c])
        BY ONLY <1>17, Types DEF Types, Inward, Outward, TakeFrame
      <4>2. Last(inq[c]) \in ToSet(inq[c]) /\ Last(inq[c]) \in Frame(c) \cup {Stop}
        BY <4>1, LastIn
      <4>3. Last(inq[c]) # Stop
        BY <4>1, <4>2 DEF Contains, ToSet
      <4> QED
        BY <4>1, <4>2, <4>3
    <3>4. outq'[c] \in Seq(Frame(c) \cup {Stop})
      BY DEF Roles
    <3>5. produced'[c] \subseteq Frame(c)
      BY DEF Roles
    <3>6. (link'[c] = "none" => thread'[c] = "none")
      BY DEF Roles
    <3>9. \A d \in Clients : d # c => thread'[d] = thread[d] /\ held'[d] = held[d] /\ outq'[d] = outq[d] /\ produced'[d] = produced[d] /\ link'[d] = link[d]
      BY DEF Roles
    <3> QED
      BY ONLY Types, <3>1, <3>2, <3>3, <3>4, <3>5, <3>6, <3>9 DEF Types, Outward
  <2> QED
    BY <2>1, <2>2, <2>3, <2>4, <2>5, <2>6
<1>18. ASSUME NEW c \in Clients, Answer(c) PROVE Types'
  <2> USE <1>1, <1>18 DEF Answer, loopVars, window
  <2>1. Loop'
    BY DEF Loop
  <2>2. Roles'
    BY DEF Roles
  <2>3. Replies'
    BY DEF Replies
  <2>4. Window'
    <3>1. Row(c, held[c]) \in Rows
      <4>1. held[c] \in Frame(c)
        BY ONLY <1>18, Types DEF Types, Outward, Answer
      <4> QED
        BY <4>1 DEF Rows
    <3>2. frames' = frames /\ actions' = [actions EXCEPT ![Len(frames)] = Row(c, held[c])]
      OBVIOUS
    <3> QED
      <4>1. actions' \in Seq(Rows \cup {NoAction}) /\ Len(actions') = Len(actions)
        <5>1. /\ frames \in Seq(Rows) /\ actions \in Seq(Rows \cup {NoAction}) /\ Len(frames) = Len(actions)
              /\ Len(actions) \in Nat /\ DOMAIN actions = 1 .. Len(actions)
          BY ONLY Types DEF Types, Window
        <5>2. CASE Len(frames) = 0
          <6>1. ~(Len(frames) \in DOMAIN actions)
            BY ONLY <5>1, <5>2
          <6>2. actions' = actions
            <7>1. actions = [i \in DOMAIN actions |-> actions[i]]
              BY <5>1
            <7>2. actions' = [i \in DOMAIN actions |-> actions[i]]
              BY ONLY <3>2, <6>1
            <7> QED
              BY ONLY <7>1, <7>2
          <6> QED
            BY <5>1, <6>2
        <5>3. CASE Len(frames) # 0
          <6>1. Len(frames) \in 1 .. Len(actions) /\ Row(c, held[c]) \in Rows \cup {NoAction}
            BY ONLY <3>1, <5>1, <5>3
          <6> QED
            BY ONLY <3>2, <5>1, <6>1, ExceptSeq
        <5> QED
          BY <5>2, <5>3
      <4>2. UNCHANGED <<frames, misaligned>>
        OBVIOUS
      <4> QED
        BY ONLY Types, <4>1, <4>2 DEF Types, Window
  <2>5. Inward'
    BY DEF Inward
  <2>6. Outward'
    <3> USE DEF Outward
    <3>1. thread' \in [Clients -> {"none", "queued", "idle", "working", "exited"}]
          /\ DOMAIN held' = Clients /\ DOMAIN outq' = Clients /\ DOMAIN produced' = Clients
      OBVIOUS
    <3>2. held'[c] \in Frame(c) \cup {Stop}
      BY DEF Roles
    <3>3. (held'[c] = Stop <=> thread'[c] # "working")
      BY DEF Roles
    <3>4. outq'[c] \in Seq(Frame(c) \cup {Stop})
      <4>1. outq[c] \in Seq(Frame(c) \cup {Stop}) /\ outq'[c] = Append(outq[c], held[c])
            /\ held[c] \in Frame(c)
        OBVIOUS
      <4> QED
        BY ONLY <4>1, AppendIn
    <3>5. produced'[c] \subseteq Frame(c)
      BY DEF Roles
    <3>6. (link'[c] = "none" => thread'[c] = "none")
      BY DEF Roles
    <3>9. \A d \in Clients : d # c => thread'[d] = thread[d] /\ held'[d] = held[d] /\ outq'[d] = outq[d] /\ produced'[d] = produced[d] /\ link'[d] = link[d]
      BY DEF Roles
    <3> QED
      BY ONLY Types, <3>1, <3>2, <3>3, <3>4, <3>5, <3>6, <3>9 DEF Types, Outward
  <2> QED
    BY <2>1, <2>2, <2>3, <2>4, <2>5, <2>6
<1>22. ASSUME NEW c \in Clients, RaisePushing(c) PROVE Types'
  <2>1. PushFails /\ UNCHANGED <<running, shut, spinning>>
        /\ UNCHANGED <<link, sent, sock, reader, thread, held, outq, handler, gen, produced, unread, active>>
    BY <1>22 DEF RaisePushing, loopVars
  <2>2. Window'
    BY <1>1, <2>1, FailedPush
  <2>3. inq' = [inq EXCEPT ![c] = <<>>]
    BY <1>22 DEF RaisePushing
  <2>4. Inward'
    <3>1. /\ DOMAIN inq' = Clients /\ \A d \in Clients : d # c => inq'[d] = inq[d]
          /\ inq'[c] = <<>> /\ <<>> \in Seq(Frame(c) \cup {Stop})
      BY <2>3, EmptyIn DEF Inward
    <3> QED
      BY <2>1, <3>1 DEF Inward
  <2> QED
    BY <2>1, <2>2, <2>4 DEF Loop, Roles, Replies, Outward
<1>19. ASSUME NEW c \in Clients, Raise(c) PROVE Types'
  <2> USE <1>1, <1>19 DEF Raise, loopVars, window
  <2>1. Loop'
    BY DEF Loop
  <2>2. Roles'
    BY DEF Roles
  <2>3. Replies'
    BY DEF Replies
  <2>4. Window'
    BY DEF Window
  <2>5. Inward'
    BY DEF Inward
  <2>6. Outward'
    BY DEF Outward
  <2> QED
    BY <2>1, <2>2, <2>3, <2>4, <2>5, <2>6
<1>20. ASSUME StdinEnds \/ Signal \/ BeginShutdown \/ ClearConnections \/ Exit PROVE Types'
  BY <1>1, <1>20 DEF StdinEnds, Signal, BeginShutdown, ClearConnections, Exit, connVars, window,
     Loop, Roles, Replies, Window, Inward, Outward
<1>21. ASSUME UNCHANGED vars PROVE Types'
  BY <1>21 DEF vars, Loop, Roles, Replies, Window, Inward, Outward
<1> HIDE DEF Types
<1> QED
  BY <1>2, <1>3, <1>4, <1>5, <1>6, <1>7, <1>8, <1>9, <1>10, <1>11, <1>12, <1>13, <1>14, <1>15, <1>16, <1>17, <1>18, <1>19, <1>20, <1>21, <1>22 DEF Next, Serve, Compute, Shutdown, Done
-----------------------------------------------------------------------------
(* The order on the way, and the removal of connections *)

Way(c) == WayOK(Frame(c), sent[c], sock[c], inq[c], held[c], outq[c], produced[c])
Ways == \A c \in Clients : Way(c)

LEMMA FramesAreNumbers == \A c \in Clients : Frame(c) \in SUBSET (Nat \ {0})
BY ConstantsAssumption DEF Frame

LEMMA WaysInit == Init => Ways
<1> SUFFICES ASSUME Init, NEW c \in Clients PROVE Way(c)
  BY DEF Ways
<1>1. Frame(c) \in SUBSET (Nat \ {0})
  BY FramesAreNumbers
<1>2. sent[c] = 0 /\ sock[c] = <<>> /\ inq[c] = <<>> /\ held[c] = Stop /\ outq[c] = <<>> /\ produced[c] = {}
  BY DEF Init
<1>3. /\ <<>> \in Seq(Frame(c) \cup {Bad}) /\ <<>> \in Seq(Frame(c) \cup {Stop})
      /\ ToSet(<<>>) = {} /\ Increasing(Frame(c), <<>>)
  BY EmptyIn
<1>4. {Stop} \cap Frame(c) = {}
  BY <1>1 DEF Stop
<1> QED
  BY <1>2, <1>3, <1>4 DEF Way, WayOK, Before

LEMMA WaysStep ==
  ASSUME Types, Ways, [Next]_vars
  PROVE  Ways'
<1>1. \A c \in Clients : Frame(c) \in SUBSET (Nat \ {0})
  BY FramesAreNumbers
<1>2. \A c \in Clients : Way(c)
  BY DEF Ways
<1>3. ASSUME UNCHANGED <<sent, sock, inq, held, outq, produced>> PROVE Ways'
  BY <1>2, <1>3 DEF Ways, Way
<1>4. /\ DOMAIN sent = Clients /\ DOMAIN sock = Clients /\ DOMAIN inq = Clients
      /\ DOMAIN held = Clients /\ DOMAIN outq = Clients /\ DOMAIN produced = Clients
  BY DEF Types, Inward, Outward
<1>5. ASSUME NEW c \in Clients, SendFrame(c) PROVE Ways'
  <2>1. sent[c] \in 0 .. MaxFrames[c] /\ sent[c] < MaxFrames[c] /\ MaxFrames[c] \in Nat
    BY <1>5, ConstantsAssumption DEF SendFrame, Types, Inward
  <2>2. sent[c] + 1 \in Frame(c)
    BY <2>1 DEF Frame
  <2>3. PICK f \in {sent[c] + 1, Bad} :
          sent' = [sent EXCEPT ![c] = sent[c] + 1] /\ sock' = [sock EXCEPT ![c] = Append(sock[c], f)]
    BY <1>5, <1>4 DEF SendFrame
  <2>4. WayOK(Frame(c), sent[c] + 1, Append(sock[c], f), inq[c], held[c], outq[c], produced[c])
    BY <1>1, <1>2, <2>2, WaySends DEF Way
  <2>5. UNCHANGED <<inq, held, outq, produced>>
    BY <1>5 DEF SendFrame
  <2> QED
    BY ONLY <1>2, <1>4, <2>3, <2>4, <2>5 DEF Ways, Way
<1>6. ASSUME NEW c \in Clients, ReadFrame(c) PROVE Ways'
  <2>1. /\ WayOK(Frame(c), sent[c], Tail(sock[c]), inq[c], held[c], outq[c], produced[c])
        /\ Head(sock[c]) # Bad =>
             WayOK(Frame(c), sent[c], Tail(sock[c]), Append(inq[c], Head(sock[c])), held[c], outq[c], produced[c])
    BY <1>1, <1>2, <1>6, WayReads DEF Way, ReadFrame
  <2>2. /\ sock' = [sock EXCEPT ![c] = Tail(sock[c])] /\ UNCHANGED <<sent, held, outq, produced>>
        /\ \/ Head(sock[c]) # Bad /\ inq' = [inq EXCEPT ![c] = Append(inq[c], Head(sock[c]))]
           \/ inq' = inq
    BY <1>6 DEF ReadFrame
  <2> QED
    BY ONLY <1>2, <1>4, <2>1, <2>2 DEF Ways, Way
<1>7. ASSUME NEW c \in Clients, LeaveLoop(c) PROVE Ways'
  <2>1. WayOK(Frame(c), sent[c], sock[c], Append(inq[c], Stop), held[c], outq[c], produced[c])
    BY <1>1, <1>2, WayStops DEF Way
  <2>2. inq' = [inq EXCEPT ![c] = Append(inq[c], Stop)]
        /\ UNCHANGED <<sent, sock, held, outq, produced>>
    BY <1>7 DEF LeaveLoop, CloseGenerator
  <2> QED
    BY ONLY <1>2, <1>4, <2>1, <2>2 DEF Ways, Way
<1>8. ASSUME NEW c \in Clients, CloseDropped(c) PROVE Ways'
  <2>1. WayOK(Frame(c), sent[c], sock[c], Append(inq[c], Stop), held[c], outq[c], produced[c])
    BY <1>1, <1>2, WayStops DEF Way
  <2>2. inq' = [inq EXCEPT ![c] = Append(inq[c], Stop)]
        /\ UNCHANGED <<sent, sock, held, outq, produced>>
    BY <1>8 DEF CloseDropped, CloseGenerator
  <2> QED
    BY ONLY <1>2, <1>4, <2>1, <2>2 DEF Ways, Way
<1>9. ASSUME NEW c \in Clients, TakeAnswer(c) PROVE Ways'
  <2>1. WayOK(Frame(c), sent[c], sock[c], inq[c], held[c], Tail(outq[c]), produced[c])
    BY <1>1, <1>2, <1>9, WayLeaves DEF Way, TakeAnswer
  <2>2. outq' = [outq EXCEPT ![c] = Tail(outq[c])]
        /\ UNCHANGED <<sent, sock, inq, held, produced>>
    BY <1>9 DEF TakeAnswer
  <2> QED
    BY ONLY <1>2, <1>4, <2>1, <2>2 DEF Ways, Way
<1>10. ASSUME NEW c \in Clients, EndThread(c) PROVE Ways'
  <2>1. WayOK(Frame(c), sent[c], sock[c], <<>>, held[c], Append(outq[c], Stop), produced[c])
    BY <1>1, <1>2, WayEnds DEF Way
  <2>2. inq' = [inq EXCEPT ![c] = <<>>] /\ outq' = [outq EXCEPT ![c] = Append(outq[c], Stop)]
        /\ UNCHANGED <<sent, sock, held, produced>>
    BY <1>10 DEF EndThread
  <2> QED
    BY ONLY <1>2, <1>4, <2>1, <2>2 DEF Ways, Way
<1>11. ASSUME NEW c \in Clients, TakeFrame(c) PROVE Ways'
  <2>1. WayOK(Frame(c), sent[c], sock[c], <<>>, Last(inq[c]), outq[c], produced[c])
    BY <1>1, <1>2, <1>11, WayTakes DEF Way, TakeFrame
  <2>2. inq' = [inq EXCEPT ![c] = <<>>] /\ held' = [held EXCEPT ![c] = Last(inq[c])]
        /\ UNCHANGED <<sent, sock, outq, produced>>
    BY <1>11 DEF TakeFrame
  <2> QED
    BY ONLY <1>2, <1>4, <2>1, <2>2 DEF Ways, Way
<1>12. ASSUME NEW c \in Clients, Answer(c) PROVE Ways'
  <2>1. held[c] # Stop
    BY <1>12 DEF Answer, Types, Outward
  <2>2. WayOK(Frame(c), sent[c], sock[c], inq[c], Stop, Append(outq[c], held[c]), produced[c] \cup {held[c]})
    BY <1>1, <1>2, <2>1, WayAnswers DEF Way
  <2>3. held' = [held EXCEPT ![c] = Stop] /\ outq' = [outq EXCEPT ![c] = Append(outq[c], held[c])] /\ produced' = [produced EXCEPT ![c] = produced[c] \cup {held[c]}]
        /\ UNCHANGED <<sent, sock, inq>>
    BY <1>12 DEF Answer
  <2> QED
    BY ONLY <1>2, <1>4, <2>2, <2>3 DEF Ways, Way
<1>13. ASSUME NEW c \in Clients, Raise(c) PROVE Ways'
  <2>1. WayOK(Frame(c), sent[c], sock[c], inq[c], Stop, outq[c], produced[c])
    BY <1>1, <1>2, WayRaises DEF Way
  <2>2. held' = [held EXCEPT ![c] = Stop]
        /\ UNCHANGED <<sent, sock, inq, outq, produced>>
    BY <1>13 DEF Raise
  <2> QED
    BY ONLY <1>2, <1>4, <2>1, <2>2 DEF Ways, Way
<1>16. ASSUME NEW c \in Clients, RaisePushing(c) PROVE Ways'
  <2>1. WayOK(Frame(c), sent[c], sock[c], <<>>, held[c], outq[c], produced[c])
    BY <1>1, <1>2, WaySkips DEF Way
  <2>2. inq' = [inq EXCEPT ![c] = <<>>]
        /\ UNCHANGED <<sent, sock, held, outq, produced>>
    BY <1>16 DEF RaisePushing
  <2> QED
    BY ONLY <1>2, <1>4, <2>1, <2>2 DEF Ways, Way
<1>14. ASSUME NEW c \in Clients, Connect(c) \/ ReadReply(c) \/ Leave(c) \/ ReadEnd(c) \/ Drained(c)
           \/ CloseWriter(c) \/ WriterClosed(c) \/ StartThread(c) \/ StopThread(c)
     PROVE  Ways'
  BY <1>3, <1>14 DEF Connect, ReadReply, Leave, ReadEnd, Drained, CloseWriter, WriterClosed, StartThread, StopThread
<1>15. ASSUME StdinEnds \/ Signal \/ BeginShutdown \/ ClearConnections \/ Exit \/ UNCHANGED vars PROVE Ways'
  BY <1>3, <1>15 DEF StdinEnds, Signal, BeginShutdown, ClearConnections, Exit, connVars, vars
<1> QED
  BY ONLY [Next]_vars, <1>5, <1>6, <1>7, <1>8, <1>9, <1>10, <1>11, <1>12, <1>13, <1>14, <1>15, <1>16
     DEF Next, Serve, Compute, Shutdown, Done

\* The removal of the writer: a connection is forgotten while its handler still has it only
\* once its pipe is broken, since ClearConnections waits for the transports.
Handled(c) ==
  /\ handler[c] \in {"poll", "drain", "close"} /\ c \notin active => link[c] = "lost"
  /\ link[c] = "closed" => handler[c] = "done"
  /\ link[c] = "none" => handler[c] = "none"
  /\ handler[c] = "failed" => link[c] = "lost"

Removals == \A c \in Clients : Handled(c)

LEMMA RemovalsStep ==
  ASSUME Types, Removals, [Next]_vars
  PROVE  Removals'
<1> USE DEF Removals, Handled
<1>1. Roles
  BY DEF Types
<1>2. ASSUME NEW c \in Clients, Connect(c) PROVE Removals'
  BY <1>1, <1>2 DEF Connect, Roles
<1>3. ASSUME NEW c \in Clients, Leave(c) PROVE Removals'
  BY <1>1, <1>3 DEF Leave, Roles
<1>4. ASSUME NEW c \in Clients, LeaveLoop(c) PROVE Removals'
  BY <1>1, <1>4 DEF LeaveLoop, Roles
<1>5. ASSUME NEW c \in Clients, TakeAnswer(c) PROVE Removals'
  BY <1>1, <1>5 DEF TakeAnswer, Roles
<1>6. ASSUME NEW c \in Clients, Drained(c) PROVE Removals'
  BY <1>1, <1>6 DEF Drained, Roles
<1>7. ASSUME NEW c \in Clients, CloseWriter(c) PROVE Removals'
  BY <1>1, <1>7 DEF CloseWriter, Roles
<1>8. ASSUME NEW c \in Clients, WriterClosed(c) PROVE Removals'
  BY <1>1, <1>8 DEF WriterClosed, Roles
<1>9. ASSUME NEW c \in Clients, SendFrame(c) \/ ReadReply(c) \/ ReadFrame(c) \/ ReadEnd(c) \/ CloseDropped(c) \/ StartThread(c)
           \/ StopThread(c) \/ EndThread(c) \/ TakeFrame(c) \/ RaisePushing(c) \/ Answer(c) \/ Raise(c)
     PROVE  Removals'
  BY <1>9 DEF SendFrame, ReadReply, ReadFrame, ReadEnd, CloseDropped, StartThread, StopThread, EndThread, TakeFrame, RaisePushing, Answer, Raise
<1>10. ASSUME ClearConnections PROVE Removals'
  BY <1>1, <1>10 DEF ClearConnections, ConnectionsGone, connVars, Roles
<1>11. ASSUME StdinEnds \/ Signal \/ BeginShutdown \/ Exit \/ UNCHANGED vars PROVE Removals'
  BY <1>11 DEF StdinEnds, Signal, BeginShutdown, Exit, connVars, vars
<1> QED
  BY ONLY [Next]_vars, <1>2, <1>3, <1>4, <1>5, <1>6, <1>7, <1>8, <1>9, <1>10, <1>11
     DEF Next, Serve, Compute, Shutdown, Done
-----------------------------------------------------------------------------
(* The rows of the shared window *)

\* No two threads can be at the window at once.
Alone == Workers = 1 \/ \E c \in Clients : Clients = {c}

OneBusy == IsFiniteSet(Busy) /\ (Alone => \A c, d \in Busy : c = d)

\* The frames of a client that have a row of the window.
Taken(c) == {g \in Frame(c) : Row(c, g) \in ToSet(frames)}

\* No frame has two rows: what has one is older than what still waits or is still to be sent.
Pushed ==
  /\ \A i, j \in DOMAIN frames : frames[i] = frames[j] => i = j
  /\ \A c \in Clients : /\ Before(Taken(c), ToSet(inq[c]) \cap Frame(c))
                        /\ Before(Taken(c), ToSet(sock[c]) \cap Frame(c))
                        /\ \A g \in Taken(c) : g <= sent[c]

\* The last row is that of the frame being worked on.
LastIsHeld ==
  Alone => \A c \in Clients :
             thread[c] = "working" => frames # <<>> /\ frames[Len(frames)] = Row(c, held[c])

LEMMA BusyStep ==
  ASSUME Types, OneBusy, [Next]_vars
  PROVE  OneBusy'
<1>1. Outward
  BY DEF Types
<1>2. ASSUME Busy' \subseteq Busy PROVE OneBusy'
  <2>1. IsFiniteSet(Busy')
    BY <1>2, FS_Subset DEF OneBusy
  <2> QED
    BY <1>2, <2>1 DEF OneBusy
<1>3. ASSUME NEW c \in Clients, StartThread(c) PROVE OneBusy'
  <2>1. Busy' = Busy \cup {c} /\ Cardinality(Busy) < Workers
    BY <1>1, <1>3 DEF StartThread, Busy, Outward
  <2>2. IsFiniteSet(Busy')
    BY <2>1, FS_AddElement DEF OneBusy
  <2>3. ASSUME Workers = 1 PROVE Busy = {}
    <3>1. IsFiniteSet(Busy) /\ Cardinality(Busy) \in Nat
      BY FS_CardinalityType DEF OneBusy
    <3>2. Cardinality(Busy) = 0
      BY <2>1, <2>3, <3>1
    <3> QED
      BY <3>1, <3>2, FS_EmptySet
  <2>4. ASSUME NEW x \in Clients, Clients = {x} PROVE \A a, b \in Busy' : a = b
    BY <2>4 DEF Busy
  <2>5. Alone => \A a, b \in Busy' : a = b
    BY <2>1, <2>3, <2>4 DEF Alone
  <2> QED
    BY <2>2, <2>5 DEF OneBusy
<1>4. ASSUME NEW c \in Clients, StopThread(c) \/ EndThread(c) \/ TakeFrame(c) \/ RaisePushing(c) \/ Answer(c) \/ Raise(c)
      PROVE  OneBusy'
  BY <1>1, <1>2, <1>4 DEF StopThread, EndThread, TakeFrame, RaisePushing, Answer, Raise, Busy, Outward
<1>5. ASSUME NEW c \in Clients, Connect(c) \/ LeaveLoop(c) \/ CloseDropped(c) PROVE OneBusy'
  BY <1>1, <1>2, <1>5 DEF Connect, LeaveLoop, CloseDropped, CloseGenerator, Busy, Outward
<1>6. ASSUME NEW c \in Clients, SendFrame(c) \/ ReadReply(c) \/ Leave(c) \/ ReadFrame(c) \/ ReadEnd(c)
             \/ TakeAnswer(c) \/ Drained(c) \/ CloseWriter(c) \/ WriterClosed(c)
      PROVE  OneBusy'
  <2>1. UNCHANGED thread
    BY <1>6 DEF SendFrame, ReadReply, Leave, ReadFrame, ReadEnd, TakeAnswer, Drained, CloseWriter, WriterClosed
  <2> QED
    BY <1>2, <2>1 DEF Busy
<1>7. ASSUME StdinEnds \/ Signal \/ BeginShutdown \/ ClearConnections \/ Exit \/ UNCHANGED vars PROVE OneBusy'
  <2>1. UNCHANGED thread
    BY <1>7 DEF StdinEnds, Signal, BeginShutdown, ClearConnections, Exit, connVars, vars
  <2> QED
    BY <1>2, <2>1 DEF Busy
<1> QED
  BY ONLY [Next]_vars, <1>3, <1>4, <1>5, <1>6, <1>7 DEF Next, Serve, Compute, Shutdown, Done

\* PushFrame: both arrays move by the same number of rows, none or one, and r is the last row.
LEMMA PushRows ==
  ASSUME Window, T \in Nat \ {0}, NEW r \in Rows, PushFrame(r)
  PROVE  \E k \in {0, 1} :
           /\ Len(frames) - k \in Nat /\ Len(frames') = Len(frames) - k + 1
           /\ frames'[Len(frames')] = r
           /\ \A i \in 1 .. Len(frames) - k : frames'[i] = frames[i + k] /\ actions'[i] = actions[i + k]
<1>1. /\ frames \in Seq(Rows) /\ actions \in Seq(Rows \cup {NoAction})
      /\ Len(frames) = Len(actions) /\ Len(frames) \in Nat
  BY DEF Window
<1>2. CASE Len(frames) < T
  <2>1. frames' = Append(frames, r) /\ actions' = Append(actions, NoAction)
    BY <1>2 DEF PushFrame
  <2>2. /\ Len(frames) - 0 \in Nat /\ Len(frames') = Len(frames) - 0 + 1 /\ frames'[Len(frames')] = r
        /\ \A i \in 1 .. Len(frames) - 0 : frames'[i] = frames[i + 0] /\ actions'[i] = actions[i + 0]
    BY <1>1, <2>1
  <2> QED
    BY <2>2
<1>3. CASE ~(Len(frames) < T)
  <2>1. frames' = Append(Tail(frames), r) /\ actions' = Append(Tail(actions), Head(actions))
    BY <1>3 DEF PushFrame, Rolled
  <2>2. frames # <<>> /\ actions # <<>> /\ Len(frames) > 0
    BY <1>1, <1>3
  <2> DEFINE tf == Tail(frames)
             ta == Tail(actions)
  <2>3. /\ tf \in Seq(Rows) /\ ta \in Seq(Rows \cup {NoAction}) /\ Len(tf) = Len(frames) - 1 /\ Len(ta) = Len(frames) - 1
        /\ \A i \in 1 .. Len(frames) - 1 : tf[i] = frames[i + 1] /\ ta[i] = actions[i + 1]
        /\ Head(actions) \in Rows \cup {NoAction}
    BY <1>1, <2>2, HeadTailProperties
  <2> HIDE DEF tf, ta
  <2>4. /\ Len(frames) - 1 \in Nat /\ Len(frames') = Len(frames) - 1 + 1 /\ frames'[Len(frames')] = r
        /\ \A i \in 1 .. Len(frames) - 1 : frames'[i] = tf[i] /\ actions'[i] = ta[i]
    BY <1>1, <2>1, <2>2, <2>3 DEF tf, ta
  <2> QED
    BY <2>3, <2>4
<1> QED
  BY <1>2, <1>3

\* What TakeFrame pushes: the newest frame waiting, which has no row yet and no answer.
LEMMA TakenIsNew ==
  ASSUME Types, Ways, Pushed, NEW c \in Clients, TakeFrame(c)
  PROVE  /\ held'[c] = Last(inq[c]) /\ held'[c] \in Frame(c) /\ held'[c] \in ToSet(inq[c])
         /\ Row(c, held'[c]) \in Rows /\ Row(c, held'[c]) \notin ToSet(frames)
         /\ held'[c] \notin produced[c]
<1>1. inq[c] \in Seq(Frame(c) \cup {Stop}) /\ inq[c] # <<>> /\ ~Contains(inq[c], Stop) /\ held'[c] = Last(inq[c])
  BY DEF TakeFrame, Types, Inward, Outward
<1>2. Last(inq[c]) \in ToSet(inq[c]) /\ Last(inq[c]) \in Frame(c) \cup {Stop}
  BY <1>1, LastIn
<1>3. Last(inq[c]) # Stop
  BY <1>1, <1>2 DEF Contains, ToSet
<1>4. held'[c] \in ToSet(inq[c]) \cap Frame(c)
  BY <1>1, <1>2, <1>3
<1>5. Frame(c) \in SUBSET (Nat \ {0})
  BY FramesAreNumbers
<1>6. Row(c, held'[c]) \in Rows
  BY <1>4 DEF Rows
<1>7. Row(c, held'[c]) \notin ToSet(frames)
  <2>1. Before(Taken(c), ToSet(inq[c]) \cap Frame(c))
    BY DEF Pushed
  <2>2. held'[c] \notin Taken(c)
    BY <1>4, <1>5, <2>1 DEF Before
  <2> QED
    BY <1>4, <2>2 DEF Taken
<1>8. held'[c] \notin produced[c]
  <2>1. Before(produced[c], ToSet(inq[c]) \cap Frame(c))
    BY DEF Ways, Way, WayOK
  <2>2. ~(held'[c] < held'[c])
    BY <1>4, <1>5
  <2> QED
    BY <1>4, <2>1, <2>2 DEF Before
<1> QED
  BY <1>1, <1>4, <1>6, <1>7, <1>8

LEMMA PushedStep ==
  ASSUME Types, Ways, Pushed, [Next]_vars
  PROVE  Pushed'
<1>1. \A c \in Clients : Frame(c) \in SUBSET (Nat \ {0})
  BY FramesAreNumbers
<1>2. T \in Nat \ {0} /\ Window /\ frames \in Seq(Rows)
  BY ConstantsAssumption DEF Types, Window
<1>3. /\ DOMAIN sent = Clients /\ DOMAIN sock = Clients /\ DOMAIN inq = Clients
      /\ \A c \in Clients : /\ sent[c] \in Nat /\ sock[c] \in Seq(Frame(c) \cup {Bad})
                            /\ inq[c] \in Seq(Frame(c) \cup {Stop})
  <2>1. \A c \in Clients : sent[c] \in 0 .. MaxFrames[c]
    BY DEF Types, Inward
  <2>2. \A c \in Clients : sent[c] \in Nat
    BY <2>1
  <2> QED
    BY <2>2 DEF Types, Inward
<1>4. ASSUME UNCHANGED <<frames, sent>>, 
             \A c \in Clients : ToSet(inq'[c]) \cap Frame(c) \subseteq ToSet(inq[c]) \cap Frame(c),
             \A c \in Clients : ToSet(sock'[c]) \cap Frame(c) \subseteq ToSet(sock[c]) \cap Frame(c)
      PROVE  Pushed'
  <2>1. \A c \in Clients : Taken(c)' = Taken(c)
    BY <1>4 DEF Taken
  <2>2. ASSUME NEW c \in Clients
        PROVE  /\ Before(Taken(c)', ToSet(inq'[c]) \cap Frame(c))
               /\ Before(Taken(c)', ToSet(sock'[c]) \cap Frame(c))
               /\ \A g \in Taken(c)' : g <= sent'[c]
    BY <1>4, <2>1 DEF Pushed, Before
  <2> QED
    BY <1>4, <2>2 DEF Pushed
<1>5. ASSUME NEW c \in Clients, SendFrame(c) PROVE Pushed'
  <2>1. PICK f \in {sent[c] + 1, Bad} :
          sent' = [sent EXCEPT ![c] = sent[c] + 1] /\ sock' = [sock EXCEPT ![c] = Append(sock[c], f)]
    BY <1>3, <1>5 DEF SendFrame
  <2>2. UNCHANGED <<frames, inq>> /\ sent[c] < MaxFrames[c]
    BY <1>5 DEF SendFrame, window
  <2>3. \A d \in Clients : Taken(d)' = Taken(d)
    BY <2>2 DEF Taken
  <2>4. f \in Frame(c) \cup {Bad} /\ (f \in Frame(c) => f = sent[c] + 1)
    <3>1. MaxFrames[c] \in Nat
      BY ConstantsAssumption
    <3> QED
      <4>1. sent[c] \in Nat /\ sent[c] < MaxFrames[c]
        BY <1>3, <2>2
      <4>2. sent[c] + 1 \in Frame(c)
        BY ONLY <3>1, <4>1 DEF Frame
      <4>3. Bad \notin Frame(c)
        BY <1>1 DEF Bad
      <4> QED
        BY <4>2, <4>3
  <2>5. ToSet(sock'[c]) = ToSet(sock[c]) \cup {f}
    <3>1. sock[c] \in Seq(Frame(c) \cup {Bad}) /\ sock'[c] = Append(sock[c], f)
      BY <1>3, <2>1
    <3> QED
      BY <2>4, <3>1, AppendSet
  <2>6. ASSUME NEW g \in Taken(c) PROVE g <= sent'[c] /\ (f \in Frame(c) => g < f)
    <3>1. g \in Nat /\ g <= sent[c] /\ sent[c] \in Nat /\ sent'[c] = sent[c] + 1
      BY <1>1, <1>3, <2>1 DEF Pushed, Taken
    <3> QED
      BY <2>4, <3>1
  <2>7. ASSUME NEW d \in Clients
        PROVE  /\ Before(Taken(d)', ToSet(inq'[d]) \cap Frame(d))
               /\ Before(Taken(d)', ToSet(sock'[d]) \cap Frame(d))
               /\ \A g \in Taken(d)' : g <= sent'[d]
    <3>1. /\ Before(Taken(d), ToSet(inq[d]) \cap Frame(d)) /\ Before(Taken(d), ToSet(sock[d]) \cap Frame(d))
          /\ \A g \in Taken(d) : g <= sent[d]
      BY DEF Pushed
    <3>2. CASE d = c
      BY <2>2, <2>3, <2>5, <2>6, <3>1, <3>2 DEF Before
    <3>3. CASE d # c
      BY <1>3, <2>1, <2>2, <2>3, <3>1, <3>3
    <3> QED
      BY <3>2, <3>3
  <2> QED
    BY <2>2, <2>7 DEF Pushed
<1>6. ASSUME NEW c \in Clients, ReadFrame(c) PROVE Pushed'
  <2> DEFINE x == Head(sock[c])
  <2>1. /\ ToSet(sock[c]) = ToSet(Tail(sock[c])) \cup {x} /\ x \in ToSet(sock[c]) /\ x \in Frame(c) \cup {Bad}
    BY <1>3, <1>6, TailIn DEF ReadFrame
  <2>2. /\ sock' = [sock EXCEPT ![c] = Tail(sock[c])] /\ UNCHANGED <<frames, sent>>
        /\ \/ x # Bad /\ inq' = [inq EXCEPT ![c] = Append(inq[c], x)]
           \/ inq' = inq
    BY <1>6 DEF ReadFrame, window
  <2>3. x # Bad => ToSet(Append(inq[c], x)) = ToSet(inq[c]) \cup {x}
    <3>1. inq[c] \in Seq(Frame(c) \cup {Stop}) /\ (x # Bad => x \in Frame(c) \cup {Stop})
      BY <1>3, <2>1
    <3> HIDE DEF x
    <3> QED
      BY <3>1, AppendSet
  <2> HIDE DEF x
  <2>4. \A d \in Clients : Taken(d)' = Taken(d)
    BY <2>2 DEF Taken
  <2>5. ASSUME NEW d \in Clients
        PROVE  /\ Before(Taken(d)', ToSet(inq'[d]) \cap Frame(d))
               /\ Before(Taken(d)', ToSet(sock'[d]) \cap Frame(d))
               /\ \A g \in Taken(d)' : g <= sent'[d]
    <3>1. /\ Before(Taken(d), ToSet(inq[d]) \cap Frame(d)) /\ Before(Taken(d), ToSet(sock[d]) \cap Frame(d))
          /\ \A g \in Taken(d) : g <= sent[d]
      BY DEF Pushed
    <3>2. CASE d = c
      <4>1. ToSet(inq'[c]) \subseteq ToSet(inq[c]) \cup ToSet(sock[c]) /\ ToSet(sock'[c]) \subseteq ToSet(sock[c])
        BY <1>3, <2>1, <2>2, <2>3
      <4> QED
        BY <2>2, <2>4, <3>1, <3>2, <4>1 DEF Before
    <3>3. CASE d # c
      BY <1>3, <2>2, <2>4, <3>1, <3>3
    <3> QED
      BY <3>2, <3>3
  <2> QED
    BY <2>2, <2>5 DEF Pushed
<1>7. ASSUME NEW c \in Clients, LeaveLoop(c) \/ CloseDropped(c) PROVE Pushed'
  <2>1. ToSet(Append(inq[c], Stop)) = ToSet(inq[c]) \cup {Stop}
    <3>1. inq[c] \in Seq(Frame(c) \cup {Stop}) /\ Stop \in Frame(c) \cup {Stop}
      BY <1>3
    <3> QED
      BY <3>1, AppendSet
  <2>2. inq' = [inq EXCEPT ![c] = Append(inq[c], Stop)] /\ UNCHANGED <<frames, sent, sock>>
    BY <1>7 DEF LeaveLoop, CloseDropped, CloseGenerator, window
  <2>3. \A d \in Clients : Stop \notin Frame(d)
    BY <1>1 DEF Stop
  <2>4. \A d \in Clients : ToSet(inq'[d]) \cap Frame(d) \subseteq ToSet(inq[d]) \cap Frame(d)
    BY <1>3, <2>1, <2>2, <2>3
  <2> QED
    BY <1>4, <2>2, <2>4
<1>8. ASSUME NEW c \in Clients, EndThread(c) PROVE Pushed'
  <2>1. inq' = [inq EXCEPT ![c] = <<>>] /\ UNCHANGED <<frames, sent, sock>> /\ ToSet(<<>>) = {}
    BY <1>8, EmptyIn DEF EndThread, window
  <2>2. \A d \in Clients : ToSet(inq'[d]) \cap Frame(d) \subseteq ToSet(inq[d]) \cap Frame(d)
    BY <1>3, <2>1
  <2> QED
    BY <1>4, <2>1, <2>2
<1>9. ASSUME NEW c \in Clients, TakeFrame(c) PROVE Pushed'
  <2> DEFINE h == held'[c]
             r == Row(c, h)
             n == Len(frames)
  <2>1. /\ h \in Frame(c) /\ h \in ToSet(inq[c]) /\ r \in Rows /\ r \notin ToSet(frames)
    BY <1>9, TakenIsNew
  <2>2. PushFrame(r)
    BY <1>9 DEF TakeFrame
  <2>3. inq' = [inq EXCEPT ![c] = <<>>] /\ UNCHANGED <<sent, sock>> /\ ToSet(<<>>) = {}
    BY <1>9, EmptyIn DEF TakeFrame
  <2>4. Window'
    BY <1>2, <2>1, <2>2, PushTypes
  <2> HIDE DEF h, r, n
  <2>5. PICK k \in {0, 1} :
           /\ n - k \in Nat /\ Len(frames') = n - k + 1 /\ frames'[Len(frames')] = r
           /\ \A i \in 1 .. n - k : frames'[i] = frames[i + k]
    BY <1>2, <2>1, <2>2, PushRows DEF n
  <2>6. n \in Nat /\ DOMAIN frames = 1 .. n /\ DOMAIN frames' = 1 .. n - k + 1
    BY <1>2, <2>4, <2>5 DEF n, Window
  <2>7. \A i \in DOMAIN frames' : \/ i = n - k + 1 /\ frames'[i] = r
                                  \/ i \in 1 .. n - k /\ i + k \in DOMAIN frames /\ frames'[i] = frames[i + k]
    <3>1. ASSUME NEW i \in 1 .. n - k + 1 PROVE i = n - k + 1 \/ i \in 1 .. n - k
      BY <2>5, <2>6
    <3>2. ASSUME NEW i \in 1 .. n - k PROVE i + k \in 1 .. n
      BY <2>5, <2>6
    <3> QED
      BY <2>5, <2>6, <3>1, <3>2
  <2>8. ASSUME NEW i \in DOMAIN frames', NEW j \in DOMAIN frames', frames'[i] = frames'[j] PROVE i = j
    <3>1. \A a \in DOMAIN frames : frames[a] # r
      BY <2>1 DEF ToSet
    <3>2. CASE i = n - k + 1 \/ j = n - k + 1
      BY <2>6, <2>7, <2>8, <3>1, <3>2
    <3>3. CASE i \in 1 .. n - k /\ j \in 1 .. n - k
      <4>1. i + k = j + k
        <5>1. i + k \in DOMAIN frames /\ j + k \in DOMAIN frames /\ frames[i + k] = frames[j + k]
          <6>1. \A a \in 1 .. n - k : a + k \in 1 .. n
            BY ONLY <2>6, k \in {0, 1}
          <6>2. frames'[i] = frames[i + k] /\ frames'[j] = frames[j + k]
            BY ONLY <2>5, <3>3
          <6> QED
            BY ONLY <2>6, <2>8, <3>3, <6>1, <6>2
        <5> QED
          BY <5>1 DEF Pushed
      <4> QED
        BY <2>6, <3>3, <4>1
    <3> QED
      BY <2>7, <3>2, <3>3
  <2>9. ToSet(frames') \subseteq ToSet(frames) \cup {r}
    BY <2>7 DEF ToSet
  <2>10. Taken(c)' \subseteq Taken(c) \cup {h} /\ \A d \in Clients : d # c => Taken(d)' \subseteq Taken(d)
    BY <2>9 DEF Taken, r, Row
  <2>11. ASSUME NEW d \in Clients
         PROVE  /\ Before(Taken(d)', ToSet(inq'[d]) \cap Frame(d))
                /\ Before(Taken(d)', ToSet(sock'[d]) \cap Frame(d))
                /\ \A g \in Taken(d)' : g <= sent'[d]
    <3>1. /\ Before(Taken(d), ToSet(inq[d]) \cap Frame(d)) /\ Before(Taken(d), ToSet(sock[d]) \cap Frame(d))
          /\ \A g \in Taken(d) : g <= sent[d]
      BY DEF Pushed
    <3>2. CASE d = c
      <4>1. \A y \in ToSet(sock[c]) \cap Frame(c) : h < y
        BY <2>1 DEF Ways, Way, WayOK, Before
      <4>2. h <= sent[c]
        BY <2>1 DEF Ways, Way, WayOK
      <4>3. ToSet(inq'[c]) = {} /\ sock'[c] = sock[c] /\ sent'[c] = sent[c]
        BY <1>3, <2>3
      <4> QED
        BY <2>10, <3>1, <3>2, <4>1, <4>2, <4>3 DEF Before
    <3>3. CASE d # c
      <4>1. inq'[d] = inq[d] /\ sock'[d] = sock[d] /\ sent'[d] = sent[d]
        BY <1>3, <2>3, <3>3
      <4> QED
        BY <2>10, <3>1, <3>3, <4>1 DEF Before
    <3> QED
      BY <3>2, <3>3
  <2> QED
    BY <2>8, <2>11 DEF Pushed
<1>12. ASSUME NEW c \in Clients, RaisePushing(c) PROVE Pushed'
  <2> DEFINE n == Len(frames)
  <2>1. PushFails /\ inq' = [inq EXCEPT ![c] = <<>>] /\ UNCHANGED <<sent, sock>> /\ ToSet(<<>>) = {}
    BY <1>12, EmptyIn DEF RaisePushing
  <2>2. \A d \in Clients : ToSet(inq'[d]) \cap Frame(d) \subseteq ToSet(inq[d]) \cap Frame(d)
    BY <1>3, <2>1
  <2>3. CASE UNCHANGED window
    BY <1>4, <2>1, <2>2, <2>3 DEF window
  <2>4. CASE frames # <<>> /\ frames' = Rolled(frames)
    <3>1. /\ n \in Nat \ {0} /\ DOMAIN frames = 1 .. n /\ DOMAIN frames' = 1 .. n
          /\ frames'[n] = frames[1] /\ \A i \in 1 .. n - 1 : frames'[i] = frames[i + 1]
      BY <1>2, <2>4, RolledRows
    <3> HIDE DEF n
    <3>2. \A i, j \in DOMAIN frames : frames[i] = frames[j] => i = j
      BY DEF Pushed
    <3>3. ASSUME NEW i \in 1 .. n PROVE \/ i = n /\ frames'[i] = frames[1]
                                        \/ i \in 1 .. n - 1 /\ i + 1 \in 1 .. n /\ frames'[i] = frames[i + 1]
      <4>1. i = n \/ (i \in 1 .. n - 1 /\ i + 1 \in 1 .. n)
        BY <3>1
      <4>2. CASE i = n
        BY <3>1, <4>2
      <4>3. CASE i \in 1 .. n - 1 /\ i + 1 \in 1 .. n
        <5>1. frames'[i] = frames[i + 1]
          BY <3>1, <4>3
        <5> QED
          BY <4>3, <5>1
      <4> QED
        BY <4>1, <4>2, <4>3
    <3>4. ASSUME NEW i \in 1 .. n, NEW j \in 1 .. n, frames'[i] = frames'[j] PROVE i = j
      <4>1. CASE i = n /\ j = n
        BY <4>1
      <4>2. CASE i = n /\ j \in 1 .. n - 1
        <5>1. frames[1] = frames[j + 1] /\ 1 \in 1 .. n /\ j + 1 \in 1 .. n
          BY <3>1, <3>4, <4>2
        <5>2. 1 = j + 1
          BY <3>1, <3>2, <5>1
        <5> QED
          BY <4>2, <5>2
      <4>3. CASE j = n /\ i \in 1 .. n - 1
        <5>1. frames[1] = frames[i + 1] /\ 1 \in 1 .. n /\ i + 1 \in 1 .. n
          BY <3>1, <3>4, <4>3
        <5>2. 1 = i + 1
          BY <3>1, <3>2, <5>1
        <5> QED
          BY <4>3, <5>2
      <4>4. CASE i \in 1 .. n - 1 /\ j \in 1 .. n - 1
        <5>1. frames[i + 1] = frames[j + 1] /\ i + 1 \in 1 .. n /\ j + 1 \in 1 .. n
          BY <3>1, <3>4, <4>4
        <5>2. i + 1 = j + 1
          BY <3>1, <3>2, <5>1
        <5> QED
          BY <4>4, <5>2
      <4> QED
        BY <3>3, <4>1, <4>2, <4>3, <4>4
    <3>5. ToSet(frames') \subseteq ToSet(frames)
      <4>1. 1 \in 1 .. n
        BY <3>1
      <4> QED
        BY <3>1, <3>3, <4>1 DEF ToSet
    <3>6. \A d \in Clients : Taken(d)' \subseteq Taken(d)
      BY <3>5 DEF Taken
    <3>7. ASSUME NEW d \in Clients
          PROVE  /\ Before(Taken(d)', ToSet(inq'[d]) \cap Frame(d))
                 /\ Before(Taken(d)', ToSet(sock'[d]) \cap Frame(d))
                 /\ \A g \in Taken(d)' : g <= sent'[d]
      BY <2>1, <2>2, <3>6 DEF Pushed, Before
    <3> QED
      BY <3>1, <3>4, <3>7 DEF Pushed
  <2> QED
    BY <1>2, <2>1, <2>3, <2>4, FailedPush
<1>10. ASSUME NEW c \in Clients, Connect(c) \/ ReadReply(c) \/ Leave(c) \/ ReadEnd(c) \/ TakeAnswer(c) \/ Drained(c)
              \/ CloseWriter(c) \/ WriterClosed(c) \/ StartThread(c) \/ StopThread(c) \/ Answer(c) \/ Raise(c)
       PROVE  Pushed'
  <2>1. UNCHANGED <<frames, sent, sock, inq>>
    BY <1>10 DEF Connect, ReadReply, Leave, ReadEnd, TakeAnswer, Drained, CloseWriter, WriterClosed,
                 StartThread, StopThread, Answer, Raise, window
  <2> QED
    BY <1>4, <2>1
<1>11. ASSUME StdinEnds \/ Signal \/ BeginShutdown \/ ClearConnections \/ Exit \/ UNCHANGED vars PROVE Pushed'
  <2>1. UNCHANGED <<frames, sent, sock, inq>>
    BY <1>11 DEF StdinEnds, Signal, BeginShutdown, ClearConnections, Exit, connVars, window, vars
  <2> QED
    BY <1>4, <2>1
<1> QED
  BY ONLY [Next]_vars, <1>5, <1>6, <1>7, <1>8, <1>9, <1>10, <1>11, <1>12 DEF Next, Serve, Compute, Shutdown, Done
-----------------------------------------------------------------------------
(* The answer stream *)

\* The compute thread's None is the last thing it does.
Closed == \A c \in Clients : Stop \in ToSet(outq[c]) => thread[c] = "exited"

LEMMA ClosedStep ==
  ASSUME Types, Closed, [Next]_vars
  PROVE  Closed'
<1>1. Outward
  BY DEF Types
<1>2. ASSUME UNCHANGED outq, \A d \in Clients : thread[d] = "exited" => thread'[d] = "exited"
      PROVE  Closed'
  BY <1>2 DEF Closed
<1>3. ASSUME NEW c \in Clients, EndThread(c) PROVE Closed'
  <2>1. /\ thread' = [thread EXCEPT ![c] = "exited"]
        /\ outq' = [outq EXCEPT ![c] = Append(outq[c], Stop)]
    BY <1>3 DEF EndThread
  <2>2. thread'[c] = "exited" /\ \A d \in Clients : d # c => thread'[d] = thread[d] /\ outq'[d] = outq[d]
    BY <1>1, <2>1 DEF Outward
  <2> QED
    BY <2>2 DEF Closed
<1>4. ASSUME NEW c \in Clients, Answer(c) PROVE Closed'
  <2>1. /\ thread[c] = "working" /\ thread' = [thread EXCEPT ![c] = "idle"]
        /\ outq' = [outq EXCEPT ![c] = Append(outq[c], held[c])]
    BY <1>4 DEF Answer
  <2>2. held[c] # Stop /\ held[c] \in Frame(c) \cup {Stop} /\ outq[c] \in Seq(Frame(c) \cup {Stop})
    BY <1>1, <2>1 DEF Outward
  <2>3. outq'[c] = Append(outq[c], held[c])
    BY <1>1, <2>1 DEF Outward
  <2>4. ToSet(outq'[c]) = ToSet(outq[c]) \cup {held[c]}
    BY <2>2, <2>3, AppendSet
  <2>5. Stop \notin ToSet(outq'[c])
    BY <2>1, <2>2, <2>4 DEF Closed
  <2>6. \A d \in Clients : d # c => thread'[d] = thread[d] /\ outq'[d] = outq[d]
    BY <1>1, <2>1 DEF Outward
  <2> QED
    BY <2>5, <2>6 DEF Closed
<1>5. ASSUME NEW c \in Clients, TakeAnswer(c) PROVE Closed'
  <2>1. outq[c] # <<>> /\ outq' = [outq EXCEPT ![c] = Tail(outq[c])] /\ UNCHANGED thread
    BY <1>5 DEF TakeAnswer
  <2>2. outq[c] \in Seq(Frame(c) \cup {Stop}) /\ outq'[c] = Tail(outq[c])
    BY <1>1, <2>1 DEF Outward
  <2>3. ToSet(outq'[c]) \subseteq ToSet(outq[c])
    BY <2>1, <2>2, TailIn
  <2>4. \A d \in Clients : d # c => outq'[d] = outq[d]
    BY <1>1, <2>1 DEF Outward
  <2> QED
    BY <2>1, <2>3, <2>4 DEF Closed
<1>6. ASSUME NEW c \in Clients, Connect(c) \/ StartThread(c) \/ StopThread(c) \/ TakeFrame(c) \/ RaisePushing(c) \/ Raise(c)
                                \/ LeaveLoop(c) \/ CloseDropped(c)
      PROVE  Closed'
  <2>1. UNCHANGED outq
    BY <1>6 DEF Connect, StartThread, StopThread, TakeFrame, RaisePushing, Raise, LeaveLoop, CloseDropped
  <2>2. \A d \in Clients : thread[d] = "exited" => thread'[d] = "exited"
    <3>1. link[c] = "none" => thread[c] = "none"
      BY <1>1 DEF Outward
    <3> QED
      BY <1>1, <1>6, <3>1 DEF Connect, StartThread, StopThread, TakeFrame, RaisePushing, Raise, LeaveLoop, CloseDropped,
                              CloseGenerator, Outward
  <2> QED
    BY <1>2, <2>1, <2>2
<1>7. ASSUME NEW c \in Clients, SendFrame(c) \/ ReadReply(c) \/ Leave(c) \/ ReadFrame(c) \/ ReadEnd(c)
                                \/ Drained(c) \/ CloseWriter(c) \/ WriterClosed(c)
      PROVE  Closed'
  <2>1. UNCHANGED <<outq, thread>>
    BY <1>7 DEF SendFrame, ReadReply, Leave, ReadFrame, ReadEnd, Drained, CloseWriter, WriterClosed
  <2> QED
    BY <1>2, <2>1
<1>8. ASSUME StdinEnds \/ Signal \/ BeginShutdown \/ ClearConnections \/ Exit \/ UNCHANGED vars PROVE Closed'
  <2>1. UNCHANGED <<outq, thread>>
    BY <1>8 DEF StdinEnds, Signal, BeginShutdown, ClearConnections, Exit, connVars, vars
  <2> QED
    BY <1>2, <2>1
<1> QED
  BY ONLY [Next]_vars, <1>3, <1>4, <1>5, <1>6, <1>7, <1>8 DEF Next, Serve, Compute, Shutdown, Done

\* A step that moves no frame and no answer is no step of the stream.
LEMMA NothingShown ==
  ASSUME UNCHANGED <<running, sent, outq>>,
         \A d \in Clients : Unanswered(d)' = Unanswered(d) /\ Handed(d)' = Handed(d)
  PROVE  UNCHANGED Stream!vars
BY DEF Stream!vars

\* A step of c shows nothing of the other connections.
Aside(c) ==
  \A d \in Clients \ {c} : /\ sent'[d] = sent[d] /\ sock'[d] = sock[d] /\ inq'[d] = inq[d]
                           /\ held'[d] = held[d] /\ outq'[d] = outq[d] /\ produced'[d] = produced[d]

LEMMA OthersAsShown ==
  ASSUME NEW c \in Clients, Aside(c)
  PROVE  \A d \in Clients \ {c} : Unanswered(d)' = Unanswered(d) /\ Handed(d)' = Handed(d)
BY DEF Aside, Unanswered, Handed, ToSet

\* SendFrame
LEMMA Sent ==
  ASSUME NEW c \in Clients, Aside(c), UNCHANGED <<running, outq, produced>>,
         sent' = [sent EXCEPT ![c] = sent[c] + 1], sent'[c] = sent[c] + 1,
         NEW new \in {{}, {sent[c] + 1}}, Unanswered(c)' = Unanswered(c) \cup new
  PROVE  Stream!Send(c)
<1> DEFINE w == [d \in Clients |-> Unanswered(d)]
           w2 == [d \in Clients |-> Unanswered(d)']
<1>1. w2 = [w EXCEPT ![c] = w[c] \cup new]
  BY OthersAsShown
<1>2. [d \in Clients |-> Handed(d)'] = [d \in Clients |-> Handed(d)]
  BY DEF Handed
<1> QED
  BY <1>1, <1>2 DEF Stream!Send

\* TakeFrame, RaisePushing, Raise: frames S older than the others are given up.
LEMMA GivenUp ==
  ASSUME NEW c \in Clients, Aside(c), UNCHANGED <<running, sent, outq, produced>>,
         NEW S \in SUBSET Unanswered(c), Before(S, Unanswered(c) \ S),
         Unanswered(c)' = Unanswered(c) \ S
  PROVE  Stream!GiveUp(c)
<1> DEFINE w == [d \in Clients |-> Unanswered(d)]
           w2 == [d \in Clients |-> Unanswered(d)']
<1>1. w2 = [w EXCEPT ![c] = w[c] \ S]
  BY OthersAsShown
<1>2. [d \in Clients |-> Handed(d)'] = [d \in Clients |-> Handed(d)]
  BY DEF Handed
<1> QED
  BY <1>1, <1>2 DEF Stream!GiveUp, Stream!Oldest, Before

\* ReadFrame after a shutdown
LEMMA Lost ==
  ASSUME NEW c \in Clients, Aside(c), UNCHANGED <<running, sent, outq, produced>>, ~running,
         NEW f \in Unanswered(c), Unanswered(c)' = Unanswered(c) \ {f}
  PROVE  Stream!Lose(c)
<1> DEFINE w == [d \in Clients |-> Unanswered(d)]
           w2 == [d \in Clients |-> Unanswered(d)']
<1>1. w2 = [w EXCEPT ![c] = w[c] \ {f}]
  BY OthersAsShown
<1>2. [d \in Clients |-> Handed(d)'] = [d \in Clients |-> Handed(d)]
  BY DEF Handed
<1> QED
  BY <1>1, <1>2 DEF Stream!Lose

\* Answer
LEMMA Answered ==
  ASSUME NEW c \in Clients, Aside(c), UNCHANGED <<running, sent>>, Stop \notin ToSet(outq[c]),
         NEW f \in Unanswered(c), Before({f}, Unanswered(c) \ {f}), Unanswered(c)' = Unanswered(c) \ {f},
         outq' = [outq EXCEPT ![c] = Append(outq[c], f)], Handed(c)' = Handed(c)
  PROVE  Stream!Answer(c)
<1> DEFINE w == [d \in Clients |-> Unanswered(d)]
           w2 == [d \in Clients |-> Unanswered(d)']
<1>1. w2 = [w EXCEPT ![c] = w[c] \ {f}]
  BY OthersAsShown
<1>2. [d \in Clients |-> Handed(d)'] = [d \in Clients |-> Handed(d)]
  BY OthersAsShown
<1>3. ~Stream!Ended(c)
  BY DEF Stream!Ended, ToSet
<1> QED
  BY <1>1, <1>2, <1>3 DEF Stream!Answer, Stream!Oldest, Before

\* EndThread
LEMMA Finished ==
  ASSUME NEW c \in Clients, Aside(c), UNCHANGED <<running, sent>>, Stop \notin ToSet(outq[c]),
         NEW S \in SUBSET Unanswered(c), Before(S, Unanswered(c) \ S), Unanswered(c)' = Unanswered(c) \ S,
         outq' = [outq EXCEPT ![c] = Append(outq[c], Stop)], Handed(c)' = Handed(c)
  PROVE  Stream!Finish(c)
<1> DEFINE w == [d \in Clients |-> Unanswered(d)]
           w2 == [d \in Clients |-> Unanswered(d)']
<1>1. w2 = [w EXCEPT ![c] = w[c] \ S]
  BY OthersAsShown
<1>2. [d \in Clients |-> Handed(d)'] = [d \in Clients |-> Handed(d)]
  BY OthersAsShown
<1>3. ~Stream!Ended(c)
  BY DEF Stream!Ended, ToSet
<1> QED
  BY <1>1, <1>2, <1>3 DEF Stream!Finish, Stream!Oldest, Before

\* TakeAnswer
LEMMA HandedOver ==
  ASSUME NEW c \in Clients, Aside(c), UNCHANGED <<running, sent, held, inq, sock>>,
         outq[c] # <<>>, Head(outq[c]) # Stop,
         outq' = [outq EXCEPT ![c] = Tail(outq[c])], Handed(c)' = Handed(c) \cup {Head(outq[c])}
  PROVE  Stream!Hand(c)
<1> DEFINE h == [d \in Clients |-> Handed(d)]
           h2 == [d \in Clients |-> Handed(d)']
<1>1. h2 = [h EXCEPT ![c] = h[c] \cup {Head(outq[c])}]
  BY OthersAsShown
<1>2. [d \in Clients |-> Unanswered(d)'] = [d \in Clients |-> Unanswered(d)]
  BY DEF Unanswered
<1> QED
  BY <1>1, <1>2 DEF Stream!Hand
LEMMA StreamStep ==
  ASSUME Types, Ways, Closed, [Next]_vars
  PROVE  [Stream!Next]_(Stream!vars)
<1>1. \A c \in Clients : Frame(c) \in SUBSET (Nat \ {0}) /\ Stop \notin Frame(c) /\ Bad \notin Frame(c)
  BY FramesAreNumbers DEF Stop, Bad
<1>2. /\ DOMAIN sent = Clients /\ DOMAIN sock = Clients /\ DOMAIN inq = Clients
      /\ DOMAIN held = Clients /\ DOMAIN outq = Clients /\ DOMAIN produced = Clients
  BY DEF Types, Inward, Outward
<1>3. \A c \in Clients : WayOK(Frame(c), sent[c], sock[c], inq[c], held[c], outq[c], produced[c])
  BY DEF Ways, Way
<1>4. \A c \in Clients : held[c] = Stop <=> thread[c] # "working"
  BY DEF Types, Outward
<1>5. ASSUME UNCHANGED <<running, sent, sock, inq, held, outq, produced>> PROVE UNCHANGED Stream!vars
  <2>1. \A d \in Clients : Unanswered(d)' = Unanswered(d) /\ Handed(d)' = Handed(d)
    BY <1>5 DEF Unanswered, Handed, ToSet
  <2> QED
    BY <1>5, <2>1, NothingShown
<1>6. ASSUME NEW c \in Clients, SendFrame(c) PROVE Stream!Send(c)
  <2>1. sent[c] \in 0 .. MaxFrames[c] /\ sent[c] < MaxFrames[c] /\ MaxFrames[c] \in Nat
    BY <1>6, ConstantsAssumption DEF SendFrame, Types, Inward
  <2>2. sent[c] + 1 \in Frame(c)
    BY <2>1 DEF Frame
  <2>3. PICK f \in {sent[c] + 1, Bad} :
          sent' = [sent EXCEPT ![c] = sent[c] + 1] /\ sock' = [sock EXCEPT ![c] = Append(sock[c], f)]
    BY <1>2, <1>6 DEF SendFrame
  <2>4. UNCHANGED <<running, inq, held, outq, produced>>
    BY <1>6 DEF SendFrame, loopVars
  <2>5. sock[c] \in Seq(Frame(c) \cup {Bad}) /\ f \in Frame(c) \cup {Bad}
    BY <1>3, <2>2 DEF WayOK
  <2>6. ToSet(sock'[c]) = ToSet(sock[c]) \cup {f}
    BY <1>2, <2>3, <2>5, AppendSet
  <2>7. Unanswered(c)' = Unanswered(c) \cup ({f} \cap Frame(c))
    BY <2>4, <2>6 DEF Unanswered
  <2>8. {f} \cap Frame(c) \in {{}, {sent[c] + 1}}
    BY <1>1, <2>2, <2>3
  <2>9. Aside(c) /\ sent'[c] = sent[c] + 1
    BY <1>2, <2>3, <2>4 DEF Aside
  <2> QED
    BY <2>3, <2>4, <2>7, <2>8, <2>9, Sent
<1>7. ASSUME NEW c \in Clients, ReadFrame(c) PROVE Stream!Lose(c) \/ UNCHANGED Stream!vars
  <2> DEFINE f == Head(sock[c])
  <2>1. sock[c] # <<>> /\ sock' = [sock EXCEPT ![c] = Tail(sock[c])] /\ UNCHANGED <<running, sent, held, outq, produced>>
    BY <1>7 DEF ReadFrame, loopVars
  <2>2. \/ f # Bad /\ inq' = [inq EXCEPT ![c] = Append(inq[c], f)]
        \/ (f = Bad \/ ~running) /\ UNCHANGED inq
    BY <1>7 DEF ReadFrame
  <2>3. Aside(c) /\ sock'[c] = Tail(sock[c])
    BY <1>2, <2>1, <2>2 DEF Aside
  <2>4. sock[c] \in Seq(Frame(c) \cup {Bad}) /\ inq[c] \in Seq(Frame(c) \cup {Stop}) /\ Increasing(Frame(c), sock[c])
    BY <1>3 DEF WayOK
  <2>5. /\ f \in Frame(c) \cup {Bad} /\ ToSet(sock[c]) = ToSet(sock'[c]) \cup {f}
        /\ Before({f} \cap Frame(c), ToSet(sock'[c]) \cap Frame(c))
    BY <2>1, <2>3, <2>4, TailIn
  <2>6. CASE f # Bad /\ inq' = [inq EXCEPT ![c] = Append(inq[c], f)]
    <3>1. ToSet(inq'[c]) = ToSet(inq[c]) \cup {f}
      BY <1>2, <2>4, <2>5, <2>6, AppendSet
    <3>2. Unanswered(c)' = Unanswered(c)
      BY <2>1, <2>5, <3>1 DEF Unanswered
    <3>3. \A d \in Clients : Unanswered(d)' = Unanswered(d) /\ Handed(d)' = Handed(d)
      BY <2>1, <2>3, <3>2, OthersAsShown DEF Handed
    <3> QED
      BY <2>1, <3>3, NothingShown
  <2>7. CASE f = Bad /\ UNCHANGED inq
    <3>1. Unanswered(c)' = Unanswered(c)
      BY <1>1, <2>1, <2>5, <2>7 DEF Unanswered
    <3>2. \A d \in Clients : Unanswered(d)' = Unanswered(d) /\ Handed(d)' = Handed(d)
      BY <2>1, <2>3, <3>1, OthersAsShown DEF Handed
    <3> QED
      BY <2>1, <3>2, NothingShown
  <2>8. CASE f # Bad /\ ~running /\ UNCHANGED inq
    <3>1. f \in Frame(c) /\ f \in ToSet(sock[c]) /\ f \in Nat
      BY <1>1, <2>5, <2>8
    <3>2. \A g \in ({held[c]} \cup ToSet(inq[c])) \cap Frame(c) : g < f
      BY <1>3, <3>1 DEF WayOK, Before
    <3>3. \A g \in ToSet(sock'[c]) \cap Frame(c) : f < g
      BY <2>5, <3>1 DEF Before
    <3>4. f \notin ({held[c]} \cup ToSet(inq[c]) \cup ToSet(sock'[c])) \cap Frame(c)
      BY <3>1, <3>2, <3>3
    <3>5. Unanswered(c)' = Unanswered(c) \ {f} /\ f \in Unanswered(c)
      BY <2>1, <2>5, <2>8, <3>1, <3>4 DEF Unanswered
    <3> QED
      BY <2>1, <2>3, <2>8, <3>5, Lost
  <2> QED
    BY <2>2, <2>6, <2>7, <2>8
<1>8. ASSUME NEW c \in Clients, EndThread(c) PROVE Stream!Finish(c)
  <2> DEFINE S == ToSet(inq[c]) \cap Frame(c)
  <2>1. /\ thread[c] = "idle" /\ inq' = [inq EXCEPT ![c] = <<>>] /\ outq' = [outq EXCEPT ![c] = Append(outq[c], Stop)]
        /\ UNCHANGED <<running, sent, sock, held, produced>>
    BY <1>8 DEF EndThread, loopVars
  <2>2. held[c] = Stop /\ Stop \notin ToSet(outq[c])
    BY <1>4, <2>1 DEF Closed
  <2>3. Unanswered(c) = S \cup (ToSet(sock[c]) \cap Frame(c))
    BY <1>1, <2>2 DEF Unanswered
  <2>4. Unanswered(c)' = ToSet(sock[c]) \cap Frame(c)
    <3>1. inq'[c] = <<>> /\ held'[c] = Stop /\ sock'[c] = sock[c] /\ ToSet(<<>>) = {}
      BY <1>2, <2>1, <2>2, EmptyIn
    <3> QED
      BY <1>1, <3>1 DEF Unanswered
  <2>5. Before(S, ToSet(sock[c]) \cap Frame(c))
    BY <1>3 DEF WayOK
  <2>6. S \cap (ToSet(sock[c]) \cap Frame(c)) = {}
    <3>1. ASSUME NEW g \in S, g \in ToSet(sock[c]) \cap Frame(c) PROVE FALSE
      <4>1. g < g /\ g \in Nat
        BY <1>1, <2>5, <3>1 DEF Before
      <4> QED
        BY ONLY <4>1
    <3> QED
      BY <3>1
  <2>7. S \in SUBSET Unanswered(c) /\ Unanswered(c)' = Unanswered(c) \ S /\ Before(S, Unanswered(c) \ S)
    BY <2>3, <2>4, <2>5, <2>6 DEF Before
  <2>8. outq[c] \in Seq(Frame(c) \cup {Stop}) /\ outq'[c] = Append(outq[c], Stop) /\ produced[c] \subseteq Frame(c)
    BY <1>2, <1>3, <2>1 DEF WayOK
  <2>9. Handed(c)' = Handed(c)
    <3>1. ToSet(outq'[c]) = ToSet(outq[c]) \cup {Stop}
      BY <2>8, AppendSet
    <3> QED
      BY <1>1, <2>1, <2>8, <3>1 DEF Handed
  <2>10. Aside(c)
    BY <1>2, <2>1 DEF Aside
  <2> HIDE DEF S
  <2> QED
    BY <2>1, <2>2, <2>7, <2>9, <2>10, Finished
<1>9. ASSUME NEW c \in Clients, TakeFrame(c) PROVE Stream!GiveUp(c)
  <2> DEFINE f == Last(inq[c])
             S == (ToSet(inq[c]) \cap Frame(c)) \ {f}
  <2>1. /\ thread[c] = "idle" /\ inq[c] # <<>> /\ ~Contains(inq[c], Stop)
        /\ inq' = [inq EXCEPT ![c] = <<>>] /\ held' = [held EXCEPT ![c] = f]
        /\ UNCHANGED <<running, sent, sock, outq, produced>>
    BY <1>9 DEF TakeFrame, loopVars
  <2>2. inq[c] \in Seq(Frame(c) \cup {Stop}) /\ Increasing(Frame(c), inq[c]) /\ held[c] = Stop
    BY <1>3, <1>4, <2>1 DEF WayOK
  <2>3. f \in ToSet(inq[c]) /\ f \in Frame(c)
    <3>1. f \in ToSet(inq[c]) /\ f \in Frame(c) \cup {Stop}
      BY <2>1, <2>2, LastIn
    <3>2. f # Stop
      BY <2>1, <2>2, <3>1 DEF Contains, ToSet
    <3> QED
      BY <3>1, <3>2
  <2>4. \A g \in S : g < f
    <3>1. SUFFICES ASSUME NEW i \in DOMAIN inq[c], inq[c][i] \in Frame(c), inq[c][i] # f PROVE inq[c][i] < f
      BY DEF ToSet
    <3>2. Len(inq[c]) \in Nat /\ DOMAIN inq[c] = 1 .. Len(inq[c]) /\ f = inq[c][Len(inq[c])]
      BY <2>2, LenProperties DEF Last
    <3>3. i < Len(inq[c]) /\ Len(inq[c]) \in DOMAIN inq[c]
      BY <2>1, <3>1, <3>2
    <3> QED
      BY <2>2, <2>3, <3>1, <3>2, <3>3 DEF Increasing
  <2>5. \A g \in S \cup {f}, h \in ToSet(sock[c]) \cap Frame(c) : g < h
    BY <1>3, <2>3 DEF WayOK, Before
  <2>6. Unanswered(c) = S \cup {f} \cup (ToSet(sock[c]) \cap Frame(c))
    BY <1>1, <2>2, <2>3 DEF Unanswered
  <2>7. Unanswered(c)' = {f} \cup (ToSet(sock[c]) \cap Frame(c))
    <3>1. inq'[c] = <<>> /\ held'[c] = f /\ sock'[c] = sock[c] /\ ToSet(<<>>) = {}
      BY <1>2, <2>1, EmptyIn
    <3> QED
      BY <2>3, <3>1 DEF Unanswered
  <2>8. S \cap ({f} \cup (ToSet(sock[c]) \cap Frame(c))) = {}
    <3>1. ASSUME NEW g \in S, g \in ToSet(sock[c]) \cap Frame(c) PROVE FALSE
      <4>1. g < g /\ g \in Nat
        BY <1>1, <2>5, <3>1
      <4> QED
        BY ONLY <4>1
    <3> QED
      BY <3>1
  <2>9. Aside(c)
    BY <1>2, <2>1 DEF Aside
  <2> HIDE DEF S, f
  <2>10. S \in SUBSET Unanswered(c) /\ Unanswered(c)' = Unanswered(c) \ S /\ Before(S, Unanswered(c) \ S)
    BY <2>4, <2>5, <2>6, <2>7, <2>8 DEF Before
  <2> QED
    BY <2>1, <2>9, <2>10, GivenUp
<1>17. ASSUME NEW c \in Clients, RaisePushing(c) PROVE Stream!GiveUp(c)
  <2> DEFINE S == ToSet(inq[c]) \cap Frame(c)
  <2>1. /\ thread[c] = "idle" /\ inq' = [inq EXCEPT ![c] = <<>>]
        /\ UNCHANGED <<running, sent, sock, held, outq, produced>>
    BY <1>17 DEF RaisePushing, loopVars
  <2>2. held[c] = Stop
    BY <1>4, <2>1
  <2>3. Unanswered(c) = S \cup (ToSet(sock[c]) \cap Frame(c))
    BY <1>1, <2>2 DEF Unanswered
  <2>4. Unanswered(c)' = ToSet(sock[c]) \cap Frame(c)
    <3>1. inq'[c] = <<>> /\ held'[c] = Stop /\ sock'[c] = sock[c] /\ ToSet(<<>>) = {}
      BY <1>2, <2>1, <2>2, EmptyIn
    <3> QED
      BY <1>1, <3>1 DEF Unanswered
  <2>5. Before(S, ToSet(sock[c]) \cap Frame(c))
    BY <1>3 DEF WayOK
  <2>6. S \cap (ToSet(sock[c]) \cap Frame(c)) = {}
    <3>1. ASSUME NEW g \in S, g \in ToSet(sock[c]) \cap Frame(c) PROVE FALSE
      <4>1. g < g /\ g \in Nat
        BY <1>1, <2>5, <3>1 DEF Before
      <4> QED
        BY ONLY <4>1
    <3> QED
      BY <3>1
  <2>7. S \in SUBSET Unanswered(c) /\ Unanswered(c)' = Unanswered(c) \ S /\ Before(S, Unanswered(c) \ S)
    BY <2>3, <2>4, <2>5, <2>6 DEF Before
  <2>8. Aside(c)
    BY <1>2, <2>1 DEF Aside
  <2> HIDE DEF S
  <2> QED
    BY <2>1, <2>7, <2>8, GivenUp
<1>10. ASSUME NEW c \in Clients, Answer(c) PROVE Stream!Answer(c)
  <2> DEFINE f == held[c]
  <2>1. /\ thread[c] = "working" /\ held' = [held EXCEPT ![c] = Stop] /\ outq' = [outq EXCEPT ![c] = Append(outq[c], f)]
        /\ produced' = [produced EXCEPT ![c] = produced[c] \cup {f}]
        /\ UNCHANGED <<running, sent, sock, inq>>
    BY <1>10 DEF Answer, loopVars
  <2>2. f \in Frame(c) /\ Stop \notin ToSet(outq[c])
    BY <1>3, <1>4, <2>1 DEF WayOK, Closed
  <2>3. Before({f}, (ToSet(inq[c]) \cup ToSet(sock[c])) \cap Frame(c)) /\ f \in Nat
    BY <1>1, <1>3, <2>2 DEF WayOK, Before
  <2>4. f \notin (ToSet(inq[c]) \cup ToSet(sock[c])) \cap Frame(c)
    <3>1. ASSUME f \in (ToSet(inq[c]) \cup ToSet(sock[c])) \cap Frame(c) PROVE FALSE
      <4>1. f < f /\ f \in Nat
        BY <2>3, <3>1 DEF Before
      <4> QED
        BY ONLY <4>1
    <3> QED
      BY <3>1
  <2>5. Unanswered(c) = {f} \cup ((ToSet(inq[c]) \cup ToSet(sock[c])) \cap Frame(c))
    BY <2>2 DEF Unanswered
  <2>6. Unanswered(c)' = (ToSet(inq[c]) \cup ToSet(sock[c])) \cap Frame(c)
    <3>1. held'[c] = Stop /\ inq'[c] = inq[c] /\ sock'[c] = sock[c]
      BY <1>2, <2>1
    <3> QED
      BY <1>1, <3>1 DEF Unanswered
  <2>7. Handed(c)' = Handed(c)
    <3>1. outq[c] \in Seq(Frame(c) \cup {Stop}) /\ outq'[c] = Append(outq[c], f)
      BY <1>2, <1>3, <2>1 DEF WayOK
    <3>2. ToSet(outq'[c]) = ToSet(outq[c]) \cup {f}
      BY <2>2, <3>1, AppendSet
    <3>3. produced'[c] = produced[c] \cup {f} /\ f \notin produced[c]
      <4>1. produced'[c] = produced[c] \cup {f}
        BY <1>2, <2>1
      <4>2. \A g \in produced[c] : g < f
        BY <1>3, <2>2 DEF WayOK, Before
      <4>3. ~(f < f)
        BY ONLY <2>3
      <4> QED
        BY <4>1, <4>2, <4>3
    <3> QED
      BY <3>2, <3>3 DEF Handed
  <2>8. Aside(c)
    BY <1>2, <2>1 DEF Aside
  <2> HIDE DEF f
  <2>9. f \in Unanswered(c) /\ Unanswered(c)' = Unanswered(c) \ {f} /\ Before({f}, Unanswered(c) \ {f})
    BY <2>3, <2>4, <2>5, <2>6 DEF Before
  <2> QED
    BY <2>1, <2>2, <2>7, <2>8, <2>9, Answered
<1>11. ASSUME NEW c \in Clients, Raise(c) PROVE Stream!GiveUp(c)
  <2> DEFINE f == held[c]
  <2>1. /\ thread[c] = "working" /\ held' = [held EXCEPT ![c] = Stop]
        /\ UNCHANGED <<running, sent, sock, inq, outq, produced>>
    BY <1>11 DEF Raise, loopVars
  <2>2. f \in Frame(c)
    BY <1>3, <1>4, <2>1 DEF WayOK
  <2>3. Before({f}, (ToSet(inq[c]) \cup ToSet(sock[c])) \cap Frame(c)) /\ f \in Nat
    BY <1>1, <1>3, <2>2 DEF WayOK, Before
  <2>4. f \notin (ToSet(inq[c]) \cup ToSet(sock[c])) \cap Frame(c)
    <3>1. ASSUME f \in (ToSet(inq[c]) \cup ToSet(sock[c])) \cap Frame(c) PROVE FALSE
      <4>1. f < f /\ f \in Nat
        BY <2>3, <3>1 DEF Before
      <4> QED
        BY ONLY <4>1
    <3> QED
      BY <3>1
  <2>5. Unanswered(c) = {f} \cup ((ToSet(inq[c]) \cup ToSet(sock[c])) \cap Frame(c))
    BY <2>2 DEF Unanswered
  <2>6. Unanswered(c)' = (ToSet(inq[c]) \cup ToSet(sock[c])) \cap Frame(c)
    <3>1. held'[c] = Stop /\ inq'[c] = inq[c] /\ sock'[c] = sock[c]
      BY <1>2, <2>1
    <3> QED
      BY <1>1, <3>1 DEF Unanswered
  <2>7. Aside(c)
    BY <1>2, <2>1 DEF Aside
  <2> HIDE DEF f
  <2>8. {f} \in SUBSET Unanswered(c) /\ Unanswered(c)' = Unanswered(c) \ {f} /\ Before({f}, Unanswered(c) \ {f})
    BY <2>3, <2>4, <2>5, <2>6 DEF Before
  <2> QED
    BY <2>1, <2>7, <2>8, GivenUp
<1>12. ASSUME NEW c \in Clients, TakeAnswer(c) PROVE Stream!Hand(c)
  <2> DEFINE f == Head(outq[c])
  <2>1. /\ outq[c] # <<>> /\ f # Stop /\ outq' = [outq EXCEPT ![c] = Tail(outq[c])]
        /\ UNCHANGED <<running, sent, sock, inq, held, produced>>
    BY <1>12 DEF TakeAnswer, loopVars
  <2>2. /\ outq[c] \in Seq(Frame(c) \cup {Stop}) /\ Increasing(Frame(c), outq[c])
        /\ ToSet(outq[c]) \cap Frame(c) \subseteq produced[c] /\ produced[c] \subseteq Frame(c)
    BY <1>3 DEF WayOK
  <2>3. /\ f \in Frame(c) \cup {Stop} /\ ToSet(outq[c]) = ToSet(Tail(outq[c])) \cup {f}
        /\ Before({f} \cap Frame(c), ToSet(Tail(outq[c])) \cap Frame(c))
    BY <2>1, <2>2, TailIn
  <2>4. f \in Frame(c) /\ f \in produced[c]
    BY <2>1, <2>2, <2>3
  <2>5. f \notin ToSet(Tail(outq[c]))
    <3>1. ASSUME f \in ToSet(Tail(outq[c])) PROVE FALSE
      <4>1. f < f /\ f \in Nat
        BY <1>1, <2>3, <2>4, <3>1 DEF Before
      <4> QED
        BY ONLY <4>1
    <3> QED
      BY <3>1
  <2>6. outq'[c] = Tail(outq[c])
    BY <1>2, <2>1
  <2>7. Handed(c)' = Handed(c) \cup {f}
    BY <2>1, <2>3, <2>4, <2>5, <2>6 DEF Handed
  <2>8. Aside(c)
    BY <1>2, <2>1 DEF Aside
  <2> QED
    BY <2>1, <2>7, <2>8, HandedOver
<1>13. ASSUME NEW c \in Clients, LeaveLoop(c) \/ CloseDropped(c) PROVE UNCHANGED Stream!vars
  <2>1. inq' = [inq EXCEPT ![c] = Append(inq[c], Stop)] /\ UNCHANGED <<running, sent, sock, held, outq, produced>>
    BY <1>13 DEF LeaveLoop, CloseDropped, CloseGenerator, loopVars
  <2>2. inq[c] \in Seq(Frame(c) \cup {Stop}) /\ inq'[c] = Append(inq[c], Stop)
    BY <1>2, <1>3, <2>1 DEF WayOK
  <2>3. ToSet(inq'[c]) = ToSet(inq[c]) \cup {Stop}
    BY <2>2, AppendSet
  <2>4. Unanswered(c)' = Unanswered(c)
    BY <1>1, <2>1, <2>3 DEF Unanswered
  <2>5. Aside(c)
    BY <1>2, <2>1 DEF Aside
  <2>6. \A d \in Clients : Unanswered(d)' = Unanswered(d) /\ Handed(d)' = Handed(d)
    BY <2>1, <2>4, <2>5, OthersAsShown DEF Handed
  <2> QED
    BY <2>1, <2>6, NothingShown
<1>14. ASSUME BeginShutdown PROVE Stream!Stop
  <2>1. running' = FALSE /\ UNCHANGED <<sent, sock, inq, held, outq, produced>>
    BY <1>14 DEF BeginShutdown, connVars
  <2>2. \A d \in Clients : Unanswered(d)' = Unanswered(d) /\ Handed(d)' = Handed(d)
    BY <2>1 DEF Unanswered, Handed, ToSet
  <2> QED
    BY <2>1, <2>2 DEF Stream!Stop
<1>15. ASSUME NEW c \in Clients, Connect(c) \/ ReadReply(c) \/ Leave(c) \/ ReadEnd(c) \/ Drained(c)
           \/ CloseWriter(c) \/ WriterClosed(c) \/ StartThread(c) \/ StopThread(c)
       PROVE  UNCHANGED Stream!vars
  BY <1>5, <1>15 DEF Connect, ReadReply, Leave, ReadEnd, Drained, CloseWriter, WriterClosed, StartThread, StopThread,
                     loopVars
<1>16. ASSUME StdinEnds \/ Signal \/ ClearConnections \/ Exit \/ UNCHANGED vars PROVE UNCHANGED Stream!vars
  BY <1>5, <1>16 DEF StdinEnds, Signal, ClearConnections, Exit, connVars, vars
<1> QED
  BY ONLY [Next]_vars, <1>6, <1>7, <1>8, <1>9, <1>10, <1>11, <1>12, <1>13, <1>14, <1>15, <1>16, <1>17
     DEF Next, Serve, Compute, Shutdown, Done, Stream!Next

LEMMA StreamInit == Init => Stream!Init
<1> SUFFICES ASSUME Init PROVE Stream!Init
  OBVIOUS
<1>1. \A c \in Clients : Stop \notin Frame(c)
  BY FramesAreNumbers DEF Stop
<1>2. ASSUME NEW c \in Clients PROVE Unanswered(c) = {} /\ Handed(c) = {}
  <2>1. held[c] = Stop /\ inq[c] = <<>> /\ sock[c] = <<>> /\ produced[c] = {} /\ ToSet(<<>>) = {}
    BY EmptyIn DEF Init
  <2> QED
    BY <1>1, <2>1 DEF Unanswered, Handed
<1> QED
  BY <1>2 DEF Init, Stream!Init
-----------------------------------------------------------------------------
(* Shutdown *)

\* How far a connection is: its transport is as far as its handler, and the handler has its
\* generator until it leaves the loop.
Stage(c) ==
  /\ handler[c] \in {"poll", "drain"} => gen[c] = "live"
  /\ handler[c] \in {"poll", "drain", "close"} => link[c] \in {"open", "eof", "lost"}
  /\ link[c] \in {"open", "eof"} => handler[c] \in {"poll", "drain", "close"}
  /\ link[c] = "closing" => handler[c] = "closing"
  /\ unread[c] > Room => link[c] \in {"open", "closing"}

Stages ==
  /\ running <=> shut \in {"no", "signalled"}
  /\ \A c \in Clients : Stage(c)

LEMMA StagesInit == Init => Stages
BY ConstantsAssumption DEF Init, Stages, Stage

LEMMA StagesStep ==
  ASSUME Types, Removals, Stages, [Next]_vars
  PROVE  Stages'
<1>1. Room \in Nat \ {0} /\ Roles /\ unread \in [Clients -> 0 .. Room + 1] /\ Loop
  BY ConstantsAssumption DEF Types, Replies
<1>2. (running <=> shut \in {"no", "signalled"})'
  <2>1. ASSUME NEW c \in Clients, Connect(c) \/ SendFrame(c) \/ ReadReply(c) \/ Leave(c) \/ Serve(c) \/ Compute(c)
        PROVE  UNCHANGED <<running, shut>>
    BY <2>1 DEF Connect, SendFrame, ReadReply, Leave, Serve, ReadFrame, ReadEnd, LeaveLoop, TakeAnswer, Drained,
                CloseDropped, CloseWriter, WriterClosed, Compute, StartThread, StopThread, EndThread, TakeFrame,
                RaisePushing, Answer, Raise, loopVars
  <2>2. ASSUME StdinEnds \/ Signal \/ Shutdown \/ UNCHANGED vars
        PROVE  (running <=> shut \in {"no", "signalled"})'
    BY <1>1, <2>2 DEF Stages, Loop, StdinEnds, Signal, Shutdown, BeginShutdown, ClearConnections, ConnectionsGone, Exit, vars
  <2> QED
    BY <2>1, <2>2 DEF Next, Stages, Done
<1>3. ASSUME NEW c \in Clients,
             \A d \in Clients \ {c} : /\ handler'[d] = handler[d] /\ gen'[d] = gen[d]
                                      /\ link'[d] = link[d] /\ unread'[d] = unread[d],
             Stage(c)'
      PROVE  Stages'
  <2>1. \A d \in Clients \ {c} : Stage(d)'
    BY <1>3 DEF Stages, Stage
  <2> QED
    BY <1>2, <1>3, <2>1 DEF Stages
<1>4. ASSUME UNCHANGED <<handler, gen, link, unread>> PROVE Stages'
  BY <1>2, <1>4 DEF Stages, Stage
<1>5. ASSUME NEW c \in Clients,
             Connect(c) \/ ReadReply(c) \/ Leave(c) \/ LeaveLoop(c) \/ TakeAnswer(c) \/ Drained(c)
               \/ CloseDropped(c) \/ CloseWriter(c) \/ WriterClosed(c)
      PROVE  Stages'
  <2>1. Stage(c) /\ Handled(c) /\ (handler[c] = "poll" => unread[c] <= Room)
    BY DEF Stages, Removals, Types, Replies
  <2>2. Stage(c)'
    BY <1>1, <1>5, <2>1 DEF Roles, Stage, Handled, Connect, ReadReply, Leave, LeaveLoop, TakeAnswer, Drained,
                            CloseDropped, CloseWriter, WriterClosed, CloseGenerator
  <2>3. \A d \in Clients \ {c} : /\ handler'[d] = handler[d] /\ gen'[d] = gen[d]
                                 /\ link'[d] = link[d] /\ unread'[d] = unread[d]
    BY <1>1, <1>5 DEF Roles, Connect, ReadReply, Leave, LeaveLoop, TakeAnswer, Drained,
                      CloseDropped, CloseWriter, WriterClosed, CloseGenerator
  <2> QED
    BY <1>3, <2>2, <2>3
<1>6. ASSUME NEW c \in Clients, SendFrame(c) \/ ReadFrame(c) \/ ReadEnd(c) \/ Compute(c) PROVE Stages'
  BY <1>4, <1>6 DEF SendFrame, ReadFrame, ReadEnd, Compute, StartThread, StopThread, EndThread, TakeFrame,
                    RaisePushing, Answer, Raise
<1>7. ASSUME StdinEnds \/ Signal \/ Shutdown \/ UNCHANGED vars PROVE Stages'
  BY <1>4, <1>7 DEF StdinEnds, Signal, Shutdown, BeginShutdown, ClearConnections, Exit, connVars, vars
<1> QED
  BY ONLY [Next]_vars, <1>5, <1>6, <1>7 DEF Next, Serve, Done

LEMMA NotStuckInStages ==
  ASSUME Types, Stages
  PROVE  ShutdownNotStuck
<1>1. Room \in Nat \ {0} /\ Workers \in Nat \ {0} /\ Roles /\ unread \in [Clients -> 0 .. Room + 1]
      /\ thread \in [Clients -> {"none", "queued", "idle", "working", "exited"}]
  BY ConstantsAssumption DEF Types, Replies, Outward
<1>2. SUFFICES ASSUME shut \in {"closing", "cleared"}, ~spinning, ~ConnectionsGone, ~(shut = "cleared" /\ Quiet)
               PROVE  \E c \in Clients : CanMove(c)
  BY DEF ShutdownNotStuck
<1>3. ASSUME NEW c \in Clients, handler[c] \in {"poll", "drain", "close", "closing"} PROVE CanMove(c)
  <2>1. Stage(c) /\ unread[c] \in 0 .. Room + 1
    BY <1>1 DEF Stages
  <2>2. unread[c] <= Room \/ (link[c] \in {"open", "closing"} /\ unread[c] > 0)
    BY <1>1, <2>1 DEF Stage
  <2> QED
    BY <1>3, <2>2 DEF CanMove
<1>4. CASE shut = "closing"
  <2>1. PICK c \in Clients : link[c] \notin {"none", "closed", "lost"}
    BY <1>2, <1>4 DEF ConnectionsGone
  <2>2. link[c] \in {"open", "eof", "closing"}
    BY <1>1, <2>1 DEF Roles
  <2>3. handler[c] \in {"poll", "drain", "close", "closing"}
    BY <2>2 DEF Stages, Stage
  <2> QED
    BY <1>3, <2>3
<1>5. CASE shut = "cleared"
  <2>1. CASE Busy # {}
    BY <2>1 DEF Busy, CanMove
  <2>2. CASE Busy = {}
    <3>1. Cardinality(Busy) < Workers
      BY <1>1, <2>2, FS_EmptySet
    <3>2. PICK c \in Clients : \/ handler[c] \notin {"none", "done", "failed"} \/ thread[c] = "queued"
                               \/ gen[c] = "dropped"
      BY <1>2, <1>5, <2>2 DEF Quiet
    <3>3. CASE handler[c] \notin {"none", "done", "failed"}
      <4>1. handler[c] \in {"poll", "drain", "close", "closing"}
        BY <1>1, <3>3 DEF Roles
      <4> QED
        BY <1>3, <4>1
    <3>4. CASE thread[c] = "queued" \/ gen[c] = "dropped"
      BY <3>1, <3>4 DEF CanMove
    <3> QED
      BY <3>2, <3>3, <3>4
  <2> QED
    BY <2>1, <2>2
<1> QED
  BY <1>2, <1>4, <1>5

LEMMA LeftAreNumbers ==
  ASSUME NEW c \in Clients
  PROVE  /\ LinkLeft(c) \in Nat /\ ReaderLeft(c) \in Nat /\ ThreadLeft(c) \in Nat
         /\ HandlerLeft(c) \in Nat /\ GenLeft(c) \in Nat /\ ShutdownLeft \in Nat
<1>1. LinkLeft(c) \in Nat /\ ReaderLeft(c) \in Nat
  BY DEF LinkLeft, ReaderLeft
<1>2. ThreadLeft(c) \in Nat
  BY DEF ThreadLeft
<1>3. HandlerLeft(c) \in Nat
  BY DEF HandlerLeft
<1>4. GenLeft(c) \in Nat /\ ShutdownLeft \in Nat
  BY DEF GenLeft, ShutdownLeft
<1> QED
  BY <1>1, <1>2, <1>3, <1>4

\* A part that stays has as much left.
LEMMA PartsStay ==
  ASSUME Types, NEW c \in Clients
  PROVE  /\ link'[c] = link[c] => LinkLeft(c)' <= LinkLeft(c)
         /\ reader'[c] = reader[c] => ReaderLeft(c)' <= ReaderLeft(c)
         /\ thread'[c] = thread[c] /\ inq'[c] = inq[c] => ThreadLeft(c)' <= ThreadLeft(c)
         /\ handler'[c] = handler[c] => HandlerLeft(c)' <= HandlerLeft(c)
         /\ gen'[c] = gen[c] => GenLeft(c)' <= GenLeft(c)
         /\ unread'[c] = unread[c] => unread'[c] <= unread[c]
<1>1. link'[c] = link[c] => LinkLeft(c)' = LinkLeft(c)
  BY DEF LinkLeft
<1>2. reader'[c] = reader[c] => ReaderLeft(c)' = ReaderLeft(c)
  BY DEF ReaderLeft
<1>3. thread'[c] = thread[c] /\ inq'[c] = inq[c] => ThreadLeft(c)' = ThreadLeft(c)
  BY DEF ThreadLeft, Waiting
<1>4. handler'[c] = handler[c] => HandlerLeft(c)' = HandlerLeft(c)
  BY DEF HandlerLeft
<1>5. gen'[c] = gen[c] => GenLeft(c)' = GenLeft(c)
  BY DEF GenLeft
<1>6. unread[c] \in Nat
  BY ConstantsAssumption DEF Types, Replies
<1> QED
  BY <1>1, <1>2, <1>3, <1>4, <1>5, <1>6, LeftAreNumbers

\* A step of c leaves the others what they have.
LEMMA OthersStay ==
  ASSUME Types, NEW c \in Clients,
         \A d \in Clients \ {c} : /\ link'[d] = link[d] /\ reader'[d] = reader[d] /\ thread'[d] = thread[d]
                                  /\ inq'[d] = inq[d] /\ handler'[d] = handler[d] /\ gen'[d] = gen[d]
                                  /\ unread'[d] = unread[d]
  PROVE  \A d \in Clients \ {c} : NoMoreLeft(d)
<1>1. ASSUME NEW d \in Clients \ {c} PROVE NoMoreLeft(d)
  BY PartsStay DEF NoMoreLeft
<1> QED
  BY <1>1

\* None behind them leaves no more or fewer frames.
LEMMA StopIsNoFrame ==
  ASSUME NEW S, NEW q \in Seq(S), Stop \in S
  PROVE  {i \in DOMAIN q : q[i] # Stop} = {} => {i \in DOMAIN Append(q, Stop) : Append(q, Stop)[i] # Stop} = {}
<1> DEFINE t == Append(q, Stop)
<1>1. /\ Len(q) \in Nat /\ DOMAIN q = 1 .. Len(q) /\ DOMAIN t = 1 .. Len(q) + 1
      /\ \A i \in 1 .. Len(q) : t[i] = q[i]
      /\ t[Len(q) + 1] = Stop
  OBVIOUS
<1> HIDE DEF t
<1>2. \A i \in DOMAIN t : i \in DOMAIN q \/ t[i] = Stop
  BY <1>1
<1>3. \A i \in DOMAIN q : t[i] = q[i]
  BY <1>1
<1>4. {i \in DOMAIN q : q[i] # Stop} = {} => {i \in DOMAIN t : t[i] # Stop} = {}
  BY <1>2, <1>3
<1> QED
  BY <1>4 DEF t

LEMMA ShutdownStep ==
  ASSUME Types, Ways, Removals, Stages, ~running, [Next]_vars, ~UNCHANGED vars
  PROVE  /\ ShutdownLeft' <= ShutdownLeft
         /\ \A c \in Clients : NoMoreLeft(c)
         /\ sent' = sent => ShutdownLeft' < ShutdownLeft \/ \E c \in Clients : LessLeft(c)
<1>1. Roles /\ Inward /\ Outward /\ unread \in [Clients -> 0 .. Room + 1] /\ Room \in Nat \ {0}
  BY ConstantsAssumption DEF Types, Replies
<1>2. shut \in {"closing", "cleared", "exited"}
  BY DEF Stages, Types, Loop
<1>3. ASSUME NEW c \in Clients, UNCHANGED shut, NoMoreLeft(c), LessLeft(c) \/ sent' # sent,
             \A d \in Clients \ {c} : /\ link'[d] = link[d] /\ reader'[d] = reader[d] /\ thread'[d] = thread[d]
                                      /\ inq'[d] = inq[d] /\ handler'[d] = handler[d] /\ gen'[d] = gen[d]
                                      /\ unread'[d] = unread[d]
      PROVE  /\ ShutdownLeft' <= ShutdownLeft
             /\ \A d \in Clients : NoMoreLeft(d)
             /\ sent' = sent => ShutdownLeft' < ShutdownLeft \/ \E d \in Clients : LessLeft(d)
  <2>1. ShutdownLeft' = ShutdownLeft /\ ShutdownLeft \in Nat
    BY <1>3, LeftAreNumbers DEF ShutdownLeft
  <2>2. \A d \in Clients \ {c} : NoMoreLeft(d)
    BY <1>3, OthersStay
  <2> QED
    BY <1>3, <2>1, <2>2
<1>4. ASSUME NEW c \in Clients, thread'[c] = thread[c] \/ (thread[c] = "queued" /\ thread'[c] = "exited"),
             inq'[c] = Append(inq[c], Stop)
      PROVE  ThreadLeft(c)' <= ThreadLeft(c)
  <2>1. inq[c] \in Seq(Frame(c) \cup {Stop})
    BY <1>1 DEF Inward
  <2>2. Waiting(c) = {} => Waiting(c)' = {}
    BY <1>4, <2>1, StopIsNoFrame DEF Waiting
  <2> QED
    BY <1>4, <2>2 DEF ThreadLeft
<1>5. ASSUME NEW c \in Clients, SendFrame(c)
      PROVE  /\ ShutdownLeft' <= ShutdownLeft
             /\ \A d \in Clients : NoMoreLeft(d)
             /\ sent' = sent => ShutdownLeft' < ShutdownLeft \/ \E d \in Clients : LessLeft(d)
  <2>1. UNCHANGED <<shut, link, reader, thread, inq, handler, gen, unread>>
    BY <1>5 DEF SendFrame, loopVars
  <2>2. sent[c] < MaxFrames[c] /\ sent' = [sent EXCEPT ![c] = @ + 1] /\ c \in DOMAIN sent
    BY <1>1, <1>5 DEF SendFrame, Inward
  <2>a. MaxFrames[c] \in Nat /\ sent[c] \in 0 .. MaxFrames[c]
    BY <1>1, ConstantsAssumption DEF Inward
  <2>b. sent'[c] = sent[c] + 1 /\ sent[c] + 1 # sent[c]
    BY <2>2, <2>a
  <2>3. sent' # sent
    BY <2>b
  <2>4. NoMoreLeft(c)
    BY <2>1, PartsStay DEF NoMoreLeft
  <2> QED
    BY <1>3, <2>1, <2>3, <2>4
<1>6. ASSUME NEW c \in Clients, ReadReply(c) \/ Leave(c)
      PROVE  /\ ShutdownLeft' <= ShutdownLeft
             /\ \A d \in Clients : NoMoreLeft(d)
             /\ sent' = sent => ShutdownLeft' < ShutdownLeft \/ \E d \in Clients : LessLeft(d)
  <2>1. UNCHANGED <<shut, reader, thread, inq, handler, gen>>
    BY <1>6 DEF ReadReply, Leave, loopVars
  <2>2. \A d \in Clients \ {c} : link'[d] = link[d] /\ unread'[d] = unread[d]
    BY <1>1, <1>6 DEF ReadReply, Leave, Roles
  <2>3. unread[c] \in Nat
    BY <1>1
  <2>4. \/ link'[c] = link[c] /\ unread'[c] < unread[c]
        \/ link[c] = "open" /\ link'[c] = "eof" /\ unread'[c] = 0
    BY <1>1, <1>6 DEF ReadReply, Leave, Roles
  <2>5. /\ LinkLeft(c)' <= LinkLeft(c) /\ unread'[c] <= unread[c]
        /\ LinkLeft(c)' < LinkLeft(c) \/ unread'[c] < unread[c]
    <3>1. CASE link'[c] = link[c] /\ unread'[c] < unread[c]
      <4>1. unread'[c] \in Int
        BY <1>1, <1>6 DEF ReadReply, Leave, Roles
      <4> QED
        BY <2>3, <3>1, <4>1, PartsStay
    <3>2. CASE link[c] = "open" /\ link'[c] = "eof" /\ unread'[c] = 0
      BY <2>3, <3>2 DEF LinkLeft
    <3> QED
      BY <2>4, <3>1, <3>2
  <2>6. NoMoreLeft(c) /\ LessLeft(c)
    BY <2>1, <2>5, PartsStay DEF NoMoreLeft, LessLeft
  <2> QED
    BY <1>3, <2>1, <2>2, <2>6
<1>7. ASSUME NEW c \in Clients, ReadFrame(c) \/ ReadEnd(c)
      PROVE  /\ ShutdownLeft' <= ShutdownLeft
             /\ \A d \in Clients : NoMoreLeft(d)
             /\ sent' = sent => ShutdownLeft' < ShutdownLeft \/ \E d \in Clients : LessLeft(d)
  <2>1. /\ reader[c] = "reading" /\ reader' = [reader EXCEPT ![c] = "ended"]
        /\ UNCHANGED <<shut, link, thread, inq, handler, gen, unread>>
    BY <1>7 DEF ReadFrame, ReadEnd, loopVars
  <2>2. reader'[c] = "ended" /\ \A d \in Clients \ {c} : reader'[d] = reader[d]
    BY <1>1, <2>1 DEF Roles
  <2>3. ReaderLeft(c) = 1 /\ ReaderLeft(c)' = 0
    BY <2>1, <2>2 DEF ReaderLeft
  <2>4. NoMoreLeft(c) /\ LessLeft(c)
    BY <2>1, <2>3, PartsStay DEF NoMoreLeft, LessLeft
  <2> QED
    BY <1>3, <2>1, <2>2, <2>4
<1>8. ASSUME NEW c \in Clients,
             \/ StartThread(c) \/ StopThread(c) \/ EndThread(c) \/ TakeFrame(c) \/ RaisePushing(c)
             \/ Answer(c) \/ Raise(c)
      PROVE  /\ ShutdownLeft' <= ShutdownLeft
             /\ \A d \in Clients : NoMoreLeft(d)
             /\ sent' = sent => ShutdownLeft' < ShutdownLeft \/ \E d \in Clients : LessLeft(d)
  <2>1. UNCHANGED <<shut, link, reader, handler, gen, unread>>
    BY <1>8 DEF StartThread, StopThread, EndThread, TakeFrame, RaisePushing, Answer, Raise, loopVars
  <2>2. \A d \in Clients \ {c} : thread'[d] = thread[d] /\ inq'[d] = inq[d]
    BY <1>1, <1>8 DEF StartThread, StopThread, EndThread, TakeFrame, RaisePushing, Answer, Raise, Outward, Inward
  <2>3. ThreadLeft(c)' < ThreadLeft(c)
    <3>1. CASE StartThread(c) \/ StopThread(c) \/ Answer(c) \/ Raise(c)
      <4>1. inq'[c] = inq[c]
        BY <3>1 DEF StartThread, StopThread, Answer, Raise
      <4>2. \/ thread[c] \in {"queued", "working"} /\ thread'[c] = "idle"
            \/ thread[c] = "idle" /\ thread'[c] = "exited"
        BY <1>1, <3>1 DEF StartThread, StopThread, Answer, Raise, Outward
      <4>3. Waiting(c)' = Waiting(c)
        BY <4>1 DEF Waiting
      <4> QED
        BY <4>2, <4>3 DEF ThreadLeft
    <3>2. CASE EndThread(c)
      <4>1. inq'[c] = <<>> /\ thread[c] = "idle" /\ thread'[c] = "exited"
        BY <1>1, <3>2 DEF EndThread, Inward, Outward
      <4>2. Waiting(c)' = {}
        BY <4>1 DEF Waiting
      <4> QED
        BY <4>1, <4>2 DEF ThreadLeft
    <3>3. CASE TakeFrame(c) \/ RaisePushing(c)
      <4>1. /\ inq[c] # <<>> /\ ~Contains(inq[c], Stop) /\ inq'[c] = <<>>
            /\ thread[c] = "idle" /\ thread'[c] \in {"idle", "working"}
        BY <1>1, <3>3 DEF TakeFrame, RaisePushing, Inward, Outward
      <4>2. Waiting(c)' = {}
        BY <4>1 DEF Waiting
      <4>3. Waiting(c) # {}
        <5>1. inq[c] \in Seq(Frame(c) \cup {Stop})
          BY <1>1 DEF Inward
        <5>2. 1 \in DOMAIN inq[c] /\ 1 \in 1 .. Len(inq[c])
          BY <4>1, <5>1, LenProperties, EmptySeq
        <5>3. inq[c][1] # Stop
          BY <4>1, <5>2 DEF Contains
        <5> QED
          BY <5>2, <5>3 DEF Waiting
      <4> QED
        BY <4>1, <4>2, <4>3 DEF ThreadLeft
    <3> QED
      BY <1>8, <3>1, <3>2, <3>3
  <2>4. NoMoreLeft(c) /\ LessLeft(c)
    <3>1. ThreadLeft(c)' <= ThreadLeft(c)
      BY <2>3, LeftAreNumbers DEF ThreadLeft
    <3> QED
      BY <2>1, <2>3, <3>1, PartsStay DEF NoMoreLeft, LessLeft
  <2> QED
    BY <1>3, <2>1, <2>2, <2>4
<1>9. ASSUME NEW c \in Clients, LeaveLoop(c) \/ CloseDropped(c)
      PROVE  /\ ShutdownLeft' <= ShutdownLeft
             /\ \A d \in Clients : NoMoreLeft(d)
             /\ sent' = sent => ShutdownLeft' < ShutdownLeft \/ \E d \in Clients : LessLeft(d)
  <2>1. CloseGenerator(c) /\ UNCHANGED <<shut, link, unread>>
    BY <1>9 DEF LeaveLoop, CloseDropped, loopVars
  <2>2. \/ handler[c] = "poll" /\ handler' = [handler EXCEPT ![c] = "close"]
        \/ gen[c] = "dropped" /\ UNCHANGED handler
    BY <1>9 DEF LeaveLoop, CloseDropped
  <2>3. \A d \in Clients \ {c} : /\ reader'[d] = reader[d] /\ thread'[d] = thread[d] /\ inq'[d] = inq[d]
                                 /\ handler'[d] = handler[d] /\ gen'[d] = gen[d]
    BY <1>1, <2>1, <2>2 DEF CloseGenerator, Roles, Inward, Outward
  <2>4. /\ gen'[c] = "closed" /\ reader'[c] = "ended" /\ inq'[c] = Append(inq[c], Stop)
        /\ thread'[c] = thread[c] \/ (thread[c] = "queued" /\ thread'[c] = "exited")
    BY <1>1, <2>1 DEF CloseGenerator, Roles, Inward, Outward
  <2>5. ThreadLeft(c)' <= ThreadLeft(c)
    BY <1>4, <2>4
  <2>6. GenLeft(c)' <= GenLeft(c) /\ ReaderLeft(c)' <= ReaderLeft(c)
    BY <2>4 DEF GenLeft, ReaderLeft
  <2>7. HandlerLeft(c)' <= HandlerLeft(c) /\ (HandlerLeft(c)' < HandlerLeft(c) \/ GenLeft(c)' < GenLeft(c))
    <3>1. CASE handler[c] = "poll" /\ handler' = [handler EXCEPT ![c] = "close"]
      <4>1. handler'[c] = "close"
        BY <1>1, <3>1 DEF Roles
      <4> QED
        BY <3>1, <4>1 DEF HandlerLeft
    <3>2. CASE gen[c] = "dropped" /\ UNCHANGED handler
      BY <2>4, <3>2, PartsStay DEF GenLeft
    <3> QED
      BY <2>2, <3>1, <3>2
  <2>8. NoMoreLeft(c) /\ LessLeft(c)
    BY <2>1, <2>5, <2>6, <2>7, PartsStay DEF NoMoreLeft, LessLeft
  <2> QED
    BY <1>3, <2>1, <2>3, <2>8
<1>10. ASSUME NEW c \in Clients, TakeAnswer(c) \/ Drained(c)
       PROVE  /\ ShutdownLeft' <= ShutdownLeft
              /\ \A d \in Clients : NoMoreLeft(d)
              /\ sent' = sent => ShutdownLeft' < ShutdownLeft \/ \E d \in Clients : LessLeft(d)
  <2>1. UNCHANGED <<shut, link, reader, thread, inq, unread>>
    BY <1>10 DEF TakeAnswer, Drained, loopVars
  <2>2. \A d \in Clients \ {c} : handler'[d] = handler[d] /\ gen'[d] = gen[d]
    BY <1>1, <1>10 DEF TakeAnswer, Drained, Roles
  <2>3. \/ handler[c] \in {"poll", "drain"} /\ handler'[c] = "close"
        \/ handler[c] = "drain" /\ handler'[c] = "poll"
    BY <1>1, <1>10 DEF TakeAnswer, Drained, Roles
  <2>a. gen[c] = "live"
    BY <1>10 DEF TakeAnswer, Drained, Stages, Stage
  <2>b. gen'[c] \in {gen[c], "dropped"}
    BY <1>1, <1>10 DEF TakeAnswer, Drained, Roles
  <2>4. HandlerLeft(c)' < HandlerLeft(c) /\ HandlerLeft(c)' <= HandlerLeft(c)
    BY <2>3 DEF HandlerLeft
  <2>5. GenLeft(c)' <= GenLeft(c)
    BY <2>a, <2>b DEF GenLeft
  <2>6. NoMoreLeft(c) /\ LessLeft(c)
    BY <2>1, <2>4, <2>5, PartsStay DEF NoMoreLeft, LessLeft
  <2> QED
    BY <1>3, <2>1, <2>2, <2>6
<1>11. ASSUME NEW c \in Clients, CloseWriter(c) \/ WriterClosed(c)
       PROVE  /\ ShutdownLeft' <= ShutdownLeft
              /\ \A d \in Clients : NoMoreLeft(d)
              /\ sent' = sent => ShutdownLeft' < ShutdownLeft \/ \E d \in Clients : LessLeft(d)
  <2>1. UNCHANGED <<shut, reader, thread, inq, gen, unread>>
    BY <1>11 DEF CloseWriter, WriterClosed, loopVars
  <2>2. \A d \in Clients \ {c} : handler'[d] = handler[d] /\ link'[d] = link[d]
    BY <1>1, <1>11 DEF CloseWriter, WriterClosed, Roles
  <2>3. \/ handler[c] = "close" /\ handler'[c] \in {"closing", "failed"}
        \/ handler[c] = "closing" /\ handler'[c] = "done"
    BY <1>1, <1>11 DEF CloseWriter, WriterClosed, Roles
  <2>4. link'[c] = link[c] \/ link'[c] = "closed" \/ (link[c] \in {"open", "eof"} /\ link'[c] = "closing")
    BY <1>1, <1>11 DEF CloseWriter, WriterClosed, Roles, Stages, Stage
  <2>5. HandlerLeft(c)' < HandlerLeft(c) /\ HandlerLeft(c)' <= HandlerLeft(c)
    BY <2>3 DEF HandlerLeft
  <2>6. LinkLeft(c)' <= LinkLeft(c)
    <3>1. CASE link'[c] = link[c]
      BY <3>1, PartsStay
    <3>2. CASE link'[c] = "closed"
      BY <3>2 DEF LinkLeft
    <3>3. CASE link[c] \in {"open", "eof"} /\ link'[c] = "closing"
      BY <3>3 DEF LinkLeft
    <3> QED
      BY <2>4, <3>1, <3>2, <3>3
  <2>7. NoMoreLeft(c) /\ LessLeft(c)
    BY <2>1, <2>5, <2>6, PartsStay DEF NoMoreLeft, LessLeft
  <2> QED
    BY <1>3, <2>1, <2>2, <2>7
<1>12. ASSUME NEW c \in Clients, Connect(c) PROVE FALSE
  BY <1>2, <1>12 DEF Connect
<1>13. ASSUME StdinEnds \/ Signal \/ BeginShutdown PROVE FALSE
  BY <1>2, <1>13 DEF StdinEnds, Signal, BeginShutdown
<1>14. ASSUME ClearConnections \/ Exit
       PROVE  /\ ShutdownLeft' <= ShutdownLeft
              /\ \A d \in Clients : NoMoreLeft(d)
              /\ ShutdownLeft' < ShutdownLeft
  <2>1. UNCHANGED <<link, reader, thread, inq, handler, gen, unread>>
    BY <1>14 DEF ClearConnections, Exit, connVars
  <2>2. \A d \in Clients : NoMoreLeft(d)
    BY <2>1, PartsStay DEF NoMoreLeft
  <2>3. \/ shut = "closing" /\ shut' = "cleared"
        \/ shut = "cleared" /\ shut' = "exited"
    BY <1>14 DEF ClearConnections, ConnectionsGone, Exit
  <2>4. ShutdownLeft' < ShutdownLeft /\ ShutdownLeft' <= ShutdownLeft
    BY <2>3 DEF ShutdownLeft
  <2> QED
    BY <2>2, <2>4
<1> QED
  BY ONLY [Next]_vars, ~UNCHANGED vars, <1>5, <1>6, <1>7, <1>8, <1>9, <1>10, <1>11, <1>12, <1>13, <1>14
     DEF Next, Serve, Compute, Shutdown, Done

-----------------------------------------------------------------------------
(* The theorems *)

RowsOK == OneBusy /\ Pushed /\ LastIsHeld /\ AnsweredRowsMatch

LEMMA RowsInit == Init => RowsOK
<1> SUFFICES ASSUME Init PROVE RowsOK
  OBVIOUS
<1>1. Busy = {} /\ DOMAIN frames = {} /\ ToSet(frames) = {}
  BY DEF Init, Busy, ToSet
<1>2. OneBusy
  BY <1>1, FS_EmptySet DEF OneBusy
<1>3. Pushed
  BY <1>1 DEF Pushed, Taken, Before
<1>4. LastIsHeld
  BY DEF Init, LastIsHeld
<1> QED
  BY <1>1, <1>2, <1>3, <1>4 DEF RowsOK, AnsweredRowsMatch

LEMMA RowsStep ==
  ASSUME Types, Ways, RowsOK, [Next]_vars
  PROVE  RowsOK'
<1>1. OneBusy' /\ Pushed'
  BY BusyStep, PushedStep DEF RowsOK
<1>2. T \in Nat \ {0} /\ Window /\ frames \in Seq(Rows) /\ Outward
  BY ConstantsAssumption DEF Types, Window
<1>3. SUFFICES ASSUME Alone PROVE (LastIsHeld /\ AnsweredRowsMatch)'
  BY <1>1 DEF RowsOK, LastIsHeld, AnsweredRowsMatch, Alone
<1>4. /\ \A c, d \in Busy : c = d
      /\ \A c \in Clients : thread[c] = "working" => frames # <<>> /\ frames[Len(frames)] = Row(c, held[c])
      /\ ~misaligned => \A i \in DOMAIN frames : frames[i][2] \in produced[frames[i][1]] => actions[i] = frames[i]
  <2>1. (\A c, d \in Busy : c = d) /\ LastIsHeld
    BY <1>3 DEF RowsOK, OneBusy
  <2>2. ~misaligned => \A i \in DOMAIN frames : frames[i][2] \in produced[frames[i][1]] => actions[i] = frames[i]
    BY <1>3 DEF RowsOK, AnsweredRowsMatch, Alone
  <2> QED
    BY <1>3, <2>1, <2>2 DEF LastIsHeld
<1>5. \A i \in DOMAIN frames : \E d \in Clients : \E g \in Frame(d) : frames[i] = <<d, g>>
  BY <1>2 DEF Rows, Row
<1>6. ASSUME UNCHANGED <<frames, actions, misaligned, produced>>,
             \A c \in Clients : thread'[c] = "working" => thread[c] = "working" /\ held'[c] = held[c]
      PROVE  (LastIsHeld /\ AnsweredRowsMatch)'
  BY <1>4, <1>6 DEF LastIsHeld, AnsweredRowsMatch
<1>7. ASSUME NEW c \in Clients, TakeFrame(c) PROVE (LastIsHeld /\ AnsweredRowsMatch)'
  <2> DEFINE h == held'[c]
             r == Row(c, h)
             n == Len(frames)
  <2>1. h \in Frame(c) /\ r \in Rows /\ h \notin produced[c]
    BY <1>7, TakenIsNew DEF RowsOK
  <2>2. PushFrame(r)
    BY <1>7 DEF TakeFrame
  <2>3. Window'
    BY <1>2, <2>1, <2>2, PushTypes
  <2>4. thread[c] = "idle" /\ thread' = [thread EXCEPT ![c] = "working"] /\ UNCHANGED produced
    BY <1>7 DEF TakeFrame
  <2>5. \A d \in Clients : thread'[d] = "working" => d = c
    BY <1>2, <1>4, <2>4 DEF Busy, Outward
  <2> HIDE DEF n
  <2>6. PICK k \in {0, 1} :
           /\ n - k \in Nat /\ Len(frames') = n - k + 1 /\ frames'[Len(frames')] = r
           /\ \A i \in 1 .. n - k : frames'[i] = frames[i + k] /\ actions'[i] = actions[i + k]
    <3> HIDE DEF r
    <3> QED
      BY <1>2, <2>1, <2>2, PushRows DEF n
  <2>7. n \in Nat /\ DOMAIN frames = 1 .. n /\ DOMAIN frames' = 1 .. n - k + 1
    BY <1>2, <2>3, <2>6 DEF n, Window
  <2>8. LastIsHeld'
    <3>1. frames' # <<>>
      BY <2>6, <2>7
    <3> QED
      BY <2>5, <2>6, <3>1 DEF LastIsHeld
  <2>10. UNCHANGED misaligned
    BY <2>2 DEF PushFrame
  <2>9. ASSUME ~misaligned, NEW i \in DOMAIN frames', frames'[i][2] \in produced[frames'[i][1]]
        PROVE  actions'[i] = frames'[i]
    <3>1. CASE i = n - k + 1
      BY <2>1, <2>6, <2>9, <3>1 DEF Row
    <3>2. CASE i # n - k + 1
      <4>1. i \in 1 .. n - k /\ i + k \in DOMAIN frames
        BY <2>6, <2>7, <2>9, <3>2
      <4>2. frames'[i] = frames[i + k] /\ actions'[i] = actions[i + k]
        BY <2>6, <4>1
      <4> QED
        BY <1>4, <2>9, <4>1, <4>2
    <3> QED
      BY <3>1, <3>2
  <2> QED
    BY <2>4, <2>8, <2>9, <2>10 DEF AnsweredRowsMatch
<1>8. ASSUME NEW c \in Clients, Answer(c) PROVE (LastIsHeld /\ AnsweredRowsMatch)'
  <2> DEFINE n == Len(frames)
  <2>1. /\ thread[c] = "working" /\ thread' = [thread EXCEPT ![c] = "idle"] /\ UNCHANGED <<frames, misaligned>>
        /\ actions' = [actions EXCEPT ![n] = Row(c, held[c])]
        /\ produced' = [produced EXCEPT ![c] = produced[c] \cup {held[c]}]
    BY <1>8 DEF Answer
  <2>2. frames # <<>> /\ frames[n] = Row(c, held[c])
    BY <1>4, <2>1
  <2>3. \A d \in Clients : thread'[d] # "working"
    BY <1>2, <1>4, <2>1 DEF Busy, Outward
  <2>4. n \in 1 .. n /\ DOMAIN frames = 1 .. n /\ DOMAIN actions = 1 .. n
    BY <1>2, <2>2 DEF Window
  <2> HIDE DEF n
  <2>5. ASSUME ~misaligned, NEW i \in DOMAIN frames, frames[i][2] \in produced'[frames[i][1]]
        PROVE  actions'[i] = frames[i]
    <3>1. CASE i = n
      BY <2>1, <2>2, <2>4, <3>1
    <3>2. CASE i # n
      <4>1. PICK d \in Clients : \E x \in Frame(d) : frames[i] = <<d, x>>
        BY <1>5
      <4>2. PICK g \in Frame(d) : frames[i] = <<d, g>>
        BY <4>1
      <4>3. ~(d = c /\ g = held[c])
        BY <2>2, <2>4, <3>2, <4>2 DEF RowsOK, Pushed, Row
      <4>4. g \in produced[d]
        BY <1>2, <2>1, <2>5, <4>2, <4>3 DEF Outward
      <4>5. actions[i] = frames[i]
        BY <1>4, <2>5, <4>2, <4>4
      <4> QED
        BY <2>1, <2>4, <3>2, <4>5
    <3> QED
      BY <3>1, <3>2
  <2> QED
    BY <2>1, <2>3, <2>5 DEF LastIsHeld, AnsweredRowsMatch
<1>13. ASSUME NEW c \in Clients, RaisePushing(c) PROVE (LastIsHeld /\ AnsweredRowsMatch)'
  <2> DEFINE n == Len(frames)
  <2>1. PushFails /\ thread[c] = "idle" /\ UNCHANGED <<thread, held, produced>>
    BY <1>13 DEF RaisePushing
  <2>2. \A d \in Clients : thread[d] # "working"
    <3>1. c \in Busy
      BY <2>1 DEF Busy
    <3> QED
      BY <1>4, <2>1, <3>1 DEF Busy
  <2>3. CASE UNCHANGED window
    BY <1>6, <2>1, <2>3 DEF window
  <2>4. CASE frames # <<>> /\ frames' = Rolled(frames) /\ misaligned' = TRUE
    BY <2>1, <2>2, <2>4 DEF LastIsHeld, AnsweredRowsMatch
  <2>5. CASE frames # <<>> /\ frames' = Rolled(frames) /\ actions' = Rolled(actions) /\ UNCHANGED misaligned
    <3>1. /\ actions \in Seq(Rows \cup {NoAction}) /\ actions # <<>> /\ Len(actions) = n
      BY <1>2, <2>5 DEF Window
    <3>2. /\ n \in Nat \ {0} /\ DOMAIN frames = 1 .. n /\ DOMAIN frames' = 1 .. n
          /\ frames'[n] = frames[1] /\ \A i \in 1 .. n - 1 : frames'[i] = frames[i + 1]
      BY <1>2, <2>5, RolledRows
    <3>3. actions'[n] = actions[1] /\ \A i \in 1 .. n - 1 : actions'[i] = actions[i + 1]
      BY <2>5, <3>1, RolledRows
    <3> HIDE DEF n
    <3>4. ASSUME NEW i \in 1 .. n PROVE \E j \in 1 .. n : frames'[i] = frames[j] /\ actions'[i] = actions[j]
      <4>1. CASE i = n
        BY <3>2, <3>3, <4>1
      <4>2. CASE i # n
        <5>1. i \in 1 .. n - 1 /\ i + 1 \in 1 .. n
          BY <3>2, <4>2
        <5> QED
          BY <3>2, <3>3, <5>1
      <4> QED
        BY <4>1, <4>2
    <3>5. ASSUME ~misaligned, NEW i \in 1 .. n, frames'[i][2] \in produced[frames'[i][1]]
          PROVE  actions'[i] = frames'[i]
      <4>1. PICK j \in 1 .. n : frames'[i] = frames[j] /\ actions'[i] = actions[j]
        BY <3>4
      <4> QED
        BY <1>4, <3>2, <3>5, <4>1
    <3> QED
      BY <2>1, <2>2, <2>5, <3>2, <3>5 DEF LastIsHeld, AnsweredRowsMatch
  <2> QED
    BY <1>2, <2>1, <2>3, <2>4, <2>5, FailedPush
<1>9. ASSUME NEW c \in Clients, StartThread(c) \/ StopThread(c) \/ EndThread(c) \/ Raise(c)
      PROVE  (LastIsHeld /\ AnsweredRowsMatch)'
  <2>1. UNCHANGED <<frames, actions, misaligned, produced>>
    BY <1>9 DEF StartThread, StopThread, EndThread, Raise, window
  <2>2. \A d \in Clients : thread'[d] = "working" => thread[d] = "working" /\ held'[d] = held[d]
    BY <1>2, <1>9 DEF StartThread, StopThread, EndThread, Raise, Outward
  <2> QED
    BY <1>6, <2>1, <2>2
<1>10. ASSUME NEW c \in Clients, Connect(c) \/ LeaveLoop(c) \/ CloseDropped(c)
       PROVE  (LastIsHeld /\ AnsweredRowsMatch)'
  <2>1. UNCHANGED <<frames, actions, misaligned, produced, held>>
    BY <1>10 DEF Connect, LeaveLoop, CloseDropped, window
  <2>2. \A d \in Clients : thread'[d] = "working" => thread[d] = "working"
    BY <1>2, <1>10 DEF Connect, LeaveLoop, CloseDropped, CloseGenerator, Outward
  <2> QED
    BY <1>6, <2>1, <2>2
<1>11. ASSUME NEW c \in Clients, SendFrame(c) \/ ReadReply(c) \/ Leave(c) \/ ReadFrame(c) \/ ReadEnd(c)
              \/ TakeAnswer(c) \/ Drained(c) \/ CloseWriter(c) \/ WriterClosed(c)
       PROVE  (LastIsHeld /\ AnsweredRowsMatch)'
  <2>1. UNCHANGED <<frames, actions, misaligned, produced, held, thread>>
    BY <1>11 DEF SendFrame, ReadReply, Leave, ReadFrame, ReadEnd, TakeAnswer, Drained, CloseWriter, WriterClosed, window
  <2> QED
    BY <1>6, <2>1
<1>12. ASSUME StdinEnds \/ Signal \/ BeginShutdown \/ ClearConnections \/ Exit \/ UNCHANGED vars
       PROVE  (LastIsHeld /\ AnsweredRowsMatch)'
  <2>1. UNCHANGED <<frames, actions, misaligned, produced, held, thread>>
    BY <1>12 DEF StdinEnds, Signal, BeginShutdown, ClearConnections, Exit, connVars, window, vars
  <2> QED
    BY <1>6, <2>1
<1> QED
  BY ONLY [Next]_vars, <1>7, <1>8, <1>9, <1>10, <1>11, <1>12, <1>13 DEF Next, Serve, Compute, Shutdown, Done

IInv == Types /\ Ways /\ Removals /\ RowsOK /\ Closed /\ Stages

LEMMA Inductive == Spec => []IInv
<1>1. Init => IInv
  <2> SUFFICES ASSUME Init PROVE IInv
    OBVIOUS
  <2>1. Removals
    BY DEF Init, Removals, Handled
  <2>2. Closed
    BY EmptyIn DEF Init, Closed
  <2> QED
    BY <2>1, <2>2, TypesInit, WaysInit, RowsInit, StagesInit DEF IInv
<1>2. IInv /\ [Next]_vars => IInv'
  BY TypesStep, WaysStep, RemovalsStep, RowsStep, ClosedStep, StagesStep DEF IInv
<1> QED
  BY <1>1, <1>2, PTL DEF Spec

\* Every variable keeps its type, for any number of connections, threads, frames and rows.
THEOREM TypeCorrect == Spec => []TypeOK
<1>1. IInv => TypeOK
  BY TypesHaveTypes DEF IInv
<1> QED
  BY <1>1, Inductive, PTL

\* Frames and answers of a connection never overtake one another and none is there twice.
THEOREM OrderTheorem == Spec => []AnswersInOrder
<1>1. ASSUME IInv PROVE AnswersInOrder
  <2> SUFFICES ASSUME NEW c \in Clients
               PROVE  /\ \A i, j \in OnItsWay(c) : i < j => Line(c)[i] < Line(c)[j]
                      /\ \A f \in Handed(c), i \in OnItsWay(c) : f < Line(c)[i]
    BY DEF AnswersInOrder
  <2>1. WayOK(Frame(c), sent[c], sock[c], inq[c], held[c], outq[c], produced[c])
    BY <1>1 DEF IInv, Ways, Way
  <2>2. Line(c) = outq[c] \o <<held[c]>> \o inq[c] \o sock[c]
    BY DEF Line
  <2>3. Increasing(Frame(c), Line(c)) /\ Before(produced[c] \ ToSet(outq[c]), ToSet(Line(c)) \cap Frame(c))
    BY <2>1, <2>2, WayInOrder, FramesAreNumbers
  <2>4. \A i \in OnItsWay(c) : i \in DOMAIN Line(c) /\ Line(c)[i] \in ToSet(Line(c)) \cap Frame(c)
    BY DEF OnItsWay, ToSet
  <2> QED
    BY <2>3, <2>4 DEF Increasing, Before, Handed
<1> QED
  BY <1>1, Inductive, PTL

\* The server implements the answer stream: what a client has sent is answered from the oldest
\* on, each frame at most once, dropped only with all older ones or after a shutdown, and the
\* answers reach its handler in that order.
THEOREM ServerImplementsStream == Spec => ImplementsAnswerStream
<1>1. IInv /\ [Next]_vars => [Stream!Next]_(Stream!vars)
  BY StreamStep DEF IInv
<1> QED
  BY <1>1, StreamInit, Inductive, PTL DEF Spec, ImplementsAnswerStream, Stream!Spec

\* Only a connection whose pipe is broken already is missing when its handler removes it.
THEOREM RemovalTheorem == Spec => []RemovalFailsOnlyWhenLost
<1>1. IInv => RemovalFailsOnlyWhenLost
  BY DEF IInv, Removals, Handled, RemovalFailsOnlyWhenLost
<1> QED
  BY <1>1, Inductive, PTL

\* With one thread, or one connection, the row of every answered frame holds its own action,
\* unless a call has ended between the rolls of the two arrays.
THEOREM RowsTheorem == Spec => []AnsweredRowsMatch
<1>1. IInv => AnsweredRowsMatch
  BY DEF IInv, RowsOK
<1> QED
  BY <1>1, Inductive, PTL

\* A shutdown never waits in a cycle: until the process has ended, the shutdown, a coroutine
\* or a thread can go on, or a client has replies to read.
THEOREM ShutdownNeverStuck == Spec => []ShutdownNotStuck
<1>1. IInv => ShutdownNotStuck
  BY NotStuckInStages DEF IInv
<1> QED
  BY <1>1, Inductive, PTL

\* Once a shutdown has begun, each step but a client's sending uses up something of what is
\* left and none adds anything.
THEOREM ShutdownTheorem == Spec => ShutdownProceeds
<1> DEFINE Uses == ~running =>
                     /\ ShutdownLeft' <= ShutdownLeft
                     /\ \A c \in Clients : NoMoreLeft(c)
                     /\ sent' = sent => ShutdownLeft' < ShutdownLeft \/ \E c \in Clients : LessLeft(c)
<1>1. IInv /\ [Next]_vars => [Uses]_vars
  BY ShutdownStep DEF IInv
<1>2. Spec => [][Uses]_vars
  BY <1>1, Inductive, PTL DEF Spec
<1> QED
  BY <1>2 DEF ShutdownProceeds
=============================================================================
