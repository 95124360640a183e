--------------------------- MODULE Stage3StepProofs ---------------------------
(***************************************************************************)
(* Proofs about the policy, for every number of slots, tokens and layers,  *)
(* every data set and every schedule.  First the attention mask by itself: *)
(* no prediction depends on its own label or on the future.  On its        *)
(* inductive invariant rests what is said of the whole policy, data set,   *)
(* transformer and head: the last action of a sequence is predicted        *)
(* unseen.  Then the denoising, and last the data set's examples: what is  *)
(* learnt from is what was recorded, in the right frame of reference.      *)
(***************************************************************************)
EXTENDS Stage3Step, SequenceTheorems, FiniteSetTheorems, TLAPS

(* The attention mask: its own specification, Spec *)

\* What a position of each kind may depend on.  The inductive invariant has to say it of
\* every kind of position: what action_out attends to brings its own dependencies along.
Causal ==
  \A q \in Positions : \A k \in reads[q] :
    /\ Step(k) <= Step(q)
    /\ IsRealAction(k) /\ ~IsRealAction(q) => Step(k) < Step(q)

IInv == TypeOK /\ Causal /\ OutputsAreReadOnly /\ ReceptiveField

\* A position never loses what it depends on, itself to begin with.
Reading == (\A q \in Positions : q \in reads[q]) /\ OutputSeesHistory

\* Division undoes a multiplication with a remainder.
LEMMA Quotient ==
  ASSUME NEW n \in Nat \ {0}, NEW a \in Nat, NEW i \in 0 .. n - 1
  PROVE  (a * n + i) \div n = a /\ (a * n + i) % n = i
<1> DEFINE q == a * n + i
           d == q \div n
           r == q % n
<1>1. q \in Nat
  BY SMT
<1>2. q = n * d + r /\ r \in 0 .. n - 1 /\ d \in Int
  BY <1>1, SMT
<1> HIDE DEF d, r
<1>3. n * (a - d) = r - i
  BY <1>2, SMT
<1>4. CASE a - d >= 1
  <2>1. n * (a - d) >= n
    BY <1>2, <1>4, SMT
  <2>2. QED
    BY <1>2, <1>3, <2>1, SMT
<1>5. CASE a - d <= -1
  <2>1. n * (a - d) <= -n
    BY <1>2, <1>5, SMT
  <2>2. QED
    BY <1>2, <1>3, <2>1, SMT
<1>6. CASE a = d
  BY <1>2, <1>3, <1>6, SMT DEF d, r
<1>7. QED
  BY <1>2, <1>4, <1>5, <1>6, SMT

\* The sizes of a step and of the sequence (_img_policy_causal_mask, max_seq_len).
LEMMA Sizes ==
  /\ TokenToActionOut \in Nat /\ OneStepLen \in Nat \ {0} /\ NSinks \in Nat
  /\ Positions \subseteq Nat
  /\ \A kv \in KvIndices : kv >= NSinks => Base(kv) \in Positions
  /\ \A idx \in Positions : Step(idx) \in Int /\ Slot(idx) \in Int
<1>1. TokenToActionOut \in Nat /\ OneStepLen \in Nat \ {0} /\ NSinks \in Nat
  BY MaskAssumption DEF TokenToActionOut, OneStepLen
<1>2. OneStepLen * NSteps \in Nat
  BY <1>1, MaskAssumption
<1>3. Positions \subseteq Nat
  BY <1>2 DEF Positions
<1>4. \A kv \in KvIndices : kv >= NSinks => Base(kv) \in Positions
  BY <1>1, <1>2 DEF KvIndices, Base, Positions
<1>5. \A idx \in Positions : Step(idx) \in Int /\ Slot(idx) \in Int
  BY <1>1, <1>3 DEF Step, Slot
<1>6. QED
  BY <1>1, <1>3, <1>4, <1>5

\* Every position of a step is of exactly one kind.
LEMMA Kinds ==
  ASSUME NEW k \in Positions
  PROVE  /\ ~(IsRealAction(k) /\ IsObservation(k)) /\ ~(IsRealAction(k) /\ IsActionOut(k))
         /\ ~(IsObservation(k) /\ IsActionOut(k))
         /\ IsRealAction(k) \/ IsObservation(k) \/ IsActionOut(k)
<1>1. Slot(k) \in Int /\ TokenToActionOut \in Int
  BY Sizes
<1>2. QED
  BY <1>1 DEF IsRealAction, IsObservation, IsActionOut

LEMMA InitIInv == Init => IInv
<1> SUFFICES ASSUME Init PROVE IInv
  OBVIOUS
<1>1. attentionHistoryLen \in [1 .. NLayers -> 0 .. NSteps] /\ layer = 0 /\ reach = 0
      /\ reads = [q \in Positions |-> {q}]
  BY DEF Init
<1>2. \A q \in Positions : Step(q) \in Int
  BY Sizes
<1>3. TypeOK
  <2>1. layer \in 0 .. NLayers
    BY <1>1, MaskAssumption
  <2>2. reads \in [Positions -> SUBSET Positions]
    BY <1>1
  <2>3. QED
    BY <1>1, <2>1, <2>2 DEF TypeOK
<1>4. Causal /\ OutputsAreReadOnly /\ ReceptiveField
  BY <1>1, <1>2 DEF Causal, OutputsAreReadOnly, ReceptiveField
<1>5. QED
  BY <1>3, <1>4 DEF IInv

\* What one layer may add to a position q: the dependencies of a position that the mask lets
\* q attend to.
LEMMA Attended ==
  ASSUME TypeOK, NEW q \in Positions, NEW h \in Nat, NEW k \in AttendTo(q, h)
  PROVE  \E m \in Positions :
           /\ k \in reads[m]
           /\ EarlierStep(q, m) \/ SameStep(q, m)
           /\ WithinHistory(h, q, m)
<1>1. PICK kv \in KvIndices : kv >= NSinks /\ Mask(h, q, kv) /\ k \in reads[Base(kv)]
  BY DEF AttendTo
<1>2. kv \in Int /\ NSinks \in Int
  BY Sizes, MaskAssumption DEF KvIndices
<1>3. ~(kv < NSinks)
  BY <1>1, <1>2
<1>4. (EarlierStep(q, Base(kv)) \/ SameStep(q, Base(kv))) /\ WithinHistory(h, q, Base(kv))
  BY <1>1, <1>3 DEF Mask
<1>5. Base(kv) \in Positions
  BY <1>1, Sizes
<1>6. QED
  BY <1>1, <1>4, <1>5

LEMMA LayerIInv == IInv /\ ApplyLayer => IInv'
<1> SUFFICES ASSUME IInv, ApplyLayer PROVE IInv'
  OBVIOUS
<1> DEFINE h == attentionHistoryLen[layer']
<1>1. /\ layer \in 0 .. NLayers /\ layer < NLayers /\ layer' = layer + 1 /\ NLayers \in Nat
      /\ attentionHistoryLen \in [1 .. NLayers -> 0 .. NSteps] /\ reach \in Nat
      /\ reads \in [Positions -> SUBSET Positions] /\ NSteps \in Nat
      /\ reads' = [q \in Positions |-> reads[q] \union AttendTo(q, h)]
      /\ reach' = reach + h /\ UNCHANGED attentionHistoryLen
  BY MaskAssumption DEF IInv, TypeOK, ApplyLayer
<1>2. h \in 0 .. NSteps /\ h \in Nat
  BY <1>1
<1> HIDE DEF h
<1>3. ASSUME NEW q \in Positions, NEW k \in reads'[q], k \notin reads[q]
      PROVE  \E m \in Positions : /\ k \in reads[m]
                                  /\ EarlierStep(q, m) \/ SameStep(q, m)
                                  /\ WithinHistory(h, q, m)
  <2>1. k \in AttendTo(q, h)
    BY <1>1, <1>3
  <2>2. QED
    BY <1>2, <2>1, Attended DEF IInv
<1>4. TypeOK'
  <2>1. \A q \in Positions : AttendTo(q, h) \subseteq Positions
    BY <1>1, <1>2, Attended DEF IInv
  <2>2. reads' \in [Positions -> SUBSET Positions]
    BY <1>1, <2>1
  <2>3. layer' \in 0 .. NLayers /\ reach' \in Nat
    BY <1>1, <1>2
  <2>4. QED
    BY <1>1, <2>2, <2>3 DEF TypeOK
<1>5. ASSUME NEW q \in Positions, NEW k \in reads'[q], k \notin reads[q]
      PROVE  /\ Step(k) <= Step(q)
             /\ IsRealAction(k) /\ ~IsRealAction(q) => Step(k) < Step(q)
             /\ IsActionOut(k) => k = q
             /\ Step(q) - Step(k) <= reach'
  <2>1. PICK m \in Positions : /\ k \in reads[m]
                               /\ EarlierStep(q, m) \/ SameStep(q, m)
                               /\ WithinHistory(h, q, m)
    BY <1>3, <1>5
  <2>2. k \in Positions
    BY <1>1, <2>1
  <2>3. Step(k) \in Int /\ Step(q) \in Int /\ Step(m) \in Int
    BY <2>2, Sizes
  <2>4. /\ Step(k) <= Step(m)
        /\ IsRealAction(k) /\ ~IsRealAction(m) => Step(k) < Step(m)
        /\ IsActionOut(k) => k = m
        /\ Step(m) - Step(k) <= reach
    BY <2>1 DEF IInv, Causal, OutputsAreReadOnly, ReceptiveField
  <2>5. Step(q) - Step(m) <= h
    BY <2>1 DEF WithinHistory
  <2>6. CASE EarlierStep(q, m)
    <3>1. Step(m) < Step(q) /\ ~IsActionOut(m)
      BY <2>6 DEF EarlierStep
    <3>2. ~IsActionOut(k)
      BY <2>4, <3>1
    <3>3. QED
      BY <1>1, <1>2, <2>3, <2>4, <2>5, <3>1, <3>2
  <2>7. CASE SameStep(q, m)
    <3>1. Step(m) = Step(q)
      BY <2>7 DEF SameStep
    <3>2. IsRealAction(m) => IsRealAction(q)
      BY <2>7, Kinds DEF SameStep
    <3>3. IsActionOut(k) => IsActionOut(q) /\ k = m /\ IsActionOut(m)
      BY <2>4, <2>7, Kinds DEF SameStep
    <3>4. Step(k) <= Step(q) /\ Step(q) - Step(k) <= reach'
          /\ (IsRealAction(k) /\ ~IsRealAction(q) => Step(k) < Step(q))
      BY <1>1, <1>2, <2>3, <2>4, <3>1, <3>2
    <3>5. IsActionOut(k) => k = q
      <4> SUFFICES ASSUME IsActionOut(k) PROVE k = q
        OBVIOUS
      <4>1. /\ q \in Positions /\ m \in Positions /\ Slot(q) = TokenToActionOut
            /\ Slot(m) = TokenToActionOut /\ Step(m) = Step(q)
        BY <3>1, <3>3 DEF IsActionOut
      <4>2. q \in Int /\ m \in Int /\ OneStepLen \in Nat \ {0}
        BY <4>1, Sizes
      <4>3. q = OneStepLen * Step(q) + Slot(q) /\ m = OneStepLen * Step(m) + Slot(m)
        BY <4>2 DEF Step, Slot
      <4>4. q = m
        BY <4>1, <4>3
      <4>5. QED
        BY <3>3, <4>4
    <3>6. QED
      BY <3>4, <3>5
  <2>8. QED
    BY <2>1, <2>6, <2>7
<1>6. \A q \in Positions : \A k \in reads[q] : Step(q) \in Int /\ Step(k) \in Int
  BY <1>1, Sizes
<1>7. Causal'
  <2>1. \A q \in Positions : \A k \in reads'[q] :
          /\ Step(k) <= Step(q)
          /\ IsRealAction(k) /\ ~IsRealAction(q) => Step(k) < Step(q)
    BY <1>5 DEF IInv, Causal
  <2>2. QED
    BY <2>1 DEF Causal
<1>8. OutputsAreReadOnly'
  <2>1. \A q \in Positions : \A k \in reads'[q] : IsActionOut(k) => k = q
    BY <1>5 DEF IInv, OutputsAreReadOnly
  <2>2. QED
    BY <2>1 DEF OutputsAreReadOnly
<1>9. ReceptiveField'
  <2>1. ASSUME NEW q \in Positions, NEW k \in reads'[q] PROVE Step(q) - Step(k) <= reach'
    <3>1. CASE k \in reads[q]
      <4>1. Step(q) - Step(k) <= reach
        BY <3>1 DEF IInv, ReceptiveField
      <4>2. QED
        BY <4>1, <3>1, <1>1, <1>2, <1>6
    <3>2. CASE k \notin reads[q]
      BY <3>2, <1>5
    <3>3. QED
      BY <3>1, <3>2
  <2>2. QED
    BY <2>1 DEF ReceptiveField
<1>10. QED
  BY <1>4, <1>7, <1>8, <1>9 DEF IInv

\* Where the predictions are read.
LEMMA OutputPosition ==
  ASSUME NEW t \in 0 .. NSteps - 1
  PROVE  OutputIdx(t) \in Positions /\ Step(OutputIdx(t)) = t /\ IsActionOut(OutputIdx(t))
<1>1. t \in Nat /\ t + 1 <= NSteps /\ NSteps \in Nat
  BY MaskAssumption
<1>2. /\ OneStepLen \in Nat \ {0} /\ TokenToActionOut \in 0 .. OneStepLen - 1
      /\ TokenToActionOut = NImg + NText + NThinking
      /\ NImg \in Nat /\ NText \in Nat /\ NThinking \in Nat
  BY MaskAssumption, Sizes DEF OneStepLen, TokenToActionOut
<1>3. t * OneStepLen \in Nat
  BY <1>1, <1>2
<1>4. OutputIdx(t) = t * OneStepLen + TokenToActionOut
  BY <1>2, <1>3 DEF OutputIdx
<1>5. Step(OutputIdx(t)) = t /\ Slot(OutputIdx(t)) = TokenToActionOut
  <2>1. /\ (t * OneStepLen + TokenToActionOut) \div OneStepLen = t
        /\ (t * OneStepLen + TokenToActionOut) % OneStepLen = TokenToActionOut
    BY ONLY <1>1, <1>2, Quotient
  <2>2. QED
    BY <1>4, <2>1 DEF Step, Slot
<1>6. OutputIdx(t) \in Positions
  <2>1. (t + 1) * OneStepLen <= NSteps * OneStepLen
    BY <1>1, <1>2
  <2>2. (t + 1) * OneStepLen = t * OneStepLen + OneStepLen
    BY <1>1, <1>2
  <2>3. QED
    BY <1>1, <1>2, <1>3, <1>4, <2>1, <2>2 DEF Positions
<1>7. QED
  BY <1>5, <1>6 DEF IsActionOut

LEMMA InitReading == Init => Reading
  BY DEF Init, Reading, OutputSeesHistory

\* A layer lets an output attend to all it should, and takes nothing away.
LEMMA LayerReading == IInv /\ Reading /\ ApplyLayer => Reading'
<1> SUFFICES ASSUME IInv, Reading, ApplyLayer PROVE Reading'
  OBVIOUS
<1> DEFINE h == attentionHistoryLen[layer']
<1>1. /\ layer' = layer + 1 /\ layer \in Nat /\ UNCHANGED attentionHistoryLen
      /\ reads' = [q \in Positions |-> reads[q] \union AttendTo(q, h)]
  BY MaskAssumption DEF IInv, TypeOK, ApplyLayer
<1>2. \A q \in Positions : reads[q] \subseteq reads'[q]
  BY <1>1
<1>3. \A q \in Positions : q \in reads'[q]
  BY <1>2 DEF Reading
<1>4. ASSUME layer' >= 1, NEW t \in 0 .. NSteps - 1, NEW k \in Positions,
             t - Step(k) \in 0 .. attentionHistoryLen[1],
             IsObservation(k) \/ (IsRealAction(k) /\ Step(k) < t)
      PROVE  k \in reads'[OutputIdx(t)]
  <2>1. OutputIdx(t) \in Positions /\ Step(OutputIdx(t)) = t /\ IsActionOut(OutputIdx(t))
    BY OutputPosition
  <2>2. CASE layer >= 1
    <3>1. k \in reads[OutputIdx(t)]
      BY <1>4, <2>2 DEF Reading, OutputSeesHistory
    <3>2. QED
      BY <1>2, <2>1, <3>1
  <2>3. CASE layer = 0
    <3>1. h = attentionHistoryLen[1]
      BY <1>1, <2>3
    <3>2. Step(k) \in Int /\ t \in Int /\ k \in Nat /\ NSinks \in Nat
      BY Sizes
    <3>3. ~IsActionOut(k) /\ (IsObservation(k) => ~IsRealAction(k))
      BY <1>4, Kinds
    <3>4. EarlierStep(OutputIdx(t), k) \/ SameStep(OutputIdx(t), k)
      <4>1. CASE Step(k) < t
        BY <2>1, <3>3, <4>1 DEF EarlierStep
      <4>2. CASE Step(k) = t
        BY <1>4, <2>1, <3>2, <3>3, <4>2 DEF SameStep
      <4>3. Step(k) <= t
        <5>1. PICK i \in 0 .. h : t - Step(k) = i
          BY <1>4, <3>1
        <5>2. i >= 0 /\ i \in Int
          OBVIOUS
        <5>3. QED
          BY <3>2, <5>1, <5>2
      <4>4. QED
        BY <3>2, <4>1, <4>2, <4>3
    <3>5. WithinHistory(h, OutputIdx(t), k)
      <4>1. PICK i \in 0 .. h : t - Step(k) = i
        BY <1>4, <3>1
      <4>2. QED
        BY <2>1, <4>1 DEF WithinHistory
    <3>6. k + NSinks \in KvIndices /\ k + NSinks >= NSinks /\ Base(k + NSinks) = k
      <4>1. k <= OneStepLen * NSteps - 1 /\ OneStepLen * NSteps \in Int
        BY Sizes, MaskAssumption DEF Positions
      <4>2. QED
        BY <3>2, <4>1 DEF KvIndices, Base
    <3>7. Mask(h, OutputIdx(t), k + NSinks)
      BY <3>4, <3>5, <3>6 DEF Mask
    <3>8. k \in AttendTo(OutputIdx(t), h)
      BY <3>6, <3>7 DEF AttendTo, Reading
    <3>9. QED
      BY <1>1, <2>1, <3>8
  <2>4. QED
    BY <1>1, <2>2, <2>3
<1>5. OutputSeesHistory'
  BY <1>1, <1>4 DEF OutputSeesHistory
<1>6. QED
  BY <1>3, <1>5 DEF Reading

LEMMA Invariance == Spec => [](IInv /\ Reading)
<1>1. IInv /\ Reading /\ UNCHANGED vars => IInv' /\ Reading'
  BY DEF IInv, TypeOK, Causal, OutputsAreReadOnly, ReceptiveField, Reading, OutputSeesHistory, vars
<1>2. IInv /\ Reading /\ [Next]_vars => IInv' /\ Reading'
  BY <1>1, LayerIInv, LayerReading DEF Next
<1>3. QED
  BY InitIInv, InitReading, <1>2, PTL DEF Spec

\* Every position depends on positions of the sequence only, however many sinks there are.
THEOREM TypeCorrect == Spec => []TypeOK
<1>1. IInv => TypeOK
  BY DEF IInv
<1>2. QED
  BY <1>1, Invariance, PTL

LEMMA OutputsAreCausal == IInv => PredictionIsCausal
<1> SUFFICES ASSUME IInv, NEW q \in Positions, IsActionOut(q), NEW k \in reads[q]
             PROVE  Step(k) <= Step(q) /\ (IsRealAction(k) => Step(k) < Step(q))
  BY DEF PredictionIsCausal
<1>1. ~IsRealAction(q)
  BY Kinds
<1>2. QED
  BY <1>1 DEF IInv, Causal

\* The output of action_out depends on no real action of its own step or a later one, and on
\* no observation of a later one (_img_policy_causal_mask, through all layers).
THEOREM PredictionCausal == Spec => []PredictionIsCausal
  BY Invariance, OutputsAreCausal, PTL

\* No other position ever depends on an action_out token.
THEOREM OutputsReadOnly == Spec => []OutputsAreReadOnly
<1>1. IInv => OutputsAreReadOnly
  BY DEF IInv
<1>2. QED
  BY <1>1, Invariance, PTL

\* The receptive field is bounded by the sum of attention_history_len.
THEOREM FieldBounded == Spec => []ReceptiveField
<1>1. IInv => ReceptiveField
  BY DEF IInv
<1>2. QED
  BY <1>1, Invariance, PTL

\* From the first layer on, every output depends on its whole observation and on the
\* observations and actions of the history that layer may attend to.
THEOREM HistorySeen == Spec => []OutputSeesHistory
<1>1. Reading => OutputSeesHistory
  BY DEF Reading
<1>2. QED
  BY <1>1, Invariance, PTL
-----------------------------------------------------------------------------
(* The policy: StepSpec *)

\* The property in the form a step preserves: besides it, a prediction knows which slots
\* count before the head has looked, and those are slots of the sequence.
OutShape ==
  out # <<>> => /\ out = [by |-> out.by, steps |-> out.steps, inputs |-> out.inputs]
                /\ out.steps \in SUBSET (1 .. T)

OutInv ==
  /\ pc = "predict" => out # <<>>
  /\ OutShape
  /\ LastActionUnseen

SInv == IInv /\ Reading /\ OutInv

\* Positions of the sequence that a slot's condition tokens are taken from.
LEMMA ConditionPositions ==
  ASSUME NEW k \in 1 .. T
  PROVE  /\ OutputIdx(k - 1) \in Positions /\ ~IsRealAction(OutputIdx(k - 1))
         /\ Step(OutputIdx(k - 1)) = k - 1
         /\ \A q \in ImageOut(k - 1) : q \in Positions /\ ~IsRealAction(q) /\ Step(q) = k - 1
<1>1. k - 1 \in 0 .. NSteps - 1 /\ NSteps \in Nat
  BY StepAssumption, MaskAssumption
<1>2. OneStepLen \in Nat \ {0} /\ TokenToActionOut \in Nat /\ OneStepLen = TokenToActionOut + 1 + NAction
      /\ NAction \in Nat
  BY Sizes, MaskAssumption DEF OneStepLen
<1>3. ASSUME NEW i \in 0 .. TokenToActionOut, NEW q, q = (k - 1) * OneStepLen + i
      PROVE  q \in Positions /\ ~IsRealAction(q) /\ Step(q) = k - 1
  <2>1. i \in 0 .. OneStepLen - 1
    BY <1>2
  <2>2. q \in Nat /\ q <= OneStepLen * NSteps - 1
    <3>1. (k - 1) * OneStepLen \in Nat
      BY <1>1, <1>2
    <3>2. (k - 1) * OneStepLen + OneStepLen = k * OneStepLen
      BY <1>1, <1>2
    <3>3. k * OneStepLen <= NSteps * OneStepLen
      BY <1>1, <1>2
    <3>4. QED
      BY <1>1, <1>2, <1>3, <2>1, <3>1, <3>2, <3>3
  <2>3. q \div OneStepLen = k - 1 /\ q % OneStepLen = i
    <3>1. k - 1 \in Nat
      BY <1>1
    <3>2. ((k - 1) * OneStepLen + i) \div OneStepLen = k - 1 /\ ((k - 1) * OneStepLen + i) % OneStepLen = i
      BY ONLY <3>1, <1>2, <2>1, Quotient
    <3>3. QED
      BY <3>2, <1>3
  <2>4. QED
    BY <1>1, <1>2, <2>1, <2>2, <2>3 DEF Positions, Step, Slot, IsRealAction
<1>4. TokenToActionOut = NImg + NText + NThinking /\ NImg \in Nat /\ NText \in Nat /\ NThinking \in Nat
  BY MaskAssumption DEF TokenToActionOut
<1>5. OutputIdx(k - 1) = (k - 1) * OneStepLen + TokenToActionOut
  BY <1>1, <1>2, <1>4 DEF OutputIdx
<1>6. ASSUME NEW q \in ImageOut(k - 1)
      PROVE  \E i \in 0 .. TokenToActionOut : q = (k - 1) * OneStepLen + i
  BY <1>4 DEF ImageOut
<1>7. OutputIdx(k - 1) \in Positions /\ ~IsRealAction(OutputIdx(k - 1)) /\ Step(OutputIdx(k - 1)) = k - 1
  <2>1. TokenToActionOut \in 0 .. TokenToActionOut
    BY <1>2
  <2>2. QED
    BY <2>1, <1>3, <1>5
<1>8. ASSUME NEW q \in ImageOut(k - 1) PROVE q \in Positions /\ ~IsRealAction(q) /\ Step(q) = k - 1
  BY <1>3, <1>6
<1>9. QED
  BY <1>7, <1>8

\* What the outputs of the condition tokens depend on: no action of their own slot or later.
LEMMA ActionsAreEarlier ==
  ASSUME IInv, NEW k \in 1 .. T, NEW q \in Positions, ~IsRealAction(q), Step(q) = k - 1,
         NEW n, <<"action", n>> \in InputsOf(q)
  PROVE  n < k - 1
<1>1. PICK p \in reads[q] :
        <<"action", n>> = <<IF IsRealAction(p) THEN "action" ELSE "observation", Step(p)>>
  BY DEF InputsOf
<1>2. IsRealAction(p) /\ n = Step(p)
  BY <1>1
<1>3. QED
  BY <1>1, <1>2 DEF IInv, Causal

\* The head is shown no action of the last slot that counts, nor of a later one.
LEMMA HeadUnseen ==
  ASSUME IInv, NEW mask \in SUBSET (1 .. T), NEW k \in Int, \A j \in mask : j <= k,
         k > 1 \/ ~UseStateCondition
  PROVE  <<"action", k - 1>> \notin HeadReads(mask)
<1> SUFFICES ASSUME <<"action", k - 1>> \in HeadReads(mask) PROVE FALSE
  OBVIOUS
<1>1. CASE <<"action", k - 1>> \in StateCondition
  BY <1>1 DEF StateCondition
<1>2. CASE <<"action", k - 1>> \in CrossAttention(ImageCondition, mask)
  <2>1. PICK j \in mask : <<"action", k - 1>> \in ImageCondition[j]
    BY <1>2 DEF CrossAttention
  <2>2. ImageCondition[j] = IF UseImageCondition THEN UNION {InputsOf(q) : q \in ImageOut(j - 1)} ELSE {}
    BY DEF ImageCondition
  <2>3. PICK q \in ImageOut(j - 1) : <<"action", k - 1>> \in InputsOf(q)
    BY <2>1, <2>2
  <2>4. k - 1 < j - 1
    BY <2>3, ConditionPositions, ActionsAreEarlier
  <2>5. QED
    BY <2>1, <2>4
<1>3. CASE <<"action", k - 1>> \in CrossAttention(ActionCondition, mask)
  <2>1. PICK j \in mask : <<"action", k - 1>> \in InputsOf(OutputIdx(j - 1))
    BY <1>3 DEF CrossAttention, ActionCondition
  <2>2. k - 1 < j - 1
    BY <2>1, ConditionPositions, ActionsAreEarlier
  <2>3. QED
    BY <2>1, <2>2
<1>4. QED
  BY <1>1, <1>2, <1>3 DEF HeadReads, RDTBlock

\* A result whose conditions are among the slots that count keeps the property.
LEMMA ResultUnseen ==
  ASSUME IInv, NEW steps \in SUBSET (1 .. T), NEW valid, NEW o,
         o.steps = steps, o.inputs = HeadReads(ConditionSteps(valid, steps)),
         NEW k \in steps, \A j \in steps : j <= k, k > 1 \/ ~UseStateCondition
  PROVE  <<"action", k - 1>> \notin o.inputs
<1>1. ConditionSteps(valid, steps) \in SUBSET (1 .. T)
      /\ \A j \in ConditionSteps(valid, steps) : j <= k
  BY DEF ConditionSteps
<1>2. QED
  BY <1>1, HeadUnseen

LEMMA ResetIInv == IInv /\ ResetForward => IInv' /\ Reading'
<1>1. IInv /\ ResetForward => Init'
  BY DEF IInv, TypeOK, ResetForward, Init
<1>2. Init' => IInv' /\ Reading'
  BY InitIInv, InitReading, PTL
<1>3. QED
  BY <1>1, <1>2

LEMMA KeepIInv == IInv /\ Reading /\ UNCHANGED vars => IInv' /\ Reading'
  BY DEF IInv, TypeOK, Causal, OutputsAreReadOnly, ReceptiveField, Reading, OutputSeesHistory, vars

\* A step that leaves the head's result alone, and does not begin a prediction.
LEMMA KeepOut ==
  ASSUME OutInv, UNCHANGED out, pc' = "predict" => pc = "predict"
  PROVE  OutInv'
  BY DEF OutInv, OutShape, LastActionUnseen

\* The head's result for the slots "steps", whatever the conditions are besides those.
LEMMA ResultInv ==
  ASSUME IInv, NEW by, NEW steps \in SUBSET (1 .. T), NEW valid,
         out' = [by |-> by, steps |-> steps, inputs |-> HeadReads(ConditionSteps(valid, steps))]
  PROVE  OutShape' /\ LastActionUnseen'
<1>1. out'.by = by /\ out'.steps = steps /\ out'.inputs = HeadReads(ConditionSteps(valid, steps))
  OBVIOUS
<1>2. OutShape'
  BY <1>1 DEF OutShape
<1>3. LastActionUnseen'
  <2> SUFFICES ASSUME NEW k \in out'.steps, \A j \in out'.steps : j <= k, k > 1 \/ ~UseStateCondition
               PROVE  <<"action", k - 1>> \notin out'.inputs
    BY DEF LastActionUnseen
  <2>1. QED
    BY <1>1, ResultUnseen
<1>4. QED
  BY <1>2, <1>3

\* _calculate_loss, whatever the batch holds.
LEMMA LossKeeps == SInv /\ CalculateLoss => OutShape' /\ LastActionUnseen'
<1> SUFFICES ASSUME SInv, CalculateLoss PROVE OutShape' /\ LastActionUnseen'
  OBVIOUS
<1> DEFINE valid == {k \in 1 .. T : item.valid_frame_mask[k]}
<1>1. out' = [by |-> pc, steps |-> Supervised(item),
              inputs |-> HeadReads(ConditionSteps(valid, Supervised(item)))]
  BY DEF CalculateLoss
<1>2. Supervised(item) \in SUBSET (1 .. T)
  BY DEF Supervised
<1>3. QED
  BY <1>1, <1>2, ResultInv DEF SInv

LEMMA StepInitSInv == StepInit => SInv
<1> SUFFICES ASSUME StepInit PROVE SInv
  OBVIOUS
<1>1. IInv /\ Reading
  BY InitIInv, InitReading DEF StepInit
<1>2. OutInv
  BY DEF StepInit, OutInv, OutShape, LastActionUnseen
<1>3. QED
  BY <1>1, <1>2 DEF SInv

LEMMA StepKeepsSInv == SInv /\ [StepNext]_allVars => SInv'
<1> SUFFICES ASSUME SInv, [StepNext]_allVars PROVE SInv'
  OBVIOUS
<1> USE DEF SInv
<1>1. ASSUME NEW idx \in todo, TakeExample(idx) PROVE SInv'
  <2>1. IInv' /\ Reading'
    BY <1>1, KeepIInv DEF TakeExample
  <2>2. OutInv'
    BY <1>1 DEF TakeExample, OutInv, OutShape, LastActionUnseen
  <2>3. QED
    BY <2>1, <2>2
<1>2. ASSUME NEW idx \in todo, ExampleRaises(idx) PROVE SInv'
  BY <1>2, KeepIInv, KeepOut DEF ExampleRaises
<1>3. CASE NextEpoch
  BY <1>3, KeepIInv, KeepOut DEF NextEpoch, stepVars
<1>4. ASSUME NEW n \in 0 .. T, Predict(n) PROVE SInv'
  <2>1. IInv' /\ Reading'
    BY <1>4, KeepIInv DEF Predict
  <2>2. ValidSteps(1 .. n) \in SUBSET (1 .. T)
    BY StepAssumption, MaskAssumption DEF ValidSteps
  <2>3. out' = [by |-> "predict", steps |-> ValidSteps(1 .. n), inputs |-> {}]
    BY <1>4 DEF Predict
  <2>4. out' # <<>>
    BY <2>3
  <2>5. out'.by = "predict" /\ out'.steps = ValidSteps(1 .. n) /\ out'.inputs = {}
    BY <2>3
  <2>6. OutInv'
    BY <2>2, <2>3, <2>4, <2>5 DEF OutInv, OutShape, LastActionUnseen
  <2>7. QED
    BY <2>1, <2>6
<1>5. CASE Forward
  BY <1>5, LayerIInv, LayerReading, KeepOut DEF Forward, stepVars
<1>6. CASE TrainStep
  BY <1>6, LossKeeps, ResetIInv DEF TrainStep, EndStep, OutInv
<1>7. CASE TrainStepRaises
  BY <1>7, KeepIInv, KeepOut DEF TrainStepRaises
<1>8. CASE ValidationStep
  BY <1>8, LossKeeps, ResetIInv DEF ValidationStep, EndStep, OutInv
<1>9. CASE BeginDenoising
  <2>1. IInv' /\ Reading'
    BY <1>9, ResetIInv DEF BeginDenoising
  <2>2. out # <<>> /\ pc' = "denoise"
    BY <1>9 DEF BeginDenoising, OutInv
  <2>3. out' = [out EXCEPT !.inputs = HeadReads(ConditionSteps(out.steps, out.steps))]
    BY <1>9 DEF BeginDenoising
  <2>4. out = [by |-> out.by, steps |-> out.steps, inputs |-> out.inputs] /\ out.steps \in SUBSET (1 .. T)
    BY <2>2 DEF OutInv, OutShape
  <2>5. out' = [by |-> out.by, steps |-> out.steps,
                inputs |-> HeadReads(ConditionSteps(out.steps, out.steps))]
    BY <2>3, <2>4
  <2>6. OutShape' /\ LastActionUnseen'
    BY <2>4, <2>5, ResultInv
  <2>7. QED
    BY <2>1, <2>2, <2>6 DEF OutInv
<1>10. CASE Denoise
  BY <1>10, KeepIInv, KeepOut DEF Denoise
<1>11. CASE ReturnActions
  BY <1>11, KeepIInv, KeepOut DEF ReturnActions
<1>12. CASE UNCHANGED allVars
  BY <1>12, KeepIInv, KeepOut DEF allVars, stepVars
<1>13. QED
  BY <1>1, <1>2, <1>3, <1>4, <1>5, <1>6, <1>7, <1>8, <1>9, <1>10, <1>11, <1>12 DEF StepNext

LEMMA StepInvariance == StepSpec => []SInv
  BY StepInitSInv, StepKeepsSInv, PTL DEF StepSpec

\* In training, validation and prediction alike, the head is never shown the last action
\* that counts (stage3_finetune.py, _build_rdt_conditions, _calculate_loss and
\* online_full_predict_actions), whatever the lengths, masks, histories and schedules.
THEOREM LastUnseen == StepSpec => []LastActionUnseen
<1>1. SInv => LastActionUnseen
  BY DEF SInv, OutInv
<1>2. QED
  BY <1>1, StepInvariance, PTL

\* The transformer stays causal over any series of forward passes, each begun afresh.
THEOREM StepsAreCausal == StepSpec => []PredictionIsCausal
<1>1. SInv => PredictionIsCausal
  BY OutputsAreCausal DEF SInv
<1>2. QED
  BY <1>1, StepInvariance, PTL

\* Nothing is masked by mistake in any of those passes.
THEOREM StepsSeeHistory == StepSpec => []OutputSeesHistory
<1>1. SInv => OutputSeesHistory
  BY DEF SInv, Reading
<1>2. QED
  BY <1>1, StepInvariance, PTL

-----------------------------------------------------------------------------
(* Denoising *)

LEMMA Division ==
  ASSUME NEW p \in Nat, NEW b \in Nat \ {0}
  PROVE  p \div b \in Int /\ b * (p \div b) <= p /\ p < b * (p \div b) + b
<1>1. p \div b \in Int
  BY SMT
<1>2. b * (p \div b) <= p
  BY SMT
<1>3. p < b * (p \div b) + b
  BY SMT
<1>4. QED
  BY <1>1, <1>2, <1>3

\* The whole part of a quotient below one times a number does not exceed that number.
LEMMA PartOf ==
  ASSUME NEW a \in Nat, NEW b \in Nat \ {0}, NEW c \in Nat, a <= b
  PROVE  (a * c) \div b \in 0 .. c
<1> DEFINE p == a * c
           q == p \div b
<1>1. p \in Nat
  BY SMT
<1>2. p <= b * c
  BY SMT
<1> HIDE DEF p
<1>3. q \in Int /\ b * q <= p /\ p < b * q + b
  BY ONLY <1>1, b \in Nat \ {0}, Division
<1> HIDE DEF q
<1>4. ~(q > c)
  <2> SUFFICES ASSUME q > c PROVE FALSE
    OBVIOUS
  <2>1. b * q >= b * (c + 1)
    BY <1>3, SMT
  <2>2. b * (c + 1) = b * c + b
    BY SMT
  <2>3. QED
    BY <1>1, <1>2, <1>3, <2>1, <2>2, SMT
<1>5. q >= 0
  <2> SUFFICES ASSUME q < 0 PROVE FALSE
    BY <1>3, SMT
  <2>1. b * q <= -b
    BY <1>3, SMT
  <2>2. QED
    BY <1>1, <1>3, <2>1, SMT
<1>6. QED
  BY <1>3, <1>4, <1>5, SMT DEF p, q

\* The schedule starts from pure noise and has no entry below zero or above one.
LEMMA SigmasInRange ==
  ASSUME NEW n \in Nat \ {0}
  PROVE  /\ Sigmas(n)[1] = Unit /\ Len(Sigmas(n)) = n /\ DOMAIN Sigmas(n) = 1 .. n
         /\ \A i \in 1 .. n : Sigmas(n)[i] \in Int
<1>1. /\ Unit \in Nat \ {0} /\ SigmaMin \in Nat /\ Shift \in Nat \ {0} /\ Unit - SigmaMin \in Nat
  BY FlowAssumption
<1>2. ASSUME NEW i \in 1 .. n PROVE Linear(n)[i] \in Nat
  <2>1. CASE i = 1
    BY <1>1, <2>1 DEF Linear
  <2>2. CASE i # 1
    <3> DEFINE last == IF ExtraOneStep THEN n ELSE n - 1
    <3>1. last \in Nat \ {0} /\ i - 1 \in Nat /\ i - 1 <= last
      BY <2>2
    <3>2. Linear(n)[i] = Unit - ((i - 1) * (Unit - SigmaMin)) \div last
      BY <2>2 DEF Linear
    <3> HIDE DEF last
    <3>3. ((i - 1) * (Unit - SigmaMin)) \div last \in 0 .. Unit - SigmaMin
      BY <1>1, <3>1, PartOf
    <3>4. QED
      BY <1>1, <3>2, <3>3
  <2>3. QED
    BY <2>1, <2>2
<1>3. ASSUME NEW i \in 1 .. n PROVE Sigmas(n)[i] \in Int
  <2> DEFINE l == Linear(n)[i]
  <2>1. Sigmas(n)[i] = (Shift * l * Unit) \div (Unit + (Shift - 1) * l)
    BY DEF Sigmas
  <2>2. l \in Nat
    BY <1>2
  <2> HIDE DEF l
  <2>3. (Shift - 1) * l \in Nat /\ Shift * l * Unit \in Nat
    BY <1>1, <2>2
  <2>4. QED
    BY <1>1, <2>1, <2>3
<1>4. Sigmas(n)[1] = Unit
  <2>1. Linear(n)[1] = Unit /\ 1 \in 1 .. n
    BY DEF Linear
  <2>2. Sigmas(n)[1] = (Shift * Unit * Unit) \div (Unit + (Shift - 1) * Unit)
    BY <2>1 DEF Sigmas
  <2>3. Unit + (Shift - 1) * Unit = Shift * Unit /\ Shift * Unit \in Nat \ {0}
    BY <1>1
  <2>4. Shift * Unit * Unit = Unit * (Shift * Unit) + 0
    BY <1>1
  <2>5. (Unit * (Shift * Unit) + 0) \div (Shift * Unit) = Unit
    BY <1>1, <2>3, Quotient
  <2>6. QED
    BY <2>2, <2>3, <2>4, <2>5
<1>5. Len(Sigmas(n)) = n /\ DOMAIN Sigmas(n) = 1 .. n
  BY DEF Sigmas
<1>6. QED
  BY <1>3, <1>4, <1>5

\* The current step of the schedule is found again.
LEMMA OwnTimestep ==
  ASSUME NEW i \in 1 .. NumInferenceSteps
  PROVE  TimestepId(Sigmas(NumInferenceSteps), Sigmas(NumInferenceSteps)[i]) = i
<1> DEFINE s == Sigmas(NumInferenceSteps)
           First(k) == \A j \in DOMAIN s :
                         /\ Distance(s[k], s[i]) <= Distance(s[j], s[i])
                         /\ j < k => Distance(s[j], s[i]) > Distance(s[k], s[i])
<1>1. DOMAIN s = 1 .. NumInferenceSteps /\ \A j \in 1 .. NumInferenceSteps : s[j] \in Int
  BY StepAssumption, SigmasInRange
<1>2. \A j, k \in 1 .. NumInferenceSteps : s[j] = s[k] => j = k
  BY ResolutionAssumption
<1> HIDE DEF s
<1>3. \A j \in 1 .. NumInferenceSteps :
        Distance(s[j], s[i]) \in Nat /\ (Distance(s[j], s[i]) = 0 <=> j = i)
  BY <1>1, <1>2 DEF Distance
<1>4. First(i)
  BY <1>1, <1>3
<1>5. \A k \in 1 .. NumInferenceSteps : First(k) => k = i
  <2> TAKE k \in 1 .. NumInferenceSteps
  <2>1. i \in DOMAIN s
    BY <1>1
  <2>2. First(k) => Distance(s[k], s[i]) <= Distance(s[i], s[i])
    BY <2>1
  <2>3. QED
    BY <1>3, <2>2
<1>6. (CHOOSE k \in DOMAIN s : First(k)) = i
  BY <1>1, <1>4, <1>5
<1>7. QED
  <2>1. TimestepId(s, s[i]) = CHOOSE k \in DOMAIN s : First(k)
    BY DEF TimestepId
  <2>2. QED
    BY <1>6, <2>1 DEF s

\* What is left of the noise at a step of the schedule.
SigmaAt(i) == IF i = NumInferenceSteps THEN 0 ELSE Sigmas(NumInferenceSteps)[i + 1]

\* A sample that began with noise is the mixture for its step; one that began with a given
\* sample keeps it.
DInv ==
  pc = "denoise" =>
    /\ stepIdx \in 0 .. NumInferenceSteps
    /\ sample \in [clean : Int, noise : Int, given : Int]
    /\ sample.given = 0 => sample = Noisy(SigmaAt(stepIdx))

LEMMA DenoiseKeeps == DInv /\ Denoise => DInv'
<1> SUFFICES ASSUME DInv, Denoise PROVE DInv'
  OBVIOUS
<1> DEFINE n == NumInferenceSteps
           s == Sigmas(n)
           i == stepIdx + 1
           change == SigmaAt(i) - s[i]
<1>1. /\ stepIdx \in Nat /\ stepIdx < n /\ n \in Nat \ {0} /\ i \in 1 .. n
      /\ stepIdx' = i /\ pc' = "denoise"
      /\ sample \in [clean : Int, noise : Int, given : Int]
      /\ sample.given = 0 => sample = Noisy(s[i])
  BY StepAssumption DEF DInv, Denoise, SigmaAt
<1>2. Len(s) = n /\ \A k \in 1 .. n : s[k] \in Int
  BY <1>1, SigmasInRange
<1>3. SigmaAt(i) \in Int /\ s[i] \in Int
  BY <1>1, <1>2 DEF SigmaAt
<1>4. sample' = [sample EXCEPT !.clean = @ - change, !.noise = @ + change]
  <2>1. sample' = EulerStep(s, sample, s[i], i = n)
    BY DEF Denoise
  <2>2. TimestepId(s, s[i]) = i
    BY <1>1, OwnTimestep
  <2>3. NextSigma(s, i, i = n) = SigmaAt(i)
    BY <1>1, <1>2 DEF NextSigma, SigmaAt
  <2> HIDE DEF s
  <2>4. QED
    BY <2>1, <2>2, <2>3 DEF EulerStep
<1> HIDE DEF s, i
<1>5. /\ sample' \in [clean : Int, noise : Int, given : Int] /\ sample'.given = sample.given
      /\ sample'.clean = sample.clean - change /\ sample'.noise = sample.noise + change
  <2>1. change \in Int
    BY <1>3
  <2> HIDE DEF change
  <2>2. sample' = [clean |-> sample.clean - change, noise |-> sample.noise + change, given |-> sample.given]
    BY <1>1, <1>4, <2>1
  <2>3. QED
    BY <1>1, <2>1, <2>2
<1>6. ASSUME sample.given = 0 PROVE sample' = Noisy(SigmaAt(i))
  <2>1. sample.clean = Unit - s[i] /\ sample.noise = s[i]
    BY <1>1, <1>6 DEF Noisy
  <2>2. sample'.clean = Unit - SigmaAt(i) /\ sample'.noise = SigmaAt(i)
    BY <1>3, <1>5, <2>1, FlowAssumption
  <2>3. QED
    BY <1>5, <1>6, <2>2 DEF Noisy
<1>7. QED
  BY <1>1, <1>5, <1>6 DEF DInv, SigmaAt

LEMMA BeginKeeps == BeginDenoising => DInv'
<1> SUFFICES ASSUME BeginDenoising PROVE DInv'
  OBVIOUS
<1>1. PICK initial \in {"noise", "given"} :
        sample' = [clean |-> 0, noise |-> IF initial = "noise" THEN Unit ELSE 0,
                   given |-> IF initial = "given" THEN Unit ELSE 0]
  BY DEF BeginDenoising
<1>2. stepIdx' = 0 /\ Unit \in Nat \ {0} /\ NumInferenceSteps \in Nat \ {0}
  BY FlowAssumption, StepAssumption DEF BeginDenoising
<1>3. SigmaAt(0) = Unit
  BY <1>2, SigmasInRange DEF SigmaAt
<1>4. sample' \in [clean : Int, noise : Int, given : Int]
  BY <1>1, <1>2
<1>5. sample'.given = 0 => sample' = Noisy(SigmaAt(0))
  BY <1>1, <1>2, <1>3 DEF Noisy
<1>6. QED
  BY <1>2, <1>4, <1>5 DEF DInv, SigmaAt

LEMMA StepKeepsDInv == DInv /\ [StepNext]_allVars => DInv'
<1> SUFFICES ASSUME DInv, [StepNext]_allVars PROVE DInv'
  OBVIOUS
<1>1. CASE Denoise
  BY <1>1, DenoiseKeeps
<1>2. CASE BeginDenoising
  BY <1>2, BeginKeeps
<1>3. CASE Forward \/ UNCHANGED allVars
  BY <1>3 DEF Forward, allVars, stepVars, DInv, SigmaAt
<1>4. CASE NextEpoch
  BY <1>4 DEF NextEpoch, stepVars, DInv, SigmaAt
<1>5. ASSUME \/ \E idx \in todo : TakeExample(idx) \/ ExampleRaises(idx)
             \/ \E n \in 0 .. T : Predict(n)
             \/ TrainStep \/ TrainStepRaises \/ ValidationStep \/ ReturnActions
      PROVE  DInv'
  <2>1. pc' # "denoise"
    BY <1>5 DEF TakeExample, ExampleRaises, Predict, TrainStep, TrainStepRaises, ValidationStep,
                ReturnActions, EndStep
  <2>2. QED
    BY <2>1 DEF DInv
<1>6. QED
  BY <1>1, <1>2, <1>3, <1>4, <1>5 DEF StepNext

\* With any number of steps and any schedule whose entries differ, the head is asked at the
\* mixtures it was trained on, and the result is clean (flow_matching.py, step).
THEOREM DenoisesOnPath == StepSpec => []OnTrainedPath
<1>1. StepInit => DInv
  BY DEF StepInit, DInv
<1>2. DInv => OnTrainedPath
  BY DEF DInv, OnTrainedPath, SigmaAt
<1>3. QED
  BY <1>1, <1>2, StepKeepsDInv, PTL DEF StepSpec

-----------------------------------------------------------------------------
(* Examples *)

\* What the configuration of the data set fixes.
LEMMA Configured ==
  ASSUME config \in Configs
  PROVE  /\ config.image_frame_stride \in Nat \ {0} /\ Views \in Nat \ {0} /\ T \in Nat \ {0}
         /\ config.used_action_channel_ids \in BOOLEAN
         /\ config.used_action_channel_ids => config.image_frame_stride = 1
         /\ Repos \in Seq(Seq(Clips))
  BY LatentAssumption DEF Views, Repos

\* Strides into a range of n frames: the last one taken is in it, and the next would not be.
LEMMA StridesFit ==
  ASSUME config \in Configs, NEW n \in Nat \ {0}
  PROVE  /\ Strided(n) \in Nat \ {0}
         /\ (Strided(n) - 1) * config.image_frame_stride <= n - 1
         /\ n <= Strided(n) * config.image_frame_stride
<1> DEFINE s == config.image_frame_stride
           d == (n - 1) \div s
<1>1. s \in Nat \ {0} /\ n - 1 \in Nat
  BY Configured
<1>2. Strided(n) = d + 1
  BY DEF Strided
<1> HIDE DEF s
<1>3. d \in Int /\ s * d <= n - 1 /\ n - 1 < s * d + s
  BY ONLY <1>1, Division
<1> HIDE DEF d
<1>4. d >= 0
  <2> SUFFICES ASSUME d <= -1 PROVE FALSE
    BY <1>3, SMT
  <2>1. s * d <= -s
    BY <1>1, <1>3, SMT
  <2>2. QED
    BY <1>1, <1>3, <2>1, SMT
<1>5. (d + 1 - 1) * s = s * d /\ (d + 1) * s = s * d + s
  BY <1>1, <1>3, SMT
<1>6. QED
  BY <1>1, <1>2, <1>3, <1>4, <1>5, SMT DEF s

\* An aligned clip has rows for all the frames it labels.
LEMMA Alignment ==
  ASSUME config \in Configs, NEW c \in Clips, Aligned(c)
  PROVE  /\ c.start \in Nat /\ c.rows \in Nat \ {0} /\ Strided(c.len) \in Nat \ {0}
         /\ Strided(VideoFrames(c)) = Strided(c.len)
         /\ Strided(c.len) * config.image_frame_stride <= config.image_frame_stride + c.rows
<1>1. config.image_frame_stride \in Nat \ {0}
  BY Configured
<1>2. c.start \in Nat /\ c.rows \in Nat \ {0} /\ c.len \in Nat \ {0}
  BY DEF Clips, Aligned
<1>3. Len(PaddedInFront(c)) = config.image_frame_stride + c.rows
  BY <1>1, <1>2 DEF PaddedInFront, RelativeRows
<1>4. QED
  BY <1>1, <1>2, <1>3, StridesFit DEF Aligned, RequiredActionNum

\* The frame a slot shows, counted from 1 among those taken from the clip.
Frame(m) == (m - 1) \div Views + 1

LEMMA FrameOf ==
  ASSUME config \in Configs, NEW n \in Nat, NEW m \in 1 .. Views * n
  PROVE  Frame(m) \in 1 .. n
<1> DEFINE v == Views
           d == (m - 1) \div v
<1>1. v \in Nat \ {0}
  BY Configured
<1>2. Frame(m) = d + 1
  BY DEF Frame
<1> HIDE DEF v
<1>3. m - 1 \in Nat /\ m <= v * n
  BY <1>1 DEF v
<1>4. d \in Int /\ v * d <= m - 1 /\ m - 1 < v * d + v
  BY ONLY <1>1, <1>3, Division
<1> HIDE DEF d
<1>5. ~(d <= -1)
  <2> SUFFICES ASSUME d <= -1 PROVE FALSE
    OBVIOUS
  <2>1. v * d <= -v
    BY <1>1, <1>4, SMT
  <2>2. QED
    BY <1>1, <1>3, <1>4, <2>1, SMT
<1>6. ~(d >= n)
  <2> SUFFICES ASSUME d >= n PROVE FALSE
    OBVIOUS
  <2>1. v * d >= v * n
    BY <1>1, <1>4, SMT
  <2>2. QED
    BY <1>1, <1>3, <1>4, <2>1, SMT
<1>7. QED
  BY <1>2, <1>4, <1>5, <1>6, SMT

LEMMA PerViewOf ==
  ASSUME config \in Configs, NEW q, Len(q) \in Nat
  PROVE  /\ DOMAIN PerView(q) = 1 .. Views * Len(q) /\ Len(PerView(q)) = Views * Len(q)
         /\ \A m \in 1 .. Views * Len(q) : PerView(q)[m] = q[Frame(m)]
<1>1. Views \in Nat \ {0}
  BY Configured
<1>2. Views * Len(q) \in Nat
  BY <1>1
<1>3. QED
  BY <1>2 DEF PerView, Frame

\* A part of a sequence by its ends.
LEMMA Part ==
  ASSUME NEW q, NEW a \in Nat, NEW b \in Nat, a <= b
  PROVE  LET p == SubSeq(q, a + 1, b)
         IN /\ Len(p) = b - a /\ DOMAIN p = 1 .. b - a
            /\ p \in Seq({q[i] : i \in a + 1 .. b})
            /\ \A i \in 1 .. b - a : p[i] = q[a + i]
<1> DEFINE p == SubSeq(q, a + 1, b)
           S == {q[i] : i \in a + 1 .. b}
<1>1. a + 1 \in Int /\ b \in Int /\ \A i \in a + 1 .. b : q[i] \in S
  OBVIOUS
<1> HIDE DEF S
<1>2. /\ p \in Seq(S) /\ Len(p) = IF a + 1 <= b THEN b - (a + 1) + 1 ELSE 0
      /\ \A i \in 1 .. b - (a + 1) + 1 : p[i] = q[a + 1 + i - 1]
  BY ONLY <1>1, SubSeqProperties DEF p
<1> HIDE DEF p
<1>3. b - (a + 1) + 1 = b - a /\ \A i \in Int : a + 1 + i - 1 = a + i
  OBVIOUS
<1>4. Len(p) = b - a
  BY <1>2
<1>5. DOMAIN p = 1 .. b - a
  BY <1>2, <1>4
<1>6. \A i \in 1 .. b - a : p[i] = q[a + i]
  BY <1>2, <1>3
<1>7. QED
  BY <1>2, <1>4, <1>5, <1>6 DEF p, S

\* What labels the j-th frame: nothing the first, and each other the stride of rows before it.
LEMMA LabelRow ==
  ASSUME config \in Configs, NEW c \in Clips, Aligned(c), NEW j \in 1 .. Strided(c.len),
         NEW n \in 1 .. config.image_frame_stride
  PROVE  /\ DOMAIN Labels(c)[j] = 1 .. config.image_frame_stride
         /\ j = 1 => Labels(c)[j][n] = Masked
         /\ j > 1 => LET r == (j - 2) * config.image_frame_stride + n
                     IN r \in 1 .. c.rows /\ Labels(c)[j][n] = RelativeRows(c)[r]
<1> DEFINE s == config.image_frame_stride
           front == [i \in 1 .. s |-> Masked]
           rows == PaddedInFront(c)
           a == (j - 1) * s
           last == j * s
<1>1. s \in Nat \ {0}
  BY Configured
<1>2. c.rows \in Nat \ {0} /\ Strided(c.len) \in Nat \ {0} /\ Strided(c.len) * s <= s + c.rows
  BY Alignment
<1>3. Len(front) = s /\ front \in Seq({Masked})
  BY <1>1
<1>4. RelativeRows(c) \in Seq({RelativeRows(c)[r] : r \in 1 .. c.rows}) /\ Len(RelativeRows(c)) = c.rows
  <2> DEFINE rel == RelativeRows(c)
             S == {rel[r] : r \in 1 .. c.rows}
  <2>1. DOMAIN rel = 1 .. c.rows /\ rel = [r \in DOMAIN rel |-> rel[r]]
    BY DEF RelativeRows
  <2> HIDE DEF rel
  <2>2. rel \in [1 .. c.rows -> S]
    BY <2>1
  <2> HIDE DEF S
  <2>3. rel \in Seq(S) /\ Len(rel) = c.rows
    <3>1. c.rows \in Nat
      BY <1>2
    <3>2. QED
      BY ONLY <2>2, <3>1
  <2>4. QED
    BY <2>3 DEF rel, S
<1>5. /\ Len(rows) = s + c.rows
      /\ \A i \in 1 .. s + c.rows : rows[i] = IF i <= s THEN Masked ELSE RelativeRows(c)[i - s]
  <2>1. rows = front \o RelativeRows(c)
    BY DEF PaddedInFront
  <2> HIDE DEF rows
  <2>2. Len(rows) = s + c.rows
    BY <2>1, <1>1, <1>2, <1>3, <1>4
  <2>3. ASSUME NEW i \in 1 .. s + c.rows
        PROVE rows[i] = IF i <= s THEN Masked ELSE RelativeRows(c)[i - s]
    <3>1. rows[i] = IF i <= Len(front) THEN front[i] ELSE RelativeRows(c)[i - Len(front)]
      <4> DEFINE rel == RelativeRows(c)
                 R == {rel[r] : r \in 1 .. c.rows}
                 A == {Masked} \cup R
      <4>1. i \in 1 .. Len(front) + Len(rel)
        BY ONLY <1>2, <1>3, <1>4, i \in 1 .. s + c.rows
      <4>2. front \in Seq({Masked}) /\ rel \in Seq(R)
        BY <1>3, <1>4
      <4> HIDE DEF front, rel, R
      <4>3. front \in Seq(A) /\ rel \in Seq(A)
        BY ONLY <4>2
      <4> HIDE DEF A
      <4>4. (front \o rel)[i] = IF i <= Len(front) THEN front[i] ELSE rel[i - Len(front)]
        BY ONLY <4>1, <4>3, ConcatProperties
      <4>5. QED
        BY <2>1, <4>4 DEF rel
    <3>2. i <= s => front[i] = Masked
      BY <1>1, <1>2
    <3>3. QED
      BY ONLY <1>3, <3>1, <3>2
  <2>4. QED
    BY <2>2, <2>3
<1>6. a \in Nat /\ last \in Nat /\ last = a + s /\ last <= s + c.rows /\ (j > 1 => a >= s)
  <2>1. j \in Nat \ {0} /\ j <= Strided(c.len)
    BY <1>2
  <2> HIDE DEF s
  <2>2. j * s <= Strided(c.len) * s
    BY <1>1, <1>2, <2>1, SMT
  <2>3. (j - 1) * s \in Nat /\ j * s = (j - 1) * s + s
    BY <1>1, <2>1, SMT
  <2>4. j > 1 => (j - 1) * s >= s
    BY <1>1, <2>1, SMT
  <2>5. QED
    BY <1>1, <1>2, <2>2, <2>3, <2>4, SMT
<1>7. Labels(c)[j] = SubSeq(rows, a + 1, last)
  BY DEF Labels
<1>8. j > 1 => (j - 2) * s + n = a + n - s
  <2> HIDE DEF s
  <2>1. QED
    BY <1>1, <1>2, SMT
<1>9. j = 1 => a = 0
  <2> HIDE DEF s
  <2>1. QED
    BY <1>1, SMT
<1> HIDE DEF rows, a, last, s
<1>10. DOMAIN Labels(c)[j] = 1 .. s /\ Labels(c)[j][n] = rows[a + n] /\ n \in 1 .. s
  <2>1. a <= last /\ last - a = s
    BY <1>1, <1>6
  <2>2. /\ DOMAIN SubSeq(rows, a + 1, last) = 1 .. last - a
        /\ \A i \in 1 .. last - a : SubSeq(rows, a + 1, last)[i] = rows[a + i]
    <3>1. a \in Nat /\ last \in Nat
      BY <1>6
    <3>2. QED
      BY ONLY <2>1, <3>1, Part
  <2>3. n \in 1 .. s
    BY DEF s
  <2>4. QED
    BY <1>7, <2>1, <2>2, <2>3
<1>11. CASE j = 1
  BY <1>1, <1>2, <1>5, <1>9, <1>10, <1>11 DEF s
<1>12. CASE j > 1
  <2>1. a + n > s /\ a + n <= s + c.rows
    BY <1>1, <1>2, <1>6, <1>10, <1>12
  <2>2. a + n - s \in 1 .. c.rows /\ rows[a + n] = RelativeRows(c)[a + n - s]
    BY <1>1, <1>2, <1>5, <1>6, <1>10, <2>1
  <2>3. QED
    BY <1>8, <1>10, <1>12, <2>2 DEF s
<1>13. QED
  BY <1>2, <1>11, <1>12

\* The example before it is brought to T slots.
LEMMA RawOf ==
  ASSUME config \in Configs, NEW c \in Clips, Aligned(c), NEW text
  PROVE  LET raw == RawItem(c, text)
             count == Views * Strided(c.len)
         IN /\ count \in Nat \ {0}
            /\ Len(raw.frames) = count /\ Len(raw.action_annotations) = count
            /\ Len(raw.user_action_mask) = count /\ Len(raw.valid_frame_mask) = count
            /\ \A m \in 1 .. count :
                 /\ Frame(m) \in 1 .. Strided(c.len)
                 /\ raw.frames[m] = c.start + (Frame(m) - 1) * config.image_frame_stride
                 /\ raw.action_annotations[m] = Labels(c)[Frame(m)]
                 /\ raw.user_action_mask[m] <=> Frame(m) > 1
                 /\ raw.valid_frame_mask[m]
<1> DEFINE n == Strided(c.len)
           count == Views * n
           raw == RawItem(c, text)
           labels == PerView(Labels(c))
           frames == PerView(ImageFrames(c))
<1>1. n \in Nat \ {0} /\ Strided(VideoFrames(c)) = n /\ config.image_frame_stride \in Nat \ {0}
      /\ Views \in Nat \ {0}
  BY Alignment, Configured
<1> HIDE DEF n
<1>2. count \in Nat \ {0}
  BY <1>1
<1>3. Len(Labels(c)) = n
  BY <1>1 DEF Labels, n
<1>4. Len(ImageFrames(c)) = n
        /\ \A k \in 1 .. n : ImageFrames(c)[k] = c.start + (k - 1) * config.image_frame_stride
  BY <1>1 DEF ImageFrames
<1>5. /\ DOMAIN labels = 1 .. count /\ Len(labels) = count
      /\ \A m \in 1 .. count : labels[m] = Labels(c)[Frame(m)]
  BY <1>1, <1>3, PerViewOf
<1>6. /\ DOMAIN frames = 1 .. count /\ Len(frames) = count
      /\ \A m \in 1 .. count : frames[m] = ImageFrames(c)[Frame(m)]
  BY <1>1, <1>4, PerViewOf
<1>7. \A m \in 1 .. count : Frame(m) \in 1 .. n
  BY <1>1, FrameOf
<1> HIDE DEF count, labels, frames
<1>8. /\ raw.frames = frames /\ raw.action_annotations = labels
      /\ raw.user_action_mask = [k \in 1 .. count |-> \E i \in DOMAIN labels[k] : labels[k][i].real]
      /\ raw.valid_frame_mask = [k \in 1 .. count |-> TRUE]
  BY <1>5 DEF RawItem, labels, frames
<1> HIDE DEF raw
<1>9. ASSUME NEW m \in 1 .. count PROVE raw.user_action_mask[m] <=> Frame(m) > 1
  <2> DEFINE j == Frame(m)
  <2>1. j \in 1 .. n /\ labels[m] = Labels(c)[j]
    BY <1>5, <1>7
  <2>2. raw.user_action_mask[m] <=> \E i \in DOMAIN labels[m] : labels[m][i].real
    BY <1>8
  <2> HIDE DEF j
  <2>3. 1 \in 1 .. config.image_frame_stride
    BY <1>1
  <2>4. DOMAIN Labels(c)[j] = 1 .. config.image_frame_stride
    BY <2>1, <2>3, LabelRow DEF n
  <2>5. CASE j = 1
    <3>1. \A i \in 1 .. config.image_frame_stride : Labels(c)[j][i] = Masked
      BY <2>1, <2>5, LabelRow DEF n
    <3>2. ~Masked.real
      BY DEF Masked
    <3>3. QED
      BY <2>1, <2>2, <2>4, <2>5, <3>1, <3>2 DEF j
  <2>6. CASE j > 1
    <3> DEFINE r == (j - 2) * config.image_frame_stride + 1
    <3>1. r \in 1 .. c.rows /\ Labels(c)[j][1] = RelativeRows(c)[r]
      BY <2>1, <2>3, <2>6, LabelRow DEF n
    <3> HIDE DEF r
    <3>2. RelativeRows(c)[r].real
      BY <3>1 DEF RelativeRows
    <3>3. QED
      BY <2>1, <2>2, <2>3, <2>4, <2>6, <3>1, <3>2 DEF j
  <2>7. QED
    BY <1>1, <2>1, <2>5, <2>6
<1>10. \A m \in 1 .. count : raw.frames[m] = c.start + (Frame(m) - 1) * config.image_frame_stride
  BY <1>4, <1>6, <1>7, <1>8
<1>11. /\ Len(raw.frames) = count /\ Len(raw.action_annotations) = count
       /\ Len(raw.user_action_mask) = count /\ Len(raw.valid_frame_mask) = count
  BY <1>2, <1>5, <1>6, <1>8
<1>12. \A m \in 1 .. count : raw.action_annotations[m] = Labels(c)[Frame(m)] /\ raw.valid_frame_mask[m]
  BY <1>5, <1>8
<1>13. QED
  BY <1>2, <1>7, <1>9, <1>10, <1>11, <1>12 DEF raw, count, n

\* What _ensure_fixed_sequence_length makes of each part of the example.
Padded(q, x, n, start) ==
  LET sliced == SubSeq(q, start + 1, IF n <= T THEN n ELSE start + T)
  IN sliced \o [i \in 1 .. T - Len(sliced) |-> x]

LEMMA PaddedOf ==
  ASSUME config \in Configs, NEW n \in Nat \ {0}, NEW start \in SliceStarts(n), NEW q, NEW x
  PROVE  /\ start \in Nat
         /\ DOMAIN Padded(q, x, n, start) = 1 .. T
         /\ \A k \in 1 .. T : /\ k <= n => start + k \in 1 .. n
                             /\ Padded(q, x, n, start)[k] = IF k <= n THEN q[start + k] ELSE x
<1> DEFINE b == IF n <= T THEN n ELSE start + T
           sliced == SubSeq(q, start + 1, b)
           kept == b - start
           pad == [i \in 1 .. T - kept |-> x]
           A == {q[i] : i \in start + 1 .. b}
<1>1. T \in Nat \ {0}
  BY Configured
<1>2. start \in Nat /\ (n <= T => start = 0) /\ (n > T => start + T <= n)
  BY <1>1 DEF SliceStarts
<1>3. b \in Nat /\ start <= b /\ b <= n /\ kept \in 0 .. T /\ kept = IF n <= T THEN n ELSE T
  BY <1>1, <1>2
<1> HIDE DEF b
<1>4. b \in Nat /\ start <= b
  BY <1>3
<1>5. /\ Len(sliced) = kept /\ DOMAIN sliced = 1 .. kept /\ sliced \in Seq(A)
      /\ \A i \in 1 .. kept : sliced[i] = q[start + i]
  BY ONLY <1>2, <1>4, Part
<1>6. Padded(q, x, n, start) = sliced \o pad
  BY <1>5 DEF Padded, b
<1> HIDE DEF kept, sliced, A
<1>7. T - kept \in Nat /\ Len(pad) = T - kept /\ pad \in Seq({x}) /\ \A i \in 1 .. T - kept : pad[i] = x
  BY <1>1, <1>3
<1> HIDE DEF pad
<1>8. /\ Len(sliced \o pad) = T /\ DOMAIN (sliced \o pad) = 1 .. T
      /\ \A k \in 1 .. T : (sliced \o pad)[k] = IF k <= kept THEN sliced[k] ELSE pad[k - kept]
  BY <1>1, <1>3, <1>5, <1>7
<1>9. ASSUME NEW k \in 1 .. T
      PROVE  /\ k <= n => start + k \in 1 .. n
             /\ Padded(q, x, n, start)[k] = IF k <= n THEN q[start + k] ELSE x
  <2>1. k <= n <=> k <= kept
    BY <1>1, <1>3
  <2>2. k <= n => start + k \in 1 .. n
    BY <1>1, <1>2
  <2>3. CASE k <= n
    <3>1. k \in 1 .. kept
      BY <1>3, <2>1, <2>3
    <3>2. QED
      BY <1>5, <1>6, <1>8, <2>2, <2>3, <3>1
  <2>4. CASE ~(k <= n)
    <3>1. k - kept \in 1 .. T - kept /\ ~(k <= kept)
      BY <1>1, <1>3, <2>1, <2>4
    <3>2. QED
      BY <1>6, <1>7, <1>8, <2>4, <3>1
  <2>5. QED
    BY <2>3, <2>4
<1>10. QED
  BY <1>2, <1>6, <1>8, <1>9

\* The slots of an example, before its poses are rebased: the frames of a slice and what they
\* are labelled with, then padding that is not valid.
LEMMA FixedOf ==
  ASSUME config \in Configs, NEW c \in Clips, Aligned(c), NEW text,
         NEW start \in SliceStarts(Len(RawItem(c, text).frames))
  PROVE  LET it == Fixed(RawItem(c, text), start)
             count == Views * Strided(c.len)
         IN /\ it = [frames |-> it.frames, action_annotations |-> it.action_annotations,
                     user_action_mask |-> it.user_action_mask, valid_frame_mask |-> it.valid_frame_mask,
                     text_embeddings |-> text]
            /\ DOMAIN it.action_annotations = 1 .. T
            /\ \A k \in 1 .. T :
                 /\ it.valid_frame_mask[k] <=> k <= count
                 /\ k <= count =>
                      /\ Frame(start + k) \in 1 .. Strided(c.len)
                      /\ it.frames[k] = c.start + (Frame(start + k) - 1) * config.image_frame_stride
                      /\ it.action_annotations[k] = Labels(c)[Frame(start + k)]
                      /\ it.user_action_mask[k] <=> Frame(start + k) > 1
<1> DEFINE raw == RawItem(c, text)
           it == Fixed(raw, start)
           count == Views * Strided(c.len)
           padding == [k \in 1 .. config.image_frame_stride |-> Masked]
<1>1. /\ count \in Nat \ {0} /\ Len(raw.frames) = count
      /\ \A m \in 1 .. count :
           /\ Frame(m) \in 1 .. Strided(c.len)
           /\ raw.frames[m] = c.start + (Frame(m) - 1) * config.image_frame_stride
           /\ raw.action_annotations[m] = Labels(c)[Frame(m)]
           /\ raw.user_action_mask[m] <=> Frame(m) > 1
           /\ raw.valid_frame_mask[m]
  BY RawOf
<1>2. raw = [frames |-> raw.frames, action_annotations |-> raw.action_annotations,
             user_action_mask |-> raw.user_action_mask, valid_frame_mask |-> raw.valid_frame_mask,
             text_embeddings |-> text]
  BY DEF RawItem
<1>3. start \in SliceStarts(count) /\ T \in Nat \ {0}
  BY <1>1, Configured
<1> HIDE DEF count, raw
<1>4. Len(raw.frames) = count /\ raw.text_embeddings = text
  BY <1>1, <1>2
<1>5. it = [frames |-> Padded(raw.frames, raw.frames[count], count, start),
            action_annotations |-> Padded(raw.action_annotations, padding, count, start),
            user_action_mask |-> Padded(raw.user_action_mask, FALSE, count, start),
            valid_frame_mask |-> Padded(raw.valid_frame_mask, FALSE, count, start),
            text_embeddings |-> text]
  BY ONLY <1>4 DEF Fixed, Padded, it, padding
<1> HIDE DEF it, padding
<1>6. /\ it.frames = Padded(raw.frames, raw.frames[count], count, start)
      /\ it.action_annotations = Padded(raw.action_annotations, padding, count, start)
      /\ it.user_action_mask = Padded(raw.user_action_mask, FALSE, count, start)
      /\ it.valid_frame_mask = Padded(raw.valid_frame_mask, FALSE, count, start)
      /\ it.text_embeddings = text
  BY <1>5
<1>7. it = [frames |-> it.frames, action_annotations |-> it.action_annotations,
            user_action_mask |-> it.user_action_mask, valid_frame_mask |-> it.valid_frame_mask,
            text_embeddings |-> text]
  BY <1>5, <1>6
<1>8. DOMAIN it.action_annotations = 1 .. T
  BY <1>1, <1>3, <1>6, PaddedOf
<1>9. ASSUME NEW k \in 1 .. T
      PROVE  /\ it.valid_frame_mask[k] <=> k <= count
             /\ k <= count =>
                  /\ Frame(start + k) \in 1 .. Strided(c.len)
                  /\ it.frames[k] = c.start + (Frame(start + k) - 1) * config.image_frame_stride
                  /\ it.action_annotations[k] = Labels(c)[Frame(start + k)]
                  /\ it.user_action_mask[k] <=> Frame(start + k) > 1
  <2>1. k <= count => start + k \in 1 .. count
    BY <1>1, <1>3, PaddedOf
  <2>2. \A q, x : Padded(q, x, count, start)[k] = IF k <= count THEN q[start + k] ELSE x
    BY <1>1, <1>3, PaddedOf
  <2>3. CASE k <= count
    <3>1. /\ it.frames[k] = raw.frames[start + k]
          /\ it.action_annotations[k] = raw.action_annotations[start + k]
          /\ it.user_action_mask[k] = raw.user_action_mask[start + k]
          /\ it.valid_frame_mask[k] = raw.valid_frame_mask[start + k]
      <4>1. /\ Padded(raw.frames, raw.frames[count], count, start)[k] = raw.frames[start + k]
            /\ Padded(raw.action_annotations, padding, count, start)[k] = raw.action_annotations[start + k]
            /\ Padded(raw.user_action_mask, FALSE, count, start)[k] = raw.user_action_mask[start + k]
            /\ Padded(raw.valid_frame_mask, FALSE, count, start)[k] = raw.valid_frame_mask[start + k]
        BY ONLY <2>2, <2>3
      <4>2. QED
        BY ONLY <1>6, <4>1
    <3>2. QED
      BY ONLY <1>1, <2>1, <2>3, <3>1
  <2>4. CASE ~(k <= count)
    <3>1. it.valid_frame_mask[k] = FALSE
      <4>1. Padded(raw.valid_frame_mask, FALSE, count, start)[k] = FALSE
        BY ONLY <2>2, <2>4
      <4>2. QED
        BY ONLY <1>6, <4>1
    <3>2. QED
      BY ONLY <2>4, <3>1
  <2>5. QED
    BY <2>3, <2>4
<1>10. QED
  BY <1>7, <1>8, <1>9 DEF it, raw, count

\* A slot that may be learnt from: neither padding nor of the first frame, and each of its rows
\* is the row of the table that led up to its frame, seen from the clip's first.
LEMMA SlotOf ==
  ASSUME config \in Configs, NEW c \in Clips, Aligned(c),
         c.start .. c.start + c.rows - 1 \subseteq DOMAIN ActionTable, NEW text,
         NEW start \in SliceStarts(Len(RawItem(c, text).frames)), NEW it,
         it = Fixed(RawItem(c, text), start), NEW k \in 1 .. T
  PROVE  LET s == config.image_frame_stride
         IN /\ k \in Supervised(it) <=> k <= Views * Strided(c.len) /\ it.frames[k] # c.start
            /\ k \in Supervised(it) => it.frames[k] \in Int
            /\ k \in Supervised(it) => \A n \in 1 .. s :
                 LET row == it.frames[k] - s + n - 1
                 IN /\ row \in DOMAIN ActionTable /\ c.start \in DOMAIN ActionTable
                    /\ DOMAIN it.action_annotations[k] = 1 .. s
                    /\ it.action_annotations[k][n] =
                         [real |-> TRUE, value |-> Normalise(Relative(ActionTable[row], ActionTable[c.start]))]
<1> DEFINE s == config.image_frame_stride
           count == Views * Strided(c.len)
           j == Frame(start + k)
<1>1. s \in Nat \ {0} /\ c.start \in Nat /\ c.rows \in Nat \ {0} /\ Strided(c.len) \in Nat \ {0}
  BY Configured, Alignment
<1>2. /\ it.valid_frame_mask[k] <=> k <= count
      /\ k <= count => /\ j \in 1 .. Strided(c.len)
                       /\ it.frames[k] = c.start + (j - 1) * s
                       /\ it.action_annotations[k] = Labels(c)[j]
                       /\ it.user_action_mask[k] <=> j > 1
  BY FixedOf
<1>3. k \in Supervised(it) <=> k <= count /\ j > 1
  BY <1>2 DEF Supervised
<1> HIDE DEF s, count, j
<1>4. k \in Supervised(it) <=> k <= count /\ it.frames[k] # c.start
  <2>1. ASSUME k <= count PROVE j > 1 <=> it.frames[k] # c.start
    <3>1. j \in Nat \ {0} /\ it.frames[k] = c.start + (j - 1) * s
      BY <1>1, <1>2, <2>1
    <3>2. CASE j = 1
      <4>1. (j - 1) * s = 0
        BY <1>1, <3>2
      <4>2. QED
        BY <1>1, <3>1, <3>2, <4>1
    <3>3. CASE j > 1
      <4>1. (j - 1) * s >= s /\ (j - 1) * s \in Int
        BY <1>1, <3>1, <3>3, SMT
      <4>2. QED
        BY <1>1, <3>1, <3>3, <4>1
    <3>4. QED
      BY <3>1, <3>2, <3>3
  <2>2. QED
    BY <1>3, <2>1
<1>5. ASSUME k \in Supervised(it), NEW n \in 1 .. s
      PROVE  LET row == it.frames[k] - s + n - 1
             IN /\ row \in DOMAIN ActionTable /\ c.start \in DOMAIN ActionTable
                /\ DOMAIN it.action_annotations[k] = 1 .. s
                /\ it.action_annotations[k][n] =
                     [real |-> TRUE, value |-> Normalise(Relative(ActionTable[row], ActionTable[c.start]))]
  <2> DEFINE r == (j - 2) * s + n
             row == it.frames[k] - s + n - 1
  <2>1. j \in 1 .. Strided(c.len) /\ j > 1 /\ it.frames[k] = c.start + (j - 1) * s
        /\ it.action_annotations[k] = Labels(c)[j]
    BY <1>2, <1>3, <1>5
  <2>2. /\ DOMAIN Labels(c)[j] = 1 .. s /\ r \in 1 .. c.rows
        /\ Labels(c)[j][n] = RelativeRows(c)[r]
    BY <2>1, LabelRow DEF s
  <2>3. row = c.start + r - 1
    <3> DEFINE x == (j - 2) * s
    <3>1. (j - 1) * s = x + s /\ x \in Int
      BY <1>1, <2>1, SMT
    <3>2. r = x + n /\ row = it.frames[k] - s + n - 1 /\ it.frames[k] = c.start + (j - 1) * s /\ n \in Int
      BY <1>1, <2>1
    <3> HIDE DEF x, r, row
    <3>3. QED
      BY ONLY <1>1, <3>1, <3>2
  <2> HIDE DEF r, row
  <2>4. row \in DOMAIN ActionTable /\ c.start \in DOMAIN ActionTable
    <3>1. row \in c.start .. c.start + c.rows - 1 /\ c.start \in c.start .. c.start + c.rows - 1
      <4>1. c.start \in Nat /\ c.rows \in Nat \ {0} /\ r \in 1 .. c.rows
        BY ONLY <1>1, <2>2
      <4>2. QED
        BY ONLY <2>3, <4>1
    <3>2. QED
      BY <3>1
  <2>5. RelativeRows(c)[r] = [real |-> TRUE, value |-> Normalise(Relative(ActionTable[row], ActionTable[c.start]))]
    BY <2>2, <2>3 DEF RelativeRows
  <2>6. QED
    BY <2>1, <2>2, <2>4, <2>5 DEF row
<1>6. ASSUME k \in Supervised(it) PROVE it.frames[k] \in Int
  <2>1. j \in Nat /\ it.frames[k] = c.start + (j - 1) * s
    BY <1>1, <1>2, <1>3, <1>6
  <2>2. QED
    BY <1>1, <2>1
<1>7. QED
  BY <1>4, <1>5, <1>6 DEF s, count

\* Rebasing touches the labels only.
LEMMA RebasedOf ==
  ASSUME config \in Configs, NEW it, NEW f, NEW a, NEW u, NEW v, NEW t, DOMAIN a = 1 .. T,
         it = [frames |-> f, action_annotations |-> a, user_action_mask |-> u, valid_frame_mask |-> v,
               text_embeddings |-> t]
  PROVE  /\ Rebased(it).frames = f /\ Supervised(Rebased(it)) = Supervised(it)
         /\ ~config.used_action_channel_ids => Rebased(it) = it
         /\ config.used_action_channel_ids /\ Supervised(it) # {} =>
              LET first == FirstSupervised(it)
                  ref == Denormalise(a[first][1].value)
              IN \A k \in 1 .. T : Rebased(it).action_annotations[k] =
                   IF k < first THEN a[k]
                   ELSE [a[k] EXCEPT ![1].value = Normalise(Relative(Denormalise(@), ref))]
<1> DEFINE first == FirstSupervised(it)
           ref == Denormalise(a[first][1].value)
           rebase(label) == [label EXCEPT ![1].value = Normalise(Relative(Denormalise(@), ref))]
           b == [k \in 1 .. T |-> IF k < first THEN a[k] ELSE rebase(a[k])]
<1>1. it.frames = f /\ it.action_annotations = a /\ it.user_action_mask = u /\ it.valid_frame_mask = v
  OBVIOUS
<1>2. CASE ~config.used_action_channel_ids \/ Supervised(it) = {}
  <2>1. Rebased(it) = it
    BY <1>2 DEF Rebased
  <2>2. QED
    BY <1>1, <1>2, <2>1
<1>3. CASE config.used_action_channel_ids /\ Supervised(it) # {}
  <2>1. Rebased(it) = [it EXCEPT !.action_annotations = b]
    BY <1>1, <1>3 DEF Rebased
  <2> HIDE DEF b
  <2>2. Rebased(it) = [frames |-> f, action_annotations |-> b, user_action_mask |-> u,
                       valid_frame_mask |-> v, text_embeddings |-> t]
    BY <2>1
  <2>3. /\ Rebased(it).frames = f /\ Rebased(it).action_annotations = b
        /\ Rebased(it).user_action_mask = u /\ Rebased(it).valid_frame_mask = v
    BY <2>2
  <2>4. Supervised(Rebased(it)) = Supervised(it)
    BY <1>1, <2>3 DEF Supervised
  <2> HIDE DEF first, ref, rebase
  <2>5. \A k \in 1 .. T : b[k] = IF k < first THEN a[k] ELSE rebase(a[k])
    BY DEF b
  <2>6. \A k \in 1 .. T : Rebased(it).action_annotations[k] = IF k < first THEN a[k] ELSE rebase(a[k])
    BY <2>3, <2>5
  <2>7. QED
    BY <1>3, <2>3, <2>4, <2>6 DEF first, ref, rebase
<1>4. QED
  BY <1>2, <1>3

\* The pose that a label stands for, seen from an origin.
Anchored(origin, label, row) ==
  \A a \in Arms : /\ origin[a].pos + label[a].pos = row[a].pos
                 /\ Compose(origin[a].rot, label[a].rot) = row[a].rot
                 /\ label[a].grip = row[a].grip

\* Going to the relative pose and back.
LEMMA ThereAndBack ==
  ASSUME NEW row \in Poses, NEW ref \in Poses
  PROVE  Anchored(ref, Relative(row, ref), row)
<1> SUFFICES ASSUME NEW a \in Arms
             PROVE  /\ ref[a].pos + Relative(row, ref)[a].pos = row[a].pos
                    /\ Compose(ref[a].rot, Relative(row, ref)[a].rot) = row[a].rot
                    /\ Relative(row, ref)[a].grip = row[a].grip
  BY DEF Anchored
<1>1. /\ row[a].pos \in Int /\ ref[a].pos \in Int
      /\ row[a].rot \in Rotation /\ ref[a].rot \in Rotation
  BY DEF Poses
<1>2. /\ Relative(row, ref)[a].pos = row[a].pos - ref[a].pos
      /\ Relative(row, ref)[a].rot = Compose(Inverted(ref[a].rot), row[a].rot)
      /\ Relative(row, ref)[a].grip = row[a].grip
  BY DEF Relative
<1>3. Compose(ref[a].rot, Compose(Inverted(ref[a].rot), row[a].rot)) = row[a].rot
  <2>1. ASSUME NEW x \in Rotation, NEW y \in Rotation PROVE Compose(x, Compose(Inverted(x), y)) = y
    <3>1. Inverted(x) \in Rotation /\ Compose(x, Inverted(x)) = Identity
      BY RotationAssumption
    <3>2. Compose(Compose(x, Inverted(x)), y) = Compose(x, Compose(Inverted(x), y))
      BY <3>1, RotationAssumption
    <3>3. QED
      BY <3>1, <3>2, RotationAssumption
  <2>2. QED
    BY ONLY <1>1, <2>1
<1>4. QED
  BY <1>1, <1>2, <1>3

\* Rotations seen from b, and then from where x is seen from b, put back on x.
LEMMA Rebasing ==
  ASSUME NEW b \in Rotation, NEW x \in Rotation, NEW r \in Rotation
  PROVE  Compose(x, Compose(Inverted(Compose(Inverted(b), x)), Compose(Inverted(b), r))) = r
<1> DEFINE i == Inverted(b)
           z == Compose(i, x)
           y == Compose(x, Inverted(z))
<1>1. i \in Rotation /\ Compose(b, i) = Identity
  BY RotationAssumption
<1>2. z \in Rotation /\ Inverted(z) \in Rotation /\ Compose(z, Inverted(z)) = Identity
  BY <1>1, RotationAssumption
<1>3. y \in Rotation /\ Compose(i, y) = Identity
  <2>1. Compose(Compose(i, x), Inverted(z)) = Compose(i, y)
    BY <1>1, <1>2, RotationAssumption
  <2>2. QED
    BY <1>2, <2>1, RotationAssumption
<1>4. y = Compose(b, Identity)
  <2>1. Compose(Compose(b, i), y) = Compose(b, Compose(i, y))
    BY <1>1, <1>3, RotationAssumption
  <2>2. QED
    BY <1>1, <1>3, <2>1, RotationAssumption
<1>5. Compose(y, i) = Identity
  <2>1. Compose(Compose(b, Identity), i) = Compose(b, Compose(Identity, i))
    BY <1>1, RotationAssumption
  <2>2. QED
    BY <1>1, <1>4, <2>1, RotationAssumption
<1>6. Compose(x, Compose(Inverted(z), Compose(i, r))) = Compose(y, Compose(i, r))
  BY <1>1, <1>2, RotationAssumption
<1>7. Compose(y, Compose(i, r)) = Compose(Compose(y, i), r)
  BY <1>1, <1>3, RotationAssumption
<1>8. QED
  BY <1>5, <1>6, <1>7, RotationAssumption

\* A pose already relative to ref, seen from another one relative to it.
LEMMA RebasedBack ==
  ASSUME NEW row \in Poses, NEW origin \in Poses, NEW ref \in Poses
  PROVE  Anchored(origin, Relative(Relative(row, ref), Relative(origin, ref)), row)
<1> DEFINE label == Relative(Relative(row, ref), Relative(origin, ref))
<1> SUFFICES ASSUME NEW a \in Arms
             PROVE  /\ origin[a].pos + label[a].pos = row[a].pos
                    /\ Compose(origin[a].rot, label[a].rot) = row[a].rot
                    /\ label[a].grip = row[a].grip
  BY DEF Anchored
<1>1. /\ row[a].pos \in Int /\ ref[a].pos \in Int /\ origin[a].pos \in Int
      /\ row[a].rot \in Rotation /\ ref[a].rot \in Rotation /\ origin[a].rot \in Rotation
  BY DEF Poses
<1>2. \A p, q : /\ Relative(p, q)[a].pos = p[a].pos - q[a].pos
               /\ Relative(p, q)[a].rot = Compose(Inverted(q[a].rot), p[a].rot)
               /\ Relative(p, q)[a].grip = p[a].grip
  BY DEF Relative
<1>3. label[a].pos = (row[a].pos - ref[a].pos) - (origin[a].pos - ref[a].pos)
  BY <1>2
<1>4. label[a].rot = Compose(Inverted(Compose(Inverted(ref[a].rot), origin[a].rot)),
                             Compose(Inverted(ref[a].rot), row[a].rot))
  BY <1>2
<1>5. label[a].grip = row[a].grip
  BY <1>2
<1> HIDE DEF label
<1>6. Compose(origin[a].rot, label[a].rot) = row[a].rot
  BY <1>1, <1>4, Rebasing
<1>7. QED
  BY <1>1, <1>3, <1>5, <1>6

\* The least of the slots that may be learnt from.
LEMMA FirstOf ==
  ASSUME NEW it, Supervised(it) # {}
  PROVE  /\ FirstSupervised(it) \in Supervised(it)
         /\ \A k \in Supervised(it) : FirstSupervised(it) <= k
<1> DEFINE S == Supervised(it)
           Upto(k) == 1 .. k
           M == {Upto(k) : k \in S}
           R == StrictSubsetOrdering(Nat)
<1>1. \A k \in S : k \in Nat \ {0}
  BY DEF Supervised
<1>2. M \subseteq FiniteSubsetsOf(Nat) /\ M # {}
  <2>1. ASSUME NEW k \in S PROVE Upto(k) \in FiniteSubsetsOf(Nat)
    <3>1. IsFiniteSet(Upto(k))
      BY <1>1, FS_Interval
    <3>2. Upto(k) \subseteq Nat
      OBVIOUS
    <3>3. QED
      BY <3>1, <3>2 DEF FiniteSubsetsOf
  <2>2. QED
    BY <2>1
<1>3. IsWellFoundedOn(R, FiniteSubsetsOf(Nat))
  BY FS_StrictSubsetOrderingWellFounded
<1> HIDE DEF R, M, S
<1>4. PICK x \in M : \A y \in M : <<y, x>> \notin R
  BY <1>2, <1>3, WFMin
<1>5. PICK k \in S : x = Upto(k)
  BY DEF M
<1>6. ASSUME NEW j \in S, j < k PROVE FALSE
  <2>1. j \in Nat /\ k \in Nat \ {0}
    BY <1>1
  <2>2. Upto(j) \subseteq Upto(k) /\ k \in Upto(k) /\ k \notin Upto(j)
    BY <1>6, <2>1
  <2>3. Upto(j) \in M /\ Upto(j) \in SUBSET Nat /\ Upto(k) \in SUBSET Nat
    BY DEF M
  <2>4. <<Upto(j), Upto(k)>> \in R
    BY <2>2, <2>3 DEF R, StrictSubsetOrdering
  <2>5. QED
    BY <1>4, <1>5, <2>3, <2>4
<1>7. \A j \in S : k <= j
  BY <1>1, <1>6
<1>8. QED
  BY <1>5, <1>7 DEF FirstSupervised, S

\* What __getitem__ makes of a clip.
ExampleOf(c, it) ==
  /\ c \in Clips /\ Aligned(c)
  /\ c.start .. c.start + c.rows - 1 \subseteq DOMAIN ActionTable
  /\ \E text \in Texts(c) : \E start \in SliceStarts(Len(RawItem(c, text).frames)) :
       it = Rebased(Fixed(RawItem(c, text), start))

\* The slots of an example, and its labels, relative to the clip's first row or rebased on the
\* first slot that may be learnt from.
LEMMA ExampleSlots ==
  ASSUME config \in Configs, NEW c, NEW it, ExampleOf(c, it)
  PROVE  LET s == config.image_frame_stride
             Row(k, n) == it.frames[k] - s + n - 1
             FromStart(k, n) == Relative(ActionTable[Row(k, n)], ActionTable[c.start])
             first == FirstSupervised(it)
         IN /\ Supervised(it) = {k \in 1 .. T : k <= Views * Strided(c.len) /\ it.frames[k] # c.start}
            /\ \A k \in Supervised(it) : \A n \in 1 .. s :
                 /\ Row(k, n) \in DOMAIN ActionTable /\ c.start \in DOMAIN ActionTable
                 /\ Denormalise(it.action_annotations[k][n].value) =
                      IF config.used_action_channel_ids THEN Relative(FromStart(k, 1), FromStart(first, 1))
                      ELSE FromStart(k, n)
                 /\ Row(k, 1) = it.frames[k] - s
<1> DEFINE s == config.image_frame_stride
           first == FirstSupervised(it)
           anchor == ActionTable[c.start]
<1>1. PICK text \in Texts(c) : \E start \in SliceStarts(Len(RawItem(c, text).frames)) :
        it = Rebased(Fixed(RawItem(c, text), start))
  BY DEF ExampleOf
<1>2. PICK start \in SliceStarts(Len(RawItem(c, text).frames)) :
        it = Rebased(Fixed(RawItem(c, text), start))
  BY <1>1
<1> DEFINE raw == Fixed(RawItem(c, text), start)
<1>3. /\ c \in Clips /\ Aligned(c) /\ c.start \in Nat
      /\ c.start .. c.start + c.rows - 1 \subseteq DOMAIN ActionTable
      /\ s \in Nat \ {0} /\ (config.used_action_channel_ids => s = 1)
  BY Configured, Alignment DEF ExampleOf
<1>4. /\ raw = [frames |-> raw.frames, action_annotations |-> raw.action_annotations,
                user_action_mask |-> raw.user_action_mask, valid_frame_mask |-> raw.valid_frame_mask,
                text_embeddings |-> text]
      /\ DOMAIN raw.action_annotations = 1 .. T
  BY <1>3, FixedOf
<1>5. ASSUME NEW k \in 1 .. T
      PROVE  /\ k \in Supervised(raw) <=> k <= Views * Strided(c.len) /\ raw.frames[k] # c.start
             /\ k \in Supervised(raw) => raw.frames[k] \in Int
             /\ k \in Supervised(raw) => \A n \in 1 .. s :
                  /\ raw.frames[k] - s + n - 1 \in DOMAIN ActionTable /\ c.start \in DOMAIN ActionTable
                  /\ DOMAIN raw.action_annotations[k] = 1 .. s
                  /\ raw.action_annotations[k][n] =
                       [real |-> TRUE, value |-> Normalise(Relative(ActionTable[raw.frames[k] - s + n - 1], anchor))]
  BY <1>3, SlotOf
<1> HIDE DEF raw
<1>6. /\ it.frames = raw.frames /\ Supervised(it) = Supervised(raw)
      /\ ~config.used_action_channel_ids => it = raw
      /\ config.used_action_channel_ids /\ Supervised(raw) # {} =>
           LET f == FirstSupervised(raw)
               ref == Denormalise(raw.action_annotations[f][1].value)
           IN \A k \in 1 .. T : it.action_annotations[k] =
                IF k < f THEN raw.action_annotations[k]
                ELSE [raw.action_annotations[k] EXCEPT ![1].value = Normalise(Relative(Denormalise(@), ref))]
  BY <1>2, <1>4, RebasedOf DEF raw
<1>7. first = FirstSupervised(raw)
  BY <1>6 DEF FirstSupervised
<1>8. Supervised(it) = {k \in 1 .. T : k <= Views * Strided(c.len) /\ it.frames[k] # c.start}
  <2>1. Supervised(raw) \subseteq 1 .. T
    BY DEF Supervised
  <2>2. QED
    BY <1>5, <1>6, <2>1
<1>9. \A v : Denormalise(Normalise(v)) = v
  BY DEF Normalise, Denormalise
<1>10. ASSUME NEW k \in Supervised(it), NEW n \in 1 .. s
       PROVE  /\ it.frames[k] - s + n - 1 \in DOMAIN ActionTable /\ c.start \in DOMAIN ActionTable
              /\ Denormalise(it.action_annotations[k][n].value) =
                   IF config.used_action_channel_ids
                   THEN Relative(Relative(ActionTable[it.frames[k] - s + 1 - 1], anchor),
                                 Relative(ActionTable[it.frames[first] - s + 1 - 1], anchor))
                   ELSE Relative(ActionTable[it.frames[k] - s + n - 1], anchor)
  <2>1. k \in 1 .. T /\ k \in Supervised(raw) /\ 1 \in 1 .. s
    BY <1>3, <1>6 DEF Supervised
  <2>2. /\ it.frames[k] - s + n - 1 \in DOMAIN ActionTable /\ c.start \in DOMAIN ActionTable
        /\ DOMAIN raw.action_annotations[k] = 1 .. s
        /\ raw.action_annotations[k][n] =
             [real |-> TRUE, value |-> Normalise(Relative(ActionTable[it.frames[k] - s + n - 1], anchor))]
    BY <1>5, <1>6, <2>1
  <2>3. CASE ~config.used_action_channel_ids
    BY <1>6, <1>9, <2>2, <2>3
  <2>4. CASE config.used_action_channel_ids
    <3>1. n = 1 /\ s = 1
      BY <1>3, <2>4
    <3>2. first \in Supervised(raw) /\ first \in 1 .. T /\ first <= k
      BY <1>6, <1>7, <2>1, FirstOf DEF Supervised
    <3> DEFINE x == Normalise(Relative(ActionTable[it.frames[k] - s + 1 - 1], anchor))
               ref == Relative(ActionTable[it.frames[first] - s + 1 - 1], anchor)
               label == raw.action_annotations[k]
    <3>3. raw.action_annotations[first][1] = [real |-> TRUE, value |-> Normalise(ref)]
      <4> DEFINE f == first
      <4> HIDE DEF f
      <4>1. f \in 1 .. T /\ f \in Supervised(raw)
        BY <3>2 DEF f
      <4>2. raw.action_annotations[f][1] =
              [real |-> TRUE, value |-> Normalise(Relative(ActionTable[it.frames[f] - s + 1 - 1], anchor))]
        <5>1. \A m \in 1 .. s :
                raw.action_annotations[f][m] =
                  [real |-> TRUE, value |-> Normalise(Relative(ActionTable[raw.frames[f] - s + m - 1], anchor))]
          BY ONLY <1>5, <4>1
        <5>2. raw.frames = it.frames
          BY <1>6
        <5>3. QED
          BY ONLY <2>1, <5>1, <5>2
      <4>3. QED
        BY <4>2 DEF f
    <3>4. Denormalise(raw.action_annotations[first][1].value) = ref
      BY <1>9, <3>3
    <3>5. label[1] = [real |-> TRUE, value |-> x] /\ DOMAIN label = 1 .. s
      BY <2>2, <3>1
    <3>6. ~(k < first)
      BY <2>1, <3>2
    <3>7. Supervised(raw) # {}
      BY <2>1
    <3>8. it.action_annotations[k] = [label EXCEPT ![1].value = Normalise(Relative(Denormalise(@), ref))]
      BY <1>6, <1>7, <2>1, <2>4, <3>4, <3>6, <3>7
    <3> HIDE DEF x, ref, label
    <3>9. it.action_annotations[k][1].value = Normalise(Relative(Denormalise(x), ref))
      BY <2>1, <3>5, <3>8
    <3>10. Denormalise(it.action_annotations[k][n].value) = Relative(Denormalise(x), ref)
      BY <1>9, <3>1, <3>9
    <3>11. QED
      BY <1>9, <2>2, <2>4, <3>10 DEF x, ref
  <2>5. QED
    BY <2>3, <2>4
<1>11. ASSUME NEW k \in Supervised(it) PROVE it.frames[k] - s + 1 - 1 = it.frames[k] - s
  <2>1. it.frames[k] \in Int
    BY <1>5, <1>6 DEF Supervised
  <2>2. QED
    BY <1>3, <2>1
<1>12. QED
  BY <1>8, <1>10, <1>11

\* An example is one of its clip, and only a training or a validation step has one; what
\* ended the program was the clip.
LInv ==
  /\ config \in Configs /\ todo \subseteq Indices
  /\ pc \notin {"train", "validate", "nonfinite"} => item = <<>>
  /\ HasExample => ExampleOf(clip, item)
  /\ pc = "data_error" => clip \in Clips /\ (~Aligned(clip) \/ TextCanRaise(clip))

LEMMA ClipsOfIndices ==
  ASSUME config \in Configs, NEW idx \in Indices
  PROVE  /\ ClipOf(idx) \in Clips
         /\ ClipOf(idx).start .. ClipOf(idx).start + ClipOf(idx).rows - 1 \subseteq DOMAIN ActionTable
<1>1. PICK d \in DOMAIN Repos : idx \in {d} \X NewMetas(Repos[d])
  BY DEF Indices
<1>2. PICK i \in NewMetas(Repos[d]) : idx = <<d, i>>
  BY <1>1
<1>3. i \in DOMAIN Repos[d] /\ ClipOf(idx) = Repos[d][i]
  BY <1>2 DEF NewMetas, ClipOf
<1>4. Repos \in Seq(Seq(Clips))
  BY Configured
<1>5. Repos[d] \in Seq(Clips)
  BY <1>1, <1>4
<1>6. Repos[d][i] \in Clips
  BY <1>3, <1>5
<1>7. QED
  BY <1>1, <1>3, <1>6, TableAssumption DEF Repos

\* What is said of a clip and an example depends on the configuration only.
LEMMA ConfigKept ==
  ASSUME UNCHANGED config, NEW c, NEW it
  PROVE  /\ ExampleOf(c, it)' <=> ExampleOf(c, it)
         /\ Aligned(c)' <=> Aligned(c)
         /\ TextCanRaise(c)' <=> TextCanRaise(c)
         /\ Indices' = Indices
<1>1. Aligned(c)' <=> Aligned(c)
  BY DEF Aligned, PaddedInFront, RequiredActionNum, Strided, VideoFrames, RelativeRows
<1>2. TextCanRaise(c)' <=> TextCanRaise(c)
  BY DEF TextCanRaise, OwnText, EmptyText, CanEncode
<1>3. Indices' = Indices
  BY DEF Indices, Repos
<1>4. \A i : Rebased(i)' = Rebased(i)
  BY DEF Rebased
<1>5. \A r, start : Fixed(r, start)' = Fixed(r, start)
  BY DEF Fixed
<1>6. \A text : RawItem(c, text)' = RawItem(c, text)
  BY DEF RawItem, PerView, Views, Labels, ImageFrames, Strided, VideoFrames, PaddedInFront, RelativeRows
<1>7. Texts(c)' = Texts(c) /\ \A n : SliceStarts(n)' = SliceStarts(n)
  BY DEF Texts, OwnText, EmptyText, CanEncode, SliceStarts
<1>8. ExampleOf(c, it)' <=> ExampleOf(c, it)
  BY <1>1, <1>4, <1>5, <1>6, <1>7 DEF ExampleOf
<1>9. QED
  BY <1>1, <1>2, <1>3, <1>8

LEMMA InitLInv == StepInit => LInv
  BY DEF StepInit, LatentInit, LInv, HasExample

LEMMA TakeKeepsLInv ==
  ASSUME LInv, NEW idx \in todo, GetItem(idx), pc' \in {"train", "validate"}
  PROVE  LInv'
<1>1. config' = config /\ config \in Configs /\ todo' = todo \ {idx} /\ clip' = ClipOf(idx)
  BY DEF LInv, GetItem, Draw
<1>2. todo' \subseteq Indices /\ idx \in Indices
  BY <1>1 DEF LInv
<1>3. ExampleOf(ClipOf(idx), item')
  BY <1>1, <1>2, ClipsOfIndices DEF GetItem, ExampleOf
<1>4. ExampleOf(clip, item)'
  BY <1>1, <1>3, ConfigKept
<1>5. Indices' = Indices
  BY <1>1, ConfigKept
<1>6. QED
  BY <1>1, <1>2, <1>4, <1>5 DEF LInv

LEMMA RaiseKeepsLInv ==
  ASSUME LInv, NEW idx \in todo, GetItemRaises(idx)
  PROVE  LInv'
<1>1. /\ config' = config /\ config \in Configs /\ todo' = todo \ {idx} /\ clip' = ClipOf(idx)
      /\ item' = <<>>
  BY DEF LInv, GetItemRaises, Draw
<1>2. todo' \subseteq Indices /\ idx \in Indices
  BY <1>1 DEF LInv
<1>3. ClipOf(idx) \in Clips /\ (~Aligned(ClipOf(idx)) \/ TextCanRaise(ClipOf(idx)))
  BY <1>1, <1>2, ClipsOfIndices DEF GetItemRaises
<1>4. clip' \in Clips /\ (~Aligned(clip)' \/ TextCanRaise(clip)')
  BY <1>1, <1>3, ConfigKept
<1>5. Indices' = Indices
  BY <1>1, ConfigKept
<1>6. QED
  BY <1>1, <1>2, <1>4, <1>5 DEF LInv, HasExample

\* A step that leaves the data set alone, and leaves a training or validation step only as
\* its batch is let go.
LEMMA KeepLInv ==
  ASSUME LInv, UNCHANGED <<config, todo, clip>>, pc' = "data_error" => pc = "data_error",
         \/ item' = <<>>
         \/ item' = item /\ (pc' \notin {"train", "validate", "nonfinite"}
                              => pc \notin {"train", "validate", "nonfinite"})
  PROVE  LInv'
<1>1. config' = config /\ todo' = todo /\ clip' = clip
  OBVIOUS
<1>2. /\ ExampleOf(clip, item)' <=> ExampleOf(clip, item')
      /\ Aligned(clip)' <=> Aligned(clip)
      /\ TextCanRaise(clip)' <=> TextCanRaise(clip)
      /\ Indices' = Indices
  BY <1>1, ConfigKept
<1>3. HasExample' => ExampleOf(clip, item)'
  BY <1>1, <1>2 DEF LInv, HasExample
<1>4. pc' \notin {"train", "validate", "nonfinite"} => item' = <<>>
  BY DEF LInv
<1>5. pc' = "data_error" => clip' \in Clips /\ (~Aligned(clip)' \/ TextCanRaise(clip)')
  BY <1>1, <1>2 DEF LInv
<1>6. config' \in Configs /\ todo' \subseteq Indices'
  BY <1>1, <1>2 DEF LInv
<1>7. QED
  BY <1>3, <1>4, <1>5, <1>6 DEF LInv

LEMMA StepKeepsLInv == LInv /\ [StepNext]_allVars => LInv'
<1> SUFFICES ASSUME LInv, [StepNext]_allVars PROVE LInv'
  OBVIOUS
<1>1. ASSUME NEW idx \in todo, TakeExample(idx) PROVE LInv'
  BY <1>1, TakeKeepsLInv DEF TakeExample
<1>2. ASSUME NEW idx \in todo, ExampleRaises(idx) PROVE LInv'
  BY <1>2, RaiseKeepsLInv DEF ExampleRaises
<1>3. CASE NextEpoch
  <2>1. /\ config' = config /\ todo' = Indices /\ item' = item /\ pc' = pc /\ pc = "idle"
    BY <1>3 DEF NextEpoch, NewEpoch, stepVars
  <2>2. Indices' = Indices
    BY <2>1, ConfigKept
  <2>3. item = <<>>
    BY <2>1 DEF LInv
  <2>4. QED
    BY <2>1, <2>2, <2>3 DEF LInv, HasExample
<1>4. ASSUME NEW n \in 0 .. T, Predict(n) PROVE LInv'
  BY <1>4, KeepLInv DEF Predict, latentVars
<1>5. CASE Forward
  BY <1>5, KeepLInv DEF Forward, latentVars, stepVars
<1>6. CASE TrainStep \/ ValidationStep
  BY <1>6, KeepLInv DEF TrainStep, ValidationStep, EndStep
<1>7. CASE TrainStepRaises
  BY <1>7, KeepLInv DEF TrainStepRaises, latentVars
<1>8. CASE BeginDenoising
  BY <1>8, KeepLInv DEF BeginDenoising, latentVars
<1>9. CASE Denoise
  BY <1>9, KeepLInv DEF Denoise, latentVars
<1>10. CASE ReturnActions
  BY <1>10, KeepLInv DEF ReturnActions, latentVars
<1>11. CASE UNCHANGED allVars
  BY <1>11, KeepLInv DEF allVars, latentVars, stepVars
<1>12. QED
  BY <1>1, <1>2, <1>3, <1>4, <1>5, <1>6, <1>7, <1>8, <1>9, <1>10, <1>11 DEF StepNext

LEMMA ExampleInvariance == StepSpec => []LInv
  BY InitLInv, StepKeepsLInv, PTL DEF StepSpec

\* Whatever the clip, stride, slice, views and padding, the slots that are learnt from are
\* those of the slice but for the clip's first frame (_ensure_fixed_sequence_length,
\* _action_post_process and _compute_effective_mask).
THEOREM SupervisionTheorem == StepSpec => []SupervisionIsExact
<1>1. LInv => SupervisionIsExact
  <2> SUFFICES ASSUME LInv, HasExample
               PROVE  Supervised(item) = {k \in 1 .. T : k <= Len(PerView(ImageFrames(clip)))
                                                         /\ item.frames[k] # clip.start}
    BY DEF SupervisionIsExact
  <2>1. config \in Configs /\ ExampleOf(clip, item) /\ clip \in Clips /\ Aligned(clip)
    BY DEF LInv, ExampleOf
  <2>2. Strided(clip.len) \in Nat \ {0} /\ Strided(VideoFrames(clip)) = Strided(clip.len)
    BY <2>1, Alignment
  <2>3. Len(ImageFrames(clip)) = Strided(clip.len)
    BY <2>2 DEF ImageFrames
  <2>4. Len(PerView(ImageFrames(clip))) = Views * Strided(clip.len)
    BY <2>1, <2>2, <2>3, PerViewOf
  <2>5. Supervised(item) = {k \in 1 .. T : k <= Views * Strided(clip.len) /\ item.frames[k] # clip.start}
    BY <2>1, ExampleSlots
  <2>6. QED
    BY <2>4, <2>5
<1>2. QED
  BY <1>1, ExampleInvariance, PTL

\* Every label learnt from, put back on its anchor, is the row of the table that led up to
\* its frame, rebased on the slice or not (_rebase_item_actions_to_slice_start).
THEOREM LabelsTheorem == StepSpec => []LabelsAnchored
<1>1. LInv => LabelsAnchored
  <2> SUFFICES ASSUME LInv, HasExample, NEW k \in Supervised(item),
                      NEW n \in 1 .. config.image_frame_stride
               PROVE  LET s == config.image_frame_stride
                          anchor == ActionTable[IF config.used_action_channel_ids
                                                THEN item.frames[FirstSupervised(item)] - s ELSE clip.start]
                          row == ActionTable[item.frames[k] - s + n - 1]
                          label == Denormalise(item.action_annotations[k][n].value)
                      IN Anchored(anchor, label, row)
    BY DEF LabelsAnchored, Anchored
  <2> DEFINE s == config.image_frame_stride
             first == FirstSupervised(item)
             row == ActionTable[item.frames[k] - s + n - 1]
             start == ActionTable[clip.start]
             label == Denormalise(item.action_annotations[k][n].value)
  <2>1. config \in Configs /\ ExampleOf(clip, item)
    BY DEF LInv
  <2>2. s \in Nat \ {0} /\ (config.used_action_channel_ids => s = 1) /\ 1 \in 1 .. s
    BY <2>1, Configured
  <2>3. first \in Supervised(item)
    BY FirstOf
  <2>4. \A j \in Supervised(item) : \A m \in 1 .. s :
          /\ item.frames[j] - s + m - 1 \in DOMAIN ActionTable /\ clip.start \in DOMAIN ActionTable
          /\ item.frames[j] - s + 1 - 1 = item.frames[j] - s
          /\ Denormalise(item.action_annotations[j][m].value) =
               IF config.used_action_channel_ids
               THEN Relative(Relative(ActionTable[item.frames[j] - s + 1 - 1], start),
                             Relative(ActionTable[item.frames[first] - s + 1 - 1], start))
               ELSE Relative(ActionTable[item.frames[j] - s + m - 1], start)
    BY <2>1, ExampleSlots
  <2>5. row \in Poses /\ start \in Poses
    BY <2>4, TableAssumption
  <2>6. CASE ~config.used_action_channel_ids
    <3>1. label = Relative(row, start)
      BY <2>4, <2>6
    <3>2. QED
      BY <2>5, <2>6, <3>1, ThereAndBack
  <2>7. CASE config.used_action_channel_ids
    <3> DEFINE origin == ActionTable[item.frames[first] - s]
    <3>1. n = 1
      BY <2>2, <2>7
    <3>2. origin \in Poses /\ origin = ActionTable[item.frames[first] - s + 1 - 1]
      BY <2>2, <2>3, <2>4, TableAssumption
    <3>3. label = Relative(Relative(row, start), Relative(origin, start))
      BY <2>4, <2>7, <3>1, <3>2
    <3> HIDE DEF origin, label, row, start
    <3>4. Anchored(origin, label, row)
      BY <2>5, <3>2, <3>3, RebasedBack
    <3>5. QED
      BY <2>7, <3>4 DEF origin, label, row
  <2>8. QED
    BY <2>1, <2>6, <2>7, Configured
<1>2. QED
  BY <1>1, ExampleInvariance, PTL

\* A clip whose video, rows and text are there is never refused: the arithmetic of strides
\* in _get_range_image_data and _get_range_hf_data agrees for every length.
THEOREM WholeClips == StepSpec => []WholeClipsNeverFail
<1>1. LInv => WholeClipsNeverFail
  <2> SUFFICES ASSUME LInv, pc = "data_error", ~(clip.len < 2), ~(clip.video < clip.len),
                      ~(clip.rows < clip.len), clip.text_emb \/ (clip.raw_text /\ config.tokenizer = "works"),
                      config.tokenizer = "raises" => config.empty_emb
               PROVE  FALSE
    BY DEF WholeClipsNeverFail
  <2>1. config \in Configs /\ clip \in Clips /\ (~Aligned(clip) \/ TextCanRaise(clip))
    BY DEF LInv
  <2>2. /\ clip.len \in Nat /\ clip.video \in Nat /\ clip.rows \in Nat /\ clip.len >= 1
        /\ VideoFrames(clip) = clip.len
    BY <2>1 DEF Clips, VideoFrames
  <2>3. Aligned(clip)
    <3> DEFINE s == config.image_frame_stride
               d == Strided(clip.len)
    <3>1. s \in Nat \ {0}
      BY <2>1, Configured
    <3>2. d \in Nat \ {0} /\ (d - 1) * s <= clip.len - 1
      BY <2>1, <2>2, StridesFit
    <3>3. Len(PaddedInFront(clip)) = s + clip.rows
      BY <2>2, <3>1 DEF PaddedInFront, RelativeRows
    <3> HIDE DEF s, d
    <3>4. d * s = (d - 1) * s + s
      BY <3>1, <3>2, SMT
    <3>5. d * s <= s + clip.rows
      BY <2>2, <3>1, <3>2, <3>4
    <3>6. QED
      BY <2>2, <3>3, <3>5 DEF Aligned, RequiredActionNum, s, d
  <2>4. ~TextCanRaise(clip)
    <3>1. OwnText(clip) # {}
      BY DEF OwnText, CanEncode
    <3>2. EmptyText # {}
      <4>1. config.tokenizer \in {"works", "none", "raises"}
        BY <2>1, LatentAssumption
      <4>2. QED
        BY <4>1 DEF EmptyText
    <3>3. QED
      BY <3>1, <3>2 DEF TextCanRaise
  <2>5. QED
    BY <2>1, <2>3, <2>4
<1>2. QED
  BY <1>1, ExampleInvariance, PTL
=============================================================================
