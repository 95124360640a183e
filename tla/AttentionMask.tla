---------------------------- MODULE AttentionMask ----------------------------
(***************************************************************************)
(* The causal mask of the policy transformer (_img_policy_causal_mask of   *)
(* elefant/policy_model/policy_transformer.py) and what it lets through:   *)
(* the transformer applies one masked attention layer after another, and   *)
(* "reads" collects, for every position of the sequence, the positions     *)
(* whose input its value may depend on so far.  A step of the sequence is  *)
(* an observation (image, text and thinking tokens), the action_out token  *)
(* whose output is the predicted action, and the tokens of the real        *)
(* action, which training fills with the label of that very step.          *)
(***************************************************************************)
EXTENDS Integers

CONSTANTS NImg, NText, NThinking,  \* tokens of an observation
          NAction,                 \* n_action_tokens of the configuration: the real action's
          NSinks,                  \* n_kv_sink_tokens
          NSteps,                  \* n_steps
          NLayers                  \* transformer layers

ASSUME MaskAssumption ==
  /\ NImg \in Nat /\ NText \in Nat /\ NThinking \in Nat /\ NAction \in Nat
  /\ NSinks \in Nat /\ NSteps \in Nat \ {0} /\ NLayers \in Nat

TokenToActionOut == NImg + NText + NThinking
OneStepLen == TokenToActionOut + 1 + NAction
Positions == 0 .. OneStepLen * NSteps - 1
KvIndices == 0 .. OneStepLen * NSteps + NSinks - 1

VARIABLES
  attentionHistoryLen,  \* attention_history_len, one entry per layer
  layer,                \* layers applied so far
  reads,                \* the positions each position depends on
  reach                 \* history: the sum of the entries of the layers applied

vars == <<attentionHistoryLen, layer, reads, reach>>

-----------------------------------------------------------------------------
\* _mask: the kind of a token is where it stands in its step.
Step(idx) == idx \div OneStepLen
Slot(idx) == idx % OneStepLen

IsObservation(idx) == Slot(idx) < TokenToActionOut
IsActionOut(idx) == Slot(idx) = TokenToActionOut
IsRealAction(idx) == Slot(idx) > TokenToActionOut

\* output_action_token_idx
OutputIdx(step) == step * OneStepLen + NImg + NText + NThinking

\* Keys and values begin with the sinks.
Base(kv) == kv - NSinks

\* Variant with a defect: the action_out token sees all of its own step.
SameStepOpen(q, k) == Step(k) = Step(q)

\* Within a step: observations see one another, action_out sees them and itself, a real
\* action sees all but action_out.
SameStep(q, k) ==
  /\ Step(k) = Step(q)
  /\ \/ IsObservation(q) /\ IsObservation(k)
     \/ IsActionOut(q) /\ ~IsRealAction(k)
     \/ IsRealAction(q) /\ ~IsActionOut(k)

EarlierStep(q, k) == Step(k) < Step(q) /\ ~IsActionOut(k)

\* Variant with a defect: one step too few.
WithinHistoryOneLess(historyLen, q, k) == Step(q) - Step(k) < historyLen

WithinHistory(historyLen, q, k) == Step(q) - Step(k) <= historyLen

Mask(historyLen, q, kv) ==
  \/ kv < NSinks
  \/ (EarlierStep(q, Base(kv)) \/ SameStep(q, Base(kv))) /\ WithinHistory(historyLen, q, Base(kv))

-----------------------------------------------------------------------------
Init ==
  /\ attentionHistoryLen \in [1 .. NLayers -> 0 .. NSteps]
  /\ layer = 0
  /\ reads = [q \in Positions |-> {q}]
  /\ reach = 0

\* What a position attends to brings along what that depends on.
AttendTo(q, historyLen) ==
  UNION {reads[Base(kv)] : kv \in {x \in KvIndices : x >= NSinks /\ Mask(historyLen, q, x)}}

\* A layer adds to each position what it attends to.  A sink is a parameter of the layer.
ApplyLayer ==
  /\ layer < NLayers
  /\ layer' = layer + 1
  /\ reads' = [q \in Positions |-> reads[q] \union AttendTo(q, attentionHistoryLen[layer'])]
  /\ reach' = reach + attentionHistoryLen[layer']
  /\ UNCHANGED attentionHistoryLen

Next == ApplyLayer

Spec == Init /\ [][Next]_vars

-----------------------------------------------------------------------------
(* Properties *)

TypeOK ==
  /\ attentionHistoryLen \in [1 .. NLayers -> 0 .. NSteps]
  /\ layer \in 0 .. NLayers
  /\ reads \in [Positions -> SUBSET Positions]
  /\ reach \in Nat

\* The predicted action of a step is a function of the observations up to that step and the
\* actions before it, through any number of layers: neither of the label it is trained to
\* predict, nor of anything later, which are not known when the policy runs.
PredictionIsCausal ==
  \A q \in Positions : IsActionOut(q) =>
    \A k \in reads[q] : Step(k) <= Step(q) /\ (IsRealAction(k) => Step(k) < Step(q))

\* An action_out token is a pure read-out: nothing else ever depends on one.
OutputsAreReadOnly ==
  \A q \in Positions : \A k \in reads[q] : IsActionOut(k) => k = q

\* What a position depends on goes back at most as many steps as the layers' history
\* lengths allow together.
ReceptiveField ==
  \A q \in Positions : \A k \in reads[q] : Step(q) - Step(k) <= reach

\* Nothing is masked by mistake: after the first layer the output of a step already
\* depends on all of its observation, and on observations and real actions of every step
\* within that layer's history.
OutputSeesHistory ==
  layer >= 1 =>
    \A t \in 0 .. NSteps - 1 : \A k \in Positions :
      /\ t - Step(k) \in 0 .. attentionHistoryLen[1]
      /\ IsObservation(k) \/ (IsRealAction(k) /\ Step(k) < t)
      => k \in reads[OutputIdx(t)]
=============================================================================
