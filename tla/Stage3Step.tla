----------------------------- MODULE Stage3Step -----------------------------
(***************************************************************************)
(* One example through elefant/policy_model/stage3_finetune.py: the data   *)
(* set's slots (LatentSlice) go through the policy transformer (the        *)
(* layers of AttentionMask), and the RDT head denoises the actions of all  *)
(* slots at once (FlowMatching), attending to the transformer's output for *)
(* every slot it is shown.  "out" holds what the prediction depends on:    *)
(* the head's self-attention is not masked, so it is one set for all       *)
(* slots.  Training, validation and prediction share the forward pass.     *)
(***************************************************************************)
EXTENDS AttentionMask, LatentSlice, FlowMatching

CONSTANTS
  UseStateCondition, UseImageCondition,  \* use_state_condition, use_image_condition
  NumInferenceSteps                      \* num_inference_steps

\* One n_seq_timesteps for all: _apply_shared_sequence_length, _validate_batch_sequence_length.
ASSUME StepAssumption ==
  /\ T = NSteps
  /\ UseStateCondition \in BOOLEAN /\ UseImageCondition \in BOOLEAN
  /\ NumInferenceSteps \in Nat \ {0}

\* The unit of the fixed point is fine enough to tell the steps of the schedule apart, as
\* floating point does.
ASSUME ResolutionAssumption ==
  \A i, j \in 1 .. NumInferenceSteps :
    Sigmas(NumInferenceSteps)[i] = Sigmas(NumInferenceSteps)[j] => i = j

VARIABLES
  pc,       \* "idle", "train", "validate", "predict", "denoise", "data_error", "nonfinite"
  out,      \* the slots that count and the inputs their prediction depends on
  sample,   \* the action sequence being denoised
  stepIdx   \* denoising steps made

stepVars == <<pc, out, sample, stepIdx>>
allVars == <<vars, latentVars, stepVars>>

-----------------------------------------------------------------------------
(* Inputs of the head, as pairs of a kind and a slot counted from 0 *)

\* What an output of the transformer depends on.  Its own learnt token is no input.
InputsOf(q) ==
  {<<IF IsRealAction(p) THEN "action" ELSE "observation", Step(p)>> : p \in {x \in reads[q] : ~IsActionOut(x)}}

ImageOut(k) == {k * OneStepLen + i : i \in NText .. NText + NImg - 1}

\* _get_rdt_valid_step_mask without a mask: frames that are not all zero, or else all.
ValidSteps(shown) == IF shown = {} THEN 1 .. T ELSE shown

\* Variant with a defect: every step is a condition.
ConditionStepsAll(valid, supervised) == 1 .. T

\* _build_rdt_conditions: condition_step_mask & valid_step_mask.
ConditionSteps(valid, supervised) == valid \intersect supervised

\* policy_action_condition_to_rdt_proj and image_condition_to_rdt_proj: by step, what its
\* condition tokens depend on.
ActionCondition == [k \in 1 .. T |-> InputsOf(OutputIdx(k - 1))]
ImageCondition ==
  [k \in 1 .. T |-> IF UseImageCondition THEN UNION {InputsOf(q) : q \in ImageOut(k - 1)} ELSE {}]

\* The first slot's action, or a learnt vector.
StateCondition == IF UseStateCondition THEN {<<"action", 0>>} ELSE {}

\* CrossAttention.forward: masked conditions give nothing, and if all are it adds zeros.
CrossAttention(c, mask) == UNION {c[k] : k \in mask}

\* RDTBlock.forward: self-attention, which no mask restricts, mixes all slots.
RDTBlock(x, c, mask) == x \union CrossAttention(c, mask)

\* RDT.forward: the state comes with the timestep, the blocks look at images and at
\* action_out tokens in turn.
HeadReads(conditions) ==
  RDTBlock(RDTBlock(StateCondition, ImageCondition, conditions), ActionCondition, conditions)

-----------------------------------------------------------------------------
StepInit ==
  /\ Init
  /\ LatentInit
  /\ pc = "idle"
  /\ out = <<>>
  /\ sample = <<>>
  /\ stepIdx = 0

\* A batch arrives for training or for validation.
TakeExample(idx) ==
  /\ pc = "idle"
  /\ GetItem(idx)
  /\ pc' \in {"train", "validate"}
  /\ out' = <<>>
  /\ UNCHANGED <<vars, sample, stepIdx>>

\* __getitem__ raises: the error ends the program.
ExampleRaises(idx) ==
  /\ pc = "idle"
  /\ GetItemRaises(idx)
  /\ pc' = "data_error"
  /\ UNCHANGED <<vars, out, sample, stepIdx>>

NextEpoch ==
  /\ pc = "idle"
  /\ NewEpoch
  /\ UNCHANGED <<vars, stepVars>>

\* online_full_predict_actions on a window whose first n frames hold something.
Predict(n) ==
  /\ pc = "idle"
  /\ out' = [by |-> "predict", steps |-> ValidSteps(1 .. n), inputs |-> {}]
  /\ pc' = "predict"
  /\ UNCHANGED <<vars, latentVars, sample, stepIdx>>

\* PolicyCausalTransformer.forward, layer by layer.
Forward ==
  /\ pc \in {"train", "validate", "predict"}
  /\ ApplyLayer
  /\ UNCHANGED <<latentVars, stepVars>>

\* The next forward pass starts from its own inputs.
ResetForward ==
  /\ layer' = 0
  /\ reads' = [q \in Positions |-> {q}]
  /\ reach' = 0
  /\ UNCHANGED attentionHistoryLen

\* _create_target_and_masked_labels and _calculate_loss.
CalculateLoss ==
  LET valid == {k \in 1 .. T : item.valid_frame_mask[k]}
  IN out' = [by |-> pc, steps |-> Supervised(item),
             inputs |-> HeadReads(ConditionSteps(valid, Supervised(item)))]

\* The step is over, and its batch let go.
EndStep ==
  /\ pc' = "idle"
  /\ item' = <<>>
  /\ ResetForward
  /\ UNCHANGED <<config, todo, clip, sample, stepIdx>>

TrainStep ==
  /\ pc = "train"
  /\ layer = NLayers
  /\ CalculateLoss
  /\ EndStep

\* Only what is supervised is looked at for numbers that are not finite.
TrainStepRaises ==
  /\ pc = "train"
  /\ layer = NLayers
  /\ Supervised(item) # {}
  /\ pc' = "nonfinite"
  /\ UNCHANGED <<vars, latentVars, out, sample, stepIdx>>

ValidationStep ==
  /\ pc = "validate"
  /\ layer = NLayers
  /\ CalculateLoss
  /\ EndStep

\* _denoise_action_sequence begins with noise or with the sample it is given.
BeginDenoising ==
  /\ pc = "predict"
  /\ layer = NLayers
  /\ out' = [out EXCEPT !.inputs = HeadReads(ConditionSteps(out.steps, out.steps))]
  /\ \E initial \in {"noise", "given"} :
       sample' = [clean |-> 0, noise |-> IF initial = "noise" THEN Unit ELSE 0,
                  given |-> IF initial = "given" THEN Unit ELSE 0]
  /\ stepIdx' = 0
  /\ pc' = "denoise"
  /\ ResetForward
  /\ UNCHANGED latentVars

Denoise ==
  LET sigmas == Sigmas(NumInferenceSteps)
  IN /\ pc = "denoise"
     /\ stepIdx < NumInferenceSteps
     /\ sample' = EulerStep(sigmas, sample, sigmas[stepIdx + 1], stepIdx + 1 = NumInferenceSteps)
     /\ stepIdx' = stepIdx + 1
     /\ UNCHANGED <<vars, latentVars, pc, out>>

ReturnActions ==
  /\ pc = "denoise"
  /\ stepIdx = NumInferenceSteps
  /\ pc' = "idle"
  /\ stepIdx' = 0
  /\ sample' = <<>>
  /\ UNCHANGED <<vars, latentVars, out>>

StepNext ==
  \/ \E idx \in todo : TakeExample(idx) \/ ExampleRaises(idx)
  \/ NextEpoch
  \/ \E n \in 0 .. T : Predict(n)
  \/ Forward
  \/ TrainStep
  \/ TrainStepRaises
  \/ ValidationStep
  \/ BeginDenoising
  \/ Denoise
  \/ ReturnActions

StepSpec == StepInit /\ [][StepNext]_allVars

-----------------------------------------------------------------------------
(* Properties *)

HasExample == item # <<>>

\* A label is the commanded pose seen from the first label that is learnt from (from the
\* clip's beginning if the data set does not rebase): putting the two together gives the
\* row of the action table that led up to the slot's frame, for any slice and stride.
LabelsAnchored ==
  HasExample => \A k \in Supervised(item) : \A n \in 1 .. config.image_frame_stride :
    item.action_annotations[k][n].real =>
      LET s == config.image_frame_stride
          anchor == ActionTable[IF config.used_action_channel_ids
                                THEN item.frames[FirstSupervised(item)] - s ELSE clip.start]
          row == ActionTable[item.frames[k] - s + n - 1]
          label == Denormalise(item.action_annotations[k][n].value)
      IN \A a \in Arms : /\ anchor[a].pos + label[a].pos = row[a].pos
                         /\ Compose(anchor[a].rot, label[a].rot) = row[a].rot
                         /\ label[a].grip = row[a].grip

\* What is learnt from is exactly what was recorded: every slot of the slice but those of
\* the clip's first frame, before which nothing was commanded, and no slot of padding.
SupervisionIsExact ==
  HasExample =>
    LET recorded == Len(PerView(ImageFrames(clip)))
    IN Supervised(item) = {k \in 1 .. T : k <= recorded /\ item.frames[k] # clip.start}

\* Only clips with something missing stop the training: the frames taken from the video and
\* the rows taken from the table agree for every length and stride.
WholeClipsNeverFail ==
  pc = "data_error" =>
    \/ clip.len < 2 \/ clip.video < clip.len \/ clip.rows < clip.len
    \/ ~clip.text_emb /\ ~(clip.raw_text /\ config.tokenizer = "works")
    \/ config.tokenizer = "raises" /\ ~config.empty_emb

\* The last action the head is shown is predicted without being seen, in training as in a
\* prediction, where it is not known yet: no step after it is a condition.
LastActionUnseen ==
  out # <<>> => \A k \in out.steps :
    (\A j \in out.steps : j <= k) /\ (k > 1 \/ ~UseStateCondition) => <<"action", k - 1>> \notin out.inputs

\* Each denoising step is asked of the head at a mixture it was trained on for that
\* timestep, and the last one leaves the clean actions, when it all began with noise.
OnTrainedPath ==
  pc = "denoise" /\ sample.given = 0 =>
    sample = Noisy(IF stepIdx = NumInferenceSteps THEN 0 ELSE Sigmas(NumInferenceSteps)[stepIdx + 1])

\* What the docstring of _img_policy_causal_mask asks for, of the whole policy: a prediction
\* is trained without sight of its own label.
NoLabelLeak ==
  out # <<>> /\ out.by = "train" => \A k \in out.steps : <<"action", k - 1>> \notin out.inputs
=============================================================================
