--------------------------- MODULE RobotTwinWindow ---------------------------
(***************************************************************************)
(* The sliding window of the RoboTwin policy server (the class             *)
(* RobotTwinSequenceInferenceState of elefant/evaluation/robotwin/         *)
(* server.py, with the pose arithmetic of common.py).  The server keeps    *)
(* the last SeqLen frames with the robot poses and the actions that go     *)
(* with them.  Actions are relative to the pose of the oldest frame, the   *)
(* anchor; when the window slides the anchor changes, and every action     *)
(* that stays is rebased.                                                  *)
(*                                                                         *)
(* Requests of all connections are handled one after another by one event  *)
(* loop, so a behaviour is one sequence of resets and steps.  A pose is an *)
(* element of a group, as positions and rotations of the two arms are; an  *)
(* action is the relative pose its normalised vector stands for.  Grippers *)
(* are left out (they are never relative), and so are prompts and text     *)
(* embeddings, which only bear on what the model predicts.                 *)
(***************************************************************************)
EXTENDS Integers, Sequences

CONSTANTS Pose, Identity, Compose(_, _), Inverse(_),
          Zero,         \* the action a vector of zeros stands for
          None,         \* Python's None
          SeqLen,       \* n_seq_timesteps
          Observed,     \* poses the robot is observed in
          Predictions,  \* sequences of actions the model answers with
          Smoothed,     \* absolute targets that smoothing may give
          MaxSteps      \* bound: steps of an episode

ASSUME PoseAssumption ==
  /\ Identity \in Pose
  /\ \A x, y \in Pose : Compose(x, y) \in Pose
  /\ \A x \in Pose : Inverse(x) \in Pose
  /\ \A x, y, z \in Pose : Compose(Compose(x, y), z) = Compose(x, Compose(y, z))
  /\ \A x \in Pose : Compose(x, Identity) = x /\ Compose(Identity, x) = x
  /\ \A x \in Pose : Compose(x, Inverse(x)) = Identity /\ Compose(Inverse(x), x) = Identity

ASSUME WindowAssumption ==
  /\ SeqLen \in Nat \ {0} /\ MaxSteps \in Nat
  /\ Zero \in Pose /\ Observed \subseteq Pose /\ Smoothed \subseteq Pose
  /\ Predictions \subseteq [1 .. SeqLen -> Pose]
  /\ None \notin Pose /\ None \notin [1 .. SeqLen -> Pose]

Indices == 1 .. SeqLen

VARIABLES
  legacyInference,   \* option: the older evaluation path
  smoothing,         \* option: action_smoothing_alpha is above 0
  compile,           \* whether the model is called compiled
  frameHistory,      \* the frames of the window, each the number of its step; 0 is blank
  poseHistory,       \* the pose each was taken in
  actionHistory,     \* the action answered to each, relative to the anchor
  anchorPose,        \* anchor_pose_16d
  prevActionPreds,   \* the last prediction, from which the next one is warm-started
  prevExecuted,      \* prev_executed_absolute_action_16d
  nPriorFrames,      \* frames in the window
  log                \* history: what every step of the episode was asked and answered

options == <<legacyInference, smoothing>>
vars == <<options, compile, frameHistory, poseHistory, actionHistory, anchorPose,
          prevActionPreds, prevExecuted, nPriorFrames, log>>

-----------------------------------------------------------------------------
\* compose_compact_relative_action, absolute_to_relative_compact_action
Absolute(action, anchor) == Compose(anchor, action)
Relative(pose, anchor) == Compose(Inverse(anchor), pose)

\* Variant with a defect: the inverse rebase.
RebaseBack(action, newAnchor) == Compose(newAnchor, action)

\* rebase_compact_relative_action: newAnchor is relative to the old anchor, as action is.
Rebase(action, newAnchor) == Compose(Inverse(newAnchor), action)

Filling == nPriorFrames < SeqLen
FrameIndex == IF Filling THEN nPriorFrames + 1 ELSE SeqLen

\* torch.roll by -1, with the freed slot written.
Roll(history, last) == [i \in Indices |-> IF i < SeqLen THEN history[i + 1] ELSE last]

\* Variant with a defect: a full window is overwritten in place.
RecordedInPlace(history, value) == [history EXCEPT ![FrameIndex] = value]

\* A history with the value of the new frame.
Recorded(history, value) ==
  IF Filling THEN [history EXCEPT ![FrameIndex] = value] ELSE Roll(history, value)

\* The next anchor as an action relative to the present one.
NewAnchor(pose) == Relative(Recorded(poseHistory, pose)[1], poseHistory[1])

\* _rebase_action_history_after_roll and its legacy form, which takes the action of the
\* oldest frame for its pose.  The slot of the new frame holds zeros.
KeptActions(pose) ==
  LET rolled == Roll(actionHistory, Zero)
      newAnchor == IF legacyInference THEN rolled[1] ELSE NewAnchor(pose)
  IN  IF Filling THEN actionHistory
      ELSE [i \in Indices |-> IF i < SeqLen THEN Rebase(rolled[i], newAnchor) ELSE Zero]

\* Variant with a defect: the warm start is not shifted.
KeptPredictionsUnshifted(pose) ==
  IF Filling \/ legacyInference \/ prevActionPreds = None THEN prevActionPreds
  ELSE [i \in Indices |-> Rebase(prevActionPreds[i], NewAnchor(pose))]

\* _roll_warm_start_predictions: the last prediction is repeated.
KeptPredictions(pose) ==
  IF Filling \/ legacyInference \/ prevActionPreds = None THEN prevActionPreds
  ELSE LET shifted == Roll(prevActionPreds, prevActionPreds[SeqLen])
       IN  [i \in Indices |-> Rebase(shifted[i], NewAnchor(pose))]

-----------------------------------------------------------------------------
\* What reset clears.  A pose of zeros is read as the identity.
ClearWindow ==
  /\ frameHistory' = [i \in Indices |-> 0]
  /\ poseHistory' = [i \in Indices |-> Identity]
  /\ actionHistory' = [i \in Indices |-> Zero]
  /\ anchorPose' = Identity
  /\ prevActionPreds' = None
  /\ nPriorFrames' = 0

Init ==
  /\ legacyInference \in BOOLEAN /\ smoothing \in BOOLEAN /\ compile \in BOOLEAN
  /\ frameHistory = [i \in Indices |-> 0]
  /\ poseHistory = [i \in Indices |-> Identity]
  /\ actionHistory = [i \in Indices |-> Zero]
  /\ anchorPose = Identity
  /\ prevActionPreds = None
  /\ prevExecuted = None
  /\ nPriorFrames = 0
  /\ log = <<>>

\* Variant with a defect: the executed action is kept.
ResetButExecuted ==
  /\ ClearWindow
  /\ log' = <<>>
  /\ UNCHANGED <<options, compile, prevExecuted>>

Reset ==
  /\ ClearWindow
  /\ prevExecuted' = None
  /\ log' = <<>>
  /\ UNCHANGED <<options, compile>>

\* step: the new frame enters the window.
RecordFrame(pose) ==
  /\ Len(log) < MaxSteps
  /\ frameHistory' = Recorded(frameHistory, Len(log) + 1)
  /\ poseHistory' = Recorded(poseHistory, pose)
  /\ anchorPose' = poseHistory'[1]
  /\ nPriorFrames' = IF Filling THEN nPriorFrames + 1 ELSE nPriorFrames
  /\ UNCHANGED options

\* infer answers the absolute target of an action.
Answer(pose, action) ==
  log' = Append(log, [pose |-> pose, target |-> Absolute(action, anchorPose'),
                      plan |-> IF prevActionPreds' = None THEN None
                               ELSE [i \in Indices |-> Absolute(prevActionPreds'[i], anchorPose')]])

\* The first frame is answered with the identity: the robot stays.
StepFirst(pose) ==
  /\ RecordFrame(pose)
  /\ nPriorFrames' = 1
  /\ actionHistory' = [KeptActions(pose) EXCEPT ![FrameIndex] = Identity]
  /\ prevExecuted' = IF legacyInference THEN prevExecuted ELSE pose
  /\ prevActionPreds' = KeptPredictions(pose)
  /\ Answer(pose, Identity)
  /\ UNCHANGED compile

\* online_full_predict; when memory runs out it is called once more, uncompiled from now on.
Predict == compile' = compile \/ (compile /\ compile' = FALSE)

\* _stabilize_normalized_action: the absolute target of a predicted action, blended with the
\* one executed before.
Targets(action) ==
  LET target == Absolute(action, anchorPose')
  IN  IF smoothing /\ prevExecuted # None THEN Smoothed \union {target} ELSE {target}

StepLegacy(pose) ==
  /\ legacyInference /\ RecordFrame(pose) /\ nPriorFrames' # 1
  /\ Predict
  /\ \E preds \in Predictions :
       /\ actionHistory' = [KeptActions(pose) EXCEPT ![FrameIndex] = preds[FrameIndex]]
       /\ prevActionPreds' = KeptPredictions(pose)
       /\ Answer(pose, preds[FrameIndex])
  /\ UNCHANGED prevExecuted

StepPredicted(pose) ==
  /\ ~legacyInference /\ RecordFrame(pose) /\ nPriorFrames' # 1
  /\ Predict
  /\ \E preds \in Predictions : \E target \in Targets(preds[FrameIndex]) :
       LET action == Relative(target, anchorPose')
       IN  /\ actionHistory' = [KeptActions(pose) EXCEPT ![FrameIndex] = action]
           /\ prevActionPreds' = [preds EXCEPT ![FrameIndex] = action]
           /\ prevExecuted' = target
           /\ Answer(pose, action)

\* The model raises: the frame stays in the window, with zeros for an action.
StepFails(pose) ==
  /\ RecordFrame(pose) /\ nPriorFrames' # 1
  /\ Predict
  /\ actionHistory' = KeptActions(pose)
  /\ prevActionPreds' = KeptPredictions(pose)
  /\ log' = Append(log, [pose |-> pose, target |-> None, plan |-> None])
  /\ UNCHANGED prevExecuted

Next ==
  \/ Reset
  \/ \E pose \in Observed : StepFirst(pose) \/ StepLegacy(pose) \/ StepPredicted(pose) \/ StepFails(pose)

Spec == Init /\ [][Next]_vars

-----------------------------------------------------------------------------
(* Properties *)

TypeOK ==
  /\ legacyInference \in BOOLEAN /\ smoothing \in BOOLEAN /\ compile \in BOOLEAN
  /\ frameHistory \in [Indices -> Nat]
  /\ poseHistory \in [Indices -> Pose] /\ actionHistory \in [Indices -> Pose]
  /\ anchorPose \in Pose /\ prevExecuted \in Pose \union {None}
  /\ prevActionPreds \in [Indices -> Pose] \union {None}
  /\ nPriorFrames \in 0 .. SeqLen
  /\ log \in Seq([pose : Pose, target : Pose \union {None}, plan : [Indices -> Pose] \union {None}])

\* Steps of the episode that have left the window after its first n.
Left(n) == IF n > SeqLen THEN n - SeqLen ELSE 0

\* The window is the last frames of this episode, in order, each with the pose it was taken
\* in, the oldest one's the anchor, and nothing of an earlier episode.  Under the legacy
\* path its first action is the identity, whatever slid out.
WindowIsRecent ==
  /\ nPriorFrames = Len(log) - Left(Len(log))
  /\ \A i \in 1 .. nPriorFrames :
       /\ frameHistory[i] = Left(Len(log)) + i
       /\ poseHistory[i] = log[Left(Len(log)) + i].pose
  /\ \A i \in nPriorFrames + 1 .. SeqLen : frameHistory[i] = 0 /\ actionHistory[i] = Zero
  /\ nPriorFrames > 0 => anchorPose = poseHistory[1]
  /\ legacyInference /\ nPriorFrames > 0 => actionHistory[1] = Identity

\* However often it was rebased, the action kept for a frame still stands for the absolute
\* target the robot was given at that frame.
HistoryReplays ==
  ~legacyInference =>
    \A i \in 1 .. nPriorFrames :
      LET answered == log[Left(Len(log)) + i]
      IN  answered.target # None => Absolute(actionHistory[i], anchorPose) = answered.target

\* The warm start is the last prediction made in this episode, seen from today's anchor and
\* shifted by the frames that have come since.
WarmStartFollows ==
  prevActionPreds # None =>
    \E n \in 1 .. Len(log) :
      /\ log[n].plan # None
      /\ \A m \in n + 1 .. Len(log) : log[m].plan = None
      /\ \A i \in Indices :
           LET later == i + Left(Len(log)) - Left(n)
           IN  Absolute(prevActionPreds[i], anchorPose) =
                 log[n].plan[IF later < SeqLen THEN later ELSE SeqLen]

\* Smoothing goes on from the target the robot was really given last, and after a reset
\* from none.
SmoothsFromLast ==
  /\ ~legacyInference /\ log # <<>> => prevExecuted # None
  /\ prevExecuted # None =>
       \E n \in 1 .. Len(log) :
         /\ log[n].target = prevExecuted
         /\ \A m \in n + 1 .. Len(log) : log[m].target = None
=============================================================================
