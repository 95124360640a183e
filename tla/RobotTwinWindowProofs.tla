------------------------ MODULE RobotTwinWindowProofs ------------------------
(***************************************************************************)
(* What the window of RobotTwinWindow keeps still stands for what the      *)
(* robot was told, for every group of poses and every window length.       *)
(***************************************************************************)
EXTENDS RobotTwinWindow, TLAPS

Window == /\ nPriorFrames = Len(log) - Left(Len(log))
          /\ nPriorFrames > 0 => anchorPose = poseHistory[1]

\* The older path neither smooths nor warm-starts.
LegacyUnsmoothed == legacyInference => prevExecuted = None /\ prevActionPreds = None

IInv == /\ TypeOK /\ Window /\ WindowIsRecent /\ HistoryReplays
        /\ WarmStartFollows /\ SmoothsFromLast /\ LegacyUnsmoothed

Entry == [pose : Pose, target : Pose \union {None}, plan : [Indices -> Pose] \union {None}]

-----------------------------------------------------------------------------
(* The arithmetic of poses *)

LEMMA PoseClosed ==
  ASSUME NEW x \in Pose, NEW y \in Pose
  PROVE  Absolute(x, y) \in Pose /\ Relative(x, y) \in Pose /\ Rebase(x, y) \in Pose
BY PoseAssumption DEF Absolute, Relative, Rebase

\* A relative pose put back on its anchor is the pose itself.
LEMMA AbsoluteRelative ==
  ASSUME NEW x \in Pose, NEW a \in Pose
  PROVE  Absolute(Relative(x, a), a) = x
<1>1. Inverse(a) \in Pose
  BY PoseAssumption
<1>2. Compose(a, Compose(Inverse(a), x)) = Compose(Compose(a, Inverse(a)), x)
  BY <1>1, PoseAssumption
<1>3. QED
  BY <1>2, PoseAssumption DEF Absolute, Relative

\* Rebasing an action from one anchor to the next leaves its target where it was.
LEMMA RebaseKeepsTarget ==
  ASSUME NEW x \in Pose, NEW old \in Pose, NEW new \in Pose
  PROVE  Absolute(Rebase(x, Relative(new, old)), new) = Absolute(x, old)
<1> DEFINE r == Relative(new, old)
<1>1. r \in Pose /\ Inverse(r) \in Pose /\ Compose(Inverse(r), x) \in Pose
  BY PoseClosed, PoseAssumption
<1>2. new = Compose(old, r)
  BY AbsoluteRelative DEF Absolute
<1>3. Compose(Compose(old, r), Compose(Inverse(r), x)) = Compose(old, Compose(r, Compose(Inverse(r), x)))
  BY <1>1, PoseAssumption
<1>4. Compose(r, Compose(Inverse(r), x)) = x
  BY <1>1, AbsoluteRelative DEF Absolute, Relative
<1>5. QED
  BY <1>2, <1>3, <1>4 DEF Absolute, Rebase

-----------------------------------------------------------------------------
(* The window *)

LEMMA RecordedType ==
  ASSUME NEW S, NEW h \in [Indices -> S], NEW v \in S, nPriorFrames \in 0 .. SeqLen
  PROVE  Recorded(h, v) \in [Indices -> S]
BY WindowAssumption DEF Recorded, Roll, Indices, Filling, FrameIndex

LEMMA IndexType ==
  ASSUME nPriorFrames \in 0 .. SeqLen
  PROVE  FrameIndex \in Indices /\ 1 \in Indices
BY WindowAssumption DEF FrameIndex, Filling, Indices

LEMMA KeptType ==
  ASSUME TypeOK, NEW pose \in Pose
  PROVE  /\ NewAnchor(pose) \in Pose
         /\ KeptActions(pose) \in [Indices -> Pose]
         /\ KeptPredictions(pose) \in [Indices -> Pose] \union {None}
<1> USE DEF TypeOK
<1>1. NewAnchor(pose) \in Pose
  <2>1. Recorded(poseHistory, pose) \in [Indices -> Pose]
    BY RecordedType
  <2>2. Recorded(poseHistory, pose)[1] \in Pose /\ poseHistory[1] \in Pose
    BY <2>1, IndexType
  <2>3. QED
    BY <2>2, PoseClosed DEF NewAnchor
<1>2. ASSUME NEW h \in [Indices -> Pose], NEW v \in Pose
      PROVE  Roll(h, v) \in [Indices -> Pose]
  BY WindowAssumption DEF Roll, Indices
<1>3. KeptActions(pose) \in [Indices -> Pose]
  <2>1. Roll(actionHistory, Zero) \in [Indices -> Pose]
    BY <1>2, WindowAssumption
  <2>2. \A i \in Indices, r \in Pose : Rebase(Roll(actionHistory, Zero)[i], r) \in Pose
    BY <2>1, PoseClosed
  <2>3. QED
    BY <1>1, <2>1, <2>2, IndexType, WindowAssumption DEF KeptActions
<1>4. KeptPredictions(pose) \in [Indices -> Pose] \union {None}
  <2>1. CASE Filling \/ legacyInference \/ prevActionPreds = None
    BY <2>1 DEF KeptPredictions
  <2>2. CASE ~(Filling \/ legacyInference \/ prevActionPreds = None)
    <3>1. prevActionPreds \in [Indices -> Pose]
      BY <2>2
    <3>2. prevActionPreds[SeqLen] \in Pose
      BY <3>1, WindowAssumption DEF Indices
    <3>3. Roll(prevActionPreds, prevActionPreds[SeqLen]) \in [Indices -> Pose]
      BY <1>2, <3>1, <3>2
    <3>4. QED
      BY <1>1, <2>2, <3>3, PoseClosed DEF KeptPredictions
  <2>3. QED
    BY <2>1, <2>2
<1>5. QED
  BY <1>1, <1>3, <1>4

\* How the window moves when the episode is one step longer.
LEMMA WindowFollows ==
  ASSUME NEW n \in Nat, nPriorFrames \in 0 .. SeqLen, nPriorFrames = n - Left(n)
  PROVE  /\ Filling => nPriorFrames = n /\ Left(n) = 0 /\ Left(n + 1) = 0
         /\ ~Filling => nPriorFrames = SeqLen /\ n >= SeqLen /\ Left(n) = n - SeqLen /\ Left(n + 1) = Left(n) + 1
         /\ Left(n) \in 0 .. n
         /\ (IF Filling THEN nPriorFrames + 1 ELSE nPriorFrames) = n + 1 - Left(n + 1)
<1>1. CASE n > SeqLen
  BY <1>1, WindowAssumption DEF Filling, Left
<1>2. CASE n <= SeqLen
  <2>1. nPriorFrames = n /\ Left(n) = 0
    BY <1>2, WindowAssumption DEF Left
  <2>2. CASE n < SeqLen
    BY <2>1, <2>2, WindowAssumption DEF Filling, Left
  <2>3. CASE n = SeqLen
    BY <2>1, <2>3, WindowAssumption DEF Filling, Left
  <2>4. QED
    BY <1>2, <2>2, <2>3, WindowAssumption
<1>3. QED
  BY <1>1, <1>2, WindowAssumption

\* Recording a frame keeps the window's types and its shape.
LEMMA FrameRecorded ==
  ASSUME TypeOK, Window, NEW pose \in Pose, RecordFrame(pose), NEW e, log' = Append(log, e)
  PROVE  /\ frameHistory' \in [Indices -> Nat]
         /\ poseHistory' \in [Indices -> Pose]
         /\ anchorPose' \in Pose
         /\ nPriorFrames' \in 0 .. SeqLen
         /\ Window'
         /\ nPriorFrames' > 0
<1> USE DEF TypeOK
<1>1. Len(log) \in Nat /\ Len(log') = Len(log) + 1
  OBVIOUS
<1>2. frameHistory' \in [Indices -> Nat] /\ poseHistory' \in [Indices -> Pose]
  <2>1. Recorded(frameHistory, Len(log) + 1) \in [Indices -> Nat]
    <3>1. frameHistory \in [Indices -> Nat] /\ Len(log) + 1 \in Nat /\ nPriorFrames \in 0 .. SeqLen
      BY <1>1
    <3>2. QED
      BY ONLY <3>1, RecordedType
  <2>2. Recorded(poseHistory, pose) \in [Indices -> Pose]
    BY RecordedType
  <2>3. QED
    BY <2>1, <2>2 DEF RecordFrame
<1>3. anchorPose' = poseHistory'[1] /\ anchorPose' \in Pose
  BY <1>2, IndexType DEF RecordFrame
<1>4. nPriorFrames' \in 0 .. SeqLen /\ nPriorFrames' > 0
  BY WindowAssumption DEF RecordFrame, Filling
<1>5. nPriorFrames' = Len(log') - Left(Len(log'))
  BY <1>1, WindowFollows DEF RecordFrame, Window
<1>6. QED
  BY <1>2, <1>3, <1>4, <1>5 DEF Window

\* What stays in the window replays as before, seen from the new anchor.
LEMMA KeptReplays ==
  ASSUME TypeOK, Window, HistoryReplays, ~legacyInference, NEW pose \in Pose, RecordFrame(pose),
         NEW e, log' = Append(log, e),
         actionHistory' \in [Indices -> Pose],
         \A i \in Indices \ {FrameIndex} : actionHistory'[i] = KeptActions(pose)[i],
         e.target # None => Absolute(actionHistory'[FrameIndex], anchorPose') = e.target
  PROVE  HistoryReplays'
<1> USE DEF TypeOK
<1> DEFINE n == Len(log)
<1>1. n \in Nat /\ Len(log') = n + 1 /\ log'[n + 1] = e /\ \A k \in 1 .. n : log'[k] = log[k]
  OBVIOUS
<1>2. SUFFICES ASSUME NEW i \in 1 .. nPriorFrames', log'[Left(n + 1) + i].target # None
               PROVE  Absolute(actionHistory'[i], anchorPose') = log'[Left(n + 1) + i].target
  BY <1>1 DEF HistoryReplays
<1>3. i \in Indices /\ i <= FrameIndex /\ (i = FrameIndex <=> Left(n + 1) + i = n + 1)
  <2>1. CASE Filling
    <3>1. nPriorFrames \in Nat /\ nPriorFrames < SeqLen /\ FrameIndex = nPriorFrames + 1
      BY <2>1, WindowAssumption DEF Filling, FrameIndex
    <3>2. nPriorFrames = n /\ Left(n + 1) = 0
      BY <1>1, <2>1, WindowFollows DEF Window
    <3>3. i \in 1 .. nPriorFrames + 1
      BY <2>1 DEF RecordFrame
    <3> HIDE DEF n
    <3>4. QED
      BY ONLY <3>1, <3>2, <3>3, WindowAssumption DEF Indices
  <2>2. CASE ~Filling
    <3>1. nPriorFrames = SeqLen /\ Left(n + 1) = n - SeqLen + 1 /\ FrameIndex = SeqLen
      BY <1>1, <2>2, WindowFollows DEF Window, FrameIndex
    <3>2. i \in 1 .. SeqLen
      BY <2>2, <3>1 DEF RecordFrame
    <3> HIDE DEF n
    <3>3. QED
      BY ONLY <1>1, <3>1, <3>2, WindowAssumption DEF Indices
  <2>3. QED
    BY <2>1, <2>2
<1>4. CASE i = FrameIndex
  BY <1>1, <1>2, <1>3, <1>4
<1>5. CASE i # FrameIndex /\ Filling
  <2>1. i \in 1 .. nPriorFrames /\ Left(n + 1) = 0 /\ Left(n) = 0 /\ i \in 1 .. n
    <3>1. nPriorFrames = n /\ Left(n + 1) = 0 /\ Left(n) = 0
      BY <1>1, <1>5, WindowFollows DEF Window
    <3>2. FrameIndex = n + 1
      BY <1>5, <3>1 DEF FrameIndex
    <3> HIDE DEF n
    <3>3. i \in 1 .. n
      BY ONLY <1>1, <1>3, <1>5, <3>2, WindowAssumption DEF Indices
    <3>4. QED
      BY ONLY <3>1, <3>3
  <2>2. log'[Left(n + 1) + i] = log[Left(n) + i]
    BY <1>1, <2>1
  <2>3. actionHistory'[i] = actionHistory[i]
    BY <1>3, <1>5 DEF KeptActions
  <2>4. anchorPose' = anchorPose
    BY <1>3, <1>5, <2>1, WindowAssumption DEF RecordFrame, Recorded, Window, FrameIndex, Filling, Indices
  <2>5. QED
    BY <1>2, <2>1, <2>2, <2>3, <2>4 DEF HistoryReplays
<1>6. CASE i # FrameIndex /\ ~Filling
  <2>1. nPriorFrames = SeqLen /\ i < SeqLen /\ i + 1 \in 1 .. nPriorFrames /\ i + 1 \in Indices
    BY <1>3, <1>6, WindowAssumption DEF FrameIndex, Filling, Indices
  <2>2. Left(n + 1) + i = Left(n) + (i + 1) /\ Left(n) + (i + 1) \in 1 .. n
    <3>1. Left(n + 1) = Left(n) + 1 /\ n >= SeqLen /\ Left(n) = n - SeqLen
      BY <1>1, <1>6, WindowFollows DEF Window
    <3>2. i \in Nat /\ i >= 1 /\ i + 1 <= SeqLen /\ Left(n) \in Nat
      BY <1>1, <1>3, <2>1, <3>1, WindowAssumption DEF Indices
    <3>3. n \in Nat /\ SeqLen \in Nat
      BY <1>1, WindowAssumption
    <3> HIDE DEF n
    <3>4. Left(n + 1) + i = Left(n) + (i + 1)
      BY ONLY <3>1, <3>2
    <3>5. Left(n) + (i + 1) \in 1 .. n
      BY ONLY <3>1, <3>2, <3>3
    <3>6. QED
      BY <3>4, <3>5
  <2>3. anchorPose = poseHistory[1] /\ anchorPose \in Pose /\ anchorPose' \in Pose
    BY <2>1, FrameRecorded DEF Window
  <2>4. NewAnchor(pose) = Relative(anchorPose', anchorPose)
    BY <2>3 DEF NewAnchor, RecordFrame
  <2>5. actionHistory'[i] = Rebase(actionHistory[i + 1], Relative(anchorPose', anchorPose))
    BY <1>3, <1>6, <2>1, <2>4 DEF KeptActions, Roll
  <2>6. Absolute(actionHistory'[i], anchorPose') = Absolute(actionHistory[i + 1], anchorPose)
    BY <2>1, <2>3, <2>5, RebaseKeepsTarget
  <2>7. log'[Left(n + 1) + i] = log[Left(n) + (i + 1)]
    BY <1>1, <2>2
  <2>8. QED
    BY <1>2, <2>1, <2>6, <2>7 DEF HistoryReplays
<1>7. QED
  BY <1>4, <1>5, <1>6

\* The window stays the last frames of the episode, with the actions KeptActions leaves.
LEMMA KeptRecent ==
  ASSUME TypeOK, Window, WindowIsRecent, NEW pose \in Pose, RecordFrame(pose),
         NEW e, log' = Append(log, e), e.pose = pose,
         actionHistory' \in [Indices -> Pose],
         \A i \in Indices \ {FrameIndex} : actionHistory'[i] = KeptActions(pose)[i],
         nPriorFrames' = 1 => actionHistory'[FrameIndex] = Identity
  PROVE  WindowIsRecent'
<1>a. Window' /\ nPriorFrames' \in 0 .. SeqLen /\ nPriorFrames' > 0
  BY FrameRecorded
<1> USE DEF TypeOK
<1> DEFINE n == Len(log)
<1>1. n \in Nat /\ Len(log') = n + 1 /\ log'[n + 1] = e /\ \A k \in 1 .. n : log'[k] = log[k]
  OBVIOUS
<1>2. /\ nPriorFrames' \in 0 .. SeqLen /\ nPriorFrames' > 0
      /\ nPriorFrames' = n + 1 - Left(n + 1) /\ anchorPose' = poseHistory'[1]
  <2>1. nPriorFrames' = Len(log') - Left(Len(log')) /\ (nPriorFrames' > 0 => anchorPose' = poseHistory'[1])
    BY <1>a DEF Window
  <2>2. Len(log') = n + 1
    BY <1>1
  <2>3. nPriorFrames' = n + 1 - Left(n + 1)
    BY <2>1, <2>2, WindowAssumption DEF Left
  <2>4. QED
    BY <1>a, <2>1, <2>3
<1>3. /\ frameHistory' = Recorded(frameHistory, n + 1) /\ poseHistory' = Recorded(poseHistory, pose)
      /\ nPriorFrames' = IF Filling THEN nPriorFrames + 1 ELSE nPriorFrames
      /\ legacyInference' = legacyInference
  BY DEF RecordFrame, options
<1>4. /\ n = Len(log) /\ nPriorFrames = n - Left(n)
      /\ \A i \in 1 .. nPriorFrames : /\ frameHistory[i] = Left(n) + i
                                      /\ poseHistory[i] = log[Left(n) + i].pose
      /\ \A i \in nPriorFrames + 1 .. SeqLen : frameHistory[i] = 0 /\ actionHistory[i] = Zero
      /\ legacyInference /\ nPriorFrames > 0 => actionHistory[1] = Identity
  BY DEF WindowIsRecent
<1>5. frameHistory \in [Indices -> Nat] /\ poseHistory \in [Indices -> Pose] /\ SeqLen \in Nat \ {0}
  BY WindowAssumption
<1>6. CASE Filling
  <2>1. /\ nPriorFrames = n /\ Left(n) = 0 /\ Left(n + 1) = 0 /\ FrameIndex = n + 1
        /\ nPriorFrames' = n + 1 /\ n + 1 \in Indices
    <3>1. nPriorFrames = n /\ Left(n) = 0 /\ Left(n + 1) = 0
      BY <1>1, <1>4, <1>6, WindowFollows
    <3>2. nPriorFrames < SeqLen
      BY <1>6 DEF Filling
    <3> HIDE DEF n
    <3>3. QED
      BY ONLY <1>1, <1>3, <1>5, <1>6, <3>1, <3>2 DEF FrameIndex, Indices
  <2>2. frameHistory' = [frameHistory EXCEPT ![n + 1] = n + 1]
        /\ poseHistory' = [poseHistory EXCEPT ![n + 1] = pose]
    BY <1>3, <1>6, <2>1 DEF Recorded
  <2>3. \A i \in Indices \ {n + 1} : actionHistory'[i] = actionHistory[i]
    BY <1>6, <2>1 DEF KeptActions
  <2>4. ASSUME NEW i \in 1 .. n + 1
        PROVE  frameHistory'[i] = i /\ poseHistory'[i] = log'[i].pose
    <3>1. CASE i = n + 1
      BY <1>1, <1>5, <2>1, <2>2, <3>1
    <3>2. CASE i # n + 1
      <4>1. i \in 1 .. n /\ i \in Indices
        BY <1>1, <1>5, <2>1, <3>2 DEF Indices
      <4>2. frameHistory'[i] = frameHistory[i] /\ poseHistory'[i] = poseHistory[i]
        BY <1>5, <2>1, <2>2, <3>2, <4>1
      <4>3. frameHistory[i] = i /\ poseHistory[i] = log[i].pose
        BY <1>4, <2>1, <4>1
      <4>4. QED
        BY <1>1, <4>1, <4>2, <4>3
    <3>3. QED
      BY <3>1, <3>2
  <2>5. ASSUME NEW i \in n + 2 .. SeqLen
        PROVE  frameHistory'[i] = 0 /\ actionHistory'[i] = Zero
    <3>1. i \in Indices \ {n + 1} /\ i \in nPriorFrames + 1 .. SeqLen
      BY <1>1, <1>5, <2>1 DEF Indices
    <3>2. frameHistory'[i] = frameHistory[i]
      BY <1>5, <2>1, <2>2, <3>1
    <3>3. QED
      BY <1>4, <2>3, <3>1, <3>2
  <2>6. legacyInference => actionHistory'[1] = Identity
    <3>1. CASE n = 0
      BY <2>1, <3>1
    <3>2. CASE n > 0
      <4>1. 1 \in Indices \ {n + 1}
        BY <1>1, <1>5, <3>2 DEF Indices
      <4>2. QED
        BY <1>4, <2>1, <2>3, <3>2, <4>1
    <3>3. QED
      BY <1>1, <3>1, <3>2
  <2>7. QED
    BY <1>1, <1>2, <1>3, <2>1, <2>4, <2>5, <2>6 DEF WindowIsRecent
<1>7. CASE ~Filling
  <2>1. /\ nPriorFrames = SeqLen /\ n >= SeqLen /\ Left(n) = n - SeqLen /\ Left(n + 1) = Left(n) + 1
        /\ FrameIndex = SeqLen /\ nPriorFrames' = SeqLen
    BY <1>1, <1>3, <1>4, <1>7, WindowFollows DEF FrameIndex
  <2>2. /\ frameHistory' = [i \in Indices |-> IF i < SeqLen THEN frameHistory[i + 1] ELSE n + 1]
        /\ poseHistory' = [i \in Indices |-> IF i < SeqLen THEN poseHistory[i + 1] ELSE pose]
    BY <1>3, <1>7 DEF Recorded, Roll
  <2>3. ASSUME NEW i \in 1 .. SeqLen
        PROVE  frameHistory'[i] = Left(n + 1) + i /\ poseHistory'[i] = log'[Left(n + 1) + i].pose
    <3>1. Left(n + 1) = n - SeqLen + 1
      BY <2>1
    <3>2. CASE i = SeqLen
      <4>1. Left(n + 1) + i = n + 1
        BY <1>1, <1>5, <3>1, <3>2
      <4>2. QED
        BY <1>1, <2>2, <3>2, <4>1 DEF Indices
    <3>3. CASE i # SeqLen
      <4> DEFINE j == i + 1
          k == Left(n) + j
      <4>1. i < SeqLen /\ j \in 1 .. nPriorFrames
        BY <1>5, <2>1, <3>3
      <4>2. k \in 1 .. n /\ Left(n + 1) + i = k
        <5> HIDE DEF n
        <5>1. i \in Nat /\ i >= 1 /\ i < SeqLen
          BY <1>5, <4>1
        <5>2. Left(n + 1) + i = n - SeqLen + 1 + i /\ k = n - SeqLen + (i + 1)
          BY <2>1
        <5>3. n \in Nat /\ SeqLen \in Nat /\ n >= SeqLen
          BY <1>1, <1>5, <2>1
        <5> HIDE DEF k
        <5>4. QED
          BY ONLY <5>1, <5>2, <5>3
      <4>3. frameHistory'[i] = frameHistory[j] /\ poseHistory'[i] = poseHistory[j]
        BY <2>2, <4>1 DEF Indices
      <4>4. frameHistory[j] = k /\ poseHistory[j] = log[k].pose
        BY <1>4, <4>1
      <4>5. log'[k] = log[k]
        BY <1>1, <4>2
      <4>6. QED
        BY <4>2, <4>3, <4>4, <4>5
    <3>4. QED
      BY <3>2, <3>3
  <2>4. legacyInference => actionHistory'[1] = Identity
    <3>1. CASE SeqLen = 1
      BY <2>1, <3>1
    <3>2. CASE SeqLen > 1 /\ legacyInference
      <4>1. 1 \in Indices \ {FrameIndex} /\ 2 \in Indices /\ 1 < SeqLen
        BY <1>5, <2>1, <3>2 DEF Indices
      <4>2. KeptActions(pose)[1] = Rebase(actionHistory[2], actionHistory[2])
        BY <1>7, <3>2, <4>1 DEF KeptActions, Roll
      <4>3. actionHistory[2] \in Pose
        BY <4>1
      <4>4. QED
        BY <4>1, <4>2, <4>3, PoseAssumption DEF Rebase
    <3>3. QED
      BY <1>5, <3>1, <3>2
  <2>5. nPriorFrames' = SeqLen /\ SeqLen + 1 .. SeqLen = {}
    BY <1>5, <2>1
  <2>6. QED
    <3>1. nPriorFrames' = Len(log') - Left(Len(log'))
      <4>1. Len(log') = n + 1 /\ nPriorFrames' = n + 1 - Left(n + 1)
        BY <1>1, <1>2
      <4>2. QED
        BY <4>1, WindowAssumption DEF Left
    <3>2. \A i \in 1 .. nPriorFrames' :
            /\ frameHistory'[i] = Left(Len(log')) + i
            /\ poseHistory'[i] = log'[Left(Len(log')) + i].pose
      BY <1>1, <2>3, <2>5
    <3>3. nPriorFrames' + 1 .. SeqLen = {}
      BY <2>5
    <3>4. QED
      BY <1>2, <1>3, <2>4, <3>1, <3>2, <3>3 DEF WindowIsRecent
<1>8. QED
  BY <1>6, <1>7

\* A prediction made now is its own warm start.
LEMMA WarmAtOnce ==
  ASSUME TypeOK, NEW e \in Entry, log' = Append(log, e),
         prevActionPreds' # None =>
           e.plan # None /\ \A i \in Indices : e.plan[i] = Absolute(prevActionPreds'[i], anchorPose')
  PROVE  WarmStartFollows'
<1>1. SUFFICES ASSUME prevActionPreds' # None
               PROVE  \E n \in 1 .. Len(log') :
                        /\ log'[n].plan # None
                        /\ \A m \in n + 1 .. Len(log') : log'[m].plan = None
                        /\ \A i \in Indices :
                             LET later == i + Left(Len(log')) - Left(n)
                             IN  Absolute(prevActionPreds'[i], anchorPose') =
                                   log'[n].plan[IF later < SeqLen THEN later ELSE SeqLen]
  BY DEF WarmStartFollows
<1> DEFINE n == Len(log')
<1>2. n \in Nat /\ n \in 1 .. Len(log') /\ log'[n] = e /\ n + 1 .. Len(log') = {}
  BY DEF TypeOK
<1>3. Left(n) \in Int
  BY <1>2, WindowAssumption DEF Left
<1>4. ASSUME NEW i \in Indices
      PROVE  LET later == i + Left(n) - Left(n)
             IN  Absolute(prevActionPreds'[i], anchorPose') =
                   log'[n].plan[IF later < SeqLen THEN later ELSE SeqLen]
  <2> DEFINE later == i + Left(n) - Left(n)
  <2>1. later = i /\ (IF later < SeqLen THEN later ELSE SeqLen) = i
    BY <1>3, WindowAssumption DEF Indices
  <2>2. QED
    BY <1>1, <1>2, <2>1
<1>5. QED
  BY <1>1, <1>2, <1>4

\* A step that fails carries the last prediction over to the new anchor.
LEMMA WarmOnFailure ==
  ASSUME IInv, NEW pose \in Pose, RecordFrame(pose), nPriorFrames' # 1,
         NEW e, log' = Append(log, e), e.plan = None,
         prevActionPreds' = KeptPredictions(pose)
  PROVE  WarmStartFollows'
<1>a. TypeOK /\ Window /\ anchorPose' \in Pose
  BY FrameRecorded DEF IInv
<1> USE DEF TypeOK, IInv
<1> DEFINE L == Len(log)
           At(n, k, i) == i + Left(k) - Left(n)
           Capped(j) == IF j < SeqLen THEN j ELSE SeqLen
<1>1. L \in Nat /\ Len(log') = L + 1 /\ log'[L + 1] = e /\ \A k \in 1 .. L : log'[k] = log[k]
  OBVIOUS
<1>2. CASE prevActionPreds = None
  <2>1. prevActionPreds' = None
    BY <1>2 DEF KeptPredictions
  <2>2. QED
    BY <2>1 DEF WarmStartFollows
<1>3. CASE prevActionPreds # None
  <2>1. ~legacyInference /\ prevActionPreds \in [Indices -> Pose]
    BY <1>3 DEF LegacyUnsmoothed
  <2>2. PICK n \in 1 .. L :
          /\ log[n].plan # None
          /\ \A m \in n + 1 .. L : log[m].plan = None
          /\ \A i \in Indices : Absolute(prevActionPreds[i], anchorPose) = log[n].plan[Capped(At(n, L, i))]
    BY <1>3 DEF WarmStartFollows
  <2>3. n \in 1 .. Len(log') /\ log'[n] = log[n]
    BY <1>1
  <2>4. ASSUME NEW m \in n + 1 .. Len(log') PROVE log'[m].plan = None
    <3>1. m \in n + 1 .. L \/ m = L + 1
      <4> HIDE DEF L
      <4>1. QED
        BY ONLY <1>1, n \in 1 .. L, m \in n + 1 .. Len(log')
    <3>2. CASE m = L + 1
      BY <1>1, <3>2
    <3>3. CASE m \in n + 1 .. L
      BY <1>1, <2>2, <3>3
    <3>4. QED
      BY <3>1, <3>2, <3>3
  <2>5. ASSUME NEW i \in Indices
        PROVE  Absolute(prevActionPreds'[i], anchorPose') = log[n].plan[Capped(At(n, L + 1, i))]
    <3>1. CASE Filling
      <4>1. Left(L) = 0 /\ Left(L + 1) = 0
        BY <1>1, <3>1, WindowFollows DEF Window
      <4>2. prevActionPreds' = prevActionPreds
        BY <3>1 DEF KeptPredictions
      <4>3. nPriorFrames > 0
        BY <3>1 DEF RecordFrame
      <4>4. anchorPose' = anchorPose
        BY <3>1, <4>3, WindowAssumption DEF RecordFrame, Recorded, Window, FrameIndex, Filling, Indices
      <4>5. QED
        BY <2>2, <4>1, <4>2, <4>4
    <3>2. CASE ~Filling
      <4> DEFINE j == IF i < SeqLen THEN i + 1 ELSE SeqLen
      <4>1. /\ nPriorFrames = SeqLen /\ L >= SeqLen /\ Left(L) = L - SeqLen
            /\ Left(L + 1) = Left(L) + 1 /\ SeqLen \in Nat \ {0} /\ i \in 1 .. SeqLen
        BY <1>1, <3>2, WindowFollows, WindowAssumption DEF Window, Indices
      <4>2. j \in Indices
        BY <4>1 DEF Indices
      <4>3. anchorPose = poseHistory[1] /\ anchorPose \in Pose /\ anchorPose' \in Pose
        BY <1>a, <4>1 DEF Window
      <4>4. NewAnchor(pose) = Relative(anchorPose', anchorPose)
        BY <4>3 DEF NewAnchor, RecordFrame
      <4>5. prevActionPreds'[i] = Rebase(prevActionPreds[j], Relative(anchorPose', anchorPose))
        BY <1>3, <2>1, <3>2, <4>1, <4>4 DEF KeptPredictions, Roll, Indices
      <4>6. Absolute(prevActionPreds'[i], anchorPose') = Absolute(prevActionPreds[j], anchorPose)
        BY <2>1, <4>2, <4>3, <4>5, RebaseKeepsTarget
      <4>7. Left(n) \in Nat /\ Left(n) <= Left(L)
        BY <1>1, <4>1 DEF Left
      <4>8. Capped(At(n, L, j)) = Capped(At(n, L + 1, i))
        <5> HIDE DEF L
        <5>1. Left(L) \in Nat
          BY <4>1, <1>1
        <5>2. CASE i < SeqLen
          <6>1. At(n, L, j) = At(n, L + 1, i)
            <7>1. j = i + 1 /\ i \in Nat
              BY <4>1, <5>2
            <7> HIDE DEF j
            <7>2. QED
              BY ONLY <4>1, <4>7, <5>1, <7>1 DEF At
          <6>2. QED
            BY <6>1
        <5>3. CASE i = SeqLen
          <6>1. j = SeqLen
            BY <4>1, <5>3
          <6> HIDE DEF j
          <6>2. At(n, L, j) >= SeqLen /\ At(n, L + 1, i) >= SeqLen
                /\ At(n, L, j) \in Int /\ At(n, L + 1, i) \in Int
            BY ONLY <4>1, <4>7, <5>1, <5>3, <6>1 DEF At
          <6> HIDE DEF At
          <6>3. QED
            BY <4>1, <6>2
        <5>4. QED
          BY <4>1, <5>2, <5>3
      <4>9. QED
        BY <2>2, <4>2, <4>6, <4>8
    <3>3. QED
      BY <3>1, <3>2
  <2>6. \E k \in 1 .. Len(log') :
          /\ log'[k].plan # None
          /\ \A m \in k + 1 .. Len(log') : log'[m].plan = None
          /\ \A i \in Indices :
                Absolute(prevActionPreds'[i], anchorPose') = log'[k].plan[Capped(At(k, L + 1, i))]
    BY <2>2, <2>3, <2>4, <2>5
  <2>7. Len(log') = L + 1
    BY <1>1
  <2> HIDE DEF L
  <2>8. \E k \in 1 .. Len(log') :
          /\ log'[k].plan # None
          /\ \A m \in k + 1 .. Len(log') : log'[m].plan = None
          /\ \A i \in Indices :
                LET later == i + Left(Len(log')) - Left(k)
                IN  Absolute(prevActionPreds'[i], anchorPose') =
                      log'[k].plan[IF later < SeqLen THEN later ELSE SeqLen]
    BY ONLY <2>6, <2>7
  <2>9. QED
    BY ONLY <2>8 DEF WarmStartFollows, Left
<1>4. QED
  BY <1>2, <1>3

\* A step that answers the target it remembers leaves smoothing where it should be.
LEMMA SmoothsOn ==
  ASSUME TypeOK, NEW e, log' = Append(log, e), e.target = prevExecuted', prevExecuted' # None
  PROVE  SmoothsFromLast'
<1>1. Len(log) \in Nat /\ Len(log') = Len(log) + 1 /\ log'[Len(log) + 1] = e
  BY DEF TypeOK
<1>2. \A m \in Len(log) + 1 + 1 .. Len(log') : log'[m].target = None
  BY <1>1
<1>3. Len(log) + 1 \in 1 .. Len(log')
  BY <1>1
<1>4. \E n \in 1 .. Len(log') :
        log'[n].target = prevExecuted' /\ \A m \in n + 1 .. Len(log') : log'[m].target = None
  BY <1>1, <1>2, <1>3
<1>5. QED
  BY <1>4 DEF SmoothsFromLast

\* A step that fails leaves it alone.
LEMMA SmoothsOnFailure ==
  ASSUME TypeOK, SmoothsFromLast, NEW e, log' = Append(log, e), e.target = None,
         log # <<>>, prevExecuted' = prevExecuted, legacyInference' = legacyInference
  PROVE  SmoothsFromLast'
<1>1. Len(log) \in Nat /\ Len(log') = Len(log) + 1 /\ log'[Len(log) + 1] = e
      /\ \A k \in 1 .. Len(log) : log'[k] = log[k]
  BY DEF TypeOK
<1>2. ASSUME prevExecuted # None
      PROVE  \E n \in 1 .. Len(log') :
               /\ log'[n].target = prevExecuted
               /\ \A m \in n + 1 .. Len(log') : log'[m].target = None
  <2>1. PICK n \in 1 .. Len(log) :
               /\ log[n].target = prevExecuted
               /\ \A m \in n + 1 .. Len(log) : log[m].target = None
    BY <1>2 DEF SmoothsFromLast
  <2>2. n \in 1 .. Len(log') /\ log'[n].target = prevExecuted
    BY <1>1, <2>1
  <2>3. ASSUME NEW m \in n + 1 .. Len(log') PROVE log'[m].target = None
    <3>1. m \in n + 1 .. Len(log) \/ m = Len(log) + 1
      BY <1>1, <2>1
    <3>2. CASE m = Len(log) + 1
      BY <1>1, <3>2
    <3>3. CASE m \in n + 1 .. Len(log)
      BY <1>1, <2>1, <3>3
    <3>4. QED
      BY <3>1, <3>2, <3>3
  <2>4. QED
    BY <2>2, <2>3
<1>3. QED
  BY <1>2 DEF SmoothsFromLast

\* The entry a step appends is well formed.
LEMMA AnswerType ==
  ASSUME TypeOK, NEW pose \in Pose, NEW action \in Pose, anchorPose' \in Pose,
         prevActionPreds' \in [Indices -> Pose] \union {None}, Answer(pose, action)
  PROVE  \E e \in Entry :
           /\ log' = Append(log, e)
           /\ e.pose = pose
           /\ e.target = Absolute(action, anchorPose')
           /\ prevActionPreds' # None =>
                e.plan # None /\ \A i \in Indices : e.plan[i] = Absolute(prevActionPreds'[i], anchorPose')
<1> DEFINE plan == IF prevActionPreds' = None THEN None
                   ELSE [i \in Indices |-> Absolute(prevActionPreds'[i], anchorPose')]
<1> DEFINE e == [pose |-> pose, target |-> Absolute(action, anchorPose'), plan |-> plan]
<1>1. Absolute(action, anchorPose') \in Pose
  BY PoseClosed
<1>2. plan \in [Indices -> Pose] \union {None}
  BY PoseClosed
<1>3. e \in Entry /\ e.target = Absolute(action, anchorPose')
  BY <1>1, <1>2 DEF Entry
<1>4. log' = Append(log, e) /\ e.pose = pose /\ e.plan = plan
  BY DEF Answer
<1>5. ASSUME prevActionPreds' # None
      PROVE  plan # None /\ \A i \in Indices : plan[i] = Absolute(prevActionPreds'[i], anchorPose')
  <2>1. plan = [i \in Indices |-> Absolute(prevActionPreds'[i], anchorPose')] /\ plan \in [Indices -> Pose]
    BY <1>5, PoseClosed
  <2>2. QED
    BY <2>1, WindowAssumption DEF Indices
<1>6. QED
  BY <1>3, <1>4, <1>5

LEMMA LogType ==
  ASSUME TypeOK, NEW e \in Entry, log' = Append(log, e)
  PROVE  log' \in Seq(Entry)
BY DEF TypeOK, Entry

-----------------------------------------------------------------------------
(* Every step preserves the invariant *)

LEMMA IInvInit ==
  Init => IInv
<1> SUFFICES ASSUME Init PROVE IInv
  OBVIOUS
<1>1. TypeOK
  BY WindowAssumption, PoseAssumption DEF Init, TypeOK, Indices
<1>2. nPriorFrames = 0 /\ Len(log) = 0 /\ prevExecuted = None /\ log = <<>>
  BY DEF Init
<1>3. Window
  BY <1>2, WindowAssumption DEF Window, Left
<1>4. HistoryReplays
  BY <1>2 DEF HistoryReplays
<1>5. SmoothsFromLast /\ LegacyUnsmoothed
  BY <1>2 DEF SmoothsFromLast, LegacyUnsmoothed, Init
<1>6. WindowIsRecent /\ WarmStartFollows
  BY <1>2, WindowAssumption DEF WindowIsRecent, WarmStartFollows, Init, Left, Indices
<1>7. QED
  BY <1>1, <1>3, <1>4, <1>5, <1>6 DEF IInv

LEMMA ResetPreserves ==
  ASSUME IInv, Reset
  PROVE  IInv'
<1>1. nPriorFrames' = 0 /\ Len(log') = 0 /\ prevExecuted' = None /\ log' = <<>>
  BY DEF Reset, ClearWindow
<1>2. TypeOK'
  BY <1>1, WindowAssumption, PoseAssumption DEF IInv, Reset, ClearWindow, TypeOK, Indices, options
<1>3. Window'
  BY <1>1, WindowAssumption DEF Window, Left
<1>4. HistoryReplays' /\ SmoothsFromLast' /\ LegacyUnsmoothed'
  BY <1>1 DEF HistoryReplays, SmoothsFromLast, LegacyUnsmoothed, Reset, ClearWindow
<1>5. WindowIsRecent' /\ WarmStartFollows'
  BY <1>1, WindowAssumption DEF WindowIsRecent, WarmStartFollows, Reset, ClearWindow, Left, Indices
<1>6. QED
  BY <1>2, <1>3, <1>4, <1>5 DEF IInv

LEMMA FirstPreserves ==
  ASSUME IInv, NEW pose \in Observed, StepFirst(pose)
  PROVE  IInv'
<1> USE DEF IInv
<1>1. pose \in Pose /\ Identity \in Pose /\ RecordFrame(pose) /\ FrameIndex \in Indices
  BY WindowAssumption, PoseAssumption, IndexType DEF StepFirst, TypeOK
<1>2. prevActionPreds' \in [Indices -> Pose] \union {None} /\ KeptActions(pose) \in [Indices -> Pose]
  BY <1>1, KeptType DEF StepFirst
<1>3. anchorPose' \in Pose
  BY <1>1, FrameRecorded DEF StepFirst, Answer
<1>4. PICK e \in Entry : log' = Append(log, e) /\ e.pose = pose /\ e.target = Absolute(Identity, anchorPose')
         /\ (prevActionPreds' # None =>
               e.plan # None /\ \A i \in Indices : e.plan[i] = Absolute(prevActionPreds'[i], anchorPose'))
  BY <1>1, <1>2, <1>3, AnswerType DEF StepFirst
<1>5. actionHistory' = [KeptActions(pose) EXCEPT ![FrameIndex] = Identity]
  BY DEF StepFirst
<1>6. actionHistory' \in [Indices -> Pose] /\ actionHistory'[FrameIndex] = Identity
      /\ \A i \in Indices \ {FrameIndex} : actionHistory'[i] = KeptActions(pose)[i]
  BY <1>1, <1>2, <1>5
<1>7. prevExecuted' = (IF legacyInference THEN prevExecuted ELSE pose) /\ compile' = compile
      /\ legacyInference' = legacyInference /\ smoothing' = smoothing
  BY <1>1 DEF StepFirst, RecordFrame, options
<1>8. TypeOK'
  BY <1>1, <1>2, <1>4, <1>6, <1>7, FrameRecorded, LogType DEF TypeOK, Entry
<1>9. HistoryReplays'
  <2>1. CASE legacyInference
    BY <1>7, <2>1 DEF HistoryReplays
  <2>2. CASE ~legacyInference
    BY <1>1, <1>4, <1>6, <2>2, KeptReplays
  <2>3. QED
    BY <2>1, <2>2
<1>10. SmoothsFromLast' /\ LegacyUnsmoothed'
  <2>1. CASE legacyInference
    BY <1>7, <2>1 DEF SmoothsFromLast, LegacyUnsmoothed, StepFirst, KeptPredictions
  <2>2. CASE ~legacyInference
    <3>1. nPriorFrames' = 1 /\ poseHistory'[1] = pose
      <4>1. FrameIndex = 1
        BY <1>1, WindowAssumption DEF StepFirst, RecordFrame, FrameIndex, Filling, TypeOK
      <4>2. QED
        BY <1>1, <4>1, WindowAssumption DEF StepFirst, RecordFrame, Recorded, Roll, FrameIndex, Filling, TypeOK, Indices
    <3>2. anchorPose' = pose
      BY <1>1, <3>1 DEF RecordFrame
    <3>3. e.target = prevExecuted' /\ prevExecuted' # None
      BY <1>1, <1>4, <1>7, <2>2, <3>2, PoseAssumption, WindowAssumption DEF Absolute
    <3>4. QED
      BY <1>4, <1>7, <2>2, <3>3, SmoothsOn DEF LegacyUnsmoothed
  <2>3. QED
    BY <2>1, <2>2
<1>11. WindowIsRecent' /\ WarmStartFollows'
  BY <1>1, <1>4, <1>6, KeptRecent, WarmAtOnce
<1>12. QED
  BY <1>1, <1>4, <1>8, <1>9, <1>10, <1>11, FrameRecorded

LEMMA LegacyPreserves ==
  ASSUME IInv, NEW pose \in Observed, StepLegacy(pose)
  PROVE  IInv'
<1> USE DEF IInv
<1>1. pose \in Pose /\ RecordFrame(pose) /\ FrameIndex \in Indices
  BY WindowAssumption, IndexType DEF StepLegacy, TypeOK
<1>2. PICK preds \in Predictions :
         /\ actionHistory' = [KeptActions(pose) EXCEPT ![FrameIndex] = preds[FrameIndex]]
         /\ prevActionPreds' = KeptPredictions(pose)
         /\ Answer(pose, preds[FrameIndex])
  BY DEF StepLegacy
<1>3. preds[FrameIndex] \in Pose
  BY <1>1, WindowAssumption DEF Indices
<1>4. prevActionPreds' \in [Indices -> Pose] \union {None} /\ KeptActions(pose) \in [Indices -> Pose]
  BY <1>1, <1>2, KeptType
<1>5. anchorPose' \in Pose
  BY <1>1, <1>2, FrameRecorded DEF Answer
<1>6. PICK e \in Entry : log' = Append(log, e) /\ e.pose = pose /\ e.target = Absolute(preds[FrameIndex], anchorPose')
         /\ (prevActionPreds' # None =>
               e.plan # None /\ \A i \in Indices : e.plan[i] = Absolute(prevActionPreds'[i], anchorPose'))
  BY <1>1, <1>2, <1>3, <1>4, <1>5, AnswerType
<1>7. actionHistory' \in [Indices -> Pose]
  BY <1>1, <1>2, <1>3, <1>4
<1>8. prevExecuted' = prevExecuted /\ legacyInference /\ legacyInference' = legacyInference
      /\ smoothing' = smoothing /\ compile' \in BOOLEAN
  BY <1>1 DEF StepLegacy, RecordFrame, options, Predict, TypeOK
<1>9. TypeOK'
  BY <1>1, <1>4, <1>6, <1>7, <1>8, FrameRecorded, LogType DEF TypeOK, Entry
<1>10. HistoryReplays' /\ SmoothsFromLast' /\ LegacyUnsmoothed'
  BY <1>2, <1>8 DEF HistoryReplays, SmoothsFromLast, LegacyUnsmoothed, KeptPredictions
<1>11. WindowIsRecent' /\ WarmStartFollows'
  <2>1. \A i \in Indices \ {FrameIndex} : actionHistory'[i] = KeptActions(pose)[i]
    BY <1>2, <1>4
  <2>2. nPriorFrames' # 1
    BY DEF StepLegacy
  <2>3. QED
    BY <1>1, <1>6, <1>7, <2>1, <2>2, KeptRecent, WarmAtOnce
<1>12. QED
  BY <1>1, <1>6, <1>9, <1>10, <1>11, FrameRecorded

LEMMA PredictedPreserves ==
  ASSUME IInv, NEW pose \in Observed, StepPredicted(pose)
  PROVE  IInv'
<1> USE DEF IInv
<1>1. pose \in Pose /\ RecordFrame(pose) /\ FrameIndex \in Indices /\ ~legacyInference
  BY WindowAssumption, IndexType DEF StepPredicted, TypeOK
<1>a. PICK preds \in Predictions : \E target \in Targets(preds[FrameIndex]) :
         /\ actionHistory' = [KeptActions(pose) EXCEPT ![FrameIndex] = Relative(target, anchorPose')]
         /\ prevActionPreds' = [preds EXCEPT ![FrameIndex] = Relative(target, anchorPose')]
         /\ prevExecuted' = target
         /\ Answer(pose, Relative(target, anchorPose'))
  BY DEF StepPredicted
<1>2. PICK target \in Targets(preds[FrameIndex]) :
         /\ actionHistory' = [KeptActions(pose) EXCEPT ![FrameIndex] = Relative(target, anchorPose')]
         /\ prevActionPreds' = [preds EXCEPT ![FrameIndex] = Relative(target, anchorPose')]
         /\ prevExecuted' = target
         /\ Answer(pose, Relative(target, anchorPose'))
  BY <1>a
<1>3. anchorPose' \in Pose
  BY <1>1, <1>2, FrameRecorded DEF Answer
<1>4. preds \in [Indices -> Pose] /\ preds[FrameIndex] \in Pose
  BY <1>1, WindowAssumption DEF Indices
<1>5. target \in Pose
  BY <1>2, <1>3, <1>4, PoseClosed, WindowAssumption DEF Targets
<1>6. Relative(target, anchorPose') \in Pose
  BY <1>3, <1>5, PoseClosed
<1>7. prevActionPreds' \in [Indices -> Pose]
  BY <1>1, <1>2, <1>4, <1>6
<1>8. PICK e \in Entry : log' = Append(log, e) /\ e.pose = pose /\ e.target = Absolute(Relative(target, anchorPose'), anchorPose')
         /\ (prevActionPreds' # None =>
               e.plan # None /\ \A i \in Indices : e.plan[i] = Absolute(prevActionPreds'[i], anchorPose'))
  BY <1>1, <1>2, <1>3, <1>6, <1>7, AnswerType
<1>9. KeptActions(pose) \in [Indices -> Pose]
  BY <1>1, KeptType
<1>10. actionHistory' \in [Indices -> Pose] /\ actionHistory'[FrameIndex] = Relative(target, anchorPose')
       /\ \A i \in Indices \ {FrameIndex} : actionHistory'[i] = KeptActions(pose)[i]
  BY <1>1, <1>2, <1>6, <1>9
<1>11. legacyInference' = legacyInference /\ smoothing' = smoothing /\ compile' \in BOOLEAN
  BY <1>1 DEF StepPredicted, RecordFrame, options, Predict, TypeOK
<1>12. TypeOK'
  BY <1>1, <1>2, <1>5, <1>7, <1>8, <1>10, <1>11, FrameRecorded, LogType DEF TypeOK, Entry
<1>13. HistoryReplays'
  BY <1>1, <1>8, <1>10, KeptReplays
<1>14. SmoothsFromLast' /\ LegacyUnsmoothed'
  <2>1. e.target = prevExecuted' /\ prevExecuted' # None
    BY <1>2, <1>3, <1>5, <1>8, AbsoluteRelative, WindowAssumption
  <2>2. QED
    BY <1>1, <1>8, <1>11, <2>1, SmoothsOn DEF LegacyUnsmoothed
<1>15. WindowIsRecent' /\ WarmStartFollows'
  <2>1. nPriorFrames' # 1
    BY DEF StepPredicted
  <2>2. QED
    BY <1>1, <1>8, <1>10, <2>1, KeptRecent, WarmAtOnce
<1>16. QED
  BY <1>1, <1>8, <1>12, <1>13, <1>14, <1>15, FrameRecorded

LEMMA FailsPreserves ==
  ASSUME IInv, NEW pose \in Observed, StepFails(pose)
  PROVE  IInv'
<1> USE DEF IInv
<1> DEFINE e == [pose |-> pose, target |-> None, plan |-> None]
<1>1. pose \in Pose /\ RecordFrame(pose) /\ FrameIndex \in Indices
  BY WindowAssumption, IndexType DEF StepFails, TypeOK
<1>2. e \in Entry /\ e.target = None /\ log' = Append(log, e)
  BY <1>1 DEF StepFails, Entry
<1>3. actionHistory' = KeptActions(pose) /\ actionHistory' \in [Indices -> Pose]
      /\ prevActionPreds' \in [Indices -> Pose] \union {None}
  BY <1>1, KeptType DEF StepFails
<1>4. prevExecuted' = prevExecuted /\ legacyInference' = legacyInference
      /\ smoothing' = smoothing /\ compile' \in BOOLEAN
  BY <1>1 DEF StepFails, RecordFrame, options, Predict, TypeOK
<1>5. TypeOK'
  BY <1>1, <1>2, <1>3, <1>4, FrameRecorded, LogType DEF TypeOK, Entry
<1>6. HistoryReplays'
  <2>1. CASE legacyInference
    BY <1>4, <2>1 DEF HistoryReplays
  <2>2. CASE ~legacyInference
    BY <1>1, <1>2, <1>3, <2>2, KeptReplays
  <2>3. QED
    BY <2>1, <2>2
<1>7. log # <<>>
  <2>1. nPriorFrames > 0
    BY <1>1, WindowAssumption DEF StepFails, RecordFrame, Filling, TypeOK
  <2>2. QED
    BY <2>1, WindowAssumption DEF Window, Left
<1>8. SmoothsFromLast' /\ LegacyUnsmoothed'
  BY <1>2, <1>4, <1>7, SmoothsOnFailure DEF LegacyUnsmoothed, StepFails, KeptPredictions
<1>9. WindowIsRecent' /\ WarmStartFollows'
  <2>1. nPriorFrames' # 1 /\ prevActionPreds' = KeptPredictions(pose) /\ e.pose = pose /\ e.plan = None
    BY DEF StepFails
  <2>2. \A i \in Indices \ {FrameIndex} : actionHistory'[i] = KeptActions(pose)[i]
    BY <1>3
  <2> HIDE DEF e
  <2>3. QED
    BY <1>1, <1>2, <1>3, <2>1, <2>2, KeptRecent, WarmOnFailure
<1>10. QED
  BY <1>1, <1>2, <1>5, <1>6, <1>8, <1>9, FrameRecorded

LEMMA IInvNext ==
  IInv /\ [Next]_vars => IInv'
<1> SUFFICES ASSUME IInv, [Next]_vars PROVE IInv'
  OBVIOUS
<1>1. CASE Reset
  BY <1>1, ResetPreserves
<1>2. ASSUME NEW pose \in Observed, StepFirst(pose) PROVE IInv'
  BY <1>2, FirstPreserves
<1>3. ASSUME NEW pose \in Observed, StepLegacy(pose) PROVE IInv'
  BY <1>3, LegacyPreserves
<1>4. ASSUME NEW pose \in Observed, StepPredicted(pose) PROVE IInv'
  BY <1>4, PredictedPreserves
<1>5. ASSUME NEW pose \in Observed, StepFails(pose) PROVE IInv'
  BY <1>5, FailsPreserves
<1>6. CASE UNCHANGED vars
  BY <1>6 DEF IInv, TypeOK, Window, WindowIsRecent, HistoryReplays, WarmStartFollows, SmoothsFromLast, LegacyUnsmoothed, vars, options
<1>7. QED
  BY <1>1, <1>2, <1>3, <1>4, <1>5, <1>6 DEF Next

-----------------------------------------------------------------------------
LEMMA Invariance ==
  Spec => []IInv
<1>1. QED
  BY IInvInit, IInvNext, PTL DEF Spec

\* The window always holds a pose and an action for every slot, whatever the model answers.
THEOREM TypeCorrect ==
  Spec => []TypeOK
<1>1. IInv => TypeOK
  BY DEF IInv
<1>2. QED
  BY <1>1, Invariance, PTL

\* Whatever is reset, answered or fails, the window holds the last frames of this episode,
\* each with its own pose, and nothing else; under the legacy path its first action is the
\* identity.
THEOREM WindowTheorem ==
  Spec => []WindowIsRecent
<1>1. IInv => WindowIsRecent
  BY DEF IInv
<1>2. QED
  BY <1>1, Invariance, PTL

\* However many steps failed since, the model is warm-started from the last prediction made
\* in this episode, moved to the present anchor and shifted by the frames that have come.
THEOREM WarmStartTheorem ==
  Spec => []WarmStartFollows
<1>1. IInv => WarmStartFollows
  BY DEF IInv
<1>2. QED
  BY <1>1, Invariance, PTL

\* For any group of poses, window length and sequence of requests, an action of the window
\* stands for the target that was answered, however often the anchor has moved since.
THEOREM ReplaysTheorem ==
  Spec => []HistoryReplays
<1>1. IInv => HistoryReplays
  BY DEF IInv
<1>2. QED
  BY <1>1, Invariance, PTL

\* Smoothing always goes on from the last target that was answered in this episode.
THEOREM SmoothingTheorem ==
  Spec => []SmoothsFromLast
<1>1. IInv => SmoothsFromLast
  BY DEF IInv
<1>2. QED
  BY <1>1, Invariance, PTL
=============================================================================
