SPECIFICATION StepSpec
CONSTANTS
  NImg = 1
  NText = 1
  NThinking = 0
  NAction = 1
  NSinks = 1
  NSteps = 3
  NLayers = 2
  Arms = {"left", "right"}
  Rotation <- MCRotation
  Compose <- MCCompose
  Inverted <- MCInverted
  Identity <- MCIdentity
  ActionTable <- MCActionTable
  MidRow <- MCMidRow
  Configs <- MCConfigs
  NumViews = 2
  T = 3
  Unit = 1000
  SigmaMin = 3
  Shift = 3
  ExtraOneStep = TRUE
  UseStateCondition = TRUE
  UseImageCondition = TRUE
  NumInferenceSteps = 4
INVARIANTS
  PredictionIsCausal
  OutputSeesHistory
  LabelsAnchored
  SupervisionIsExact
  WholeClipsNeverFail
  LastActionUnseen
  OnTrainedPath
CHECK_DEADLOCK FALSE
