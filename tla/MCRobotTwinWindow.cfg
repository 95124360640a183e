SPECIFICATION Spec
CONSTANTS
  Pose <- MCPose
  Identity <- MCIdentity
  Compose <- MCCompose
  Inverse <- MCInverse
  Zero <- MCZero
  None = None
  SeqLen = 3
  Observed <- MCObserved
  Predictions <- MCPredictions
  Smoothed <- MCSmoothed
  MaxSteps = 6
INVARIANTS
  WindowIsRecent
  HistoryReplays
  WarmStartFollows
  SmoothsFromLast
