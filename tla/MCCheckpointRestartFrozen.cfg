SPECIFICATION Spec
CONSTANTS
  NTrainingSteps = 5
  SaveEvery = 2
  FreezeSteps <- MCFreezeSteps
  MaxCrashes = 2
  MaxWriteFailures = 1
  MaxLoadFailures = 1
INVARIANTS
  FrozenForFirstSteps
CHECK_DEADLOCK FALSE
