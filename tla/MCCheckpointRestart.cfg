SPECIFICATION Spec
CONSTANTS
  NTrainingSteps = 7
  SaveEvery = 2
  FreezeSteps <- MCFreezeSteps
  MaxCrashes = 3
  MaxWriteFailures = 1
  MaxLoadFailures = 2
INVARIANTS
  FileHoldsItsStep
  BaseIsLoadable
  FinalIsOnDisk
PROPERTIES
  FinishedFilesStay
  TrainingEnds
CHECK_DEADLOCK FALSE
