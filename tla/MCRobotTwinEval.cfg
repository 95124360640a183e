SPECIFICATION Spec
CONSTANTS
  e1 = e1
  e2 = e2
  Evaluators = {e1, e2}
  TestNum <- MCTestNum
  Limit <- MCLimit
  Seeds <- MCSeeds
  Fallback = TRUE
  MaxCrashes = 1
INVARIANTS
  EpisodeSeenWhole
  ResultsAreComplete
  InstructionIsOfScene
  VideoIsOfEpisode
PROPERTY
  EvaluationEnds
