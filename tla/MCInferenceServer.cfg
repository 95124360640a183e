SPECIFICATION Spec
CONSTANTS
  c1 = c1
  c2 = c2
  Clients = {c1, c2}
  MaxFrames <- MCMaxFrames
  Workers = 1
  Room = 1
  T = 2
INVARIANTS
  RemovalFailsOnlyWhenLost
  AnsweredRowsMatch
PROPERTIES
  ShutdownProceeds
  ImplementsAnswerStream
  NoFrameStuck
  ShutdownEnds
