SPECIFICATION Spec
CONSTANTS
  Protos = {p1, p2}
  NWorkers = 2
  DatasetWorkers = {d1, d2}
  MaxChunks = 1
  ProtoQueueSize = 1
  ChunkQueueSize = 1
  OutQueueSize = 1
  BufferSizes <- MCBufferSizes
  BatchSize = 1
  MaxEpochs = 2
  MaxCrashes = 1
  EndOfEpoch = EndOfEpoch
INVARIANTS
  EpochsApart
  ChunkConservation
  NoCycleOfWaits
PROPERTIES
  EpochsEnd
CHECK_DEADLOCK FALSE
