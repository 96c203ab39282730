CONSTANTS
  Source <- TwoChunks
  ChunkSize = 2
  TotalChunks = 2
  ServerChunkSizes = {2, 3}
  SackCoverage = 2
  LogicalWindow = 2
  FastRetransmitThreshold = 1
  RetryDelay = 1
  Rto = 1
  Capacity = 2
  AckPacketThreshold = 2
  ControlAttempts = 2
SPECIFICATION Spec
INVARIANTS
  TypeOK
  AckedIsWritten
  SuccessMeansFile
  ServerSuccessMeansFile
  NoSpuriousFailure
  CompleteIsNeverEarly
  RefusalIsClean
PROPERTIES
  KeepsPromise
CHECK_DEADLOCK FALSE
