CONSTANTS
  Source <- ThreeChunks
  ChunkSize = 2
  TotalChunks = 3
  ServerChunkSizes = {2}
  SackCoverage = 2
  LogicalWindow = 2
  FastRetransmitThreshold = 1
  RetryDelay = 1
  Rto = 1
  Capacity = 2
  AckPacketThreshold = 2
  ControlAttempts = 1
SPECIFICATION Spec
INVARIANTS
  AckedIsWritten
  SackCoversReceived
  TrackerExact
CHECK_DEADLOCK FALSE
