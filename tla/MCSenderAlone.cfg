CONSTANTS
  TotalChunks = 4
  SackCoverage = 3
  LogicalWindow = 2
  FastRetransmitThreshold = 1
  RetryDelay = 1
  Rto = 2
  AckInputs <- MCAckInputs
SPECIFICATION Spec
INVARIANTS
  TypeOK
  OutstandingExact
  WindowBounds
  PendingIsQueued
  QueuedOnce
  MarkSentNeverThrows
  FastRetransmitPrompt
  EvidenceExact
PROPERTIES
  DuplicateAckIsSilent
  ProgressIsKept
