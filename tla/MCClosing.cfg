CONSTANTS
  ControlAttempts = 10
  ControlTimeout = 3
  TimeWait = 9
  MaxDelay = 2
  MaxLosses = 4
  MaxCopies = 1
SPECIFICATION FairSpec
INVARIANTS
  ServerOutlivesClient
  FailureIsExplained
PROPERTIES
  ServerLeaves
CHECK_DEADLOCK FALSE
