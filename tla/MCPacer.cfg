CONSTANTS
  Rate = 2
  Burst = 15
  WireBytes <- Sizes
  LargestWire = 20
  MaxWait = 4
  SpinWindow = 1
  MaxElapsed = 7
SPECIFICATION FairSpec
INVARIANTS
  TypeOK
  RateRespected
  OneWaitSuffices
PROPERTIES
  OversleepIsCredited
  EveryWaitEnds
