CONSTANTS
  a = a
  b = b
  c = c
  Clients = {a, b, c}
  Nobody = Nobody
  MaxRestarts = 1
  Endpoint <- Endpoints
  Session <- SessionIds
  TotalChunks <- Sizes
SPECIFICATION Spec
INVARIANTS
  TypeOK
  NoMixture
  DoneMeansFlushed
CHECK_DEADLOCK FALSE
