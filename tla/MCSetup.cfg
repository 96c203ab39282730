CONSTANTS
  MaxU16 = 7
  MaxU32 = 15
  MaxU64 = 40
  Overhead = 2
  WindowBytes = 7
  BitmapBits = 4
  StartBytes = 1
  MaxOffset = 32
  RateScale = 2
  MtuOptions <- SomeMtus
  RateOptions <- SomeRates
  FileSizes <- SomeSizes
  PathMtus <- SomePaths
SPECIFICATION Spec
INVARIANTS
  TypeOK
  ChunksTile
  WindowFits
  
CHECK_DEADLOCK FALSE
