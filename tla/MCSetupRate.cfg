CONSTANTS
  MaxU16 = 65535
  MaxU32 = 1000000
  MaxU64 = 10000000
  Overhead = 52
  WindowBytes = 8388608
  BitmapBits = 8192
  StartBytes = 24
  MaxOffset = 10000000
  RateScale = 2
  MtuOptions <- RealMtus
  RateOptions <- SlowRates
  FileSizes <- RealSizes
  PathMtus <- RealPaths
SPECIFICATION Spec
INVARIANT PositiveRateIsAccepted
CHECK_DEADLOCK FALSE
