CONSTANTS
  ByteBits = 3
  Magic = 1138
  BitmapBits = 7
  Headers <- SomeHeaders
  Payloads <- SomePayloads
  MaxFaults = 1
SPECIFICATION Spec
INVARIANTS
  RoundTrip
  AcceptedIsCanonical
  AppliedAckIsWhole
CHECK_DEADLOCK FALSE
