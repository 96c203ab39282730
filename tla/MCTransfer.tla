----------------------------- MODULE MCTransfer -----------------------------
EXTENDS Transfer

\* Distinct bytes in chunks of two: the last chunk is short.
TwoChunks == <<1, 2, 3>>
ThreeChunks == <<1, 2, 3, 4, 5>>
=============================================================================
