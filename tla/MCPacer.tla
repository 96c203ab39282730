------------------------------- MODULE MCPacer -------------------------------
EXTENDS Pacer

\* Small, more than half a bucket, more than two thirds of it, and more than
\* all of it.
Sizes == {3, 8, 12, 20}
=============================================================================
