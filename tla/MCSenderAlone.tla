--------------------------- MODULE MCSenderAlone ----------------------------
EXTENDS SenderAlone, FiniteSetsExt

\* The ACK of a receiver that has exactly the chunks R.  The sender may be
\* offered any of them at any time, in any order.
Snapshot(R) ==
  LET c == Min({n \in 0 .. TotalChunks : n \notin R})
  IN [cumulative_ack |-> c,
      largest_received_plus_one |-> Max({r + 1 : r \in R} \cup {0}),
      bitmap_base |-> c,
      bitmap |-> {b \in 0 .. SackCoverage - 1 : c + b \in R}]

MCAckInputs == {Snapshot(R) : R \in SUBSET Chunks}
=============================================================================
