--------------------------- MODULE ReceiverTracker --------------------------
(***************************************************************************)
(* The class ReceiverTracker of src/reliability.cpp: which chunks have     *)
(* arrived, and the ACK payload that reports them.  The byte vector        *)
(* received_ is the set of the indices of its nonzero elements.            *)
(***************************************************************************)
EXTENDS Common

VARIABLES received, received_count, cumulative_ack, largest_received_plus_one

trackerVars == <<received, received_count, cumulative_ack, largest_received_plus_one>>

TrackerTypeOK ==
  /\ received \in SUBSET Chunks
  /\ received_count \in 0 .. TotalChunks
  /\ cumulative_ack \in 0 .. TotalChunks
  /\ largest_received_plus_one \in 0 .. TotalChunks

TrackerInit ==
  /\ received = {}
  /\ received_count = 0
  /\ cumulative_ack = 0
  /\ largest_received_plus_one = 0

has_received(s) == s \in received

\* Mutant: the loop is an if, and stops after one chunk.
FirstMissing_OneStep(s, c) ==
  c = IF cumulative_ack = s THEN cumulative_ack + 1 ELSE cumulative_ack

\* Where the loop that advances cumulative_ack_ stops, once chunk s is in.
FirstMissing(s, c) ==
  /\ cumulative_ack .. c - 1 \subseteq received \cup {s}
  /\ c < TotalChunks => c \notin received \cup {s}

\* mark_received for a chunk that has not been received: its only caller has
\* asked has_received first.
mark_received(s) ==
  /\ ~has_received(s)
  /\ received' = received \cup {s}
  /\ received_count' = received_count + 1
  /\ largest_received_plus_one' =
       IF s + 1 > largest_received_plus_one THEN s + 1 ELSE largest_received_plus_one
  /\ \E c \in cumulative_ack .. TotalChunks : FirstMissing(s, c) /\ cumulative_ack' = c

complete == received_count = TotalChunks

\* Mutant: the bitmap is filled from chunk bitmap_base + 1 on.
SnapshotBit_Shifted(b, base_chunk, limit, chunks) ==
  base_chunk + b < limit /\ base_chunk + b + 1 \in chunks

\* What the bit loop tests for bit b.
SnapshotBit(b, base_chunk, limit, chunks) ==
  base_chunk + b < limit /\ base_chunk + b \in chunks

\* make_ack_snapshot of a tracker with the given contents.
make_ack_snapshot(chunks, cumulative, largest) ==
  [cumulative_ack |-> cumulative,
   largest_received_plus_one |-> largest,
   bitmap_base |-> cumulative,
   bitmap |-> {b \in 0 .. SackCoverage - 1 : SnapshotBit(b, cumulative, largest, chunks)}]
=============================================================================
