---------------------------- MODULE SenderWindow ----------------------------
(***************************************************************************)
(* The class SenderWindow of src/reliability.cpp: which chunks are unsent, *)
(* in flight or acknowledged, the two limits on new data, and the queue of *)
(* chunks to retransmit.  Every operation of the class is an action here;  *)
(* SenderLoop calls them in the order the client does.                     *)
(*                                                                         *)
(* A loop of the code over chunk numbers is the set of the chunks its body *)
(* changes; the order of a loop is kept where it shows, in the order of    *)
(* the retransmission queue.  A chunk's last_sent_time is kept as the time *)
(* since then, in ticks, and no further than Rto: no comparison of the     *)
(* code tells two larger values apart.  The stall-time statistics of       *)
(* advance_base are left out: nothing reads them but the final report.     *)
(***************************************************************************)
EXTENDS Common, Sequences, FiniteSets

CONSTANTS
  LogicalWindow,            \* accepted_window_chunks of the START_ACK
  FastRetransmitThreshold,  \* kFastRetransmitThreshold (3)
  RetryDelay,               \* kRepeatedFastRetransmitDelay (250 ms), in ticks
  Rto                       \* kDefaultRtoMs (500 ms), in ticks

\* The constructor throws on a zero window, a zero coverage and a window
\* larger than the coverage.
ASSUME SenderAssumption ==
  /\ LogicalWindow \in Nat \ {0}
  /\ LogicalWindow <= SackCoverage
  /\ FastRetransmitThreshold \in Nat \ {0}
  /\ RetryDelay \in Nat
  /\ Rto \in Nat \ {0}
  /\ RetryDelay <= Rto

VARIABLES
  base,                     \* first chunk not acknowledged
  next_sequence,            \* first chunk never selected
  outstanding_chunks,       \* selected and not yet acknowledged
  state,                    \* PacketState of each chunk
  since_sent,               \* ticks since last_sent_time, at most Rto
  retransmit_pending,
  fast_retransmit_pending,
  fast_retransmitted,
  latest_later_acked,
  retransmit_evidence,
  retransmission_queue,
  decision                  \* the SendDecision last returned by select_next_packet

flagVars == <<retransmit_pending, fast_retransmit_pending, fast_retransmitted>>
evidenceVars == <<latest_later_acked, retransmit_evidence>>
windowVars ==
  <<base, next_sequence, outstanding_chunks, state, since_sent, flagVars,
    evidenceVars, retransmission_queue, decision>>

PacketState == {"UNSENT", "IN_FLIGHT", "ACKED"}
SendDecision ==
  [sequence : Nat, retransmission : BOOLEAN, fast_retransmission : BOOLEAN]

SenderTypeOK ==
  /\ base \in 0 .. TotalChunks
  /\ next_sequence \in 0 .. TotalChunks
  /\ outstanding_chunks \in Nat
  /\ state \in [Chunks -> PacketState]
  /\ since_sent \in [Chunks -> 0 .. Rto]
  /\ retransmit_pending \in [Chunks -> BOOLEAN]
  /\ fast_retransmit_pending \in [Chunks -> BOOLEAN]
  /\ fast_retransmitted \in [Chunks -> BOOLEAN]
  /\ latest_later_acked \in [Chunks -> Nat]
  /\ retransmit_evidence \in [Chunks -> Nat]
  /\ retransmission_queue \in Seq(Chunks)
  /\ decision \in SendDecision

SenderInit ==
  /\ base = 0
  /\ next_sequence = 0
  /\ outstanding_chunks = 0
  /\ state = [s \in Chunks |-> "UNSENT"]
  /\ since_sent = [s \in Chunks |-> 0]
  /\ retransmit_pending = [s \in Chunks |-> FALSE]
  /\ fast_retransmit_pending = [s \in Chunks |-> FALSE]
  /\ fast_retransmitted = [s \in Chunks |-> FALSE]
  /\ latest_later_acked = [s \in Chunks |-> 0]
  /\ retransmit_evidence = [s \in Chunks |-> 0]
  /\ retransmission_queue = <<>>
  /\ decision = [sequence |-> 0, retransmission |-> FALSE, fast_retransmission |-> FALSE]

-----------------------------------------------------------------------------
(* Selecting the next packet. *)

\* Mutants of can_send_new: without the SACK coverage test, and with <= for <.
can_send_new_NoCoverage ==
  /\ next_sequence < TotalChunks
  /\ outstanding_chunks < LogicalWindow

can_send_new_OffByOne ==
  /\ next_sequence < TotalChunks
  /\ outstanding_chunks <= LogicalWindow
  /\ next_sequence < base + SackCoverage

can_send_new ==
  /\ next_sequence < TotalChunks
  /\ outstanding_chunks < LogicalWindow
  /\ next_sequence < base + SackCoverage

\* The test of the pop loop: other queue entries are stale and are skipped.
Retransmittable(s) == state[s] = "IN_FLIGHT" /\ retransmit_pending[s]

QueueIsStale ==
  \A i \in 1 .. Len(retransmission_queue) : ~Retransmittable(retransmission_queue[i])

\* Mutant: the entry behind the selected one is popped with it.
QueueBehind_PopsOneMore(k) ==
  SubSeq(retransmission_queue, k + 2, Len(retransmission_queue))

QueueBehind(k) ==
  SubSeq(retransmission_queue, k + 1, Len(retransmission_queue))

\* The queue's first entry that is still wanted is returned.
select_retransmission ==
  /\ \E k \in 1 .. Len(retransmission_queue) :
       LET s == retransmission_queue[k] IN
       /\ Retransmittable(s)
       /\ \A i \in 1 .. k - 1 : ~Retransmittable(retransmission_queue[i])
       /\ retransmission_queue' = QueueBehind(k)
       /\ decision' = [sequence |-> s, retransmission |-> TRUE,
                       fast_retransmission |-> fast_retransmit_pending[s]]
       /\ retransmit_pending' = [retransmit_pending EXCEPT ![s] = FALSE]
       /\ fast_retransmit_pending' = [fast_retransmit_pending EXCEPT ![s] = FALSE]
       /\ fast_retransmitted' = [fast_retransmitted EXCEPT ![s] = TRUE]
       /\ retransmit_evidence' = [retransmit_evidence EXCEPT ![s] = latest_later_acked[s]]
  /\ UNCHANGED <<base, next_sequence, outstanding_chunks, state, since_sent,
                 latest_later_acked>>

\* No retransmission is wanted and both limits allow new data.
select_new ==
  /\ QueueIsStale
  /\ can_send_new
  /\ retransmission_queue' = <<>>
  /\ next_sequence' = next_sequence + 1
  /\ outstanding_chunks' = outstanding_chunks + 1
  /\ decision' = [sequence |-> next_sequence, retransmission |-> FALSE,
                  fast_retransmission |-> FALSE]
  /\ UNCHANGED <<base, state, since_sent, flagVars, evidenceVars>>

\* select_next_packet returns nullopt.
select_nothing ==
  /\ QueueIsStale
  /\ ~can_send_new
  /\ retransmission_queue' = <<>>
  /\ UNCHANGED <<base, next_sequence, outstanding_chunks, state, since_sent, flagVars,
                 evidenceVars, decision>>

-----------------------------------------------------------------------------
(* Recording a transmission. *)

\* The condition under which mark_sent throws std::logic_error.
mark_sent_throws(s) == s >= next_sequence \/ state[s] = "ACKED"

mark_sent(s) ==
  /\ ~mark_sent_throws(s)
  /\ state' = [state EXCEPT ![s] = "IN_FLIGHT"]
  /\ since_sent' = [since_sent EXCEPT ![s] = 0]
  /\ UNCHANGED <<base, next_sequence, outstanding_chunks, flagVars, evidenceVars,
                 retransmission_queue, decision>>

-----------------------------------------------------------------------------
(* Processing an acknowledgement. *)

\* The chunks of the cumulative prefix, from base_ to prefix_end.
PrefixAcked(ack) ==
  {s \in Chunks : base <= s /\ s < ack.cumulative_ack /\ s < next_sequence}

\* The chunks whose bit the scan of the bitmap finds set.
SackAcked(ack) ==
  {s \in Chunks : /\ ack.bitmap_base <= s
                  /\ s - ack.bitmap_base \in ack.bitmap
                  /\ s - ack.bitmap_base < SackCoverage
                  /\ s < ack.largest_received_plus_one
                  /\ s < next_sequence}

\* Mutant: mark_acked without its return for a chunk that is ACKED already.
NewlyAcked_Again(ack) == PrefixAcked(ack) \cup SackAcked(ack)

\* The chunks that mark_acked really changes.
NewlyAcked(ack) ==
  {s \in PrefixAcked(ack) \cup SackAcked(ack) : state[s] # "ACKED"}

StateAfterAck(acked) == [s \in Chunks |-> IF s \in acked THEN "ACKED" ELSE state[s]]

\* later_acked, as the backward scan has counted it when it is at chunk s.
LaterAcked(st, s) ==
  Cardinality({t \in Chunks : s < t /\ t < next_sequence /\ st[t] = "ACKED"})

\* Where the loop of advance_base stops.
FirstUnacked(st, b) ==
  /\ \A s \in Chunks : base <= s /\ s < b => st[s] = "ACKED"
  /\ b < TotalChunks => st[b] # "ACKED"

\* Mutant: any later ACKed chunk counts, new or not.
has_new_later_sack_Repeats(s, later_acked) == later_acked > 0

has_new_later_sack(s, later_acked) == later_acked > latest_later_acked[s]

\* Mutant: one chunk more than the threshold is needed.
has_new_sack_evidence_OffByOne(s, later_acked) ==
  /\ later_acked >= retransmit_evidence[s]
  /\ later_acked - retransmit_evidence[s] > FastRetransmitThreshold

has_new_sack_evidence(s, later_acked) ==
  /\ later_acked >= retransmit_evidence[s]
  /\ later_acked - retransmit_evidence[s] >= FastRetransmitThreshold

retry_delay_elapsed(s) == ~fast_retransmitted[s] \/ since_sent[s] >= RetryDelay

\* The chunks that queue_retransmission(s, true) really queues.
FastQueued(st) ==
  {s \in Chunks : /\ s < next_sequence
                  /\ st[s] = "IN_FLIGHT"
                  /\ ~retransmit_pending[s]
                  /\ has_new_later_sack(s, LaterAcked(st, s))
                  /\ has_new_sack_evidence(s, LaterAcked(st, s))
                  /\ retry_delay_elapsed(s)}

\* Mutant: the count is stored only when a retransmission is queued.
EvidenceAfterAck_OnlyQueued(st) ==
  [s \in Chunks |-> IF s \in FastQueued(st) THEN LaterAcked(st, s) ELSE latest_later_acked[s]]

\* Every in-flight chunk remembers what the scan counted behind it.
EvidenceAfterAck(st) ==
  [s \in Chunks |-> IF s < next_sequence /\ st[s] = "IN_FLIGHT"
                    THEN LaterAcked(st, s) ELSE latest_later_acked[s]]

\* The sequences that list the set S once each, in descending or in ascending
\* order (each set has exactly one of each).
Descending(S) ==
  {q \in [1 .. Cardinality(S) -> S] :
     /\ \A s \in S : \E i \in DOMAIN q : q[i] = s
     /\ \A i, j \in DOMAIN q : i < j => q[i] > q[j]}

Ascending(S) ==
  {q \in [1 .. Cardinality(S) -> S] :
     /\ \A s \in S : \E i \in DOMAIN q : q[i] = s
     /\ \A i, j \in DOMAIN q : i < j => q[i] < q[j]}

PendingAfterAck(acked, fast) ==
  [s \in Chunks |-> (retransmit_pending[s] /\ s \notin acked) \/ s \in fast]

process_ack(ack) ==
  LET acked == NewlyAcked(ack)
      st    == StateAfterAck(acked)
      fast  == FastQueued(st)
  IN /\ state' = st
     /\ outstanding_chunks' = outstanding_chunks - Cardinality(acked)
     /\ \E b \in base .. TotalChunks : FirstUnacked(st, b) /\ base' = b
     /\ latest_later_acked' = EvidenceAfterAck(st)
     /\ retransmit_pending' = PendingAfterAck(acked, fast)
     /\ fast_retransmit_pending' =
          [s \in Chunks |-> (fast_retransmit_pending[s] /\ s \notin acked) \/ s \in fast]
     /\ fast_retransmitted' = [s \in Chunks |-> fast_retransmitted[s] \/ s \in fast]
     /\ \E q \in Descending(fast) : retransmission_queue' = retransmission_queue \o q
     /\ UNCHANGED <<next_sequence, since_sent, retransmit_evidence, decision>>

-----------------------------------------------------------------------------
(* The retransmission timeout. *)

\* Mutants: no chunk ever times out, and a chunk that is queued times out again.
TimedOut_Never == {}

TimedOut_Requeues ==
  {s \in Chunks : /\ base <= s /\ s < next_sequence
                  /\ state[s] = "IN_FLIGHT"
                  /\ since_sent[s] >= Rto}

TimedOut ==
  {s \in Chunks : /\ base <= s /\ s < next_sequence
                  /\ state[s] = "IN_FLIGHT"
                  /\ ~retransmit_pending[s]
                  /\ since_sent[s] >= Rto}

check_timeouts ==
  /\ retransmit_pending' = [s \in Chunks |-> retransmit_pending[s] \/ s \in TimedOut]
  /\ fast_retransmit_pending' =
       [s \in Chunks |-> fast_retransmit_pending[s] /\ s \notin TimedOut]
  /\ \E q \in Ascending(TimedOut) : retransmission_queue' = retransmission_queue \o q
  /\ UNCHANGED <<base, next_sequence, outstanding_chunks, state, since_sent,
                 fast_retransmitted, evidenceVars, decision>>

all_acked == base = TotalChunks

\* Chunks selected and not yet acknowledged.
Unacked == {s \in Chunks : s < next_sequence /\ state[s] # "ACKED"}

\* The steady clock advances by one tick.
Tick ==
  /\ since_sent' = [s \in Chunks |-> IF state[s] = "IN_FLIGHT" /\ since_sent[s] < Rto
                                     THEN since_sent[s] + 1 ELSE since_sent[s]]
  /\ UNCHANGED <<base, next_sequence, outstanding_chunks, state, flagVars, evidenceVars,
                 retransmission_queue, decision>>
=============================================================================
