----------------------------- MODULE SenderLoop -----------------------------
(***************************************************************************)
(* The data phase of run_client (src/client.cpp, the loop                  *)
(* `while (!window.all_acked())').  One iteration is                       *)
(*                                                                         *)
(*   "drain"   drain_acks applies the ACKs that have arrived, then         *)
(*             check_timeouts queues what has timed out                    *)
(*   "select"  select_next_packet                                          *)
(*   "wait"    nothing to send: wait_for_ack applies at most one ACK       *)
(*   "paced"   a packet was chosen: the pacer is waited for, the datagram  *)
(*             is sent, and only then mark_sent records it                 *)
(*   "tail"    drain_acks again                                            *)
(*                                                                         *)
(* and "exit" is the state behind the loop, where every chunk is           *)
(* acknowledged.  The socket is read without blocking, so a drain may end  *)
(* at any moment: what it has not seen has not arrived yet.  The clock may *)
(* tick between any two steps.                                             *)
(***************************************************************************)
EXTENDS SenderWindow

VARIABLE loop_pc

loopVars == <<windowVars, loop_pc>>

LoopTypeOK == loop_pc \in {"drain", "select", "wait", "paced", "tail", "exit"}

\* Mutant: the loop condition tests what has been selected, not what is ACKed.
LoopTest_AllSelected ==
  loop_pc' = IF next_sequence' = TotalChunks THEN "exit" ELSE "drain"

\* The loop condition, evaluated on the window the iteration leaves behind.
LoopTest == loop_pc' = IF all_acked' THEN "exit" ELSE "drain"

\* The window is constructed and the loop condition tested for the first time.
LoopInit == SenderInit /\ loop_pc = IF all_acked THEN "exit" ELSE "drain"

\* Mutant: ACKs are also applied while the pacer is waited for, that is
\* between select_next_packet and mark_sent.
CanDrain_WhilePaced == loop_pc \in {"drain", "tail", "paced"}

\* The program points at which drain_acks runs.
CanDrain == loop_pc \in {"drain", "tail"}

\* drain_acks applies one more ACK.
DrainAck(ack) ==
  /\ CanDrain
  /\ process_ack(ack)
  /\ UNCHANGED loop_pc

\* drain_acks finds the socket empty and check_timeouts runs.
CheckTimeouts ==
  /\ loop_pc = "drain"
  /\ check_timeouts
  /\ loop_pc' = "select"

SelectRetransmission ==
  /\ loop_pc = "select"
  /\ select_retransmission
  /\ loop_pc' = "paced"

SelectNew ==
  /\ loop_pc = "select"
  /\ select_new
  /\ loop_pc' = "paced"

SelectNothing ==
  /\ loop_pc = "select"
  /\ select_nothing
  /\ loop_pc' = "wait"

\* wait_for_ack receives an ACK before its 10 ms are over.
WaitAck(ack) ==
  /\ loop_pc = "wait"
  /\ process_ack(ack)
  /\ LoopTest

\* wait_for_ack times out.
WaitTimesOut ==
  /\ loop_pc = "wait"
  /\ UNCHANGED windowVars
  /\ LoopTest

\* send_data_packet has sent decision.sequence, and mark_sent records it.
SendData ==
  /\ loop_pc = "paced"
  /\ mark_sent(decision.sequence)
  /\ loop_pc' = "tail"

\* The second drain_acks finds the socket empty: the iteration is over.
EndIteration ==
  /\ loop_pc = "tail"
  /\ UNCHANGED windowVars
  /\ LoopTest

\* Time passes.  No tick is needed once every age is at its cap.
ClockTick ==
  /\ loop_pc # "exit"
  /\ \E s \in Chunks : state[s] = "IN_FLIGHT" /\ since_sent[s] < Rto
  /\ Tick
  /\ UNCHANGED loop_pc

-----------------------------------------------------------------------------
(* Properties of the window and the loop, whoever drives them: SenderAlone    *)
(* against any ACKs at all, Transfer against the server's.                    *)

\* outstanding_chunks_ counts the selected chunks that are not ACKED exactly,
\* whatever ACKs repeat each other: mark_acked (reliability.cpp:73) counts
\* every chunk down once.
OutstandingExact == outstanding_chunks = Cardinality(Unacked)

\* The two limits that can_send_new keeps hold in every state, not only when
\* a packet is selected: at most a window of chunks is unacknowledged, and
\* every selected chunk is within the bitmap of an ACK based at base_.
WindowBounds ==
  /\ Cardinality(Unacked) <= LogicalWindow
  /\ next_sequence <= base + SackCoverage

\* Occurrences of chunk s in the retransmission queue.
QueuePlaces(s) == {i \in 1 .. Len(retransmission_queue) : retransmission_queue[i] = s}

\* The flag that keeps a chunk from being queued twice (reliability.cpp:88)
\* and the queue itself agree: a chunk marked pending is in flight and really
\* in the queue, so that the next selections reach it, and an in-flight chunk
\* in the queue is marked pending.  Were it otherwise the chunk would be
\* skipped by both fast retransmission and the timeout for ever.
PendingIsQueued ==
  \A s \in Chunks :
    retransmit_pending[s] <=> (state[s] = "IN_FLIGHT" /\ QueuePlaces(s) # {})

\* No chunk is in the queue twice, so it is bounded by the window and no chunk
\* is retransmitted twice for one reason.
QueuedOnce ==
  \A i, j \in 1 .. Len(retransmission_queue) :
    retransmission_queue[i] = retransmission_queue[j] => i = j

\* mark_sent never throws std::logic_error (reliability.cpp:66): the chunk that
\* was selected before the pacer's wait is selected and not ACKED after it.
MarkSentNeverThrows == loop_pc = "paced" => ~mark_sent_throws(decision.sequence)

\* An in-flight chunk that was never retransmitted is waiting in the queue as
\* soon as FastRetransmitThreshold later chunks are ACKED, however the ACKs
\* that say so were split, repeated or reordered (reliability.cpp:143-163;
\* docs/design.md: "A missing in-flight chunk is queued after three later
\* chunks are ACKed").
FastRetransmitPrompt ==
  \A s \in Chunks :
    (/\ state[s] = "IN_FLIGHT"
     /\ ~fast_retransmitted[s]
     /\ LaterAcked(state, s) >= FastRetransmitThreshold)
    => retransmit_pending[s]

\* The per-chunk counts against which new evidence is measured are those of
\* the window: the u32 subtraction of reliability.cpp:154 never wraps.
EvidenceExact ==
  \A s \in Chunks :
    state[s] = "IN_FLIGHT" =>
      /\ latest_later_acked[s] = LaterAcked(state, s)
      /\ retransmit_evidence[s] <= latest_later_acked[s]

\* A chunk newly acknowledged by the step.
AckNews == \E s \in Chunks : state[s] # "ACKED" /\ state'[s] = "ACKED"

\* Why a step may mark a chunk for retransmission: by a timeout (the step into
\* "select"), or by an ACK that acknowledges some chunk for the first time.
MarkedForCause ==
  (\E s \in Chunks : ~retransmit_pending[s] /\ retransmit_pending'[s])
    => loop_pc' = "select" \/ AckNews

\* "New SACK progress [...] avoids retrying on duplicate ACKs"
\* (reliability.cpp:159): a retransmission becomes wanted only by a timeout or by
\* an ACK with news, never by a repeated or overtaken ACK, however long after.
DuplicateAckIsSilent == [][MarkedForCause]_loopVars

\* What a step never takes back.
ProgressStep ==
  /\ \A s \in Chunks : state[s] = "ACKED" => state'[s] = "ACKED"
  /\ base <= base'
  /\ loop_pc' = "exit" => \A s \in Chunks : state'[s] = "ACKED"

\* Acknowledged chunks stay acknowledged, the window only moves forward, and
\* the loop leaves only when every chunk is acknowledged (client.cpp:501).
ProgressIsKept == [][ProgressStep]_loopVars
=============================================================================
