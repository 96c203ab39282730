---------------------------- MODULE WindowProofs ----------------------------
(***************************************************************************)
(* The inductive invariant of the sender's window and data loop, and that  *)
(* every step of the loop keeps it, whatever ACK payload the step applies. *)
(* SenderProofs uses it for the sender alone, TransferProofs for the       *)
(* client within the whole transfer.                                       *)
(***************************************************************************)
EXTENDS SenderLoop, FiniteSetTheorems, SequenceTheorems, TLAPS

-----------------------------------------------------------------------------
(* Finite sets of chunks. *)

\* Chunk numbers are integers.
LEMMA ChunksAreInts == Chunks \subseteq Int
BY CommonAssumption DEF Chunks

\* Every set of chunks has a cardinality.
LEMMA ChunkSets ==
  ASSUME NEW S \in SUBSET Chunks
  PROVE  IsFiniteSet(S) /\ Cardinality(S) \in Nat
<1>1. IsFiniteSet(Chunks)
  BY FS_Interval, CommonAssumption DEF Chunks
<1>2. IsFiniteSet(S)
  BY <1>1, FS_Subset
<1> QED
  BY <1>2, FS_CardinalityType

\* The count of the scan of process_ack is a natural number.
LEMMA LaterAckedType ==
  ASSUME NEW st, NEW s PROVE LaterAcked(st, s) \in Nat
BY ChunkSets DEF LaterAcked

-----------------------------------------------------------------------------
(* The retransmission queue.  A queue lists a chunk when it has it somewhere. *)

Lists(q, s) == \E i \in 1 .. Len(q) : q[i] = s

Distinct(q) == \A i, j \in 1 .. Len(q) : q[i] = q[j] => i = j

\* What process_ack and check_timeouts append lists each chunk of a set once.
LEMMA ListingFacts ==
  ASSUME NEW S \in SUBSET Chunks, NEW q \in Descending(S) \cup Ascending(S)
  PROVE  /\ q \in Seq(Chunks)
         /\ Distinct(q)
         /\ \A s \in Chunks : Lists(q, s) <=> s \in S
<1> DEFINE n == Cardinality(S)
<1>1. n \in Nat
  BY ChunkSets
<1>2. q \in [1 .. n -> S] /\ \A s \in S : \E i \in 1 .. n : q[i] = s
  BY DEF Descending, Ascending
<1> HIDE DEF n
<1>3. \A i, j \in 1 .. n : i # j => q[i] # q[j]
  <2>1. SUFFICES ASSUME NEW i \in 1 .. n, NEW j \in 1 .. n, i < j PROVE q[i] # q[j]
    BY <1>1
  <2>2. q[i] \in Int /\ q[j] \in Int
    <3>1. q[i] \in Chunks /\ q[j] \in Chunks
      BY <1>2
    <3> QED
      BY <3>1, ChunksAreInts
  <2>3. q[i] < q[j] \/ q[i] > q[j]
    BY <1>2, <2>1 DEF Descending, Ascending
  <2> QED
    BY <2>2, <2>3
<1>4. q \in Seq(Chunks) /\ Len(q) = n
  BY <1>1, <1>2
<1> QED
  BY <1>2, <1>3, <1>4 DEF Lists, Distinct

\* Appending the listing of a set of chunks that the queue does not list.
LEMMA AppendFacts ==
  ASSUME NEW q \in Seq(Chunks), Distinct(q),
         NEW S \in SUBSET Chunks, NEW r \in Descending(S) \cup Ascending(S),
         \A s \in S : ~Lists(q, s)
  PROVE  /\ q \o r \in Seq(Chunks)
         /\ Distinct(q \o r)
         /\ \A s \in Chunks : Lists(q \o r, s) <=> Lists(q, s) \/ s \in S
<1> DEFINE t == q \o r
<1>1. r \in Seq(Chunks) /\ Distinct(r) /\ \A s \in Chunks : Lists(r, s) <=> s \in S
  BY ListingFacts
<1>2. /\ t \in Seq(Chunks)
      /\ Len(t) = Len(q) + Len(r)
      /\ \A i \in 1 .. Len(q) + Len(r) : t[i] = IF i <= Len(q) THEN q[i] ELSE r[i - Len(q)]
  BY <1>1, ConcatProperties
<1>3. Len(q) \in Nat /\ Len(r) \in Nat
  BY <1>1
<1> HIDE DEF t
<1>4. \A s \in Chunks : Lists(t, s) <=> Lists(q, s) \/ s \in S
  <2> SUFFICES ASSUME NEW s \in Chunks PROVE Lists(t, s) <=> Lists(q, s) \/ Lists(r, s)
    BY <1>1
  <2>1. ASSUME NEW i \in 1 .. Len(t), t[i] = s PROVE Lists(q, s) \/ Lists(r, s)
    <3>1. CASE i <= Len(q)
      BY <1>2, <1>3, <2>1, <3>1 DEF Lists
    <3>2. CASE ~(i <= Len(q))
      <4>1. i - Len(q) \in 1 .. Len(r) /\ r[i - Len(q)] = s
        BY <1>2, <1>3, <2>1, <3>2
      <4> QED
        BY <4>1 DEF Lists
    <3> QED
      BY <3>1, <3>2
  <2>2. ASSUME NEW i \in 1 .. Len(q), q[i] = s PROVE Lists(t, s)
    BY <1>2, <1>3, <2>2 DEF Lists
  <2>3. ASSUME NEW i \in 1 .. Len(r), r[i] = s PROVE Lists(t, s)
    <3>1. i + Len(q) \in 1 .. Len(t) /\ t[i + Len(q)] = s
      BY <1>2, <1>3, <2>3
    <3> QED
      BY <3>1 DEF Lists
  <2> QED
    BY <2>1, <2>2, <2>3 DEF Lists
<1>5. Distinct(t)
  <2> SUFFICES ASSUME NEW i \in 1 .. Len(t), NEW j \in 1 .. Len(t), i < j, t[i] = t[j]
               PROVE  FALSE
    BY <1>2, <1>3 DEF Distinct
  <2>1. CASE j <= Len(q)
    BY <1>2, <1>3, <2>1 DEF Distinct
  <2>2. CASE i > Len(q)
    <3>1. i - Len(q) \in 1 .. Len(r) /\ j - Len(q) \in 1 .. Len(r)
      BY <1>2, <1>3, <2>2
    <3>2. r[i - Len(q)] = r[j - Len(q)]
      BY <1>2, <1>3, <2>2
    <3> QED
      BY <1>1, <1>3, <3>1, <3>2 DEF Distinct
  <2>3. CASE i <= Len(q) /\ j > Len(q)
    <3>1. j - Len(q) \in 1 .. Len(r) /\ r[j - Len(q)] = q[i] /\ i \in 1 .. Len(q)
      BY <1>2, <1>3, <2>3
    <3>2. q[i] \in Chunks /\ Lists(q, q[i]) /\ Lists(r, q[i])
      BY <3>1 DEF Lists
    <3> QED
      BY <1>1, <3>2
  <2> QED
    BY <1>2, <1>3, <2>1, <2>2, <2>3
<1> QED
  BY <1>2, <1>4, <1>5 DEF t

\* Popping the first k entries.
LEMMA PopFacts ==
  ASSUME NEW q \in Seq(Chunks), Distinct(q), NEW k \in 1 .. Len(q)
  PROVE  LET t == SubSeq(q, k + 1, Len(q)) IN
         /\ t \in Seq(Chunks)
         /\ Distinct(t)
         /\ \A s \in Chunks : Lists(t, s) <=> \E i \in k + 1 .. Len(q) : q[i] = s
<1> DEFINE t == SubSeq(q, k + 1, Len(q))
<1>1. Len(q) \in Nat
  OBVIOUS
<1>2. \A i \in k + 1 .. Len(q) : q[i] \in Chunks
  BY <1>1
<1>3. /\ t \in Seq(Chunks)
      /\ Len(t) = IF k + 1 <= Len(q) THEN Len(q) - (k + 1) + 1 ELSE 0
      /\ \A i \in 1 .. Len(q) - (k + 1) + 1 : t[i] = q[k + 1 + i - 1]
  BY <1>1, <1>2, SubSeqProperties
<1> HIDE DEF t
<1>4. Len(t) = Len(q) - k /\ \A i \in 1 .. Len(t) : i + k \in 1 .. Len(q) /\ t[i] = q[i + k]
  BY <1>1, <1>3
<1>5. Distinct(t)
  <2> SUFFICES ASSUME NEW i \in 1 .. Len(t), NEW j \in 1 .. Len(t), t[i] = t[j]
               PROVE  i = j
    BY DEF Distinct
  <2>1. q[i + k] = q[j + k] /\ i + k \in 1 .. Len(q) /\ j + k \in 1 .. Len(q)
    BY <1>4
  <2>2. i + k = j + k
    BY <2>1 DEF Distinct
  <2> QED
    BY <2>2
<1>6. \A s \in Chunks : Lists(t, s) <=> \E i \in k + 1 .. Len(q) : q[i] = s
  <2> SUFFICES ASSUME NEW s \in Chunks
               PROVE  Lists(t, s) <=> \E i \in k + 1 .. Len(q) : q[i] = s
    OBVIOUS
  <2>1. ASSUME NEW i \in 1 .. Len(t), t[i] = s PROVE \E j \in k + 1 .. Len(q) : q[j] = s
    <3>1. i + k \in k + 1 .. Len(q) /\ q[i + k] = s
      BY <1>1, <1>4, <2>1
    <3> QED
      BY <3>1
  <2>2. ASSUME NEW i \in k + 1 .. Len(q), q[i] = s PROVE Lists(t, s)
    <3>1. i - k \in 1 .. Len(t) /\ t[i - k] = s
      BY <1>1, <1>4, <2>2
    <3> QED
      BY <3>1 DEF Lists
  <2> QED
    BY <2>1, <2>2 DEF Lists
<1> QED
  BY <1>3, <1>5, <1>6 DEF t

-----------------------------------------------------------------------------
(* The inductive invariant. *)

\* Nothing beyond next_sequence was sent, and the only selected chunk that may
\* be unsent is the newest one, between select_next_packet and mark_sent.
UnsentShape ==
  \A s \in Chunks :
    /\ s >= next_sequence => state[s] = "UNSENT"
    /\ s < next_sequence /\ state[s] = "UNSENT" =>
         loop_pc = "paced" /\ decision.sequence = s /\ next_sequence = s + 1

\* Everything below base is acknowledged, and base has not overtaken selection.
PrefixShape ==
  /\ base <= next_sequence
  /\ \A s \in Chunks : s < base => state[s] = "ACKED"

\* Queue entries were sent before; those still in flight are the pending ones.
QueueShape ==
  /\ Distinct(retransmission_queue)
  /\ \A s \in Chunks : Lists(retransmission_queue, s) => state[s] # "UNSENT"
  /\ \A s \in Chunks :
       retransmit_pending[s] <=> state[s] = "IN_FLIGHT" /\ Lists(retransmission_queue, s)

\* The chunk that waits for the pacer may be marked sent.
PacedShape ==
  loop_pc = "paced" =>
    /\ decision.sequence \in Chunks
    /\ decision.sequence < next_sequence
    /\ state[decision.sequence] # "ACKED"

\* Every variable has its type.
LoopStateOK == SenderTypeOK /\ LoopTypeOK

\* The counter is exact, and it and the coverage are within their limits.
CountShape ==
  /\ OutstandingExact
  /\ outstanding_chunks <= LogicalWindow
  /\ next_sequence <= base + SackCoverage

IInv == LoopStateOK /\ UnsentShape /\ PrefixShape /\ QueueShape /\ PacedShape /\ CountShape

\* The constructor establishes it.
LEMMA InitIInv == LoopInit => IInv
<1> SUFFICES ASSUME LoopInit PROVE IInv
  OBVIOUS
<1> USE CommonAssumption, SenderAssumption DEF LoopInit, SenderInit, all_acked
<1>1. LoopStateOK
  BY DEF LoopStateOK, SenderTypeOK, LoopTypeOK, Chunks, PacketState, SendDecision
<1>2. UnsentShape /\ PrefixShape /\ PacedShape
  BY DEF UnsentShape, PrefixShape, PacedShape, Chunks
<1>3. QueueShape
  BY DEF QueueShape, Distinct, Lists
<1>4. CountShape
  <2>1. Unacked = {}
    BY DEF Unacked, Chunks
  <2> QED
    BY <2>1, FS_EmptySet DEF CountShape, OutstandingExact
<1> QED
  BY <1>1, <1>2, <1>3, <1>4 DEF IInv

-----------------------------------------------------------------------------
(* process_ack, whatever the payload says. *)

\* The chunks that an ACK acknowledges were selected and not acknowledged.
LEMMA NewlyAckedFacts ==
  ASSUME NEW ack PROVE NewlyAcked(ack) \in SUBSET Unacked
BY DEF NewlyAcked, PrefixAcked, SackAcked, Unacked

LEMMA AckKeepsIInv ==
  ASSUME IInv, NEW ack \in AckPayload, process_ack(ack), loop_pc # "paced",
         loop_pc' \in {"drain", "select", "wait", "tail", "exit"}
  PROVE  IInv'
<1> DEFINE acked == NewlyAcked(ack)
           st    == StateAfterAck(acked)
           fast  == FastQueued(st)
<1> USE DEF IInv
<1>1. /\ state' = st
      /\ outstanding_chunks' = outstanding_chunks - Cardinality(acked)
      /\ latest_later_acked' = EvidenceAfterAck(st)
      /\ retransmit_pending' = PendingAfterAck(acked, fast)
      /\ fast_retransmit_pending' =
           [s \in Chunks |-> (fast_retransmit_pending[s] /\ s \notin acked) \/ s \in fast]
      /\ fast_retransmitted' = [s \in Chunks |-> fast_retransmitted[s] \/ s \in fast]
      /\ UNCHANGED <<next_sequence, since_sent, retransmit_evidence, decision>>
  BY DEF process_ack
<1>2. PICK b \in base .. TotalChunks : FirstUnacked(st, b) /\ base' = b
  BY DEF process_ack
<1>3. PICK q \in Descending(fast) : retransmission_queue' = retransmission_queue \o q
  BY DEF process_ack
<1>4. acked \in SUBSET Unacked /\ acked \in SUBSET Chunks /\ fast \in SUBSET Chunks
  BY NewlyAckedFacts DEF Unacked, FastQueued
<1>5. \A s \in Chunks : st[s] = IF s \in acked THEN "ACKED" ELSE state[s]
  BY DEF StateAfterAck
<1>6. \A s \in fast : st[s] = "IN_FLIGHT" /\ ~retransmit_pending[s]
  BY DEF FastQueued
<1> HIDE DEF acked, st, fast
<1>7. st \in [Chunks -> PacketState]
  BY <1>4 DEF st, StateAfterAck, LoopStateOK, SenderTypeOK, PacketState
<1>8. b <= next_sequence
  <2> SUFFICES ASSUME b > next_sequence PROVE FALSE
    BY DEF LoopStateOK, SenderTypeOK
  <2>1. next_sequence \in Chunks /\ base <= next_sequence /\ next_sequence < b
    BY CommonAssumption DEF LoopStateOK, SenderTypeOK, Chunks, PrefixShape
  <2>2. st[next_sequence] = "ACKED"
    BY <1>2, <2>1 DEF FirstUnacked
  <2>3. next_sequence \notin acked
    BY <1>4, <2>1 DEF Unacked, LoopStateOK, SenderTypeOK
  <2>4. state[next_sequence] = "UNSENT"
    BY <2>1 DEF UnsentShape, LoopStateOK, SenderTypeOK
  <2> QED
    BY <1>5, <2>1, <2>2, <2>3, <2>4
<1>9. /\ Unacked' = Unacked \ acked
      /\ Cardinality(Unacked') = outstanding_chunks - Cardinality(acked)
      /\ Cardinality(Unacked') \in Nat /\ Cardinality(acked) \in Nat
  <2>1. Unacked' = Unacked \ acked
    BY <1>1, <1>4, <1>5 DEF Unacked
  <2>2. Unacked \cap acked = acked
    BY <1>4
  <2>3. IsFiniteSet(Unacked)
    BY ChunkSets DEF Unacked
  <2>4. Cardinality(Unacked \ acked) = Cardinality(Unacked) - Cardinality(acked)
    BY <2>2, <2>3, FS_Difference
  <2>5. Unacked \ acked \in SUBSET Chunks
    BY DEF Unacked
  <2>6. Cardinality(Unacked \ acked) \in Nat /\ Cardinality(acked) \in Nat
    BY <1>4, <2>5, ChunkSets
  <2> QED
    BY <2>1, <2>4, <2>6 DEF CountShape, OutstandingExact
<1>10. \A s \in fast : ~Lists(retransmission_queue, s)
  <2> SUFFICES ASSUME NEW s \in fast, Lists(retransmission_queue, s) PROVE FALSE
    OBVIOUS
  <2>1. s \in Chunks /\ state[s] = "IN_FLIGHT" /\ ~retransmit_pending[s]
    BY <1>4, <1>5, <1>6
  <2> QED
    BY <2>1 DEF QueueShape
<1>11. /\ retransmission_queue' \in Seq(Chunks)
       /\ Distinct(retransmission_queue')
       /\ \A s \in Chunks :
            Lists(retransmission_queue', s) <=> Lists(retransmission_queue, s) \/ s \in fast
  BY <1>3, <1>4, <1>10, AppendFacts DEF LoopStateOK, SenderTypeOK, QueueShape
<1>12. LoopStateOK'
  <2>1. EvidenceAfterAck(st) \in [Chunks -> Nat]
    BY LaterAckedType DEF EvidenceAfterAck, LoopStateOK, SenderTypeOK
  <2>2. PendingAfterAck(acked, fast) \in [Chunks -> BOOLEAN]
    BY DEF PendingAfterAck, LoopStateOK, SenderTypeOK
  <2>3. fast_retransmit_pending' \in [Chunks -> BOOLEAN]
        /\ fast_retransmitted' \in [Chunks -> BOOLEAN]
    BY <1>1 DEF LoopStateOK, SenderTypeOK
  <2>4. outstanding_chunks' \in Nat
    BY <1>1, <1>9
  <2>5. base' \in 0 .. TotalChunks
    BY <1>2 DEF LoopStateOK, SenderTypeOK
  <2> QED
    BY <1>1, <1>7, <1>11, <2>1, <2>2, <2>3, <2>4, <2>5 DEF LoopStateOK, SenderTypeOK, LoopTypeOK
<1>13. UnsentShape'
  <2> SUFFICES ASSUME NEW s \in Chunks
               PROVE  /\ s >= next_sequence => st[s] = "UNSENT"
                      /\ ~(s < next_sequence /\ st[s] = "UNSENT")
    BY <1>1 DEF UnsentShape
  <2>1. s \in acked => s < next_sequence
    BY <1>4 DEF Unacked
  <2>2. s \in Int /\ next_sequence \in Int
    BY ChunksAreInts DEF LoopStateOK, SenderTypeOK
  <2> QED
    BY <1>5, <2>1, <2>2 DEF UnsentShape
<1>14. PrefixShape'
  <2> SUFFICES ASSUME NEW s \in Chunks, s < b PROVE st[s] = "ACKED"
    BY <1>1, <1>2, <1>8 DEF PrefixShape
  <2>1. CASE s < base
    BY <1>5, <2>1 DEF PrefixShape
  <2>2. CASE base <= s
    BY <1>2, <2>2 DEF FirstUnacked
  <2> QED
    BY <2>1, <2>2, ChunksAreInts DEF LoopStateOK, SenderTypeOK
<1>15. QueueShape'
  <2> SUFFICES ASSUME NEW s \in Chunks
               PROVE  /\ Lists(retransmission_queue', s) => st[s] # "UNSENT"
                      /\ retransmit_pending'[s] <=>
                           st[s] = "IN_FLIGHT" /\ Lists(retransmission_queue', s)
    BY <1>1, <1>11 DEF QueueShape
  <2>1. retransmit_pending'[s] <=> (retransmit_pending[s] /\ s \notin acked) \/ s \in fast
    BY <1>1 DEF PendingAfterAck
  <2> QED
    BY <1>5, <1>6, <1>11, <2>1 DEF QueueShape
<1>16. PacedShape'
  BY DEF PacedShape
<1>17. CountShape'
  <2>1. OutstandingExact'
    BY <1>1, <1>9 DEF OutstandingExact
  <2>2. base <= b /\ b \in Int /\ base \in Int /\ next_sequence \in Int
    BY <1>2 DEF LoopStateOK, SenderTypeOK
  <2>3. outstanding_chunks' <= LogicalWindow
    BY <1>1, <1>9, SenderAssumption DEF CountShape, LoopStateOK, SenderTypeOK
  <2>4. next_sequence' <= base' + SackCoverage
    BY <1>1, <1>2, <2>2, CommonAssumption DEF CountShape
  <2> QED
    BY <2>1, <2>3, <2>4 DEF CountShape
<1> QED
  BY <1>12, <1>13, <1>14, <1>15, <1>16, <1>17

-----------------------------------------------------------------------------
(* The other steps of the loop. *)

\* check_timeouts appends what has timed out and is not in the queue.
LEMMA TimeoutsKeepIInv ==
  ASSUME IInv, CheckTimeouts PROVE IInv'
<1> DEFINE late == TimedOut
<1> USE DEF IInv
<1>1. /\ retransmit_pending' = [s \in Chunks |-> retransmit_pending[s] \/ s \in late]
      /\ fast_retransmit_pending' =
           [s \in Chunks |-> fast_retransmit_pending[s] /\ s \notin late]
      /\ UNCHANGED <<base, next_sequence, outstanding_chunks, state, since_sent,
                     fast_retransmitted, evidenceVars, decision>>
      /\ loop_pc = "drain" /\ loop_pc' = "select"
  BY DEF CheckTimeouts, check_timeouts
<1>2. PICK q \in Ascending(late) : retransmission_queue' = retransmission_queue \o q
  BY DEF CheckTimeouts, check_timeouts
<1>3. late \in SUBSET Chunks /\ \A s \in late : state[s] = "IN_FLIGHT" /\ ~retransmit_pending[s]
  BY DEF TimedOut
<1> HIDE DEF late
<1>4. \A s \in late : ~Lists(retransmission_queue, s)
  BY <1>3 DEF QueueShape
<1>5. /\ retransmission_queue' \in Seq(Chunks)
      /\ Distinct(retransmission_queue')
      /\ \A s \in Chunks :
           Lists(retransmission_queue', s) <=> Lists(retransmission_queue, s) \/ s \in late
  BY <1>2, <1>3, <1>4, AppendFacts DEF LoopStateOK, SenderTypeOK, QueueShape
<1>6. LoopStateOK'
  <2>1. retransmit_pending' \in [Chunks -> BOOLEAN]
        /\ fast_retransmit_pending' \in [Chunks -> BOOLEAN]
    BY <1>1 DEF LoopStateOK, SenderTypeOK
  <2> QED
    BY <1>1, <1>5, <2>1 DEF LoopStateOK, SenderTypeOK, LoopTypeOK, evidenceVars
<1>7. UnsentShape' /\ PrefixShape' /\ PacedShape'
  BY <1>1 DEF UnsentShape, PrefixShape, PacedShape
<1>8. QueueShape'
  <2> SUFFICES ASSUME NEW s \in Chunks
               PROVE  /\ Lists(retransmission_queue', s) => state[s] # "UNSENT"
                      /\ retransmit_pending'[s] <=>
                           state[s] = "IN_FLIGHT" /\ Lists(retransmission_queue', s)
    BY <1>1, <1>5 DEF QueueShape
  <2>1. retransmit_pending'[s] <=> retransmit_pending[s] \/ s \in late
    BY <1>1
  <2> QED
    BY <1>3, <1>5, <2>1 DEF QueueShape
<1>9. CountShape'
  BY <1>1 DEF CountShape, OutstandingExact, Unacked
<1> QED
  BY <1>6, <1>7, <1>8, <1>9

\* select_next_packet takes the first live entry of the queue; the entries it
\* discards before it are all of acknowledged chunks.
LEMMA SelectRetransmissionKeepsIInv ==
  ASSUME IInv, SelectRetransmission PROVE IInv'
<1> USE DEF IInv
<1>1. loop_pc = "select" /\ loop_pc' = "paced"
      /\ UNCHANGED <<base, next_sequence, outstanding_chunks, state, since_sent,
                     latest_later_acked>>
  BY DEF SelectRetransmission, select_retransmission
<1>2. PICK k \in 1 .. Len(retransmission_queue) :
        LET s == retransmission_queue[k] IN
        /\ Retransmittable(s)
        /\ \A i \in 1 .. k - 1 : ~Retransmittable(retransmission_queue[i])
        /\ retransmission_queue' = QueueBehind(k)
        /\ decision' = [sequence |-> s, retransmission |-> TRUE,
                        fast_retransmission |-> fast_retransmit_pending[s]]
        /\ retransmit_pending' = [retransmit_pending EXCEPT ![s] = FALSE]
        /\ fast_retransmit_pending' = [fast_retransmit_pending EXCEPT ![s] = FALSE]
        /\ fast_retransmitted' = [fast_retransmitted EXCEPT ![s] = TRUE]
        /\ retransmit_evidence' = [retransmit_evidence EXCEPT ![s] = latest_later_acked[s]]
  BY DEF SelectRetransmission, select_retransmission
<1> DEFINE s == retransmission_queue[k]
           Q == retransmission_queue
<1>3. Q \in Seq(Chunks) /\ Len(Q) \in Nat /\ s \in Chunks /\ Distinct(Q)
  BY DEF LoopStateOK, SenderTypeOK, QueueShape
<1>4. state[s] = "IN_FLIGHT" /\ s < next_sequence
  <2>1. state[s] = "IN_FLIGHT"
    BY <1>2 DEF Retransmittable
  <2>2. ~(s >= next_sequence)
    BY <1>3, <2>1 DEF UnsentShape
  <2>3. s \in Int
    BY <1>3, ChunksAreInts
  <2>4. next_sequence \in Int
    BY DEF LoopStateOK, SenderTypeOK
  <2> HIDE DEF s
  <2> QED
    BY <2>1, <2>2, <2>3, <2>4
<1>5. /\ retransmission_queue' \in Seq(Chunks)
      /\ Distinct(retransmission_queue')
      /\ \A c \in Chunks :
           Lists(retransmission_queue', c) <=> \E i \in k + 1 .. Len(Q) : Q[i] = c
  BY <1>2, <1>3, PopFacts DEF QueueBehind
<1>6. LoopStateOK'
  <2>1. decision' \in SendDecision
    BY <1>2, <1>3, CommonAssumption DEF SendDecision, LoopStateOK, SenderTypeOK, Chunks
  <2> QED
    BY <1>1, <1>2, <1>3, <1>5, <2>1 DEF LoopStateOK, SenderTypeOK, LoopTypeOK
<1>7. UnsentShape' /\ PrefixShape'
  BY <1>1 DEF UnsentShape, PrefixShape
<1>8. PacedShape'
  BY <1>1, <1>2, <1>3, <1>4 DEF PacedShape
<1>9. QueueShape'
  <2> SUFFICES ASSUME NEW c \in Chunks
               PROVE  /\ Lists(retransmission_queue', c) => state[c] # "UNSENT"
                      /\ retransmit_pending'[c] <=>
                           state[c] = "IN_FLIGHT" /\ Lists(retransmission_queue', c)
    BY <1>1, <1>5 DEF QueueShape
  <2>1. Lists(retransmission_queue', c) => Lists(Q, c)
    BY <1>3, <1>5 DEF Lists
  <2>2. CASE c = s
    <3>1. ~Lists(retransmission_queue', c)
      <4> SUFFICES ASSUME NEW i \in k + 1 .. Len(Q), Q[i] = Q[k] PROVE FALSE
        BY <1>5, <2>2
      <4> QED
        BY <1>3 DEF Distinct
    <3>2. ~retransmit_pending'[c]
      BY <1>2, <1>3, <2>2 DEF LoopStateOK, SenderTypeOK
    <3> QED
      BY <3>1, <3>2
  <2>3. CASE c # s
    <3>1. retransmit_pending'[c] <=> retransmit_pending[c]
      BY <1>2, <2>3 DEF LoopStateOK, SenderTypeOK
    <3>2. ASSUME retransmit_pending[c] PROVE Lists(retransmission_queue', c)
      <4>1. state[c] = "IN_FLIGHT" /\ Lists(Q, c)
        BY <3>2 DEF QueueShape
      <4>2. PICK i \in 1 .. Len(Q) : Q[i] = c
        BY <4>1 DEF Lists
      <4>3. ~(i \in 1 .. k - 1)
        BY <1>2, <3>2, <4>1, <4>2 DEF Retransmittable
      <4>4. i # k
        BY <2>3, <4>2
      <4>5. i \in k + 1 .. Len(Q)
        BY <1>3, <4>3, <4>4
      <4> QED
        BY <1>5, <4>2, <4>5
    <3> QED
      BY <2>1, <3>1, <3>2 DEF QueueShape
  <2> QED
    BY <2>1, <2>2, <2>3 DEF QueueShape
<1>10. CountShape'
  BY <1>1 DEF CountShape, OutstandingExact, Unacked
<1> QED
  BY <1>6, <1>7, <1>8, <1>9, <1>10

\* When every queue entry is stale, no chunk is pending: emptying the queue
\* loses nothing.
LEMMA StaleQueueFacts ==
  ASSUME IInv, QueueIsStale
  PROVE  \A s \in Chunks : ~retransmit_pending[s]
<1> SUFFICES ASSUME NEW s \in Chunks, retransmit_pending[s] PROVE FALSE
  OBVIOUS
<1>1. state[s] = "IN_FLIGHT" /\ Lists(retransmission_queue, s)
  BY DEF IInv, QueueShape
<1> QED
  BY <1>1 DEF Lists, QueueIsStale, Retransmittable

LEMMA EmptyQueueFacts ==
  ASSUME IInv, QueueIsStale, retransmission_queue' = <<>>,
         UNCHANGED <<state, retransmit_pending>>
  PROVE  QueueShape'
<1>1. Len(retransmission_queue') = 0
  OBVIOUS
<1> QED
  BY <1>1, StaleQueueFacts DEF QueueShape, Distinct, Lists

LEMMA SelectNewKeepsIInv ==
  ASSUME IInv, SelectNew PROVE IInv'
<1> USE DEF IInv
<1>1. /\ loop_pc = "select" /\ loop_pc' = "paced"
      /\ QueueIsStale
      /\ next_sequence < TotalChunks
      /\ outstanding_chunks < LogicalWindow
      /\ next_sequence < base + SackCoverage
      /\ retransmission_queue' = <<>>
      /\ next_sequence' = next_sequence + 1
      /\ outstanding_chunks' = outstanding_chunks + 1
      /\ decision' = [sequence |-> next_sequence, retransmission |-> FALSE,
                      fast_retransmission |-> FALSE]
      /\ UNCHANGED <<base, state, since_sent, retransmit_pending, fast_retransmit_pending,
                     fast_retransmitted, latest_later_acked, retransmit_evidence>>
  BY DEF SelectNew, select_new, can_send_new, flagVars, evidenceVars
<1>2. next_sequence \in Chunks /\ state[next_sequence] = "UNSENT"
  <2>1. next_sequence \in Chunks
    BY <1>1, CommonAssumption DEF LoopStateOK, SenderTypeOK, Chunks
  <2> QED
    BY <2>1 DEF UnsentShape, LoopStateOK, SenderTypeOK
<1>3. LoopStateOK'
  <2>1. decision' \in SendDecision /\ retransmission_queue' \in Seq(Chunks)
    BY <1>1 DEF SendDecision, LoopStateOK, SenderTypeOK
  <2>2. next_sequence' \in 0 .. TotalChunks /\ outstanding_chunks' \in Nat
    BY <1>1, CommonAssumption DEF LoopStateOK, SenderTypeOK
  <2> QED
    BY <1>1, <2>1, <2>2 DEF LoopStateOK, SenderTypeOK, LoopTypeOK
<1>4. UnsentShape'
  <2> SUFFICES ASSUME NEW s \in Chunks
               PROVE  /\ s >= next_sequence + 1 => state[s] = "UNSENT"
                      /\ s < next_sequence + 1 /\ state[s] = "UNSENT" => s = next_sequence
    BY <1>1 DEF UnsentShape
  <2>1. s \in Int /\ next_sequence \in Int
    BY ChunksAreInts DEF LoopStateOK, SenderTypeOK
  <2> QED
    BY <1>1, <2>1 DEF UnsentShape
<1>5. PrefixShape'
  BY <1>1 DEF PrefixShape, LoopStateOK, SenderTypeOK
<1>6. QueueShape'
  BY <1>1, EmptyQueueFacts
<1>7. PacedShape'
  BY <1>1, <1>2 DEF PacedShape, LoopStateOK, SenderTypeOK
<1>8. CountShape'
  <2>1. Unacked' = Unacked \cup {next_sequence}
    <3> SUFFICES ASSUME NEW s \in Chunks
                 PROVE  s < next_sequence + 1 <=> s < next_sequence \/ s = next_sequence
      BY <1>1, <1>2 DEF Unacked
    <3> QED
      BY ChunksAreInts DEF LoopStateOK, SenderTypeOK
  <2>2. next_sequence \notin Unacked /\ IsFiniteSet(Unacked)
    BY ChunkSets DEF Unacked, LoopStateOK, SenderTypeOK
  <2>3. Cardinality(Unacked') = Cardinality(Unacked) + 1
    BY <2>1, <2>2, FS_AddElement
  <2>4. OutstandingExact'
    BY <1>1, <2>3 DEF CountShape, OutstandingExact
  <2> QED
    BY <1>1, <2>4, CommonAssumption, SenderAssumption DEF CountShape, LoopStateOK, SenderTypeOK
<1> QED
  BY <1>3, <1>4, <1>5, <1>6, <1>7, <1>8

LEMMA SelectNothingKeepsIInv ==
  ASSUME IInv, SelectNothing PROVE IInv'
<1> USE DEF IInv
<1>1. /\ loop_pc = "select" /\ loop_pc' = "wait"
      /\ QueueIsStale
      /\ retransmission_queue' = <<>>
      /\ UNCHANGED <<base, next_sequence, outstanding_chunks, state, since_sent,
                     retransmit_pending, fast_retransmit_pending, fast_retransmitted,
                     latest_later_acked, retransmit_evidence, decision>>
  BY DEF SelectNothing, select_nothing, flagVars, evidenceVars
<1>2. LoopStateOK'
  BY <1>1 DEF LoopStateOK, SenderTypeOK, LoopTypeOK
<1>3. UnsentShape' /\ PrefixShape' /\ PacedShape'
  BY <1>1 DEF UnsentShape, PrefixShape, PacedShape
<1>4. QueueShape'
  BY <1>1, EmptyQueueFacts
<1>5. CountShape'
  BY <1>1 DEF CountShape, OutstandingExact, Unacked
<1> QED
  BY <1>2, <1>3, <1>4, <1>5

\* mark_sent of the selected chunk: it was in flight already or was the unsent
\* newest one, which is in no queue.
LEMMA SendDataKeepsIInv ==
  ASSUME IInv, SendData PROVE IInv'
<1> USE DEF IInv
<1> DEFINE d == decision.sequence
<1>1. /\ loop_pc = "paced" /\ loop_pc' = "tail"
      /\ state' = [state EXCEPT ![d] = "IN_FLIGHT"]
      /\ since_sent' = [since_sent EXCEPT ![d] = 0]
      /\ UNCHANGED <<base, next_sequence, outstanding_chunks, retransmit_pending,
                     fast_retransmit_pending, fast_retransmitted, latest_later_acked,
                     retransmit_evidence, retransmission_queue, decision>>
  BY DEF SendData, mark_sent, flagVars, evidenceVars
<1>2. d \in Chunks /\ d < next_sequence /\ state[d] # "ACKED"
  BY <1>1 DEF PacedShape
<1> HIDE DEF d
<1>3. \A s \in Chunks : state'[s] = IF s = d THEN "IN_FLIGHT" ELSE state[s]
  BY <1>1 DEF LoopStateOK, SenderTypeOK
<1>4. LoopStateOK'
  <2>1. state' \in [Chunks -> PacketState]
    BY <1>1 DEF LoopStateOK, SenderTypeOK, PacketState
  <2>2. since_sent' \in [Chunks -> 0 .. Rto]
    <3>1. since_sent \in [Chunks -> 0 .. Rto]
      BY DEF LoopStateOK, SenderTypeOK
    <3>2. 0 \in 0 .. Rto
      BY SenderAssumption
    <3> QED
      BY <1>1, <3>1, <3>2
  <2> QED
    BY <1>1, <2>1, <2>2 DEF LoopStateOK, SenderTypeOK, LoopTypeOK
<1>5. UnsentShape'
  <2> SUFFICES ASSUME NEW s \in Chunks
               PROVE  /\ s >= next_sequence => state'[s] = "UNSENT"
                      /\ ~(s < next_sequence /\ state'[s] = "UNSENT")
    BY <1>1 DEF UnsentShape
  <2>1. s \in Int /\ next_sequence \in Int
    BY ChunksAreInts DEF LoopStateOK, SenderTypeOK
  <2> QED
    BY <1>2, <1>3, <2>1 DEF UnsentShape, d
<1>6. PrefixShape'
  BY <1>1, <1>2, <1>3 DEF PrefixShape
<1>7. QueueShape'
  <2> SUFFICES ASSUME NEW s \in Chunks
               PROVE  /\ Lists(retransmission_queue, s) => state'[s] # "UNSENT"
                      /\ retransmit_pending[s] <=>
                           state'[s] = "IN_FLIGHT" /\ Lists(retransmission_queue, s)
    BY <1>1 DEF QueueShape
  <2>1. state[d] = "IN_FLIGHT" \/ state[d] = "UNSENT"
    BY <1>2 DEF LoopStateOK, SenderTypeOK, PacketState
  <2> QED
    BY <1>2, <1>3, <2>1 DEF QueueShape
<1>8. PacedShape'
  BY <1>1 DEF PacedShape
<1>9. CountShape'
  <2>1. Unacked' = Unacked
    BY <1>1, <1>2, <1>3 DEF Unacked
  <2> QED
    BY <1>1, <2>1 DEF CountShape, OutstandingExact
<1> QED
  BY <1>4, <1>5, <1>6, <1>7, <1>8, <1>9

\* Steps that leave the window alone but for the ages of its chunks.
LEMMA QuietKeepsIInv ==
  ASSUME IInv,
         UNCHANGED <<base, next_sequence, outstanding_chunks, state, flagVars, evidenceVars,
                     retransmission_queue, decision>>,
         since_sent' \in [Chunks -> 0 .. Rto],
         \/ UNCHANGED loop_pc
         \/ loop_pc \in {"wait", "tail"} /\ loop_pc' \in {"drain", "exit"}
  PROVE  IInv'
<1> USE DEF IInv, flagVars, evidenceVars
<1>1. LoopStateOK'
  BY DEF LoopStateOK, SenderTypeOK, LoopTypeOK
<1>2. UnsentShape' /\ PrefixShape' /\ PacedShape'
  BY DEF UnsentShape, PrefixShape, PacedShape
<1>3. QueueShape'
  BY DEF QueueShape
<1>4. CountShape'
  BY DEF CountShape, OutstandingExact, Unacked
<1> QED
  BY <1>1, <1>2, <1>3, <1>4

-----------------------------------------------------------------------------
(* Every step of the data loop keeps the invariant. *)

\* A step of the loop, with any ACK that has the format, or none.
LoopStep ==
  \/ \E ack \in AckPayload : DrainAck(ack) \/ WaitAck(ack)
  \/ CheckTimeouts
  \/ SelectRetransmission
  \/ SelectNew
  \/ SelectNothing
  \/ WaitTimesOut
  \/ SendData
  \/ EndIteration
  \/ ClockTick
  \/ UNCHANGED loopVars

LEMMA LoopStepKeepsIInv ==
  ASSUME IInv, LoopStep
  PROVE  IInv'
<1>0. since_sent \in [Chunks -> 0 .. Rto]
  BY DEF IInv, LoopStateOK, SenderTypeOK
<1>1. ASSUME NEW ack \in AckPayload, DrainAck(ack) PROVE IInv'
  <2>1. loop_pc \in {"drain", "tail"} /\ loop_pc' = loop_pc /\ process_ack(ack)
    BY <1>1 DEF DrainAck, CanDrain
  <2> QED
    BY <2>1, AckKeepsIInv
<1>2. ASSUME NEW ack \in AckPayload, WaitAck(ack) PROVE IInv'
  <2>1. loop_pc = "wait" /\ loop_pc' \in {"drain", "exit"} /\ process_ack(ack)
    BY <1>2 DEF WaitAck, LoopTest
  <2> QED
    BY <2>1, AckKeepsIInv
<1>3. CASE CheckTimeouts
  BY <1>3, TimeoutsKeepIInv
<1>4. CASE SelectRetransmission
  BY <1>4, SelectRetransmissionKeepsIInv
<1>5. CASE SelectNew
  BY <1>5, SelectNewKeepsIInv
<1>6. CASE SelectNothing
  BY <1>6, SelectNothingKeepsIInv
<1>7. CASE WaitTimesOut \/ EndIteration
  <2>1. loop_pc \in {"wait", "tail"} /\ loop_pc' \in {"drain", "exit"} /\ UNCHANGED windowVars
    BY <1>7 DEF WaitTimesOut, EndIteration, LoopTest
  <2> QED
    BY <1>0, <2>1, QuietKeepsIInv DEF windowVars, flagVars, evidenceVars
<1>8. CASE SendData
  BY <1>8, SendDataKeepsIInv
<1>9. CASE ClockTick
  <2>1. Tick /\ UNCHANGED loop_pc
    BY <1>9 DEF ClockTick
  <2>2. since_sent' \in [Chunks -> 0 .. Rto]
    <3>1. ASSUME NEW s \in Chunks, since_sent[s] < Rto PROVE since_sent[s] + 1 \in 0 .. Rto
      <4>1. since_sent[s] \in 0 .. Rto
        BY <1>0
      <4> QED
        BY <3>1, <4>1, SenderAssumption
    <3> DEFINE age(s) == IF state[s] = "IN_FLIGHT" /\ since_sent[s] < Rto
                         THEN since_sent[s] + 1 ELSE since_sent[s]
    <3>2. \A s \in Chunks : age(s) \in 0 .. Rto
      BY <1>0, <3>1
    <3>3. since_sent' = [s \in Chunks |-> age(s)]
      BY <2>1 DEF Tick
    <3> HIDE DEF age
    <3> QED
      BY <3>2, <3>3
  <2> QED
    BY <2>1, <2>2, QuietKeepsIInv DEF Tick
<1>10. CASE UNCHANGED loopVars
  BY <1>0, <1>10, QuietKeepsIInv DEF loopVars, windowVars, flagVars, evidenceVars
<1> QED
  BY <1>1, <1>2, <1>3, <1>4, <1>5, <1>6, <1>7, <1>8, <1>9, <1>10 DEF LoopStep

\* What the inductive invariant says of the properties that the runs check.
LEMMA IInvImplies ==
  IInv => /\ OutstandingExact
          /\ WindowBounds
          /\ PendingIsQueued
          /\ QueuedOnce
          /\ MarkSentNeverThrows
<1> SUFFICES ASSUME IInv
             PROVE  /\ OutstandingExact
                    /\ WindowBounds
                    /\ PendingIsQueued
                    /\ QueuedOnce
                    /\ MarkSentNeverThrows
  OBVIOUS
<1>1. OutstandingExact /\ WindowBounds
  BY DEF IInv, CountShape, OutstandingExact, WindowBounds
<1>2. PendingIsQueued
  <2>1. \A s : QueuePlaces(s) # {} <=> Lists(retransmission_queue, s)
    BY DEF QueuePlaces, Lists
  <2> QED
    BY <2>1 DEF IInv, QueueShape, PendingIsQueued
<1>3. QueuedOnce
  BY DEF IInv, QueueShape, Distinct, QueuedOnce
<1>4. MarkSentNeverThrows
  <2> SUFFICES ASSUME loop_pc = "paced" PROVE ~mark_sent_throws(decision.sequence)
    BY DEF MarkSentNeverThrows
  <2>1. /\ decision.sequence \in Chunks
        /\ decision.sequence < next_sequence
        /\ state[decision.sequence] # "ACKED"
    BY DEF IInv, PacedShape
  <2>2. decision.sequence \in Int
    BY <2>1, ChunksAreInts
  <2>3. next_sequence \in Int
    BY DEF IInv, LoopStateOK, SenderTypeOK
  <2> QED
    BY <2>1, <2>2, <2>3 DEF mark_sent_throws
<1> QED
  BY <1>1, <1>2, <1>3, <1>4

-----------------------------------------------------------------------------
(* What a step never undoes. *)

\* No step takes an acknowledgement or an advance of base_ back.
LEMMA StepIsMonotone ==
  ASSUME IInv, LoopStep
  PROVE  /\ \A s \in Chunks : state[s] = "ACKED" => state'[s] = "ACKED"
         /\ base <= base'
<1>0. /\ base \in Int
      /\ state \in [Chunks -> PacketState]
  BY DEF IInv, LoopStateOK, SenderTypeOK
<1>1. ASSUME NEW ack, process_ack(ack)
      PROVE  /\ \A s \in Chunks : state[s] = "ACKED" => state'[s] = "ACKED"
             /\ base <= base'
  <2>1. state' = StateAfterAck(NewlyAcked(ack)) /\ base' \in base .. TotalChunks
    BY <1>1 DEF process_ack
  <2> QED
    BY <1>0, <2>1 DEF StateAfterAck
<1>2. ASSUME SendData
      PROVE  /\ \A s \in Chunks : state[s] = "ACKED" => state'[s] = "ACKED"
             /\ base <= base'
  <2>1. /\ ~mark_sent_throws(decision.sequence)
        /\ state' = [state EXCEPT ![decision.sequence] = "IN_FLIGHT"]
        /\ base' = base
    BY <1>2 DEF SendData, mark_sent
  <2>2. state[decision.sequence] # "ACKED"
    BY <2>1 DEF mark_sent_throws
  <2> QED
    BY <1>0, <2>1, <2>2
<1>3. CASE \E ack \in AckPayload : DrainAck(ack) \/ WaitAck(ack)
  BY <1>1, <1>3 DEF DrainAck, WaitAck
<1>4. CASE SendData
  BY <1>2, <1>4
<1>5. CASE \/ CheckTimeouts \/ SelectRetransmission \/ SelectNew \/ SelectNothing
           \/ WaitTimesOut \/ EndIteration \/ ClockTick \/ UNCHANGED loopVars
  <2>1. state' = state /\ base' = base
    BY <1>5 DEF CheckTimeouts, check_timeouts, SelectRetransmission, select_retransmission,
      SelectNew, select_new, SelectNothing, select_nothing, WaitTimesOut, EndIteration,
      ClockTick, Tick, loopVars, windowVars
  <2> QED
    BY <1>0, <2>1
<1> QED
  BY <1>3, <1>4, <1>5 DEF LoopStep

\* The loop is left only by its condition, on a window that is all acknowledged.
LEMMA ExitMeansAllAcked ==
  ASSUME IInv, IInv', LoopStep, loop_pc' = "exit", loopVars' # loopVars
  PROVE  \A s \in Chunks : state'[s] = "ACKED"
<1>1. CASE \E ack \in AckPayload : WaitAck(ack)
  <2>1. all_acked'
    BY <1>1 DEF WaitAck, LoopTest
  <2> QED
    BY <2>1, CommonAssumption DEF all_acked, IInv, PrefixShape, Chunks
<1>2. CASE WaitTimesOut \/ EndIteration
  <2>1. all_acked'
    BY <1>2 DEF WaitTimesOut, EndIteration, LoopTest
  <2> QED
    BY <2>1, CommonAssumption DEF all_acked, IInv, PrefixShape, Chunks
<1>3. CASE \E ack \in AckPayload : DrainAck(ack)
  BY <1>3 DEF DrainAck, CanDrain
<1>4. CASE \/ CheckTimeouts \/ SelectRetransmission \/ SelectNew \/ SelectNothing
           \/ SendData \/ ClockTick
  BY <1>4 DEF CheckTimeouts, SelectRetransmission, SelectNew, SelectNothing, SendData, ClockTick
<1> QED
  BY <1>1, <1>2, <1>3, <1>4 DEF LoopStep

\* A step of the loop takes no progress back.
LEMMA LoopStepKeepsProgress ==
  ASSUME IInv, LoopStep
  PROVE  [ProgressStep]_loopVars
BY LoopStepKeepsIInv, StepIsMonotone, ExitMeansAllAcked DEF ProgressStep

-----------------------------------------------------------------------------
(* The evidence for fast retransmission (reliability.cpp:140-163): the      *)
(* counts kept per chunk are exact, new evidence is never missed, and an    *)
(* ACK without news is never taken for new evidence.                        *)

\* What latest_later_acked counts at chunk s: the ACKED chunks behind it.
Behind(st, n, s) == {t \in Chunks : s < t /\ t < n /\ st[t] = "ACKED"}

\* The count grows with the set of ACKED chunks.
LEMMA CountGrows ==
  ASSUME NEW S \in SUBSET Chunks, NEW T \in SUBSET Chunks, S \subseteq T
  PROVE  Cardinality(S) \in Nat /\ Cardinality(T) \in Nat /\ Cardinality(S) <= Cardinality(T)
BY ChunkSets, FS_Subset

-----------------------------------------------------------------------------
(* The inductive invariant: IInv and what is remembered of each chunk. *)

\* A chunk that was not sent remembers nothing and was not retransmitted, and
\* one that was never retransmitted has no evidence used up.
CountsFresh ==
  \A s \in Chunks :
    /\ state[s] = "UNSENT" => latest_later_acked[s] = 0 /\ ~fast_retransmitted[s]
    /\ ~fast_retransmitted[s] => retransmit_evidence[s] = 0

EInv == IInv /\ EvidenceExact /\ CountsFresh /\ FastRetransmitPrompt

\* The constructor establishes it: nothing is in flight.
LEMMA InitEInv == LoopInit => EInv
<1> SUFFICES ASSUME LoopInit PROVE EInv
  OBVIOUS
<1>1. IInv
  BY InitIInv
<1>2. EvidenceExact /\ CountsFresh /\ FastRetransmitPrompt
  BY DEF LoopInit, SenderInit, EvidenceExact, CountsFresh, FastRetransmitPrompt
<1> QED
  BY <1>1, <1>2 DEF EInv

-----------------------------------------------------------------------------
(* process_ack. *)

\* What an ACK does to the states of the chunks and to the counts.
LEMMA AckFacts ==
  ASSUME IInv, NEW ack, NEW st, st = StateAfterAck(NewlyAcked(ack))
  PROVE  \A s \in Chunks :
           /\ state[s] = "ACKED" => st[s] = "ACKED"
           /\ st[s] \in {"ACKED", state[s]}
           /\ LaterAcked(state, s) \in Nat /\ LaterAcked(st, s) \in Nat
           /\ LaterAcked(state, s) <= LaterAcked(st, s)
<1> SUFFICES ASSUME NEW s \in Chunks
             PROVE  /\ state[s] = "ACKED" => st[s] = "ACKED"
                    /\ st[s] \in {"ACKED", state[s]}
                    /\ LaterAcked(state, s) \in Nat /\ LaterAcked(st, s) \in Nat
                    /\ LaterAcked(state, s) <= LaterAcked(st, s)
  OBVIOUS
<1>1. \A t \in Chunks : st[t] = IF t \in NewlyAcked(ack) THEN "ACKED" ELSE state[t]
  BY DEF StateAfterAck
<1>2. Behind(state, next_sequence, s) \subseteq Behind(st, next_sequence, s)
  BY <1>1 DEF Behind
<1>3. /\ Behind(state, next_sequence, s) \in SUBSET Chunks
      /\ Behind(st, next_sequence, s) \in SUBSET Chunks
  BY DEF Behind
<1>4. /\ LaterAcked(state, s) = Cardinality(Behind(state, next_sequence, s))
      /\ LaterAcked(st, s) = Cardinality(Behind(st, next_sequence, s))
  BY DEF LaterAcked, Behind
<1>5. /\ LaterAcked(state, s) \in Nat /\ LaterAcked(st, s) \in Nat
      /\ LaterAcked(state, s) <= LaterAcked(st, s)
  BY <1>2, <1>3, <1>4, CountGrows
<1> QED
  BY <1>1, <1>5

LEMMA AckKeepsEInv ==
  ASSUME EInv, NEW ack, process_ack(ack)
  PROVE  EvidenceExact' /\ CountsFresh' /\ FastRetransmitPrompt'
<1> DEFINE acked == NewlyAcked(ack)
           st    == StateAfterAck(acked)
           fast  == FastQueued(st)
<1>1. /\ state' = st
      /\ latest_later_acked' = EvidenceAfterAck(st)
      /\ retransmit_pending' = PendingAfterAck(acked, fast)
      /\ fast_retransmitted' = [s \in Chunks |-> fast_retransmitted[s] \/ s \in fast]
      /\ next_sequence' = next_sequence /\ retransmit_evidence' = retransmit_evidence
  BY DEF process_ack
<1>2. \A s \in Chunks : /\ st[s] \in {"ACKED", state[s]}
                        /\ LaterAcked(state, s) \in Nat /\ LaterAcked(st, s) \in Nat
                        /\ LaterAcked(state, s) <= LaterAcked(st, s)
  BY AckFacts DEF EInv
<1>3. \A s \in Chunks : LaterAcked(state, s)' = LaterAcked(st, s)
  BY <1>1 DEF LaterAcked
<1>4. /\ next_sequence \in Nat
      /\ retransmit_evidence \in [Chunks -> Nat]
      /\ fast_retransmitted \in [Chunks -> BOOLEAN]
  BY DEF EInv, IInv, LoopStateOK, SenderTypeOK
<1>5. \A s \in Chunks : st[s] = "IN_FLIGHT" => state[s] = "IN_FLIGHT" /\ s \notin acked
  BY <1>2 DEF st, StateAfterAck
<1>6. \A s \in Chunks : state[s] = "IN_FLIGHT" => s < next_sequence
  BY <1>4, ChunksAreInts DEF EInv, IInv, UnsentShape
<1>7. \A s \in Chunks :
        latest_later_acked'[s] = IF st[s] = "IN_FLIGHT" THEN LaterAcked(st, s)
                                 ELSE latest_later_acked[s]
  BY <1>1, <1>5, <1>6 DEF EvidenceAfterAck
<1>8. \A s \in Chunks : state[s] = "IN_FLIGHT" =>
        /\ latest_later_acked[s] = LaterAcked(state, s)
        /\ retransmit_evidence[s] <= latest_later_acked[s]
  BY DEF EInv, EvidenceExact
<1>9. \A s \in fast : st[s] = "IN_FLIGHT" /\ s \in Chunks
  BY DEF FastQueued
<1> HIDE DEF acked, st, fast
<1>10. EvidenceExact'
  <2> SUFFICES ASSUME NEW s \in Chunks, state'[s] = "IN_FLIGHT"
               PROVE  /\ latest_later_acked'[s] = LaterAcked(state, s)'
                      /\ retransmit_evidence'[s] <= latest_later_acked'[s]
    BY DEF EvidenceExact
  <2>1. st[s] = "IN_FLIGHT" /\ state[s] = "IN_FLIGHT"
    BY <1>1, <1>5
  <2>2. latest_later_acked'[s] = LaterAcked(st, s)
    BY <1>7, <2>1
  <2>3. retransmit_evidence[s] \in Nat /\ retransmit_evidence[s] <= LaterAcked(state, s)
    BY <1>4, <1>8, <2>1
  <2>4. retransmit_evidence[s] <= LaterAcked(st, s)
    BY <1>2, <2>3
  <2> QED
    BY <1>1, <1>3, <2>2, <2>4
<1>11. CountsFresh'
  <2> SUFFICES ASSUME NEW s \in Chunks
               PROVE  /\ state'[s] = "UNSENT" =>
                            latest_later_acked'[s] = 0 /\ ~fast_retransmitted'[s]
                      /\ ~fast_retransmitted'[s] => retransmit_evidence'[s] = 0
    BY DEF CountsFresh
  <2>1. ASSUME st[s] = "UNSENT"
        PROVE  latest_later_acked'[s] = 0 /\ ~fast_retransmitted'[s]
    <3>1. state[s] = "UNSENT" /\ s \notin fast
      BY <1>2, <1>9, <2>1
    <3> QED
      BY <1>1, <1>7, <2>1, <3>1 DEF EInv, CountsFresh
  <2>2. ASSUME ~fast_retransmitted'[s] PROVE retransmit_evidence'[s] = 0
    <3>1. ~fast_retransmitted[s]
      BY <1>1, <2>2
    <3> QED
      BY <1>1, <3>1 DEF EInv, CountsFresh
  <2> QED
    BY <1>1, <2>1, <2>2
<1>12. FastRetransmitPrompt'
  <2> SUFFICES ASSUME NEW s \in Chunks, state'[s] = "IN_FLIGHT", ~fast_retransmitted'[s],
                      LaterAcked(state, s)' >= FastRetransmitThreshold,
                      ~retransmit_pending'[s]
               PROVE  FALSE
    BY DEF FastRetransmitPrompt
  <2>1. /\ st[s] = "IN_FLIGHT" /\ state[s] = "IN_FLIGHT" /\ s \notin acked
        /\ s < next_sequence
    BY <1>1, <1>5, <1>6
  <2>2. ~fast_retransmitted[s] /\ s \notin fast
    BY <1>1
  <2>3. ~retransmit_pending[s]
    BY <1>1, <2>1, <2>2 DEF PendingAfterAck
  <2>4. ~(LaterAcked(state, s) >= FastRetransmitThreshold)
    BY <2>1, <2>2, <2>3 DEF EInv, FastRetransmitPrompt
  <2>5. LaterAcked(st, s) >= FastRetransmitThreshold
    BY <1>3
  <2>6. LaterAcked(st, s) > latest_later_acked[s]
    BY <1>2, <1>8, <2>1, <2>4, <2>5, SenderAssumption
  <2>7. retransmit_evidence[s] = 0
    BY <2>2 DEF EInv, CountsFresh
  <2>8. has_new_later_sack(s, LaterAcked(st, s)) /\ has_new_sack_evidence(s, LaterAcked(st, s))
    BY <1>2, <2>5, <2>6, <2>7, SenderAssumption DEF has_new_later_sack, has_new_sack_evidence
  <2>9. s \in fast
    BY <2>1, <2>2, <2>3, <2>8 DEF fast, FastQueued, retry_delay_elapsed
  <2> QED
    BY <2>2, <2>9
<1> QED
  BY <1>10, <1>11, <1>12
-----------------------------------------------------------------------------
(* The other steps. *)

\* A step that changes no ACKED chunk and selects no chunk behind an ACKED one
\* leaves every count as it is.
LEMMA CountsUnchanged ==
  ASSUME IInv, IInv', next_sequence <= next_sequence',
         \A t \in Chunks : state'[t] = "ACKED" <=> state[t] = "ACKED"
  PROVE  \A s \in Chunks : LaterAcked(state, s)' = LaterAcked(state, s)
<1> SUFFICES ASSUME NEW s \in Chunks
             PROVE  Behind(state', next_sequence', s) = Behind(state, next_sequence, s)
  BY DEF LaterAcked, Behind
<1>1. next_sequence \in Int /\ next_sequence' \in Int
  BY DEF IInv, LoopStateOK, SenderTypeOK
<1>2. \A t \in Chunks : state[t] = "ACKED" => t < next_sequence
  BY <1>1, ChunksAreInts DEF IInv, UnsentShape
<1>3. \A t \in Chunks : t < next_sequence' /\ state'[t] = "ACKED"
                         <=> t < next_sequence /\ state[t] = "ACKED"
  BY <1>1, <1>2, ChunksAreInts
<1> QED
  BY <1>3 DEF Behind

\* A step that leaves states and evidence alone, and drops no pending flag.
LEMMA QuietKeepsEInv ==
  ASSUME EInv, IInv', UNCHANGED <<state, fast_retransmitted, evidenceVars>>,
         next_sequence <= next_sequence',
         \A s \in Chunks : retransmit_pending[s] => retransmit_pending'[s]
  PROVE  EvidenceExact' /\ CountsFresh' /\ FastRetransmitPrompt'
<1>1. \A s \in Chunks : LaterAcked(state, s)' = LaterAcked(state, s)
  BY CountsUnchanged DEF EInv
<1>2. EvidenceExact' /\ CountsFresh'
  BY <1>1 DEF EInv, EvidenceExact, CountsFresh, evidenceVars
<1>3. FastRetransmitPrompt'
  BY <1>1 DEF EInv, FastRetransmitPrompt
<1> QED
  BY <1>2, <1>3

\* The retransmission of a chunk uses its evidence up.
LEMMA SelectRetransmissionKeepsEInv ==
  ASSUME EInv, IInv', SelectRetransmission
  PROVE  EvidenceExact' /\ CountsFresh' /\ FastRetransmitPrompt'
<1>1. PICK k \in 1 .. Len(retransmission_queue) :
        /\ Retransmittable(retransmission_queue[k])
        /\ retransmit_pending' = [retransmit_pending EXCEPT ![retransmission_queue[k]] = FALSE]
        /\ fast_retransmitted' = [fast_retransmitted EXCEPT ![retransmission_queue[k]] = TRUE]
        /\ retransmit_evidence' = [retransmit_evidence EXCEPT ![retransmission_queue[k]] =
                                     latest_later_acked[retransmission_queue[k]]]
  BY DEF SelectRetransmission, select_retransmission
<1> DEFINE r == retransmission_queue[k]
<1>2. /\ UNCHANGED <<state, next_sequence, latest_later_acked>>
  BY DEF SelectRetransmission, select_retransmission
<1>3. /\ retransmission_queue \in Seq(Chunks)
      /\ retransmit_pending \in [Chunks -> BOOLEAN]
      /\ fast_retransmitted \in [Chunks -> BOOLEAN]
      /\ retransmit_evidence \in [Chunks -> Nat]
      /\ latest_later_acked \in [Chunks -> Nat]
      /\ next_sequence \in Int
  BY DEF EInv, IInv, LoopStateOK, SenderTypeOK
<1>4. r \in Chunks /\ state[r] = "IN_FLIGHT"
  BY <1>1, <1>3 DEF Retransmittable
<1> HIDE DEF r
<1>5. \A s \in Chunks :
        /\ retransmit_pending'[s] = IF s = r THEN FALSE ELSE retransmit_pending[s]
        /\ fast_retransmitted'[s] = IF s = r THEN TRUE ELSE fast_retransmitted[s]
        /\ retransmit_evidence'[s] = IF s = r THEN latest_later_acked[s]
                                     ELSE retransmit_evidence[s]
  BY <1>1, <1>3, <1>4 DEF r
<1>6. \A s \in Chunks : LaterAcked(state, s)' = LaterAcked(state, s)
  BY <1>2, <1>3, CountsUnchanged DEF EInv
<1>7. EvidenceExact'
  <2> SUFFICES ASSUME NEW s \in Chunks, state'[s] = "IN_FLIGHT"
               PROVE  /\ latest_later_acked'[s] = LaterAcked(state, s)'
                      /\ retransmit_evidence'[s] <= latest_later_acked'[s]
    BY DEF EvidenceExact
  <2>1. /\ latest_later_acked[s] = LaterAcked(state, s)
        /\ retransmit_evidence[s] <= latest_later_acked[s]
        /\ latest_later_acked[s] \in Nat
    BY <1>2, <1>3 DEF EInv, EvidenceExact
  <2>2. latest_later_acked'[s] = latest_later_acked[s]
    BY <1>2
  <2>3. LaterAcked(state, s)' = LaterAcked(state, s)
    BY <1>6
  <2>4. retransmit_evidence'[s] \in {latest_later_acked[s], retransmit_evidence[s]}
    BY <1>5
  <2>5. retransmit_evidence'[s] <= latest_later_acked'[s]
    BY <2>1, <2>2, <2>4
  <2> QED
    BY <2>1, <2>2, <2>3, <2>5
<1>8. CountsFresh'
  BY <1>2, <1>4, <1>5 DEF EInv, CountsFresh
<1>9. FastRetransmitPrompt'
  BY <1>2, <1>5, <1>6 DEF EInv, FastRetransmitPrompt
<1> QED
  BY <1>7, <1>8, <1>9

\* A chunk sent for the first time is the newest: nothing is ACKED behind it.
LEMMA SendDataKeepsEInv ==
  ASSUME EInv, IInv', SendData
  PROVE  EvidenceExact' /\ CountsFresh' /\ FastRetransmitPrompt'
<1> DEFINE d == decision.sequence
<1>1. /\ loop_pc = "paced"
      /\ state' = [state EXCEPT ![d] = "IN_FLIGHT"]
      /\ UNCHANGED <<next_sequence, retransmit_pending, fast_retransmitted,
                     latest_later_acked, retransmit_evidence>>
  BY DEF SendData, mark_sent, flagVars, evidenceVars
<1>2. /\ d \in Chunks /\ state[d] # "ACKED"
      /\ state[d] = "UNSENT" => next_sequence = d + 1
  BY <1>1 DEF EInv, IInv, PacedShape, UnsentShape
<1> HIDE DEF d
<1>3. /\ state \in [Chunks -> PacketState]
      /\ next_sequence \in Int
      /\ retransmit_evidence \in [Chunks -> Nat]
      /\ latest_later_acked \in [Chunks -> Nat]
  BY DEF EInv, IInv, LoopStateOK, SenderTypeOK
<1>4. \A s \in Chunks : state'[s] = IF s = d THEN "IN_FLIGHT" ELSE state[s]
  BY <1>1, <1>2, <1>3
<1>5. \A s \in Chunks : LaterAcked(state, s)' = LaterAcked(state, s)
  <2>1. \A t \in Chunks : state'[t] = "ACKED" <=> state[t] = "ACKED"
    BY <1>2, <1>4
  <2>2. next_sequence <= next_sequence'
    BY <1>1, <1>3
  <2> QED
    BY <2>1, <2>2, CountsUnchanged DEF EInv
<1>6. state[d] = "UNSENT" => LaterAcked(state, d) = 0
  <2> SUFFICES ASSUME state[d] = "UNSENT" PROVE LaterAcked(state, d) = 0
    OBVIOUS
  <2>1. \A t \in Chunks : ~(d < t /\ t < next_sequence)
    BY <1>2, ChunksAreInts
  <2>2. Behind(state, next_sequence, d) = {}
    BY <2>1 DEF Behind
  <2> QED
    BY <2>2, FS_EmptySet DEF LaterAcked, Behind
<1>7. state[d] = "UNSENT" => latest_later_acked[d] = 0 /\ retransmit_evidence[d] = 0
  <2>1. state[d] = "UNSENT" => ~fast_retransmitted[d]
    BY <1>2 DEF EInv, CountsFresh
  <2> QED
    BY <1>2, <2>1 DEF EInv, CountsFresh
<1>8. state[d] \in {"UNSENT", "IN_FLIGHT"}
  BY <1>2, <1>3 DEF PacketState
<1>9. EvidenceExact'
  <2> SUFFICES ASSUME NEW s \in Chunks, state'[s] = "IN_FLIGHT"
               PROVE  /\ latest_later_acked'[s] = LaterAcked(state, s)'
                      /\ retransmit_evidence'[s] <= latest_later_acked'[s]
    BY DEF EvidenceExact
  <2>1. CASE state[s] = "IN_FLIGHT"
    BY <1>1, <1>5, <2>1 DEF EInv, EvidenceExact
  <2>2. CASE state[s] # "IN_FLIGHT"
    <3>1. s = d /\ state[d] = "UNSENT"
      BY <1>4, <1>8, <2>2
    <3>2. latest_later_acked[s] = 0 /\ retransmit_evidence[s] = 0 /\ LaterAcked(state, s) = 0
      BY <1>6, <1>7, <3>1
    <3>3. LaterAcked(state, s)' = 0
      BY <1>5, <3>2
    <3>4. latest_later_acked'[s] = 0 /\ retransmit_evidence'[s] = 0
      BY <1>1, <3>2
    <3> QED
      BY <3>3, <3>4
  <2> QED
    BY <2>1, <2>2
<1>10. CountsFresh'
  BY <1>1, <1>4 DEF EInv, CountsFresh
<1>11. FastRetransmitPrompt'
  <2> SUFFICES ASSUME NEW s \in Chunks, state'[s] = "IN_FLIGHT", ~fast_retransmitted'[s],
                      LaterAcked(state, s)' >= FastRetransmitThreshold
               PROVE  retransmit_pending'[s]
    BY DEF FastRetransmitPrompt
  <2>1. CASE state[s] = "IN_FLIGHT"
    BY <1>1, <1>5, <2>1 DEF EInv, FastRetransmitPrompt
  <2>2. CASE state[s] # "IN_FLIGHT"
    BY <1>4, <1>5, <1>6, <1>8, <2>2, SenderAssumption
  <2> QED
    BY <2>1, <2>2
<1> QED
  BY <1>9, <1>10, <1>11

-----------------------------------------------------------------------------
(* Every step of the data loop keeps the stronger invariant. *)

LEMMA LoopStepKeepsEInv ==
  ASSUME EInv, LoopStep
  PROVE  EInv'
<1>0. IInv' /\ next_sequence \in Int
  BY LoopStepKeepsIInv DEF EInv, IInv, LoopStateOK, SenderTypeOK
<1> SUFFICES EvidenceExact' /\ CountsFresh' /\ FastRetransmitPrompt'
  BY <1>0 DEF EInv
<1>1. CASE \E ack \in AckPayload : DrainAck(ack) \/ WaitAck(ack)
  BY <1>1, AckKeepsEInv DEF DrainAck, WaitAck
<1>2. CASE CheckTimeouts
  <2>1. /\ UNCHANGED <<state, fast_retransmitted, evidenceVars, next_sequence>>
        /\ \A s \in Chunks : retransmit_pending[s] => retransmit_pending'[s]
    BY <1>2 DEF CheckTimeouts, check_timeouts, evidenceVars
  <2> QED
    BY <1>0, <2>1, QuietKeepsEInv
<1>3. CASE SelectRetransmission
  BY <1>0, <1>3, SelectRetransmissionKeepsEInv
<1>4. CASE SelectNew
  <2>1. /\ UNCHANGED <<state, fast_retransmitted, evidenceVars, retransmit_pending>>
        /\ next_sequence' = next_sequence + 1
    BY <1>4 DEF SelectNew, select_new, flagVars, evidenceVars
  <2> QED
    BY <1>0, <2>1, QuietKeepsEInv
<1>5. CASE SelectNothing
  <2>1. UNCHANGED <<state, fast_retransmitted, evidenceVars, retransmit_pending, next_sequence>>
    BY <1>5 DEF SelectNothing, select_nothing, flagVars, evidenceVars
  <2> QED
    BY <1>0, <2>1, QuietKeepsEInv
<1>6. CASE SendData
  BY <1>0, <1>6, SendDataKeepsEInv
<1>7. CASE WaitTimesOut \/ EndIteration \/ ClockTick \/ UNCHANGED loopVars
  <2>1. UNCHANGED <<state, fast_retransmitted, evidenceVars, retransmit_pending, next_sequence>>
    BY <1>7 DEF WaitTimesOut, EndIteration, ClockTick, Tick, loopVars, windowVars,
      flagVars, evidenceVars
  <2> QED
    BY <1>0, <2>1, QuietKeepsEInv
<1> QED
  BY <1>1, <1>2, <1>3, <1>4, <1>5, <1>6, <1>7 DEF LoopStep

-----------------------------------------------------------------------------
(* Duplicate ACKs. *)

\* An ACK that acknowledges nothing new queues nothing.
LEMMA NoNewsNoQueue ==
  ASSUME EInv, NEW ack, process_ack(ack), ~AckNews,
         NEW s \in Chunks, retransmit_pending'[s]
  PROVE  retransmit_pending[s]
<1> DEFINE st == StateAfterAck(NewlyAcked(ack))
<1>1. state' = st /\ retransmit_pending' = PendingAfterAck(NewlyAcked(ack), FastQueued(st))
  BY DEF process_ack
<1>2. \A t \in Chunks : state[t] # "ACKED" => st[t] # "ACKED"
  BY <1>1 DEF AckNews
<1>3. \A t \in Chunks : st[t] \in {"ACKED", state[t]}
  BY AckFacts DEF EInv
<1> HIDE DEF st
<1>4. \A t \in Chunks : st[t] = state[t]
  BY <1>2, <1>3
<1>5. LaterAcked(st, s) = LaterAcked(state, s)
  BY <1>4 DEF LaterAcked
<1>6. s \notin FastQueued(st)
  <2> SUFFICES ASSUME s \in FastQueued(st) PROVE FALSE
    OBVIOUS
  <2>1. state[s] = "IN_FLIGHT" /\ LaterAcked(state, s) > latest_later_acked[s]
    BY <1>4, <1>5 DEF FastQueued, has_new_later_sack
  <2>2. latest_later_acked[s] = LaterAcked(state, s)
    BY <2>1 DEF EInv, EvidenceExact
  <2> QED
    BY <2>1, <2>2, LaterAckedType
<1> QED
  BY <1>1, <1>6 DEF PendingAfterAck

\* A step of the loop marks a chunk for retransmission only for a cause.
LEMMA LoopStepMarksForCause ==
  ASSUME EInv, LoopStep
  PROVE  MarkedForCause
<1> SUFFICES ASSUME EInv, LoopStep, ~AckNews, loop_pc' # "select",
                    NEW s \in Chunks, retransmit_pending'[s]
             PROVE  retransmit_pending[s]
  BY DEF MarkedForCause
<1>1. CASE \E ack \in AckPayload : DrainAck(ack) \/ WaitAck(ack)
  BY <1>1, NoNewsNoQueue DEF DrainAck, WaitAck
<1>2. CASE CheckTimeouts
  BY <1>2 DEF CheckTimeouts
<1>3. CASE SelectRetransmission
  <2>1. PICK r : retransmit_pending' = [retransmit_pending EXCEPT ![r] = FALSE]
    BY <1>3 DEF SelectRetransmission, select_retransmission
  <2>2. retransmit_pending \in [Chunks -> BOOLEAN]
    BY DEF EInv, IInv, LoopStateOK, SenderTypeOK
  <2> QED
    BY <2>1, <2>2
<1>4. CASE \/ SelectNew \/ SelectNothing \/ SendData \/ WaitTimesOut \/ EndIteration
           \/ ClockTick \/ UNCHANGED loopVars
  BY <1>4 DEF SelectNew, select_new, SelectNothing, select_nothing, SendData, mark_sent,
    WaitTimesOut, EndIteration, ClockTick, Tick, loopVars, windowVars, flagVars
<1> QED
  BY <1>1, <1>2, <1>3, <1>4 DEF LoopStep
=============================================================================
