--------------------------- MODULE TransferProofs ---------------------------
(***************************************************************************)
(* What holds of the whole transfer for every file, chunk size, window,    *)
(* coverage and network capacity: through loss, copies and reordering the  *)
(* two endpoints agree on what has arrived, and success means the file.    *)
(***************************************************************************)
EXTENDS Transfer, WindowProofs

-----------------------------------------------------------------------------
(* How the file is cut into chunks. *)

\* The chunk of an offset, by the bounds of the chunk.
LEMMA ChunkOf ==
  ASSUME NEW i \in Nat, NEW c \in Nat \ {0}, NEW s \in Nat
  PROVE  i \div c = s <=> s * c <= i /\ i < s * c + c
<1> DEFINE q == i \div c
           r == i % c
<1>1. q \in Nat /\ r \in 0 .. c - 1 /\ i = q * c + r
  OBVIOUS
<1> HIDE DEF q, r
<1>2. q = s => s * c <= i /\ i < s * c + c
  BY <1>1
<1>3. ASSUME s * c <= i, i < s * c + c, q < s PROVE FALSE
  <2>1. (q + 1) * c <= s * c
    BY <1>1, <1>3
  <2> QED
    BY <1>1, <1>3, <2>1
<1>4. ASSUME s * c <= i, i < s * c + c, s < q PROVE FALSE
  <2>1. (s + 1) * c <= q * c
    BY <1>1, <1>4
  <2> QED
    BY <1>1, <1>4, <2>1
<1> QED
  BY <1>1, <1>2, <1>3, <1>4 DEF q

LEMMA FileFacts == FileSize \in Nat /\ ChunkSize \in Nat \ {0} /\ TotalChunks \in Nat
BY InputFileAssumption, CommonAssumption DEF FileSize

\* Every chunk starts within the file, and every offset lies in a chunk.
LEMMA ChunksCoverFile ==
  /\ \A s \in Chunks : s \in Nat /\ s * ChunkSize \in Nat /\ s * ChunkSize < FileSize
  /\ \A i \in Offsets : i \in Nat /\ i < FileSize /\ i \div ChunkSize \in Chunks
<1> DEFINE q == FileSize \div ChunkSize
           r == FileSize % ChunkSize
<1>1. q \in Nat /\ r \in 0 .. ChunkSize - 1 /\ FileSize = q * ChunkSize + r
  BY FileFacts
<1>2. TotalChunks = q + (IF r # 0 THEN 1 ELSE 0)
  BY InputFileAssumption DEF chunk_count
<1> HIDE DEF q, r
<1>3. ASSUME NEW s \in Chunks
      PROVE  s \in Nat /\ s * ChunkSize \in Nat /\ s * ChunkSize < FileSize
  <2>1. s \in Nat /\ s < TotalChunks
    BY FileFacts DEF Chunks
  <2>2. CASE r # 0
    <3>1. s <= q
      BY <1>1, <1>2, <2>1, <2>2
    <3>2. s * ChunkSize <= q * ChunkSize
      BY <1>1, <2>1, <3>1, FileFacts
    <3> QED
      BY <1>1, <2>1, <2>2, <3>2, FileFacts
  <2>3. CASE r = 0
    <3>1. s + 1 <= q
      BY <1>1, <1>2, <2>1, <2>3
    <3>2. (s + 1) * ChunkSize <= q * ChunkSize
      BY <1>1, <2>1, <3>1, FileFacts
    <3> QED
      BY <1>1, <2>1, <2>3, <3>2, FileFacts
  <2> QED
    BY <2>2, <2>3
<1>4. ASSUME NEW i \in Offsets
      PROVE  i \in Nat /\ i < FileSize /\ i \div ChunkSize \in Chunks
  <2>1. i \in Nat /\ i < FileSize
    BY FileFacts DEF Offsets
  <2> DEFINE s == i \div ChunkSize
  <2>2. s \in Nat
    BY <2>1, FileFacts
  <2>3. s * ChunkSize <= i
    BY <2>1, <2>2, FileFacts, ChunkOf
  <2> HIDE DEF s
  <2>4. ASSUME q < s PROVE FALSE
    <3>1. (q + 1) * ChunkSize <= s * ChunkSize
      BY <1>1, <2>2, <2>4, FileFacts
    <3>2. (q + 1) * ChunkSize = q * ChunkSize + ChunkSize /\ q * ChunkSize \in Nat
      BY <1>1, FileFacts
    <3> QED
      BY <1>1, <2>1, <2>2, <2>3, <3>1, <3>2, FileFacts
  <2>5. ASSUME r = 0, q = s PROVE FALSE
    BY <1>1, <2>1, <2>3, <2>5, FileFacts
  <2>6. s < TotalChunks
    BY <1>1, <1>2, <2>2, <2>4, <2>5
  <2> QED
    BY <2>1, <2>2, <2>6, FileFacts DEF Chunks, s
<1> QED
  BY <1>3, <1>4

\* What a DATA datagram carries, and where memcpy puts it: exactly the bytes
\* of its chunk, also for the short last chunk.
LEMMA DataLands ==
  ASSUME NEW s \in Chunks, NEW r
  PROVE  WriteAt(s, Data(s, r).payload) =
           [i \in Offsets |-> IF i \div ChunkSize = s THEN Source[i + 1] ELSE output[i]]
<1> DEFINE n == PayloadSize(s)
           p == Data(s, r).payload
           o == s * ChunkSize
<1>1. o \in Nat /\ o < FileSize
  BY ChunksCoverFile
<1>2. n \in Nat /\ n = IF ChunkSize < FileSize - o THEN ChunkSize ELSE FileSize - o
  BY <1>1, FileFacts DEF PayloadSize
<1>3. p = [i \in 1 .. n |-> Source[o + i]]
  BY DEF Data
<1>4. Len(p) = n
  BY <1>2, <1>3
<1>5. ASSUME NEW i \in Offsets
      PROVE  /\ i \in o .. o + n - 1 <=> i \div ChunkSize = s
             /\ i \in o .. o + n - 1 => p[i - o + 1] = Source[i + 1]
  <2>1. i \in Nat /\ i < FileSize /\ s \in Nat
    BY ChunksCoverFile
  <2>2. i \div ChunkSize = s <=> o <= i /\ i < o + ChunkSize
    BY <2>1, FileFacts, ChunkOf
  <2> HIDE DEF o, n, p
  <2>3. i \in o .. o + n - 1 <=> o <= i /\ i < o + ChunkSize
    BY <1>1, <1>2, <2>1, FileFacts
  <2>4. ASSUME i \in o .. o + n - 1 PROVE p[i - o + 1] = Source[i + 1]
    <3>1. i - o + 1 \in 1 .. n /\ o + (i - o + 1) = i + 1
      BY <1>1, <1>2, <2>1, <2>4
    <3> QED
      BY <1>3, <3>1
  <2> QED
    BY <2>2, <2>3, <2>4
<1> HIDE DEF n, p, o
<1>6. WriteAt(s, p) = [i \in Offsets |-> IF i \in o .. o + n - 1
                                       THEN p[i - o + 1] ELSE output[i]]
  BY <1>4 DEF WriteAt, o
<1> QED
  BY <1>5, <1>6 DEF p

-----------------------------------------------------------------------------
(* The inductive invariant. *)

\* The loop is left when everything is acknowledged, and not entered again.
ExitShape == loop_pc = "exit" => base = TotalChunks

\* Data is selected only once the handshake is over, COMPLETE is sent only
\* behind the loop, and success is reported only for a committed file.
ClientShape ==
  /\ client_error # "none" => client_pc = "failed"
  /\ client_pc \in {"start", "start_wait"} => next_sequence = 0
  /\ client_error \in {"START timed out", "rejected"} => next_sequence = 0
  /\ client_pc \in {"start_wait", "complete_wait"} => attempt < ControlAttempts
  /\ client_pc \in {"complete", "complete_wait"} => loop_pc = "exit"
  /\ client_pc = "done" => synced

\* Nothing is received before the output is created, only what was selected is
\* received, and the output is flushed only behind the client's loop.
ServerShape ==
  /\ server_pc = "listen" => received = {} /\ output = Filled(OldByte)
  /\ server_pc = "data" => server_chunk_size = ChunkSize
  /\ server_chunk_size # ChunkSize => output = Filled(OldByte)
  /\ \A s \in received : s < next_sequence /\ Written(s)
  /\ synced => loop_pc = "exit"
  /\ server_pc \in {"listen", "data"} => ~synced
  /\ server_pc \in {"timewait", "exited"} => synced

\* What the client counts as acknowledged has arrived.
AckedShape == \A s \in Chunks : state[s] = "ACKED" => s \in received

\* Every datagram towards the server is one the client has made.
ToServerShape ==
  \A m \in to_server :
    \/ m = Start
    \/ m = Complete /\ loop_pc = "exit"
    \/ \E s \in Chunks, r \in BOOLEAN : m = Data(s, r) /\ s < next_sequence

\* An ACK payload names only chunks that have arrived.
Truthful(ack, chunks) ==
  /\ \A s \in Chunks : s < ack.cumulative_ack => s \in chunks
  /\ \A s \in Chunks : ack.bitmap_base <= s /\ s - ack.bitmap_base \in ack.bitmap
                       => s \in chunks

\* The COMPLETE_ACK for the whole file.
FullCompleteAck ==
  [type |-> "COMPLETE_ACK", status |-> "OK", received_chunks |-> TotalChunks,
   received_bytes |-> FileSize]

\* Every datagram towards the client is true of the server, and stays so.
TrueReply(m) ==
  \/ m \in {StartAck("INVALID_REQUEST", 0, 0), StartAck("IO_ERROR", 0, 0),
            AcceptedStartAck(Start)}
  \/ m.type = "ACK" /\ m = Ack(m.ack) /\ m.ack \in AckPayload /\ Truthful(m.ack, received)
  \/ m = FullCompleteAck /\ synced

ToClientShape == \A m \in to_client : TrueReply(m)

TInv ==
  /\ IInv
  /\ TypeOK
  /\ NoSpuriousFailure
  /\ ExitShape
  /\ ClientShape
  /\ TrackerExact
  /\ ServerShape
  /\ AckedShape
  /\ ToServerShape
  /\ ToClientShape

-----------------------------------------------------------------------------
(* The network and the tracker. *)

\* A send adds nothing but the datagram sent.
LEMMA PutFacts ==
  ASSUME NEW channel, NEW m, NEW after \in Put(channel, m), NEW x \in after
  PROVE  x = m \/ x \in channel
BY DEF Put

LEMMA AllChunks == IsFiniteSet(Chunks) /\ Cardinality(Chunks) = TotalChunks
BY FS_Interval, CommonAssumption DEF Chunks

\* mark_received keeps the three counters those of the set.
LEMMA MarkKeepsTracker ==
  ASSUME TrackerTypeOK, TrackerExact, NEW s \in Chunks, mark_received(s)
  PROVE  TrackerTypeOK' /\ TrackerExact' /\ received' = received \cup {s}
<1>0. TotalChunks \in Nat /\ s \in 0 .. TotalChunks - 1
  BY CommonAssumption DEF Chunks
<1>1. /\ s \notin received
      /\ received' = received \cup {s}
      /\ received_count' = received_count + 1
  BY DEF mark_received, has_received
<1>2. received' \in SUBSET Chunks
  BY <1>1 DEF TrackerTypeOK
<1>3. received_count' = Cardinality(received') /\ received_count' \in 0 .. TotalChunks
  <2>1. IsFiniteSet(received) /\ Cardinality(received) \in Nat
    BY ChunkSets DEF TrackerTypeOK
  <2>2. Cardinality(received') = Cardinality(received) + 1
    BY <1>1, <2>1, FS_AddElement
  <2>3. Cardinality(received') <= TotalChunks
    BY <1>2, AllChunks, FS_Subset
  <2> QED
    BY <1>0, <1>1, <2>1, <2>2, <2>3 DEF TrackerExact
<1>4. /\ largest_received_plus_one' \in 0 .. TotalChunks
      /\ \A t \in received' : t < largest_received_plus_one'
      /\ largest_received_plus_one' > 0 => largest_received_plus_one' - 1 \in received'
  <2>1. largest_received_plus_one' =
          IF s + 1 > largest_received_plus_one THEN s + 1 ELSE largest_received_plus_one
    BY DEF mark_received
  <2>2. largest_received_plus_one \in 0 .. TotalChunks /\ received \subseteq Int
    BY ChunksAreInts DEF TrackerTypeOK
  <2> QED
    BY <1>0, <1>1, <2>1, <2>2 DEF TrackerExact
<1>5. /\ cumulative_ack' \in 0 .. TotalChunks
      /\ 0 .. cumulative_ack' - 1 \subseteq received'
      /\ cumulative_ack' = TotalChunks \/ cumulative_ack' \notin received'
  <2>1. PICK c \in cumulative_ack .. TotalChunks : FirstMissing(s, c) /\ cumulative_ack' = c
    BY DEF mark_received
  <2>2. cumulative_ack \in 0 .. TotalChunks /\ 0 .. cumulative_ack - 1 \subseteq received
    BY DEF TrackerTypeOK, TrackerExact
  <2> QED
    BY <1>0, <1>1, <2>1, <2>2 DEF FirstMissing
<1> QED
  BY <1>1, <1>2, <1>3, <1>4, <1>5 DEF TrackerTypeOK, TrackerExact

\* An ACK snapshot is true of the set of chunks it is made from.
LEMMA SnapshotIsTruthful ==
  ASSUME NEW chunks \in SUBSET Chunks, NEW c \in Nat, NEW l \in Nat,
         0 .. c - 1 \subseteq chunks
  PROVE  LET ack == make_ack_snapshot(chunks, c, l)
         IN  ack \in AckPayload /\ Truthful(ack, chunks)
<1> DEFINE ack == make_ack_snapshot(chunks, c, l)
           bits == {b \in 0 .. SackCoverage - 1 : SnapshotBit(b, c, l, chunks)}
<1>1. ack = [cumulative_ack |-> c, largest_received_plus_one |-> l,
             bitmap_base |-> c, bitmap |-> bits]
  BY DEF make_ack_snapshot
<1>2. bits \in SUBSET Nat
  BY CommonAssumption
<1>3. \A b \in bits : c + b \in chunks
  BY DEF SnapshotBit
<1> HIDE DEF ack, bits
<1>4. ack \in AckPayload
  BY <1>1, <1>2 DEF AckPayload
<1>5. Truthful(ack, chunks)
  <2>1. \A s \in Chunks : s < c => s \in chunks
    BY CommonAssumption DEF Chunks
  <2>2. ASSUME NEW s \in Chunks, s - c \in bits PROVE s \in chunks
    <3>1. c + (s - c) = s
      BY ChunksAreInts
    <3> QED
      BY <1>3, <2>2, <3>1
  <2> QED
    BY <1>1, <2>1, <2>2 DEF Truthful
<1> QED
  BY <1>4, <1>5 DEF ack

-----------------------------------------------------------------------------
(* The client's steps. *)

\* A step of the loop leaves it only with everything acknowledged, never
\* comes back, and selects chunks in order.
LEMMA LoopStepFacts ==
  ASSUME IInv, IInv', ExitShape, LoopStep
  PROVE  /\ ExitShape'
         /\ next_sequence <= next_sequence'
         /\ loop_pc = "exit" => loop_pc' = "exit"
<1>0. next_sequence \in Int /\ next_sequence' \in Int
  BY CommonAssumption DEF IInv, LoopStateOK, SenderTypeOK
<1>1. ASSUME NEW ack \in AckPayload, DrainAck(ack)
      PROVE  loop_pc' = loop_pc /\ loop_pc # "exit" /\ next_sequence' = next_sequence
  BY <1>1 DEF DrainAck, CanDrain, process_ack
<1>2. ASSUME NEW ack \in AckPayload, WaitAck(ack)
      PROVE  loop_pc # "exit" /\ LoopTest /\ next_sequence' = next_sequence
  BY <1>2 DEF WaitAck, process_ack
<1>3. CASE CheckTimeouts
  BY <1>0, <1>3 DEF CheckTimeouts, check_timeouts, ExitShape
<1>4. CASE SelectRetransmission
  BY <1>0, <1>4 DEF SelectRetransmission, select_retransmission, ExitShape
<1>5. CASE SelectNew
  BY <1>0, <1>5 DEF SelectNew, select_new, ExitShape
<1>6. CASE SelectNothing
  BY <1>0, <1>6 DEF SelectNothing, select_nothing, ExitShape
<1>7. CASE WaitTimesOut \/ EndIteration
  BY <1>0, <1>7 DEF WaitTimesOut, EndIteration, LoopTest, all_acked, windowVars, ExitShape
<1>8. CASE SendData
  BY <1>0, <1>8 DEF SendData, mark_sent, ExitShape
<1>9. CASE ClockTick
  BY <1>0, <1>9 DEF ClockTick, Tick, ExitShape
<1>10. CASE UNCHANGED loopVars
  BY <1>0, <1>10 DEF loopVars, windowVars, ExitShape
<1> QED
  BY <1>0, <1>1, <1>2, <1>3, <1>4, <1>5, <1>6, <1>7, <1>8, <1>9, <1>10
     DEF LoopStep, LoopTest, all_acked, ExitShape

\* process_ack marks only what a truthful payload names.
LEMMA AckMarksReceived ==
  ASSUME AckedShape, NEW ack, Truthful(ack, received), process_ack(ack), UNCHANGED received
  PROVE  AckedShape'
<1>1. state' = StateAfterAck(NewlyAcked(ack))
  BY DEF process_ack
<1>2. NewlyAcked(ack) \subseteq received
  BY DEF NewlyAcked, PrefixAcked, SackAcked, Truthful
<1> QED
  BY <1>1, <1>2 DEF AckedShape, StateAfterAck

\* No other step of the loop marks anything acknowledged.
LEMMA OtherStepsMarkNothing ==
  ASSUME IInv, AckedShape, UNCHANGED received,
         \/ CheckTimeouts
         \/ SelectRetransmission
         \/ SelectNew
         \/ SelectNothing
         \/ WaitTimesOut
         \/ SendData
         \/ EndIteration
         \/ ClockTick
         \/ UNCHANGED loopVars
  PROVE  AckedShape'
<1>1. CASE SendData
  <2>1. state' = [state EXCEPT ![decision.sequence] = "IN_FLIGHT"] /\ state \in [Chunks -> PacketState]
    BY <1>1 DEF SendData, mark_sent, IInv, LoopStateOK, SenderTypeOK
  <2> QED
    BY <2>1 DEF AckedShape
<1>2. CASE ~SendData
  <2>1. state' = state
    BY <1>2 DEF CheckTimeouts, check_timeouts, SelectRetransmission, select_retransmission,
                SelectNew, select_new, SelectNothing, select_nothing, WaitTimesOut,
                EndIteration, ClockTick, Tick, loopVars, windowVars
  <2> QED
    BY <2>1 DEF AckedShape
<1> QED
  BY <1>1, <1>2

\* What a client step that goes on with the loop, or leaves it alone, cannot
\* disturb.
LEMMA ClientFrame ==
  ASSUME TInv, LoopStep, UNCHANGED <<serverVars, to_client>>
  PROVE  /\ IInv' /\ SenderTypeOK' /\ LoopTypeOK' /\ ExitShape'
         /\ ServerTypeOK' /\ TrackerExact' /\ ServerShape' /\ ToClientShape'
         /\ \A m \in to_server :
              \/ m = Start
              \/ m = Complete /\ loop_pc' = "exit"
              \/ \E s \in Chunks, r \in BOOLEAN : m = Data(s, r) /\ s < next_sequence'
<1>1. IInv' /\ SenderTypeOK' /\ LoopTypeOK'
  BY LoopStepKeepsIInv DEF TInv, IInv, LoopStateOK
<1>2. /\ ExitShape'
      /\ next_sequence <= next_sequence'
      /\ loop_pc = "exit" => loop_pc' = "exit"
  BY <1>1, LoopStepFacts DEF TInv
<1>3. next_sequence \in Int /\ next_sequence' \in Int
  BY <1>1, CommonAssumption DEF TInv, IInv, LoopStateOK, SenderTypeOK
<1>4. /\ UNCHANGED <<received, received_count, cumulative_ack, largest_received_plus_one>>
      /\ UNCHANGED <<server_pc, server_chunk_size, output, synced, ack_pending, packets_since_ack>>
      /\ UNCHANGED to_client
  BY DEF serverVars, trackerVars, serverStateVars
<1>5. ServerTypeOK' /\ TrackerExact'
  BY <1>4 DEF TInv, TypeOK, ServerTypeOK, TrackerTypeOK, TrackerExact
<1>6. received \subseteq Chunks
  BY DEF TInv, TypeOK, ServerTypeOK, TrackerTypeOK
<1>7. \A s \in Chunks : s < next_sequence => s < next_sequence'
  BY <1>2, <1>3, ChunksAreInts
<1>8. ServerShape'
  BY <1>2, <1>4, <1>6, <1>7 DEF TInv, ServerShape, Written
<1>9. ToClientShape'
  BY <1>4 DEF TInv, ToClientShape, TrueReply
<1> QED
  BY <1>1, <1>2, <1>5, <1>7, <1>8, <1>9 DEF TInv, ToServerShape

\* The parts of the invariant that only the client's own variables can break.
ClientPart ==
  /\ client_pc \in {"start", "start_wait", "data", "complete", "complete_wait", "done", "failed"}
  /\ attempt \in 0 .. ControlAttempts
  /\ client_error \in ClientErrors
  /\ NoSpuriousFailure
  /\ ClientShape

LEMMA ClientPartFromTInv == TInv => ClientPart
BY DEF TInv, ClientPart, TypeOK, ClientTypeOK

\* A client step keeps the invariant if it keeps the rest of it.
LEMMA ClientStepKeepsTInv ==
  ASSUME TInv, LoopStep, UNCHANGED <<serverVars, to_client>>,
         ClientPart', AckedShape', ToServerShape'
  PROVE  TInv'
BY ClientFrame DEF TInv, ClientPart, TypeOK, ClientTypeOK

\* The replies that end the two waits: no other is ever on its way.
LEMMA ReplyFacts ==
  ASSUME TInv, NEW m \in to_client
  PROVE  /\ m.type = "START_ACK" /\ m.status = "OK" => ValidWindow(m)
         /\ m.type = "COMPLETE_ACK" => m.status = "OK" /\ StatisticsMatch(m) /\ synced
         /\ m.type = "ACK" => m.ack \in AckPayload /\ Truthful(m.ack, received)
<1>1. TrueReply(m)
  BY DEF TInv, ToClientShape
<1>2. CASE m \in {StartAck("INVALID_REQUEST", 0, 0), StartAck("IO_ERROR", 0, 0)}
  BY <1>2 DEF StartAck
<1>3. CASE m = AcceptedStartAck(Start)
  <2>1. /\ m.type = "START_ACK"
        /\ m.accepted_bitmap_bits = SackCoverage
        /\ m.accepted_window_chunks = LogicalWindow
    BY <1>3, SenderAssumption, CommonAssumption DEF AcceptedStartAck, StartAck, Start
  <2> QED
    BY <2>1, SenderAssumption, CommonAssumption DEF ValidWindow
<1>4. CASE m.type = "ACK" /\ m = Ack(m.ack) /\ m.ack \in AckPayload /\ Truthful(m.ack, received)
  BY <1>4
<1>5. CASE m = FullCompleteAck /\ synced
  BY <1>5 DEF FullCompleteAck, StatisticsMatch
<1> QED
  BY <1>1, <1>2, <1>3, <1>4, <1>5 DEF TrueReply

\* The steps of the client that touch neither the window nor the network.
LEMMA ControlStepsKeepTInv ==
  ASSUME TInv, UNCHANGED serverVars,
         \/ StartTimesOut
         \/ StartGivesUp
         \/ ReceiveStartAck
         \/ LeaveLoop
         \/ CompleteTimesOut
         \/ CompleteGivesUp
         \/ ReceiveCompleteAck
         \/ ClientThrows
  PROVE  TInv'
<1>1. UNCHANGED loopVars /\ UNCHANGED networkVars
  BY DEF StartTimesOut, StartGivesUp, ReceiveStartAck, LeaveLoop, CompleteTimesOut,
         CompleteGivesUp, ReceiveCompleteAck, ClientThrows
<1>2. UNCHANGED <<next_sequence, state, loop_pc, to_server, to_client, received, synced>>
  BY <1>1 DEF loopVars, windowVars, networkVars, serverVars, trackerVars, serverStateVars
<1>3. LoopStep
  BY <1>1 DEF LoopStep
<1>4. AckedShape'
  BY <1>2 DEF TInv, AckedShape
<1>5. ToServerShape'
  BY <1>2 DEF TInv, ToServerShape
<1>6. ClientPart'
  <2> USE ClientAssumption DEF ClientPart, ClientShape, NoSpuriousFailure, ClientErrors, Fail
  <2>0. ClientPart
    BY ClientPartFromTInv
  <2>1. CASE StartTimesOut
    <3>1. attempt \in 0 .. ControlAttempts /\ attempt < ControlAttempts /\ attempt' = attempt + 1
      BY <2>0, <2>1 DEF StartTimesOut
    <3>2. attempt' \in 0 .. ControlAttempts
      BY <3>1
    <3> QED
      BY <1>2, <2>0, <2>1, <3>2 DEF StartTimesOut
  <2>2. CASE StartGivesUp
    BY <1>2, <2>0, <2>2 DEF StartGivesUp
  <2>3. CASE ReceiveStartAck
    BY <1>2, <2>0, <2>3, ReplyFacts DEF ReceiveStartAck
  <2>4. CASE LeaveLoop
    <3>1. attempt' \in 0 .. ControlAttempts
      BY <2>4 DEF LeaveLoop
    <3> QED
      BY <1>2, <2>0, <2>4, <3>1 DEF LeaveLoop
  <2>5. CASE CompleteTimesOut
    <3>1. attempt \in 0 .. ControlAttempts /\ attempt < ControlAttempts /\ attempt' = attempt + 1
      BY <2>0, <2>5 DEF CompleteTimesOut
    <3>2. attempt' \in 0 .. ControlAttempts
      BY <3>1
    <3> QED
      BY <1>2, <2>0, <2>5, <3>2 DEF CompleteTimesOut
  <2>6. CASE CompleteGivesUp
    BY <1>2, <2>0, <2>6 DEF CompleteGivesUp
  <2>7. CASE ReceiveCompleteAck
    BY <1>2, <2>0, <2>7, ReplyFacts DEF ReceiveCompleteAck
  <2>8. CASE ClientThrows
    BY <1>2, <2>0, <2>8 DEF ClientThrows
  <2> QED
    BY <2>1, <2>2, <2>3, <2>4, <2>5, <2>6, <2>7, <2>8
<1> QED
  BY <1>2, <1>3, <1>4, <1>5, <1>6, ClientStepKeepsTInv

\* The two steps that send a control datagram.
LEMMA ControlSendsKeepTInv ==
  ASSUME TInv, UNCHANGED serverVars, SendStart \/ SendComplete
  PROVE  TInv'
<1>1. UNCHANGED <<loopVars, to_client, attempt, client_error>>
  BY DEF SendStart, SendComplete
<1>2. UNCHANGED <<next_sequence, state, loop_pc, received, synced>>
  BY <1>1 DEF loopVars, windowVars, serverVars, trackerVars, serverStateVars
<1>3. LoopStep
  BY <1>1 DEF LoopStep
<1>4. AckedShape'
  BY <1>2 DEF TInv, AckedShape
<1>5. ClientPart'
  BY <1>1, <1>2, ClientPartFromTInv, ClientAssumption
     DEF ClientPart, ClientShape, NoSpuriousFailure, SendStart, SendComplete
<1>6. ToServerShape'
  <2>1. ASSUME NEW m \in to_server'
        PROVE  m \in to_server \/ m = Start \/ (m = Complete /\ loop_pc' = "exit")
    BY <1>2, PutFacts DEF TInv, ClientShape, SendStart, SendComplete
  <2> QED
    BY <1>2, <2>1 DEF TInv, ToServerShape
<1> QED
  BY <1>1, <1>3, <1>4, <1>5, <1>6, ClientStepKeepsTInv

\* The data loop.
LEMMA LoopStepsKeepTInv ==
  ASSUME TInv, UNCHANGED serverVars,
         LocalStep \/ (\E m \in to_client : ReceiveAck(m)) \/ TransmitData
  PROVE  TInv'
<1>1. /\ client_pc = "data"
      /\ UNCHANGED <<client_pc, attempt, client_error, to_client>>
  BY DEF LocalStep, ReceiveAck, TransmitData, clientStateVars, networkVars
<1>2. UNCHANGED <<received, synced>>
  BY DEF serverVars, trackerVars, serverStateVars
<1>3. LoopStep /\ AckedShape'
  <2>1. CASE LocalStep
    BY <1>2, <2>1, OtherStepsMarkNothing DEF LocalStep, LoopStep, TInv
  <2>2. ASSUME NEW m \in to_client, ReceiveAck(m) PROVE LoopStep /\ AckedShape'
    <3>1. m.ack \in AckPayload /\ Truthful(m.ack, received)
      BY <2>2, ReplyFacts DEF ReceiveAck
    <3>2. DrainAck(m.ack) \/ WaitAck(m.ack)
      BY <2>2 DEF ReceiveAck
    <3>3. LoopStep
      BY <3>1, <3>2 DEF LoopStep
    <3>4. process_ack(m.ack)
      BY <3>2 DEF DrainAck, WaitAck
    <3> QED
      BY <1>2, <3>1, <3>3, <3>4, AckMarksReceived DEF TInv
  <2>3. CASE TransmitData
    BY <1>2, <2>3, OtherStepsMarkNothing DEF TransmitData, LoopStep, TInv
  <2> QED
    BY <2>1, <2>2, <2>3
<1>4. ClientPart'
  BY <1>1, <1>2, ClientPartFromTInv DEF ClientPart, ClientShape, NoSpuriousFailure
<1>5. ToServerShape'
  <2>1. \A m \in to_server :
          \/ m = Start
          \/ m = Complete /\ loop_pc' = "exit"
          \/ \E s \in Chunks, r \in BOOLEAN : m = Data(s, r) /\ s < next_sequence'
    BY <1>1, <1>3, ClientFrame
  <2>2. CASE UNCHANGED to_server
    BY <2>1, <2>2 DEF ToServerShape
  <2>3. CASE TransmitData
    <3> DEFINE d == Data(decision.sequence, decision.retransmission)
    <3>1. /\ to_server' \in Put(to_server, d)
          /\ loop_pc = "paced"
          /\ next_sequence' = next_sequence
      BY <2>3 DEF TransmitData, SendData, mark_sent
    <3>2. /\ decision.sequence \in Chunks
          /\ decision.sequence < next_sequence
          /\ decision.retransmission \in BOOLEAN
      BY <3>1 DEF TInv, IInv, PacedShape, LoopStateOK, SenderTypeOK, SendDecision
    <3>3. ASSUME NEW m \in to_server' PROVE m = d \/ m \in to_server
      BY <3>1, PutFacts
    <3> QED
      BY <2>1, <3>1, <3>2, <3>3 DEF ToServerShape
  <2> QED
    BY <2>2, <2>3 DEF LocalStep, ReceiveAck, networkVars
<1> QED
  BY <1>1, <1>3, <1>4, <1>5, ClientStepKeepsTInv

-----------------------------------------------------------------------------
(* The server's steps. *)

\* Behind the client's loop everything has arrived, and the tracker says so.
LEMMA ExitMeansComplete ==
  ASSUME TInv, loop_pc = "exit"
  PROVE  received = Chunks /\ ReadyToComplete
<1>1. base = TotalChunks
  BY DEF TInv, ExitShape
<1>2. \A s \in Chunks : state[s] = "ACKED"
  BY <1>1, CommonAssumption DEF TInv, IInv, PrefixShape, Chunks
<1>3. received = Chunks
  BY <1>2 DEF TInv, AckedShape, TypeOK, ServerTypeOK, TrackerTypeOK
<1>4. cumulative_ack = TotalChunks
  BY <1>3, CommonAssumption
     DEF TInv, TypeOK, ServerTypeOK, TrackerTypeOK, TrackerExact, Chunks
<1>5. received_count = TotalChunks
  BY <1>3, AllChunks DEF TInv, TrackerExact
<1> QED
  BY <1>3, <1>4, <1>5 DEF ReadyToComplete, complete

\* What a server step that takes nothing back cannot disturb.
LEMMA ServerFrame ==
  ASSUME TInv, UNCHANGED <<clientVars, to_server>>,
         received \subseteq received', synced => synced'
  PROVE  /\ IInv' /\ ClientTypeOK' /\ NoSpuriousFailure' /\ ExitShape' /\ ClientShape'
         /\ AckedShape' /\ ToServerShape'
         /\ \A m \in to_client : TrueReply(m)'
<1>1. /\ UNCHANGED loopVars
      /\ UNCHANGED <<client_pc, attempt, client_error>>
      /\ UNCHANGED <<base, next_sequence, state, loop_pc, to_server>>
  BY DEF clientVars, clientStateVars, loopVars, windowVars
<1>2. IInv'
  BY <1>1, LoopStepKeepsIInv DEF TInv, LoopStep
<1>3. ClientTypeOK' /\ NoSpuriousFailure' /\ ExitShape' /\ ClientShape'
  BY <1>1, <1>2 DEF TInv, IInv, LoopStateOK, TypeOK, ClientTypeOK, NoSpuriousFailure,
                    ExitShape, ClientShape
<1>4. AckedShape' /\ ToServerShape'
  BY <1>1 DEF TInv, AckedShape, ToServerShape
<1>5. ASSUME NEW m \in to_client PROVE TrueReply(m)'
  BY DEF TInv, ToClientShape, TrueReply, Truthful
<1> QED
  BY <1>2, <1>3, <1>4, <1>5

\* A server step keeps the invariant if it keeps the server's own part of it
\* and its reply, if it sends one, is true.
LEMMA ServerStepKeepsTInv ==
  ASSUME TInv, UNCHANGED <<clientVars, to_server>>,
         received \subseteq received', synced => synced',
         ServerTypeOK', TrackerExact', ServerShape',
         UNCHANGED to_client \/ \E r : TrueReply(r)' /\ to_client' \in Put(to_client, r)
  PROVE  TInv'
<1>1. ToClientShape'
  <2> SUFFICES ASSUME NEW m \in to_client' PROVE TrueReply(m)'
    BY DEF ToClientShape
  <2>1. CASE m \in to_client
    BY <2>1, ServerFrame
  <2>2. CASE m \notin to_client
    BY <2>2, PutFacts
  <2> QED
    BY <2>1, <2>2
<1> QED
  BY <1>1, ServerFrame DEF TInv, TypeOK

\* What the server finds in a datagram, by its type.
LEMMA RequestFacts ==
  ASSUME TInv, NEW m \in to_server
  PROVE  /\ m.type = "START" => m = Start
         /\ m.type = "COMPLETE" => loop_pc = "exit"
         /\ m.type = "DATA" => \E s \in Chunks, r \in BOOLEAN : m = Data(s, r) /\ s < next_sequence
<1>1. CASE m = Start
  BY <1>1 DEF Start
<1>2. CASE m = Complete /\ loop_pc = "exit"
  BY <1>2 DEF Complete
<1>3. CASE \E s \in Chunks, r \in BOOLEAN : m = Data(s, r) /\ s < next_sequence
  <2>1. m.type = "DATA"
    BY <1>3 DEF Data
  <2> QED
    BY <1>3, <2>1
<1> QED
  BY <1>1, <1>2, <1>3 DEF TInv, ToServerShape

\* The three replies to a START are always true.
LEMMA StartRepliesAreTrue ==
  /\ TrueReply(StartAck("INVALID_REQUEST", 0, 0))'
  /\ TrueReply(StartAck("IO_ERROR", 0, 0))'
  /\ TrueReply(AcceptedStartAck(Start))'
BY DEF TrueReply

\* The handshake.
LEMMA HandshakeKeepsTInv ==
  ASSUME TInv, UNCHANGED clientVars,
         RefuseStart \/ AcceptStart \/ CreateFails \/ RepeatStartAck
  PROVE  TInv'
<1>0. UNCHANGED <<next_sequence, loop_pc>>
  BY DEF clientVars, loopVars, windowVars
<1>1. /\ ServerTypeOK /\ TrackerExact /\ ServerShape
      /\ Filled(NoByte) \in OutputFile /\ Filled(0) \in OutputFile
  BY DEF TInv, TypeOK, Filled, OutputFile, NoByte
<1>2. CASE RefuseStart \/ RepeatStartAck
  <2>1. UNCHANGED <<serverVars, to_server>>
    BY <1>2 DEF RefuseStart, RepeatStartAck
  <2>2. /\ UNCHANGED <<received, received_count, cumulative_ack, largest_received_plus_one>>
        /\ UNCHANGED <<server_pc, server_chunk_size, output, synced, ack_pending,
                       packets_since_ack>>
    BY <2>1 DEF serverVars, trackerVars, serverStateVars
  <2>3. ServerTypeOK' /\ TrackerExact' /\ ServerShape'
    BY <1>0, <1>1, <2>2 DEF ServerTypeOK, TrackerTypeOK, TrackerExact, ServerShape, Written
  <2>4. \E r : TrueReply(r)' /\ to_client' \in Put(to_client, r)
    BY <1>2, RequestFacts, StartRepliesAreTrue DEF RefuseStart, RepeatStartAck
  <2> QED
    BY <2>1, <2>2, <2>3, <2>4, ServerStepKeepsTInv
<1>3. CASE AcceptStart \/ CreateFails
  <2>1. /\ UNCHANGED <<received, received_count, cumulative_ack, largest_received_plus_one>>
        /\ UNCHANGED <<server_chunk_size, synced, ack_pending, packets_since_ack, to_server>>
        /\ server_pc = "listen"
        /\ server_pc' = "data" \/ server_pc' = "failed"
        /\ output' \in {output, Filled(NoByte), Filled(0)}
    BY <1>3 DEF AcceptStart, CreateFails, trackerVars
  <2>2. PICK m \in to_server : m.type = "START" /\ ValidStart(m)
    BY <1>3 DEF AcceptStart, CreateFails
  <2>3. server_chunk_size = ChunkSize
    BY <2>2, RequestFacts DEF ValidStart, Start
  <2>4. received = {} /\ ~synced
    BY <1>1, <2>1 DEF ServerShape
  <2>5. ServerTypeOK'
    BY <1>1, <2>1 DEF ServerTypeOK, TrackerTypeOK
  <2>6. TrackerExact' /\ ServerShape'
    BY <1>1, <2>1, <2>3, <2>4 DEF TrackerExact, ServerShape
  <2>7. \E r : TrueReply(r)' /\ to_client' \in Put(to_client, r)
    BY <1>3, RequestFacts, StartRepliesAreTrue DEF AcceptStart, CreateFails
  <2> QED
    BY <2>1, <2>5, <2>6, <2>7, ServerStepKeepsTInv
<1> QED
  BY <1>2, <1>3

\* An ACK made from the tracker after the step is true after the step.
LEMMA AckIsTrue ==
  ASSUME TrackerTypeOK', TrackerExact', NEW m,
         m = Ack(make_ack_snapshot(received', cumulative_ack', largest_received_plus_one'))
  PROVE  TrueReply(m)'
<1>1. /\ received' \in SUBSET Chunks
      /\ 0 .. cumulative_ack' - 1 \subseteq received'
  BY DEF TrackerTypeOK, TrackerExact
<1>2. cumulative_ack' \in Nat /\ largest_received_plus_one' \in Nat
  BY CommonAssumption DEF TrackerTypeOK
<1>3. PICK ack : ack = make_ack_snapshot(received', cumulative_ack', largest_received_plus_one')
  OBVIOUS
<1>4. ack \in AckPayload /\ Truthful(ack, received')
  BY <1>1, <1>2, <1>3, SnapshotIsTruthful
<1>5. m = Ack(ack) /\ m.type = "ACK" /\ m.ack = ack
  BY <1>3 DEF Ack
<1> QED
  BY <1>4, <1>5 DEF TrueReply

\* Writing chunk s leaves the chunks received before as they were.
LEMMA WriteFacts ==
  ASSUME TInv, NEW s \in Chunks, NEW r, output' = WriteAt(s, Data(s, r).payload),
         UNCHANGED next_sequence
  PROVE  /\ output' \in OutputFile
         /\ Written(s)'
         /\ \A t \in received : Written(t)'
<1>1. output' = [i \in Offsets |-> IF i \div ChunkSize = s THEN Source[i + 1] ELSE output[i]]
  BY DataLands
<1>2. output \in OutputFile
  BY DEF TInv, TypeOK, ServerTypeOK
<1>3. \A i \in Offsets : Source[i + 1] \in Nat
  BY InputFileAssumption DEF Offsets, FileSize
<1>4. output' \in OutputFile
  BY <1>1, <1>2, <1>3 DEF OutputFile
<1>5. \A t \in received : Written(t)
  BY DEF TInv, ServerShape
<1> QED
  BY <1>1, <1>4, <1>5 DEF Written

LEMMA DataKeepsTInv ==
  ASSUME TInv, UNCHANGED clientVars, NEW m \in to_server, ReceiveData(m)
  PROVE  TInv'
<1>0. UNCHANGED <<next_sequence, loop_pc>>
  BY DEF clientVars, loopVars, windowVars
<1>1. PICK s \in Chunks, r \in BOOLEAN : m = Data(s, r) /\ s < next_sequence
  BY RequestFacts DEF ReceiveData
<1>2. m.number = s /\ m.payload = Data(s, r).payload
  BY <1>1 DEF Data
<1>3. /\ server_pc = "data"
      /\ UNCHANGED <<server_pc, server_chunk_size, synced, to_server>>
  BY DEF ReceiveData
<1>4. /\ ServerTypeOK /\ TrackerTypeOK /\ TrackerExact /\ ServerShape
  BY DEF TInv, TypeOK, ServerTypeOK
<1>5. /\ TrackerTypeOK' /\ TrackerExact'
      /\ received \subseteq received' /\ received' \subseteq received \cup {s}
      /\ output' \in OutputFile
      /\ \A t \in received' : Written(t)'
  <2>1. CASE has_received(s)
    <3>1. UNCHANGED <<output, received, received_count, cumulative_ack,
                      largest_received_plus_one>>
      BY <1>2, <2>1 DEF ReceiveData, trackerVars
    <3> QED
      BY <1>4, <3>1 DEF ServerTypeOK, TrackerTypeOK, TrackerExact, ServerShape, Written
  <2>2. CASE ~has_received(s)
    <3>1. output' = WriteAt(s, Data(s, r).payload) /\ mark_received(s)
      BY <1>2, <2>2 DEF ReceiveData
    <3>2. TrackerTypeOK' /\ TrackerExact' /\ received' = received \cup {s}
      BY <1>4, <3>1, MarkKeepsTracker
    <3>3. output' \in OutputFile /\ Written(s)' /\ \A t \in received : Written(t)'
      BY <1>0, <3>1, WriteFacts
    <3> QED
      BY <3>2, <3>3
  <2> QED
    BY <2>1, <2>2
<1>6. ServerShape'
  BY <1>0, <1>1, <1>3, <1>4, <1>5 DEF ServerShape
<1>12. PICK ack :
        ack = Ack(make_ack_snapshot(received', cumulative_ack', largest_received_plus_one'))
  OBVIOUS
<1> DEFINE count == packets_since_ack + 1
<1>7. \/ to_client' \in Put(to_client, ack) /\ ack_pending' = FALSE /\ packets_since_ack' = 0
      \/ ~(count >= AckPacketThreshold) /\ AckWithheld(count)
  BY <1>12 DEF ReceiveData, AckSent, should_send_ack
<1>8. ack_pending' \in BOOLEAN /\ packets_since_ack' \in 0 .. AckPacketThreshold
  <2>1. packets_since_ack \in 0 .. AckPacketThreshold /\ AckPacketThreshold \in Nat \ {0}
    BY <1>4, ServerAssumption DEF ServerTypeOK
  <2>2. packets_since_ack' = 0 \/ (~(count >= AckPacketThreshold) /\ packets_since_ack' = count)
    BY <1>7 DEF AckWithheld
  <2>3. packets_since_ack' \in 0 .. AckPacketThreshold
    BY <2>1, <2>2
  <2> QED
    BY <1>7, <2>3 DEF AckWithheld
<1>9. ServerTypeOK'
  BY <1>3, <1>4, <1>5, <1>8 DEF ServerTypeOK
<1>10. TrueReply(ack)'
  BY <1>5, <1>12, AckIsTrue
<1>11. UNCHANGED to_client \/ \E x : TrueReply(x)' /\ to_client' \in Put(to_client, x)
  BY <1>7, <1>10 DEF AckWithheld
<1> QED
  BY <1>3, <1>5, <1>6, <1>9, <1>11, ServerStepKeepsTInv

\* Completion, TIME_WAIT and the server's end.
LEMMA CompletionKeepsTInv ==
  ASSUME TInv, UNCHANGED clientVars,
         ReceiveComplete \/ SyncFails \/ RepeatCompleteAck \/ TimeWaitExpires \/ ServerThrows
  PROVE  TInv'
<1>0. UNCHANGED <<next_sequence, loop_pc>>
  BY DEF clientVars, loopVars, windowVars
<1>1. /\ ServerTypeOK /\ TrackerTypeOK /\ TrackerExact /\ ServerShape
  BY DEF TInv, TypeOK, ServerTypeOK
<1>2. /\ UNCHANGED <<received, received_count, cumulative_ack, largest_received_plus_one>>
      /\ UNCHANGED <<server_chunk_size, output, ack_pending, packets_since_ack, to_server>>
  BY DEF ReceiveComplete, SyncFails, RepeatCompleteAck, TimeWaitExpires, ServerThrows,
         serverVars, serverStateVars, trackerVars, networkVars
<1>3. TrackerTypeOK' /\ TrackerExact'
  BY <1>1, <1>2 DEF TrackerTypeOK, TrackerExact
<1>4. \A s \in received' : s < next_sequence' /\ Written(s)'
  BY <1>0, <1>1, <1>2 DEF ServerShape, Written
<1>5. CASE ReceiveComplete
  <2>1. loop_pc = "exit" /\ received_count = TotalChunks
    BY <1>5, RequestFacts, ExitMeansComplete DEF ReceiveComplete, ReadyToComplete, complete
  <2>2. /\ synced' = TRUE /\ server_pc' = "timewait"
        /\ to_client' \in Put(to_client, CompleteAck)
    BY <1>5, <2>1, ExitMeansComplete DEF ReceiveComplete
  <2>3. ServerTypeOK' /\ ServerShape'
    BY <1>0, <1>1, <1>2, <1>3, <1>4, <2>1, <2>2 DEF ServerTypeOK, ServerShape
  <2>4. TrueReply(FullCompleteAck)' /\ CompleteAck = FullCompleteAck
    BY <2>1, <2>2 DEF TrueReply, CompleteAck, FullCompleteAck
  <2> QED
    BY <1>2, <1>3, <2>2, <2>3, <2>4, ServerStepKeepsTInv
<1>6. CASE RepeatCompleteAck
  <2>1. server_pc = "timewait" /\ UNCHANGED <<server_pc, synced>>
        /\ to_client' \in Put(to_client, CompleteAck)
    BY <1>6 DEF RepeatCompleteAck, serverVars, serverStateVars
  <2>2. synced /\ loop_pc = "exit" /\ received_count = TotalChunks
    BY <1>1, <2>1, ExitMeansComplete DEF ServerShape, ReadyToComplete, complete
  <2>3. ServerTypeOK' /\ ServerShape'
    BY <1>0, <1>1, <1>2, <1>3, <1>4, <2>1 DEF ServerTypeOK, ServerShape
  <2>4. TrueReply(FullCompleteAck)' /\ CompleteAck = FullCompleteAck
    BY <2>1, <2>2 DEF TrueReply, CompleteAck, FullCompleteAck
  <2> QED
    BY <1>2, <1>3, <2>1, <2>3, <2>4, ServerStepKeepsTInv
<1>7. CASE SyncFails \/ TimeWaitExpires \/ ServerThrows
  <2>1. /\ UNCHANGED <<synced, to_client>>
        /\ server_pc' = "failed" \/ (server_pc = "timewait" /\ server_pc' = "exited")
    BY <1>7 DEF SyncFails, TimeWaitExpires, ServerThrows, networkVars
  <2>2. ServerTypeOK' /\ ServerShape'
    BY <1>0, <1>1, <1>2, <1>3, <1>4, <2>1 DEF ServerTypeOK, ServerShape
  <2> QED
    BY <1>2, <1>3, <2>1, <2>2, ServerStepKeepsTInv
<1> QED
  BY <1>5, <1>6, <1>7

-----------------------------------------------------------------------------
(* The invariant is inductive. *)

LEMMA InitTInv == Init => TInv
<1> SUFFICES ASSUME Init PROVE TInv
  OBVIOUS
<1>1. IInv /\ SenderTypeOK /\ LoopTypeOK
  BY InitIInv DEF Init, ClientInit, IInv, LoopStateOK
<1>2. TypeOK
  <2>1. ClientTypeOK
    BY <1>1, ClientAssumption DEF Init, ClientInit, ClientTypeOK, ClientErrors
  <2>2. TrackerTypeOK
    BY CommonAssumption DEF Init, ServerInit, TrackerInit, TrackerTypeOK
  <2>3. output \in OutputFile /\ packets_since_ack \in 0 .. AckPacketThreshold
    BY ServerAssumption DEF Init, ServerInit, OutputFile, Filled
  <2>4. ServerTypeOK
    BY <2>2, <2>3 DEF Init, ServerInit, ServerTypeOK
  <2> QED
    BY <2>1, <2>4 DEF TypeOK
<1>3. NoSpuriousFailure /\ ExitShape /\ ClientShape
  BY DEF Init, ClientInit, LoopInit, SenderInit, all_acked, NoSpuriousFailure, ExitShape,
         ClientShape
<1>4. TrackerExact
  BY FS_EmptySet DEF Init, ServerInit, TrackerInit, TrackerExact
<1>5. ServerShape
  BY DEF Init, ServerInit, TrackerInit, ServerShape
<1>6. AckedShape
  BY DEF Init, ClientInit, LoopInit, SenderInit, AckedShape
<1>7. ToServerShape /\ ToClientShape
  BY DEF Init, NetworkInit, ToServerShape, ToClientShape
<1> QED
  BY <1>1, <1>2, <1>3, <1>4, <1>5, <1>6, <1>7 DEF TInv

LEMMA NextTInv == TInv /\ [Next]_vars => TInv'
<1> SUFFICES ASSUME TInv, [Next]_vars PROVE TInv'
  OBVIOUS
<1>1. CASE ClientNext /\ UNCHANGED serverVars
  BY <1>1, ControlStepsKeepTInv, ControlSendsKeepTInv, LoopStepsKeepTInv DEF ClientNext
<1>2. CASE ServerNext /\ UNCHANGED clientVars
  BY <1>2, HandshakeKeepsTInv, DataKeepsTInv, CompletionKeepsTInv DEF ServerNext
<1>3. CASE UNCHANGED vars
  <2>1. /\ UNCHANGED <<clientVars, serverVars, to_server, to_client>>
        /\ UNCHANGED loopVars
        /\ UNCHANGED <<client_pc, attempt, client_error, state, received, synced, next_sequence,
                       loop_pc>>
    BY <1>3 DEF vars, clientVars, clientStateVars, loopVars, windowVars, networkVars,
                serverVars, serverStateVars, trackerVars
  <2>2. ClientPart' /\ AckedShape' /\ ToServerShape'
    BY <2>1, ClientPartFromTInv
       DEF TInv, ClientPart, ClientShape, NoSpuriousFailure, AckedShape, ToServerShape
  <2> QED
    BY <2>1, <2>2, ClientStepKeepsTInv DEF LoopStep
<1> QED
  BY <1>1, <1>2, <1>3 DEF Next

-----------------------------------------------------------------------------
(* What it says of the properties that the runs check. *)

\* A complete set of chunks is the whole file.
LEMMA AllReceivedIsSource ==
  ASSUME TInv, received = Chunks PROVE OutputIsSource
<1>1. output \in OutputFile
  BY DEF TInv, TypeOK, ServerTypeOK
<1>2. ASSUME NEW i \in Offsets PROVE output[i] = Source[i + 1]
  BY ChunksCoverFile DEF TInv, ServerShape, Written
<1> QED
  BY <1>1, <1>2 DEF OutputFile, OutputIsSource

\* The flushed file is the source, and the client's loop is over.
LEMMA SyncedFacts == TInv /\ synced => OutputIsSource /\ loop_pc = "exit"
<1> SUFFICES ASSUME TInv, synced PROVE OutputIsSource /\ loop_pc = "exit"
  OBVIOUS
<1>1. loop_pc = "exit"
  BY DEF TInv, ServerShape
<1> QED
  BY <1>1, ExitMeansComplete, AllReceivedIsSource

\* Everything that arrived is within the bitmap of the next ACK: the client
\* selects at most SackCoverage chunks from base_ on, and base_ cannot have
\* overtaken cumulative_ack_.
LEMMA CoverageFacts == TInv => SackCoversReceived
<1> SUFFICES ASSUME TInv PROVE SackCoversReceived
  OBVIOUS
<1>1. /\ base \in 0 .. TotalChunks /\ next_sequence \in 0 .. TotalChunks
      /\ next_sequence <= base + SackCoverage
      /\ \A s \in Chunks : s < base => s \in received
  BY DEF TInv, IInv, LoopStateOK, SenderTypeOK, CountShape, PrefixShape, AckedShape
<1>2. /\ cumulative_ack \in 0 .. TotalChunks
      /\ largest_received_plus_one \in 0 .. TotalChunks
      /\ cumulative_ack = TotalChunks \/ cumulative_ack \notin received
      /\ largest_received_plus_one > 0 => largest_received_plus_one - 1 \in received
  BY DEF TInv, TypeOK, ServerTypeOK, TrackerTypeOK, TrackerExact
<1>3. base <= cumulative_ack
  BY <1>1, <1>2, CommonAssumption DEF Chunks
<1>4. largest_received_plus_one > 0 => largest_received_plus_one - 1 < next_sequence
  BY <1>2 DEF TInv, ServerShape
<1> QED
  BY <1>1, <1>2, <1>3, <1>4, CommonAssumption DEF SackCoversReceived

LEMMA TInvImplies ==
  TInv => /\ TypeOK
          /\ TrackerExact
          /\ AckedIsWritten
          /\ SackCoversReceived
          /\ CompleteIsNeverEarly
          /\ SuccessMeansFile
          /\ ServerSuccessMeansFile
          /\ NoSpuriousFailure
          /\ RefusalIsClean
<1> SUFFICES ASSUME TInv
             PROVE  /\ TypeOK
                    /\ TrackerExact
                    /\ AckedIsWritten
                    /\ SackCoversReceived
                    /\ CompleteIsNeverEarly
                    /\ SuccessMeansFile
                    /\ ServerSuccessMeansFile
                    /\ NoSpuriousFailure
                    /\ RefusalIsClean
  OBVIOUS
<1>1. TypeOK /\ TrackerExact /\ NoSpuriousFailure
  BY DEF TInv
<1>2. AckedIsWritten
  BY DEF TInv, AckedShape, ServerShape, AckedIsWritten
<1>3. CompleteIsNeverEarly
  BY RequestFacts, ExitMeansComplete DEF CompleteIsNeverEarly
<1>4. SuccessMeansFile /\ ServerSuccessMeansFile
  BY SyncedFacts DEF TInv, ClientShape, ServerShape, SuccessMeansFile, ServerSuccessMeansFile
<1>5. RefusalIsClean
  <2>1. ASSUME next_sequence = 0 PROVE received = {}
    <3>1. \A s \in received : s \in Chunks /\ s < 0
      BY <2>1 DEF TInv, TypeOK, ServerTypeOK, TrackerTypeOK, ServerShape
    <3> QED
      BY <3>1, CommonAssumption DEF Chunks
  <2> QED
    BY <2>1 DEF TInv, ClientShape, ServerShape, RefusalIsClean
<1> QED
  BY <1>1, <1>2, <1>3, <1>4, <1>5, CoverageFacts

\* Every reachable state of the transfer satisfies the inductive invariant;
\* with it the sender's own (WindowProofs) holds for the client of the whole
\* transfer as well.
THEOREM TransferInvariant == Spec => []TInv
BY InitTInv, NextTInv, PTL DEF Spec

\* Every variable of both endpoints keeps its type.
THEOREM TransferTypeCorrect == Spec => []TypeOK
BY TransferInvariant, TInvImplies, PTL

\* The tracker's counters are those of the set of chunks received
\* (reliability.cpp:225-237).
THEOREM TrackerIsExact == Spec => []TrackerExact
BY TransferInvariant, TInvImplies, PTL

\* An acknowledged chunk is in the server's file (reliability.cpp:114-139).
THEOREM AckedChunksAreWritten == Spec => []AckedIsWritten
BY TransferInvariant, TInvImplies, PTL

\* No chunk that arrived is out of the bitmap's reach (reliability.cpp:263-269).
THEOREM SackReachesAll == Spec => []SackCoversReceived
BY TransferInvariant, TInvImplies, PTL

\* COMPLETE is on the wire only when everything has arrived (server.cpp:400).
THEOREM CompleteIsTimely == Spec => []CompleteIsNeverEarly
BY TransferInvariant, TInvImplies, PTL

\* Exit code 0 of the client means that the server's file is the source.
THEOREM ClientSuccess == Spec => []SuccessMeansFile
BY TransferInvariant, TInvImplies, PTL

\* Exit code 0 of the server means so too, and that the client's loop is over.
THEOREM ServerSuccess == Spec => []ServerSuccessMeansFile
BY TransferInvariant, TInvImplies, PTL

\* The client never fails over an accepted window or over statistics.
THEOREM FailuresAreGenuine == Spec => []NoSpuriousFailure
BY TransferInvariant, TInvImplies, PTL

\* A refused or unanswered client has left nothing behind.
THEOREM RefusalsAreClean == Spec => []RefusalIsClean
BY TransferInvariant, TInvImplies, PTL

-----------------------------------------------------------------------------
(* The sender within the transfer: what SenderProofs shows of the loop alone   *)
(* holds of the client, because every ACK that reaches it has the format.      *)

\* Whoever moves, the window and the loop make a step of the loop or none.
LEMMA NextIsLoopStep == TInv /\ [Next]_vars => LoopStep
<1> SUFFICES ASSUME TInv, [Next]_vars PROVE LoopStep
  OBVIOUS
<1>1. CASE \/ SendStart \/ StartTimesOut \/ StartGivesUp \/ ReceiveStartAck \/ LeaveLoop
           \/ SendComplete \/ CompleteTimesOut \/ CompleteGivesUp \/ ReceiveCompleteAck
           \/ ClientThrows
  BY <1>1 DEF SendStart, StartTimesOut, StartGivesUp, ReceiveStartAck, LeaveLoop, SendComplete,
    CompleteTimesOut, CompleteGivesUp, ReceiveCompleteAck, ClientThrows, LoopStep
<1>2. CASE LocalStep \/ TransmitData
  BY <1>2 DEF LocalStep, TransmitData, LoopStep
<1>3. ASSUME NEW m \in to_client, ReceiveAck(m) PROVE LoopStep
  <2>1. m.ack \in AckPayload
    BY <1>3, ReplyFacts DEF ReceiveAck
  <2> QED
    BY <1>3, <2>1 DEF ReceiveAck, LoopStep
<1>4. CASE UNCHANGED clientVars
  BY <1>4 DEF clientVars, LoopStep
<1>5. CASE UNCHANGED vars
  BY <1>5 DEF vars, clientVars, LoopStep
<1> QED
  BY <1>1, <1>2, <1>3, <1>4, <1>5 DEF Next, ClientNext

\* The client of every reachable state satisfies the sender's stronger invariant.
LEMMA ClientEInv == Spec => []EInv
<1>1. Init => EInv
  BY InitEInv DEF Init, ClientInit
<1>2. TInv /\ EInv /\ [Next]_vars => EInv'
  BY NextIsLoopStep, LoopStepKeepsEInv
<1> QED
  BY <1>1, <1>2, TransferInvariant, PTL DEF Spec

\* The sender's invariants hold of the client in every state of the transfer,
\* with losses, copies, retried handshakes and exceptions on both sides:
\* the counter is exact (reliability.cpp:73), the window and the bitmap are never
\* exceeded (reliability.cpp:37), the queue and its flags agree and name no chunk
\* twice (reliability.cpp:88), mark_sent does not throw (reliability.cpp:66), and
\* the evidence for fast retransmission is exact and never missed
\* (reliability.cpp:143-163).
THEOREM SenderWithinTransfer ==
  Spec => [](/\ OutstandingExact
             /\ WindowBounds
             /\ PendingIsQueued
             /\ QueuedOnce
             /\ MarkSentNeverThrows
             /\ EvidenceExact
             /\ FastRetransmitPrompt)
<1>1. EInv => /\ OutstandingExact
              /\ WindowBounds
              /\ PendingIsQueued
              /\ QueuedOnce
              /\ MarkSentNeverThrows
              /\ EvidenceExact
              /\ FastRetransmitPrompt
  BY IInvImplies DEF EInv
<1> QED
  BY <1>1, ClientEInv, PTL

\* No ACK of the server that repeats what the client knows makes the client
\* retransmit (reliability.cpp:159), however often the network delivers it.
THEOREM StaleAcksAreSilent == Spec => DuplicateAckIsSilent
<1>1. TInv /\ EInv /\ [Next]_vars => [MarkedForCause]_loopVars
  BY NextIsLoopStep, LoopStepMarksForCause
<1>2. Spec => [][MarkedForCause]_loopVars
  BY <1>1, ClientEInv, TransferInvariant, PTL DEF Spec
<1> QED
  BY <1>2 DEF DuplicateAckIsSilent

\* The client's progress is never undone (client.cpp:501), whatever either side
\* or the network does.
THEOREM ClientProgress == Spec => ProgressIsKept
<1>1. TInv /\ [Next]_vars => [ProgressStep]_loopVars
  BY NextIsLoopStep, LoopStepKeepsProgress DEF TInv
<1>2. Spec => [][ProgressStep]_loopVars
  BY <1>1, TransferInvariant, PTL DEF Spec
<1> QED
  BY <1>2 DEF ProgressIsKept

-----------------------------------------------------------------------------
(* The transfer implements FileTransfer: every step is a step of Promise, or  *)
(* changes nothing that Promise sees.                                         *)

\* What Promise sees of the two endpoints.
Receiver ==
  CASE server_pc = "listen" -> "waiting"
    [] server_pc = "data" -> "receiving"
    [] server_pc \in {"timewait", "exited"} -> "committed"
    [] server_pc = "failed" -> IF synced THEN "committed" ELSE "failed"

Sender ==
  CASE client_pc = "done" -> "succeeded"
    [] client_pc = "failed" -> "failed"
    [] OTHER -> "working"

LEMMA ReceiverFacts ==
  ASSUME TInv
  PROVE  /\ server_pc = "listen" => Receiver = "waiting"
         /\ server_pc = "data" => Receiver = "receiving"
         /\ synced => Receiver = "committed"
         /\ server_pc = "failed" /\ ~synced => Receiver = "failed"
BY DEF TInv, TypeOK, ServerTypeOK, ServerShape, Receiver

LEMMA PromiseInit == Init => Promise!Init
BY DEF Init, ServerInit, ClientInit, Promise!Init, Promise!Places, Filled, Offsets, FileSize

\* The steps of Promise in the variables of the transfer.
LEMMA PromiseSteps ==
  /\ (Receiver = "waiting" /\ Receiver' = "receiving"
      /\ output' = Filled(0) /\ Sender' = Sender)
     => Promise!Create
  /\ (Receiver = "waiting" /\ Receiver' = "failed"
      /\ output' \in {output, Filled(NoByte), Filled(0)} /\ Sender' = Sender)
     => Promise!CreateFails
  /\ (Receiver = "receiving" /\ Receiver' = Receiver
      /\ (\E S \in SUBSET Offsets :
            output' = [i \in Offsets |-> IF i \in S THEN Source[i + 1] ELSE output[i]])
      /\ Sender' = Sender)
     => Promise!Write
  /\ (Receiver = "receiving" /\ Receiver' = "committed"
      /\ OutputIsSource /\ output' = output /\ Sender' = Sender)
     => Promise!Commit
  /\ (Receiver \in {"waiting", "receiving"} /\ Receiver' = "failed"
      /\ output' = output /\ Sender' = Sender)
     => Promise!ReceiverFails
  /\ (Sender = "working" /\ Sender' = "succeeded"
      /\ Receiver = "committed" /\ output' = output /\ Receiver' = Receiver)
     => Promise!SenderSucceeds
  /\ (Sender = "working" /\ Sender' = "failed"
      /\ output' = output /\ Receiver' = Receiver)
     => Promise!SenderFails
  /\ (output' = output /\ Receiver' = Receiver /\ Sender' = Sender)
     => UNCHANGED Promise!vars
<1> USE DEF Receiver, Sender, Filled, Offsets, FileSize, Promise!Places
<1>1. (Receiver = "waiting" /\ Receiver' = "receiving"
      /\ output' = Filled(0) /\ Sender' = Sender)
     => Promise!Create
  BY DEF Promise!Create
<1>2. (Receiver = "waiting" /\ Receiver' = "failed"
      /\ output' \in {output, Filled(NoByte), Filled(0)} /\ Sender' = Sender)
     => Promise!CreateFails
  BY DEF Promise!CreateFails
<1>3. (Receiver = "receiving" /\ Receiver' = Receiver
      /\ (\E S \in SUBSET Offsets :
            output' = [i \in Offsets |-> IF i \in S THEN Source[i + 1] ELSE output[i]])
      /\ Sender' = Sender)
     => Promise!Write
  BY DEF Promise!Write
<1>4. (Receiver = "receiving" /\ Receiver' = "committed"
      /\ OutputIsSource /\ output' = output /\ Sender' = Sender)
     => Promise!Commit
  BY DEF Promise!Commit, Promise!Whole, OutputIsSource
<1>5. (Receiver \in {"waiting", "receiving"} /\ Receiver' = "failed"
      /\ output' = output /\ Sender' = Sender)
     => Promise!ReceiverFails
  BY DEF Promise!ReceiverFails
<1>6. (Sender = "working" /\ Sender' = "succeeded"
      /\ Receiver = "committed" /\ output' = output /\ Receiver' = Receiver)
     => Promise!SenderSucceeds
  BY DEF Promise!SenderSucceeds
<1>7. (Sender = "working" /\ Sender' = "failed"
      /\ output' = output /\ Receiver' = Receiver)
     => Promise!SenderFails
  BY DEF Promise!SenderFails
<1>8. (output' = output /\ Receiver' = Receiver /\ Sender' = Sender)
     => UNCHANGED Promise!vars
  BY DEF Promise!vars
<1> HIDE DEF Receiver, Sender, Filled, Offsets, FileSize, Promise!Places
<1> QED
  BY <1>1, <1>2, <1>3, <1>4, <1>5, <1>6, <1>7, <1>8

\* A step of the client succeeds, fails, or shows nothing.
LEMMA ClientKeepsPromise ==
  ASSUME TInv, TInv', ClientNext, UNCHANGED serverVars
  PROVE  Promise!Next \/ UNCHANGED Promise!vars
<1>1. UNCHANGED <<output, server_pc, synced>>
  BY DEF serverVars, serverStateVars
<1>2. Receiver' = Receiver
  BY <1>1 DEF Receiver
<1>3. \/ UNCHANGED client_pc
      \/ client_pc \notin {"done", "failed"} /\ client_pc' \notin {"done", "failed"}
      \/ client_pc \notin {"done", "failed"} /\ client_pc' = "failed"
      \/ client_pc \notin {"done", "failed"} /\ client_pc' = "done"
  <2>1. CASE SendStart \/ StartTimesOut \/ StartGivesUp \/ ReceiveStartAck
    BY <2>1 DEF SendStart, StartTimesOut, StartGivesUp, ReceiveStartAck, Fail
  <2>2. CASE LocalStep \/ (\E m \in to_client : ReceiveAck(m)) \/ TransmitData
    BY <2>2 DEF LocalStep, ReceiveAck, TransmitData, clientStateVars
  <2>3. CASE LeaveLoop \/ SendComplete \/ CompleteTimesOut \/ CompleteGivesUp
    BY <2>3 DEF LeaveLoop, SendComplete, CompleteTimesOut, CompleteGivesUp, Fail
  <2>4. CASE ReceiveCompleteAck
    BY <2>4 DEF ReceiveCompleteAck, Fail
  <2>5. CASE ClientThrows
    BY <2>5 DEF ClientThrows, Fail
  <2> QED
    BY <2>1, <2>2, <2>3, <2>4, <2>5 DEF ClientNext
<1>4. CASE UNCHANGED client_pc
  <2>1. Sender' = Sender
    BY <1>4 DEF Sender
  <2> QED
    BY <1>1, <1>2, <2>1, PromiseSteps
<1>5. CASE client_pc \notin {"done", "failed"} /\ client_pc' \notin {"done", "failed"}
  <2>1. Sender' = Sender
    BY <1>5 DEF Sender
  <2> QED
    BY <1>1, <1>2, <2>1, PromiseSteps
<1>6. CASE client_pc \notin {"done", "failed"} /\ client_pc' = "failed"
  <2>1. Sender = "working" /\ Sender' = "failed"
    BY <1>6 DEF Sender
  <2> QED
    BY <1>1, <1>2, <2>1, PromiseSteps DEF Promise!Next
<1>7. CASE client_pc \notin {"done", "failed"} /\ client_pc' = "done"
  <2>1. Sender = "working" /\ Sender' = "succeeded"
    BY <1>7 DEF Sender
  <2>2. Receiver = "committed"
    BY <1>1, <1>7, ReceiverFacts DEF TInv, ClientShape
  <2> QED
    BY <1>1, <1>2, <2>1, <2>2, PromiseSteps DEF Promise!Next
<1> QED
  BY <1>3, <1>4, <1>5, <1>6, <1>7

\* A step of the server creates, writes or commits the file, fails, or shows
\* nothing.
LEMMA ServerKeepsPromise ==
  ASSUME TInv, TInv', ServerNext, UNCHANGED clientVars
  PROVE  Promise!Next \/ UNCHANGED Promise!vars
<1>1. Sender' = Sender
  BY DEF clientVars, clientStateVars, Sender
<1>2. server_pc \in {"listen", "data"} => ~synced
  BY DEF TInv, ServerShape
<1>3. CASE RefuseStart \/ RepeatStartAck \/ RepeatCompleteAck
  <2>1. UNCHANGED <<output, server_pc, synced>>
    BY <1>3 DEF RefuseStart, RepeatStartAck, RepeatCompleteAck, serverVars, serverStateVars
  <2>2. Receiver' = Receiver
    BY <2>1 DEF Receiver
  <2> QED
    BY <1>1, <2>1, <2>2, PromiseSteps
<1>4. CASE AcceptStart
  <2>1. server_pc = "listen" /\ server_pc' = "data" /\ output' = Filled(0)
    BY <1>4 DEF AcceptStart
  <2>2. Receiver = "waiting" /\ Receiver' = "receiving"
    BY <2>1 DEF Receiver
  <2> QED
    BY <1>1, <2>1, <2>2, PromiseSteps DEF Promise!Next
<1>5. CASE CreateFails
  <2>1. /\ server_pc = "listen" /\ server_pc' = "failed" /\ synced' = synced
        /\ output' \in {output, Filled(NoByte), Filled(0)}
    BY <1>5 DEF CreateFails
  <2>2. Receiver = "waiting" /\ Receiver' = "failed"
    BY <1>2, <2>1 DEF Receiver
  <2> QED
    BY <1>1, <2>1, <2>2, PromiseSteps DEF Promise!Next
<1>6. ASSUME NEW m \in to_server, ReceiveData(m)
      PROVE  Promise!Next \/ UNCHANGED Promise!vars
  <2>1. server_pc = "data" /\ server_pc' = "data" /\ synced' = synced
    BY <1>6 DEF ReceiveData
  <2>2. Receiver = "receiving" /\ Receiver' = Receiver
    BY <2>1 DEF Receiver
  <2>3. PICK s \in Chunks, r \in BOOLEAN : m = Data(s, r)
    BY <1>6, RequestFacts DEF ReceiveData
  <2>4. m.number = s /\ m.payload = Data(s, r).payload
    BY <2>3 DEF Data
  <2>5. CASE output' = output
    BY <1>1, <2>2, <2>5, PromiseSteps
  <2>6. CASE output' = WriteAt(s, Data(s, r).payload)
    <3> DEFINE S == {i \in Offsets : i \div ChunkSize = s}
    <3>1. output' = [i \in Offsets |-> IF i \in S THEN Source[i + 1] ELSE output[i]]
      BY <2>6, DataLands
    <3>2. S \in SUBSET Offsets
      OBVIOUS
    <3> HIDE DEF S
    <3> QED
      BY <1>1, <2>2, <3>1, <3>2, PromiseSteps DEF Promise!Next
  <2> QED
    BY <1>6, <2>4, <2>5, <2>6 DEF ReceiveData
<1>7. CASE ReceiveComplete
  <2>1. loop_pc = "exit" /\ server_pc = "data"
    BY <1>7, RequestFacts DEF ReceiveComplete
  <2>2. received = Chunks /\ ReadyToComplete
    BY <2>1, ExitMeansComplete
  <2>3. server_pc' = "timewait" /\ output' = output
    BY <1>7, <2>2 DEF ReceiveComplete
  <2>4. Receiver = "receiving" /\ Receiver' = "committed"
    BY <2>1, <2>3 DEF Receiver
  <2> QED
    BY <1>1, <2>2, <2>3, <2>4, AllReceivedIsSource, PromiseSteps DEF Promise!Next
<1>8. CASE SyncFails \/ ServerThrows
  <2>1. /\ server_pc \in {"listen", "data", "timewait"}
        /\ server_pc' = "failed" /\ output' = output /\ synced' = synced
    BY <1>8 DEF SyncFails, ServerThrows
  <2>2. CASE server_pc \in {"listen", "data"}
    <3>1. Receiver \in {"waiting", "receiving"} /\ Receiver' = "failed"
      BY <1>2, <2>1, <2>2 DEF Receiver
    <3> QED
      BY <1>1, <2>1, <3>1, PromiseSteps DEF Promise!Next
  <2>3. CASE server_pc = "timewait"
    <3>1. synced
      BY <2>3 DEF TInv, ServerShape
    <3>2. Receiver' = Receiver
      BY <2>1, <2>3, <3>1 DEF Receiver
    <3> QED
      BY <1>1, <2>1, <3>2, PromiseSteps
  <2> QED
    BY <2>1, <2>2, <2>3
<1>9. CASE TimeWaitExpires
  <2>1. server_pc = "timewait" /\ server_pc' = "exited" /\ output' = output
    BY <1>9 DEF TimeWaitExpires
  <2>2. Receiver' = Receiver
    BY <2>1 DEF Receiver
  <2> QED
    BY <1>1, <2>1, <2>2, PromiseSteps
<1> QED
  BY <1>3, <1>4, <1>5, <1>6, <1>7, <1>8, <1>9 DEF ServerNext

LEMMA StepKeepsPromise ==
  TInv /\ TInv' /\ [Next]_vars => [Promise!Next]_(Promise!vars)
<1> SUFFICES ASSUME TInv, TInv', [Next]_vars PROVE Promise!Next \/ UNCHANGED Promise!vars
  OBVIOUS
<1>1. CASE UNCHANGED vars
  <2>1. UNCHANGED <<output, server_pc, synced, client_pc>>
    BY <1>1 DEF vars, clientVars, clientStateVars, serverVars, serverStateVars
  <2>2. Receiver' = Receiver /\ Sender' = Sender
    BY <2>1 DEF Receiver, Sender
  <2> QED
    BY <2>1, <2>2, PromiseSteps
<1> QED
  BY <1>1, ClientKeepsPromise, ServerKeepsPromise DEF Next

\* The transfer, packets and all, implements FileTransfer: for every file and
\* every network the file is created once, its bytes only change from zero to
\* the source's, it is committed once and then left alone, and the client
\* succeeds only after that.
THEOREM TransferKeepsPromise == Spec => KeepsPromise
<1>1. Spec => Promise!Init /\ [][Promise!Next]_(Promise!vars)
  BY PromiseInit, StepKeepsPromise, TransferInvariant, PTL DEF Spec
<1> QED
  BY <1>1 DEF KeepsPromise, Promise!Spec
=============================================================================
