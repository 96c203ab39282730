-------------------------------- MODULE Server -------------------------------
(***************************************************************************)
(* The receiver: run_server and time_wait of src/server.cpp, with the      *)
(* output file of src/file_io.cpp.  server_pc is where run_server is:      *)
(*                                                                         *)
(*   "listen"    the loop that waits for a valid START                     *)
(*   "data"      the loop that takes DATA and waits for COMPLETE           *)
(*   "timewait"  time_wait, after the output was flushed                   *)
(*   "exited"    returned 0                                                *)
(*   "failed"    left by an exception                                      *)
(*                                                                         *)
(* receive_packet blocks, so the server only moves when a datagram is      *)
(* there; one iteration of its loop is one action.  There is one client    *)
(* and one session, so the tests of source and session id always succeed.  *)
(***************************************************************************)
EXTENDS ReceiverTracker, Network, InputFile

CONSTANTS
  ServerChunkSizes,    \* what chunk_size_for_mtu may be for the server's MTU
  AckPacketThreshold   \* kAckPacketThreshold (32)

ASSUME ServerAssumption ==
  /\ ServerChunkSizes \subseteq Nat \ {0}
  /\ AckPacketThreshold \in Nat \ {0}

VARIABLES
  server_pc,
  server_chunk_size,   \* chunk_size_for_mtu(options.mtu) of this server
  output,              \* the bytes of the output file by offset
  synced,              \* msync has returned for the bytes of output
  ack_pending,
  packets_since_ack

serverStateVars == <<server_pc, server_chunk_size, output, synced, ack_pending,
                     packets_since_ack>>
serverVars == <<serverStateVars, trackerVars>>

ServerTypeOK ==
  /\ TrackerTypeOK
  /\ server_pc \in {"listen", "data", "timewait", "exited", "failed"}
  /\ server_chunk_size \in ServerChunkSizes
  /\ output \in OutputFile
  /\ synced \in BOOLEAN
  /\ ack_pending \in BOOLEAN
  /\ packets_since_ack \in 0 .. AckPacketThreshold

ServerInit ==
  /\ TrackerInit
  /\ server_pc = "listen"
  /\ server_chunk_size \in ServerChunkSizes
  /\ output = Filled(OldByte)
  /\ synced = FALSE
  /\ ack_pending = FALSE
  /\ packets_since_ack = 0

-----------------------------------------------------------------------------
(* Datagrams. *)

StartAck(status, window, bits) ==
  [type |-> "START_ACK", status |-> status, accepted_window_chunks |-> window,
   accepted_bitmap_bits |-> bits]

AcceptedStartAck(start) ==
  StartAck("OK",
           IF start.window_chunks < SackCoverage THEN start.window_chunks ELSE SackCoverage,
           SackCoverage)

Ack(payload) == [type |-> "ACK", ack |-> payload]

\* Mutant: the bytes are computed from the chunks, as if none were short.
CompleteAck_WholeChunks ==
  [type |-> "COMPLETE_ACK", status |-> "OK", received_chunks |-> received_count,
   received_bytes |-> received_count * ChunkSize]

CompleteAck ==
  [type |-> "COMPLETE_ACK", status |-> "OK", received_chunks |-> received_count,
   received_bytes |-> FileSize]

\* Mutant: any chunk size will do.
ValidStart_AnyChunkSize(start) ==
  /\ start.total_chunks = chunk_count(start.file_size, start.chunk_size)
  /\ start.window_chunks > 0
  /\ start.ack_bitmap_bits = SackCoverage

\* start_packet passes the tests behind deserialize_start.
ValidStart(start) ==
  /\ start.chunk_size = server_chunk_size
  /\ start.total_chunks = chunk_count(start.file_size, start.chunk_size)
  /\ start.window_chunks > 0
  /\ start.ack_bitmap_bits = SackCoverage

-----------------------------------------------------------------------------
(* The handshake. *)

\* A START that the server refuses; it goes on listening.
RefuseStart ==
  /\ server_pc = "listen"
  /\ \E m \in to_server :
       /\ m.type = "START"
       /\ ~ValidStart(m)
       /\ to_client' \in Put(to_client, StartAck("INVALID_REQUEST", 0, 0))
  /\ UNCHANGED <<serverVars, to_server>>

\* The output file is created, truncated, extended with zeroes and mapped.
AcceptStart ==
  /\ server_pc = "listen"
  /\ \E m \in to_server :
       /\ m.type = "START"
       /\ ValidStart(m)
       /\ to_client' \in Put(to_client, AcceptedStartAck(m))
  /\ output' = Filled(0)
  /\ server_pc' = "data"
  /\ UNCHANGED <<trackerVars, server_chunk_size, synced, ack_pending, packets_since_ack,
                 to_server>>

\* Creating the output fails: before open truncated the file, after it and
\* before ftruncate extended it again, or after both (mmap).
CreateFails ==
  /\ server_pc = "listen"
  /\ \E m \in to_server : m.type = "START" /\ ValidStart(m)
  /\ to_client' \in Put(to_client, StartAck("IO_ERROR", 0, 0))
  /\ output' \in {output, Filled(NoByte), Filled(0)}
  /\ server_pc' = "failed"
  /\ UNCHANGED <<trackerVars, server_chunk_size, synced, ack_pending, packets_since_ack,
                 to_server>>

\* A START of the accepted session: its START_ACK was lost, or it is a copy.
RepeatStartAck ==
  /\ server_pc = "data"
  /\ \E m \in to_server :
       /\ m.type = "START"
       /\ to_client' \in Put(to_client, AcceptedStartAck(m))
  /\ UNCHANGED <<serverVars, to_server>>

-----------------------------------------------------------------------------
(* Data. *)

\* expected_size: every chunk but the last is full.
ExpectedSize(s) ==
  IF ChunkSize < FileSize - s * ChunkSize THEN ChunkSize ELSE FileSize - s * ChunkSize

\* Mutant: chunks are placed one byte apart from where they belong.
WriteAt_OffByOne(s, payload) ==
  [i \in Offsets |-> IF i \in s * ChunkSize + 1 .. s * ChunkSize + Len(payload)
                     THEN payload[i - s * ChunkSize] ELSE output[i]]

\* memcpy(output->data() + offset, packet.payload, expected_size).
WriteAt(s, payload) ==
  [i \in Offsets |-> IF i \in s * ChunkSize .. s * ChunkSize + Len(payload) - 1
                     THEN payload[i - s * ChunkSize + 1] ELSE output[i]]

\* `now >= next_ack_time' is a choice, but not for the packet that has just
\* set next_ack_time.
should_send_ack(duplicate, retransmitted, count) ==
  \/ duplicate
  \/ retransmitted
  \/ complete'
  \/ count >= AckPacketThreshold

\* Mutant: packets_since_ack is not reset.
AckSent_NoReset ==
  /\ to_client' \in Put(to_client, Ack(make_ack_snapshot(received', cumulative_ack',
                                                         largest_received_plus_one')))
  /\ ack_pending' = FALSE
  /\ packets_since_ack' = packets_since_ack + 1

AckSent ==
  /\ to_client' \in Put(to_client, Ack(make_ack_snapshot(received', cumulative_ack',
                                                       largest_received_plus_one')))
  /\ ack_pending' = FALSE
  /\ packets_since_ack' = 0

AckWithheld(count) ==
  /\ UNCHANGED to_client
  /\ ack_pending' = TRUE
  /\ packets_since_ack' = count

\* A DATA datagram with a chunk number and a size that fit the file.
ReceiveData(m) ==
  /\ server_pc = "data"
  /\ m.type = "DATA"
  /\ m.number < TotalChunks
  /\ Len(m.payload) = ExpectedSize(m.number)
  /\ IF has_received(m.number)
     THEN UNCHANGED <<output, trackerVars>>
     ELSE output' = WriteAt(m.number, m.payload) /\ mark_received(m.number)
  /\ LET count == packets_since_ack + 1
         must  == should_send_ack(has_received(m.number), m.retransmitted, count)
     IN \/ (must \/ ack_pending) /\ AckSent
        \/ ~must /\ AckWithheld(count)
  /\ UNCHANGED <<server_pc, server_chunk_size, synced, to_server>>

-----------------------------------------------------------------------------
(* Completion. *)

ReadyToComplete == complete /\ cumulative_ack = TotalChunks

\* COMPLETE is answered with an ACK while chunks are missing; otherwise the
\* output is flushed, COMPLETE_ACK sent and time_wait entered.
ReceiveComplete ==
  /\ server_pc = "data"
  /\ \E m \in to_server : m.type = "COMPLETE" /\ m.number = TotalChunks
  /\ IF ReadyToComplete
     THEN /\ synced' = TRUE
          /\ to_client' \in Put(to_client, CompleteAck)
          /\ server_pc' = "timewait"
     ELSE /\ to_client' \in Put(to_client, Ack(make_ack_snapshot(received, cumulative_ack,
                                                             largest_received_plus_one)))
          /\ UNCHANGED <<synced, server_pc>>
  /\ UNCHANGED <<trackerVars, server_chunk_size, output, ack_pending, packets_since_ack,
                 to_server>>

\* Mutant: COMPLETE_ACK is sent before the output is flushed.
SyncFails_AckFirst ==
  /\ server_pc = "data"
  /\ \E m \in to_server : m.type = "COMPLETE" /\ m.number = TotalChunks
  /\ ReadyToComplete
  /\ FileSize > 0
  /\ to_client' \in Put(to_client, CompleteAck)
  /\ server_pc' = "failed"
  /\ UNCHANGED <<trackerVars, server_chunk_size, output, synced, ack_pending,
                 packets_since_ack, to_server>>

\* sync throws: the flush of a complete file fails.
SyncFails ==
  /\ server_pc = "data"
  /\ \E m \in to_server : m.type = "COMPLETE" /\ m.number = TotalChunks
  /\ ReadyToComplete
  /\ FileSize > 0
  /\ server_pc' = "failed"
  /\ UNCHANGED <<trackerVars, server_chunk_size, output, synced, ack_pending,
                 packets_since_ack, networkVars>>

\* time_wait answers one more COMPLETE, and starts its three seconds again.
RepeatCompleteAck ==
  /\ server_pc = "timewait"
  /\ \E m \in to_server : m.type = "COMPLETE" /\ m.number = TotalChunks
  /\ to_client' \in Put(to_client, CompleteAck)
  /\ UNCHANGED <<serverVars, to_server>>

TimeWaitExpires ==
  /\ server_pc = "timewait"
  /\ server_pc' = "exited"
  /\ UNCHANGED <<trackerVars, server_chunk_size, output, synced, ack_pending,
                 packets_since_ack, networkVars>>

\* A system call of the server fails and the exception leaves run_server, or
\* the process is killed.
ServerThrows ==
  /\ server_pc \in {"listen", "data", "timewait"}
  /\ server_pc' = "failed"
  /\ UNCHANGED <<trackerVars, server_chunk_size, output, synced, ack_pending,
                 packets_since_ack, networkVars>>
=============================================================================
