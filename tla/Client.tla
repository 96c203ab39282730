-------------------------------- MODULE Client -------------------------------
(***************************************************************************)
(* The sender: run_client of src/client.cpp.  client_pc is where it is:    *)
(*                                                                         *)
(*   "start"          about to send START, for the attempt-th time         *)
(*   "start_wait"     in receive_expected(START_ACK)                       *)
(*   "data"           in the data loop (loop_pc says where)                *)
(*   "complete"       about to send COMPLETE                               *)
(*   "complete_wait"  in receive_expected(COMPLETE_ACK)                    *)
(*   "done"           returned 0                                           *)
(*   "failed"         left by an exception; client_error says which        *)
(*                                                                         *)
(* receive_expected skips datagrams of other types, so each wait takes one *)
(* expected datagram or times out.                                         *)
(***************************************************************************)
EXTENDS SenderLoop, Network, InputFile

CONSTANT ControlAttempts   \* kControlAttempts (10)

ASSUME ClientAssumption == ControlAttempts \in Nat \ {0}

VARIABLES client_pc, attempt, client_error

clientStateVars == <<client_pc, attempt, client_error>>
clientVars == <<clientStateVars, loopVars>>

ClientErrors ==
  {"none", "rejected", "START timed out", "invalid window", "COMPLETE timed out",
   "statistics do not match", "system call"}

ClientTypeOK ==
  /\ SenderTypeOK
  /\ LoopTypeOK
  /\ client_pc \in {"start", "start_wait", "data", "complete", "complete_wait", "done",
                    "failed"}
  /\ attempt \in 0 .. ControlAttempts
  /\ client_error \in ClientErrors

ClientInit ==
  /\ LoopInit
  /\ client_pc = "start"
  /\ attempt = 0
  /\ client_error = "none"

\* An exception leaves run_client.
Fail(error) == client_pc' = "failed" /\ client_error' = error

-----------------------------------------------------------------------------
(* Datagrams. *)

Start ==
  [type |-> "START", file_size |-> FileSize, chunk_size |-> ChunkSize,
   total_chunks |-> TotalChunks, window_chunks |-> LogicalWindow,
   ack_bitmap_bits |-> SackCoverage]

PayloadSize(s) ==
  IF ChunkSize < FileSize - s * ChunkSize THEN ChunkSize ELSE FileSize - s * ChunkSize

Data(s, retransmission) ==
  [type |-> "DATA", number |-> s, retransmitted |-> retransmission,
   payload |-> [i \in 1 .. PayloadSize(s) |-> Source[s * ChunkSize + i]]]

Complete == [type |-> "COMPLETE", number |-> TotalChunks]

-----------------------------------------------------------------------------
(* The START handshake. *)

SendStart ==
  /\ client_pc = "start"
  /\ attempt < ControlAttempts
  /\ to_server' \in Put(to_server, Start)
  /\ client_pc' = "start_wait"
  /\ UNCHANGED <<attempt, client_error, loopVars, to_client>>

StartTimesOut ==
  /\ client_pc = "start_wait"
  /\ attempt' = attempt + 1
  /\ client_pc' = "start"
  /\ UNCHANGED <<client_error, loopVars, networkVars>>

StartGivesUp ==
  /\ client_pc = "start"
  /\ attempt = ControlAttempts
  /\ Fail("START timed out")
  /\ UNCHANGED <<attempt, loopVars, networkVars>>

ValidWindow(m) ==
  /\ m.accepted_window_chunks # 0
  /\ m.accepted_window_chunks <= m.accepted_bitmap_bits
  /\ m.accepted_bitmap_bits = SackCoverage

\* The window is constructed with what the server accepted, and the data loop
\* entered.
ReceiveStartAck ==
  /\ client_pc = "start_wait"
  /\ \E m \in to_client :
       /\ m.type = "START_ACK"
       /\ IF m.status # "OK" THEN Fail("rejected")
          ELSE IF ~ValidWindow(m) THEN Fail("invalid window")
          ELSE client_pc' = "data" /\ UNCHANGED client_error
  /\ UNCHANGED <<attempt, loopVars, networkVars>>

-----------------------------------------------------------------------------
(* The data loop. *)

\* A step of the loop that neither reads nor writes the socket.
LocalStep ==
  /\ client_pc = "data"
  /\ \/ CheckTimeouts
     \/ SelectRetransmission
     \/ SelectNew
     \/ SelectNothing
     \/ WaitTimesOut
     \/ EndIteration
     \/ ClockTick
  /\ UNCHANGED <<clientStateVars, networkVars>>

\* drain_acks or wait_for_ack takes an ACK.
ReceiveAck(m) ==
  /\ client_pc = "data"
  /\ m.type = "ACK"
  /\ DrainAck(m.ack) \/ WaitAck(m.ack)
  /\ UNCHANGED <<clientStateVars, networkVars>>

TransmitData ==
  /\ client_pc = "data"
  /\ SendData
  /\ to_server' \in Put(to_server, Data(decision.sequence, decision.retransmission))
  /\ UNCHANGED <<clientStateVars, to_client>>

\* The loop is over: the first COMPLETE is the next thing to send.
LeaveLoop ==
  /\ client_pc = "data"
  /\ loop_pc = "exit"
  /\ client_pc' = "complete"
  /\ attempt' = 0
  /\ UNCHANGED <<client_error, loopVars, networkVars>>

-----------------------------------------------------------------------------
(* The COMPLETE handshake. *)

SendComplete ==
  /\ client_pc = "complete"
  /\ attempt < ControlAttempts
  /\ to_server' \in Put(to_server, Complete)
  /\ client_pc' = "complete_wait"
  /\ UNCHANGED <<attempt, client_error, loopVars, to_client>>

CompleteTimesOut ==
  /\ client_pc = "complete_wait"
  /\ attempt' = attempt + 1
  /\ client_pc' = "complete"
  /\ UNCHANGED <<client_error, loopVars, networkVars>>

CompleteGivesUp ==
  /\ client_pc = "complete"
  /\ attempt = ControlAttempts
  /\ Fail("COMPLETE timed out")
  /\ UNCHANGED <<attempt, loopVars, networkVars>>

StatisticsMatch(m) ==
  m.received_chunks = TotalChunks /\ m.received_bytes = FileSize

\* A status other than OK only ends this attempt.
ReceiveCompleteAck ==
  /\ client_pc = "complete_wait"
  /\ \E m \in to_client :
       /\ m.type = "COMPLETE_ACK"
       /\ IF m.status # "OK"
          THEN client_pc' = "complete" /\ attempt' = attempt + 1 /\ UNCHANGED client_error
          ELSE /\ UNCHANGED attempt
               /\ IF StatisticsMatch(m)
                  THEN client_pc' = "done" /\ UNCHANGED client_error
                  ELSE Fail("statistics do not match")
  /\ UNCHANGED <<loopVars, networkVars>>

\* A system call of the client fails and the exception leaves run_client, or
\* the process is killed.
ClientThrows ==
  /\ client_pc \notin {"done", "failed"}
  /\ Fail("system call")
  /\ UNCHANGED <<attempt, loopVars, networkVars>>
=============================================================================
