---------------------------- MODULE SenderAlone -----------------------------
(***************************************************************************)
(* The sender's data phase against any acknowledgements at all.  The       *)
(* client takes ACKs off the network as they come: lost, duplicated,       *)
(* overtaken by newer ones, or belonging to chunks it has not sent.  The   *)
(* environment offers any payload of AckInputs at any moment at which the  *)
(* loop reads the socket.                                                  *)
(***************************************************************************)
EXTENDS SenderLoop

CONSTANT AckInputs

ASSUME AckInputsAssumption == AckInputs \subseteq AckPayload

\* Behind the loop: the sender has nothing left to do here.
Exited == loop_pc = "exit" /\ UNCHANGED loopVars

Next ==
  \/ \E ack \in AckInputs : DrainAck(ack)
  \/ \E ack \in AckInputs : WaitAck(ack)
  \/ CheckTimeouts
  \/ SelectRetransmission
  \/ SelectNew
  \/ SelectNothing
  \/ WaitTimesOut
  \/ SendData
  \/ EndIteration
  \/ ClockTick
  \/ Exited

Spec == LoopInit /\ [][Next]_loopVars

-----------------------------------------------------------------------------
(* Properties. *)

\* Every variable of the window and of the loop has its type; in particular
\* outstanding_chunks_ is decremented without a test and never passes zero.
TypeOK == SenderTypeOK /\ LoopTypeOK
=============================================================================
