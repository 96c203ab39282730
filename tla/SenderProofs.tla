---------------------------- MODULE SenderProofs ----------------------------
(***************************************************************************)
(* What holds of the sender for every number of chunks, window, coverage,  *)
(* threshold and delay, and for every set of ACK payloads.                 *)
(***************************************************************************)
EXTENDS SenderAlone, WindowProofs

-----------------------------------------------------------------------------
(* The invariant is inductive. *)

\* A step of the sender is one of the loop: every ACK it is offered has the
\* format of one.
LEMMA NextIsLoopStep == [Next]_loopVars => LoopStep
BY AckInputsAssumption DEF Next, Exited, LoopStep

LEMMA NextIInv == IInv /\ [Next]_loopVars => IInv'
BY LoopStepKeepsIInv, NextIsLoopStep

\* Every reachable state of the sender satisfies the inductive invariant.
THEOREM SenderInvariant == Spec => []IInv
BY InitIInv, NextIInv, PTL DEF Spec

\* Every variable of SenderWindow keeps its type; outstanding_chunks_ never
\* wraps below zero (reliability.cpp:83).
THEOREM TypeCorrect == Spec => []TypeOK
<1>1. IInv => TypeOK
  BY DEF IInv, LoopStateOK, TypeOK
<1> QED
  BY <1>1, SenderInvariant, PTL

\* outstanding_chunks_ is the number of unacknowledged chunks.
THEOREM CounterIsExact == Spec => []OutstandingExact
BY SenderInvariant, IInvImplies, PTL

\* The window and the SACK coverage are never exceeded.
THEOREM WindowIsBounded == Spec => []WindowBounds
BY SenderInvariant, IInvImplies, PTL

\* A chunk marked for retransmission is in the queue, and vice versa: no
\* retransmission is lost.
THEOREM NoLostRetransmission == Spec => []PendingIsQueued
BY SenderInvariant, IInvImplies, PTL

\* No chunk is queued twice.
THEOREM QueueHasNoDuplicates == Spec => []QueuedOnce
BY SenderInvariant, IInvImplies, PTL

\* mark_sent never throws.
THEOREM MarkSentIsSafe == Spec => []MarkSentNeverThrows
BY SenderInvariant, IInvImplies, PTL
-----------------------------------------------------------------------------
(* What a step never undoes. *)

\* Acknowledged chunks stay acknowledged, base_ never moves back, and the data
\* loop (client.cpp:501) ends only when every chunk is acknowledged.
THEOREM ProgressNeverUndone == Spec => ProgressIsKept
<1>1. IInv /\ [Next]_loopVars => [ProgressStep]_loopVars
  BY NextIsLoopStep, LoopStepKeepsProgress
<1>2. Spec => [][ProgressStep]_loopVars
  BY <1>1, SenderInvariant, PTL DEF Spec
<1> QED
  BY <1>2 DEF ProgressIsKept

-----------------------------------------------------------------------------
(* The evidence for fast retransmission. *)

LEMMA NextEInv == EInv /\ [Next]_loopVars => EInv'
BY LoopStepKeepsEInv, NextIsLoopStep

\* Every reachable state of the sender satisfies the stronger invariant.
THEOREM EvidenceInvariant == Spec => []EInv
BY InitEInv, NextEInv, PTL DEF Spec

\* The u32 subtraction of has_new_sack_evidence (reliability.cpp:154) never
\* wraps, and what it subtracts from is the true count.
THEOREM EvidenceIsExact == Spec => []EvidenceExact
<1>1. EInv => EvidenceExact
  BY DEF EInv
<1> QED
  BY <1>1, EvidenceInvariant, PTL

\* A chunk behind which enough chunks are ACKED is queued (reliability.cpp:153),
\* however the ACKs were split, lost, repeated or reordered.
THEOREM LossIsNoticed == Spec => []FastRetransmitPrompt
<1>1. EInv => FastRetransmitPrompt
  BY DEF EInv
<1> QED
  BY <1>1, EvidenceInvariant, PTL

\* A repeated or overtaken ACK never causes a retransmission
\* (reliability.cpp:159): only a timeout or an ACK with news does.
THEOREM DuplicatesAreSilent == Spec => DuplicateAckIsSilent
<1>1. EInv /\ [Next]_loopVars => [MarkedForCause]_loopVars
  BY NextIsLoopStep, LoopStepMarksForCause
<1>2. Spec => [][MarkedForCause]_loopVars
  BY <1>1, EvidenceInvariant, PTL DEF Spec
<1> QED
  BY <1>2 DEF DuplicateAckIsSilent
=============================================================================
