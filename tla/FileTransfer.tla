---------------------------- MODULE FileTransfer ----------------------------
(***************************************************************************)
(* What a transfer promises, without packets: the receiver's file is       *)
(* created once, every byte of it is either still zero or already the      *)
(* source's, it is committed (complete, and flushed) at most once and not  *)
(* touched afterwards, and the sender reports success only after that.     *)
(* Either side may fail at any other moment.                               *)
(***************************************************************************)
EXTENDS Integers, Sequences

CONSTANTS
  Content,   \* the bytes of the source file
  Old,       \* a byte of the file that was there before
  Nothing    \* a byte of a file that was truncated and left so

VARIABLES
  file,       \* the bytes of the receiver's file by offset
  receiver,   \* "waiting", "receiving", "committed" or "failed"
  sender      \* "working", "succeeded" or "failed"

vars == <<file, receiver, sender>>

Places == 0 .. Len(Content) - 1
Whole == [i \in Places |-> Content[i + 1]]

Init == file = [i \in Places |-> Old] /\ receiver = "waiting" /\ sender = "working"

Create ==
  /\ receiver = "waiting"
  /\ receiver' = "receiving"
  /\ file' = [i \in Places |-> 0]
  /\ UNCHANGED sender

CreateFails ==
  /\ receiver = "waiting"
  /\ receiver' = "failed"
  /\ file' \in {file, [i \in Places |-> Nothing], [i \in Places |-> 0]}
  /\ UNCHANGED sender

\* Some bytes arrive; none that had arrived is changed.
Write ==
  /\ receiver = "receiving"
  /\ \E S \in SUBSET Places : file' = [i \in Places |-> IF i \in S THEN Content[i + 1] ELSE file[i]]
  /\ UNCHANGED <<receiver, sender>>

Commit ==
  /\ receiver = "receiving"
  /\ file = Whole
  /\ receiver' = "committed"
  /\ UNCHANGED <<file, sender>>

ReceiverFails ==
  /\ receiver \in {"waiting", "receiving"}
  /\ receiver' = "failed"
  /\ UNCHANGED <<file, sender>>

SenderSucceeds ==
  /\ sender = "working"
  /\ receiver = "committed"
  /\ sender' = "succeeded"
  /\ UNCHANGED <<file, receiver>>

SenderFails ==
  /\ sender = "working"
  /\ sender' = "failed"
  /\ UNCHANGED <<file, receiver>>

Next ==
  \/ Create \/ CreateFails \/ Write \/ Commit \/ ReceiverFails
  \/ SenderSucceeds \/ SenderFails

Spec == Init /\ [][Next]_vars
=============================================================================
