------------------------------- MODULE Closing -------------------------------
(***************************************************************************)
(* The end of a transfer in real time: the client's COMPLETE handshake     *)
(* (src/client.cpp) against the server's flush and TIME_WAIT               *)
(* (src/server.cpp).  Everything has been received: module Transfer shows  *)
(* that no COMPLETE is sent before that.                                   *)
(*                                                                         *)
(* Both processes answer at once, except that the flush blocks the server  *)
(* for any time, and a datagram that is not lost arrives within MaxDelay   *)
(* ticks.  Datagrams of one direction differ only in their age, so a       *)
(* channel counts the datagrams of each age.                               *)
(*                                                                         *)
(* client_pc: "send" about to send COMPLETE, "wait" in receive_expected,   *)
(* "done" or "failed".  server_pc: "data" in receive_packet, "sync" in     *)
(* output->sync(), "timewait", "exited" or, when the flush throws,         *)
(* "failed".                                                               *)
(***************************************************************************)
EXTENDS Integers

CONSTANTS
  ControlAttempts,   \* kControlAttempts (10)
  ControlTimeout,    \* kControlTimeoutMs (1000), in ticks
  TimeWait,          \* the three seconds of time_wait, in ticks
  MaxDelay,          \* bound: ticks a datagram may take
  MaxLosses,         \* bound: datagrams lost
  MaxCopies          \* bound: datagrams duplicated

ASSUME ClosingAssumption ==
  /\ ControlAttempts \in Nat \ {0}
  /\ ControlTimeout \in Nat \ {0}
  /\ TimeWait \in Nat \ {0}
  /\ MaxDelay \in Nat
  /\ MaxDelay < ControlTimeout
  /\ TimeWait < ControlAttempts * ControlTimeout
  /\ MaxLosses \in Nat
  /\ MaxCopies \in Nat

VARIABLES
  client_pc, attempt,
  waited,         \* ticks since the current attempt began
  server_pc,
  socket,         \* COMPLETEs in the server's socket buffer
  remaining,      \* ticks until time_wait's deadline
  to_server, to_client,
  losses, copies, \* how many datagrams were lost, and duplicated
  slow            \* history: the flush left the client no time for an answer

clientVars == <<client_pc, attempt, waited>>
serverVars == <<server_pc, socket, remaining>>
vars == <<clientVars, serverVars, to_server, to_client, losses, copies, slow>>

Ages == 0 .. MaxDelay
Empty == [a \in Ages |-> 0]
Add(channel, a) == [channel EXCEPT ![a] = @ + 1]
Remove(channel, a) == [channel EXCEPT ![a] = @ - 1]
Older(channel) == [a \in Ages |-> IF a = 0 THEN 0 ELSE channel[a - 1]]

Init ==
  /\ client_pc = "send" /\ attempt = 0 /\ waited = 0
  /\ server_pc = "data" /\ socket = 0 /\ remaining = 0
  /\ to_server = Empty /\ to_client = Empty
  /\ losses = 0 /\ copies = 0
  /\ slow = FALSE

-----------------------------------------------------------------------------
(* The client. *)

SendComplete ==
  /\ client_pc = "send"
  /\ client_pc' = "wait"
  /\ to_server' = Add(to_server, 0)
  /\ UNCHANGED <<attempt, waited, serverVars, to_client, losses, copies, slow>>

\* Mutant: the client gives up one attempt early.
CompleteTimesOut_GivesUpEarly ==
  /\ client_pc = "wait"
  /\ waited = ControlTimeout
  /\ attempt' = attempt + 1
  /\ client_pc' = IF attempt' + 1 < ControlAttempts THEN "send" ELSE "failed"
  /\ waited' = 0
  /\ UNCHANGED <<serverVars, to_server, to_client, losses, copies, slow>>

\* receive_expected returns false, and the attempt was the last one or not.
CompleteTimesOut ==
  /\ client_pc = "wait"
  /\ waited = ControlTimeout
  /\ attempt' = attempt + 1
  /\ client_pc' = IF attempt' < ControlAttempts THEN "send" ELSE "failed"
  /\ waited' = 0
  /\ UNCHANGED <<serverVars, to_server, to_client, losses, copies, slow>>

\* An answer to any of the attempts ends the handshake; once it is over nobody
\* reads the socket.
ReceiveCompleteAck ==
  /\ \E a \in Ages : to_client[a] > 0 /\ to_client' = Remove(to_client, a)
  /\ client_pc \in {"wait", "done", "failed"}
  /\ client_pc' = IF client_pc = "wait" THEN "done" ELSE client_pc
  /\ UNCHANGED <<attempt, waited, serverVars, to_server, losses, copies, slow>>

-----------------------------------------------------------------------------
(* The server. *)

\* A COMPLETE reaches the socket, or finds it closed.
CompleteArrives ==
  /\ \E a \in Ages : to_server[a] > 0 /\ to_server' = Remove(to_server, a)
  /\ socket' = IF server_pc \in {"exited", "failed"} THEN socket ELSE socket + 1
  /\ UNCHANGED <<clientVars, server_pc, remaining, to_client, losses, copies, slow>>

\* The data loop takes the first COMPLETE and starts the flush.
StartSync ==
  /\ server_pc = "data"
  /\ socket > 0
  /\ socket' = socket - 1
  /\ server_pc' = "sync"
  /\ UNCHANGED <<clientVars, remaining, to_server, to_client, losses, copies, slow>>

\* An answer that takes MaxDelay from now comes after the client's last attempt.
TooLate ==
  \/ client_pc = "failed"
  \/ attempt * ControlTimeout + waited + MaxDelay >= ControlAttempts * ControlTimeout

\* The flush is over: COMPLETE_ACK is sent and time_wait entered.
EndSync ==
  /\ server_pc = "sync"
  /\ to_client' = Add(to_client, 0)
  /\ server_pc' = "timewait"
  /\ remaining' = TimeWait
  /\ slow' = TooLate
  /\ UNCHANGED <<clientVars, socket, to_server, losses, copies>>

\* msync fails: the exception closes the socket, and nobody is told.
SyncFails ==
  /\ server_pc = "sync"
  /\ server_pc' = "failed"
  /\ socket' = 0
  /\ UNCHANGED <<clientVars, remaining, to_server, to_client, losses, copies, slow>>

\* Mutant: the deadline is not moved when a COMPLETE is answered.
AnswerAgain_NoRefresh ==
  /\ server_pc = "timewait"
  /\ socket > 0
  /\ socket' = socket - 1
  /\ to_client' = Add(to_client, 0)
  /\ UNCHANGED <<clientVars, server_pc, remaining, to_server, losses, copies, slow>>

\* time_wait answers one more COMPLETE and moves its deadline.
AnswerAgain ==
  /\ server_pc = "timewait"
  /\ socket > 0
  /\ socket' = socket - 1
  /\ to_client' = Add(to_client, 0)
  /\ remaining' = TimeWait
  /\ UNCHANGED <<clientVars, server_pc, to_server, losses, copies, slow>>

TimeWaitExpires ==
  /\ server_pc = "timewait"
  /\ remaining = 0
  /\ server_pc' = "exited"
  /\ socket' = 0
  /\ UNCHANGED <<clientVars, remaining, to_server, to_client, losses, copies, slow>>

-----------------------------------------------------------------------------
(* The network and the clock. *)

Lose ==
  /\ losses < MaxLosses
  /\ losses' = losses + 1
  /\ \E a \in Ages :
       \/ /\ to_server[a] > 0
          /\ to_server' = Remove(to_server, a)
          /\ UNCHANGED to_client
       \/ /\ to_client[a] > 0
          /\ to_client' = Remove(to_client, a)
          /\ UNCHANGED to_server
  /\ UNCHANGED <<clientVars, serverVars, copies, slow>>

Duplicate ==
  /\ copies < MaxCopies
  /\ copies' = copies + 1
  /\ \E a \in Ages :
       \/ /\ to_server[a] > 0
          /\ to_server' = Add(to_server, a)
          /\ UNCHANGED to_client
       \/ /\ to_client[a] > 0
          /\ to_client' = Add(to_client, a)
          /\ UNCHANGED to_server
  /\ UNCHANGED <<clientVars, serverVars, losses, slow>>

\* Mutant: polling moves the deadline of time_wait.
RemainingAfterTick_Refreshed == TimeWait

RemainingAfterTick == IF server_pc = "timewait" THEN remaining - 1 ELSE remaining

\* Time passes once nothing is left to do at this instant.
Tick ==
  /\ client_pc # "send"
  /\ client_pc = "wait" => waited < ControlTimeout
  /\ server_pc \in {"data", "timewait"} => socket = 0
  /\ server_pc = "timewait" => remaining > 0
  /\ to_server[MaxDelay] = 0
  /\ to_client[MaxDelay] = 0
  /\ waited' = IF client_pc = "wait" THEN waited + 1 ELSE waited
  /\ remaining' = RemainingAfterTick
  /\ to_server' = Older(to_server)
  /\ to_client' = Older(to_client)
  /\ UNCHANGED <<client_pc, attempt, server_pc, socket, losses, copies, slow>>

Next ==
  \/ SendComplete
  \/ CompleteTimesOut
  \/ ReceiveCompleteAck
  \/ CompleteArrives
  \/ StartSync
  \/ EndSync
  \/ SyncFails
  \/ AnswerAgain
  \/ TimeWaitExpires
  \/ Lose
  \/ Duplicate
  \/ Tick

Spec == Init /\ [][Next]_vars

\* Time passes, both processes run, and the flush returns or throws.
FairSpec == Spec /\ WF_vars(Next) /\ WF_vars(EndSync \/ SyncFails)

-----------------------------------------------------------------------------
(* Properties. *)

\* Rounds of the client that time_wait is sure to see after one it answered,
\* with that one: three.
SureRounds == TimeWait \div ControlTimeout

\* The server does not leave TIME_WAIT behind the back of a client that still
\* retries, unless three datagrams were lost: each answered COMPLETE is sure to
\* be followed by two more within the three seconds, whatever their delays
\* (server.cpp:164, 211 against client.cpp:593-604).
ServerOutlivesClient ==
  server_pc = "exited" /\ client_pc \in {"send", "wait"} => losses >= SureRounds

\* A client that reports failure although the server has all its chunks is
\* explained by three losses, by a flush that took longer than its ten attempts,
\* or by one that threw (server.cpp:410 and 451; client.cpp:611 gives up).
FailureIsExplained ==
  client_pc = "failed" => losses >= SureRounds \/ server_pc \in {"sync", "failed"} \/ slow

\* A server that has seen COMPLETE finishes, although every answer moves the
\* deadline: there are finitely many COMPLETEs.
ServerLeaves == server_pc = "sync" ~> server_pc \in {"exited", "failed"}
=============================================================================
