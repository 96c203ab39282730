------------------------------ MODULE Transfer ------------------------------
(***************************************************************************)
(* One client and one server over an unreliable network: the whole         *)
(* transfer of a file, from START to the end of TIME_WAIT.                 *)
(***************************************************************************)
EXTENDS Client, Server

vars == <<clientVars, serverVars, networkVars>>

Init == ClientInit /\ ServerInit /\ NetworkInit

ClientNext ==
  \/ SendStart
  \/ StartTimesOut
  \/ StartGivesUp
  \/ ReceiveStartAck
  \/ LocalStep
  \/ \E m \in to_client : ReceiveAck(m)
  \/ TransmitData
  \/ LeaveLoop
  \/ SendComplete
  \/ CompleteTimesOut
  \/ CompleteGivesUp
  \/ ReceiveCompleteAck
  \/ ClientThrows

ServerNext ==
  \/ RefuseStart
  \/ AcceptStart
  \/ CreateFails
  \/ RepeatStartAck
  \/ \E m \in to_server : ReceiveData(m)
  \/ ReceiveComplete
  \/ SyncFails
  \/ RepeatCompleteAck
  \/ TimeWaitExpires
  \/ ServerThrows

Next ==
  \/ ClientNext /\ UNCHANGED serverVars
  \/ ServerNext /\ UNCHANGED clientVars

Spec == Init /\ [][Next]_vars

-----------------------------------------------------------------------------
(* Fairness.  The client's process runs on and its clock advances; the server *)
(* is not assumed to survive.  The network may lose a datagram any number of  *)
(* times but not always: a chunk sent again and again gets through, and so    *)
(* does the ACK that answers it.  It does not deliver copies of the START     *)
(* datagrams, of which the client sends ControlAttempts at most, for ever.    *)

TransmitEnters(s) ==
  /\ decision.sequence = s
  /\ TransmitData
  /\ Data(s, decision.retransmission) \in to_server'
  /\ UNCHANGED serverVars

\* The first copy of a chunk, or one that was sent again: the network owes no
\* second copy of a datagram that was sent once.
DataArrives(s) ==
  /\ \E m \in to_server : /\ ReceiveData(m)
                          /\ m.number = s
                          /\ s \notin received \/ m.retransmitted
  /\ ack_pending' \/ Ack(make_ack_snapshot(received', cumulative_ack',
                                          largest_received_plus_one')) \in to_client'
  /\ UNCHANGED clientVars

\* An ACK that acknowledges something new: copies of old ones do not keep it
\* out for ever.
AckArrives ==
  /\ \E m \in to_client : ReceiveAck(m)
  /\ state' # state
  /\ UNCHANGED serverVars

Fairness ==
  /\ WF_vars((SendStart \/ StartTimesOut \/ StartGivesUp \/ LocalStep \/ TransmitData
               \/ LeaveLoop \/ SendComplete \/ CompleteTimesOut \/ CompleteGivesUp)
             /\ UNCHANGED serverVars)
  /\ WF_vars(LocalStep /\ ClockTick /\ UNCHANGED serverVars)
  /\ \A s \in Chunks : SF_vars(TransmitEnters(s))
  /\ \A s \in Chunks : SF_vars(DataArrives(s))
  /\ SF_vars(AckArrives)
  /\ <>[][~(RepeatStartAck /\ UNCHANGED clientVars)]_vars

FairSpec == Spec /\ Fairness

-----------------------------------------------------------------------------
(* Properties. *)

\* Every variable of both endpoints has its type; the counters of the server
\* stay within the file and below the ACK threshold.
TypeOK == ClientTypeOK /\ ServerTypeOK

\* The bytes of chunk s in the output file are those of the source.
Written(s) ==
  \A i \in Offsets : i \div ChunkSize = s => output[i] = Source[i + 1]

\* The output file is the source, byte for byte.
OutputIsSource == output = [i \in Offsets |-> Source[i + 1]]

\* What the client counts as acknowledged is in the server's file: through
\* every lost, stale, repeated and overtaken ACK the two sides never disagree
\* in this direction (reliability.cpp:114-139 against server.cpp:338-345).
AckedIsWritten ==
  \A s \in Chunks : state[s] = "ACKED" => s \in received /\ Written(s)

\* When the client reports success (exit code 0), the server's file is the
\* source and was flushed to disk, whatever happens to the server later.
SuccessMeansFile == client_pc = "done" => OutputIsSource /\ synced

\* When the server reports success, so is its file, and the client has no data
\* left to send: run_server never returns while the client's loop still runs.
ServerSuccessMeansFile ==
  server_pc \in {"timewait", "exited"} => OutputIsSource /\ synced /\ loop_pc = "exit"

\* Every chunk that has arrived can be reported by the next ACK: it is either
\* below cumulative_ack_ or within the bitmap (reliability.cpp:263-269).  The
\* client's limit on new data is what guarantees it (reliability.cpp:37).
SackCoversReceived == largest_received_plus_one <= cumulative_ack + SackCoverage

\* The two failures that would blame the other side never happen: a window
\* refused after being negotiated (client.cpp:482), and statistics that do not
\* match the input file (client.cpp:614).
NoSpuriousFailure ==
  client_error \notin {"invalid window", "statistics do not match"}

\* A COMPLETE on the wire means that everything was received: the server's
\* answer to an early COMPLETE (server.cpp:400) is never needed as long as the
\* server is not restarted (module Sessions has restarts).
CompleteIsNeverEarly ==
  (\E m \in to_server : m.type = "COMPLETE") => ReadyToComplete

\* A client told "START timed out" or "rejected" never had data in flight, and
\* a rejected MTU leaves the server's old file alone (server.cpp:257-265).
RefusalIsClean ==
  /\ server_chunk_size # ChunkSize => output = Filled(OldByte)
  /\ client_error \in {"START timed out", "rejected"} => received = {}

\* docs/design.md:43: "The server currently sends one SACK after every valid
\* DATA packet."  Then no ACK would ever be owed; server.cpp:374-391 withholds
\* ACKs until one of five conditions holds.
SackAfterEveryData == ~ack_pending

\* The tracker's three counters are those of the set it has received, for any
\* order of arrival (reliability.cpp:225-237).
TrackerExact ==
  /\ received_count = Cardinality(received)
  /\ cumulative_ack = TotalChunks \/ cumulative_ack \notin received
  /\ 0 .. cumulative_ack - 1 \subseteq received
  /\ \A s \in received : s < largest_received_plus_one
  /\ largest_received_plus_one > 0 => largest_received_plus_one - 1 \in received

\* The client always comes to an end, as long as the server does not die: no
\* chunk, ACK or timeout is lost for good, although the server withholds ACKs
\* and has no timer of its own to send them (server.cpp:374).  If the server
\* dies the data loop has no way to notice (client.cpp:501).
ClientEnds == <>(client_pc \in {"done", "failed"} \/ server_pc = "failed")

-----------------------------------------------------------------------------
(* The transfer implements FileTransfer. *)

Promise ==
  INSTANCE FileTransfer WITH
    Content <- Source,
    Old <- OldByte,
    Nothing <- NoByte,
    file <- output,
    receiver <- CASE server_pc = "listen" -> "waiting"
                  [] server_pc = "data" -> "receiving"
                  [] server_pc \in {"timewait", "exited"} -> "committed"
                  [] server_pc = "failed" -> IF synced THEN "committed" ELSE "failed",
    sender <- CASE client_pc = "done" -> "succeeded"
                [] client_pc = "failed" -> "failed"
                [] OTHER -> "working"

\* The whole transfer, packets and all, keeps the promise of FileTransfer: the
\* file is created once, its bytes only ever change from zero to the source's,
\* it is committed once and then left alone, and the client succeeds only
\* after that (docs/design.md, "Flow").
KeepsPromise == Promise!Spec
=============================================================================
