------------------------------ MODULE Sessions ------------------------------
(***************************************************************************)
(* Several clients and a server that serves one session per run of its     *)
(* program (src/server.cpp).  When it has ended, or died in the middle of  *)
(* a session, it may be started again at the same port while clients of    *)
(* the run before are still sending.  A client is one run of the client    *)
(* program: it has the endpoint its socket got and the session id it drew. *)
(* A later run may get the endpoint of an earlier one, and two runs may    *)
(* draw the same session id; no two have both.                             *)
(*                                                                         *)
(* The channels are sets from which a receive takes a copy, so datagrams   *)
(* of a client that has ended still arrive.  What is sent to an endpoint   *)
(* reaches the run that has it now.  The sender's window and the handshake *)
(* attempts are those of modules SenderLoop and Client; here a client      *)
(* sends any chunk that is not acknowledged, and may give up at any time.  *)
(***************************************************************************)
EXTENDS Integers, FiniteSets

CONSTANTS
  Clients,
  Endpoint, Session,   \* of each client
  TotalChunks,         \* of each client's file
  Nobody,
  MaxRestarts          \* bound: how often the server is started again

ASSUME SessionsAssumption ==
  /\ Nobody \notin Clients
  /\ TotalChunks \in [Clients -> Nat]
  /\ MaxRestarts \in Nat
  /\ \A c, d \in Clients : Endpoint[c] = Endpoint[d] /\ Session[c] = Session[d] => c = d

VARIABLES
  client_pc,    \* "off", "start", "data", "complete", "done", "rejected" or "failed"
  acked,        \* chunks each client counts as acknowledged
  server_pc,    \* "listen", "data", "timewait" or "ended"
  accepted,     \* endpoint, session and number of chunks of the START accepted
  output,       \* chunk number -> the client whose bytes are there, or Nobody
  to_server, to_client,
  restarts,
  flushed       \* history: clients whose whole file a server has flushed

clientVars == <<client_pc, acked>>
serverVars == <<server_pc, accepted, output, restarts, flushed>>
vars == <<clientVars, serverVars, to_server, to_client>>

ChunksOf(c) == 0 .. TotalChunks[c] - 1
Live(c) == client_pc[c] \in {"start", "data", "complete"}

NoSession == [endpoint |-> Nobody, session |-> Nobody, total_chunks |-> 0]

Init ==
  /\ client_pc = [c \in Clients |-> "off"]
  /\ acked = [c \in Clients |-> {}]
  /\ server_pc = "listen"
  /\ accepted = NoSession
  /\ output = << >>
  /\ to_server = {}
  /\ to_client = {}
  /\ restarts = 0
  /\ flushed = {}

\* The numbers of the chunks that the tracker has marked as received.
received == {s \in DOMAIN output : output[s] # Nobody}

-----------------------------------------------------------------------------
(* The clients. *)

Send(c, type, number, bytes) ==
  to_server' = to_server \cup
    {[source |-> Endpoint[c], session |-> Session[c], type |-> type, number |-> number,
      bytes |-> bytes]}

\* The datagram reaches this client's socket and passes receive_expected, or the
\* same test of drain_acks.
Expected(c, m, type) ==
  m.destination = Endpoint[c] /\ m.type = type /\ m.session = Session[c]

MovesTo(c, pc) == client_pc' = [client_pc EXCEPT ![c] = pc]

\* The program is started and gets an endpoint that is free, and sends START.
StartClient(c) ==
  /\ client_pc[c] = "off"
  /\ \A d \in Clients : Live(d) => Endpoint[d] # Endpoint[c]
  /\ MovesTo(c, "start")
  /\ Send(c, "START", TotalChunks[c], Nobody)
  /\ UNCHANGED <<acked, serverVars, to_client>>

ReceiveStartAck(c) ==
  /\ client_pc[c] = "start"
  /\ \E m \in to_client : /\ Expected(c, m, "START_ACK")
                          /\ MovesTo(c, IF m.status = "OK" THEN "data" ELSE "rejected")
  /\ UNCHANGED <<acked, serverVars, to_server, to_client>>

SendData(c, s) ==
  /\ client_pc[c] = "data"
  /\ s \in ChunksOf(c) \ acked[c]
  /\ Send(c, "DATA", s, c)
  /\ UNCHANGED <<clientVars, serverVars, to_client>>

ReceiveAck(c) ==
  /\ client_pc[c] = "data"
  /\ \E m \in to_client :
       /\ Expected(c, m, "ACK")
       /\ acked' = [acked EXCEPT ![c] = @ \cup (m.received \cap ChunksOf(c))]
  /\ UNCHANGED <<client_pc, serverVars, to_server, to_client>>

SendComplete(c) ==
  /\ client_pc[c] = "data"
  /\ acked[c] = ChunksOf(c)
  /\ MovesTo(c, "complete")
  /\ Send(c, "COMPLETE", TotalChunks[c], Nobody)
  /\ UNCHANGED <<acked, serverVars, to_client>>

ReceiveCompleteAck(c) ==
  /\ client_pc[c] = "complete"
  /\ \E m \in to_client : Expected(c, m, "COMPLETE_ACK")
  /\ MovesTo(c, "done")
  /\ UNCHANGED <<acked, serverVars, to_server, to_client>>

\* Ten attempts were in vain, a system call failed or the process was killed.
ClientFails(c) ==
  /\ Live(c)
  /\ MovesTo(c, "failed")
  /\ UNCHANGED <<acked, serverVars, to_server, to_client>>

-----------------------------------------------------------------------------
(* The server. *)

Reply(destination, session, type, status, chunks) ==
  to_client' = to_client \cup
    {[destination |-> destination, session |-> session, type |-> type, status |-> status,
      received |-> chunks]}

ReplyToClient(type, chunks) == Reply(accepted.endpoint, accepted.session, type, "OK", chunks)

\* Mutant: the session id is not compared.
OfSession_AnySession(m) == m.source = accepted.endpoint

\* same_endpoint(source, client) && session_id == session_id.
OfSession(m) == m.source = accepted.endpoint /\ m.session = accepted.session

\* Mutant: the tracker keeps the size of the file before.
AcceptStart_OldTracker ==
  /\ server_pc = "listen"
  /\ \E m \in to_server :
       /\ m.type = "START"
       /\ accepted' = [endpoint |-> m.source, session |-> m.session,
                       total_chunks |-> m.number]
       /\ Reply(m.source, m.session, "START_ACK", "OK", {})
  /\ server_pc' = "data"
  /\ UNCHANGED <<clientVars, output, restarts, flushed, to_server>>

\* The first START makes the session: the output is created and the tracker.
AcceptStart ==
  /\ server_pc = "listen"
  /\ \E m \in to_server :
       /\ m.type = "START"
       /\ accepted' = [endpoint |-> m.source, session |-> m.session,
                       total_chunks |-> m.number]
       /\ output' = [s \in 0 .. m.number - 1 |-> Nobody]
       /\ Reply(m.source, m.session, "START_ACK", "OK", {})
  /\ server_pc' = "data"
  /\ UNCHANGED <<clientVars, restarts, flushed, to_server>>

\* START while a session is being served: its own, or BUSY for any other.
AnswerStart ==
  /\ server_pc = "data"
  /\ \E m \in to_server :
       /\ m.type = "START"
       /\ Reply(m.source, m.session, "START_ACK", IF OfSession(m) THEN "OK" ELSE "BUSY", {})
  /\ UNCHANGED <<clientVars, serverVars, to_server>>

\* DATA is written once; the ACK may be withheld.
ReceiveData ==
  /\ server_pc = "data"
  /\ \E m \in to_server :
       /\ m.type = "DATA"
       /\ OfSession(m)
       /\ m.number < accepted.total_chunks
       /\ output' = IF m.number \in received THEN output
                    ELSE [output EXCEPT ![m.number] = m.bytes]
       /\ \/ ReplyToClient("ACK", received \cup {m.number})
          \/ UNCHANGED to_client
  /\ UNCHANGED <<clientVars, server_pc, accepted, restarts, flushed, to_server>>

IsComplete(m) ==
  m.type = "COMPLETE" /\ OfSession(m) /\ m.number = accepted.total_chunks

\* Mutant: a client that says COMPLETE is believed.
ReadyToComplete_Trusting == TRUE

\* Nothing is missing.
ReadyToComplete == received = DOMAIN output

\* The output is the file of client c.
WholeFileOf(c) == output = [s \in ChunksOf(c) |-> c]

\* COMPLETE is answered by an ACK as long as chunks are missing, then by the
\* flush of the output and COMPLETE_ACK, which time_wait repeats.
ReceiveComplete ==
  /\ server_pc \in {"data", "timewait"}
  /\ \E m \in to_server : IsComplete(m)
  /\ IF ReadyToComplete
     THEN /\ ReplyToClient("COMPLETE_ACK", received)
          /\ server_pc' = "timewait"
          /\ flushed' = flushed \cup {c \in Clients : WholeFileOf(c)}
     ELSE ReplyToClient("ACK", received) /\ UNCHANGED <<server_pc, flushed>>
  /\ UNCHANGED <<clientVars, accepted, output, restarts, to_server>>

\* time_wait returns, or the server dies, by an exception or from outside.
ServerEnds ==
  /\ server_pc # "ended"
  /\ server_pc' = "ended"
  /\ UNCHANGED <<clientVars, accepted, output, restarts, flushed, to_server, to_client>>

\* The program is started again, at the same port.
RestartServer ==
  /\ server_pc = "ended"
  /\ restarts < MaxRestarts
  /\ restarts' = restarts + 1
  /\ server_pc' = "listen"
  /\ accepted' = NoSession
  /\ output' = << >>
  /\ UNCHANGED <<clientVars, flushed, to_server, to_client>>

Next ==
  \/ \E c \in Clients :
       \/ StartClient(c)
       \/ ReceiveStartAck(c)
       \/ \E s \in ChunksOf(c) : SendData(c, s)
       \/ ReceiveAck(c)
       \/ SendComplete(c)
       \/ ReceiveCompleteAck(c)
       \/ ClientFails(c)
  \/ AcceptStart
  \/ AnswerStart
  \/ ReceiveData
  \/ ReceiveComplete
  \/ ServerEnds
  \/ RestartServer

Spec == Init /\ [][Next]_vars

-----------------------------------------------------------------------------
(* Properties. *)

\* Client c is the one whose START the server accepted.
Owner(c) == accepted.endpoint = Endpoint[c] /\ accepted.session = Session[c]

\* Every variable has its type, and the output has the size that was agreed on.
TypeOK ==
  /\ client_pc \in [Clients -> {"off", "start", "data", "complete", "done", "rejected",
                                "failed"}]
  /\ \A c \in Clients : acked[c] \subseteq ChunksOf(c)
  /\ server_pc \in {"listen", "data", "timewait", "ended"}
  /\ DOMAIN output = 0 .. accepted.total_chunks - 1
  /\ \A s \in DOMAIN output : output[s] \in Clients \cup {Nobody}
  /\ restarts \in 0 .. MaxRestarts
  /\ flushed \subseteq Clients

\* The output holds bytes of the accepted client only, although clients of the
\* server's last run still send chunks with the same numbers, from the same
\* endpoint or with the same session id, and long after they have ended
\* (server.cpp:322).
NoMixture == \A s \in received : Owner(output[s])

\* A client that reports success had all of its file, and nothing else, in an
\* output that was flushed: also when the server died half-way, a new run of it
\* took over the session from a late START and the client counts chunks as
\* acknowledged that are gone (client.cpp:328-332, server.cpp:396-410).
DoneMeansFlushed == \A c \in Clients : client_pc[c] = "done" => c \in flushed
=============================================================================
