--------------------------- MODULE SessionsProofs ---------------------------
(***************************************************************************)
(* What holds of any number of clients, with any endpoints, session ids    *)
(* and files, and of a server restarted any number of times in the middle  *)
(* of their sessions: no file is a mixture, and no success is a mistake.   *)
(***************************************************************************)
EXTENDS Sessions, TLAPS

-----------------------------------------------------------------------------
(* The inductive invariant. *)

\* What client c sends, and what the server keeps of its START.
Request(c, type, number, bytes) ==
  [source |-> Endpoint[c], session |-> Session[c], type |-> type, number |-> number,
   bytes |-> bytes]

SessionOf(c) ==
  [endpoint |-> Endpoint[c], session |-> Session[c], total_chunks |-> TotalChunks[c]]

\* A datagram of client c is one c can have sent, however long ago.
SentBy(c, m) ==
  \/ m = Request(c, "START", TotalChunks[c], Nobody)
  \/ m = Request(c, "COMPLETE", TotalChunks[c], Nobody)
  \/ \E s \in ChunksOf(c) : m = Request(c, "DATA", s, c)

ToServerShape == \A m \in to_server : \E c \in Clients : SentBy(c, m)

\* COMPLETE_ACK goes to a client whose file was flushed, and that is never
\* taken back, not by a restart either.
ToClientShape ==
  \A m \in to_client :
    m.type = "COMPLETE_ACK" =>
      \E c \in flushed : m.destination = Endpoint[c] /\ m.session = Session[c]

\* The server serves some client, or has accepted nobody yet.
AcceptedShape ==
  /\ accepted = NoSession \/ \E c \in Clients : accepted = SessionOf(c)
  /\ server_pc \in {"data", "timewait"} => \E c \in Clients : accepted = SessionOf(c)

\* Both are functions on the whole of their domains.
FunctionShape ==
  /\ acked \in [Clients -> SUBSET Int]
  /\ output \in [0 .. accepted.total_chunks - 1 -> Clients \cup {Nobody}]

SInv ==
  /\ TypeOK
  /\ FunctionShape
  /\ AcceptedShape
  /\ NoMixture
  /\ ToServerShape
  /\ ToClientShape
  /\ DoneMeansFlushed

\* No two clients have both the endpoint and the session id.
LEMMA OneOwner ==
  ASSUME NEW c \in Clients, NEW d \in Clients,
         Endpoint[c] = Endpoint[d], Session[c] = Session[d]
  PROVE  c = d
BY SessionsAssumption

LEMMA InitSInv == Init => SInv
<1> SUFFICES ASSUME Init PROVE SInv
  OBVIOUS
<1> USE SessionsAssumption DEF Init
<1>1. accepted.total_chunks = 0
  BY DEF NoSession
<1>2. output \in [0 .. accepted.total_chunks - 1 -> Clients \cup {Nobody}]
  BY <1>1
<1>3. TypeOK /\ FunctionShape
  BY <1>1, <1>2 DEF TypeOK, FunctionShape
<1>4. received = {}
  BY DEF received
<1> QED
  BY <1>3, <1>4 DEF SInv, AcceptedShape, NoMixture, ToServerShape, ToClientShape,
                    DoneMeansFlushed

-----------------------------------------------------------------------------
(* The clients. *)

\* A client step cannot disturb what only the server changes.
LEMMA ClientFrame ==
  ASSUME SInv, UNCHANGED serverVars
  PROVE  /\ AcceptedShape' /\ NoMixture'
         /\ output' \in [0 .. accepted'.total_chunks - 1 -> Clients \cup {Nobody}]
         /\ server_pc' \in {"listen", "data", "timewait", "ended"}
         /\ DOMAIN output' = 0 .. accepted'.total_chunks - 1
         /\ \A s \in DOMAIN output' : output'[s] \in Clients \cup {Nobody}
         /\ restarts' \in 0 .. MaxRestarts
         /\ flushed' \subseteq Clients
BY DEF SInv, TypeOK, FunctionShape, AcceptedShape, NoMixture, received, Owner, serverVars

LEMMA ClientStepKeepsSInv ==
  ASSUME SInv, NEW c \in Clients,
         \/ StartClient(c)
         \/ ReceiveStartAck(c)
         \/ \E s \in ChunksOf(c) : SendData(c, s)
         \/ ReceiveAck(c)
         \/ SendComplete(c)
         \/ ReceiveCompleteAck(c)
         \/ ClientFails(c)
  PROVE  SInv'
<1>1. UNCHANGED serverVars /\ UNCHANGED to_client /\ UNCHANGED flushed
  BY DEF StartClient, ReceiveStartAck, SendData, ReceiveAck, SendComplete,
         ReceiveCompleteAck, ClientFails, serverVars
<1>2. client_pc \in [Clients -> {"off", "start", "data", "complete", "done", "rejected", "failed"}]
  BY DEF SInv, TypeOK
<1>3. client_pc' \in [Clients -> {"off", "start", "data", "complete", "done", "rejected", "failed"}]
  BY <1>2 DEF StartClient, ReceiveStartAck, SendData, ReceiveAck, SendComplete,
              ReceiveCompleteAck, ClientFails, MovesTo, clientVars
<1>4. /\ acked' \in [Clients -> SUBSET Int]
      /\ \A d \in Clients : acked'[d] \subseteq ChunksOf(d)
  <2>1. /\ acked \in [Clients -> SUBSET Int]
        /\ \A d \in Clients : acked[d] \subseteq ChunksOf(d)
    BY DEF SInv, TypeOK, FunctionShape
  <2>2. CASE ReceiveAck(c)
    <3>1. PICK m \in to_client : acked' = [acked EXCEPT ![c] = @ \cup (m.received \cap ChunksOf(c))]
      BY <2>2 DEF ReceiveAck
    <3>2. ChunksOf(c) \subseteq Int
      BY SessionsAssumption DEF ChunksOf
    <3> QED
      BY <2>1, <3>1, <3>2
  <2>3. CASE ~ReceiveAck(c)
    <3>1. UNCHANGED acked
      BY <2>3 DEF StartClient, ReceiveStartAck, SendData, SendComplete, ReceiveCompleteAck,
                  ClientFails, clientVars
    <3> QED
      BY <2>1, <3>1
  <2> QED
    BY <2>2, <2>3
<1>5. ToServerShape'
  <2>1. \A m \in to_server' : m \in to_server \/ SentBy(c, m)
    BY DEF StartClient, ReceiveStartAck, SendData, ReceiveAck, SendComplete,
           ReceiveCompleteAck, ClientFails, Send, SentBy, Request
  <2> QED
    BY <2>1 DEF SInv, ToServerShape
<1>6. ToClientShape'
  BY <1>1 DEF SInv, ToClientShape
<1>7. DoneMeansFlushed'
  <2>1. CASE ReceiveCompleteAck(c)
    <3>1. PICK m \in to_client : Expected(c, m, "COMPLETE_ACK")
      BY <2>1 DEF ReceiveCompleteAck
    <3>2. PICK d \in flushed : m.destination = Endpoint[d] /\ m.session = Session[d]
      BY <3>1 DEF SInv, ToClientShape, Expected
    <3>3. d = c
      BY <3>1, <3>2, OneOwner DEF SInv, TypeOK, Expected
    <3>4. client_pc' = [client_pc EXCEPT ![c] = "done"]
      BY <2>1 DEF ReceiveCompleteAck, MovesTo
    <3> QED
      BY <1>1, <1>2, <3>2, <3>3, <3>4 DEF SInv, DoneMeansFlushed
  <2>2. CASE ~ReceiveCompleteAck(c)
    <3>1. \A d \in Clients : client_pc'[d] = "done" => client_pc[d] = "done"
      BY <1>2, <2>2 DEF StartClient, ReceiveStartAck, SendData, ReceiveAck, SendComplete,
                        ClientFails, MovesTo, clientVars
    <3> QED
      BY <1>1, <3>1 DEF SInv, DoneMeansFlushed
  <2> QED
    BY <2>1, <2>2
<1>8. TypeOK' /\ FunctionShape'
  BY <1>1, <1>3, <1>4, ClientFrame DEF TypeOK, FunctionShape
<1> QED
  BY <1>1, <1>5, <1>6, <1>7, <1>8, ClientFrame DEF SInv

-----------------------------------------------------------------------------
(* The server. *)

\* A server step cannot disturb what only the clients change, as long as it
\* takes no flush back.
LEMMA ServerFrame ==
  ASSUME SInv, UNCHANGED <<clientVars, to_server>>, flushed \subseteq flushed'
  PROVE  /\ client_pc' \in [Clients -> {"off", "start", "data", "complete", "done", "rejected",
                                        "failed"}]
         /\ acked' \in [Clients -> SUBSET Int]
         /\ \A c \in Clients : acked'[c] \subseteq ChunksOf(c)
         /\ ToServerShape'
         /\ DoneMeansFlushed'
BY DEF SInv, TypeOK, FunctionShape, ToServerShape, DoneMeansFlushed, clientVars

\* A server step keeps the invariant if it keeps the server's part of it and
\* sends COMPLETE_ACK only to a client whose file it has flushed.
LEMMA ServerStepKeepsSInv ==
  ASSUME SInv, UNCHANGED <<clientVars, to_server>>,
         flushed \subseteq flushed', flushed' \subseteq Clients,
         restarts' \in 0 .. MaxRestarts,
         server_pc' \in {"listen", "data", "timewait", "ended"},
         output' \in [0 .. accepted'.total_chunks - 1 -> Clients \cup {Nobody}],
         AcceptedShape', NoMixture',
         \A m \in to_client' :
           \/ m \in to_client
           \/ m.type # "COMPLETE_ACK"
           \/ \E c \in flushed' : m.destination = Endpoint[c] /\ m.session = Session[c]
  PROVE  SInv'
<1>1. ToClientShape'
  BY DEF SInv, ToClientShape
<1>2. /\ DOMAIN output' = 0 .. accepted'.total_chunks - 1
      /\ \A s \in DOMAIN output' : output'[s] \in Clients \cup {Nobody}
  OBVIOUS
<1> QED
  BY <1>1, <1>2, ServerFrame DEF SInv, TypeOK, FunctionShape

\* A START, a chunk or a COMPLETE of the accepted session comes from the client
\* that was accepted.
LEMMA RequestFacts ==
  ASSUME SInv, NEW m \in to_server
  PROVE  /\ m.type = "START" =>
              \E c \in Clients : /\ m.source = Endpoint[c] /\ m.session = Session[c]
                                 /\ m.number = TotalChunks[c]
         /\ m.type = "DATA" =>
              \E c \in Clients : /\ m.source = Endpoint[c] /\ m.session = Session[c]
                                 /\ m.number \in ChunksOf(c) /\ m.bytes = c
<1>1. PICK c \in Clients : SentBy(c, m)
  BY DEF SInv, ToServerShape
<1>2. CASE m = Request(c, "START", TotalChunks[c], Nobody)
  BY <1>2 DEF Request
<1>3. CASE m = Request(c, "COMPLETE", TotalChunks[c], Nobody)
  BY <1>3 DEF Request
<1>4. CASE \E s \in ChunksOf(c) : m = Request(c, "DATA", s, c)
  <2>1. /\ m.type = "DATA" /\ m.source = Endpoint[c] /\ m.session = Session[c]
        /\ m.number \in ChunksOf(c) /\ m.bytes = c
    BY <1>4 DEF Request
  <2> QED
    BY <2>1
<1> QED
  BY <1>1, <1>2, <1>3, <1>4 DEF SentBy

LEMMA AcceptStartKeepsSInv == ASSUME SInv, AcceptStart PROVE SInv'
<1>1. PICK m \in to_server :
        /\ m.type = "START"
        /\ accepted' = [endpoint |-> m.source, session |-> m.session, total_chunks |-> m.number]
        /\ output' = [s \in 0 .. m.number - 1 |-> Nobody]
        /\ Reply(m.source, m.session, "START_ACK", "OK", {})
  BY DEF AcceptStart
<1>2. PICK c \in Clients : m.source = Endpoint[c] /\ m.session = Session[c]
                           /\ m.number = TotalChunks[c]
  BY <1>1, RequestFacts
<1>3. accepted' = SessionOf(c) /\ accepted'.total_chunks = m.number
  BY <1>1, <1>2 DEF SessionOf
<1>4. AcceptedShape'
  BY <1>3 DEF AcceptedShape
<1>5. output' \in [0 .. accepted'.total_chunks - 1 -> Clients \cup {Nobody}]
  BY <1>1, <1>3
<1>6. NoMixture'
  BY <1>1 DEF NoMixture, received
<1>7. \A x \in to_client' : x \in to_client \/ x.type # "COMPLETE_ACK"
  BY <1>1 DEF Reply
<1>8. /\ UNCHANGED <<clientVars, to_server, restarts, flushed>>
      /\ server_pc' = "data" /\ flushed \subseteq Clients /\ restarts \in 0 .. MaxRestarts
  BY DEF AcceptStart, SInv, TypeOK
<1> QED
  BY <1>4, <1>5, <1>6, <1>7, <1>8, ServerStepKeepsSInv

LEMMA AnswerStartKeepsSInv == ASSUME SInv, AnswerStart PROVE SInv'
<1>1. UNCHANGED <<clientVars, serverVars, to_server>>
  BY DEF AnswerStart
<1>2. \A x \in to_client' : x \in to_client \/ x.type # "COMPLETE_ACK"
  BY DEF AnswerStart, Reply
<1> QED
  BY <1>1, <1>2, ClientFrame, ServerStepKeepsSInv DEF serverVars, SInv, TypeOK

LEMMA ReceiveDataKeepsSInv == ASSUME SInv, ReceiveData PROVE SInv'
<1>1. PICK m \in to_server :
        /\ m.type = "DATA"
        /\ OfSession(m)
        /\ m.number < accepted.total_chunks
        /\ output' = IF m.number \in received THEN output
                     ELSE [output EXCEPT ![m.number] = m.bytes]
        /\ ReplyToClient("ACK", received \cup {m.number}) \/ UNCHANGED to_client
  BY DEF ReceiveData
<1>2. PICK c \in Clients : /\ m.source = Endpoint[c] /\ m.session = Session[c]
                           /\ m.number \in ChunksOf(c) /\ m.bytes = c
  BY <1>1, RequestFacts
<1>3. /\ UNCHANGED <<clientVars, server_pc, accepted, restarts, flushed, to_server>>
      /\ server_pc = "data"
  BY DEF ReceiveData
<1>4. /\ output \in [0 .. accepted.total_chunks - 1 -> Clients \cup {Nobody}]
      /\ AcceptedShape /\ NoMixture
      /\ flushed \subseteq Clients /\ restarts \in 0 .. MaxRestarts
  BY DEF SInv, FunctionShape, TypeOK
<1>5. output' \in [0 .. accepted'.total_chunks - 1 -> Clients \cup {Nobody}]
  BY <1>1, <1>2, <1>3, <1>4
<1>6. AcceptedShape'
  BY <1>3, <1>4 DEF AcceptedShape
<1>7. NoMixture'
  <2> SUFFICES ASSUME NEW s \in DOMAIN output', output'[s] # Nobody PROVE Owner(output[s])'
    BY DEF NoMixture, received
  <2>1. CASE output'[s] = output[s]
    BY <1>3, <1>4, <1>5, <2>1 DEF NoMixture, received, Owner
  <2>2. CASE output'[s] # output[s]
    <3>1. output'[s] = c
      BY <1>1, <1>2, <1>4, <2>2
    <3> QED
      BY <1>1, <1>2, <1>3, <3>1 DEF OfSession, Owner
  <2> QED
    BY <2>1, <2>2
<1>8. \A x \in to_client' : x \in to_client \/ x.type # "COMPLETE_ACK"
  BY <1>1 DEF ReplyToClient, Reply
<1> QED
  BY <1>3, <1>4, <1>5, <1>6, <1>7, <1>8, ServerStepKeepsSInv

\* A complete output without a mixture is the file of the accepted client.
LEMMA CompleteIsWhole ==
  ASSUME SInv, NEW c \in Clients, accepted = SessionOf(c), ReadyToComplete
  PROVE  WholeFileOf(c)
<1>1. output \in [ChunksOf(c) -> Clients \cup {Nobody}]
  BY DEF SInv, FunctionShape, SessionOf, ChunksOf
<1>2. ASSUME NEW s \in ChunksOf(c) PROVE output[s] = c
  <2>1. s \in received /\ output[s] \in Clients
    BY <1>1 DEF ReadyToComplete, received
  <2>2. Owner(output[s])
    BY <2>1 DEF SInv, NoMixture
  <2> QED
    BY <2>1, <2>2, OneOwner DEF Owner, SessionOf
<1> QED
  BY <1>1, <1>2 DEF WholeFileOf

LEMMA ReceiveCompleteKeepsSInv == ASSUME SInv, ReceiveComplete PROVE SInv'
<1>1. /\ UNCHANGED <<clientVars, accepted, output, restarts, to_server>>
      /\ server_pc \in {"data", "timewait"}
  BY DEF ReceiveComplete
<1>2. /\ output \in [0 .. accepted.total_chunks - 1 -> Clients \cup {Nobody}]
      /\ AcceptedShape /\ NoMixture
      /\ flushed \subseteq Clients /\ restarts \in 0 .. MaxRestarts
  BY DEF SInv, FunctionShape, TypeOK
<1>3. PICK c \in Clients : accepted = SessionOf(c)
  BY <1>1, <1>2 DEF AcceptedShape
<1>4. NoMixture'
  BY <1>1, <1>2 DEF NoMixture, received, Owner
<1>5. server_pc' \in {"data", "timewait"}
  BY <1>1 DEF ReceiveComplete
<1>6. AcceptedShape'
  BY <1>1, <1>3 DEF AcceptedShape
<1>7. /\ flushed \subseteq flushed' /\ flushed' \subseteq Clients
      /\ \A m \in to_client' :
           \/ m \in to_client
           \/ m.type # "COMPLETE_ACK"
           \/ \E d \in flushed' : m.destination = Endpoint[d] /\ m.session = Session[d]
  <2>1. CASE ReadyToComplete
    <3>1. /\ ReplyToClient("COMPLETE_ACK", received)
          /\ flushed' = flushed \cup {d \in Clients : WholeFileOf(d)}
      BY <2>1 DEF ReceiveComplete
    <3>2. c \in flushed'
      BY <1>3, <2>1, <3>1, CompleteIsWhole
    <3>3. ASSUME NEW m \in to_client', m \notin to_client
          PROVE  m.destination = Endpoint[c] /\ m.session = Session[c]
      BY <1>3, <3>1, <3>3 DEF ReplyToClient, Reply, SessionOf
    <3> QED
      BY <1>2, <3>1, <3>2, <3>3
  <2>2. CASE ~ReadyToComplete
    BY <1>2, <2>2 DEF ReceiveComplete, ReplyToClient, Reply
  <2> QED
    BY <2>1, <2>2
<1> QED
  BY <1>1, <1>2, <1>4, <1>5, <1>6, <1>7, ServerStepKeepsSInv

\* The server's end and its restart lose the session, and nothing else.
LEMMA EndAndRestartKeepSInv ==
  ASSUME SInv, ServerEnds \/ RestartServer PROVE SInv'
<1>1. UNCHANGED <<clientVars, to_server, to_client, flushed>>
  BY DEF ServerEnds, RestartServer
<1>2. /\ output \in [0 .. accepted.total_chunks - 1 -> Clients \cup {Nobody}]
      /\ AcceptedShape /\ NoMixture
      /\ flushed \subseteq Clients /\ restarts \in 0 .. MaxRestarts
  BY DEF SInv, FunctionShape, TypeOK
<1>3. CASE ServerEnds
  <2>1. UNCHANGED <<accepted, output, restarts>> /\ server_pc' = "ended"
    BY <1>3 DEF ServerEnds
  <2>2. AcceptedShape' /\ NoMixture'
    BY <1>2, <2>1 DEF AcceptedShape, NoMixture, received, Owner
  <2> QED
    BY <1>1, <1>2, <2>1, <2>2, ServerStepKeepsSInv
<1>4. CASE RestartServer
  <2>1. /\ accepted' = NoSession /\ output' = << >> /\ server_pc' = "listen"
        /\ restarts < MaxRestarts /\ restarts' = restarts + 1
    BY <1>4 DEF RestartServer
  <2>2. accepted'.total_chunks = 0
    BY <2>1 DEF NoSession
  <2>3. output' \in [0 .. accepted'.total_chunks - 1 -> Clients \cup {Nobody}]
    BY <2>1, <2>2
  <2>4. AcceptedShape' /\ NoMixture'
    BY <2>1 DEF AcceptedShape, NoMixture, received
  <2>5. restarts' \in 0 .. MaxRestarts
    BY <1>2, <2>1, SessionsAssumption
  <2> QED
    BY <1>1, <1>2, <2>1, <2>3, <2>4, <2>5, ServerStepKeepsSInv
<1> QED
  BY <1>3, <1>4

-----------------------------------------------------------------------------
(* The theorems. *)

LEMMA NextSInv == SInv /\ [Next]_vars => SInv'
<1> SUFFICES ASSUME SInv, [Next]_vars PROVE SInv'
  OBVIOUS
<1>1. ASSUME UNCHANGED vars PROVE SInv'
  <2>1. UNCHANGED <<clientVars, serverVars, to_server, to_client>>
    BY <1>1 DEF vars
  <2> QED
    BY <2>1, ClientFrame, ServerStepKeepsSInv DEF serverVars, SInv, TypeOK
<1> QED
  BY <1>1, ClientStepKeepsSInv, AcceptStartKeepsSInv, AnswerStartKeepsSInv,
     ReceiveDataKeepsSInv, ReceiveCompleteKeepsSInv, EndAndRestartKeepSInv DEF Next

\* Every reachable state satisfies the inductive invariant.
THEOREM SessionsInvariant == Spec => []SInv
BY InitSInv, NextSInv, PTL DEF Spec

\* Every variable keeps its type; the output keeps the size agreed on.
THEOREM SessionsTypeCorrect == Spec => []TypeOK
<1>1. SInv => TypeOK
  BY DEF SInv
<1> QED
  BY <1>1, SessionsInvariant, PTL

\* The output holds the bytes of one client only (server.cpp:322).
THEOREM NeverAMixture == Spec => []NoMixture
<1>1. SInv => NoMixture
  BY DEF SInv
<1> QED
  BY <1>1, SessionsInvariant, PTL

\* A client that reports success had its file flushed, through any number of
\* restarts of the server (server.cpp:396-410).
THEOREM SuccessIsEarned == Spec => []DoneMeansFlushed
<1>1. SInv => DoneMeansFlushed
  BY DEF SInv
<1> QED
  BY <1>1, SessionsInvariant, PTL
=============================================================================
