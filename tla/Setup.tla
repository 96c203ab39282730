-------------------------------- MODULE Setup --------------------------------
(***************************************************************************)
(* From the command lines of both programs to the first DATA packet: what  *)
(* is computed from the MTU, the rate and the file size, and where each of *)
(* them may be refused or a system call fail.  No datagram is lost here;   *)
(* module Transfer has lost and repeated handshakes.                       *)
(*                                                                         *)
(* client_pc: "parse" parse_options, "prepare" the first lines of          *)
(* run_client, "start" in the START handshake, "accepted" about to         *)
(* construct SenderWindow and Pacer, "data" in front of the first DATA,    *)
(* "sending" behind it, or "failed".  server_pc: "parse", "listen", "data" *)
(* or "failed".                                                            *)
(*                                                                         *)
(* The widths and sizes of the code are constants, to be scaled down.  A   *)
(* rate is counted in fractions of a bit per second, RateScale to the bit. *)
(***************************************************************************)
EXTENDS Integers, FiniteSets

CONSTANTS
  MaxU16, MaxU32, MaxU64,
  Overhead,       \* kIpv4UdpOverhead + kHeaderSize (52)
  WindowBytes,    \* kDefaultWindowBytes (8 MiB)
  BitmapBits,     \* kDefaultAckBitmapBits (8192)
  StartBytes,     \* the payload of START
  MaxOffset,      \* the largest off_t of the server's system
  RateScale,
  MtuOptions,     \* numbers given as --mtu
  RateOptions,    \* numbers given as --rate
  FileSizes,
  PathMtus        \* what the client's kernel may hold the path MTU to be

ASSUME SetupAssumption ==
  /\ {MaxU16, MaxU32, MaxU64, Overhead, WindowBytes, BitmapBits, StartBytes, MaxOffset,
      RateScale} \subseteq Nat \ {0}
  /\ Overhead < MaxU16 /\ MaxU16 < MaxU32 /\ MaxU32 < MaxU64
  /\ BitmapBits <= MaxU16
  /\ MtuOptions \subseteq Nat /\ RateOptions \subseteq Int /\ FileSizes \subseteq 0 .. MaxU64
  /\ PathMtus \subseteq Nat

VARIABLES
  client_pc, client_error,
  mtu, rate, file_size,       \* the client's options and its file
  path_mtu,                   \* larger datagrams are refused: IP_PMTUDISC_DO
  rate_bps,                   \* what the pacer is constructed with
  server_pc, server_mtu,
  start,                      \* the START payload the server accepted
  output_truncated            \* the server's old file is gone

optionVars == <<mtu, rate, file_size, path_mtu, server_mtu>>
vars == <<client_pc, client_error, optionVars, rate_bps, server_pc, start, output_truncated>>

NoStart == [file_size |-> 0, chunk_size |-> 0, total_chunks |-> 0, window_chunks |-> 0]

Smaller(a, b) == IF a < b THEN a ELSE b

\* static_cast<std::uint32_t>(std::stoul(...)).
ParsedMtu(option) == option % (MaxU32 + 1)

Init ==
  /\ client_pc = "parse" /\ client_error = "none"
  /\ \E option \in MtuOptions : mtu = ParsedMtu(option)
  /\ rate \in RateOptions
  /\ file_size \in FileSizes
  /\ path_mtu \in PathMtus
  /\ rate_bps = 0
  /\ server_pc = "parse"
  /\ \E option \in MtuOptions : server_mtu = ParsedMtu(option)
  /\ start = NoStart
  /\ output_truncated = FALSE

-----------------------------------------------------------------------------
(* Sizes. *)

\* chunk_size_for_mtu does not throw, and what it returns.
MtuAllowed(m) == m > Overhead /\ m <= MaxU16
chunk_size_for_mtu(m) == m - Overhead

\* Mutant: the last, short chunk is forgotten.
chunk_count_Floor(size, chunk) == size \div chunk

chunk_count(size, chunk) == size \div chunk + (IF size % chunk # 0 THEN 1 ELSE 0)

\* Mutant: the number of chunks is not limited.
CountAllowed_Any(count) == TRUE

\* chunk_count does not throw: every chunk has a 32-bit number.
CountAllowed(count) == count <= MaxU32

\* Mutant: a window of whole chunks that fit into WindowBytes.
window_chunks_Floor(chunk) == WindowBytes \div chunk

window_chunks(chunk) == (WindowBytes + chunk - 1) \div chunk

\* The START payload of this client.
Start ==
  LET chunk == chunk_size_for_mtu(mtu)
  IN [file_size |-> file_size, chunk_size |-> chunk,
      total_chunks |-> chunk_count(file_size, chunk),
      window_chunks |-> window_chunks(chunk)]

\* Where chunk s begins, and how much of the file it carries: payload_size of
\* the client, expected_size of the server.
ChunkOffset(s) == s * start.chunk_size
ChunkBytes(s) == Smaller(start.chunk_size, start.file_size - ChunkOffset(s))

-----------------------------------------------------------------------------
(* The client. *)

Fail(error) == client_pc' = "failed" /\ client_error' = error

\* Mutant: the rate is not looked at.
ParseClientOptions_NoRate ==
  /\ client_pc = "parse"
  /\ IF ~MtuAllowed(mtu) THEN Fail("options")
     ELSE client_pc' = "prepare" /\ UNCHANGED client_error
  /\ UNCHANGED <<optionVars, rate_bps, server_pc, start, output_truncated>>

ParseClientOptions ==
  /\ client_pc = "parse"
  /\ IF rate <= 0 \/ ~MtuAllowed(mtu) THEN Fail("options")
     ELSE client_pc' = "prepare" /\ UNCHANGED client_error
  /\ UNCHANGED <<optionVars, rate_bps, server_pc, start, output_truncated>>

PrepareTransfer ==
  /\ client_pc = "prepare"
  /\ IF ~CountAllowed(Start.total_chunks) THEN Fail("too many chunks")
     ELSE IF Start.window_chunks > BitmapBits THEN Fail("window exceeds ACK coverage")
     ELSE client_pc' = "start" /\ UNCHANGED client_error
  /\ UNCHANGED <<optionVars, rate_bps, server_pc, start, output_truncated>>

\* The kernel lets a datagram with this much payload pass.
Fits(payload) == Overhead + payload <= path_mtu

\* send_packet of START throws.
StartTooLong ==
  /\ client_pc = "start"
  /\ ~Fits(StartBytes)
  /\ Fail("sendto")
  /\ UNCHANGED <<optionVars, rate_bps, server_pc, start, output_truncated>>

\* Nobody listens: no attempt is answered.
HandshakeTimesOut ==
  /\ client_pc = "start"
  /\ Fits(StartBytes)
  /\ server_pc \in {"parse", "failed"}
  /\ Fail("timed out")
  /\ UNCHANGED <<optionVars, rate_bps, server_pc, start, output_truncated>>

\* The accepted window is the smaller one of the window and the bitmap.
AcceptedWindow == Smaller(start.window_chunks, BitmapBits)

\* rate_mbps * 1e6 as an unsigned number: cut off, and any number if it does
\* not fit.
RateInBits ==
  IF rate \div RateScale <= MaxU64 THEN {rate \div RateScale} ELSE {0, 1, MaxU64}

\* The tests of the accepted window and the constructors of SenderWindow and
\* Pacer, in this order.
EnterDataLoop ==
  /\ client_pc = "accepted"
  /\ rate_bps' \in RateInBits
  /\ IF AcceptedWindow = 0 \/ AcceptedWindow > BitmapBits THEN Fail("invalid window")
     ELSE IF rate_bps' = 0 THEN Fail("pacing rate")
     ELSE client_pc' = "data" /\ UNCHANGED client_error
  /\ UNCHANGED <<optionVars, server_pc, start, output_truncated>>

\* The first turn of the loop sends chunk 0, if the file has one.
SendFirstData ==
  /\ client_pc = "data"
  /\ start.total_chunks > 0
  /\ IF Fits(ChunkBytes(0)) THEN client_pc' = "sending" /\ UNCHANGED client_error
     ELSE Fail("sendmsg")
  /\ UNCHANGED <<optionVars, rate_bps, server_pc, start, output_truncated>>

\* Any other system call of run_client fails.
ClientThrows ==
  /\ client_pc \notin {"parse", "failed"}
  /\ Fail("system call")
  /\ UNCHANGED <<optionVars, rate_bps, server_pc, start, output_truncated>>

-----------------------------------------------------------------------------
(* The server. *)

ParseServerOptions ==
  /\ server_pc = "parse"
  /\ server_pc' = IF MtuAllowed(server_mtu) THEN "listen" ELSE "failed"
  /\ UNCHANGED <<client_pc, client_error, optionVars, rate_bps, start, output_truncated>>

\* The tests behind deserialize_start; the bitmap's width is the same constant
\* in both programs.
ValidStart ==
  /\ Start.chunk_size = chunk_size_for_mtu(server_mtu)
  /\ Start.total_chunks = chunk_count(Start.file_size, Start.chunk_size)
  /\ Start.window_chunks > 0

\* START meets a listening server.
StartArrives == client_pc = "start" /\ Fits(StartBytes) /\ server_pc = "listen"

\* INVALID_REQUEST: the server goes on listening.
RefuseStart ==
  /\ StartArrives
  /\ ~ValidStart
  /\ Fail("rejected")
  /\ UNCHANGED <<optionVars, rate_bps, server_pc, start, output_truncated>>

\* What has become of the old file when MappedOutputFile throws: open, which
\* truncates it, comes behind the test of the size and before ftruncate and
\* mmap.
TruncatedByFailure == IF file_size > MaxOffset THEN {FALSE} ELSE BOOLEAN

\* IO_ERROR: the output cannot be created, and the server exits.
CreateFails ==
  /\ StartArrives
  /\ ValidStart
  /\ output_truncated' \in TruncatedByFailure
  /\ server_pc' = "failed"
  /\ Fail("rejected")
  /\ UNCHANGED <<optionVars, rate_bps, start>>

AcceptStart ==
  /\ StartArrives
  /\ ValidStart
  /\ file_size <= MaxOffset
  /\ start' = Start
  /\ output_truncated' = TRUE
  /\ server_pc' = "data"
  /\ client_pc' = "accepted"
  /\ UNCHANGED <<client_error, optionVars, rate_bps>>

Next ==
  \/ ParseClientOptions
  \/ PrepareTransfer
  \/ StartTooLong
  \/ HandshakeTimesOut
  \/ EnterDataLoop
  \/ SendFirstData
  \/ ClientThrows
  \/ ParseServerOptions
  \/ RefuseStart
  \/ CreateFails
  \/ AcceptStart

Spec == Init /\ [][Next]_vars

-----------------------------------------------------------------------------
(* Properties. *)

\* Every variable has its type, and the computed numbers fit their integers.
TypeOK ==
  /\ client_pc \in {"parse", "prepare", "start", "accepted", "data", "sending", "failed"}
  /\ client_error \in {"none", "options", "too many chunks", "window exceeds ACK coverage",
                       "sendto", "timed out", "rejected", "invalid window", "pacing rate",
                       "sendmsg", "system call"}
  /\ mtu \in 0 .. MaxU32 /\ server_mtu \in 0 .. MaxU32
  /\ rate \in RateOptions
  /\ file_size \in FileSizes
  /\ path_mtu \in PathMtus
  /\ rate_bps \in 0 .. MaxU64
  /\ server_pc \in {"parse", "listen", "data", "failed"}
  /\ start.file_size \in 0 .. MaxU64
  /\ {start.chunk_size, start.total_chunks, start.window_chunks} \subseteq 0 .. MaxU32
  /\ output_truncated \in BOOLEAN

\* The chunks of an accepted transfer tile the file: none is empty, each byte
\* lies in exactly one, and the number behind the last chunk, which both ends
\* compute as sequence + 1, is still a 32-bit number (protocol.cpp:63-72;
\* client.cpp:553-555, server.cpp:331-333).
ChunksTile ==
  server_pc = "data" =>
    LET chunks == 0 .. start.total_chunks - 1
    IN /\ start.total_chunks <= MaxU32
       /\ \A s \in chunks : ChunkBytes(s) > 0
       /\ \A i \in 0 .. start.file_size - 1 :
            \E s \in chunks :
              /\ i - ChunkOffset(s) \in 0 .. ChunkBytes(s) - 1
              /\ \A t \in chunks \ {s} : i - ChunkOffset(t) \notin 0 .. ChunkBytes(t) - 1

\* The window that was negotiated keeps at least WindowBytes in flight and is
\* one that every ACK can report on (client.cpp:418-422, server.cpp:281).
WindowFits ==
  client_pc \in {"data", "sending"} =>
    /\ AcceptedWindow \in 1 .. BitmapBits
    /\ AcceptedWindow * start.chunk_size >= WindowBytes

\* Once the server has given up its old file for a transfer, no test of
\* options or sizes fails any more but the conversion of the rate to bits per
\* second (client.cpp:491).  What else may fail so late: the server cannot
\* resize or map the output it has just truncated (server.cpp:270-277,
\* file_io.cpp:76-94), the first DATA is too long for the path because --mtu
\* exceeds it (client.cpp:269-274), or some other system call of the client.
LateFailures ==
  output_truncated /\ client_pc = "failed" =>
    \/ client_error = "pacing rate" /\ rate > 0 /\ rate \div RateScale \notin 1 .. MaxU64
    \/ client_error = "rejected" /\ server_pc = "failed" /\ file_size <= MaxOffset
    \/ client_error = "sendmsg" /\ mtu > path_mtu
    \/ client_error = "system call"

\* client.cpp:188: "rate must be greater than zero".  So a greater rate is not
\* refused any more, least of all when the server's old file is gone; but
\* pacer.cpp:24 refuses a rate below one bit per second.
PositiveRateIsAccepted == client_error = "pacing rate" => rate <= 0
=============================================================================
