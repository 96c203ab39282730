----------------------------- MODULE SetupProofs -----------------------------
(***************************************************************************)
(* What holds of the options and sizes of a transfer for every MTU, rate   *)
(* and file size, with the integer widths of the code or any others.       *)
(***************************************************************************)
EXTENDS Setup, TLAPS

-----------------------------------------------------------------------------
(* Division. *)

\* The quotient by a positive number, by its bounds.
LEMMA QuotientBounds ==
  ASSUME NEW i \in Nat, NEW c \in Nat \ {0}, NEW s \in Nat
  PROVE  /\ i \div c \in Nat
         /\ i \div c = s <=> s * c <= i /\ i < s * c + c
<1> DEFINE q == i \div c
           r == i % c
<1>1. q \in Nat /\ r \in 0 .. c - 1 /\ i = q * c + r
  OBVIOUS
<1> HIDE DEF q, r
<1>2. q = s => s * c <= i /\ i < s * c + c
  BY <1>1
<1>3. ASSUME s * c <= i, i < s * c + c, q < s PROVE FALSE
  <2>1. (q + 1) * c <= s * c
    BY <1>1, <1>3
  <2> QED
    BY <1>1, <1>3, <2>1
<1>4. ASSUME s * c <= i, i < s * c + c, s < q PROVE FALSE
  <2>1. (s + 1) * c <= q * c
    BY <1>1, <1>4
  <2> QED
    BY <1>1, <1>4, <2>1
<1> QED
  BY <1>1, <1>2, <1>3, <1>4 DEF q

\* chunk_count counts every chunk that begins within the file, and no other.
LEMMA CountFacts ==
  ASSUME NEW size \in Nat, NEW c \in Nat \ {0}
  PROVE  /\ chunk_count(size, c) \in Nat
         /\ \A s \in Nat : s < chunk_count(size, c) <=> s * c < size
<1> DEFINE q == size \div c
           r == size % c
           n == chunk_count(size, c)
<1>1. q \in Nat /\ r \in 0 .. c - 1 /\ size = q * c + r
  OBVIOUS
<1>2. n = q + (IF r # 0 THEN 1 ELSE 0)
  BY DEF chunk_count
<1> HIDE DEF q, r, n
<1>3. n \in Nat
  BY <1>1, <1>2
<1>4. ASSUME NEW s \in Nat PROVE s < n <=> s * c < size
  <2>0. s * c \in Nat /\ q * c \in Nat
    BY <1>1
  <2>1. ASSUME s < q PROVE s < n /\ s * c < size
    <3>1. (s + 1) * c <= q * c /\ (s + 1) * c = s * c + c
      BY <1>1, <2>1
    <3> QED
      BY <1>1, <1>2, <2>0, <2>1, <3>1
  <2>2. ASSUME s = q PROVE s < n <=> s * c < size
    BY <1>1, <1>2, <2>0, <2>2
  <2>3. ASSUME s > q PROVE ~(s < n) /\ ~(s * c < size)
    <3>1. (q + 1) * c <= s * c /\ (q + 1) * c = q * c + c
      BY <1>1, <2>3
    <3> QED
      BY <1>1, <1>2, <2>0, <2>3, <3>1
  <2> QED
    BY <1>1, <2>1, <2>2, <2>3
<1> QED
  BY <1>3, <1>4 DEF n

\* window_chunks rounds up.
LEMMA WindowFacts ==
  ASSUME NEW c \in Nat \ {0}
  PROVE  /\ window_chunks(c) \in Nat \ {0}
         /\ window_chunks(c) * c >= WindowBytes
<1>0. WindowBytes \in Nat \ {0}
  BY SetupAssumption
<1> DEFINE w == (WindowBytes + c - 1) \div c
           i == WindowBytes + c - 1
<1>1. i \in Nat /\ w \in Nat
  BY <1>0, QuotientBounds
<1>2. i < w * c + c /\ w * c \in Nat
  BY <1>0, <1>1, QuotientBounds
<1> HIDE DEF w
<1>3. w * c >= WindowBytes
  BY <1>0, <1>1, <1>2
<1>4. w # 0
  BY <1>0, <1>1, <1>3
<1> QED
  BY <1>1, <1>3, <1>4 DEF w, window_chunks

-----------------------------------------------------------------------------
(* The inductive invariant. *)

\* The tests that lie behind each program point, and who has agreed to what.
ClientShape ==
  /\ client_pc \in {"prepare", "start", "accepted", "data", "sending"} =>
       rate > 0 /\ MtuAllowed(mtu)
  /\ client_pc \in {"start", "accepted", "data", "sending"} =>
       CountAllowed(Start.total_chunks) /\ Start.window_chunks <= BitmapBits
  /\ client_pc \in {"accepted", "data", "sending"} => server_pc = "data"

AgreementShape ==
  /\ server_pc = "data" => /\ start = Start
                           /\ rate > 0
                           /\ MtuAllowed(mtu)
                           /\ CountAllowed(Start.total_chunks)
                           /\ Start.window_chunks <= BitmapBits
                           /\ client_pc \in {"accepted", "data", "sending", "failed"}
  /\ server_pc # "data" => start = NoStart
  /\ output_truncated => \/ server_pc = "data"
                         \/ server_pc = "failed" /\ client_pc = "failed"

UInv == TypeOK /\ ClientShape /\ AgreementShape /\ LateFailures

LEMMA Widths ==
  /\ MaxU16 \in Nat \ {0} /\ MaxU32 \in Nat \ {0} /\ MaxU64 \in Nat \ {0}
  /\ Overhead \in Nat \ {0} /\ WindowBytes \in Nat \ {0} /\ BitmapBits \in Nat \ {0}
  /\ RateScale \in Nat \ {0} /\ MaxOffset \in Nat \ {0}
  /\ MaxU16 < MaxU32 /\ MaxU32 < MaxU64 /\ BitmapBits <= MaxU16
BY SetupAssumption

LEMMA NumbersAreNatural ==
  ASSUME TypeOK PROVE mtu \in Nat /\ path_mtu \in Nat /\ file_size \in Nat
<1>1. mtu \in 0 .. MaxU32 /\ path_mtu \in PathMtus /\ file_size \in FileSizes
  BY DEF TypeOK
<1>2. PathMtus \subseteq Nat /\ FileSizes \subseteq 0 .. MaxU64
  BY SetupAssumption
<1> QED
  BY <1>1, <1>2, Widths

\* What a START that passed the client's tests looks like.
LEMMA StartFacts ==
  ASSUME TypeOK, MtuAllowed(mtu)
  PROVE  /\ Start.file_size = file_size /\ file_size \in 0 .. MaxU64
         /\ Start.chunk_size \in 1 .. MaxU16
         /\ Start.total_chunks = chunk_count(file_size, Start.chunk_size)
         /\ Start.total_chunks \in Nat
         /\ Start.window_chunks = window_chunks(Start.chunk_size)
         /\ Start.window_chunks \in Nat \ {0}
<1> DEFINE c == chunk_size_for_mtu(mtu)
<1>1. c \in 1 .. MaxU16
  <2>1. mtu \in 0 .. MaxU32
    BY DEF TypeOK
  <2> QED
    BY <2>1, Widths DEF MtuAllowed, chunk_size_for_mtu
<1>2. c \in Nat \ {0}
  BY <1>1, Widths
<1>3. file_size \in 0 .. MaxU64 /\ file_size \in Nat
  <2>1. file_size \in FileSizes
    BY DEF TypeOK
  <2>2. FileSizes \subseteq 0 .. MaxU64
    BY SetupAssumption
  <2> QED
    BY <2>1, <2>2, Widths
<1> HIDE DEF c
<1>4. /\ Start.file_size = file_size /\ Start.chunk_size = c
      /\ Start.total_chunks = chunk_count(file_size, c)
      /\ Start.window_chunks = window_chunks(c)
  BY DEF Start, c
<1> QED
  BY <1>1, <1>2, <1>3, <1>4, CountFacts, WindowFacts

\* Start only depends on the options, which nobody changes.
LEMMA StartIsStable ==
  ASSUME UNCHANGED optionVars
  PROVE  Start' = Start /\ UNCHANGED <<mtu, rate, file_size, path_mtu, server_mtu>>
BY DEF optionVars, Start

LEMMA InitUInv == Init => UInv
<1> SUFFICES ASSUME Init PROVE UInv
  OBVIOUS
<1>1. mtu \in 0 .. MaxU32 /\ server_mtu \in 0 .. MaxU32
  <2>1. \A option \in MtuOptions : ParsedMtu(option) \in 0 .. MaxU32
    <3>1. MtuOptions \subseteq Nat
      BY SetupAssumption
    <3>2. \A option \in Nat : option % (MaxU32 + 1) \in 0 .. MaxU32
      BY Widths
    <3> QED
      BY <3>1, <3>2 DEF ParsedMtu
  <2> QED
    BY <2>1 DEF Init
<1>2. /\ start.file_size = 0 /\ start.chunk_size = 0 /\ start.total_chunks = 0
      /\ start.window_chunks = 0
  BY DEF Init, NoStart
<1>3. /\ rate_bps \in 0 .. MaxU64 /\ start.file_size \in 0 .. MaxU64
      /\ {start.chunk_size, start.total_chunks, start.window_chunks} \subseteq 0 .. MaxU32
  BY <1>2, Widths DEF Init
<1>4. TypeOK
  BY <1>1, <1>3 DEF Init, TypeOK
<1> QED
  BY <1>4 DEF Init, UInv, ClientShape, AgreementShape, LateFailures

LEMMA ParseClientKeepsUInv == ASSUME UInv, ParseClientOptions PROVE UInv'
<1>1. /\ client_pc = "parse"
      /\ UNCHANGED <<optionVars, rate_bps, server_pc, start, output_truncated>>
      /\ \/ client_pc' = "failed" /\ client_error' = "options"
         \/ client_pc' = "prepare" /\ client_error' = client_error /\ ~(rate <= 0) /\ MtuAllowed(mtu)
  BY DEF ParseClientOptions, Fail
<1>2. Start' = Start /\ UNCHANGED <<mtu, rate, file_size, path_mtu, server_mtu>>
  BY <1>1, StartIsStable DEF optionVars
<1>3. rate \in Int
  BY SetupAssumption DEF UInv, TypeOK
<1>4. TypeOK'
  BY <1>1, <1>2 DEF UInv, TypeOK
<1>5. server_pc # "data"
  BY <1>1 DEF UInv, AgreementShape
<1>6. ~(rate <= 0) => rate > 0
  BY <1>3
<1>7. ClientShape' /\ AgreementShape' /\ LateFailures'
  BY <1>1, <1>2, <1>5, <1>6
     DEF UInv, ClientShape, AgreementShape, LateFailures, MtuAllowed
<1> QED
  BY <1>4, <1>7 DEF UInv

LEMMA PrepareKeepsUInv == ASSUME UInv, PrepareTransfer PROVE UInv'
<1>1. /\ client_pc = "prepare"
      /\ UNCHANGED <<optionVars, rate_bps, server_pc, start, output_truncated>>
      /\ \/ /\ client_pc' = "failed"
            /\ client_error' \in {"too many chunks", "window exceeds ACK coverage"}
         \/ /\ client_pc' = "start" /\ client_error' = client_error
            /\ CountAllowed(Start.total_chunks) /\ ~(Start.window_chunks > BitmapBits)
  BY DEF PrepareTransfer, Fail
<1>2. Start' = Start /\ UNCHANGED <<mtu, rate, file_size, path_mtu, server_mtu>>
  BY <1>1, StartIsStable DEF optionVars
<1>3. rate > 0 /\ MtuAllowed(mtu) /\ server_pc # "data"
  BY <1>1 DEF UInv, ClientShape, AgreementShape
<1>4. Start.window_chunks \in Nat
  BY <1>3, StartFacts DEF UInv
<1>5. ~(Start.window_chunks > BitmapBits) => Start.window_chunks <= BitmapBits
  BY <1>4, Widths
<1>6. TypeOK'
  BY <1>1, <1>2 DEF UInv, TypeOK
<1>7. ClientShape' /\ AgreementShape' /\ LateFailures'
  BY <1>1, <1>2, <1>3, <1>5
     DEF UInv, ClientShape, AgreementShape, LateFailures, MtuAllowed, CountAllowed
<1> QED
  BY <1>6, <1>7 DEF UInv

LEMMA ParseServerKeepsUInv == ASSUME UInv, ParseServerOptions PROVE UInv'
<1>1. /\ server_pc = "parse" /\ server_pc' \in {"listen", "failed"}
      /\ UNCHANGED <<client_pc, client_error, optionVars, rate_bps, start, output_truncated>>
  BY DEF ParseServerOptions
<1>2. Start' = Start /\ UNCHANGED <<mtu, rate, file_size, path_mtu, server_mtu>>
  BY <1>1, StartIsStable DEF optionVars
<1>3. TypeOK'
  BY <1>1, <1>2 DEF UInv, TypeOK
<1>4. ClientShape' /\ AgreementShape' /\ LateFailures'
  BY <1>1, <1>2
     DEF UInv, ClientShape, AgreementShape, LateFailures, MtuAllowed, CountAllowed
<1> QED
  BY <1>3, <1>4 DEF UInv

\* A client may fail wherever it is, as long as it fails on something that
\* LateFailures knows, or early.
LEMMA FailingKeepsUInv ==
  ASSUME UInv, client_pc # "parse", client_pc' = "failed",
         client_error' \in {"sendto", "timed out", "rejected", "sendmsg", "system call"},
         UNCHANGED <<optionVars, rate_bps, server_pc, start, output_truncated>>,
         \/ ~output_truncated
         \/ client_error' = "sendmsg" /\ mtu > path_mtu
         \/ client_error' = "system call"
  PROVE  UInv'
<1>1. Start' = Start /\ UNCHANGED <<mtu, rate, file_size, path_mtu, server_mtu>>
  BY StartIsStable
<1>2. TypeOK'
  BY <1>1 DEF UInv, TypeOK
<1>3. ClientShape' /\ AgreementShape'
  BY <1>1 DEF UInv, ClientShape, AgreementShape, MtuAllowed, CountAllowed
<1>4. LateFailures'
  BY <1>1 DEF LateFailures
<1> QED
  BY <1>2, <1>3, <1>4 DEF UInv

\* Before START is accepted no file is lost.
LEMMA StartIsEarly == ASSUME UInv, client_pc = "start" PROVE ~output_truncated
BY DEF UInv, AgreementShape

LEMMA StartTooLongKeepsUInv == ASSUME UInv, StartTooLong PROVE UInv'
BY StartIsEarly, FailingKeepsUInv DEF StartTooLong, Fail

LEMMA HandshakeTimesOutKeepsUInv == ASSUME UInv, HandshakeTimesOut PROVE UInv'
BY StartIsEarly, FailingKeepsUInv DEF HandshakeTimesOut, Fail

LEMMA RefuseStartKeepsUInv == ASSUME UInv, RefuseStart PROVE UInv'
BY StartIsEarly, FailingKeepsUInv DEF RefuseStart, StartArrives, Fail

LEMMA ClientThrowsKeepsUInv == ASSUME UInv, ClientThrows PROVE UInv'
BY FailingKeepsUInv DEF ClientThrows, Fail

LEMMA CreateFailsKeepsUInv == ASSUME UInv, CreateFails PROVE UInv'
<1>1. /\ client_pc = "start" /\ server_pc = "listen"
      /\ output_truncated' \in IF file_size > MaxOffset THEN {FALSE} ELSE BOOLEAN
      /\ server_pc' = "failed" /\ client_pc' = "failed" /\ client_error' = "rejected"
      /\ UNCHANGED <<optionVars, rate_bps, start>>
  BY DEF CreateFails, StartArrives, TruncatedByFailure, Fail
<1>2. Start' = Start /\ UNCHANGED <<mtu, rate, file_size, path_mtu, server_mtu>>
  BY <1>1, StartIsStable
<1>3. TypeOK'
  BY <1>1, <1>2 DEF UInv, TypeOK
<1>4. ClientShape' /\ AgreementShape'
  BY <1>1, <1>2 DEF UInv, ClientShape, AgreementShape
<1>5. file_size \in Nat /\ MaxOffset \in Nat
  BY NumbersAreNatural, Widths DEF UInv
<1>6. ~(file_size > MaxOffset) => file_size <= MaxOffset
  BY <1>5
<1>7. LateFailures'
  BY <1>1, <1>2, <1>6 DEF LateFailures
<1> QED
  BY <1>3, <1>4, <1>7 DEF UInv

LEMMA AcceptStartKeepsUInv == ASSUME UInv, AcceptStart PROVE UInv'
<1>1. /\ client_pc = "start" /\ server_pc = "listen"
      /\ start' = Start /\ output_truncated' = TRUE
      /\ server_pc' = "data" /\ client_pc' = "accepted"
      /\ UNCHANGED <<client_error, optionVars, rate_bps>>
  BY DEF AcceptStart, StartArrives
<1>2. Start' = Start /\ UNCHANGED <<mtu, rate, file_size, path_mtu, server_mtu>>
  BY <1>1, StartIsStable
<1>3. /\ rate > 0 /\ MtuAllowed(mtu) /\ CountAllowed(Start.total_chunks)
      /\ Start.window_chunks <= BitmapBits /\ TypeOK
  BY <1>1 DEF UInv, ClientShape
<1>4. /\ Start.file_size \in 0 .. MaxU64
      /\ {Start.chunk_size, Start.total_chunks, Start.window_chunks} \subseteq 0 .. MaxU32
  BY <1>3, StartFacts, Widths DEF CountAllowed
<1>5. TypeOK'
  BY <1>1, <1>2, <1>3, <1>4 DEF TypeOK
<1>6. MtuAllowed(mtu') /\ CountAllowed(Start'.total_chunks) /\ Start'.window_chunks <= BitmapBits
  BY <1>2, <1>3
<1> QED
  BY <1>1, <1>2, <1>3, <1>5, <1>6 DEF UInv, ClientShape, AgreementShape, LateFailures

\* The accepted window is the one that was asked for.
LEMMA AcceptedWindowFacts ==
  ASSUME UInv, server_pc = "data"
  PROVE  /\ AcceptedWindow = start.window_chunks
         /\ AcceptedWindow \in 1 .. BitmapBits
         /\ start.chunk_size \in Nat
         /\ AcceptedWindow * start.chunk_size >= WindowBytes
<1>1. start = Start /\ MtuAllowed(mtu) /\ Start.window_chunks <= BitmapBits /\ TypeOK
  BY DEF UInv, AgreementShape
<1>2. /\ Start.window_chunks \in Nat \ {0}
      /\ Start.chunk_size \in 1 .. MaxU16
      /\ Start.window_chunks = window_chunks(Start.chunk_size)
  BY <1>1, StartFacts
<1>3. AcceptedWindow = start.window_chunks
  BY <1>1, <1>2, Widths DEF AcceptedWindow, Smaller
<1>4. Start.chunk_size \in Nat \ {0}
  BY <1>2, Widths
<1>5. Start.window_chunks * Start.chunk_size >= WindowBytes
  BY <1>2, <1>4, WindowFacts
<1>6. Start.window_chunks \in 1 .. BitmapBits
  BY <1>1, <1>2, Widths
<1> QED
  BY <1>1, <1>3, <1>4, <1>5, <1>6

LEMMA EnterDataLoopKeepsUInv == ASSUME UInv, EnterDataLoop PROVE UInv'
<1>1. /\ client_pc = "accepted"
      /\ rate_bps' \in RateInBits
      /\ UNCHANGED <<optionVars, server_pc, start, output_truncated>>
  BY DEF EnterDataLoop
<1>2. Start' = Start /\ UNCHANGED <<mtu, rate, file_size, path_mtu, server_mtu>>
  BY <1>1, StartIsStable DEF optionVars
<1>3. server_pc = "data" /\ rate > 0 /\ rate \in Nat
  <2>1. server_pc = "data" /\ rate > 0
    BY <1>1 DEF UInv, ClientShape
  <2>2. rate \in RateOptions
    BY DEF UInv, TypeOK
  <2>3. rate \in Int
    BY <2>2, SetupAssumption
  <2> QED
    BY <2>1, <2>3
<1>4. AcceptedWindow \in 1 .. BitmapBits
  BY <1>3, AcceptedWindowFacts
<1>5. ~(AcceptedWindow = 0 \/ AcceptedWindow > BitmapBits)
  BY <1>4, Widths
<1>6. \/ client_pc' = "failed" /\ client_error' = "pacing rate" /\ rate_bps' = 0
      \/ client_pc' = "data" /\ client_error' = client_error
  BY <1>5 DEF EnterDataLoop, Fail
<1> DEFINE bits == rate \div RateScale
<1>7. bits \in Nat
  BY <1>3, Widths, QuotientBounds
<1>8. rate_bps' \in IF bits <= MaxU64 THEN {bits} ELSE {0, 1, MaxU64}
  BY <1>1 DEF RateInBits
<1> HIDE DEF bits
<1>9. rate_bps' \in 0 .. MaxU64 /\ (rate_bps' = 0 => bits \notin 1 .. MaxU64)
  BY <1>7, <1>8, Widths
<1>10. TypeOK'
  BY <1>1, <1>2, <1>6, <1>9 DEF UInv, TypeOK
<1>11. LateFailures'
  BY <1>2, <1>3, <1>6, <1>9 DEF LateFailures, bits
<1>12. ClientShape' /\ AgreementShape'
  BY <1>1, <1>2, <1>3, <1>6
     DEF UInv, ClientShape, AgreementShape, MtuAllowed, CountAllowed
<1> QED
  BY <1>10, <1>11, <1>12 DEF UInv

\* A first chunk too long for the path comes from an MTU that exceeds it.
LEMMA SendFirstDataKeepsUInv == ASSUME UInv, SendFirstData PROVE UInv'
<1>1. /\ client_pc = "data" /\ server_pc = "data" /\ TypeOK
      /\ UNCHANGED <<optionVars, rate_bps, server_pc, start, output_truncated>>
      /\ start = Start /\ MtuAllowed(mtu)
  BY DEF SendFirstData, UInv, ClientShape, AgreementShape
<1>2. CASE client_pc' = "sending" /\ UNCHANGED client_error
  <2>1. Start' = Start /\ UNCHANGED <<mtu, rate, file_size, path_mtu, server_mtu>>
    BY <1>1, StartIsStable
  <2>2. TypeOK'
    BY <1>1, <1>2, <2>1 DEF TypeOK
  <2> QED
    BY <1>1, <1>2, <2>1, <2>2
       DEF UInv, ClientShape, AgreementShape, LateFailures, MtuAllowed, CountAllowed
<1>3. CASE ~Fits(ChunkBytes(0)) /\ Fail("sendmsg")
  <2> DEFINE b == ChunkBytes(0)
  <2>1. /\ start.chunk_size = mtu - Overhead
        /\ start.file_size \in Nat /\ mtu \in Nat /\ path_mtu \in Nat
    BY <1>1, NumbersAreNatural DEF Start, chunk_size_for_mtu
  <2>2. b \in Int /\ b <= mtu - Overhead
    BY <1>1, <2>1, Widths DEF ChunkBytes, ChunkOffset, Smaller
  <2>3. ~(Overhead + b <= path_mtu)
    BY <1>3 DEF Fits
  <2> HIDE DEF b
  <2>4. mtu > path_mtu
    BY <2>1, <2>2, <2>3, Widths
  <2> QED
    BY <1>1, <1>3, <2>4, FailingKeepsUInv DEF Fail
<1> QED
  BY <1>2, <1>3 DEF SendFirstData

LEMMA NextUInv == UInv /\ [Next]_vars => UInv'
<1> SUFFICES ASSUME UInv, [Next]_vars PROVE UInv'
  OBVIOUS
<1>1. ASSUME UNCHANGED vars PROVE UInv'
  <2>1. /\ UNCHANGED <<client_pc, client_error, mtu, rate, file_size, path_mtu, server_mtu,
                       rate_bps, server_pc, start, output_truncated>>
        /\ Start' = Start
    BY <1>1, StartIsStable DEF vars, optionVars
  <2>2. TypeOK'
    BY <2>1 DEF UInv, TypeOK
  <2> QED
    BY <2>1, <2>2 DEF UInv, ClientShape, AgreementShape, LateFailures, MtuAllowed,
                      CountAllowed
<1> QED
  BY <1>1, ParseClientKeepsUInv, PrepareKeepsUInv, StartTooLongKeepsUInv,
     HandshakeTimesOutKeepsUInv, EnterDataLoopKeepsUInv, SendFirstDataKeepsUInv,
     ClientThrowsKeepsUInv, ParseServerKeepsUInv, RefuseStartKeepsUInv,
     CreateFailsKeepsUInv, AcceptStartKeepsUInv DEF Next

\* The tests that lie behind each program point hold there, whatever the two
\* command lines and the file.
THEOREM SetupInvariant == Spec => []UInv
BY InitUInv, NextUInv, PTL DEF Spec

\* No number computed from the options leaves the integer it is stored in:
\* chunk size, chunk count, window and pacing rate.
THEOREM SetupTypeCorrect == Spec => []TypeOK
<1>1. UInv => TypeOK
  BY DEF UInv
<1> QED
  BY <1>1, SetupInvariant, PTL

\* Once the old file is gone, no test of options or sizes fails but the
\* conversion of the rate: a client that fails then has met that, a path too
\* narrow for its MTU, an output that could not be created, or a failing
\* system call.
THEOREM LateFailuresAreKnown == Spec => []LateFailures
<1>1. UInv => LateFailures
  BY DEF UInv
<1> QED
  BY <1>1, SetupInvariant, PTL

\* Every negotiated window keeps WindowBytes in flight and fits an ACK.
THEOREM WindowAlwaysFits == Spec => []WindowFits
<1>1. ASSUME UInv, client_pc \in {"data", "sending"} PROVE server_pc = "data"
  BY <1>1 DEF UInv, ClientShape
<1>2. UInv => WindowFits
  BY <1>1, AcceptedWindowFacts DEF WindowFits
<1> QED
  BY <1>2, SetupInvariant, PTL

\* The chunks of every accepted transfer tile its file, whatever its size and
\* the MTU.
THEOREM ChunksTileFile == Spec => []ChunksTile
<1>1. ASSUME UInv, server_pc = "data" PROVE ChunksTile
  <2> DEFINE c == start.chunk_size
             size == start.file_size
             n == start.total_chunks
  <2>1. start = Start /\ MtuAllowed(mtu) /\ CountAllowed(Start.total_chunks) /\ TypeOK
    BY <1>1 DEF UInv, AgreementShape
  <2>2. c \in 1 .. MaxU16 /\ size \in 0 .. MaxU64 /\ n = chunk_count(size, c)
    BY <2>1, StartFacts
  <2>3. c \in Nat \ {0} /\ size \in Nat
    BY <2>2, Widths
  <2>4. n <= MaxU32
    BY <2>1 DEF CountAllowed
  <2> HIDE DEF c, size, n
  <2>5. n \in Nat /\ \A s \in Nat : s < n <=> s * c < size
    BY <2>2, <2>3, CountFacts
  <2>6. \A s \in Nat : ChunkOffset(s) = s * c /\ ChunkBytes(s) = Smaller(c, size - s * c)
    BY DEF ChunkOffset, ChunkBytes, c, size
  <2>7. ASSUME NEW s \in 0 .. n - 1 PROVE s \in Nat /\ s * c \in Nat /\ s * c < size
    BY <2>3, <2>5
  <2>8. ASSUME NEW s \in 0 .. n - 1 PROVE ChunkBytes(s) > 0
    <3> DEFINE o == s * c
    <3>1. o \in Nat /\ o < size /\ ChunkBytes(s) = Smaller(c, size - o)
      BY <2>6, <2>7
    <3> HIDE DEF o
    <3> QED
      BY <2>3, <3>1 DEF Smaller
  <2>9. ASSUME NEW i \in 0 .. size - 1, NEW s \in 0 .. n - 1
        PROVE  i - ChunkOffset(s) \in 0 .. ChunkBytes(s) - 1 <=> i \div c = s
    <3> DEFINE o == s * c
    <3>1. i \div c = s <=> o <= i /\ i < o + c
      BY <2>3, <2>7, QuotientBounds
    <3>2. /\ o \in Nat /\ o < size
          /\ ChunkOffset(s) = o /\ ChunkBytes(s) = Smaller(c, size - o)
      BY <2>6, <2>7
    <3> HIDE DEF o
    <3> QED
      BY <2>3, <3>1, <3>2 DEF Smaller
  <2>10. ASSUME NEW i \in 0 .. size - 1 PROVE i \div c \in 0 .. n - 1
    <3> DEFINE q == i \div c
    <3>1. i \in Nat /\ q \in Nat
      BY <2>3, QuotientBounds
    <3>2. q * c <= i /\ q * c \in Nat
      BY <2>3, <3>1, QuotientBounds
    <3> HIDE DEF q
    <3>3. q < n
      BY <2>3, <2>5, <3>1, <3>2
    <3> QED
      BY <2>5, <3>1, <3>3 DEF q
  <2>11. ASSUME NEW i \in 0 .. size - 1
         PROVE  \E s \in 0 .. n - 1 :
                  /\ i - ChunkOffset(s) \in 0 .. ChunkBytes(s) - 1
                  /\ \A t \in (0 .. n - 1) \ {s} :
                       i - ChunkOffset(t) \notin 0 .. ChunkBytes(t) - 1
    <3>1. i \div c \in 0 .. n - 1
      BY <2>10
    <3> HIDE DEF n
    <3> QED
      BY <2>9, <3>1
  <2> QED
    BY <2>4, <2>8, <2>11 DEF ChunksTile, n, size
<1>2. UInv => ChunksTile
  BY <1>1 DEF ChunksTile
<1> QED
  BY <1>2, SetupInvariant, PTL

=============================================================================
