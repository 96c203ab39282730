# Reliable file transfer over UDP: a TLA+ model

The program (`src/`) copies one file from a client to a server over UDP: a
START handshake, DATA packets paced at a fixed rate, cumulative and selective
acknowledgements, selective retransmission, and a COMPLETE handshake after the
server has flushed its output. The modules here model that protocol from the
C++ source, TLC checks them on small instances, and TLAPS proves all their
safety properties, and that the transfer implements its abstract specification,
for every instance. `PROJECT.json` maps each definition to the lines it stands
for.

## The system

Both programs are single-threaded event loops; the concurrency is between the
two processes and the network.

| Component | State | Operations | Correct when |
|---|---|---|---|
| `SenderWindow` (`reliability.cpp`) | per chunk: UNSENT / IN_FLIGHT / ACKED, last send time, retransmit flags, evidence counters; `base_`, `next_sequence_`, `outstanding_chunks_`, the retransmission queue | `select_next_packet`, `mark_sent`, `process_ack`, `check_timeouts` | counters agree with the states, no wanted retransmission is lost, the two limits on new data hold, duplicate ACKs cause nothing |
| client data loop (`client.cpp:501`) | the program point, the chosen packet | drain ACKs, check timeouts, select, wait for the pacer, send, record, drain again, or wait 10 ms for an ACK | a packet chosen before the pacer's wait may still be recorded after it; the loop ends, and only when all is acknowledged |
| client handshakes (`client.cpp`) | phase, attempt | START and COMPLETE, ten attempts one second apart | success is reported only for a complete, flushed file |
| `ReceiverTracker` (`reliability.cpp`) | which chunks arrived, three counters | `mark_received`, `make_ack_snapshot` | counters are those of the set; every arrived chunk is reportable |
| server (`server.cpp`) | phase, session, `ack_pending`, `packets_since_ack`, the ACK time | accept or refuse START, take DATA, withhold or send ACKs, answer COMPLETE, TIME_WAIT | each chunk is written once where it belongs; a COMPLETE is confirmed after the flush only |
| file I/O (`file_io.cpp`) | the mapped output | create, truncate, extend, write, `msync` | the bytes are those of the source |
| wire format (`protocol.cpp`) | none | header, payloads, chunk arithmetic | what is decoded is what was encoded |
| `Pacer` (`pacer.cpp`) | tokens, the time of the last refill | `wait_for_slot`: refill, sleep or spin, pay | any interval carries at most rate times time plus a burst; every wait ends |
| options and sizes (`client.cpp`, `server.cpp`, `protocol.cpp`) | MTU, rate, chunk size and count, window | parse, compute, negotiate | the chunks tile the file, the window fits the bitmap, and options are refused before the old output is lost |

They interact by datagrams only: START, DATA and COMPLETE to the server,
START_ACK, ACK and COMPLETE_ACK to the client. Hard behaviours: every datagram
may be lost, repeated, delayed or overtaken; ACKs are withheld with no timer
behind them; timeouts race late answers; a chunk is selected before and
recorded after a wait; either process may die between any two steps; and the
window, the bitmap and the ACK threshold are limits that have to hold at their
edge. `PROJECT.json` lists these as hazards, each at its line.

## Modules

    Common ---- SenderWindow ---- SenderLoop --+-- SenderAlone -- MCSenderAlone
       |                                       |
       +---- InputFile, Network --- Client ----+
       |                                       +-- Transfer -- MCTransfer
       +---- ReceiverTracker ------ Server ----+      :
                                                 FileTransfer (abstract)

    Pacer, Closing, Protocol, Setup, Sessions: each with its MC module

Proofs:

    SenderLoop -- WindowProofs --+-- SenderProofs    (with SenderAlone)
                                 +-- TransferProofs  (with Transfer)
    PacerProofs, ClosingProofs, ProtocolProofs, SetupProofs, SessionsProofs

* `Common`: chunk numbers and the ACK payload. A bitmap is the set of its one bits.
* `SenderWindow`: the class, one action per operation; `select_next_packet` is
  three actions, one per kind of result. A loop over chunks becomes the set of
  chunks its body changes, and the order survives where it shows, in the queue
  (`Descending` for the backward scan of `process_ack`, `Ascending` for
  `check_timeouts`). A chunk's last send time is its age in ticks, capped at
  `Rto`: the code compares it with the retry delay and the timeout only.
* `SenderLoop`: the order in which the client calls these. `loop_pc` is the place
  in the iteration. It states the sender's properties, which hold whoever drives
  the loop.
* `SenderAlone`: the loop against an environment that offers any ACK payload of
  `AckInputs` whenever the socket is read.
* `ReceiverTracker`: the class.
* `InputFile`, `Network`: the file and its chunks; UDP. A channel is a set of
  datagrams from which a receive takes a copy, so that any datagram may arrive
  any number of times and in any order; one may also never be read. A send into
  a full channel loses the new datagram or an older one: `Capacity` bounds how
  many different datagrams may still be on the way.
* `Server`, `Client`: `run_server` with `time_wait`, and `run_client`. One
  iteration of the server's loop is one action, since it acts only on a datagram.
  `CreateFails`, `SyncFails`, `ServerThrows` and `ClientThrows` are the failures:
  exceptions that leave the program, or its death.
* `FileTransfer`: what a transfer promises, without packets. The file is created
  once; bytes change only from zero to the source's; the file is committed when
  whole, once; the sender succeeds only after that.
* `Transfer`: client, server and network together, fairness, and the properties
  that relate the two ends. `Promise` is the refinement mapping to `FileTransfer`.

The modules below stand alone. Each takes up one aspect that `Transfer` abstracts
from, and abstracts from the rest.

* `Pacer`: the token bucket. `wait_for_slot` is split at its sleeps, since time
  passes there: `PayOrWait` is what the code does between two of them. Time is kept
  as differences (`elapsed`, `left`), and tokens are whole bytes. `surplus` is a
  history variable: the most by which the bytes sent in an interval that ends now
  exceed rate times its length. `reset` is modelled although nothing calls it.
* `Closing`: the COMPLETE handshake in real time. A tick passes only when nothing
  is due; datagrams have an age and arrive within `MaxDelay`, less than a time-out;
  the flush may take any time, during which COMPLETEs wait in the socket, and it may
  throw (`SyncFails`), which ends the server and which nobody is told.
* `Protocol`: the bytes of a datagram, with the field offsets given twice, as in the
  code, once where they are written and once where they are read; what the decoders
  refuse; and the network that may alter, cut or lengthen a datagram. A number is
  written as its digits and read back from them; the powers and sums in this are
  recursive functions, which can be proved about. `PacketHeader`, `StartPayload` and
  so on are the structs of `protocol.hpp`, with the widths of their fields, and
  `SentAssumption` says that what is sent is of these types.
* `Setup`: from the options of both programs to the first DATA packet: what is
  computed, in integers of a given width, where it is refused, and what has become of
  the server's old output by then. START is refused (`RefuseStart`), the output cannot
  be created, before or after it was truncated (`CreateFails`), or START is accepted
  (`AcceptStart`). `path_mtu` is what the client's kernel holds the path MTU to be:
  with `IP_PMTUDISC_DO` it refuses a longer START (`StartTooLong`) or first DATA
  packet (`SendFirstData`). `ClientThrows` stands for every other system call of
  `run_client`, also for a later packet refused because the kernel has learnt of a
  smaller MTU.
* `Sessions`: several clients that share endpoints or session ids, BUSY, and a
  server that ends or dies and is started again while datagrams of the run before
  are on the way. The window and the attempts of the detailed client are left out.

An operator named `X_Something` in front of an operator `X` is a mutant of it: a
plausible slip in that code that some property must notice. Nothing uses it.

Abstractions of `Transfer` and what it is made of: time is ticks that may fall between any two
steps of the client's data loop; `now >= next_ack_time` is a free choice, except
for the packet that has just set `next_ack_time`; diagnostics and statistics that
nothing reads are left out. In `Transfer`, TIME_WAIT may end at any moment (its
length is in `Closing`), the pacer's wait may take any time (`Pacer`), and session
and source tests always succeed, as there is one client (`Sessions`).

## Runs

| Run | Configuration | Checks |
|---|---|---|
| `sender` | `MCSenderAlone.cfg` | all ten properties of the sender |
| `transfer` | `MCTransfer.cfg` | types, agreement of the ends, success means file, no spurious failure, COMPLETE never early, clean refusal, refinement of `FileTransfer` |
| `coverage` | `MCWindow.cfg` | agreement of the ends, SACK coverage, tracker counters |
| `liveness` | `MCLiveness.cfg` | `ClientEnds` |
| `sack_every` | `MCSackEvery.cfg` | shows that a sentence of the design document does not hold |
| `pacer` | `MCPacer.cfg` | bounds of bucket and waits, the rate over any interval, one wait is enough, oversleep is credited, every wait ends |
| `closing` | `MCClosing.cfg` | the server outlives a retrying client, failures are explained, the server leaves |
| `wire` | `MCProtocol.cfg` | round trip, only canonical datagrams are accepted, no partial bitmap is applied |
| `setup` | `MCSetup.cfg` | integer widths, chunks tile the file, the window fits, what may fail when the old output is gone |
| `late_rate` | `MCSetupRate.cfg` | shows that a positive rate can be refused, and late |
| `sessions` | `MCSessions.cfg` | output sizes, no mixture of clients, success means a flushed file |

**Bounds.** `sender`: four chunks, a window of two and a bitmap of three bits, so
that both limits bind, at different moments; every snapshot of every subset of
the chunks is offered at any time, also of chunks never sent; with a threshold of
one and a retry delay below the timeout, repeated fast retransmission, evidence
within the retry delay and timeouts all occur. Larger instances are covered by
the proofs. `transfer`: two chunks, the last one short, two handshake attempts,
and servers with a matching and with another MTU. With two datagrams per
direction a new and an old one meet in either order, and any third send loses
one. `coverage`: three chunks and a bitmap of two bits, so that the window slides
past a bitmap's length while a gap stays open; one handshake attempt is enough
here. `AckPacketThreshold` 2 lets an ACK be withheld and also be forced by the
count. Time is two ticks at most (`RetryDelay` 1, `Rto` 1 or 2). `pacer`: packets
below half a bucket, above half, above two thirds and above all of it, a rate that
does not divide the bucket, waits that are cut at `MaxWait` and ones that are not, and clocks
that run on for up to seven ticks between two readings. `closing`: the code's ten
attempts and its ratio of three timeouts to TIME_WAIT, three ticks to a timeout, a
delay of up to two ticks, four losses (one more than the bound to be shown) and one
copy. `wire`: bytes of three bits, which leaves room for all packet types and
flags; every field has a value with different digits, all 128 bitmaps of seven bits
are encoded, and one byte anywhere takes every value. `setup`: widths scaled to 3
and 4 bits; all MTUs up to beyond the limit, also ones that wrap around in
`static_cast<std::uint32_t>`, and all file sizes up to one chunk too many and beyond
the largest file offset; paths on which START does not fit, on which it fits and long
DATA does not, and on which all fit.
`late_rate` uses the code's packet, window and bitmap sizes; its 32- and 64-bit integers
are scaled, as TLC's integers are narrower. `sessions`: three clients, two of one endpoint and
two of one session id, files of one and two chunks, one restart.

**Deadlock** is checked for the sender alone, whose loop must never be stuck. It
is not checked for the transfer: the system may really stop, for instance when
the client has failed and the server blocks in `recvfrom`. It is checked for the
pacer, and not for the other modules, where both programs end or a datagram
arrives.

**Fairness** (`FairSpec`). The client's process keeps running and its clock keeps
advancing (weak fairness): it blocks in no call without a timeout. Of the network:
a chunk sent again and again eventually gets into the channel; a chunk's first
copy, or one sent again, that can be received again and again is received; the
ACK it causes gets out, and an ACK with news is eventually read (strong fairness).
This is the least under which any retransmission protocol can end. In particular
the network owes no second copy of a datagram sent once, so a withheld ACK at the
tail of the file really has to be recovered by the sender's timeout. Copies of
START do not circulate for ever, since the client sends finitely many. The server
is not assumed to live: `ClientEnds` says that the client ends unless the server
dies, because the data loop has no limit on retransmissions (`client.cpp:501`).
`Pacer`: the clock runs, and a sleep or busy loop whose time is over ends.
`Closing`: time passes and both processes run; the flush returns or throws at some
time.

**What the runs show.** Every property holds, with one exception in the
documentation: `docs/design.md:43` says that the server sends one SACK after every
valid DATA packet, and `server.cpp:374-391` withholds ACKs until a duplicate, a
retransmission, the last missing chunk, 32 packets or the ACK interval
(`SackAfterEveryData` is violated by the first DATA packet). That the client
still ends, although no timer sends a withheld ACK, is what `ClientEnds` shows.

* TIME_WAIT: a client that still retries after COMPLETE is left alone only when
  three datagrams were lost, and three are enough. Besides, it fails when the flush
  (`server.cpp:410`) takes longer than its ten attempts: the server keeps quiet
  meanwhile, and the file may be complete although the client reports failure. To the
  client a flush that throws looks the same: no COMPLETE is answered any more.
* A positive rate below one bit per second passes the test of `client.cpp:187`
  ("rate must be greater than zero"), is cut off to zero at `client.cpp:491` and
  makes the pacer's constructor throw. By then START was accepted: the server has
  truncated its old output and waits for a client that is gone.
* `LateFailures` says what may fail when the old output is gone. Of the tests of
  options and sizes it is this one alone; the others come before START. Besides, the
  server may fail to resize or map the output it has just truncated
  (`file_io.cpp:76-94`) and refuse the client with IO_ERROR (`server.cpp:270-277`); an
  `--mtu` above the path MTU passes START, which is short, and fails at the first DATA
  packet (`client.cpp:269-274`); and any other system call of the client may fail.
* The client refuses MTUs from 53 to 1075 because the window of 8 MiB would exceed
  the bitmap (`client.cpp:420`), although `protocol.cpp:58` speaks of "between 53
  and 65535 bytes". It does so before START.
* Within one run of the server a COMPLETE never comes early, so the test at
  `server.cpp:400` is never used (`CompleteIsNeverEarly`). When the server dies and is
  started again it is: a late START makes a session that the client takes for the
  old one, and only this test keeps its COMPLETE from confirming a file with holes
  (`DoneMeansFlushed`; without the test the property is violated).
* On the wire an interval may carry a burst and one packet more than the rate
  allows, the packet being one whose slot was granted before the interval.

## Proofs

TLAPS proves every invariant and every action property the passing runs check, and
the refinement; `PROJECT.json` lists the theorems. The bounds of
the runs play no part: numbers of chunks, clients, losses and restarts, sizes,
delays and thresholds are any that the assumptions of the modules allow. These are
what the constructors and options enforce or the constants of the code satisfy, and
TLC evaluates them on every instance. Each inductive invariant named below was
checked by TLC on the run's instance before it was proved.

**The sender** (`WindowProofs`, `SenderProofs`): all ten properties of
the sender, for every set of ACK payloads, truthful or not. Assumptions: the
window and the coverage are positive, the window is within the coverage, the
threshold and the timeout are positive, and the retry delay is no longer than the
timeout. The properties are not inductive by themselves. `IInv` adds to them

* `UnsentShape`: the only selected chunk that is not in flight is the newest,
  between `select_next_packet` and `mark_sent`. Without it an ACK could be thought
  to acknowledge a chunk that is not counted.
* `PrefixShape`: all below `base_` is acknowledged, and `base_` does not overtake
  `next_sequence_`; it makes the end of the loop mean that all is acknowledged.
* `QueueShape`: queue entries are distinct and were sent, and those in flight are
  the pending ones. Stale entries of acknowledged chunks are allowed, because the
  code leaves them in the queue.
* `PacedShape`: the chunk that waits for the pacer may be marked sent.
* `CountShape`: the counter is exact and within its limits.

One lemma of `WindowProofs` per operation shows that it keeps `IInv`, for whoever
drives the loop; `LoopStepKeepsIInv` combines them, and `IInvImplies`
derives the invariants. In `SenderAlone` every step is a `LoopStep` because what is
offered has the format of an ACK. `StepIsMonotone` and `ExitMeansAllAcked` give the action
property `ProgressIsKept`.

`EInv` extends `IInv` for fast retransmission: the count each in-flight chunk
remembers is the exact number of acknowledged chunks behind it (`EvidenceExact`),
unsent chunks remember nothing and chunks never retransmitted have used up no
evidence (`CountsFresh`), and `FastRetransmitPrompt` itself. The argument: the
count is recomputed for every in-flight chunk by every ACK, and no other step
changes which chunks are acknowledged, so an ACK without news finds no count
larger than the remembered one (`DuplicatesAreSilent`), and one that lifts a
count over the threshold always finds it larger (`LossIsNoticed`).

**The transfer** (`TransferProofs`): the nine invariants of `Transfer` and
`KeepsPromise`, for every file, chunk size, window and channel capacity. `TInv` is
`IInv` together with what relates the two ends:

* `ToClientShape`: every datagram on its way to the client is true of the server
  and stays so: an ACK names only chunks that have arrived (`Truthful`), and a
  COMPLETE_ACK is for a flushed file. Chunks are never un-received, so age and order
  of an ACK do not matter. `AckedShape` follows: acknowledged chunks have arrived.
* `ToServerShape`: what is on its way to the server was made by the client: a chunk
  it has selected, or a COMPLETE after the loop was left. With `ExitShape` (the loop
  is left when all is acknowledged) and `AckedShape`, COMPLETE is never early.
* `ServerShape`, `ClientShape`: what was received was selected and is written where
  it belongs; before the handshake is over nothing is; a flush comes only after the
  client's loop.

`SackCoversReceived` combines both ends: a received chunk was selected, and the
client selects within the coverage of its own `base`, which is at most the server's
first gap. The arithmetic (`ChunkOf`, `ChunksCoverFile`, `DataLands`) shows that
writing one chunk changes exactly its bytes. For the refinement, `PromiseSteps`
restates the steps of `FileTransfer` in the variables of `Transfer`, and each action
is shown to be one of them or to change nothing `Promise` sees: accepting START is
`Create`, taking a new chunk writes its bytes, the flush commits, the last
COMPLETE_ACK succeeds, and all other steps stutter.

The sender's properties are theorems of the transfer too (`SenderWithinTransfer`,
`StaleAcksAreSilent`, `ClientProgress`). By `TInv` every ACK that reaches the client
is one the server made, so each step of the transfer is a `LoopStep` of the client
or leaves its loop alone (`NextIsLoopStep`), and the lemmas of `WindowProofs` apply
as they are. What holds of the loop against arbitrary ACKs thus holds between the
real handshakes, over the lossy network, and with either side dying.

**Sessions** (`SessionsProofs`): `TypeOK`, `NoMixture` and `DoneMeansFlushed` for any
set of clients no two of which share both endpoint and session id. `SInv` says what
may be on the way from any client and from any run of the server: a datagram to the
server is one its client can have sent, however long ago (`ToServerShape`), and a
COMPLETE_ACK is for a client whose file was flushed, which no restart takes back
(`ToClientShape`). The server's session is that of one client (`AcceptedShape`), so
its tests admit the datagrams of that client only.

**Options and sizes** (`SetupProofs`): all four properties of `Setup`, for every MTU,
rate, file size and path MTU, and for any widths in the right order, those of the code
included. `UInv` adds which tests lie behind each program point (`ClientShape`), and
that a server that has accepted has accepted what the client computed and that the old
output is gone only by accepting or by a failed creation (`AgreementShape`).
`FailingKeepsUInv` is the argument shared by the actions in which the client fails. A
first DATA packet too long for the path comes from an MTU above it since the chunk is
the MTU less the headers (`SendFirstDataKeepsUInv`). The rest is division: `QuotientBounds`, `CountFacts` (a chunk is
counted if and only if it begins within the file) and `WindowFacts`.

**The end of a transfer** (`ClosingProofs`): `ServerOutlivesClient` and
`FailureIsExplained` for any numbers of attempts, losses and copies and with a flush
that returns, throws or does neither, with the
assumptions that a datagram takes less than a time-out and that TIME_WAIT is shorter
than all attempts together (3 s against 10 s). `CInv` counts: every COMPLETE of a
client that still waits is lost, on its way, in the socket, or answered, and its
answer is lost or on its way.

* `ClientShape`: all COMPLETEs on their way are copies of the current one.
* `FirstShape`: the account before the first answer.
* `QuietShape`: since the last answer, that answer and one COMPLETE of each later
  round are lost, but for the current round. TIME_WAIT holds `SureRounds` time-outs,
  which gives the bound at its end (`ExpiryFacts`).
* `BacklogShape`: the account since the flush, if the flush was in time. The backlog
  of the socket is answered at once (`Burst`), so its answers have one age `y`; of
  all others at most one round's answers are older than the current round
  (`Spread`). When the last attempt times out, only the current round can still be
  on its way, so at least all attempts but one were lost (`LastTimeoutFacts`).

**The pacer** (`PacerProofs`): `TypeOK`, `RateRespected`, `OneWaitSuffices` and
`OversleepIsCredited` of `Pacer` for every rate, burst divisible by three (as 9015
is), set of packet sizes and bound on waits. `RateRespected` needs the account behind
it: what the bucket could hold now, plus what was paid for and not sent, plus
`surplus` stays within a full bucket and one packet (`Account`). A tick moves credit
from the last term to the first, paying moves it to the second and sending to the
third. `WaitShape` says that `elapsed + left` is the length of the current wait, from
which `OneWaitSuffices` is inductive; the arithmetic of the rounding is in
`WaitIsLongEnough`. `CreditShape` is the other side of it: no wait was set longer than
its target asks for, but for one tick (`WaitIsNotTooLong`), so what a third of a burst
takes to fill is left for oversleep.

**The wire format** (`ProtocolProofs`): all three properties of `Protocol`, for every
width of a byte (at least three bits) and of the bitmap, and for every set of headers
and payloads whose fields fit (`SentAssumption`).

* Numbers. `Induction` is derived from the well-foundedness of `<`, for a property
  given as a set. With it `Power` and `Number` are shown to be well defined (the
  recursive definition has a solution) and to compute powers and sums, and digits
  and number to be inverse to each other (`NumberOfDigits`, `DigitsOfNumber`), with
  base 256 for fields as well as with base 2 for the bits of a byte.
* Layouts. A layout is `WellLaid` when its fields do not overlap and `Tiles` its
  bytes when they leave no gap. Fields of a well-laid record that fit are read as
  they were written (`ReadWritten`), and bytes that a layout tiles are rewritten as
  they were read (`WrittenRead`); the latter needs the header to have no spare byte,
  which `HeaderLayout` shows.
* Packets. One lemma per payload type shows that it survives (`StartSurvives`, ...,
  `AckSurvives` with the packing of the bitmap, `OneBitsOfPacked`); `PacketRoundTrip`
  puts header and payload together, and `CanonicalDatagram` shows that any bytes the
  decoder accepts are the encoding of the header and raw payload it reads from them.
  Reserved bytes inside a payload are part of the raw payload; their readers ignore
  them, so two datagrams that differ there alone mean the same.
* The invariant `WireInv`: what is on its way consists of bytes, and is the encoding
  of what was sent as long as nothing was changed. `AppliedAckIsWhole` needs no
  invariant: the decoder's tests imply it for any datagram.

**Only model-checked:** liveness (`ClientEnds`, `EveryWaitEnds`, `ServerLeaves`), which
is beyond the prover. The two violations (`SackAfterEveryData`, and the late refusal
of a rate) are TLC's counterexamples.

## Not modelled

* Reading the argument strings, name resolution, socket options other than `IP_PMTUDISC_DO`, logging, the
  statistics and diagnostics of `client.cpp` (`TimingStats`,
  `PerformanceDiagnostics`, the final report), which nothing reads back.
* `scripts/` and the unit tests.
* The single system calls inside `file_io.cpp`: creation and flush are one step
  each, which may fail before or after the truncation and the extension. An input
  that is changed while it is mapped.
* `long double` rounding in the pacer: tokens are whole bytes. A rate that does not
  fit 64 bits is any of a few numbers, as the conversion is undefined.
* Payloads longer than 65535 bytes and null pointers, which `serialize_packet`
  refuses and no caller passes; `deserialize_packet` and the overloads that take
  vectors, which only the tests call.
* Packets of the type ERROR and the flag FLAG_MD5, which nobody sends.

## Plan

1. `Common`, `SenderWindow`, `SenderLoop`, `SenderAlone` and their proofs: done.
2. `ReceiverTracker`, `Network`, `Server`, `Client`, `Transfer`, `FileTransfer`,
   safety, refinement and liveness: done.
3. `Pacer` and its proofs, `Closing`, `Protocol`, `Setup`, `Sessions`: done.
4. Proofs of the transfer and its refinement, of `Sessions`, `Setup`, `Closing` and
   the rest of `Pacer`: done.
5. The round trip of the wire format, and the sender's properties within the
   transfer: done. That a flushed file is not written again is part of
   `KeepsPromise`.
6. If the code changes: the mapped lines in `PROJECT.json` lead from a changed line
   to its definition; a timer for withheld ACKs, or a limit on retransmissions in the
   data loop, would replace the fairness and the exception in `ClientEnds`.
