------------------------------ MODULE Protocol ------------------------------
(***************************************************************************)
(* The wire format of src/protocol.cpp: the header, the payloads and what  *)
(* the decoders refuse.  A datagram is a sequence of bytes; a byte has     *)
(* ByteBits bits (8), so that a field of w bytes holds numbers below       *)
(* Base^w.  A layout gives the offset and the width of every field.  The   *)
(* code lists the offsets twice, where it writes and where it reads, and   *)
(* so does this module.                                                    *)
(*                                                                         *)
(* The state is one datagram on its way: as it was encoded, or after bytes *)
(* of it were changed, cut off or added, which stands for whatever else    *)
(* may reach the socket.                                                   *)
(***************************************************************************)
EXTENDS Integers, Sequences, SequencesExt, FiniteSetsExt

CONSTANTS
  ByteBits,     \* 8
  Magic,        \* kMagic
  BitmapBits,   \* kDefaultAckBitmapBits (8192)
  Headers,      \* the headers that are sent
  Payloads,     \* the payloads that are sent, by packet type
  MaxFaults     \* bound: changes made to a datagram on its way

-----------------------------------------------------------------------------
(* Numbers of so many digits.  Powers and sums are functions defined by      *)
(* recursion, so that what they compute can be proved and not only run.     *)

Power(base) == LET power[n \in Nat] == IF n = 0 THEN 1 ELSE base * power[n - 1] IN power

\* The digits of a number, the most significant one first.
Digits(base, value, width) ==
  [i \in 1 .. width |-> (value \div Power(base)[width - i]) % base]

\* The number that has these digits.
Number(base, digits) ==
  LET value[n \in 0 .. Len(digits)] ==
        IF n = 0 THEN 0 ELSE value[n - 1] * base + digits[n]
  IN value[Len(digits)]

Base == Power(2)[ByteBits]
Byte == 0 .. Base - 1

\* What a field of so many bytes holds.
Unsigned(width) == 0 .. Power(Base)[width] - 1

Version == 1
HeaderSize == 24
FLAG_CRC32C == 1
FLAG_SACK == 4

\* The bytes a bitmap of so many bits takes.
BitmapBytes(bits) == (bits + ByteBits - 1) \div ByteBits

\* value & flag is not zero, for a power of two.
HasFlag(value, flag) == (value \div flag) % 2 = 1

-----------------------------------------------------------------------------
(* Fields: write_u16, write_u32, write_u64 and the three readers.           *)

Encoded(value, width) == Digits(Base, value, width)

Decoded(bytes) == Number(Base, bytes)

\* size bytes, zero where no field lies.
Written(layout, record, size) ==
  [i \in 1 .. size |->
     LET fields == {f \in DOMAIN layout :
                      i - layout[f][1] \in 1 .. layout[f][2]}
     IN IF fields = {} THEN 0
        ELSE LET f == CHOOSE g \in fields : TRUE
             IN Encoded(record[f], layout[f][2])[i - layout[f][1]]]

Read(layout, bytes) ==
  [f \in DOMAIN layout |-> Decoded(SubSeq(bytes, layout[f][1] + 1, layout[f][1] + layout[f][2]))]

-----------------------------------------------------------------------------
(* What is sent. *)

PacketHeader ==
  {header \in [magic : {Magic}, version : {Version}, type : 1 .. 6, flags : Unsigned(2),
               session_id : Unsigned(4), number : Unsigned(4), payload_length : Unsigned(2),
               header_length : Unsigned(2), crc32c : Unsigned(4)] :
     ~HasFlag(header.flags, FLAG_CRC32C)}

StartPayload ==
  [file_size : Unsigned(8), chunk_size : Unsigned(4), total_chunks : Unsigned(4),
   window_chunks : Unsigned(4), ack_bitmap_bits : Unsigned(2), ack_interval_ms : Unsigned(2)]

StartAckPayload ==
  [status : Unsigned(2), accepted_window_chunks : Unsigned(4),
   accepted_bitmap_bits : Unsigned(2), accepted_ack_interval_ms : Unsigned(2)]

\* The bitmap as the set of its one bits.
AckPayload ==
  {ack \in [cumulative_ack : Unsigned(4), largest_received_plus_one : Unsigned(4),
            bitmap_base : Unsigned(4), bitmap_bits : Unsigned(2), bitmap : SUBSET Nat] :
     \A bit \in ack.bitmap : bit < ack.bitmap_bits}

CompleteAckPayload ==
  [status : Unsigned(2), received_chunks : Unsigned(4), received_bytes : Unsigned(8),
   receiver_transfer_time_us : Unsigned(8)]

\* serialize_packet_header refuses a payload whose length does not fit its field.
DataPayload == {bytes \in Seq(Byte) : Len(bytes) \in Unsigned(2)}

PayloadOf(type) ==
  CASE type = 1 -> StartPayload
    [] type = 2 -> StartAckPayload
    [] type = 3 -> DataPayload
    [] type = 4 -> AckPayload
    [] type = 5 -> {<< >>}
    [] type = 6 -> CompleteAckPayload

ASSUME ProtocolAssumption ==
  /\ ByteBits \in Nat \ {0, 1, 2}
  /\ Magic \in Unsigned(4)
  /\ BitmapBits \in Unsigned(2) \ {0}
  /\ MaxFaults \in Nat

\* The endpoints send headers and payloads whose fields fit.
ASSUME SentAssumption ==
  \A header \in Headers :
    header \in PacketHeader /\ Payloads[header.type] \subseteq PayloadOf(header.type)

-----------------------------------------------------------------------------
(* Where the fields are. *)

HeaderWritten ==
  [magic |-> <<0, 4>>, version |-> <<4, 1>>, type |-> <<5, 1>>, flags |-> <<6, 2>>,
   session_id |-> <<8, 4>>, number |-> <<12, 4>>, payload_length |-> <<16, 2>>,
   header_length |-> <<18, 2>>, crc32c |-> <<20, 4>>]

HeaderRead ==
  [magic |-> <<0, 4>>, version |-> <<4, 1>>, type |-> <<5, 1>>, flags |-> <<6, 2>>,
   session_id |-> <<8, 4>>, number |-> <<12, 4>>, payload_length |-> <<16, 2>>,
   header_length |-> <<18, 2>>, crc32c |-> <<20, 4>>]

StartWritten ==
  [file_size |-> <<0, 8>>, chunk_size |-> <<8, 4>>, total_chunks |-> <<12, 4>>,
   window_chunks |-> <<16, 4>>, ack_bitmap_bits |-> <<20, 2>>, ack_interval_ms |-> <<22, 2>>]

\* Mutant: the last two fields are read in the other order.
StartRead_Swapped ==
  [file_size |-> <<0, 8>>, chunk_size |-> <<8, 4>>, total_chunks |-> <<12, 4>>,
   window_chunks |-> <<16, 4>>, ack_bitmap_bits |-> <<22, 2>>, ack_interval_ms |-> <<20, 2>>]

StartRead ==
  [file_size |-> <<0, 8>>, chunk_size |-> <<8, 4>>, total_chunks |-> <<12, 4>>,
   window_chunks |-> <<16, 4>>, ack_bitmap_bits |-> <<20, 2>>, ack_interval_ms |-> <<22, 2>>]

StartAckWritten ==
  [status |-> <<0, 2>>, accepted_window_chunks |-> <<4, 4>>,
   accepted_bitmap_bits |-> <<8, 2>>, accepted_ack_interval_ms |-> <<10, 2>>]

StartAckRead ==
  [status |-> <<0, 2>>, accepted_window_chunks |-> <<4, 4>>,
   accepted_bitmap_bits |-> <<8, 2>>, accepted_ack_interval_ms |-> <<10, 2>>]

AckWritten ==
  [cumulative_ack |-> <<0, 4>>, largest_received_plus_one |-> <<4, 4>>,
   bitmap_base |-> <<8, 4>>, bitmap_bits |-> <<12, 2>>]

AckRead ==
  [cumulative_ack |-> <<0, 4>>, largest_received_plus_one |-> <<4, 4>>,
   bitmap_base |-> <<8, 4>>, bitmap_bits |-> <<12, 2>>]

CompleteAckWritten ==
  [status |-> <<0, 2>>, received_chunks |-> <<4, 4>>, received_bytes |-> <<8, 8>>,
   receiver_transfer_time_us |-> <<16, 8>>]

CompleteAckRead ==
  [status |-> <<0, 2>>, received_chunks |-> <<4, 4>>, received_bytes |-> <<8, 8>>,
   receiver_transfer_time_us |-> <<16, 8>>]

-----------------------------------------------------------------------------
(* Encoding. *)

\* make_ack_snapshot sets bit % 8 of byte bit / 8, so digit k of a byte, counted
\* from the most significant one, is bit ByteBits - k.
Packed(bits, size) ==
  [i \in 1 .. size |->
     Number(2, [k \in 1 .. ByteBits |->
                  IF (i - 1) * ByteBits + (ByteBits - k) \in bits THEN 1 ELSE 0])]

\* A payload as the endpoint has it.
serialize_payload(type, payload) ==
  CASE type = 1 -> Written(StartWritten, payload, 24)
    [] type = 2 -> Written(StartAckWritten, payload, 12)
    [] type = 3 -> payload
    [] type = 4 -> Written(AckWritten, payload, 16)
                     \o Packed(payload.bitmap, BitmapBytes(payload.bitmap_bits))
    [] type = 5 -> << >>
    [] type = 6 -> Written(CompleteAckWritten, payload, 24)

\* Both length fields are computed, whatever the header says.
serialize_packet_header(header, payload_size) ==
  Written(HeaderWritten,
          [header EXCEPT !.payload_length = payload_size, !.header_length = HeaderSize],
          HeaderSize)

serialize_packet(header, payload) == serialize_packet_header(header, Len(payload)) \o payload

-----------------------------------------------------------------------------
(* Decoding. *)

valid_packet_type(value) == value \in 1 .. 7

\* Mutant: bytes behind the payload are tolerated.
Accepts_Longer(bytes) ==
  /\ Len(bytes) >= HeaderSize
  /\ LET header == Read(HeaderRead, bytes)
     IN /\ valid_packet_type(header.type)
        /\ header.magic = Magic
        /\ header.version = Version
        /\ header.header_length = HeaderSize
        /\ Len(bytes) >= header.header_length + header.payload_length
        /\ ~HasFlag(header.flags, FLAG_CRC32C)

\* deserialize_packet_view returns true.
Accepts(bytes) ==
  /\ Len(bytes) >= HeaderSize
  /\ LET header == Read(HeaderRead, bytes)
     IN /\ valid_packet_type(header.type)
        /\ header.magic = Magic
        /\ header.version = Version
        /\ header.header_length = HeaderSize
        /\ Len(bytes) = header.header_length + header.payload_length
        /\ ~HasFlag(header.flags, FLAG_CRC32C)

\* The packet view of an accepted datagram.
deserialize_packet_view(bytes) ==
  LET header == Read(HeaderRead, bytes)
  IN [header |-> header,
      payload |-> SubSeq(bytes, HeaderSize + 1, HeaderSize + header.payload_length)]

\* The payload has the length its decoder asks for.
AcceptsPayload(type, bytes) ==
  CASE type = 1 -> Len(bytes) = 24
    [] type = 2 -> Len(bytes) = 12
    [] type = 4 -> Len(bytes) >= 16
                     /\ Len(bytes) = 16 + BitmapBytes(Read(AckRead, bytes).bitmap_bits)
    [] type = 6 -> Len(bytes) = 24
    [] OTHER    -> TRUE

\* process_ack tests bit % 8 of byte bit / 8, for the bits that are there.
OneBits(bitmap_bits, bitmap) ==
  {b \in 0 .. Min({bitmap_bits, Len(bitmap) * ByteBits}) - 1 :
     HasFlag(bitmap[b \div ByteBits + 1], Power(2)[b % ByteBits])}

deserialize_payload(type, bytes) ==
  CASE type = 1 -> Read(StartRead, bytes)
    [] type = 2 -> Read(StartAckRead, bytes)
    [] type = 3 -> bytes
    [] type = 4 -> LET ack == Read(AckRead, bytes)
                   IN [f \in DOMAIN ack \cup {"bitmap"} |->
                         IF f = "bitmap"
                         THEN OneBits(ack.bitmap_bits, SubSeq(bytes, 17, Len(bytes)))
                         ELSE ack[f]]
    [] type = 5 -> << >>
    [] type = 6 -> Read(CompleteAckRead, bytes)

\* Mutant: a shorter bitmap is taken as well.
AppliesAck_AnyWidth(view) ==
  /\ view.header.type = 4
  /\ HasFlag(view.header.flags, FLAG_SACK)
  /\ AcceptsPayload(4, view.payload)

\* apply_ack_packet passes the ACK on to the window.
AppliesAck(view) ==
  /\ view.header.type = 4
  /\ HasFlag(view.header.flags, FLAG_SACK)
  /\ AcceptsPayload(4, view.payload)
  /\ Read(AckRead, view.payload).bitmap_bits = BitmapBits

-----------------------------------------------------------------------------
(* One datagram. *)

VARIABLES
  sent,       \* the header and the payload that were encoded
  datagram,   \* what is on its way
  faults      \* how often it was changed

vars == <<sent, datagram, faults>>

Init ==
  /\ \E header \in Headers : \E payload \in Payloads[header.type] :
       sent = [header |-> header, payload |-> payload]
  /\ datagram = serialize_packet(sent.header,
                                 serialize_payload(sent.header.type, sent.payload))
  /\ faults = 0

ChangeByte ==
  \E i \in DOMAIN datagram : \E byte \in Byte :
    datagram' = [datagram EXCEPT ![i] = byte]

CutOff == datagram # << >> /\ datagram' = Front(datagram)

AddByte == \E byte \in {0, Base - 1} : datagram' = Append(datagram, byte)

Next ==
  /\ faults < MaxFaults
  /\ faults' = faults + 1
  /\ ChangeByte \/ CutOff \/ AddByte
  /\ UNCHANGED sent

Spec == Init /\ [][Next]_vars

-----------------------------------------------------------------------------
(* Properties. *)

\* What arrives unchanged is accepted and decoded to what was encoded, field by
\* field and bit by bit: offsets, widths, byte order and bit order of writer and
\* reader agree (protocol.cpp:74-293; reliability.cpp:270-275 and 132-135).
RoundTrip ==
  faults = 0 =>
    /\ Accepts(datagram)
    /\ LET view == deserialize_packet_view(datagram)
       IN /\ view.header = [sent.header EXCEPT !.payload_length = Len(view.payload),
                                               !.header_length = HeaderSize]
          /\ AcceptsPayload(view.header.type, view.payload)
          /\ deserialize_payload(view.header.type, view.payload) = sent.payload

\* Whatever arrives is refused unless it is, byte for byte, the encoding of the
\* header and the raw payload that are read from it: no byte of an accepted
\* datagram is left over or missing (protocol.cpp:114-153).  What the readers
\* of a payload make of its reserved bytes is not part of this.
AcceptedIsCanonical ==
  Accepts(datagram) =>
    LET view == deserialize_packet_view(datagram)
    IN datagram = serialize_packet(view.header, view.payload)

\* An ACK that reaches the window, changed on its way or not, carries a bitmap
\* that covers exactly the negotiated number of bits, so the scan of process_ack
\* reads inside it and misses none (client.cpp:342-347, reliability.cpp:122-132).
AppliedAckIsWhole ==
  Accepts(datagram) /\ AppliesAck(deserialize_packet_view(datagram)) =>
    LET payload == deserialize_packet_view(datagram).payload
        spare   == (Len(payload) - 16) * ByteBits - BitmapBits
    IN spare \in 0 .. ByteBits - 1
=============================================================================
