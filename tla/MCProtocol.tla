----------------------------- MODULE MCProtocol -----------------------------
EXTENDS Protocol

\* A header with the fields the endpoints set, and the others at values that
\* the encoder has to replace or to carry along.
Header(type, flags, session, number) ==
  [magic |-> 1138, version |-> 1, type |-> type, flags |-> flags, session_id |-> session,
   number |-> number, payload_length |-> 0, header_length |-> 0, crc32c |-> 0]

SomeHeaders ==
  { Header(1, 0, 4095, 0), Header(2, 0, 4095, 0), Header(3, 0, 513, 66), Header(3, 2, 513, 4094),
    Header(4, 4, 8, 4095), Header(5, 0, 4095, 66), Header(6, 0, 1, 66) }

\* Fields hold different digits, and the extremes; one ACK has a bitmap of
\* another width, as in tests/protocol_test.cpp.
SomePayloads ==
  [type \in 1 .. 6 |->
     CASE type = 1 ->
            {[file_size |-> 5342391, chunk_size |-> 668, total_chunks |-> 83,
              window_chunks |-> 3, ack_bitmap_bits |-> 7, ack_interval_ms |-> 10],
             [file_size |-> 0, chunk_size |-> 4095, total_chunks |-> 0,
              window_chunks |-> 4095, ack_bitmap_bits |-> 63, ack_interval_ms |-> 0]}
       [] type = 2 ->
            {[status |-> s, accepted_window_chunks |-> 1234, accepted_bitmap_bits |-> 7,
              accepted_ack_interval_ms |-> 10] : s \in 0 .. 3}
       [] type = 3 -> { << >>, <<5>>, <<0, 7, 2>> }
       [] type = 4 ->
            {[cumulative_ack |-> 66, largest_received_plus_one |-> 73, bitmap_base |-> 66,
              bitmap_bits |-> 7, bitmap |-> bits] : bits \in SUBSET (0 .. 6)}
            \cup
            {[cumulative_ack |-> 66, largest_received_plus_one |-> 73, bitmap_base |-> 66,
              bitmap_bits |-> 4, bitmap |-> {1, 3}]}
       [] type = 5 -> { << >> }
       [] type = 6 ->
            {[status |-> 0, received_chunks |-> 83, received_bytes |-> 5342391,
              receiver_transfer_time_us |-> 1193046]}]
=============================================================================
