------------------------------- MODULE Common -------------------------------
(***************************************************************************)
(* What the two endpoints share: the sizes fixed by the START handshake    *)
(* and the ACK payload (include/common.hpp, include/protocol.hpp).         *)
(*                                                                         *)
(* Chunk numbers are natural numbers below TotalChunks.  chunk_count       *)
(* refuses a file that needs more than 2^32 - 1 chunks, so the largest     *)
(* chunk number is 2^32 - 2 and none of the additions the code makes on    *)
(* chunk numbers (sequence + 1, base + coverage in 64 bits) wraps.         *)
(***************************************************************************)
EXTENDS Integers

CONSTANTS
  TotalChunks,    \* chunks of the file, chunk_count(file_size, chunk_size)
  SackCoverage    \* bits of the SACK bitmap, kDefaultAckBitmapBits (8192)

ASSUME CommonAssumption ==
  /\ TotalChunks \in Nat
  /\ SackCoverage \in Nat \ {0}

Chunks == 0 .. TotalChunks - 1

(***************************************************************************)
(* AckPayload.  The byte vector `bitmap' is the set of the positions of    *)
(* its one bits.  bitmap_bits is not a field: apply_ack_packet drops every *)
(* ACK whose bitmap_bits is not kDefaultAckBitmapBits, and deserialize_ack *)
(* one whose bitmap does not have exactly that many bits.                  *)
(***************************************************************************)
AckPayload ==
  [cumulative_ack : Nat, largest_received_plus_one : Nat,
   bitmap_base : Nat, bitmap : SUBSET Nat]
=============================================================================
