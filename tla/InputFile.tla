------------------------------ MODULE InputFile ------------------------------
(***************************************************************************)
(* The file to transfer and how it is cut into chunks: chunk_count of      *)
(* src/protocol.cpp and the sizes that both endpoints know.                *)
(***************************************************************************)
EXTENDS Common, Sequences

CONSTANTS
  Source,      \* the bytes of the client's input file
  ChunkSize    \* chunk_size_for_mtu of the client's MTU

FileSize == Len(Source)
Offsets == 0 .. FileSize - 1

\* What an output file holds at an offset besides a byte: what was there before
\* the transfer, or nothing because the file was truncated and not extended.
OldByte == -1
NoByte == -2
OutputFile == [Offsets -> Nat \cup {OldByte, NoByte}]
Filled(value) == [i \in Offsets |-> value]

\* Number of chunks of a file, the last one possibly short.
chunk_count(file_size, chunk_size) ==
  file_size \div chunk_size + (IF file_size % chunk_size # 0 THEN 1 ELSE 0)

ASSUME InputFileAssumption ==
  /\ Source \in Seq(Nat)
  /\ ChunkSize \in Nat \ {0}
  /\ TotalChunks = chunk_count(FileSize, ChunkSize)
=============================================================================
