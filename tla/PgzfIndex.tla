----------------------------- MODULE PgzfIndex -----------------------------
(***************************************************************************)
(* PgzfIndex (index.rs) as the reader sees it: the offset arrays that      *)
(* build() leaves, and the two lookups on them.                            *)
(*                                                                         *)
(* Uncompressed offsets are byte positions of the stream.  Compressed      *)
(* offsets are counted in gzip members instead of bytes: member m of the   *)
(* file is data block b when compressed_offsets[b] = m, and the members    *)
(* that are no block's are the IDX members that close a group.             *)
(***************************************************************************)
EXTENDS OffsetArrays

CONSTANTS
  block_count,           \* number of data blocks
  uncompressed_offsets,  \* stream position at which each block starts
  compressed_offsets     \* member that each block is

(* What build() leaves for a file of PgzfWriter (Pgzf checks that it does). *)
(* There are no blocks when the writer never completed a group.            *)
ASSUME IndexArrays == WellFormed(block_count, uncompressed_offsets, compressed_offsets)

-----------------------------------------------------------------------------
Blocks == 0 .. block_count - 1

total_uncompressed == uncompressed_offsets[block_count]
total_compressed == compressed_offsets[block_count]

BlockLen(b) == uncompressed_offsets[b + 1] - uncompressed_offsets[b]

SmallerOf(a, b) == IF a < b THEN a ELSE b

(* What slice::binary_search may return for an offset, the array being     *)
(* ascending: where it is found, or where it would have to be inserted,    *)
(* which is a place from the front to behind the last entry.               *)
SearchResults(offset) ==
  {[found |-> TRUE, at |-> b] : b \in {i \in 0..block_count : uncompressed_offsets[i] = offset}}
  \cup
  {[found |-> FALSE, at |-> b] : b \in {i \in 0 .. block_count + 1 :
     /\ \A j \in 0 .. i - 1 : uncompressed_offsets[j] < offset
     /\ \A j \in i .. block_count : uncompressed_offsets[j] > offset}}

binary_search(offset) == CHOOSE result \in SearchResults(offset) : TRUE

(* seek_byte, for an offset up to the total: the block, from the result of *)
(* the search, and how many bytes of it lie before the offset.             *)
block_idx(result) ==
  IF result.found THEN result.at
  ELSE IF result.at > 0 THEN result.at - 1 ELSE 0

seek_byte(offset) == block_idx(binary_search(offset))

saturating_sub(a, b) == IF a < b THEN 0 ELSE a - b

(* seek_block: negative indices count from the end; NoBlock is the error.  *)
NoBlock == -1

seek_block(index) ==
  LET actual == IF index < 0 THEN block_count + index ELSE index
  IN IF actual \in Blocks THEN actual ELSE NoBlock
=============================================================================
