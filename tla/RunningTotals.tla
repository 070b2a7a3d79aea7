--------------------------- MODULE RunningTotals ---------------------------
(***************************************************************************)
(* Totals that are kept while going through a sequence of sizes: the bytes *)
(* of a cache (block_cache.rs), the offsets of the blocks in an index      *)
(* (index.rs), the distance to an IDX member (writer.rs).                  *)
(***************************************************************************)
EXTENDS Integers, Sequences

(* The totals after 0, 1, ... Len(sizes) of the sizes.                     *)
RunningTotals(start, sizes) ==
  LET total[n \in 0..Len(sizes)] == IF n = 0 THEN start ELSE total[n - 1] + sizes[n]
  IN total

SumOf(sizes) == RunningTotals(0, sizes)[Len(sizes)]
=============================================================================
