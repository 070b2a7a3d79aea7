---------------------------- MODULE OffsetArrays ----------------------------
(***************************************************************************)
(* What PgzfIndex::build has to leave and the reader relies on: n blocks,  *)
(* where each starts in the stream (u) and in the file (c), and the total  *)
(* behind the last.  Blocks are never empty (buffer_block returns when the *)
(* buffer is), so both arrays increase.                                    *)
(***************************************************************************)
EXTENDS Integers

WellFormed(n, u, c) ==
  /\ n \in Nat
  /\ u \in [0..n -> Nat]
  /\ c \in [0..n -> Nat]
  /\ u[0] = 0
  /\ c[0] = 0
  /\ \A i, j \in 0..n : i < j => u[i] < u[j] /\ c[i] < c[j]
=============================================================================
