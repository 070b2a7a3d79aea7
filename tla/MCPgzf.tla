------------------------------- MODULE MCPgzf -------------------------------
(***************************************************************************)
(* Seven bytes of input in blocks of two and groups of three: up to four   *)
(* blocks, full and short, in one group and two, compressed in batches of  *)
(* two and read in batches of two, across the IDX member between groups.   *)
(* Writes are torn before, inside and behind the parts of a header that    *)
(* build() and read_one_raw_block read.                                    *)
(***************************************************************************)
EXTENDS Pgzf

(* What the theorems about the writer's file assume.                       *)
ASSUME RoomForEntries == GroupsFit
=============================================================================
