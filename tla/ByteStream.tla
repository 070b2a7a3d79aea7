----------------------------- MODULE ByteStream -----------------------------
(***************************************************************************)
(* What PgzfReader promises its client: the io::Read and io::Seek of the   *)
(* uncompressed bytes, and reads of whole blocks.  Nothing of blocks,      *)
(* batches, caches or pending seeks shows.                                 *)
(*                                                                         *)
(* The stream is the positions 0..Total-1, so the bytes a call returns are *)
(* an interval of positions.  After a call that failed in the underlying   *)
(* file the position is unspecified until the client seeks again: pos is   *)
(* then Lost, and reads return bytes of the stream from anywhere.          *)
(***************************************************************************)
EXTENDS Integers

CONSTANTS
  Total,         \* length of the stream
  BlockCount,    \* number of blocks
  BlockStart,    \* position of each block, and of the end of the last one
  ReadSizes,     \* buffer lengths the client reads with
  SeekTargets,   \* offsets the client seeks to
  Shifts,        \* relative offsets the client seeks by
  BlockIndices,  \* block numbers the client asks for
  BlockCounts,   \* lengths of the block ranges the client asks for
  OffsetSpace    \* number of u64 values, scaled

VARIABLES
  pos,     \* position of the stream, or Lost
  reply,   \* the last call and its answer
  faults   \* failures of the underlying file so far

vars == <<pos, reply, faults>>

Lost == -1

Reply(call, arg, len, from, to) ==
  [call |-> call, arg |-> arg, len |-> len, ok |-> TRUE, from |-> from, to |-> to]

Failure(call, arg, len) ==
  [call |-> call, arg |-> arg, len |-> len, ok |-> FALSE, from |-> 0, to |-> 0]

Init ==
  /\ pos = 0
  /\ reply = Reply("new", 0, 0, 0, 0)
  /\ faults = 0

-----------------------------------------------------------------------------
(* A read of n bytes returns at least one of them, unless the stream is at *)
(* its end or n is 0.                                                      *)
ReadSome(n) ==
  /\ pos \in 0 .. Total - 1
  /\ \E k \in 1..n : /\ pos + k <= Total
                     /\ reply' = Reply("read", n, 0, pos, pos + k)
                     /\ pos' = pos + k

ReadNothing(n) ==
  /\ n = 0 \/ pos = Total
  /\ reply' = Reply("read", n, 0, 0, 0)
  /\ UNCHANGED pos

(* A read fails beyond the end of the stream, and when the file below does. *)
ReadFails(n) ==
  /\ n > 0
  /\ \/ pos > Total /\ UNCHANGED faults
     \/ faults' = faults + 1
  /\ reply' = Failure("read", n, 0)
  /\ pos' = Lost

ReadLost(n) ==
  /\ pos = Lost
  /\ \E from \in 0..Total, k \in 0..n :
       /\ from + k <= Total
       /\ reply' = Reply("read", n, 0, from, from + k)
  /\ UNCHANGED pos

SeekTo(p) ==
  /\ reply' = Reply("seek", p, 0, p, p)
  /\ pos' = p

(* The target of a relative seek is computed in 64 bits.                   *)
SeekFromEnd(n) ==
  LET target == (Total + n) % OffsetSpace
  IN /\ reply' = Reply("seek_end", n, 0, target, target)
     /\ pos' = target

SeekFromCurrent(n) ==
  /\ pos # Lost
  /\ LET target == (pos + n) % OffsetSpace
     IN /\ reply' = Reply("seek_current", n, 0, target, target)
        /\ pos' = target

SeekToBlock(i) ==
  LET b == IF i < 0 THEN BlockCount + i ELSE i
  IN IF b \in 0 .. BlockCount - 1
       THEN /\ reply' = Reply("seek_block", i, 0, BlockStart[b], BlockStart[b])
            /\ pos' = BlockStart[b]
       ELSE /\ reply' = Failure("seek_block", i, 0)
            /\ UNCHANGED pos

(* A range of blocks, cut at the end of the stream; the stream continues   *)
(* behind it.  An empty range and a range beyond the end leave it alone.   *)
ReadRange(b, n) ==
  LET end == IF b + n < BlockCount THEN b + n ELSE BlockCount
  IN IF b >= BlockCount
       THEN reply' = Failure("read_blocks", b, n) /\ UNCHANGED pos
     ELSE IF n = 0
       THEN reply' = Reply("read_blocks", b, n, 0, 0) /\ UNCHANGED pos
     ELSE /\ reply' = Reply("read_blocks", b, n, BlockStart[b], BlockStart[end])
          /\ pos' = BlockStart[end]

RangeFails(b, n) ==
  /\ faults' = faults + 1
  /\ reply' = Failure("read_blocks", b, n)
  /\ pos' \in {pos, Lost}

SeekToBlockFails(i) ==
  /\ faults' = faults + 1
  /\ reply' = Failure("seek_block", i, 0)
  /\ pos' \in {pos, Lost}

Succeed ==
  \/ \E n \in ReadSizes : ReadSome(n) \/ ReadNothing(n) \/ ReadLost(n)
  \/ \E p \in SeekTargets : SeekTo(p)
  \/ \E n \in Shifts : SeekFromEnd(n) \/ SeekFromCurrent(n)
  \/ \E i \in BlockIndices : SeekToBlock(i)
  \/ \E b \in BlockIndices \cap Nat, n \in BlockCounts : ReadRange(b, n)

Fail ==
  \/ \E n \in ReadSizes : ReadFails(n)
  \/ \E i \in BlockIndices : SeekToBlockFails(i)
  \/ \E b \in BlockIndices \cap Nat, n \in BlockCounts : RangeFails(b, n)

Next == (Succeed /\ UNCHANGED faults) \/ Fail

Spec == Init /\ [][Next]_vars
=============================================================================
