----------------------------- MODULE PgzfWriter -----------------------------
(***************************************************************************)
(* PgzfWriter (writer.rs): blocks are cut from the input, buffered to      *)
(* whole groups, compressed in batches and written out, and the group is   *)
(* sealed by an IDX member and the GC value patched into its BEG header.   *)
(*                                                                         *)
(* The client's calls take &mut self, but each write to the file may fail  *)
(* or be the last before a crash, so the calls go step by step: call is    *)
(* the call in progress, step where in flush_group it is.  The input is a  *)
(* stream of bytes known by position.                                      *)
(***************************************************************************)
EXTENDS PgzfIndexBuild

CONSTANTS
  block_size, group_blocks, compression_batch_size,  \* PgzfConfig
  WriteSizes,   \* lengths of the buffers that the client writes
  BodySizes,    \* lengths a block can be compressed to
  TornSizes,    \* bytes of a member that an interrupted write leaves
  MaxInput,     \* bound on the bytes written
  MaxSessions   \* bound on the writers put to work on the file in turn

ASSUME WriterConfig ==
  /\ block_size \in Nat /\ group_blocks \in Nat
  /\ compression_batch_size \in Nat \ {0}
  /\ WriteSizes \subseteq Nat /\ BodySizes \subseteq Nat /\ TornSizes \subseteq Nat
  /\ MaxInput \in Nat /\ MaxSessions \in Nat

EmptyBody == 2  \* length of the deflate stream of no bytes

VARIABLES
  file,                \* what is on the medium
  inner,               \* the cursor of the medium
  buffer_len,
  pending_blocks,      \* intervals of the input, with the kind of member to be
  blocks_in_group,
  group_start_offset,
  total_uncompressed, total_compressed, total_blocks,
  gc_pending,
  compressed,          \* flush_group: members of the batch still to be written
  block_entries,       \* flush_group: index entries of the members written
  call,                \* call in progress, or "none"
  step,                \* step of flush_group to come, or "idle"
  rest,                \* bytes of write()'s buffer still to be taken
  accepted,            \* history: bytes taken since the file was empty
  session,             \* history: number of this writer and where it started
  outcome              \* history: "open", or how the writer came to its end

buffers == <<buffer_len, pending_blocks, blocks_in_group, gc_pending>>
totals == <<total_uncompressed, total_compressed, total_blocks>>
flush == <<compressed, block_entries>>
control == <<call, step, rest>>
vars == <<file, inner, group_start_offset, buffers, totals, flush, control,
          accepted, session, outcome>>

(* PgzfWriter::with_config. *)
Init ==
  /\ file = EmptyFile /\ inner = 0 /\ group_start_offset = 0
  /\ buffer_len = 0 /\ pending_blocks = <<>> /\ blocks_in_group = 0 /\ gc_pending = FALSE
  /\ total_uncompressed = 0 /\ total_compressed = 0 /\ total_blocks = 0
  /\ compressed = <<>> /\ block_entries = <<>>
  /\ call = "none" /\ step = "idle" /\ rest = 0
  /\ accepted = 0
  /\ session = [number |-> 1, from |-> 0, at |-> 0]
  /\ outcome = "open"

Idle == outcome = "open" /\ call = "none"
At(s) == outcome = "open" /\ call # "none" /\ step = s

-----------------------------------------------------------------------------
(* buffer_block, len bytes up to position end being in the buffer.         *)
BufferAny(len, end) ==  \* a faulty variant: a block of an empty buffer
  /\ pending_blocks' = Append(pending_blocks,
       [kind |-> IF blocks_in_group = 0 THEN "beg" ELSE "dat", from |-> end - len, to |-> end])
  /\ gc_pending' = TRUE
  /\ blocks_in_group' = blocks_in_group + 1
  /\ buffer_len' = 0
buffer_block(len, end) ==
  IF len = 0 THEN UNCHANGED buffers
  ELSE /\ pending_blocks' = Append(pending_blocks,
             [kind |-> IF blocks_in_group = 0 THEN "beg" ELSE "dat",
              from |-> end - len, to |-> end])
       /\ gc_pending' = (gc_pending \/ blocks_in_group = 0)
       /\ blocks_in_group' = blocks_in_group + 1
       /\ buffer_len' = 0

GroupFullLate == blocks_in_group' > group_blocks  \* a faulty variant
GroupFull == blocks_in_group' >= group_blocks

FlushingFull(when) ==  \* a faulty variant: the last group is left when it is not full
  IF pending_blocks' # <<>> /\ GroupFull THEN "compress" ELSE "idle"
Flushing(when) == IF pending_blocks' # <<>> /\ when THEN "compress" ELSE "idle"

(* write(buf). *)
Write(n) ==
  /\ Idle
  /\ accepted + n <= MaxInput
  /\ call' = "write" /\ rest' = n
  /\ UNCHANGED <<file, inner, group_start_offset, buffers, totals, flush, step,
                 accepted, session, outcome>>

(* A round of its loop. *)
Space == block_size - buffer_len

Unbounded == rest  \* faulty variants: all of the buffer; one byte short of the space
OneShort == IF Space < rest THEN Space - 1 ELSE rest
Taken == IF Space < rest THEN Space ELSE rest

Take ==
  /\ At("idle") /\ call = "write"
  /\ rest > 0
  /\ rest' = rest - Taken
  /\ accepted' = accepted + Taken
  /\ IF buffer_len + Taken = block_size
       THEN /\ buffer_block(block_size, accepted')
            /\ step' = Flushing(GroupFull)
       ELSE /\ buffer_len' = buffer_len + Taken
            /\ UNCHANGED <<pending_blocks, blocks_in_group, gc_pending, step>>
  /\ UNCHANGED <<file, inner, group_start_offset, totals, flush, call, session, outcome>>

WriteReturns ==
  /\ At("idle") /\ call = "write"
  /\ rest = 0
  /\ call' = "none"
  /\ UNCHANGED <<file, inner, group_start_offset, buffers, totals, flush, step, rest,
                 accepted, session, outcome>>

(* finish(): the last block may fill its group, which buffer_block then    *)
(* flushes itself ("finish_buffer"); else finish() flushes what there is.  *)
Finish ==
  /\ Idle
  /\ buffer_block(buffer_len, accepted)
  /\ step' = Flushing(TRUE)
  /\ call' = IF Flushing(GroupFull) = "idle" THEN "finish" ELSE "finish_buffer"
  /\ UNCHANGED <<file, inner, group_start_offset, totals, flush, rest,
                 accepted, session, outcome>>

FinishReturns ==
  /\ At("idle") /\ call \in {"finish", "finish_buffer"}
  /\ call' = "none"
  /\ outcome' = "finished"
  /\ UNCHANGED <<file, inner, group_start_offset, buffers, totals, flush, step, rest,
                 accepted, session>>

-----------------------------------------------------------------------------
(* flush_group.  The next batch is compressed, in parallel and in order.   *)
Compress ==
  /\ At("compress")
  /\ LET done == Len(block_entries)
         left == Len(pending_blocks) - done
         batch == 1 .. (IF left < compression_batch_size THEN left ELSE compression_batch_size)
     IN \E body \in [batch -> BodySizes] :
          compressed' = [i \in batch |->
            LET b == pending_blocks[done + i] IN DataMember(b.kind, body[i], b.from, b.to)]
  /\ step' = "write"
  /\ UNCHANGED <<file, inner, group_start_offset, buffers, totals, block_entries,
                 call, rest, accepted, session, outcome>>

WriteBlock ==
  /\ At("write")
  /\ LET cb == Head(compressed)
     IN /\ file' = WriteMember(file, inner, cb, cb.zc)
        /\ inner' = inner + cb.zc
        /\ block_entries' = Append(block_entries,
             [compressed_size |-> cb.zc, uncompressed_size |-> cb.to - cb.from])
        /\ total_compressed' = total_compressed + cb.zc
        /\ total_uncompressed' = total_uncompressed + (cb.to - cb.from)
        /\ total_blocks' = total_blocks + 1
  /\ compressed' = Tail(compressed)
  /\ step' = IF compressed' # <<>> THEN "write"
             ELSE IF Len(block_entries') < Len(pending_blocks) THEN "compress" ELSE "index"
  /\ UNCHANGED <<group_start_offset, buffers, call, rest, accepted, session, outcome>>

Idx == IdxMember(EmptyBody, block_entries)

WriteIdx ==
  /\ At("index")
  /\ file' = WriteMember(file, inner, Idx, Idx.zc)
  /\ inner' = inner + Idx.zc
  /\ total_compressed' = total_compressed + Idx.zc
  /\ step' = IF gc_pending THEN "patch" ELSE "reset"
  /\ UNCHANGED <<group_start_offset, buffers, total_uncompressed, total_blocks, flush,
                 call, rest, accepted, session, outcome>>

GcPastIdx ==  \* a faulty variant: the distance to the end of the group
  SumOf(CompressedSizes(block_entries)) + Idx.zc
GcValue == SumOf(CompressedSizes(block_entries))

PatchGc ==
  /\ At("patch")
  /\ file' = WriteGc(file, group_start_offset + GC_VALUE_OFFSET, GcValue)
  /\ gc_pending' = FALSE
  /\ step' = "reset"
  /\ UNCHANGED <<group_start_offset, buffer_len, pending_blocks, blocks_in_group,
                 totals, flush, call, rest, accepted, session, outcome>>

(* The cursor goes to the GC value and back to where it was.  (A faulty    *)
(* variant first: it stays.)                                               *)
BackpatchAndStay == PatchGc /\ inner' = group_start_offset + GC_VALUE_OFFSET + 8
Backpatch == PatchGc /\ UNCHANGED inner

ResetGroup ==
  /\ At("reset")
  /\ blocks_in_group' = 0 /\ pending_blocks' = <<>>
  /\ group_start_offset' = inner
  /\ block_entries' = <<>>
  /\ step' = "idle"
  /\ UNCHANGED <<file, inner, buffer_len, gc_pending, totals, compressed,
                 call, rest, accepted, session, outcome>>

-----------------------------------------------------------------------------
(* What the file is when the step in progress is not carried out: a write  *)
(* of a member may leave a part of it.                                     *)
Interrupted ==
  LET Cut(m) == {WriteMember(file, inner, m, k) : k \in {k \in TornSizes : k < m.zc}}
  IN {file} \cup (CASE step = "write" -> Cut(Head(compressed))
                    [] step = "index" -> Cut(Idx)
                    [] OTHER -> {})

Stop(how) ==
  /\ file' \in Interrupted
  /\ outcome' = how
  /\ UNCHANGED <<inner, group_start_offset, buffers, totals, flush, control,
                 accepted, session>>

(* An error of the file or of a compression: finish() returns it, but      *)
(* buffer_block panics on it.                                              *)
Fail ==
  /\ outcome = "open" /\ call # "none" /\ step # "idle"
  /\ Stop(IF call = "finish" THEN "error" ELSE "panic")

Crash == outcome = "open" /\ Stop("crash")

(* Drop for PgzfWriter: with bytes in the buffer it prints a warning.      *)
Drop ==
  /\ Idle
  /\ outcome' = IF buffer_len > 0 THEN "warned" ELSE "dropped"
  /\ UNCHANGED <<file, inner, group_start_offset, buffers, totals, flush, control,
                 accepted, session>>

(* with_config: a group starts where the cursor is.                        *)
StartOfFile == 0  \* a faulty variant
StartOffset == inner

(* finish() hands the medium back, and with_config starts another writer   *)
(* on it.                                                                  *)
NewWriter ==
  /\ outcome = "finished" /\ session.number < MaxSessions
  /\ outcome' = "open"
  /\ session' = [number |-> session.number + 1, from |-> accepted, at |-> inner]
  /\ group_start_offset' = StartOffset
  /\ buffer_len' = 0 /\ pending_blocks' = <<>> /\ blocks_in_group' = 0 /\ gc_pending' = FALSE
  /\ total_uncompressed' = 0 /\ total_compressed' = 0 /\ total_blocks' = 0
  /\ UNCHANGED <<file, inner, flush, control, accepted>>

Progress ==
  \/ Take \/ WriteReturns \/ FinishReturns
  \/ Compress \/ WriteBlock \/ WriteIdx \/ Backpatch \/ ResetGroup

Next ==
  \/ \E n \in WriteSizes : Write(n)
  \/ Finish \/ Progress
  \/ Fail \/ Crash \/ Drop \/ NewWriter

Spec == Init /\ [][Next]_vars

(* A call that has begun runs on: nothing in it waits for anything.        *)
FairSpec == Spec /\ WF_vars(Progress)

-----------------------------------------------------------------------------
Blocks == [kind : {"beg", "dat"}, from : Nat, to : Nat]

TypeOK ==
  /\ file.length \in Nat /\ DOMAIN file.members \subseteq Nat
  /\ \A at \in DOMAIN file.members : file.members[at] \in Members
  /\ inner \in Nat /\ group_start_offset \in Nat
  /\ buffer_len \in Nat /\ buffer_len <= block_size
  /\ pending_blocks \in Seq(Blocks) /\ blocks_in_group \in Nat /\ gc_pending \in BOOLEAN
  /\ total_uncompressed \in Nat /\ total_compressed \in Nat /\ total_blocks \in Nat
  /\ compressed \in Seq(Members) /\ block_entries \in Seq(IndexEntries)
  /\ call \in {"none", "write", "finish", "finish_buffer"}
  /\ step \in {"idle", "compress", "write", "index", "patch", "reset"}
  /\ rest \in Nat /\ accepted \in Nat
  /\ session \in [number : Nat, from : Nat, at : Nat]
  /\ outcome \in {"open", "finished", "error", "panic", "crash", "warned", "dropped"}

(* What is not on the file yet is all there: the pending blocks and the    *)
(* buffer follow one another up to the last byte accepted, only the first  *)
(* block of a group carries the GC field, and no group is overfull.        *)
BuffersInOrder ==
  LET n == Len(pending_blocks)
  IN /\ blocks_in_group = n
     /\ n > 0 => pending_blocks[n].to = accepted - buffer_len
     /\ \A i \in 1..n :
          /\ pending_blocks[i].kind = IF i = 1 THEN "beg" ELSE "dat"
          /\ pending_blocks[i].from < pending_blocks[i].to
          /\ pending_blocks[i].to - pending_blocks[i].from <= block_size
          /\ i > 1 => pending_blocks[i].from = pending_blocks[i - 1].to
     /\ outcome = "open" /\ step = "idle" /\ call \in {"none", "write"} =>
          /\ n = 0 \/ n < group_blocks
          /\ buffer_len < block_size \/ block_size = 0

(* The IDX header, whose length is 16 bits wide, has room for the entries  *)
(* of the largest group.  Nothing in the code sees to it.                  *)
MaxBlocks == IF group_blocks > 1 THEN group_blocks ELSE 1

GroupsFit == XlenBase + EntrySize * MaxBlocks < U16Space

(* PgzfIndex::build on the file as it is.                                  *)
Index == Build(file)

(* At any moment, a crash in the middle of a write or of a group included, *)
(* build() succeeds, and its offsets are those of data members that hold   *)
(* the stream from its beginning without a gap.                            *)
IndexFindsBlocks ==
  LET index == Index
  IN /\ index # Failed
     /\ index.uncompressed_offsets[1] = 0
     /\ \A i \in 1..block_count(index) :
          LET at == index.compressed_offsets[i]
          IN /\ at \in DOMAIN file.members
             /\ file.members[at].kind \in {"beg", "dat"}
             /\ file.members[at].from = index.uncompressed_offsets[i]
             /\ file.members[at].to = index.uncompressed_offsets[i + 1]

(* After finish(), the index accounts for every byte accepted and for the  *)
(* whole file, and the writer's counters for its part of them.             *)
FinishedReadable ==
  outcome = "finished" =>
    LET index == Index
    IN /\ index # Failed
       /\ Total(index) = accepted
       /\ Last(index.compressed_offsets) = file.length
       /\ total_uncompressed = accepted - session.from
       /\ total_compressed = file.length - session.at

(* Read member by member by their ZC, as gzip and read_one_raw_block do,   *)
(* a file is members end to end ("every PGZF file is a valid sequence of   *)
(* gzip members", README.md): none overlaps another, and only the last     *)
(* can be incomplete.                                                      *)
MembersTile ==
  \A at \in DOMAIN file.members :
    LET end == at + file.members[at].zc
    IN /\ at = 0 \/ \E before \in DOMAIN file.members : before + file.members[before].zc = at
       /\ end \in DOMAIN file.members \/ end >= file.length
       /\ outcome = "finished" => end <= file.length

(* Every call comes back, or the program is at its end.                    *)
CallsReturn == call # "none" ~> (call = "none" \/ outcome # "open")

Durable == INSTANCE DurableStream WITH
  durable <- Total(Index),
  finished <- outcome = "finished"

(* The file always reads as a prefix of the input that only grows.         *)
ImplementsDurableStream == Durable!Spec
=============================================================================
