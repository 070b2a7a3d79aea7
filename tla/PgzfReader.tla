----------------------------- MODULE PgzfReader -----------------------------
(***************************************************************************)
(* PgzfReader (reader.rs) on a PGZF file: lazy seeks, the readahead batch, *)
(* the block cache, block ranges and raw members.                          *)
(*                                                                         *)
(* A block's contents are named by its number, so a buffer that holds      *)
(* block b is b, and the bytes a call returns are an interval of stream    *)
(* positions.  The variables are the fields of the struct; lost, reply and *)
(* faults are history, kept for the comparison with ByteStream.            *)
(*                                                                         *)
(* Every call takes &mut self, so each is one step.  Fetching a batch is   *)
(* parallel inside the call, with results put back in block order.         *)
(***************************************************************************)
EXTENDS PgzfIndex, Sequences

CONSTANTS
  Ops,             \* calls the client makes besides read
  ReadSizes,       \* buffer lengths it reads with
  SeekTargets,     \* offsets of seek_to_byte and SeekFrom::Start
  Shifts,          \* offsets of SeekFrom::End and SeekFrom::Current
  BlockIndices,    \* arguments of seek_to_block and start_block of read_blocks
  BlockCounts,     \* count of read_blocks
  ReadaheadSizes,  \* arguments of with_readahead and set_readahead_size
  ReadaheadLimits, \* arguments of with_readahead_memory_limit, or NoLimit
  MaxFaults,       \* bound on the failures of the underlying file
  OffsetSpace      \* number of u64 values, scaled; offsets wrap around at it

(* The block cache, known to the reader by what its calls do to the blocks *)
(* it holds.                                                               *)
CONSTANTS
  Caches,             \* states of a cache
  FreshCaches,        \* caches that a client installs
  CacheContents(_),   \* block number -> contents held for it
  CacheMemory(_),     \* memory_usage
  CacheTouch(_, _),   \* get of each block of a set, in ascending order
  CacheInsert(_, _)   \* insert of each block of a function, in ascending order

None == -1
NoLimit == -1

ASSUME ClientBounds ==
  /\ ReadSizes \subseteq Nat
  /\ SeekTargets \subseteq Nat
  /\ Shifts \subseteq Int
  /\ BlockIndices \subseteq Int
  /\ BlockCounts \subseteq Nat
  /\ ReadaheadSizes \subseteq Nat
  /\ ReadaheadLimits \subseteq Nat \cup {NoLimit}
  /\ MaxFaults \in Nat
  /\ OffsetSpace \in Nat /\ OffsetSpace > total_uncompressed

(* What the reader relies on.  A get finds what is held and changes only   *)
(* the order of eviction; after inserts, a cache holds a part of what it   *)
(* held and of what was inserted, the new contents winning.                *)
ASSUME CacheContract ==
  /\ FreshCaches \subseteq Caches
  /\ \A c \in FreshCaches : DOMAIN CacheContents(c) = {}
  /\ \A c \in Caches :
       /\ CacheMemory(c) \in Nat
       /\ \E held \in SUBSET Blocks : CacheContents(c) \in [held -> Blocks]
       /\ \A asked \in SUBSET Blocks :
            /\ CacheTouch(c, asked) \in Caches
            /\ CacheContents(CacheTouch(c, asked)) = CacheContents(c)
       /\ \A added \in SUBSET Blocks : \A data \in [added -> Blocks] :
            /\ CacheInsert(c, data) \in Caches
            /\ \A b \in DOMAIN CacheContents(CacheInsert(c, data)) :
                 \/ b \in added /\ CacheContents(CacheInsert(c, data))[b] = data[b]
                 \/ /\ b \in DOMAIN CacheContents(c) \ added
                    /\ CacheContents(CacheInsert(c, data))[b] = CacheContents(c)[b]

VARIABLES
  inner,                   \* member the file cursor is at, or Astray
  current_block,           \* block being served, or None for the empty buffer
  current_pos,             \* offset in current_block
  eof,
  pending_seek,            \* target of a seek not carried out yet, or None
  readahead,               \* blocks decompressed ahead
  readahead_size,
  readahead_memory_limit,  \* or NoLimit
  next_block_index,
  block_cache,
  lost,                    \* history: since the last seek, a call failed or
                           \* took a raw member
  reply,                   \* history: the last call and its answer
  faults                   \* history: failures of the underlying file

state == <<inner, current_block, current_pos, eof, pending_seek, readahead,
           next_block_index, block_cache>>
config == <<readahead_size, readahead_memory_limit>>
vars == <<state, config, lost, reply, faults>>

Astray == -1

Calls == {"new", "read", "seek", "seek_end", "seek_current", "seek_block",
          "read_blocks", "raw", "raw_idx", "raw_end"}

Replies == [call : Calls, arg : Int, len : Int, ok : BOOLEAN, from : Nat, to : Nat]

Reply(call, arg, len, from, to) ==
  [call |-> call, arg |-> arg, len |-> len, ok |-> TRUE, from |-> from, to |-> to]

Failure(call, arg, len) ==
  [call |-> call, arg |-> arg, len |-> len, ok |-> FALSE, from |-> 0, to |-> 0]

Init ==
  /\ inner = 0
  /\ current_block = None /\ current_pos = 0
  /\ eof = FALSE
  /\ pending_seek = None
  /\ readahead = <<>>
  /\ readahead_size \in {k \in ReadaheadSizes : k >= 1}
  /\ readahead_memory_limit \in ReadaheadLimits
  /\ next_block_index = 0
  /\ block_cache \in FreshCaches
  /\ lost = FALSE
  /\ reply = Reply("new", 0, 0, 0, 0)
  /\ faults = 0

-----------------------------------------------------------------------------
(* The file: which data block a sequential reader at a member meets next.  *)
FirstBlockFrom(member) ==
  CHOOSE b \in 0..block_count :
    /\ compressed_offsets[b] >= member
    /\ \A c \in 0..block_count : compressed_offsets[c] >= member => b <= c

CurrentLen == IF current_block = None THEN 0 ELSE BlockLen(current_block)

ExhaustedEarly == current_pos + 1 >= CurrentLen  \* a faulty variant
Exhausted == current_pos >= CurrentLen

Cached == DOMAIN CacheContents(block_cache)

(* fill_readahead: the batch at block s, the part of it to be read from    *)
(* the file, and where the contiguous range of such blocks around b starts.*)
Batch(s) == s .. SmallerOf(block_count, s + readahead_size) - 1
Missing(s) == Batch(s) \ Cached

RangeStart(s, b) ==
  CHOOSE r \in Missing(s) :
    r <= b /\ r .. b \subseteq Missing(s) /\ r - 1 \notin Missing(s)

(* Each range is read in sequence from the offset of its first block.  (A  *)
(* faulty variant first: from the offset of the batch.)                    *)
RawReadFromBatch(s, b) == FirstBlockFrom(compressed_offsets[s]) + (b - RangeStart(s, b))

RawRead(s, b) ==
  FirstBlockFrom(compressed_offsets[RangeStart(s, b)]) + (b - RangeStart(s, b))

Fetched(s) == [b \in Missing(s) |-> RawRead(s, b)]

(* results: cached contents or fetched ones, in block order.               *)
Results(s) ==
  [i \in 1 .. SmallerOf(block_count, s + readahead_size) - s |->
     LET b == s + i - 1
     IN IF b \in Missing(s) THEN Fetched(s)[b] ELSE CacheContents(block_cache)[b]]

(* ranges.last().end: just past the last block read from the file.  (A     *)
(* faulty variant first: past the first range of them.)                    *)
FirstEnd(s) ==
  CHOOSE e \in 0..block_count :
    /\ e - 1 \in Missing(s) /\ e \notin Missing(s)
    /\ \A b \in Missing(s) : b < e => b .. e - 1 \subseteq Missing(s)

LastEnd(s) ==
  CHOOSE e \in 0..block_count :
    e - 1 \in Missing(s) /\ \A b \in Missing(s) : b < e

(* The early returns of fill_readahead.                                    *)
FillRefused(s, memory) ==
  \/ readahead_memory_limit # NoLimit /\ memory >= readahead_memory_limit
  \/ s >= block_count

(* The batch at s is fetched.  cursor is where the file cursor was; a      *)
(* batch found in the cache leaves it there.  (A faulty variant first: it  *)
(* does not step over such a batch.)                                       *)
FillInPlace(s, cursor) ==
  /\ block_cache' = CacheInsert(CacheTouch(block_cache, Batch(s)), Fetched(s))
  /\ IF Missing(s) = {}
       THEN next_block_index' = s /\ inner' = cursor
       ELSE /\ next_block_index' = LastEnd(s)
            /\ inner' = compressed_offsets[LastEnd(s)]

Fill(s, cursor) ==
  /\ block_cache' = CacheInsert(CacheTouch(block_cache, Batch(s)), Fetched(s))
  /\ IF Missing(s) = {}
       THEN /\ next_block_index' = SmallerOf(block_count, s + readahead_size)
            /\ inner' = cursor
       ELSE /\ next_block_index' = LastEnd(s)
            /\ inner' = compressed_offsets[LastEnd(s)]

(* A seek or a raw read of the batch fails, next_block_index having moved  *)
(* on with the blocks before it; or a decompression, after all of them;    *)
(* or the final seek, after the contents have gone to the cache.           *)
FillFails(s) ==
  /\ Missing(s) # {}
  /\ \/ /\ next_block_index' \in {s} \cup Missing(s) \cup {b + 1 : b \in Missing(s)}
        /\ inner' = Astray
        /\ block_cache' = CacheTouch(block_cache, Batch(s))
     \/ /\ next_block_index' = LastEnd(s)
        /\ inner' = compressed_offsets[LastEnd(s) - 1] + 1
        /\ block_cache' = CacheTouch(block_cache, Batch(s))
     \/ /\ next_block_index' = LastEnd(s)
        /\ inner' = Astray
        /\ block_cache' = CacheInsert(CacheTouch(block_cache, Batch(s)), Fetched(s))

Faulty == faults < MaxFaults /\ faults' = faults + 1

-----------------------------------------------------------------------------
(* read.  Serve hands out what fits of block b from offset p.              *)
Serve(b, p, n) ==
  LET take == SmallerOf(n, BlockLen(b) - p)
  IN /\ current_block' = b
     /\ current_pos' = p + take
     /\ reply' = Reply("read", n, 0, uncompressed_offsets[b] + p,
                                     uncompressed_offsets[b] + p + take)

ReadEmptyBuffer(n) ==
  /\ n = 0
  /\ reply' = Reply("read", n, 0, 0, 0)
  /\ UNCHANGED <<state, config, lost, faults>>

ReadFromCurrent(n) ==
  /\ n > 0 /\ pending_seek = None
  /\ ~Exhausted
  /\ Serve(current_block, current_pos, n)
  /\ UNCHANGED <<inner, eof, pending_seek, readahead, next_block_index, block_cache,
                 config, lost, faults>>

ReadAtEof(n) ==
  /\ n > 0 /\ pending_seek = None
  /\ Exhausted /\ eof
  /\ reply' = Reply("read", n, 0, 0, 0)
  /\ UNCHANGED <<state, config, lost, faults>>

ReadFromReadahead(n) ==
  /\ n > 0 /\ pending_seek = None
  /\ Exhausted /\ ~eof
  /\ readahead # <<>>
  /\ Serve(Head(readahead), 0, n)
  /\ readahead' = Tail(readahead)
  /\ UNCHANGED <<inner, eof, pending_seek, next_block_index, block_cache,
                 config, lost, faults>>

NeedsFill(n) ==
  /\ n > 0 /\ pending_seek = None
  /\ Exhausted /\ ~eof
  /\ readahead = <<>>

ReadRefill(n) ==
  /\ NeedsFill(n)
  /\ ~FillRefused(next_block_index, CacheMemory(block_cache) + CurrentLen)
  /\ Serve(Head(Results(next_block_index)), 0, n)
  /\ readahead' = Tail(Results(next_block_index))
  /\ Fill(next_block_index, inner)
  /\ UNCHANGED <<eof, pending_seek, config, lost, faults>>

ReadRefillRefused(n) ==
  /\ NeedsFill(n)
  /\ FillRefused(next_block_index, CacheMemory(block_cache) + CurrentLen)
  /\ eof' = TRUE
  /\ reply' = Reply("read", n, 0, 0, 0)
  /\ UNCHANGED <<inner, current_block, current_pos, pending_seek, readahead,
                 next_block_index, block_cache, config, lost, faults>>

ReadRefillFails(n) ==
  /\ NeedsFill(n) /\ Faulty
  /\ ~FillRefused(next_block_index, CacheMemory(block_cache) + CurrentLen)
  /\ FillFails(next_block_index)
  /\ lost' = TRUE
  /\ reply' = Failure("read", n, 0)
  /\ UNCHANGED <<current_block, current_pos, eof, pending_seek, readahead, config>>

-----------------------------------------------------------------------------
(* read with a seek pending: execute_pending_seek, then the read proper.   *)
(* Target is the block sought and Skip the offset in it.                   *)
Seeking(n) == n > 0 /\ pending_seek # None

Target == seek_byte(pending_seek)

SkipNothing == 0  \* a faulty variant
Skip == saturating_sub(pending_seek, uncompressed_offsets[Target])

ReadBeyondEnd(n) ==
  /\ Seeking(n)
  /\ pending_seek > total_uncompressed
  /\ pending_seek' = None
  /\ lost' = TRUE
  /\ reply' = Failure("read", n, 0)
  /\ UNCHANGED <<inner, current_block, current_pos, eof, readahead, next_block_index,
                 block_cache, config, faults>>

SeekHit(n) == Seeking(n) /\ pending_seek <= total_uncompressed /\ Target \in Cached
SeekMiss(n) == Seeking(n) /\ pending_seek <= total_uncompressed /\ Target \notin Cached

(* What the pending seek leaves on every path below. *)
Sought == pending_seek' = None /\ UNCHANGED config

ReadSeekHit(n) ==
  /\ SeekHit(n) /\ Sought
  /\ Serve(CacheContents(block_cache)[Target], Skip, n)
  /\ block_cache' = CacheTouch(block_cache, {Target})
  /\ inner' = compressed_offsets[Target + 1]
  /\ next_block_index' = Target + 1
  /\ eof' = FALSE
  /\ readahead' = <<>>
  /\ UNCHANGED <<lost, faults>>

(* The seek to the block after the cached one fails: the cached block is   *)
(* in place, next_block_index is not.                                      *)
ReadSeekHitFails(n) ==
  /\ SeekHit(n) /\ Sought /\ Faulty
  /\ current_block' = CacheContents(block_cache)[Target] /\ current_pos' = Skip
  /\ block_cache' = CacheTouch(block_cache, {Target})
  /\ inner' = Astray
  /\ eof' = FALSE
  /\ readahead' = <<>>
  /\ lost' = TRUE
  /\ reply' = Failure("read", n, 0)
  /\ UNCHANGED next_block_index

(* At this point current_block is empty, so only the cache counts against  *)
(* the memory limit.                                                       *)
ReadSeekMiss(n) ==
  /\ SeekMiss(n) /\ Sought
  /\ ~FillRefused(Target, CacheMemory(block_cache))
  /\ Serve(Head(Results(Target)), Skip, n)
  /\ readahead' = Tail(Results(Target))
  /\ Fill(Target, compressed_offsets[Target])
  /\ eof' = FALSE
  /\ UNCHANGED <<lost, faults>>

ReadSeekRefused(n) ==
  /\ SeekMiss(n) /\ Sought
  /\ FillRefused(Target, CacheMemory(block_cache))
  /\ current_block' = None /\ current_pos' = 0
  /\ readahead' = <<>>
  /\ inner' = compressed_offsets[Target]
  /\ next_block_index' = Target
  /\ eof' = TRUE
  /\ reply' = Reply("read", n, 0, 0, 0)
  /\ UNCHANGED <<block_cache, lost, faults>>

ReadSeekMissFails(n) ==
  /\ SeekMiss(n) /\ Sought /\ Faulty
  /\ current_block' = None /\ current_pos' = 0
  /\ readahead' = <<>>
  /\ eof' = FALSE
  /\ \/ /\ ~FillRefused(Target, CacheMemory(block_cache))
        /\ FillFails(Target)
     \/ inner' = Astray /\ UNCHANGED <<next_block_index, block_cache>>
  /\ lost' = TRUE
  /\ reply' = Failure("read", n, 0)

Read(n) ==
  \/ ReadEmptyBuffer(n) \/ ReadFromCurrent(n) \/ ReadAtEof(n) \/ ReadFromReadahead(n)
  \/ ReadRefill(n) \/ ReadRefillRefused(n) \/ ReadRefillFails(n)
  \/ ReadBeyondEnd(n) \/ ReadSeekHit(n) \/ ReadSeekHitFails(n)
  \/ ReadSeekMiss(n) \/ ReadSeekRefused(n) \/ ReadSeekMissFails(n)

-----------------------------------------------------------------------------
(* seek_to_byte and Seek::seek note the target and drop what was buffered. *)
(* (Faulty variants first: the position in the block stays, or the blocks  *)
(* decompressed ahead do.)                                                 *)
NoteSeekKeepingPos(target) ==
  /\ pending_seek' = target
  /\ next_block_index' = 0
  /\ current_block' = None /\ readahead' = <<>>
  /\ UNCHANGED <<inner, current_pos, eof, block_cache, config, faults>>

NoteSeekKeepingReadahead(target) ==
  /\ pending_seek' = target
  /\ next_block_index' = 0
  /\ current_block' = None /\ current_pos' = 0
  /\ UNCHANGED <<inner, readahead, eof, block_cache, config, faults>>

NoteSeek(target) ==
  /\ pending_seek' = target
  /\ next_block_index' = 0
  /\ current_block' = None /\ current_pos' = 0
  /\ readahead' = <<>>
  /\ UNCHANGED <<inner, eof, block_cache, config, faults>>

SeekTo(p) ==
  /\ "seek" \in Ops
  /\ NoteSeek(p)
  /\ lost' = FALSE
  /\ reply' = Reply("seek", p, 0, p, p)

SeekFromEnd(n) ==
  LET target == (total_uncompressed + n) % OffsetSpace
  IN /\ "seek_end" \in Ops
     /\ NoteSeek(target)
     /\ lost' = FALSE
     /\ reply' = Reply("seek_end", n, 0, target, target)

(* SeekFrom::Current counts from the position in the current block.        *)
SeekFromCurrent(n) ==
  LET target == (current_pos + n) % OffsetSpace
  IN /\ "seek_current" \in Ops
     /\ NoteSeek(target)
     /\ reply' = Reply("seek_current", n, 0, target, target)
     /\ UNCHANGED lost

SeekToBlock(i) ==
  /\ "seek_block" \in Ops
  /\ seek_block(i) # NoBlock
  /\ inner' = compressed_offsets[seek_block(i)]
  /\ next_block_index' = 0
  /\ current_block' = None /\ current_pos' = 0
  /\ eof' = FALSE
  /\ pending_seek' = None
  /\ readahead' = <<>>
  /\ lost' = FALSE
  /\ reply' = LET start == uncompressed_offsets[seek_block(i)]
              IN Reply("seek_block", i, 0, start, start)
  /\ UNCHANGED <<block_cache, config, faults>>

SeekToBlockRejected(i) ==
  /\ "seek_block" \in Ops
  /\ seek_block(i) = NoBlock
  /\ reply' = Failure("seek_block", i, 0)
  /\ UNCHANGED <<state, config, lost, faults>>

SeekToBlockFails(i) ==
  /\ "seek_block" \in Ops /\ Faulty
  /\ seek_block(i) # NoBlock
  /\ inner' = Astray
  /\ lost' = (lost \/ pending_seek = None)
  /\ reply' = Failure("seek_block", i, 0)
  /\ UNCHANGED <<current_block, current_pos, eof, pending_seek, readahead,
                 next_block_index, block_cache, config>>

-----------------------------------------------------------------------------
(* read_blocks(start, count).                                              *)
RangeEnd(start, count) == SmallerOf(block_count, start + count)

ReadBlocks(start, count) ==
  /\ "read_blocks" \in Ops
  /\ start \in Blocks /\ count > 0
  /\ LET first == FirstBlockFrom(compressed_offsets[start])
         end == first + (RangeEnd(start, count) - start)
     IN /\ inner' = compressed_offsets[end - 1] + 1
        /\ reply' = Reply("read_blocks", start, count,
                          uncompressed_offsets[first], uncompressed_offsets[end])
  /\ next_block_index' = RangeEnd(start, count)
  /\ current_block' = None /\ current_pos' = 0
  /\ eof' = FALSE
  /\ pending_seek' = None
  /\ readahead' = <<>>
  /\ lost' = FALSE
  /\ UNCHANGED <<block_cache, config, faults>>

ReadNoBlocks(start, count) ==
  /\ "read_blocks" \in Ops
  /\ start \in Blocks /\ count = 0
  /\ reply' = Reply("read_blocks", start, count, 0, 0)
  /\ UNCHANGED <<state, config, lost, faults>>

ReadBlocksRejected(start, count) ==
  /\ "read_blocks" \in Ops
  /\ start >= block_count
  /\ reply' = Failure("read_blocks", start, count)
  /\ UNCHANGED <<state, config, lost, faults>>

(* A failure on the way leaves the buffers of the position before, and a   *)
(* seek still to be carried out.                                           *)
ReadBlocksFails(start, count) ==
  /\ "read_blocks" \in Ops /\ Faulty
  /\ start \in Blocks /\ count > 0
  /\ \/ /\ inner' = Astray
        /\ next_block_index' \in {next_block_index} \cup start .. RangeEnd(start, count)
     \/ /\ inner' = compressed_offsets[RangeEnd(start, count) - 1] + 1
        /\ next_block_index' = RangeEnd(start, count)
  /\ lost' = (lost \/ pending_seek = None)
  /\ reply' = Failure("read_blocks", start, count)
  /\ UNCHANGED <<current_block, current_pos, eof, pending_seek, readahead,
                 block_cache, config>>

(* read_one_raw_block: the member at the file cursor, labelled with        *)
(* next_block_index (the reply's arg), which data blocks advance.  Reads   *)
(* go on behind it.  (A faulty variant first: every member advances it.)   *)
LabelAfterAny(is_block) == next_block_index + 1
LabelAfter(is_block) == IF is_block THEN next_block_index + 1 ELSE next_block_index

(* All of the member is read, ZC bytes.  (A faulty variant first: of an    *)
(* IDX member, as much again.)                                             *)
BehindNextMember ==
  IF inner = compressed_offsets[FirstBlockFrom(inner)] THEN inner + 1 ELSE inner + 2
NextMember == inner + 1

ReadRawBlock ==
  /\ "raw" \in Ops
  /\ inner # Astray /\ inner < total_compressed
  /\ LET b == FirstBlockFrom(inner)
         is_block == inner = compressed_offsets[b]
     IN /\ reply' = IF is_block
                      THEN Reply("raw", next_block_index, 0,
                                 uncompressed_offsets[b], uncompressed_offsets[b + 1])
                      ELSE Reply("raw_idx", next_block_index, 0,
                                 uncompressed_offsets[b], uncompressed_offsets[b])
        /\ next_block_index' = LabelAfter(is_block)
  /\ inner' = NextMember
  /\ lost' = (lost \/ pending_seek = None)
  /\ UNCHANGED <<current_block, current_pos, eof, pending_seek, readahead, block_cache,
                 config, faults>>

ReadRawEnd ==
  /\ "raw" \in Ops
  /\ inner = total_compressed
  /\ reply' = Reply("raw_end", 0, 0, total_uncompressed, total_uncompressed)
  /\ UNCHANGED <<state, config, lost, faults>>

(* A read fails before or after the header has been told apart.            *)
ReadRawFails ==
  /\ "raw" \in Ops /\ Faulty
  /\ inner # Astray
  /\ inner' = Astray
  /\ next_block_index' \in {next_block_index, next_block_index + 1}
  /\ lost' = (lost \/ pending_seek = None)
  /\ reply' = Failure("raw", next_block_index, 0)
  /\ UNCHANGED <<current_block, current_pos, eof, pending_seek, readahead, block_cache,
                 config>>

-----------------------------------------------------------------------------
(* Reconfiguration between calls.                                          *)
SetReadaheadSize(k) ==
  /\ "set" \in Ops
  /\ readahead_size' = IF k < 1 THEN 1 ELSE k
  /\ UNCHANGED <<state, readahead_memory_limit, lost, reply, faults>>

SetReadaheadMemoryLimit(m) ==
  /\ "set" \in Ops
  /\ readahead_memory_limit' = m
  /\ UNCHANGED <<state, readahead_size, lost, reply, faults>>

SetBlockCache(c) ==
  /\ "set" \in Ops
  /\ block_cache' = c
  /\ UNCHANGED <<inner, current_block, current_pos, eof, pending_seek, readahead,
                 next_block_index, config, lost, reply, faults>>

Next ==
  \/ \E n \in ReadSizes : Read(n)
  \/ \E p \in SeekTargets : SeekTo(p)
  \/ \E n \in Shifts : SeekFromEnd(n) \/ SeekFromCurrent(n)
  \/ \E i \in BlockIndices : SeekToBlock(i) \/ SeekToBlockRejected(i) \/ SeekToBlockFails(i)
  \/ \E start \in BlockIndices \cap Nat, count \in BlockCounts :
       \/ ReadBlocks(start, count) \/ ReadNoBlocks(start, count)
       \/ ReadBlocksRejected(start, count) \/ ReadBlocksFails(start, count)
  \/ ReadRawBlock \/ ReadRawEnd \/ ReadRawFails
  \/ \E k \in ReadaheadSizes : SetReadaheadSize(k)
  \/ \E m \in ReadaheadLimits \ {NoLimit} : SetReadaheadMemoryLimit(m)
  \/ \E c \in FreshCaches : SetBlockCache(c)

Spec == Init /\ [][Next]_vars

(* A client that keeps reading until it gets no more bytes: read_to_end    *)
(* and io::copy (main.rs:116) call read again after every answer.          *)
ReadOn == \E n \in ReadSizes \ {0} : Read(n)

FairSpec == Spec /\ WF_vars(ReadOn)

-----------------------------------------------------------------------------
TypeOK ==
  /\ inner \in 0..total_compressed \cup {Astray}
  /\ current_block \in Blocks \cup {None}
  /\ current_pos \in 0..CurrentLen
  /\ eof \in BOOLEAN
  /\ pending_seek \in Nat \cup {None}
  /\ readahead \in Seq(Blocks)
  /\ readahead_size \in Nat \ {0}
  /\ readahead_memory_limit \in Nat \cup {NoLimit}
  /\ next_block_index \in Nat
  /\ block_cache \in Caches
  /\ lost \in BOOLEAN
  /\ reply \in Replies
  /\ faults \in 0..MaxFaults

(* The cache never holds the contents of one block under the number of     *)
(* another, however batches skip over cached blocks and whatever fails.    *)
CacheCoherent == \A b \in Cached : CacheContents(block_cache)[b] = b

(* Buffered blocks are consecutive, and follow the block being served.     *)
BuffersInOrder ==
  /\ \A i \in 1 .. Len(readahead) - 1 : readahead[i + 1] = readahead[i] + 1
  /\ readahead # <<>> => current_block # None /\ Head(readahead) = current_block + 1

(* A batch that ends in cached blocks behind one that is not makes the next *)
(* fill go back to them (NeverRepeats, reader.rs:629).  KeepsPlace says    *)
(* that no such batch is due: cached blocks lie before or between the      *)
(* blocks that the next fill reads, or the whole batch is cached.          *)
FillDue ==
  \/ pending_seek = None /\ Exhausted /\ ~eof /\ readahead = <<>>
  \/ pending_seek # None /\ pending_seek <= total_uncompressed /\ Target \notin Cached

FillStart == IF pending_seek = None THEN next_block_index ELSE Target

EndsFetched(s) ==
  Missing(s) = {} \/ SmallerOf(block_count, s + readahead_size) - 1 \in Missing(s)

KeepsPlace == FillDue => EndsFetched(FillStart)

(* The next block to fetch is the one after the last buffered block,       *)
(* whichever of the blocks of a batch came from the cache, however the     *)
(* cache and the batch size change between fills, and wherever seeks go,   *)
(* as long as KeepsPlace holds.                                            *)
FetchesWhereBuffersEnd ==
  (~lost /\ pending_seek = None /\ current_block # None)
    => next_block_index = current_block + Len(readahead) + 1

(* read_one_raw_block labels a data block with its own number ("full gzip  *)
(* member, block type, and block index", README.md), from the start of the *)
(* file and after read_blocks, and goes on so over IDX members.            *)
Labelled(r) ==
  /\ r.ok
  /\ \/ r.call = "new"
     \/ r.call = "read_blocks" /\ r.len > 0
     \/ r.call \in {"raw", "raw_idx"} /\ r.arg \in 0..block_count
                                      /\ r.from = uncompressed_offsets[r.arg]

RawLabelsCorrect ==
  [][ (Labelled(reply) /\ reply'.call \in {"raw", "raw_idx"} /\ reply'.ok)
        => Labelled(reply') ]_vars

(* Raw members come in file order, each once: a member starts where the    *)
(* one before it ended, and the end is reported behind the last.           *)
RawWalk ==
  [][ (reply.call \in {"raw", "raw_idx"} /\ reply'.call \in {"raw", "raw_idx", "raw_end"}
       /\ reply.ok /\ reply'.ok)
        => reply'.from = reply.to \/ reply' = reply ]_vars

GotBytes(r) == r.call = "read" /\ r.from < r.to

(* Two reads in a row never step over bytes of the stream: the second      *)
(* starts no later than the first ended.                                   *)
NeverSkips ==
  [][ (~lost /\ GotBytes(reply) /\ GotBytes(reply') /\ reply' # reply)
        => reply'.from <= reply.to ]_vars

(* Nor do they go over bytes again ("re-seek read_all mismatch",           *)
(* fuzz_edge_cases.rs:195).                                                *)
NeverRepeats ==
  [][ (~lost /\ GotBytes(reply) /\ GotBytes(reply') /\ reply' # reply)
        => reply'.from >= reply.to ]_vars

(* Seeks go where they say: a read after a seek starts at its target       *)
(* ("Should read from block_idx to end", fuzz_seek_operations.rs:109), and *)
(* that of SeekFrom::Current(n) is n bytes on from where the read before   *)
(* it ended ("Seek back to start via Current", ibid. 137).                 *)
ReadsFromTarget ==
  [][ /\ (reply.call \in {"seek", "seek_end", "seek_current", "seek_block"}
          /\ reply.ok /\ GotBytes(reply'))
           => reply'.from = reply.to
      /\ (~lost /\ GotBytes(reply) /\ reply'.call = "seek_current")
           => reply'.to = (reply.to + reply'.arg) % OffsetSpace ]_vars

(* A read that returns no bytes after one that did is at the end of the    *)
(* stream ("readahead memory-limited read mismatch",                       *)
(* fuzz_cache_behavior.rs:209).                                            *)
EndsAtTheEnd ==
  [][ (~lost /\ GotBytes(reply) /\ reply'.call = "read" /\ reply'.ok
       /\ reply'.arg > 0 /\ reply'.from = reply'.to)
        => reply.to = total_uncompressed ]_vars

(* A client that from some time on only reads is told of the end: no fill  *)
(* returns to where it came from, and no failure or limit leaves the       *)
(* reader handing out blocks for ever.                                     *)
AtEnd == reply.call = "read" /\ reply.ok /\ reply.arg > 0 /\ reply.from = reply.to

DrainEnds == <>[][reply'.call = "read"]_vars => <>AtEnd

(* Where the stream stands, in the terms of ByteStream.                    *)
StreamPos ==
  IF pending_seek # None THEN pending_seek
  ELSE IF ~Exhausted THEN uncompressed_offsets[current_block] + current_pos
  ELSE IF readahead # <<>> THEN uncompressed_offsets[Head(readahead)]
  ELSE uncompressed_offsets[SmallerOf(next_block_index, block_count)]

Stream == INSTANCE ByteStream WITH
  pos <- IF lost THEN -1 ELSE StreamPos,
  Total <- total_uncompressed,
  BlockCount <- block_count,
  BlockStart <- uncompressed_offsets

(* Every call does what the byte stream promises for it.                   *)
ImplementsByteStream == Stream!Spec
=============================================================================
