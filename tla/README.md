# TLA+ models of pgzf

pgzf (`src/`) is a Rust library and command for PGZF files: gzip files cut into
blocks, each a gzip member of its own, with an index that makes every block and
every byte reachable without reading what comes before. This directory holds TLA+
models of the library, the TLC runs that check them on small instances, and the
theorems that TLAPS proves about them. Paths such as `reader.rs:203` are relative
to `src/src/`.

## The system

| Component | State it keeps | Operations |
|---|---|---|
| `PgzfWriter` (writer.rs) | medium and its cursor, buffer, pending blocks of the group, start of the group, totals, `gc_pending` | `with_config`, `write`, `finish`, `Drop`; inside: `buffer_block`, `flush_group` |
| `PgzfIndex` (index.rs) | offset arrays, fixed once built | `build`, `seek_byte`, `seek_block`, totals |
| `PgzfReader` (reader.rs) | file cursor, current block and position, `eof`, pending seek, readahead queue and its limits, `next_block_index`, block cache | `read`, `seek`, `seek_to_byte`, `seek_to_block`, `read_blocks`, `read_one_raw_block`, setters; inside: `execute_pending_seek`, `fill_readahead` |
| `BlockCache` (block_cache.rs) | LRU entries, capacity, byte limit and byte count | `new`, `with_memory_limit`, `get`, `insert`, `evict_one` |
| Format (format.rs, constants.rs) | none | header builders, `parse_extra_field`, `PgzfConfig` |
| Plain gzip (decompress.rs) | none | `read_pgzf_block`, used by the sequential branch of the reader |
| Deflate (compress.rs) | one reusable state per worker | `compress`, `decompress` |
| Command (main.rs) | files | compress, decompress, inspect; deletion of inputs |

The writer cuts its input into blocks, collects `group_blocks` of them,
compresses them in parallel batches, writes the members, closes the group with an
IDX member that lists their sizes, and patches the distance to it (the GC value)
into the first member of the group. `PgzfIndex::build` walks the groups by their GC
values. The reader builds the index when it opens a file and from then on moves by
block number: `next_block_index` says which block to fetch next, batches of
`readahead_size` blocks are fetched around what the cache holds, decompressed in
parallel and queued. Everything is called through `&mut self`; inside the library,
concurrency exists only in `par_iter().map_init().collect()`, which returns results in
order. Outside, a reader may open a file while another process writes it, and the
command meets what earlier runs of it have left on the disk.

What is hard here, and what the properties are for:

- the reader keeps its place in four fields that must agree (`next_block_index`,
  current block, readahead queue, pending seek), across lazy seeks, batches that mix
  cached and fetched blocks, and calls that fail half way;
- the cache combines two limits, updates of a key, and a byte counter kept by hand;
- the writer must leave a file that can be read after a crash at any moment, with a
  back-patch behind the members it belongs to;
- a reader that opens such a file, at any moment, must not fail or run ahead of it;
- codecs are reused from block to block, by threads that stop at each other's errors;
- the command deletes its inputs, so errors and signals must not come between the data
  and its last copy;
- limits end things: the readahead memory limit, 16-bit lengths in the index.

`PROJECT.json` lists these hazards one by one with their lines.

## Modules

| Module | Models | State and actions |
|---|---|---|
| `BlockCacheOps` | the operations of `BlockCache` | functions on a cache record; no variables |
| `BlockCache` | a cache under any client | `cache`, history `latest`, `last_use`; `InsertBlock`, `GetBlock`, `Replace` |
| `PgzfIndex` | the offset arrays and lookups | CONSTANTS `block_count`, `uncompressed_offsets`, `compressed_offsets`; `seek_byte`, `seek_block` |
| `ByteStream` | abstract: what `Read` and `Seek` promise | `pos`, `reply`, `faults` |
| `PgzfReader` | the reader on a PGZF file | the fields of the struct, history `lost`, `reply`, `faults`; an action per path through each call |
| `PgzfFormat` | members, their sizes and a medium of members | no variables |
| `OffsetArrays` | what `build` owes and the reader assumes of the arrays | `WellFormed` |
| `PgzfIndexBuild` | `PgzfIndex::build` on a medium | a round of its loop (`EndOfGroups`, `IsIdx`, `AddGroup`), and all of it, `Build(file)` |
| `DurableStream` | abstract: what the file is worth at any moment | `accepted`, `durable`, `finished` |
| `PgzfWriter` | the writer, its medium, errors and crashes | the fields of the struct, the medium, where in `write`/`finish`/`flush_group` the call is |
| `Pgzf` | writer, file and reader together | those of `PgzfWriter`, and of the reader `mode`, cursor, index so far, `next_block_index`; `Open`, `ReadBeg`, `ReadIdx`, `StartBatch`, `Fetch`, `TakeRaw` |
| `OrderedMap` | abstract: what a parallel batch answers | `answer` |
| `ParallelMap` | `par_iter().map_init().collect()` over the codecs of compress.rs | where each range is, its codec, results, the saved error; an action per step of a job |
| `PlainGzip` | the reader on a file that is not PGZF (decompress.rs) | cursor, current block, `eof`, pending seek; an action per path through each call |
| `PgzfCli` | the command (main.rs) | `disk`, the invocation, its files to do, `step`; `Start`, `Open`, `Create`, `Copy`, `Close`, `RemoveInput`, `Inspect`, `Stop` |
| `RunningTotals` | sums along a sequence, as recursive functions | no variables |
| `...Proofs` | | lemmas and theorems about the module of that name |
| `MC...` | | instances for TLC |

`PgzfReader` EXTENDS `PgzfIndex`. Its cache is a parameter: the constants
`CacheContents`, `CacheMemory`, `CacheTouch` and `CacheInsert` with the assumption
`CacheContract`, which `MCPgzfReader` fills with `BlockCacheOps` (TLC evaluates the
assumption on every state of the caches used). So the proofs hold for any eviction
policy, and the runs use the real one. `PgzfWriter` EXTENDS `PgzfIndexBuild`, whose
`Build` its invariants apply to the medium in every state, and `Pgzf` EXTENDS
`PgzfWriter` with a reader whose every step is one read of that medium.

The modules meet in shared statements. `Pgzf` checks `IndexIsWellFormed`: the arrays
that `build` leaves satisfy `WellFormed`, which is what `PgzfIndex` assumes
(`IndexArrays`) and the proofs about lookups and reader start from. `ParallelMap`
implements `OrderedMap`, which is what `PgzfWriter`, `PgzfReader` and `Pgzf` take a
parallel batch to be: one step, in order. What `PgzfCli` takes a decompressed archive
to be - all of it, a prefix when it was cut, an error when it is plain gzip - is what
`Pgzf` and `PlainGzip` find.

Definitions whose comment says "a faulty variant" are bugs on purpose: each is
substituted once for the definition next to it, to see that a property of a run
catches it. Nothing else uses them.

### Abstractions

- Data are names. A block is its number, bytes of the stream are positions, and a
  call returns an interval of positions. The writer's medium maps offsets to
  members, with their real sizes (the length of a deflate stream is any number in
  `BodySizes`).
- Reader calls are single steps, because a reader is used by one caller at a time.
  Writer calls go step by step (`call`, `step`), because a crash can fall between
  any two writes to the medium.
- Compressed offsets in `PgzfIndex` count members, not bytes. The reader only hands
  them back to the file.
- In the reader, a failure of the file below is a choice at each place where the
  code propagates one; afterwards the cursor is `Astray` unless the code has moved
  it. `lost` records that the position is unspecified until the next seek.
- In the writer, a failing or crashing write leaves the medium as it was or with the
  first `k` bytes of the member, `k` in `TornSizes`. A crash is that of the process:
  what was written before stays, in order. The 8 bytes of the GC value are written
  at once.
- A reader next to a writer sees a `write_all` in progress half done, with the same
  `TornSizes`. Its batches have no cache (that is `PgzfReader`), and decompression
  yields the interval of the stream that the member stands for.
- In `ParallelMap`, bytes are the number of the job they belong to, and a damaged block
  is one of three faults. How rayon cuts the batch into ranges is a choice; what
  `collect` does with an error (keep the first, then tell all ranges) is rayon's and
  marked external.
- In `PgzfCli`, contents are lists of layers (`<<"pgzf", "x">>`), `cut` when incomplete.
  A signal or an error of the system may end the command before any step. Contents do
  not say how long a file is, so what `-i` takes one for is a choice (`Kinds`): a file
  that can be shorter than 32 bytes may look like an empty archive, and one that was cut
  like an archive, like plain gzip or like neither.
- u64 arithmetic in seeks wraps at `OffsetSpace`, XLEN at `U16Space`.

## Runs

All runs set `CHECK_DEADLOCK FALSE`: a client may stop calling, and a finished,
failed or dropped writer takes no calls.

| Run | Instance | Shows |
|---|---|---|
| `MCBlockCache` | 3 blocks; contents of 1, 3 and 5 bytes; limit 4 or none; 5 calls | exact byte count, limits, latest contents, victims oldest first and only under pressure |
| `MCReaderStream` | batches of 1 to 3 with no cache or one of 2 blocks, changed at any time; only the fetch of a batch that ends in cached blocks is cut; one failure | fetching goes on behind the buffered blocks, and the reader implements `ByteStream` |
| `MCReaderAllCalls` | caches limited by count and bytes, memory limit, all seeks, block ranges, raw members | cache coherent, buffers in order, nothing skipped, raw members in file order and labelled |
| `MCReaderDrain` | seeks, caches, limits, a failure, then reads only | the end is reached |
| `MCPgzf` | blocks of 2, groups of 3, batches of 2, 7 bytes, two writers, torn writes; a reader in batches of 2 or of raw members | durable prefix, readable when finished, members end to end; the reader gets a prefix, at least what was complete, without an error; calls return, readers end |
| `MCParallelMap` | 3 blocks, every cut into ranges, every mix of faults and of empty blocks | an ordered map with one answer; nothing leaks between blocks |
| `MCPgzfCli` | four files, 88 command lines, three runs, each stopped anywhere | data survives, only inputs go, success means done, runs end |

The reader's file has three blocks of 2, 1 and 2 bytes in two groups. That gives a
block boundary inside a group and one across an IDX member, a block shorter than a
read, reads that end inside, at and behind a block, batches that start before a
cached block and end after one, and evictions in caches of two. Sought offsets are
every boundary, inside a block, the end and beyond the end. The writer's blocks of
two bytes leave the last block short or full and its group short or full, with the
last block filling its group exactly in `finish`; torn sizes 0, 11, 32 and 43 lie
before and behind the fixed header that a reader needs to see a member, behind the
BEG header that `build` reads, and inside the IDX entries. Three jobs make a range of
two or three jobs next to another, so a codec is used again, before and after errors
of its own range and of others. Three runs of the command are enough for a file that
one run leaves to be read by a second and overwritten by a third. Bounds are `MaxOps`,
`MaxFaults`, `MaxInput`, `MaxSessions` and `MaxRuns`.

`ImplementsByteStream` is checked with clients that avoid what is listed below: without
memory limit, without `seek_to_block` and `SeekFrom::Current`, and up to the fetch of a
batch that ends in cached blocks behind one that is not, which is the first entry of the
list. The CONSTRAINT `KeepsPlace` cuts just that: in the state before such a fetch the
run goes no further. Batches with cached blocks in front of those that are read from the
file, between them (the batch of three whose middle block is cached), or cached
altogether are in the run, as are batches that meet a cache changed in between. For
`MCReaderAllCalls`, which has everything, the properties are the ones that hold
nevertheless. Raw members are taken from under the stream, so what reads return after
them is unspecified until the next seek (`lost`); `RawLabelsCorrect` is about raw reads
from the start of the file or after `read_blocks`, since seeks break the labels.

`DataSurvives` is about careful command lines (`Careful`): `-s` and `-q` keep the input,
no two inputs go to one output, and what is overwritten is not the last copy of anything.
`SuccessMeansDone` is about whole inputs that are not outputs of the same run, and for
`-i` not about files so short that `-i` takes them for an empty archive.

### Where the code and its documentation disagree

Each of these is a run that TLC ends with a counterexample.

| Run | Code | Says |
|---|---|---|
| `MCReaderRepeats` | reader.rs:629: after a batch that ends in cached blocks, the next fill starts at those again | fuzz_edge_cases.rs:195 "re-seek read_all mismatch" |
| `MCReaderSeeks` | reader.rs:203: `seek_to_block(i)` makes the next read start at block 0. With `Ops = {"seek_current"}` the same property fails at reader.rs:776: the seek is relative to the position in the block | fuzz_seek_operations.rs:109 "Should read from block_idx to end"; :137 "Seek back to start via Current" |
| `MCReaderMemoryEof` | reader.rs:738: a memory limit reads as end of file | fuzz_cache_behavior.rs:209 "readahead memory-limited read mismatch" |
| `MCWriterIdxWrap` | format.rs:186: XLEN and SLEN are cut to 16 bits | pgzf.spec.md:136 "SLEN: N * 8" |
| `MCPlainGzip` | decompress.rs:67: every member without ZC is rejected | pgzf.spec.md:275 "Standard gzip files ... are read sequentially" |

`MCWriterIdxWrap` scales the 16 bits to 32 values, where groups of three wrap; in
the real width groups of 8191 do, and `-g` accepts them.

Also found on the way, without a run of their own:

- after `seek_to_block` raw members are labelled from 0 (reader.rs:203; README.md:147);
- the readahead memory limit is compared with what is held before a batch, so the
  total goes over it (reader.rs:498; reader.rs:128), and a single block larger than
  the cache's limit is kept (block_cache.rs:66; reader.rs:148);
- `Drop` warns of bytes in the buffer, not of whole blocks pending (writer.rs:243);
- with `block_size` 0, which neither the builder nor `-b` excludes, `write` loops
  without consuming anything (writer.rs:221; `Hangs` in `PgzfCli`);
- decompression overwrites its output without `-f`, as does compression of stdin with
  `-o` (main.rs:99, 144; only main.rs:341 asks), and `-f` together with an output that
  is the input empties it before it is read (main.rs:127);
- `-d -s` or `-d -q` with a file replaces the archive by a part of its data and deletes
  it (main.rs:314), and `-o` with several inputs deletes all of them for the last,
  as does `-d a a.out.gz`, where both go to `a.out` (main.rs:301);
- an archive that was cut short after a complete group decompresses to that prefix,
  successfully, and is deleted: `build` takes the unfinished group for the end
  (index.rs:54);
- `-d -o x -c` writes to `x` but keeps the input as if to stdout, and compression with
  `-c -o x` does not write to `x` (main.rs:301, 331);
- `-i` reports any file of less than 32 bytes as PGZF with no groups (index.rs:42);
- empty input compresses to a file of no bytes, which the reader refuses
  (writer.rs:134; reader.rs:48);
- pgzf.spec.md:131 has the lower 4 bytes of GC patched, the code writes all 8
  (writer.rs:192).

### Fairness

`MCReaderDrain` assumes that a client that could read does read again and again
(`WF(ReadOn)`): `read_to_end` and `io::copy` (main.rs:116) loop until a read returns
nothing. The property itself is about clients that from some time on only read.
`MCPgzf` assumes that a call of the writer in progress goes on (`WF(Progress)`):
nothing in `write` or `finish` waits for another thread but the end of a parallel map;
and that a reader that was opened reads on. `ReaderEnds` is about readers of a file
that nobody writes to any longer: behind a writer that never stops there is always
more. `MCPgzfCli` has weak fairness for the steps of a process that has started.
Starting calls and processes, failing, crashing and signals are not fair. `ParallelMap`
has no fairness: a job is a finite computation that waits for nothing, and that
`collect` ends is rayon's to promise.

## Proofs

| Property | Proved of | By |
|---|---|---|
| `TypeOK`, `MemoryIsExact`, `WithinLimits`, `HoldsLatest`, `OldestFirst`, `EvictsOnlyUnderPressure` | `BlockCache` | `BlockCacheProofs` |
| `TypeOK`, `CacheCoherent`, `BuffersInOrder`, `NeverSkips`, `RawLabelsCorrect`, `RawWalk` | `PgzfReader` | `PgzfReaderProofs` |
| `FetchesWhereBuffersEnd`, `ImplementsByteStream` | `PgzfReader` under `KeepsPlace`; the second also of sequential readers without it | `PgzfReaderProofs` |
| `seek_byte` makes the right block of whatever the binary search returns | `PgzfIndex` | `PgzfReaderProofs` |
| `BuffersInOrder`, `MembersTile`, `IndexFindsBlocks`, `FinishedReadable`, `ImplementsDurableStream` | `PgzfWriter` | `PgzfWriterProofs`, `PgzfIndexBuildProofs` |
| `PgzfTypeOK`, `ReaderSeesPrefix`, `OpenReaderNeverFails`, `PromisesKept`, `IndexIsWellFormed` | `Pgzf` | `PgzfProofs` |
| `TypeOK`, `NothingLeaks`, `RangesAreDone`, `ImplementsOrderedMap` | `ParallelMap` | `ParallelMapProofs` |
| `TypeOK`, `OnlyInputsGo`, `DataSurvives`, `SuccessMeansDone` | `PgzfCli` | `PgzfCliProofs` |

### The cache

For every set of blocks, every size of their contents and both limits
(`LimitsAssumption`). Two arguments are behind the six theorems.

The counter that `insert` and `evict_one` keep by hand is the sum of the sizes of the
entries. The eviction loop is the shortest sequence of evictions after which the new
entry fits; that there is one, because each eviction takes an entry from a finite list,
is what makes `insert` terminate, and it is a lemma (`EnoughEvictions`). Sums along a
list come from `RunningTotals`.

An LRU cache is correct when its order of entries is the order of their last use.
The induction for `OldestFirst` therefore carries `UseOrder`: along the list, `last_use`
falls strictly. It is not an invariant that a run checks, only the strengthening; the
property, that each victim was used before everything that survives, follows from it for
any number of evictions in one call.

### The reader

For every file (`IndexArrays`), every client (`ClientBounds`) and every cache that keeps
`CacheContract`. The first three properties are one induction, `Invariance`, over
`Inv == TypeOK /\ CacheCoherent /\ BuffersInOrder`. They need each other: a batch is
consecutive because cached blocks are what their numbers say, and the cache stays so
because a range is read from the offset of its first block, which is where the
`compressed_offsets` (strictly increasing, by `IndexArrays`) put it. The lemmas go
bottom-up: `FirstBlockFrom` of a block's own offset is that block; a contiguous range
has a start; so `Fetched(s)` is the identity on `Missing(s)`; so `Results(s)` is
`s, s+1, ...`; then one lemma per group of actions.

Everything else is proved next to `Inv`, each with what it needs.

Raw members (`RawLabelsCorrect`, `RawWalk`). `RawPlace` says that after a raw member the
offset in the reply is the start of the first block at or behind the cursor, and that
while labels are right that block is the one numbered next. A member ends where the
next begins, so the first block behind it is its successor, or the same one behind an
IDX (`BehindBlock`, `BehindMember`).

`NeverSkips`, for every client. `Served` says that `next_block_index` is never past the
end of the buffered blocks (`NoGap`) and that the last read ended where the reader
stands (`ReadUpTo`). It is the half of `FetchesWhereBuffersEnd` that always holds: the
defect in the table above makes `next_block_index` too small, never too large, so a
read can repeat bytes but not lose any.

`FetchesWhereBuffersEnd` and the refinement of `ByteStream` are the other half. They are
false of batches that end in cached blocks, so they have the hypothesis `[]KeepsPlace`,
the CONSTRAINT of `MCReaderStream`: whenever a fill is due (`FillDue`), the last block of
its batch is one that will be read from the file, or all of them are cached. Any other
mix of cached and fetched blocks is covered, for every readahead and cache. The
refinement also takes the clients of that run (`PlainCalls`: no `seek_to_block`, no
`SeekFrom::Current`, no raw members) and no memory limit (`PlainReads`); each of these is
a way into one of the counterexamples above, except raw members, after which the
position is unspecified. `Stands` is what the position follows from: nothing is read at
`eof`, and a failure leaves no seek behind. The proof maps each action to the one of
`ByteStream` it is: a read to one of some bytes, of none at the end, or failed; a seek,
deferred or not, to a seek.

Who keeps its place is answered by `SequentialKeepsPlace`: a reader that seeks only while
nothing is cached (`SeeksFirst`), and calls neither `seek_to_block` nor `read_blocks`.
Its cache holds only blocks before the next one to fetch (`CachedIsBehind`, inductive
through fills that fail half way as well), so no batch meets them. `SequentialReader`
puts the two together: with any readahead and any cache, the default of 8 and 64
included, such a reader returns the stream, without `KeepsPlace` as a hypothesis. That
is the reader that `io::copy` or `read_to_end` drains, and the command's, which seeks
once before its first read (main.rs:95). Outside of it are readers with a cache and
batches of two or more that seek, or read ranges of blocks, after something was cached:
for those, `KeepsPlace` is the condition.

`binary_search` is modelled by its contract, `SearchResults`: a match, any of them should
there be several, or the place to insert. `SeekByteCorrect` is about what seek_byte makes
of each of those results: for an offset up to the total it is the block that holds the
offset, or `block_count` exactly at the end; an insertion point of 0 and a skip below 0,
which index.rs:161 and :165 provide for, do not occur; and no two results differ in the
block, so `seek_byte` is well defined. It rests on what `build` leaves
(`IndexArrays`): offsets that begin with 0 and strictly increase.

### The writer and `build`

For every block size, group size, batch size, every choice of member sizes, torn writes,
any number of sessions, and any amount of input. The theorems about
the index have one hypothesis, `GroupsFit`: the entries of a full group fit in the 16
bits of XLEN. The code does not ensure it - that is the finding of `MCWriterIdxWrap`,
where `IndexFindsBlocks` fails without it - so it is a hypothesis of the theorems and
not an assumption of the module. It holds for `-g` up to 8190; `MCPgzf` evaluates it
(`ASSUME RoomForEntries`). `BuffersInOrder` and `MembersTile` need no hypothesis.

The invariant is built in three layers, each inductive relative to the ones before it.

- `CallsInv`: types, and at each step of a call what buffer and pending blocks hold.
  The blocks taken out of the buffer are full, consecutive, and everything accepted is
  on the file, pending or in the buffer. It gives `BuffersInOrder`.
- `FileInv`: the members lie end to end from offset 0 to the cursor, and those
  of the group in progress are, in order, the blocks written since its start.
  It gives `MembersTile`. It also says that a medium with a torn member at its end has
  no running writer, which is why an append never has to be considered behind one.
- `IndexInv`: what a reader would find. `IndexFindsBlocks` alone is not inductive: that
  `build` finds the blocks on this file says nothing about the file with one more member,
  or with the GC value patched in. The strengthening is about `build`'s loop and not about
  its answer. `SealedUpTo(f, end, secured)` says that a number of rounds from the start of
  the file pass only closed groups, reach `end`, and have collected offsets and totals that
  fit the members there. `Unsealed` says that at `end` the loop stops: nothing is there, or
  a first member whose GC value is still 0. The group in progress
  is described next to it (`GroupInv`): first member with GC 0, and member sizes equal to the
  sizes kept for the IDX member.
  Writing members moves nothing below `end`. Writing the IDX leaves the loop stopped.
  The back-patch is the one step at which `end` jumps: the GC value just written is the
  distance to the IDX, its entries are the sizes of the members of the group (this is where
  `GroupsFit` is used), and one more round of `build` passes the group.

`PgzfIndexBuildProofs` holds what these steps need of `build`, for any medium: that the
loop ends, that its answer is the state after its last round (`BuildIs`), that a
round reads only what lies before the next group (`PassesBelow`, `FindsBelow`), and that
running totals of the entries of an IDX are the offsets of its blocks (`AddEntriesIs`,
`FindsGrown`).

The refinement `WriterImplementsDurableStream` maps `durable` to what `Build` of the
medium finds, so it needs `IndexInv` to know what that is: a step that back-patches
a group makes all that it secured durable, a step of `write` that takes input in
accepts, and every other step, crashes included, leaves both as they are.

### A reader next to the writer

For every configuration of the writer as above, every read-ahead size, and every
interleaving of reads and writes, under `GroupsFit` again. Every step of `Pgzf` is a step
of the writer or leaves it alone (`WriterAlone`), so the writer's theorems hold of `Pgzf`
and its invariant `WriterInv` can be used. The reader needs to know more of the file than
`Build` of it, because it reads on behind the index, up to the member that is being
written, and because what it has read of the file was read at different times. The
inductive invariant is

    PgzfInv == WriterInv /\ \E pos : OnStream(pos) /\ ReaderOn(pos)

- `pos` gives each boundary between members its position in the stream. Below the
  cursor the members are whole and `pos` goes on from one to the next by the bytes of a
  block, and not at all over an IDX (`Stream`); behind it there is at most a torn member
  (`SeenIs`, `StreamTorn`). It reaches `Secured` where the closed groups end and
  `Written` at the cursor.
- A step of the writer only adds to `pos` (`OnStreamNext`, `CarriesOn`), and what is
  secured only grows (`SecuredGrows`). So a reader that is where the stream goes on
  remains there. The back-patch moves no boundary.
- While it builds the index, the reader is before a round that the loop of `build` gets
  to on the file as it is now (`Reached`). What such a round sees is a closed group or
  the end of the closed groups (`GroupSeen`), which is why a GC value of 0 is the end of
  the index and not an error, and why the index holds at least what was promised:
  `promised <= Secured` since it was opened.
- Reading, its cursor is where the stream goes on behind what was delivered (`Reads`).
  A member there is the next block, an IDX, which it skips, a torn one or none
  (`MemberSeen`); below the end of a batch there are only members that are complete.

For `IndexIsWellFormed`, offsets become members: between two of the offsets in the index
there is a member, so the number of members before an offset increases strictly. With
`IndexArrays` proved of what is built, the theorems about `PgzfIndex` and `PgzfReader`
start from what the one about `Pgzf` ends with.

### Parallel batches

For every number of jobs and every cut into ranges (`BatchSize`). The inductive
invariant says of a range in the middle of a job that its codec was reset for that job,
that it has just produced that job's output, or that the job fails; that ranges are
intervals, so no other range moves `at` over the job; and that `full` and an early end
come with a saved error. The refinement then needs only `Collect`: without a saved error
every range is at its end, so every job is done and its result is the one it has alone;
every other step leaves `answer` as it is.

### The command

For every disk that holds a copy of everything and any list of command lines that clap
accepts (`CliConfig`, `CliArguments`), any number of runs and of files.

- `OnlyInputsGo`, with `OutputIsNew`: until it is created the output does not exist, and
  while it is written it either did not exist at the start or is an input that an
  earlier file of the list removed.
- `DataSurvives`. That some copy exists is not inductive, because the next output may be
  written over it. `Copies` says which copies last: one that is not the output in work,
  and that no input left can have for its output (`NotInTheWay`). Inputs that would,
  and the inputs that lead to those, are gone; opening the input before creating the
  output (`Open`, `Create`) is what keeps a missing input from emptying anything. When
  the copy is the input that is removed, its output takes over (`Moved`, `ResultIntact`),
  and the input joins those that are gone. Without `-f` there is no need for that:
  `OutputIsNew` keeps outputs off every copy. The proof found a careless command line
  that no run had: two inputs can have one output without `-o` (`OutputsDiffer`).
- `SuccessMeansDone`, with `InTurn` (what is left is the end of the list) and
  `FilesDone`: inputs still there are unchanged, and all files before the current one
  are done, except that a file given twice has its output emptied a second time.

### Recursive functions

`Sums`, `AddEntries` and `Walks` are recursive functions, not RECURSIVE operators. That
such a function unfolds is proved once, in `RunningTotalsProofs`, from the set of the
functions defined up to `n` (`InductionUpTo`), because the theorems of the library that
say so take operators as parameters. Facts about all arguments are then proved by
least counterexample: a bounded set of naturals that is not empty has a least element
(`LeastOf`), and the function unfolds there. So inductions over data are done where a
proof needs them, one at a time.

### Only model-checked

- Liveness: `DrainEnds`, `CallsReturn`, `ReaderEnds` and `Terminates`.
  Fairness and ENABLED are out of the prover's reach.
- The violation runs, and with them `PlainGzip`, whose one property the code breaks.

## Plan

Done: cache, index lookups and building, reader on PGZF and on plain gzip files, byte
stream refinement, writer with crashes, reader and writer on one file, parallel batches,
the command; the proofs above. Next, in this order:

1. `group_contiguous` as an algorithm against `RangeStart` and `LastEnd`.

## Not modelled

Deflate itself and CRCs (flate2, crc32fast), file damage by others, reordering of
writes by the operating system, the text that `-i` prints, `PgzfError` as a type, the
fuzz targets (they are used as statements of what is expected).
