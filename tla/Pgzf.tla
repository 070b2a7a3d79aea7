-------------------------------- MODULE Pgzf --------------------------------
(***************************************************************************)
(* A writer and a reader on the same file: PgzfReader::new reads it and    *)
(* builds the index group by group, and the blocks are read in batches or  *)
(* as raw members, while the writer of PgzfWriter is at work on it, or has *)
(* finished, failed or crashed.  Each step of the reader is one read of    *)
(* the file, so it may find what was not there a step earlier, and a write *)
(* in progress half done.                                                  *)
(***************************************************************************)
EXTENDS PgzfWriter, OffsetArrays

CONSTANT readahead_size  \* blocks fetched in a batch

ASSUME ReaderConfig == readahead_size \in Nat \ {0}

VARIABLES
  mode,              \* what the reader does next
  inner_reader,      \* its cursor
  group_start,       \* build: start of the group whose IDX member is sought
  index,             \* build: the arrays so far; afterwards, the index
  next_block_index,
  to_fetch,          \* blocks of the batch still to be fetched
  delivered,         \* history: the blocks that the client got
  promised           \* history: what was on the file for good when it was opened

place == <<inner_reader, next_block_index, to_fetch>>
reader == <<mode, place, group_start, index, delivered, promised>>

PgzfInit ==
  /\ Init
  /\ mode = "closed" /\ inner_reader = 0 /\ group_start = 0 /\ index = NoGroups
  /\ next_block_index = 0 /\ to_fetch = 0
  /\ delivered = <<>> /\ promised = 0

(* The file as another process finds it, a write_all being under way.      *)
Seen == IF outcome = "open" THEN Interrupted ELSE {file}

-----------------------------------------------------------------------------
(* PgzfReader::new: the first header, then PgzfIndex::build from offset 0. *)
Open ==
  /\ mode = "closed"
  /\ \E seen \in Seen :
       mode' = IF seen.length < GZIP_FIXED_HEADER_SIZE THEN "refused" ELSE "beg"
  /\ promised' = IF outcome = "finished" THEN accepted ELSE Total(Index)
  /\ UNCHANGED <<place, group_start, index, delivered>>

(* A round of build's loop reads a BEG header.  At the end of the groups   *)
(* the index is complete, the cursor goes back to 0, and the client reads  *)
(* either the stream or raw members.                                       *)
ReadBeg ==
  /\ mode = "beg"
  /\ \E seen \in Seen :
       IF EndOfGroups(seen, inner_reader)
         THEN /\ mode' \in {"read", "raw"}
              /\ inner_reader' = 0
              /\ UNCHANGED group_start
         ELSE /\ mode' = IF StartsGroup(seen, inner_reader) THEN "idx" ELSE "failed"
              /\ group_start' = inner_reader
              /\ inner_reader' = IF mode' = "idx" THEN IdxAt(seen, inner_reader) ELSE inner_reader
  /\ UNCHANGED <<index, next_block_index, to_fetch, delivered, promised>>

(* And the IDX member that its GC value leads to.                          *)
ReadIdx ==
  /\ mode = "idx"
  /\ \E seen \in Seen :
       IF IsIdx(seen, inner_reader)
         THEN /\ index' = AddGroup(index, seen.members[inner_reader])
              /\ inner_reader' = inner_reader + seen.members[inner_reader].zc
              /\ mode' = "beg"
         ELSE /\ mode' = "failed"
              /\ UNCHANGED <<index, inner_reader>>
  /\ UNCHANGED <<group_start, next_block_index, to_fetch, delivered, promised>>

OneBeforeEnd == next_block_index >= block_count(index) - 1  \* a faulty variant
AllBlocks == next_block_index >= block_count(index)

(* fill_readahead without a cache: a seek to the first block of the batch. *)
StartBatch ==
  /\ mode = "read" /\ to_fetch = 0
  /\ IF AllBlocks
       THEN mode' = "end" /\ UNCHANGED place
       ELSE LET left == block_count(index) - next_block_index
            IN /\ to_fetch' = IF readahead_size < left THEN readahead_size ELSE left
               /\ inner_reader' = index.compressed_offsets[next_block_index + 1]
               /\ UNCHANGED <<mode, next_block_index>>
  /\ UNCHANGED <<group_start, index, delivered, promised>>

AnyType(type) == TRUE  \* a faulty variant
IsBlock(type) == type # "idx"

BehindBlock(at, m) == IF m.kind = "idx" THEN at ELSE at + m.zc  \* a faulty variant
BehindMember(at, m) == at + m.zc

(* read_one_raw_block, as fill_readahead and the client of raw members     *)
(* call it.                                                                *)
ReadRawBlock(seen) ==
  LET raw == RawBlock(seen, inner_reader)
      m == seen.members[inner_reader]
      returned == [block_index |-> next_block_index, from |-> m.from, to |-> m.to]
  IN /\ raw.result = "block"
     /\ inner_reader' = BehindMember(inner_reader, m)
     /\ next_block_index' = IF IsBlock(raw.type) THEN next_block_index + 1 ELSE next_block_index
     /\ delivered' = IF IsBlock(raw.type) THEN Append(delivered, returned) ELSE delivered
     /\ to_fetch' = IF mode = "read" /\ IsBlock(raw.type) THEN to_fetch - 1 ELSE to_fetch
     /\ UNCHANGED mode

(* The members of a batch, its IDX members skipped; without the blocks     *)
(* that the index lists the stream would end early.                        *)
Fetch ==
  /\ mode = "read" /\ to_fetch > 0
  /\ \E seen \in Seen :
       \/ ReadRawBlock(seen)
       \/ /\ RawBlock(seen, inner_reader).result # "block"
          /\ mode' = "failed"
          /\ UNCHANGED <<place, delivered>>
  /\ UNCHANGED <<group_start, index, promised>>

(* The client takes one raw member after another.                          *)
TakeRaw ==
  /\ mode = "raw"
  /\ \E seen \in Seen :
       \/ ReadRawBlock(seen)
       \/ /\ RawBlock(seen, inner_reader).result # "block"
          /\ mode' = IF RawBlock(seen, inner_reader).result = "none" THEN "end" ELSE "torn"
          /\ UNCHANGED <<place, delivered>>
  /\ UNCHANGED <<group_start, index, promised>>

ReaderStep == Open \/ ReadBeg \/ ReadIdx \/ StartBatch \/ Fetch \/ TakeRaw

PgzfNext ==
  \/ Next /\ UNCHANGED reader
  \/ ReaderStep /\ UNCHANGED vars

(* Neither a call of the writer nor a reader that is at work stops.        *)
PgzfSpec ==
  /\ PgzfInit /\ [][PgzfNext]_<<vars, reader>>
  /\ WF_vars(Progress /\ UNCHANGED reader)
  /\ WF_reader(mode # "closed" /\ ReaderStep /\ UNCHANGED vars)

-----------------------------------------------------------------------------
PgzfTypeOK ==
  /\ TypeOK
  /\ mode \in {"closed", "refused", "beg", "idx", "failed", "read", "raw", "torn", "end"}
  /\ inner_reader \in Nat /\ group_start \in Nat /\ next_block_index \in Nat
  /\ to_fetch \in 0..readahead_size
  /\ promised \in Nat

Got == IF delivered = <<>> THEN 0 ELSE Last(delivered).to

(* Whenever the reader was opened, and whatever the writer has done since, *)
(* the client gets the input from its first byte on, block by block and    *)
(* with the right numbers, and nothing that was never written.             *)
ReaderSeesPrefix ==
  /\ \A i \in DOMAIN delivered :
       /\ delivered[i].block_index = i - 1
       /\ delivered[i].from = IF i = 1 THEN 0 ELSE delivered[i - 1].to
  /\ Got <= accepted

(* A group under construction is never an error: neither building the      *)
(* index nor reading by it fails while the writer goes on, stops or fails. *)
OpenReaderNeverFails == mode # "failed"

(* The end is not reported, and a torn member not met, before everything   *)
(* that was on the file when it was opened has been read: the whole input  *)
(* if finish() had returned.                                               *)
PromisesKept == mode \in {"refused", "torn", "end"} => Got >= promised

(* The offset arrays are what PgzfReader assumes of them (IndexArrays),    *)
(* compressed offsets being counted in members.                            *)
IndexIsWellFormed ==
  LET before(offset) == Cardinality({at \in DOMAIN file.members : at < offset})
      n == block_count(index)
  IN WellFormed(n,
       [b \in 0..n |-> index.uncompressed_offsets[b + 1]],
       [b \in 0..n |-> before(index.compressed_offsets[b + 1])])

Reading == mode \in {"beg", "idx", "read", "raw"}

(* A reader of a file that nobody writes to any longer comes to an end.    *)
ReaderEnds == <>[](outcome # "open") => (Reading ~> ~Reading)
=============================================================================
