-------------------------- MODULE PgzfReaderProofs --------------------------
(***************************************************************************)
(* What the lookups of PgzfIndex return, and invariants of PgzfReader, for *)
(* every file, client and cache.                                           *)
(***************************************************************************)
EXTENDS PgzfReader, RunningTotalsProofs

(* IndexArrays is used for what WellFormed says of the arrays.             *)
USE DEF WellFormed

-----------------------------------------------------------------------------
(* The lookups of the index.                                               *)

(* Offsets do not decrease along the arrays, and stay below the totals.    *)
LEMMA OffsetsMonotonic ==
  ASSUME NEW b \in 0..block_count, NEW c \in 0..block_count, b <= c
  PROVE  /\ uncompressed_offsets[b] \in Nat /\ compressed_offsets[b] \in Nat
         /\ uncompressed_offsets[b] <= uncompressed_offsets[c]
         /\ compressed_offsets[b] <= compressed_offsets[c]
<1>1. CASE b = c
  BY <1>1, IndexArrays
<1>2. CASE b < c
  BY <1>2, IndexArrays
<1> QED
  BY <1>1, <1>2, IndexArrays

LEMMA OffsetsInjective ==
  ASSUME NEW b \in 0..block_count, NEW c \in 0..block_count,
         \/ uncompressed_offsets[b] <= uncompressed_offsets[c]
         \/ compressed_offsets[b] <= compressed_offsets[c]
  PROVE  b <= c
<1>1. ASSUME c < b PROVE FALSE
  BY <1>1, IndexArrays
<1> QED
  BY <1>1, IndexArrays

LEMMA Totals ==
  /\ total_uncompressed \in Nat /\ total_compressed \in Nat
  /\ \A b \in 0..block_count : /\ uncompressed_offsets[b] \in 0..total_uncompressed
                               /\ compressed_offsets[b] \in 0..total_compressed
BY IndexArrays, OffsetsMonotonic DEF total_uncompressed, total_compressed

(* No block is empty.                                                      *)
LEMMA BlocksNotEmpty ==
  ASSUME NEW b \in Blocks
  PROVE  /\ b \in 0..block_count /\ b + 1 \in 0..block_count
         /\ BlockLen(b) \in Nat \ {0}
         /\ compressed_offsets[b] < compressed_offsets[b + 1]
BY IndexArrays DEF Blocks, BlockLen

(* An ascending array has a place for every offset up to its last entry:   *)
(* the search has a result.                                                *)
LEMMA SearchHasResult ==
  ASSUME NEW offset \in 0..total_uncompressed
  PROVE  SearchResults(offset) # {}
<1> DEFINE below == {b \in 0..block_count : uncompressed_offsets[b] <= offset}
<1>1. offset \in Nat /\ block_count \in Nat
  BY Totals, IndexArrays
<1>2. 0 \in below
  BY <1>1, IndexArrays
<1>3. PICK m \in below : \A x \in below : x <= m
  BY <1>1, <1>2, GreatestOf
<1>4. m \in 0..block_count /\ uncompressed_offsets[m] <= offset
  BY <1>3
<1>5. CASE uncompressed_offsets[m] = offset
  <2>1. [found |-> TRUE, at |-> m] \in SearchResults(offset)
    BY <1>4, <1>5 DEF SearchResults
  <2> QED
    BY <2>1
<1>6. CASE uncompressed_offsets[m] # offset
  <2>1. uncompressed_offsets[m] < offset
    BY <1>1, <1>4, <1>6, IndexArrays
  <2>2. \A j \in 0 .. (m + 1) - 1 : uncompressed_offsets[j] < offset
    <3> SUFFICES ASSUME NEW j \in 0 .. (m + 1) - 1 PROVE uncompressed_offsets[j] < offset
      OBVIOUS
    <3>1. j \in 0..block_count /\ j <= m
      BY <1>1, <1>4
    <3>2. /\ uncompressed_offsets[j] <= uncompressed_offsets[m]
          /\ uncompressed_offsets[j] \in Nat /\ uncompressed_offsets[m] \in Nat
      BY <1>4, <3>1, OffsetsMonotonic
    <3> QED
      BY <1>1, <2>1, <3>2
  <2>3. \A j \in m + 1 .. block_count : uncompressed_offsets[j] > offset
    <3> SUFFICES ASSUME NEW j \in m + 1 .. block_count PROVE uncompressed_offsets[j] > offset
      OBVIOUS
    <3>1. j \in 0..block_count /\ ~(j <= m)
      BY <1>1, <1>4
    <3>2. ~(uncompressed_offsets[j] <= offset)
      BY <1>3, <3>1
    <3> QED
      BY <1>1, <3>1, <3>2, IndexArrays
  <2>4. m + 1 \in 0 .. block_count + 1
    BY <1>1, <1>4
  <2>5. [found |-> FALSE, at |-> m + 1] \in SearchResults(offset)
    BY <2>2, <2>3, <2>4 DEF SearchResults
  <2> QED
    BY <2>5
<1> QED
  BY <1>5, <1>6

(* Whatever binary_search returns for an offset up to the total, seek_byte *)
(* makes the block of it that holds the offset, and the end of the array   *)
(* just for the end of the stream; the offset is never before all entries, *)
(* so that "else 0" and the saturation of the skip have nothing to do; and *)
(* any two results make the same block.                                    *)
THEOREM SeekByteCorrect ==
  ASSUME NEW offset \in 0..total_uncompressed, NEW result \in SearchResults(offset)
  PROVE  /\ block_idx(result) \in 0..block_count
         /\ uncompressed_offsets[block_idx(result)] <= offset
         /\ block_idx(result) = block_count <=> offset = total_uncompressed
         /\ offset < total_uncompressed =>
              /\ block_idx(result) \in Blocks
              /\ offset < uncompressed_offsets[block_idx(result) + 1]
         /\ ~result.found => result.at > 0
         /\ saturating_sub(offset, uncompressed_offsets[block_idx(result)])
              = offset - uncompressed_offsets[block_idx(result)]
         /\ block_idx(result) = seek_byte(offset)
<1>1. offset \in Nat /\ block_count \in Nat /\ uncompressed_offsets[0] = 0
      /\ \A b \in 0..block_count : uncompressed_offsets[b] \in Nat
  BY Totals, IndexArrays
<1>2. ASSUME NEW r \in SearchResults(offset)
      PROVE  /\ block_idx(r) \in 0..block_count
             /\ uncompressed_offsets[block_idx(r)] <= offset
             /\ \A c \in 0..block_count : uncompressed_offsets[c] <= offset => c <= block_idx(r)
             /\ ~r.found => r.at > 0
  <2>1. CASE r.found
    <3>1. PICK b \in 0..block_count : r.at = b /\ uncompressed_offsets[b] = offset
      BY <1>2, <2>1 DEF SearchResults
    <3>2. block_idx(r) = b
      BY <2>1, <3>1 DEF block_idx
    <3>3. \A c \in 0..block_count : uncompressed_offsets[c] <= offset => c <= b
      BY <3>1, OffsetsInjective
    <3> QED
      BY <1>1, <2>1, <3>1, <3>2, <3>3
  <2>2. CASE ~r.found
    <3>1. PICK i \in 0 .. block_count + 1 :
            /\ r.at = i
            /\ \A j \in 0 .. i - 1 : uncompressed_offsets[j] < offset
            /\ \A j \in i .. block_count : uncompressed_offsets[j] > offset
      BY <1>2, <2>2 DEF SearchResults
    <3>2. i > 0
      <4>1. ASSUME i = 0 PROVE FALSE
        <5>1. uncompressed_offsets[0] > offset
          BY <1>1, <3>1, <4>1
        <5> QED
          BY <1>1, <5>1
      <4> QED
        BY <1>1, <4>1
    <3>3. block_idx(r) = i - 1
      BY <2>2, <3>1, <3>2 DEF block_idx
    <3>4. i - 1 \in 0..block_count /\ i - 1 \in 0 .. i - 1
      BY <1>1, <3>2
    <3>5. uncompressed_offsets[i - 1] <= offset
      BY <1>1, <3>1, <3>4
    <3>6. \A c \in 0..block_count : uncompressed_offsets[c] <= offset => c <= i - 1
      <4> SUFFICES ASSUME NEW c \in 0..block_count, uncompressed_offsets[c] <= offset, c > i - 1
                   PROVE  FALSE
        BY <1>1
      <4>1. c \in i .. block_count
        BY <1>1
      <4>2. uncompressed_offsets[c] > offset
        BY <3>1, <4>1
      <4> QED
        BY <1>1, <4>2
    <3> QED
      BY <3>1, <3>2, <3>3, <3>4, <3>5, <3>6
  <2> QED
    BY <2>1, <2>2
<1>3. PICK b \in 0..block_count :
        /\ b = block_idx(result) /\ uncompressed_offsets[b] <= offset
        /\ \A c \in 0..block_count : uncompressed_offsets[c] <= offset => c <= b
  BY <1>2
<1>4. ASSUME offset = total_uncompressed PROVE b = block_count
  BY <1>1, <1>3, <1>4, IndexArrays DEF total_uncompressed
<1>5. ASSUME b = block_count PROVE offset = total_uncompressed
  BY <1>1, <1>3, <1>5, Totals DEF total_uncompressed
<1>6. ASSUME offset < total_uncompressed
      PROVE  b \in Blocks /\ offset < uncompressed_offsets[b + 1]
  <2>1. b # block_count
    BY <1>5, <1>6, Totals
  <2>2. b \in Blocks /\ b + 1 \in 0..block_count
    BY <1>1, <1>3, <2>1 DEF Blocks
  <2> QED
    BY <1>1, <1>3, <2>2
<1>7. saturating_sub(offset, uncompressed_offsets[b]) = offset - uncompressed_offsets[b]
  BY <1>1, <1>3 DEF saturating_sub
<1>8. b = seek_byte(offset)
  <2>1. binary_search(offset) \in SearchResults(offset)
    BY SearchHasResult DEF binary_search
  <2>2. PICK a \in 0..block_count :
          /\ a = seek_byte(offset) /\ uncompressed_offsets[a] <= offset
          /\ \A c \in 0..block_count : uncompressed_offsets[c] <= offset => c <= a
    BY <1>2, <2>1 DEF seek_byte
  <2>3. a <= b /\ b <= a
    BY <1>3, <2>2
  <2> QED
    BY <1>1, <2>2, <2>3
<1> QED
  BY <1>2, <1>3, <1>4, <1>5, <1>6, <1>7, <1>8

LEMMA SeekByteFinds ==
  ASSUME NEW offset \in 0..total_uncompressed
  PROVE  /\ seek_byte(offset) \in 0..block_count
         /\ uncompressed_offsets[seek_byte(offset)] <= offset
         /\ seek_byte(offset) = block_count <=> offset = total_uncompressed
         /\ offset < total_uncompressed =>
              /\ seek_byte(offset) \in Blocks
              /\ offset < uncompressed_offsets[seek_byte(offset) + 1]
         /\ saturating_sub(offset, uncompressed_offsets[seek_byte(offset)])
              = offset - uncompressed_offsets[seek_byte(offset)]
<1>1. PICK result \in SearchResults(offset) : TRUE
  BY SearchHasResult
<1> QED
  BY <1>1, SeekByteCorrect

-----------------------------------------------------------------------------

(* TypeOK alone is not inductive: that a served offset stays inside its    *)
(* block needs the cache to hold what its keys say, and that buffers are   *)
(* in order needs the same of a batch with cached and fetched blocks.      *)
Inv == TypeOK /\ CacheCoherent /\ BuffersInOrder

-----------------------------------------------------------------------------
(* The file.                                                               *)

(* A sequential reader placed at a block's offset meets that block.        *)
LEMMA FirstBlockAt ==
  ASSUME NEW b \in 0..block_count
  PROVE  FirstBlockFrom(compressed_offsets[b]) = b
<1>1. \A c \in 0..block_count : compressed_offsets[c] >= compressed_offsets[b] => b <= c
  BY IndexArrays, OffsetsInjective
<1>2. compressed_offsets[b] >= compressed_offsets[b]
  BY IndexArrays
<1>3. \A d \in 0..block_count :
        (/\ compressed_offsets[d] >= compressed_offsets[b]
         /\ \A c \in 0..block_count : compressed_offsets[c] >= compressed_offsets[b] => d <= c)
          => d = b
  BY <1>1, <1>2
<1> QED
  BY <1>1, <1>2, <1>3 DEF FirstBlockFrom

(* From any member up to the end it meets a block not before it, or the    *)
(* end.                                                                    *)
LEMMA FirstBlockLeast ==
  ASSUME NEW m \in 0..total_compressed
  PROVE  \E b \in 0..block_count :
           /\ compressed_offsets[b] >= m
           /\ \A c \in 0..block_count : compressed_offsets[c] >= m => b <= c
<1> DEFINE S == {b \in 0..block_count : compressed_offsets[b] >= m}
<1>1. block_count \in S
  BY IndexArrays DEF total_compressed
<1>2. S \in SUBSET Nat
  BY IndexArrays
<1>3. \E b \in S : \A c \in S : b <= c
  <2> HIDE DEF S
  <2> QED
    BY <1>1, <1>2, LeastOf
<1> QED
  BY <1>3

LEMMA FirstBlockFromType ==
  ASSUME NEW m \in 0..total_compressed
  PROVE  /\ FirstBlockFrom(m) \in 0..block_count
         /\ compressed_offsets[FirstBlockFrom(m)] >= m
BY FirstBlockLeast DEF FirstBlockFrom

-----------------------------------------------------------------------------
(* The cache.                                                              *)
Coherent(c) == \A b \in DOMAIN CacheContents(c) : CacheContents(c)[b] = b

LEMMA CacheFacts ==
  ASSUME NEW c \in Caches
  PROVE  /\ CacheMemory(c) \in Nat
         /\ DOMAIN CacheContents(c) \subseteq Blocks
         /\ \A b \in DOMAIN CacheContents(c) : CacheContents(c)[b] \in Blocks
         /\ \A asked \in SUBSET Blocks :
              /\ CacheTouch(c, asked) \in Caches
              /\ CacheContents(CacheTouch(c, asked)) = CacheContents(c)
<1>1. PICK held \in SUBSET Blocks : CacheContents(c) \in [held -> Blocks]
  BY CacheContract
<1>2. DOMAIN CacheContents(c) = held
  BY <1>1
<1>3. \A b \in held : CacheContents(c)[b] \in Blocks
  BY <1>1
<1> QED
  BY <1>1, <1>2, <1>3, CacheContract

(* Inserting blocks under their own numbers keeps a cache coherent.        *)
LEMMA InsertKeepsCoherent ==
  ASSUME NEW c \in Caches, Coherent(c),
         NEW asked \in SUBSET Blocks, NEW added \in SUBSET Blocks,
         NEW data \in [added -> Blocks], \A b \in added : data[b] = b
  PROVE  /\ CacheInsert(CacheTouch(c, asked), data) \in Caches
         /\ Coherent(CacheInsert(CacheTouch(c, asked), data))
<1> DEFINE t == CacheTouch(c, asked)
<1>1. t \in Caches /\ CacheContents(t) = CacheContents(c)
  BY CacheFacts
<1> HIDE DEF t
<1>2. /\ CacheInsert(t, data) \in Caches
      /\ \A b \in DOMAIN CacheContents(CacheInsert(t, data)) :
           \/ b \in added /\ CacheContents(CacheInsert(t, data))[b] = data[b]
           \/ /\ b \in DOMAIN CacheContents(t) \ added
              /\ CacheContents(CacheInsert(t, data))[b] = CacheContents(t)[b]
  <2> DEFINE Keeps(new, d) ==
        /\ CacheInsert(t, d) \in Caches
        /\ \A b \in DOMAIN CacheContents(CacheInsert(t, d)) :
             \/ b \in new /\ CacheContents(CacheInsert(t, d))[b] = d[b]
             \/ /\ b \in DOMAIN CacheContents(t) \ new
                /\ CacheContents(CacheInsert(t, d))[b] = CacheContents(t)[b]
  <2>1. \A new \in SUBSET Blocks : \A d \in [new -> Blocks] : Keeps(new, d)
    BY <1>1, CacheContract, Zenon
  <2>2. Keeps(added, data)
    <3> HIDE DEF Keeps
    <3> QED
      BY <2>1
  <2> QED
    BY <2>2
<1>3. Coherent(CacheInsert(t, data))
  BY <1>1, <1>2 DEF Coherent
<1> QED
  BY <1>2, <1>3 DEF t

-----------------------------------------------------------------------------
(* A batch.                                                                *)
LEMMA BatchType ==
  ASSUME TypeOK, NEW s \in Nat
  PROVE  /\ Batch(s) \subseteq Blocks
         /\ Missing(s) \subseteq Batch(s)
         /\ SmallerOf(block_count, s + readahead_size) \in 0..block_count
         /\ s < block_count => /\ s \in Batch(s)
                               /\ s < SmallerOf(block_count, s + readahead_size)
BY IndexArrays DEF TypeOK, Batch, Missing, Blocks, SmallerOf

LEMMA RangeStartType ==
  ASSUME TypeOK, NEW s \in Nat, NEW b \in Missing(s)
  PROVE  RangeStart(s, b) \in Missing(s) /\ RangeStart(s, b) <= b
<1> DEFINE M == Missing(s)
           S == {r \in M : r <= b /\ r .. b \subseteq M}
<1>1. M \subseteq Nat
  BY BatchType, IndexArrays DEF Blocks
<1>2. b \in S
  BY <1>1
<1>3. PICK r \in S : \A x \in S : r <= x
  BY <1>1, <1>2, LeastOf
<1>4. r - 1 \notin M
  <2> SUFFICES ASSUME r - 1 \in M PROVE FALSE
    OBVIOUS
  <2>1. (r - 1) .. b \subseteq M
    BY <1>1, <1>3
  <2>2. r - 1 \in S
    BY <1>1, <1>3, <2>1
  <2> QED
    BY <1>1, <1>3, <2>2
<1> QED
  BY <1>3, <1>4 DEF RangeStart

(* Whatever part of a batch is cached, each block read from the file is    *)
(* the one it is taken for.                                                *)
LEMMA FetchedRight ==
  ASSUME TypeOK, NEW s \in Nat
  PROVE  /\ Fetched(s) \in [Missing(s) -> Blocks]
         /\ \A b \in Missing(s) : Fetched(s)[b] = b
<1>1. ASSUME NEW b \in Missing(s) PROVE RawRead(s, b) = b /\ b \in Blocks
  <2>1. b \in Blocks /\ RangeStart(s, b) \in Blocks
    BY BatchType, RangeStartType
  <2>2. FirstBlockFrom(compressed_offsets[RangeStart(s, b)]) = RangeStart(s, b)
    BY <2>1, BlocksNotEmpty, FirstBlockAt
  <2> QED
    BY <2>1, <2>2, IndexArrays DEF RawRead, Blocks
<1> QED
  BY <1>1 DEF Fetched

LEMMA LastEndType ==
  ASSUME TypeOK, NEW s \in Nat, Missing(s) # {}
  PROVE  /\ LastEnd(s) \in 1..block_count
         /\ LastEnd(s) - 1 \in Missing(s)
         /\ \A b \in Missing(s) : b < LastEnd(s)
<1> DEFINE M == Missing(s)
<1>1. M \in SUBSET (0..block_count) /\ M \subseteq Blocks
  <2>1. M \subseteq Blocks
    BY BatchType, Zenon
  <2>2. Blocks \subseteq 0..block_count
    BY IndexArrays DEF Blocks
  <2> HIDE DEF M
  <2> QED
    BY <2>1, <2>2
<1>2. PICK m \in M : \A x \in M : x <= m
  <2> HIDE DEF M
  <2> QED
    BY <1>1, GreatestOf, IndexArrays DEF M
<1>3. block_count \in Nat /\ m \in 0 .. block_count - 1 /\ \A x \in M : x \in Nat
  BY <1>1, IndexArrays DEF Blocks
<1>4. m + 1 \in 0..block_count /\ (m + 1) - 1 = m /\ \A b \in M : b < m + 1
  BY <1>2, <1>3
<1> HIDE DEF M
<1>5. \E e \in 0..block_count : e - 1 \in M /\ \A b \in M : b < e
  BY <1>2, <1>4
<1>6. /\ LastEnd(s) \in 0..block_count
      /\ LastEnd(s) - 1 \in M
      /\ \A b \in M : b < LastEnd(s)
  BY <1>5 DEF LastEnd, M
<1>7. LastEnd(s) # 0
  BY <1>3, <1>6
<1> QED
  BY <1>3, <1>6, <1>7 DEF M

(* The batch is handed over whole and in order.                            *)
LEMMA ResultsRight ==
  ASSUME TypeOK, CacheCoherent, NEW s \in Nat, s < block_count
  PROVE  /\ Results(s) \in Seq(Blocks)
         /\ Results(s) # <<>>
         /\ \A i \in 1..Len(Results(s)) : Results(s)[i] = s + i - 1
         /\ Len(Results(s)) = SmallerOf(block_count, s + readahead_size) - s
<1> DEFINE n == SmallerOf(block_count, s + readahead_size) - s
<1>1. n \in Nat \ {0} /\ s + n <= block_count
  BY IndexArrays DEF TypeOK, SmallerOf
<1>2. ASSUME NEW i \in 1..n
      PROVE  /\ Results(s)[i] = s + i - 1
             /\ s + i - 1 \in Blocks
  <2>1. s + i - 1 \in Batch(s)
    BY <1>1, IndexArrays DEF Batch, SmallerOf, TypeOK
  <2>2. s + i - 1 \in Blocks
    BY <2>1, BatchType
  <2>3. CASE s + i - 1 \in Missing(s)
    BY <2>2, <2>3, FetchedRight DEF Results
  <2>4. CASE s + i - 1 \notin Missing(s)
    BY <2>1, <2>2, <2>4 DEF Results, Missing, Cached, CacheCoherent
  <2> QED
    BY <2>2, <2>3, <2>4
<1>3. DOMAIN Results(s) = 1..n
  BY DEF Results
<1>4. Results(s) \in [1..n -> Blocks]
  BY <1>2, <1>3 DEF Results
<1>5. Results(s) \in Seq(Blocks) /\ Len(Results(s)) = n
  BY <1>1, <1>3, <1>4
<1> QED
  BY <1>1, <1>2, <1>5

-----------------------------------------------------------------------------
(* The parts of a step that several actions share.                         *)
LEMMA ReplyType ==
  ASSUME NEW call \in Calls, NEW arg \in Int, NEW len \in Int,
         NEW from \in Nat, NEW to \in Nat
  PROVE  Reply(call, arg, len, from, to) \in Replies /\ Failure(call, arg, len) \in Replies
BY DEF Reply, Failure, Replies

LEMMA FillStep ==
  ASSUME TypeOK, CacheCoherent, NEW s \in Nat, s < block_count,
         NEW cursor \in 0..total_compressed \cup {Astray}, Fill(s, cursor)
  PROVE  /\ block_cache' \in Caches
         /\ CacheCoherent'
         /\ next_block_index' \in Nat
         /\ inner' \in 0..total_compressed \cup {Astray}
<1>1. /\ block_cache' \in Caches
      /\ Coherent(block_cache')
  <2>1. Coherent(block_cache) /\ block_cache \in Caches
    BY DEF CacheCoherent, Cached, Coherent, TypeOK
  <2>2. Batch(s) \in SUBSET Blocks /\ Missing(s) \in SUBSET Blocks
    BY BatchType
  <2>3. block_cache' = CacheInsert(CacheTouch(block_cache, Batch(s)), Fetched(s))
    BY DEF Fill
  <2> QED
    BY <2>1, <2>2, <2>3, FetchedRight, InsertKeepsCoherent
<1>2. CASE Missing(s) = {}
  BY <1>1, <1>2, BatchType DEF Fill, CacheCoherent, Cached, Coherent
<1>3. CASE Missing(s) # {}
  <2>1. LastEnd(s) \in 0..block_count
    BY <1>3, LastEndType, IndexArrays
  <2>2. compressed_offsets[LastEnd(s)] \in 0..total_compressed
    BY <2>1, Totals
  <2>3. next_block_index' = LastEnd(s) /\ inner' = compressed_offsets[LastEnd(s)]
    BY <1>3 DEF Fill
  <2> QED
    BY <1>1, <2>1, <2>2, <2>3, IndexArrays DEF CacheCoherent, Cached, Coherent
<1> QED
  BY <1>2, <1>3

LEMMA FillFailsStep ==
  ASSUME TypeOK, CacheCoherent, NEW s \in Nat, s < block_count, FillFails(s)
  PROVE  /\ block_cache' \in Caches
         /\ CacheCoherent'
         /\ next_block_index' \in Nat
         /\ inner' \in 0..total_compressed \cup {Astray}
<1> DEFINE touched == CacheTouch(block_cache, Batch(s))
<1>1. Coherent(block_cache) /\ block_cache \in Caches
  BY DEF CacheCoherent, Cached, Coherent, TypeOK
<1>2. Batch(s) \in SUBSET Blocks /\ Missing(s) \in SUBSET Blocks
  BY BatchType
<1>3. touched \in Caches /\ Coherent(touched)
  BY <1>1, <1>2, CacheFacts DEF Coherent
<1>4. /\ CacheInsert(touched, Fetched(s)) \in Caches
      /\ Coherent(CacheInsert(touched, Fetched(s)))
  BY <1>1, <1>2, FetchedRight, InsertKeepsCoherent
<1>5. block_cache' \in {touched, CacheInsert(touched, Fetched(s))}
  BY DEF FillFails
<1>6. block_cache' \in Caches /\ CacheCoherent'
  <2> HIDE DEF touched
  <2> QED
    BY <1>3, <1>4, <1>5 DEF CacheCoherent, Cached, Coherent
<1>7. LastEnd(s) \in 1..block_count /\ LastEnd(s) - 1 \in Blocks
  BY <1>2, LastEndType DEF FillFails
<1>8. compressed_offsets[LastEnd(s) - 1] + 1 \in 0..total_compressed
  <2>1. /\ LastEnd(s) - 1 \in 0..block_count /\ LastEnd(s) \in 0..block_count
        /\ LastEnd(s) - 1 < LastEnd(s)
    BY <1>7, IndexArrays
  <2>2. compressed_offsets[LastEnd(s) - 1] < compressed_offsets[LastEnd(s)]
    BY <2>1, IndexArrays
  <2>3. /\ compressed_offsets[LastEnd(s) - 1] \in 0..total_compressed
        /\ compressed_offsets[LastEnd(s)] \in 0..total_compressed
    BY <2>1, Totals
  <2> QED
    BY <2>2, <2>3, Totals
<1>9. Missing(s) \subseteq Nat
  BY <1>2, IndexArrays DEF Blocks
<1>10. inner' \in {Astray, compressed_offsets[LastEnd(s) - 1] + 1}
  BY DEF FillFails
<1>11. next_block_index' \in Nat
  <2>1. \/ next_block_index' \in {s} \cup Missing(s) \cup {b + 1 : b \in Missing(s)}
        \/ next_block_index' = LastEnd(s)
    BY DEF FillFails
  <2>2. ASSUME NEW b \in Missing(s) PROVE b \in Nat /\ b + 1 \in Nat
    BY <1>9
  <2> QED
    BY <2>1, <2>2, <1>7, IndexArrays
<1> QED
  BY <1>6, <1>8, <1>10, <1>11

LEMMA ServeStep ==
  ASSUME NEW b \in Blocks, NEW p \in 0 .. BlockLen(b) - 1, NEW n \in Nat \ {0},
         Serve(b, p, n)
  PROVE  /\ current_block' = b /\ current_block' \in Blocks
         /\ CurrentLen' = BlockLen(b)
         /\ current_pos' \in 0..BlockLen(b)
         /\ current_pos' > p
         /\ reply' = Reply("read", n, 0, uncompressed_offsets[b] + p,
                                         uncompressed_offsets[b] + current_pos')
         /\ reply' \in Replies
<1>1. BlockLen(b) \in Nat \ {0} /\ uncompressed_offsets[b] \in Nat /\ b # None
  BY BlocksNotEmpty, IndexArrays DEF Blocks, None
<1>2. current_block' = b /\ CurrentLen' = BlockLen(b)
  BY <1>1 DEF Serve, CurrentLen
<1>3. PICK take \in 1 .. BlockLen(b) - p : take = SmallerOf(n, BlockLen(b) - p)
  BY <1>1 DEF SmallerOf
<1>4. /\ current_pos' = p + take
      /\ reply' = Reply("read", n, 0, uncompressed_offsets[b] + p,
                                      uncompressed_offsets[b] + p + take)
  BY <1>3 DEF Serve
<1>5. uncompressed_offsets[b] + p + take = uncompressed_offsets[b] + (p + take)
  BY <1>1, <1>3
<1>6. uncompressed_offsets[b] + p \in Nat /\ uncompressed_offsets[b] + p + take \in Nat
  BY <1>1, <1>3
<1>7. reply' \in Replies
  <2> DEFINE from == uncompressed_offsets[b] + p
             to == uncompressed_offsets[b] + p + take
  <2>1. from \in Nat /\ to \in Nat /\ n \in Int /\ "read" \in Calls
    BY <1>6 DEF Calls
  <2>2. reply' = Reply("read", n, 0, from, to)
    BY <1>4
  <2> HIDE DEF from, to
  <2>3. Reply("read", n, 0, from, to) \in Replies
    BY <2>1, ReplyType
  <2> QED
    BY <2>2, <2>3
<1> QED
  BY <1>1, <1>2, <1>3, <1>4, <1>5, <1>7

(* The first block of a fetched batch is served, the rest becomes the      *)
(* readahead buffer.                                                       *)
LEMMA BatchStep ==
  ASSUME TypeOK, CacheCoherent, NEW s \in Nat, s < block_count,
         current_block' = Head(Results(s)), readahead' = Tail(Results(s))
  PROVE  /\ Head(Results(s)) = s /\ s \in Blocks
         /\ readahead' \in Seq(Blocks)
         /\ BuffersInOrder'
<1>1. /\ Results(s) \in Seq(Blocks) /\ Results(s) # <<>>
      /\ \A i \in 1..Len(Results(s)) : Results(s)[i] = s + i - 1
  BY ResultsRight
<1> DEFINE r == Results(s)
<1> HIDE DEF r
<1>2. /\ r \in Seq(Blocks) /\ r # <<>>
      /\ \A i \in 1..Len(r) : r[i] = s + i - 1
      /\ current_block' = Head(r) /\ readahead' = Tail(r)
  BY <1>1 DEF r
<1>3. /\ Tail(r) \in Seq(Blocks) /\ Len(Tail(r)) = Len(r) - 1 /\ Len(r) \in Nat \ {0}
      /\ \A i \in 1..Len(Tail(r)) : Tail(r)[i] = r[i + 1]
  BY <1>2, HeadTailProperties, EmptySeq
<1>4. Head(r) = s
  BY <1>2, <1>3
<1>5. s \in Blocks
  BY IndexArrays DEF Blocks
<1>6. \A i \in 1..Len(Tail(r)) : Tail(r)[i] = s + i
  BY <1>2, <1>3
<1>7. Tail(r) # <<>> => Head(Tail(r)) = s + 1
  BY <1>3, <1>6, EmptySeq
<1>8. ASSUME NEW i \in 1 .. Len(Tail(r)) - 1
      PROVE  Tail(r)[i + 1] = Tail(r)[i] + 1
  <2>1. i \in 1..Len(Tail(r)) /\ i + 1 \in 1..Len(Tail(r))
    BY <1>3
  <2>2. Tail(r)[i] = s + i /\ Tail(r)[i + 1] = s + (i + 1)
    BY <1>6, <2>1
  <2> QED
    BY <2>1, <2>2
<1>9. s # None
  BY DEF None
<1> QED
  BY <1>2, <1>3, <1>4, <1>5, <1>7, <1>8, <1>9 DEF BuffersInOrder, r

-----------------------------------------------------------------------------
(* Steps.                                                                  *)
LEMMA InitInv == Init => Inv
<1> SUFFICES ASSUME Init PROVE Inv
  OBVIOUS
<1>1. TypeOK
  <2>1. reply \in Replies
    <3>1. "new" \in Calls
      BY DEF Calls
    <3> QED
      BY <3>1, ReplyType DEF Init
  <2>2. 0 \in 0..total_compressed
    BY Totals
  <2>3. current_pos \in 0..CurrentLen
    BY DEF Init, CurrentLen
  <2>4. block_cache \in Caches
    BY CacheContract DEF Init
  <2>5. readahead_size \in Nat \ {0} /\ readahead_memory_limit \in Nat \cup {NoLimit}
    BY ClientBounds DEF Init
  <2>6. <<>> \in Seq(Blocks)
    BY EmptySeq
  <2>7. 0 \in 0..MaxFaults
    BY ClientBounds
  <2>8. /\ inner \in 0..total_compressed \cup {Astray}
        /\ current_block \in Blocks \cup {None} /\ pending_seek \in Nat \cup {None}
        /\ eof \in BOOLEAN /\ lost \in BOOLEAN /\ next_block_index \in Nat
        /\ readahead \in Seq(Blocks) /\ faults \in 0..MaxFaults
    BY <2>2, <2>6, <2>7 DEF Init
  <2> QED
    BY <2>1, <2>3, <2>4, <2>5, <2>8 DEF TypeOK
<1>2. CacheCoherent
  BY CacheContract DEF Init, CacheCoherent, Cached
<1>3. BuffersInOrder
  BY DEF Init, BuffersInOrder
<1> QED
  BY <1>1, <1>2, <1>3 DEF Inv

(* Actions that leave the reader as it is.                                 *)
LEMMA KeepStep ==
  ASSUME Inv, UNCHANGED <<state, config>>, reply' \in Replies,
         lost' \in BOOLEAN, faults' \in 0..MaxFaults
  PROVE  Inv'
BY DEF Inv, TypeOK, CacheCoherent, BuffersInOrder, Cached, CurrentLen, state, config

(* Actions that drop the buffers.                                          *)
LEMMA DropStep ==
  ASSUME Inv, current_block' = None, current_pos' = 0, readahead' = <<>>,
         inner' \in 0..total_compressed \cup {Astray}, eof' \in BOOLEAN,
         pending_seek' \in Nat \cup {None}, next_block_index' \in Nat,
         block_cache' \in Caches, CacheCoherent', UNCHANGED config,
         reply' \in Replies, lost' \in BOOLEAN, faults' \in 0..MaxFaults
  PROVE  Inv'
<1>1. CurrentLen' = 0
  BY DEF CurrentLen
<1>2. TypeOK'
  BY <1>1 DEF Inv, TypeOK, config
<1>3. BuffersInOrder'
  BY DEF BuffersInOrder
<1> QED
  BY <1>2, <1>3 DEF Inv

(* Actions that serve from a block.                                        *)
LEMMA ServeBlockStep ==
  ASSUME Inv, NEW b \in Blocks, NEW p \in 0 .. BlockLen(b) - 1, NEW n \in Nat \ {0},
         Serve(b, p, n),
         inner' \in 0..total_compressed \cup {Astray}, eof' \in BOOLEAN,
         pending_seek' \in Nat \cup {None}, next_block_index' \in Nat,
         block_cache' \in Caches, CacheCoherent', UNCHANGED config,
         readahead' \in Seq(Blocks), BuffersInOrder',
         lost' \in BOOLEAN, faults' \in 0..MaxFaults
  PROVE  Inv'
<1>1. /\ current_block' \in Blocks /\ current_pos' \in 0..CurrentLen' /\ reply' \in Replies
  BY ServeStep
<1>2. TypeOK'
  BY <1>1 DEF Inv, TypeOK, config
<1> QED
  BY <1>2 DEF Inv

LEMMA ReadStep ==
  ASSUME Inv, NEW n \in Nat, Read(n)
  PROVE  Inv'
<1> USE DEF Inv
<1>1. TypeOK /\ CacheCoherent /\ BuffersInOrder
  OBVIOUS
<1>2. "read" \in Calls
  BY DEF Calls
<1>3. Reply("read", n, 0, 0, 0) \in Replies /\ Failure("read", n, 0) \in Replies
  BY <1>2, ReplyType
<1>4. /\ UNCHANGED faults => faults' \in 0..MaxFaults
      /\ Faulty => faults' \in 0..MaxFaults
      /\ UNCHANGED lost => lost' \in BOOLEAN
      /\ inner \in 0..total_compressed \cup {Astray} /\ eof \in BOOLEAN
      /\ pending_seek \in Nat \cup {None} /\ next_block_index \in Nat
      /\ block_cache \in Caches /\ readahead \in Seq(Blocks)
      /\ None \in Nat \cup {None}
  BY <1>1, ClientBounds DEF TypeOK, Faulty
<1>5. UNCHANGED block_cache => CacheCoherent'
  BY <1>1 DEF CacheCoherent, Cached
<1>6. CASE ReadEmptyBuffer(n)
  BY <1>3, <1>4, <1>6, KeepStep DEF ReadEmptyBuffer
<1>7. CASE ReadFromCurrent(n)
  <2>1. current_block \in Blocks /\ current_pos \in 0 .. BlockLen(current_block) - 1
    BY <1>1, <1>7, BlocksNotEmpty DEF ReadFromCurrent, TypeOK, Exhausted, CurrentLen
  <2>2. BuffersInOrder'
    BY <1>1, <1>7 DEF ReadFromCurrent, Serve, BuffersInOrder
  <2> QED
    BY <1>1, <1>4, <1>5, <1>7, <2>1, <2>2, ServeBlockStep DEF ReadFromCurrent
<1>8. CASE ReadAtEof(n)
  BY <1>3, <1>4, <1>8, KeepStep DEF ReadAtEof
<1>9. CASE ReadFromReadahead(n)
  <2>1. /\ readahead \in Seq(Blocks) /\ readahead # <<>>
        /\ Head(readahead) \in Blocks /\ Tail(readahead) \in Seq(Blocks)
        /\ Len(Tail(readahead)) = Len(readahead) - 1
        /\ \A i \in 1..Len(Tail(readahead)) : Tail(readahead)[i] = readahead[i + 1]
    BY <1>4, <1>9, HeadTailProperties DEF ReadFromReadahead
  <2>2. current_block' = Head(readahead) /\ readahead' = Tail(readahead)
    BY <1>9 DEF ReadFromReadahead, Serve
  <2>3. 0 \in 0 .. BlockLen(Head(readahead)) - 1
    BY <2>1, BlocksNotEmpty
  <2>4. BuffersInOrder'
    <3>1. \A i \in 1 .. Len(readahead) - 1 : readahead[i + 1] = readahead[i] + 1
      BY <1>1 DEF BuffersInOrder
    <3>2. Len(readahead) \in Nat \ {0} /\ Len(Tail(readahead)) \in Nat
      BY <2>1, EmptySeq
    <3>3. ASSUME NEW i \in 1 .. Len(Tail(readahead)) - 1
          PROVE  Tail(readahead)[i + 1] = Tail(readahead)[i] + 1
      <4>1. i \in 1..Len(Tail(readahead)) /\ i + 1 \in 1..Len(Tail(readahead))
            /\ i + 1 \in 1 .. Len(readahead) - 1
        BY <2>1, <3>2
      <4> QED
        BY <2>1, <3>1, <4>1
    <3>4. ASSUME Tail(readahead) # <<>>
          PROVE  Head(Tail(readahead)) = Head(readahead) + 1
      <4>1. Len(Tail(readahead)) \in Nat \ {0}
        BY <2>1, <3>4, EmptySeq
      <4>2. Head(Tail(readahead)) = readahead[2] /\ Head(readahead) = readahead[1]
        BY <2>1, <4>1, <3>2
      <4> QED
        BY <3>1, <4>1, <4>2, <2>1
    <3>5. Head(readahead) # None
      BY <2>1 DEF Blocks, None
    <3> QED
      BY <2>2, <3>3, <3>4, <3>5 DEF BuffersInOrder
  <2> QED
    BY <1>1, <1>4, <1>5, <1>9, <2>1, <2>2, <2>3, <2>4, ServeBlockStep DEF ReadFromReadahead
<1>10. CASE ReadRefill(n)
  <2> DEFINE s == next_block_index
  <2>1. s \in Nat /\ s < block_count
    BY <1>4, <1>10, IndexArrays DEF ReadRefill, FillRefused
  <2>2. /\ Serve(Head(Results(s)), 0, n) /\ readahead' = Tail(Results(s))
        /\ Fill(s, inner) /\ UNCHANGED <<eof, pending_seek, config, lost, faults>> /\ n > 0
    BY <1>10 DEF ReadRefill, NeedsFill
  <2> HIDE DEF s
  <2>3. /\ Head(Results(s)) = s /\ s \in Blocks
        /\ readahead' \in Seq(Blocks) /\ BuffersInOrder'
    <3>1. current_block' = Head(Results(s))
      BY <2>2 DEF Serve
    <3> QED
      BY <1>1, <2>1, <2>2, <3>1, BatchStep
  <2>4. /\ block_cache' \in Caches /\ CacheCoherent' /\ next_block_index' \in Nat
        /\ inner' \in 0..total_compressed \cup {Astray}
    BY <1>1, <1>4, <2>1, <2>2, FillStep
  <2>5. 0 \in 0 .. BlockLen(s) - 1
    BY <2>3, BlocksNotEmpty
  <2> QED
    BY <1>1, <1>4, <2>2, <2>3, <2>4, <2>5, ServeBlockStep
<1>11. CASE ReadRefillRefused(n)
  BY <1>1, <1>3, <1>11
  DEF ReadRefillRefused, TypeOK, CacheCoherent, BuffersInOrder, Cached, CurrentLen, config
<1>12. CASE ReadRefillFails(n)
  <2>1. next_block_index \in Nat /\ next_block_index < block_count
    BY <1>4, <1>12, IndexArrays DEF ReadRefillFails, FillRefused
  <2>2. /\ block_cache' \in Caches /\ CacheCoherent' /\ next_block_index' \in Nat
        /\ inner' \in 0..total_compressed \cup {Astray}
    BY <1>1, <1>12, <2>1, FillFailsStep DEF ReadRefillFails
  <2> QED
    BY <1>1, <1>3, <1>4, <1>12, <2>2
    DEF ReadRefillFails, TypeOK, BuffersInOrder, CurrentLen, config
<1>13. CASE ReadBeyondEnd(n)
  BY <1>1, <1>3, <1>13
  DEF ReadBeyondEnd, TypeOK, CacheCoherent, BuffersInOrder, Cached, CurrentLen, config
<1>14. CASE ReadSeekHit(n) \/ ReadSeekHitFails(n)
  <2>1. /\ n > 0 /\ pending_seek \in 0..total_uncompressed /\ Target \in Cached
        /\ readahead' = <<>> /\ eof' = FALSE /\ pending_seek' = None /\ UNCHANGED config
        /\ block_cache' = CacheTouch(block_cache, {Target})
    BY <1>4, <1>14, Totals DEF ReadSeekHit, ReadSeekHitFails, SeekHit, Seeking, Sought
  <2>2. Target \in Blocks /\ CacheContents(block_cache)[Target] = Target
    BY <1>1, <1>4, <2>1, CacheFacts DEF CacheCoherent, Cached
  <2>3. Skip \in 0 .. BlockLen(Target) - 1
    <3>1. /\ Target \in 0..block_count /\ uncompressed_offsets[Target] <= pending_seek
          /\ Target = block_count <=> pending_seek = total_uncompressed
          /\ pending_seek < total_uncompressed =>
               pending_seek < uncompressed_offsets[Target + 1]
      BY <2>1, SeekByteFinds DEF Target
    <3>2. Target # block_count
      BY <2>2, IndexArrays DEF Blocks
    <3>3. Target + 1 \in 0..block_count /\ pending_seek < total_uncompressed
      BY <2>1, <2>2, <3>1, <3>2, BlocksNotEmpty, Totals
    <3>4. uncompressed_offsets[Target] \in Nat /\ uncompressed_offsets[Target + 1] \in Nat
      BY <3>1, <3>3, IndexArrays
    <3>5. Skip = pending_seek - uncompressed_offsets[Target]
      BY <2>1, SeekByteFinds DEF Target, Skip
    <3> QED
      BY <2>1, <3>1, <3>3, <3>4, <3>5, Totals DEF BlockLen
  <2>4. block_cache' \in Caches /\ CacheCoherent'
    <3>1. {Target} \in SUBSET Blocks
      BY <2>2
    <3>2. /\ CacheTouch(block_cache, {Target}) \in Caches
          /\ CacheContents(CacheTouch(block_cache, {Target})) = CacheContents(block_cache)
      BY <1>4, <3>1, CacheFacts
    <3> QED
      BY <1>1, <2>1, <3>2 DEF CacheCoherent, Cached
  <2>5. BuffersInOrder'
    BY <2>1 DEF BuffersInOrder
  <2>6. <<>> \in Seq(Blocks)
    BY EmptySeq
  <2>7. CASE ReadSeekHit(n)
    <3>1. /\ Serve(Target, Skip, n) /\ next_block_index' = Target + 1
          /\ inner' = compressed_offsets[Target + 1] /\ UNCHANGED <<lost, faults>>
      BY <2>2, <2>7 DEF ReadSeekHit
    <3>2. next_block_index' \in Nat /\ inner' \in 0..total_compressed
      BY <2>2, <3>1, BlocksNotEmpty, Totals, IndexArrays
    <3>3. eof' \in BOOLEAN
      BY <2>1, Zenon
    <3>4. /\ pending_seek' \in Nat \cup {None} /\ readahead' \in Seq(Blocks)
          /\ n \in Nat \ {0} /\ inner' \in 0..total_compressed \cup {Astray}
          /\ UNCHANGED config /\ lost' \in BOOLEAN /\ faults' \in 0..MaxFaults
      BY <1>4, <2>1, <2>6, <3>1, <3>2
    <3>5. Serve(Target, Skip, n) /\ Target \in Blocks /\ next_block_index' \in Nat
      BY <2>2, <3>1, <3>2
    <3> QED
      BY <1>1, <2>3, <2>4, <2>5, <3>3, <3>4, <3>5, ServeBlockStep
  <2>8. CASE ReadSeekHitFails(n)
    <3>1. current_block' = Target /\ current_pos' = Skip
      BY <2>2, <2>8 DEF ReadSeekHitFails
    <3>2. CurrentLen' = BlockLen(Target) /\ BlockLen(Target) \in Nat
      BY <2>2, <3>1, BlocksNotEmpty DEF CurrentLen, Blocks, None
    <3>3. current_pos' \in 0..CurrentLen'
      BY <2>3, <3>1, <3>2
    <3>4. /\ inner' = Astray /\ lost' = TRUE /\ reply' \in Replies
          /\ next_block_index' = next_block_index /\ faults' \in 0..MaxFaults
      BY <1>3, <1>4, <2>8 DEF ReadSeekHitFails
    <3>5. TypeOK'
      BY <1>1, <1>4, <2>1, <2>2, <2>4, <2>6, <3>1, <3>3, <3>4 DEF TypeOK, config
    <3> QED
      BY <2>4, <2>5, <3>5
  <2> QED
    BY <1>14, <2>7, <2>8
<1>15. CASE ReadSeekMiss(n) \/ ReadSeekMissFails(n) \/ ReadSeekRefused(n)
  <2> DEFINE s == Target
  <2>1. /\ n > 0 /\ pending_seek \in 0..total_uncompressed
        /\ pending_seek' = None /\ UNCHANGED config
    BY <1>4, <1>15, Totals
    DEF ReadSeekMiss, ReadSeekMissFails, ReadSeekRefused, SeekMiss, Seeking, Sought
  <2>2. /\ s \in 0..block_count /\ uncompressed_offsets[s] <= pending_seek
        /\ s = block_count <=> pending_seek = total_uncompressed
        /\ pending_seek < total_uncompressed => pending_seek < uncompressed_offsets[s + 1]
    BY <2>1, SeekByteFinds DEF Target
  <2>3. Skip = pending_seek - uncompressed_offsets[s]
    BY <2>1, SeekByteFinds DEF Target, Skip
  <2>4. s \in Nat /\ compressed_offsets[s] \in 0..total_compressed
    BY <2>2, Totals, IndexArrays
  <2>5. CASE ReadSeekMiss(n)
    <3>1. /\ ~FillRefused(s, CacheMemory(block_cache))
          /\ Serve(Head(Results(s)), Skip, n) /\ readahead' = Tail(Results(s))
          /\ Fill(s, compressed_offsets[s]) /\ eof' = FALSE /\ UNCHANGED <<lost, faults>>
      BY <2>5 DEF ReadSeekMiss
    <3> HIDE DEF s
    <3>2. s < block_count
      BY <2>4, <3>1, IndexArrays DEF FillRefused
    <3>3. /\ Head(Results(s)) = s /\ s \in Blocks
          /\ readahead' \in Seq(Blocks) /\ BuffersInOrder'
      <4>1. current_block' = Head(Results(s))
        BY <3>1 DEF Serve
      <4> QED
        BY <1>1, <2>4, <3>1, <3>2, <4>1, BatchStep
    <3>4. /\ block_cache' \in Caches /\ CacheCoherent' /\ next_block_index' \in Nat
          /\ inner' \in 0..total_compressed \cup {Astray}
      BY <1>1, <2>4, <3>1, <3>2, FillStep
    <3>5. Skip \in 0 .. BlockLen(s) - 1
      <4>1. pending_seek < total_uncompressed /\ s + 1 \in 0..block_count
        BY <2>1, <2>2, <3>2, <3>3, BlocksNotEmpty, Totals, IndexArrays
      <4>2. uncompressed_offsets[s] \in Nat /\ uncompressed_offsets[s + 1] \in Nat
        BY <2>2, <4>1, IndexArrays
      <4> QED
        BY <2>1, <2>2, <2>3, <4>1, <4>2, Totals DEF BlockLen
    <3>6. Serve(s, Skip, n)
      BY <3>1, <3>3
    <3>7. eof' \in BOOLEAN
      BY <3>1, Zenon
    <3>8. lost' \in BOOLEAN /\ faults' \in 0..MaxFaults /\ n \in Nat \ {0}
      BY <1>4, <2>1, <3>1
    <3> QED
      BY <1>1, <1>4, <2>1, <3>3, <3>4, <3>5, <3>6, <3>7, <3>8, ServeBlockStep
  <2>6. CASE ReadSeekRefused(n)
    <3>1. inner' = compressed_offsets[s] /\ next_block_index' = s
      BY <2>6 DEF ReadSeekRefused
    <3>2. /\ current_block' = None /\ current_pos' = 0 /\ readahead' = <<>>
          /\ eof' = TRUE /\ reply' \in Replies /\ UNCHANGED <<block_cache, lost, faults>>
      BY <1>3, <2>6 DEF ReadSeekRefused
    <3> HIDE DEF s
    <3> QED
      BY <1>1, <1>4, <1>5, <2>1, <2>4, <3>1, <3>2, DropStep
  <2>7. CASE ReadSeekMissFails(n)
    <3>1. /\ block_cache' \in Caches /\ CacheCoherent' /\ next_block_index' \in Nat
          /\ inner' \in 0..total_compressed \cup {Astray}
      <4>1. CASE ~FillRefused(s, CacheMemory(block_cache)) /\ FillFails(s)
        <5> HIDE DEF s
        <5>1. s < block_count
          BY <2>4, <4>1, IndexArrays DEF FillRefused
        <5> QED
          BY <1>1, <2>4, <4>1, <5>1, FillFailsStep
      <4>2. CASE inner' = Astray /\ UNCHANGED <<next_block_index, block_cache>>
        BY <1>4, <1>5, <4>2
      <4> QED
        BY <2>7, <4>1, <4>2 DEF ReadSeekMissFails
    <3> QED
      BY <1>1, <1>3, <1>4, <2>1, <2>7, <3>1, DropStep DEF ReadSeekMissFails
  <2> QED
    BY <1>15, <2>5, <2>6, <2>7
<1> QED
  BY <1>6, <1>7, <1>8, <1>9, <1>10, <1>11, <1>12, <1>13, <1>14, <1>15 DEF Read

LEMMA SeekStep ==
  ASSUME Inv, NEW target \in Nat, NoteSeek(target),
         lost' \in BOOLEAN, reply' \in Replies
  PROVE  Inv'
<1>1. /\ inner' \in 0..total_compressed \cup {Astray} /\ eof' \in BOOLEAN
      /\ block_cache' \in Caches /\ faults' \in 0..MaxFaults
  BY DEF Inv, TypeOK, NoteSeek
<1>2. CacheCoherent'
  BY DEF Inv, CacheCoherent, Cached, NoteSeek
<1>3. /\ current_block' = None /\ current_pos' = 0 /\ readahead' = <<>>
      /\ pending_seek' \in Nat \cup {None} /\ next_block_index' \in Nat /\ UNCHANGED config
  BY DEF NoteSeek
<1> QED
  BY <1>1, <1>2, <1>3, DropStep

(* Actions that leave the buffers alone, and so only move the cursor and   *)
(* the number of the next block.                                           *)
LEMMA MoveStep ==
  ASSUME Inv, inner' \in 0..total_compressed \cup {Astray}, next_block_index' \in Nat,
         UNCHANGED <<current_block, current_pos, eof, pending_seek, readahead,
                     block_cache, config>>,
         reply' \in Replies, lost' \in BOOLEAN, faults' \in 0..MaxFaults
  PROVE  Inv'
BY DEF Inv, TypeOK, CacheCoherent, BuffersInOrder, Cached, CurrentLen, config

LEMMA SeeksStep ==
  ASSUME Inv,
         \/ \E p \in SeekTargets : SeekTo(p)
         \/ \E n \in Shifts : SeekFromEnd(n) \/ SeekFromCurrent(n)
  PROVE  Inv'
<1>1. lost \in BOOLEAN /\ current_pos \in Int /\ total_uncompressed \in Nat
  BY Totals, BlocksNotEmpty, IndexArrays DEF Inv, TypeOK, CurrentLen
<1>2. \A x \in Int : x % OffsetSpace \in Nat
  BY ClientBounds, Totals
<1>3. "seek" \in Calls /\ "seek_end" \in Calls /\ "seek_current" \in Calls
  BY DEF Calls
<1>7. \A arg \in Int, to \in Nat :
        /\ Reply("seek", arg, 0, to, to) \in Replies
        /\ Reply("seek_end", arg, 0, to, to) \in Replies
        /\ Reply("seek_current", arg, 0, to, to) \in Replies
  BY <1>3 DEF Reply, Replies
<1>4. ASSUME NEW p \in SeekTargets, SeekTo(p) PROVE Inv'
  <2>1. p \in Nat
    BY ClientBounds
  <2>3. Reply("seek", p, 0, p, p) \in Replies
    BY <1>7, <2>1
  <2>2. lost' \in BOOLEAN
    BY <1>4, Zenon DEF SeekTo
  <2> QED
    BY <1>4, <2>1, <2>2, <2>3, SeekStep DEF SeekTo
<1>5. ASSUME NEW n \in Shifts, SeekFromEnd(n) PROVE Inv'
  <2> DEFINE t == (total_uncompressed + n) % OffsetSpace
  <2>1. n \in Int /\ t \in Nat
    BY <1>1, <1>2, ClientBounds
  <2>2. lost' \in BOOLEAN
    BY <1>5, Zenon DEF SeekFromEnd
  <2>3. NoteSeek(t) /\ reply' = Reply("seek_end", n, 0, t, t)
    BY <1>5 DEF SeekFromEnd
  <2> HIDE DEF t
  <2>4. reply' \in Replies
    BY <1>7, <2>1, <2>3
  <2> QED
    BY <2>1, <2>2, <2>3, <2>4, SeekStep
<1>6. ASSUME NEW n \in Shifts, SeekFromCurrent(n) PROVE Inv'
  <2> DEFINE t == (current_pos + n) % OffsetSpace
  <2>1. n \in Int /\ t \in Nat
    BY <1>1, <1>2, ClientBounds
  <2>2. lost' \in BOOLEAN
    BY <1>1, <1>6, Zenon DEF SeekFromCurrent
  <2>3. NoteSeek(t) /\ reply' = Reply("seek_current", n, 0, t, t)
    BY <1>6 DEF SeekFromCurrent
  <2> HIDE DEF t
  <2>4. reply' \in Replies
    BY <1>7, <2>1, <2>3
  <2> QED
    BY <2>1, <2>2, <2>3, <2>4, SeekStep
<1> QED
  BY <1>4, <1>5, <1>6

LEMMA SeekBlockStep ==
  ASSUME Inv, NEW i \in BlockIndices,
         SeekToBlock(i) \/ SeekToBlockRejected(i) \/ SeekToBlockFails(i)
  PROVE  Inv'
<1>1. i \in Int /\ "seek_block" \in Calls /\ Failure("seek_block", i, 0) \in Replies
  <2>1. i \in Int /\ "seek_block" \in Calls
    BY ClientBounds DEF Calls
  <2> QED
    BY <2>1, ReplyType
<1>2. /\ lost \in BOOLEAN /\ faults \in 0..MaxFaults /\ block_cache \in Caches
      /\ inner \in 0..total_compressed \cup {Astray} /\ next_block_index \in Nat
  BY DEF Inv, TypeOK
<1>3. CASE SeekToBlock(i)
  <2> DEFINE b == seek_block(i)
  <2>1. b # NoBlock
    BY <1>3 DEF SeekToBlock
  <2>2. b \in Blocks
    BY <1>1, <2>1, IndexArrays DEF seek_block, Blocks
  <2>3. /\ inner' = compressed_offsets[b]
        /\ current_block' = None /\ current_pos' = 0 /\ readahead' = <<>>
        /\ next_block_index' = 0 /\ pending_seek' = None
        /\ reply' = Reply("seek_block", i, 0, uncompressed_offsets[b],
                                              uncompressed_offsets[b])
        /\ UNCHANGED <<block_cache, config, faults>>
    BY <1>3 DEF SeekToBlock
  <2>4. eof' \in BOOLEAN /\ lost' \in BOOLEAN
    BY <1>3, Zenon DEF SeekToBlock
  <2> HIDE DEF b
  <2>5. /\ b \in 0..block_count /\ uncompressed_offsets[b] \in Nat
        /\ compressed_offsets[b] \in 0..total_compressed
    BY <2>2, BlocksNotEmpty, Totals, IndexArrays
  <2>6. reply' \in Replies
    BY <1>1, <2>3, <2>5, ReplyType
  <2>7. CacheCoherent'
    BY <2>3 DEF Inv, CacheCoherent, Cached
  <2> QED
    BY <1>2, <2>3, <2>4, <2>5, <2>6, <2>7, DropStep
<1>4. CASE SeekToBlockRejected(i)
  BY <1>1, <1>2, <1>4, KeepStep DEF SeekToBlockRejected
<1>5. CASE SeekToBlockFails(i)
  <2>1. lost' \in BOOLEAN
    BY <1>5, <1>2, Zenon DEF SeekToBlockFails
  <2>2. faults' \in 0..MaxFaults
    BY <1>2, <1>5, ClientBounds DEF SeekToBlockFails, Faulty
  <2> QED
    BY <1>1, <1>2, <1>5, <2>1, <2>2, MoveStep DEF SeekToBlockFails
<1> QED
  BY <1>3, <1>4, <1>5

LEMMA ReadBlocksStep ==
  ASSUME Inv, NEW start \in BlockIndices \cap Nat, NEW count \in BlockCounts,
         \/ ReadBlocks(start, count) \/ ReadNoBlocks(start, count)
         \/ ReadBlocksRejected(start, count) \/ ReadBlocksFails(start, count)
  PROVE  Inv'
<1>1. start \in Nat /\ count \in Nat /\ "read_blocks" \in Calls
  BY ClientBounds DEF Calls
<1>2. /\ Reply("read_blocks", start, count, 0, 0) \in Replies
      /\ Failure("read_blocks", start, count) \in Replies
  BY <1>1 DEF Reply, Failure, Replies
<1>3. /\ lost \in BOOLEAN /\ faults \in 0..MaxFaults /\ block_cache \in Caches
      /\ inner \in 0..total_compressed \cup {Astray} /\ next_block_index \in Nat
  BY DEF Inv, TypeOK
<1> DEFINE e == RangeEnd(start, count)
<1>4. ASSUME start \in Blocks, count > 0
      PROVE  /\ e \in 1..block_count /\ e > start
             /\ compressed_offsets[e - 1] + 1 \in 0..total_compressed
  <2>1. e \in 1..block_count /\ e > start
    BY <1>1, <1>4, IndexArrays DEF RangeEnd, SmallerOf, Blocks
  <2> HIDE DEF e
  <2>2. e - 1 \in 0..block_count /\ e \in 0..block_count /\ e - 1 < e
    BY <2>1, IndexArrays
  <2>3. compressed_offsets[e - 1] < compressed_offsets[e]
    BY <2>2, IndexArrays
  <2>4. compressed_offsets[e - 1] \in Nat /\ compressed_offsets[e] \in 0..total_compressed
    BY <2>2, Totals, IndexArrays
  <2> QED
    BY <2>1, <2>3, <2>4, Totals
<1>5. CASE ReadBlocks(start, count)
  <2>1. start \in Blocks /\ count > 0 /\ start \in 0..block_count
    BY <1>5, IndexArrays DEF ReadBlocks, Blocks
  <2>2. FirstBlockFrom(compressed_offsets[start]) = start
    BY <2>1, FirstBlockAt
  <2>3. start + (e - start) = e /\ e \in 0..block_count
    BY <1>1, <1>4, <2>1, IndexArrays
  <2>4. /\ inner' = compressed_offsets[e - 1] + 1
        /\ reply' = Reply("read_blocks", start, count,
                          uncompressed_offsets[start], uncompressed_offsets[e])
        /\ next_block_index' = e
        /\ current_block' = None /\ current_pos' = 0 /\ readahead' = <<>>
        /\ pending_seek' = None /\ UNCHANGED <<block_cache, config, faults>>
    BY <1>5, <2>2, <2>3 DEF ReadBlocks
  <2>5. eof' \in BOOLEAN /\ lost' \in BOOLEAN
    BY <1>5, Zenon DEF ReadBlocks
  <2>6. reply' \in Replies
    <3>1. uncompressed_offsets[start] \in Nat /\ uncompressed_offsets[e] \in Nat
      BY <2>1, <2>3, IndexArrays
    <3> HIDE DEF e
    <3> QED
      BY <1>1, <2>4, <3>1 DEF Reply, Replies
  <2>7. CacheCoherent'
    BY <2>4 DEF Inv, CacheCoherent, Cached
  <2>8. inner' \in 0..total_compressed /\ next_block_index' \in Nat
    BY <1>4, <2>1, <2>3, <2>4, IndexArrays
  <2> QED
    BY <1>3, <2>4, <2>5, <2>6, <2>7, <2>8, DropStep
<1>6. CASE ReadNoBlocks(start, count)
  BY <1>2, <1>3, <1>6, KeepStep DEF ReadNoBlocks
<1>7. CASE ReadBlocksRejected(start, count)
  BY <1>2, <1>3, <1>7, KeepStep DEF ReadBlocksRejected
<1>8. CASE ReadBlocksFails(start, count)
  <2>1. start \in Blocks /\ count > 0
    BY <1>8 DEF ReadBlocksFails
  <2>2. \/ inner' = Astray /\ next_block_index' \in {next_block_index} \cup start .. e
        \/ inner' = compressed_offsets[e - 1] + 1 /\ next_block_index' = e
    BY <1>8 DEF ReadBlocksFails
  <2>3. inner' \in 0..total_compressed \cup {Astray}
    BY <1>4, <2>1, <2>2
  <2>4. next_block_index' \in Nat
    BY <1>1, <1>3, <1>4, <2>1, <2>2, IndexArrays
  <2>5. lost' \in BOOLEAN
    BY <1>8, <1>3, Zenon DEF ReadBlocksFails
  <2>6. faults' \in 0..MaxFaults
    BY <1>3, <1>8, ClientBounds DEF ReadBlocksFails, Faulty
  <2>7. reply' \in Replies /\ UNCHANGED <<current_block, current_pos, eof, pending_seek,
                                          readahead, block_cache, config>>
    BY <1>2, <1>8 DEF ReadBlocksFails
  <2> QED
    BY <2>3, <2>4, <2>5, <2>6, <2>7, MoveStep
<1> QED
  BY <1>5, <1>6, <1>7, <1>8

LEMMA RawStep ==
  ASSUME Inv, ReadRawBlock \/ ReadRawEnd \/ ReadRawFails
  PROVE  Inv'
<1>1. /\ lost \in BOOLEAN /\ faults \in 0..MaxFaults /\ next_block_index \in Nat
      /\ inner \in 0..total_compressed \cup {Astray} /\ total_compressed \in Nat
  BY Totals DEF Inv, TypeOK
<1>2. "raw" \in Calls /\ "raw_idx" \in Calls /\ "raw_end" \in Calls
  BY DEF Calls
<1>3. CASE ReadRawBlock
  <2> DEFINE b == FirstBlockFrom(inner)
  <2>1. inner \in 0..total_compressed /\ inner < total_compressed
    BY <1>1, <1>3 DEF ReadRawBlock
  <2>2. b \in 0..block_count /\ compressed_offsets[b] >= inner
    BY <2>1, FirstBlockFromType
  <2>3. \/ /\ inner = compressed_offsets[b]
           /\ reply' = Reply("raw", next_block_index, 0,
                             uncompressed_offsets[b], uncompressed_offsets[b + 1])
           /\ next_block_index' = next_block_index + 1
        \/ /\ reply' = Reply("raw_idx", next_block_index, 0,
                             uncompressed_offsets[b], uncompressed_offsets[b])
           /\ UNCHANGED next_block_index
    BY <1>3 DEF ReadRawBlock, LabelAfter
  <2>4. inner' = inner + 1 /\ UNCHANGED <<current_block, current_pos, eof, pending_seek,
                                          readahead, block_cache, config, faults>>
    BY <1>3 DEF ReadRawBlock, NextMember
  <2>9. lost' \in BOOLEAN
    BY <1>3, Zenon DEF ReadRawBlock
  <2> HIDE DEF b
  <2>5. uncompressed_offsets[b] \in Nat
    BY <2>2, IndexArrays
  <2>6. ASSUME inner = compressed_offsets[b]
        PROVE  uncompressed_offsets[b + 1] \in Nat
    <3>1. b # block_count
      BY <2>1, <2>6 DEF total_compressed
    <3> QED
      BY <2>2, <3>1, IndexArrays
  <2>7. reply' \in Replies
    <3>1. \A arg \in Int, from \in Nat, to \in Nat :
            /\ Reply("raw", arg, 0, from, to) \in Replies
            /\ Reply("raw_idx", arg, 0, from, to) \in Replies
      BY <1>2 DEF Reply, Replies
    <3> QED
      BY <1>1, <2>3, <2>5, <2>6, <3>1
  <2>8. inner' \in 0..total_compressed /\ next_block_index' \in Nat
    BY <1>1, <2>1, <2>3, <2>4
  <2> QED
    BY <1>1, <2>4, <2>7, <2>8, <2>9, MoveStep
<1>4. CASE ReadRawEnd
  <2>1. total_uncompressed \in Nat
    BY Totals
  <2>2. reply' \in Replies
    BY <1>2, <1>4, <2>1 DEF ReadRawEnd, Reply, Replies
  <2> QED
    BY <1>1, <1>4, <2>2, KeepStep DEF ReadRawEnd
<1>5. CASE ReadRawFails
  <2>1. inner' \in 0..total_compressed \cup {Astray} /\ next_block_index' \in Nat
    BY <1>1, <1>5 DEF ReadRawFails
  <2>2. lost' \in BOOLEAN
    BY <1>5, Zenon DEF ReadRawFails
  <2>3. faults' \in 0..MaxFaults
    BY <1>1, <1>5, ClientBounds DEF ReadRawFails, Faulty
  <2>4. reply' \in Replies
    BY <1>1, <1>2, <1>5 DEF ReadRawFails, Failure, Replies
  <2> QED
    BY <1>5, <2>1, <2>2, <2>3, <2>4, MoveStep DEF ReadRawFails
<1> QED
  BY <1>3, <1>4, <1>5

LEMMA SetStep ==
  ASSUME Inv,
         \/ \E k \in ReadaheadSizes : SetReadaheadSize(k)
         \/ \E m \in ReadaheadLimits : SetReadaheadMemoryLimit(m)
         \/ \E c \in FreshCaches : SetBlockCache(c)
  PROVE  Inv'
<1>1. ASSUME NEW k \in ReadaheadSizes, SetReadaheadSize(k) PROVE Inv'
  <2>1. readahead_size' \in Nat \ {0}
    BY <1>1, ClientBounds DEF SetReadaheadSize
  <2> QED
    BY <1>1, <2>1
    DEF SetReadaheadSize, Inv, TypeOK, CacheCoherent, BuffersInOrder, Cached, CurrentLen, state
<1>2. ASSUME NEW m \in ReadaheadLimits, SetReadaheadMemoryLimit(m) PROVE Inv'
  <2>1. readahead_memory_limit' \in Nat \cup {NoLimit}
    BY <1>2, ClientBounds DEF SetReadaheadMemoryLimit
  <2> QED
    BY <1>2, <2>1
    DEF SetReadaheadMemoryLimit, Inv, TypeOK, CacheCoherent, BuffersInOrder, Cached,
        CurrentLen, state
<1>3. ASSUME NEW c \in FreshCaches, SetBlockCache(c) PROVE Inv'
  <2>1. block_cache' \in Caches /\ CacheCoherent'
    BY <1>3, CacheContract DEF SetBlockCache, CacheCoherent, Cached
  <2> QED
    BY <1>3, <2>1
    DEF SetBlockCache, Inv, TypeOK, BuffersInOrder, CurrentLen, config
<1> QED
  BY <1>1, <1>2, <1>3

LEMMA NextInv == Inv /\ [Next]_vars => Inv'
<1> SUFFICES ASSUME Inv, [Next]_vars PROVE Inv'
  OBVIOUS
<1>1. ASSUME NEW n \in ReadSizes, Read(n) PROVE Inv'
  BY <1>1, ReadStep, ClientBounds
<1>2. CASE UNCHANGED vars
  BY <1>2 DEF vars, state, config, Inv, TypeOK, CacheCoherent, BuffersInOrder, Cached, CurrentLen
<1> QED
  BY <1>1, <1>2, SeeksStep, SeekBlockStep, ReadBlocksStep, RawStep, SetStep DEF Next

-----------------------------------------------------------------------------
THEOREM Invariance == Spec => []Inv
BY InitInv, NextInv, PTL DEF Spec

(* Every field keeps its range through every sequence of calls and         *)
(* failures: current_pos stays inside the block being served, the file     *)
(* cursor on a member.                                                     *)
THEOREM TypeCorrect == Spec => []TypeOK
<1>1. Inv => TypeOK
  BY DEF Inv
<1> QED
  BY <1>1, Invariance, PTL

(* fill_readahead (reader.rs:486), execute_pending_seek (296) and their    *)
(* failures never put a block into the cache under another's number,       *)
(* whatever eviction the cache follows.                                    *)
THEOREM CacheIsCoherent == Spec => []CacheCoherent
<1>1. Inv => CacheCoherent
  BY DEF Inv
<1> QED
  BY <1>1, Invariance, PTL

(* The readahead buffer holds consecutive blocks that follow the one being *)
(* served, whichever blocks of a batch came from the cache and wherever a  *)
(* call failed (fill_readahead, reader.rs:586-639).                        *)
THEOREM BuffersAreInOrder == Spec => []BuffersInOrder
<1>1. Inv => BuffersInOrder
  BY DEF Inv
<1> QED
  BY <1>1, Invariance, PTL

-----------------------------------------------------------------------------
(* Raw members.                                                            *)

(* Behind a member that is a block, a reader meets the next block; behind  *)
(* an IDX, the one it would have met at the IDX.                           *)
LEMMA BehindMember ==
  ASSUME NEW m \in 0..total_compressed, m < total_compressed,
         NEW b, b = FirstBlockFrom(m)
  PROVE  /\ m = compressed_offsets[b] => b \in Blocks /\ FirstBlockFrom(m + 1) = b + 1
         /\ m # compressed_offsets[b] => FirstBlockFrom(m + 1) = b
         /\ b \in 0..block_count /\ m + 1 \in 0..total_compressed
<1>1. b \in 0..block_count /\ compressed_offsets[b] >= m /\ m + 1 \in 0..total_compressed
  BY FirstBlockFromType, Totals
<1>2. \A c \in 0..block_count : compressed_offsets[c] >= m => b <= c
  <2>1. \E d \in 0..block_count :
          /\ compressed_offsets[d] >= m
          /\ \A c \in 0..block_count : compressed_offsets[c] >= m => d <= c
    BY FirstBlockLeast
  <2> QED
    BY <2>1 DEF FirstBlockFrom
<1>3. PICK d \in 0..block_count : d = FirstBlockFrom(m + 1) /\ compressed_offsets[d] >= m + 1
  BY <1>1, FirstBlockFromType
<1>4. \A c \in 0..block_count : compressed_offsets[c] >= m + 1 => d <= c
  <2>1. \E a \in 0..block_count :
          /\ compressed_offsets[a] >= m + 1
          /\ \A c \in 0..block_count : compressed_offsets[c] >= m + 1 => a <= c
    BY <1>1, FirstBlockLeast
  <2> QED
    BY <1>3, <2>1 DEF FirstBlockFrom
<1>5. \A c \in 0..block_count : compressed_offsets[c] \in Nat
  BY IndexArrays
<1>6. b <= d
  BY <1>1, <1>2, <1>3, <1>5
<1>7. ASSUME m # compressed_offsets[b] PROVE d = b
  <2>1. compressed_offsets[b] >= m + 1
    BY <1>1, <1>5, <1>7
  <2> QED
    BY <1>1, <1>3, <1>4, <1>6, <2>1
<1>8. ASSUME m = compressed_offsets[b] PROVE b \in Blocks /\ d = b + 1
  <2>1. b # block_count
    BY <1>8 DEF total_compressed
  <2>2. b \in Blocks /\ b + 1 \in 0..block_count
    BY <1>1, <2>1, IndexArrays DEF Blocks
  <2>3. compressed_offsets[b + 1] > m
    BY <1>8, <2>2, BlocksNotEmpty
  <2>4. d <= b + 1
    BY <1>4, <1>5, <2>2, <2>3
  <2>5. d # b
    BY <1>3, <1>8
  <2> QED
    BY <1>1, <1>3, <1>6, <2>2, <2>4, <2>5
<1> QED
  BY <1>1, <1>3, <1>7, <1>8

(* What follows a block range, and a reader at the start of the file.      *)
LEMMA BehindBlock ==
  ASSUME NEW b \in Blocks
  PROVE  FirstBlockFrom(compressed_offsets[b] + 1) = b + 1
<1>1. b \in 0..block_count /\ compressed_offsets[b] \in 0..total_compressed
      /\ compressed_offsets[b] < total_compressed
  <2>1. /\ b \in 0..block_count /\ b + 1 \in 0..block_count
        /\ compressed_offsets[b] < compressed_offsets[b + 1]
    BY BlocksNotEmpty
  <2> QED
    BY <2>1, Totals
<1> QED
  BY <1>1, FirstBlockAt, BehindMember

(* Where the cursor is after a raw member, and while labels are right: the *)
(* next block is the one that is numbered next.                            *)
RawPlace ==
  /\ (reply.ok /\ reply.call \in {"raw", "raw_idx"}) =>
       inner # Astray /\ reply.to = uncompressed_offsets[FirstBlockFrom(inner)]
  /\ Labelled(reply) => inner # Astray /\ next_block_index = FirstBlockFrom(inner)

(* The calls of a client, but for those that take a raw member or read a   *)
(* range of blocks.                                                        *)
Elsewhere ==
  \/ \E n \in ReadSizes : Read(n)
  \/ \E p \in SeekTargets : SeekTo(p)
  \/ \E n \in Shifts : SeekFromEnd(n) \/ SeekFromCurrent(n)
  \/ \E i \in BlockIndices : SeekToBlock(i) \/ SeekToBlockRejected(i) \/ SeekToBlockFails(i)
  \/ \E start \in BlockIndices \cap Nat, count \in BlockCounts :
       ReadNoBlocks(start, count) \/ ReadBlocksRejected(start, count)
       \/ ReadBlocksFails(start, count)
  \/ ReadRawEnd \/ ReadRawFails

LEMMA ReadReplies ==
  ASSUME NEW n, Read(n)
  PROVE  reply'.call = "read"
BY DEF Read, ReadEmptyBuffer, ReadFromCurrent, ReadAtEof, ReadFromReadahead, ReadRefill,
       ReadRefillRefused, ReadRefillFails, ReadBeyondEnd, ReadSeekHit, ReadSeekHitFails,
       ReadSeekMiss, ReadSeekRefused, ReadSeekMissFails, Serve, Reply, Failure

LEMMA RawElsewhere ==
  ASSUME Elsewhere
  PROVE  /\ ~Labelled(reply)' /\ ~(reply'.ok /\ reply'.call \in {"raw", "raw_idx"})
         /\ reply'.call = "raw_end" =>
              inner = total_compressed /\ reply'.from = total_uncompressed
<1>1. \/ reply'.call \in {"read", "seek", "seek_end", "seek_current", "seek_block"}
      \/ ~reply'.ok /\ reply'.call # "raw_end"
      \/ reply'.call = "read_blocks" /\ reply'.len = 0
      \/ /\ reply'.call = "raw_end" /\ inner = total_compressed
         /\ reply'.from = total_uncompressed
  <2>1. CASE \E n \in ReadSizes : Read(n)
    BY <2>1, ReadReplies
  <2>2. CASE \/ \E p \in SeekTargets : SeekTo(p)
             \/ \E n \in Shifts : SeekFromEnd(n) \/ SeekFromCurrent(n)
    BY <2>2 DEF SeekTo, SeekFromEnd, SeekFromCurrent, Reply
  <2>3. CASE \E i \in BlockIndices :
               SeekToBlock(i) \/ SeekToBlockRejected(i) \/ SeekToBlockFails(i)
    BY <2>3 DEF SeekToBlock, SeekToBlockRejected, SeekToBlockFails, Reply, Failure
  <2>4. CASE \E start \in BlockIndices \cap Nat, count \in BlockCounts :
               ReadNoBlocks(start, count) \/ ReadBlocksRejected(start, count)
               \/ ReadBlocksFails(start, count)
    <3>1. PICK start \in BlockIndices \cap Nat, count \in BlockCounts :
               ReadNoBlocks(start, count) \/ ReadBlocksRejected(start, count)
               \/ ReadBlocksFails(start, count)
      BY <2>4
    <3>2. CASE ReadNoBlocks(start, count)
      BY <3>2 DEF ReadNoBlocks, Reply
    <3>3. CASE ReadBlocksRejected(start, count) \/ ReadBlocksFails(start, count)
      BY <3>3 DEF ReadBlocksRejected, ReadBlocksFails, Failure
    <3> QED
      BY <3>1, <3>2, <3>3
  <2>5. CASE ReadRawEnd \/ ReadRawFails
    BY <2>5 DEF ReadRawEnd, ReadRawFails, Reply, Failure
  <2> QED
    BY <2>1, <2>2, <2>3, <2>4, <2>5 DEF Elsewhere
<1> QED
  BY <1>1 DEF Labelled

(* The next raw member is the one at the cursor, and labels that were      *)
(* right stay so.                                                          *)
LEMMA RawMember ==
  ASSUME Inv, RawPlace, ReadRawBlock
  PROVE  /\ RawPlace'
         /\ (reply.ok /\ reply.call \in {"raw", "raw_idx"}) => reply'.from = reply.to
         /\ Labelled(reply) => Labelled(reply)'
<1>1. inner \in 0..total_compressed /\ inner < total_compressed
  BY DEF ReadRawBlock, Inv, TypeOK
<1>2. PICK b \in 0..block_count : b = FirstBlockFrom(inner)
  BY <1>1, FirstBlockFromType
<1>3. /\ inner = compressed_offsets[b] => b \in Blocks /\ FirstBlockFrom(inner + 1) = b + 1
      /\ inner # compressed_offsets[b] => FirstBlockFrom(inner + 1) = b
      /\ inner + 1 \in 0..total_compressed
  BY <1>1, <1>2, BehindMember
<1>4. /\ inner' = inner + 1 /\ inner' # Astray
      /\ reply' = IF inner = compressed_offsets[b]
                    THEN Reply("raw", next_block_index, 0,
                               uncompressed_offsets[b], uncompressed_offsets[b + 1])
                    ELSE Reply("raw_idx", next_block_index, 0,
                               uncompressed_offsets[b], uncompressed_offsets[b])
      /\ next_block_index' = IF inner = compressed_offsets[b] THEN next_block_index + 1
                                                              ELSE next_block_index
  BY <1>1, <1>2 DEF ReadRawBlock, NextMember, LabelAfter, Astray
<1>5. /\ reply'.ok /\ reply'.call \in {"raw", "raw_idx"} /\ reply'.arg = next_block_index
      /\ reply'.from = uncompressed_offsets[b]
      /\ reply'.to = uncompressed_offsets[FirstBlockFrom(inner')]
  BY <1>3, <1>4 DEF Reply
<1>6. Labelled(reply)' <=> next_block_index = b
  <2>1. Labelled(reply)' <=> /\ next_block_index \in 0..block_count
                             /\ uncompressed_offsets[b] = uncompressed_offsets[next_block_index]
    BY <1>5 DEF Labelled
  <2>2. ASSUME NEW c \in 0..block_count, uncompressed_offsets[b] = uncompressed_offsets[c]
        PROVE  c = b
    BY <2>2, IndexArrays
  <2> QED
    BY <1>2, <2>1, <2>2
<1>7. Labelled(reply)' => next_block_index' = FirstBlockFrom(inner')
  BY <1>3, <1>4, <1>6
<1> QED
  BY <1>2, <1>4, <1>5, <1>6, <1>7 DEF RawPlace

LEMMA RawNext ==
  ASSUME Inv, RawPlace, [Next]_vars
  PROVE  /\ RawPlace'
         /\ (Labelled(reply) /\ reply'.call \in {"raw", "raw_idx"} /\ reply'.ok)
              => Labelled(reply)'
         /\ (reply.call \in {"raw", "raw_idx"} /\ reply'.call \in {"raw", "raw_idx", "raw_end"}
             /\ reply.ok /\ reply'.ok)
              => reply'.from = reply.to \/ reply' = reply
<1>1. CASE Elsewhere
  <2>1. ~Labelled(reply)' /\ ~(reply'.ok /\ reply'.call \in {"raw", "raw_idx"})
    BY <1>1, RawElsewhere
  <2>2. ASSUME reply.call \in {"raw", "raw_idx"}, reply.ok, reply'.call = "raw_end"
        PROVE  reply'.from = reply.to
    <3>1. inner = total_compressed /\ reply'.from = total_uncompressed
      BY <1>1, <2>2, RawElsewhere
    <3>2. FirstBlockFrom(total_compressed) = block_count /\ block_count \in 0..block_count
      BY FirstBlockAt, IndexArrays DEF total_compressed
    <3> QED
      BY <2>2, <3>1, <3>2 DEF RawPlace, total_uncompressed
  <2> QED
    BY <2>1, <2>2 DEF RawPlace
<1>2. CASE ReadRawBlock
  BY <1>2, RawMember
<1>3. ASSUME NEW start \in BlockIndices \cap Nat, NEW count \in BlockCounts,
             ReadBlocks(start, count)
      PROVE  RawPlace' /\ reply'.call = "read_blocks"
  <2> DEFINE e == RangeEnd(start, count)
  <2>1. start \in Nat /\ count \in Nat /\ start \in Blocks /\ count > 0
    BY <1>3, ClientBounds DEF ReadBlocks
  <2>2. start \in 0..block_count /\ FirstBlockFrom(compressed_offsets[start]) = start
    BY <2>1, FirstBlockAt, BlocksNotEmpty
  <2>3. e \in 1..block_count /\ e - 1 \in Blocks /\ start + (e - start) = e
    BY <2>1, IndexArrays DEF RangeEnd, SmallerOf, Blocks
  <2>4. /\ inner' = compressed_offsets[e - 1] + 1 /\ next_block_index' = e
        /\ reply'.call = "read_blocks"
    BY <1>3, <2>2, <2>3 DEF ReadBlocks, Reply
  <2> HIDE DEF e
  <2>5. FirstBlockFrom(inner') = (e - 1) + 1 /\ (e - 1) + 1 = e /\ inner' # Astray
    <3>1. compressed_offsets[e - 1] \in Nat
      BY <2>3, BlocksNotEmpty, IndexArrays
    <3> QED
      BY <2>3, <2>4, <3>1, BehindBlock DEF Astray
  <2> QED
    BY <2>4, <2>5 DEF RawPlace
<1>4. CASE \/ \E k \in ReadaheadSizes : SetReadaheadSize(k)
           \/ \E m \in ReadaheadLimits \ {NoLimit} : SetReadaheadMemoryLimit(m)
           \/ \E c \in FreshCaches : SetBlockCache(c)
           \/ UNCHANGED vars
  <2>1. UNCHANGED <<inner, next_block_index, reply>>
    BY <1>4 DEF SetReadaheadSize, SetReadaheadMemoryLimit, SetBlockCache, vars, state
  <2> QED
    BY <2>1 DEF RawPlace, Labelled
<1> QED
  BY <1>1, <1>2, <1>3, <1>4 DEF Next, Elsewhere

LEMMA RawInit == Init => RawPlace
<1>1. 0 \in 0..block_count /\ compressed_offsets[0] = 0
  BY IndexArrays
<1>2. FirstBlockFrom(0) = 0
  BY <1>1, FirstBlockAt
<1> QED
  BY <1>2 DEF Init, RawPlace, Reply, Astray

(* From the start of the file and after read_blocks, read_one_raw_block    *)
(* labels a block with its own number, and an IDX with that of the block   *)
(* behind it, however many raw members were taken before.                  *)
THEOREM LabelsCorrect == Spec => RawLabelsCorrect
<1>1. Inv /\ RawPlace /\ [Next]_vars => RawPlace'
  BY RawNext
<1>2. Inv /\ RawPlace /\ [Next]_vars =>
        [ (Labelled(reply) /\ reply'.call \in {"raw", "raw_idx"} /\ reply'.ok)
            => Labelled(reply') ]_vars
  BY RawNext DEF Labelled
<1> QED
  BY <1>1, <1>2, RawInit, Invariance, PTL DEF Spec, RawLabelsCorrect

(* Raw members come in file order, each once, and the end is reported only *)
(* behind the last.                                                        *)
THEOREM WalksInOrder == Spec => RawWalk
<1>1. Inv /\ RawPlace /\ [Next]_vars => RawPlace'
  BY RawNext
<1>2. Inv /\ RawPlace /\ [Next]_vars =>
        [ (reply.call \in {"raw", "raw_idx"} /\ reply'.call \in {"raw", "raw_idx", "raw_end"}
           /\ reply.ok /\ reply'.ok)
            => reply'.from = reply.to \/ reply' = reply ]_vars
  BY RawNext
<1> QED
  BY <1>1, <1>2, RawInit, Invariance, PTL DEF Spec, RawWalk

-----------------------------------------------------------------------------
(* Where the batches are.                                                  *)

LEMMA FillReaches ==
  ASSUME TypeOK, NEW s \in Nat, s < block_count, NEW cursor, Fill(s, cursor)
  PROVE  /\ next_block_index' \in Nat
         /\ next_block_index' <= SmallerOf(block_count, s + readahead_size)
         /\ EndsFetched(s) => next_block_index' = SmallerOf(block_count, s + readahead_size)
<1>1. PICK e \in 0..block_count :
        e = SmallerOf(block_count, s + readahead_size) /\ Batch(s) = s .. e - 1 /\ s < e
  BY BatchType DEF Batch
<1>2. Missing(s) \subseteq s .. e - 1
  BY <1>1, BatchType
<1>3. CASE Missing(s) = {}
  BY <1>1, <1>3, IndexArrays DEF Fill
<1>4. CASE Missing(s) # {}
  <2>1. PICK m \in Missing(s) : LastEnd(s) = m + 1 /\ \A b \in Missing(s) : b < m + 1
    <3>1. /\ LastEnd(s) \in 1..block_count /\ LastEnd(s) - 1 \in Missing(s)
          /\ \A b \in Missing(s) : b < LastEnd(s)
      BY <1>4, LastEndType
    <3>2. LastEnd(s) = (LastEnd(s) - 1) + 1
      BY <3>1, IndexArrays
    <3> QED
      BY <3>1, <3>2
  <2>2. next_block_index' = m + 1 /\ m \in s .. e - 1
    BY <1>2, <1>4, <2>1 DEF Fill
  <2>3. m + 1 \in Nat /\ m + 1 <= e
    BY <1>1, <2>2, IndexArrays
  <2>4. ASSUME EndsFetched(s) PROVE m + 1 = e
    <3>1. e - 1 \in Missing(s)
      BY <1>1, <1>4, <2>4 DEF EndsFetched
    <3>2. e - 1 < m + 1
      BY <2>1, <3>1
    <3>3. e \in Nat /\ m \in Nat /\ m <= e - 1
      BY <1>1, <2>2, IndexArrays
    <3> QED
      BY <3>2, <3>3
  <2> QED
    BY <1>1, <2>2, <2>3, <2>4
<1> QED
  BY <1>3, <1>4

(* What follows the block being served: the buffered ones, then those from *)
(* next_block_index on, with none between them.                            *)
NoGap ==
  (~lost /\ pending_seek = None /\ current_block # None)
    => next_block_index <= current_block + Len(readahead) + 1

(* The last read ended where the next one begins.                          *)
ReadUpTo ==
  (~lost /\ GotBytes(reply)) =>
    /\ pending_seek = None /\ current_block # None
    /\ reply.to = uncompressed_offsets[current_block] + current_pos

Served == NoGap /\ ReadUpTo

(* Behind a batch that was just fetched.                                   *)
LEMMA BatchReaches ==
  ASSUME TypeOK, CacheCoherent, NEW s \in Nat, s < block_count, NEW cursor, Fill(s, cursor),
         current_block' = s, readahead' = Tail(Results(s))
  PROVE  NoGap' /\ (EndsFetched(s) => FetchesWhereBuffersEnd')
<1>1. PICK e \in 0..block_count :
        e = SmallerOf(block_count, s + readahead_size) /\ s < e
  BY BatchType
<1>2. /\ Results(s) \in Seq(Blocks) /\ Results(s) # <<>> /\ Len(Results(s)) = e - s
  BY <1>1, ResultsRight
<1>3. Len(readahead') = (e - s) - 1
  BY <1>2, HeadTailProperties
<1>4. next_block_index' \in Nat /\ next_block_index' <= e
      /\ (EndsFetched(s) => next_block_index' = e)
  BY <1>1, FillReaches
<1>5. current_block' + Len(readahead') + 1 = e
  <2>1. s + ((e - s) - 1) + 1 = e
    BY <1>1, IndexArrays
  <2> QED
    BY <1>3, <2>1
<1> QED
  BY <1>4, <1>5 DEF NoGap, FetchesWhereBuffersEnd

(* A read of some of a block.                                              *)
LEMMA ServedHere ==
  ASSUME NEW b \in Blocks, NEW p \in 0 .. BlockLen(b) - 1, NEW n \in Nat \ {0},
         Serve(b, p, n), pending_seek' = None
  PROVE  ReadUpTo' /\ reply'.from = uncompressed_offsets[b] + p
<1>1. /\ current_block' = b
      /\ reply' = Reply("read", n, 0, uncompressed_offsets[b] + p,
                                      uncompressed_offsets[b] + current_pos')
  BY ServeStep
<1>2. b # None
  BY IndexArrays DEF Blocks, None
<1> QED
  BY <1>1, <1>2 DEF ReadUpTo, Reply

(* A read that returns no bytes.                                           *)
LEMMA ServedNothing ==
  ASSUME Served, NEW n, reply' = Reply("read", n, 0, 0, 0) \/ reply' = Failure("read", n, 0),
         \/ UNCHANGED <<current_block, readahead, next_block_index, pending_seek, lost>>
         \/ lost'
         \/ current_block' = None
  PROVE  /\ Served' /\ ~GotBytes(reply')
         /\ FetchesWhereBuffersEnd => FetchesWhereBuffersEnd'
<1>1. ~GotBytes(reply')
  BY DEF GotBytes, Reply, Failure
<1> QED
  BY <1>1 DEF Served, NoGap, ReadUpTo, FetchesWhereBuffersEnd

(* Where a pending seek goes: to the block that holds the byte sought.     *)
LEMMA TargetIs ==
  ASSUME TypeOK, pending_seek # None, pending_seek <= total_uncompressed
  PROVE  /\ Target \in 0..block_count
         /\ Target = block_count <=> pending_seek = total_uncompressed
         /\ Target \in Blocks =>
              /\ Skip \in 0 .. BlockLen(Target) - 1
              /\ uncompressed_offsets[Target] + Skip = pending_seek
<1>1. pending_seek \in 0..total_uncompressed
  BY Totals DEF TypeOK
<1>2. PICK t \in 0..block_count :
        /\ t = Target /\ uncompressed_offsets[t] <= pending_seek
        /\ t = block_count <=> pending_seek = total_uncompressed
        /\ pending_seek < total_uncompressed => pending_seek < uncompressed_offsets[t + 1]
  BY <1>1, SeekByteFinds DEF Target
<1>3. ASSUME t \in Blocks
      PROVE  /\ Skip \in 0 .. BlockLen(t) - 1
             /\ uncompressed_offsets[t] + Skip = pending_seek
  <2>1. pending_seek < total_uncompressed
    BY <1>1, <1>2, <1>3, Totals, IndexArrays DEF Blocks
  <2>2. uncompressed_offsets[t] \in Nat /\ uncompressed_offsets[t + 1] \in Nat
    BY <1>3, BlocksNotEmpty, IndexArrays
  <2>3. Skip = pending_seek - uncompressed_offsets[t]
    BY <1>1, <1>2, SeekByteFinds DEF Target, Skip
  <2> QED
    BY <1>1, <1>2, <2>1, <2>2, <2>3 DEF BlockLen
<1> QED
  BY <1>2, <1>3

(* A read that carries out a seek starts at its target.                    *)
LEMMA SoughtHere ==
  ASSUME TypeOK, CacheCoherent, NEW n \in Nat, ReadSeekHit(n) \/ ReadSeekMiss(n)
  PROVE  /\ Target \in Blocks /\ Skip \in 0 .. BlockLen(Target) - 1
         /\ n \in Nat \ {0} /\ Serve(Target, Skip, n) /\ pending_seek' = None
         /\ uncompressed_offsets[Target] + Skip = pending_seek
         /\ ReadUpTo' /\ NoGap' /\ (KeepsPlace => FetchesWhereBuffersEnd')
         /\ BuffersInOrder'
<1>1. /\ n \in Nat \ {0} /\ pending_seek # None /\ pending_seek <= total_uncompressed
      /\ pending_seek' = None /\ block_cache \in Caches
  BY DEF ReadSeekHit, ReadSeekMiss, SeekHit, SeekMiss, Seeking, Sought, TypeOK
<1>2. PICK t \in 0..block_count : t = Target
  BY <1>1, TargetIs
<1>3. ASSUME t \in Blocks, Serve(t, Skip, n)
      PROVE  /\ Skip \in 0 .. BlockLen(t) - 1 /\ current_block' = t
             /\ uncompressed_offsets[t] + Skip = pending_seek /\ ReadUpTo'
  <2>1. Skip \in 0 .. BlockLen(t) - 1 /\ uncompressed_offsets[t] + Skip = pending_seek
    BY <1>1, <1>2, <1>3, TargetIs
  <2> QED
    BY <1>1, <1>3, <2>1, ServedHere, ServeStep
<1>4. CASE ReadSeekHit(n)
  <2>1. t \in Blocks /\ CacheContents(block_cache)[t] = t
    BY <1>1, <1>2, <1>4, CacheFacts DEF ReadSeekHit, SeekHit, CacheCoherent, Cached
  <2>2. /\ Serve(t, Skip, n) /\ next_block_index' = t + 1 /\ readahead' = <<>>
    BY <1>2, <1>4, <2>1 DEF ReadSeekHit
  <2>3. current_block' = t /\ ReadUpTo'
    BY <1>3, <2>1, <2>2
  <2>4. next_block_index' = current_block' + Len(readahead') + 1
    BY <2>1, <2>2, <2>3, IndexArrays DEF Blocks
  <2>5. next_block_index' <= current_block' + Len(readahead') + 1
    BY <2>1, <2>2, <2>4, IndexArrays DEF Blocks
  <2> QED
    BY <1>1, <1>2, <1>3, <2>1, <2>2, <2>4, <2>5
    DEF NoGap, FetchesWhereBuffersEnd, BuffersInOrder
<1>5. CASE ReadSeekMiss(n)
  <2>1. /\ t < block_count /\ t \in Nat
        /\ Serve(Head(Results(t)), Skip, n) /\ readahead' = Tail(Results(t))
        /\ Fill(t, compressed_offsets[t])
    BY <1>2, <1>5, IndexArrays DEF ReadSeekMiss, FillRefused
  <2>2. Head(Results(t)) = t /\ t \in Blocks /\ BuffersInOrder'
    <3>1. current_block' = Head(Results(t))
      BY <2>1 DEF Serve
    <3> QED
      BY <2>1, <3>1, BatchStep
  <2>3. current_block' = t /\ Serve(t, Skip, n)
    BY <1>3, <2>1, <2>2
  <2>4. NoGap' /\ (EndsFetched(t) => FetchesWhereBuffersEnd')
    BY <2>1, <2>3, BatchReaches
  <2>5. KeepsPlace => EndsFetched(t)
    BY <1>1, <1>2, <1>5 DEF KeepsPlace, FillDue, FillStart, ReadSeekMiss, SeekMiss
  <2> QED
    BY <1>1, <1>2, <1>3, <2>2, <2>3, <2>4, <2>5
<1> QED
  BY <1>4, <1>5

(* One read: nothing is skipped, and it ends where it says.                *)
LEMMA ServedRead ==
  ASSUME Inv, Served, NEW n \in Nat, Read(n)
  PROVE  /\ Served'
         /\ (~lost /\ GotBytes(reply) /\ GotBytes(reply')) => reply'.from <= reply.to
         /\ (KeepsPlace /\ FetchesWhereBuffersEnd) => FetchesWhereBuffersEnd'
<1>1. /\ TypeOK /\ CacheCoherent /\ BuffersInOrder
      /\ next_block_index \in Nat /\ block_cache \in Caches /\ readahead \in Seq(Blocks)
      /\ pending_seek \in Nat \cup {None}
  BY DEF Inv, TypeOK
<1>2. CASE \/ ReadEmptyBuffer(n) \/ ReadAtEof(n) \/ ReadRefillRefused(n)
           \/ ReadRefillFails(n) \/ ReadBeyondEnd(n) \/ ReadSeekHitFails(n)
           \/ ReadSeekRefused(n) \/ ReadSeekMissFails(n)
  <2>1. reply' = Reply("read", n, 0, 0, 0) \/ reply' = Failure("read", n, 0)
    BY <1>2
    DEF ReadEmptyBuffer, ReadAtEof, ReadRefillRefused, ReadRefillFails, ReadBeyondEnd,
        ReadSeekHitFails, ReadSeekRefused, ReadSeekMissFails
  <2>2. \/ UNCHANGED <<current_block, readahead, next_block_index, pending_seek, lost>>
        \/ lost'
        \/ current_block' = None
    BY <1>2
    DEF ReadEmptyBuffer, ReadAtEof, ReadRefillRefused, ReadRefillFails, ReadBeyondEnd,
        ReadSeekHitFails, ReadSeekRefused, ReadSeekMissFails, state
  <2> QED
    BY <2>1, <2>2, ServedNothing
<1>3. CASE ReadFromCurrent(n)
  <2>1. current_block \in Blocks /\ current_pos \in 0 .. BlockLen(current_block) - 1
    BY <1>1, <1>3, BlocksNotEmpty DEF ReadFromCurrent, TypeOK, Exhausted, CurrentLen
  <2>2. /\ n \in Nat \ {0} /\ Serve(current_block, current_pos, n)
        /\ pending_seek = None /\ pending_seek' = None
        /\ UNCHANGED <<readahead, next_block_index, lost>>
    BY <1>3 DEF ReadFromCurrent
  <2>3. ReadUpTo' /\ reply'.from = uncompressed_offsets[current_block] + current_pos
        /\ UNCHANGED current_block
    BY <2>1, <2>2, ServedHere, ServeStep
  <2>4. NoGap' /\ (FetchesWhereBuffersEnd => FetchesWhereBuffersEnd')
    BY <2>2, <2>3 DEF Served, NoGap, FetchesWhereBuffersEnd
  <2>5. uncompressed_offsets[current_block] \in Nat
    BY <2>1, BlocksNotEmpty, IndexArrays
  <2> QED
    BY <2>1, <2>3, <2>4, <2>5 DEF Served, ReadUpTo
<1>4. CASE ReadFromReadahead(n)
  <2>1. /\ n \in Nat \ {0} /\ Serve(Head(readahead), 0, n)
        /\ pending_seek = None /\ pending_seek' = None
        /\ readahead # <<>> /\ readahead' = Tail(readahead) /\ Exhausted
        /\ UNCHANGED <<next_block_index, lost>>
    BY <1>4 DEF ReadFromReadahead
  <2>2. PICK b \in Blocks : b = current_block /\ Head(readahead) = b + 1
                            /\ b + 1 \in Blocks /\ current_block # None
    <3>1. current_block # None /\ Head(readahead) = current_block + 1
      BY <1>1, <2>1 DEF BuffersInOrder
    <3>2. Head(readahead) \in Blocks
      BY <1>1, <2>1, HeadTailProperties
    <3> QED
      BY <1>1, <3>1, <3>2 DEF TypeOK
  <2>3. ReadUpTo' /\ reply'.from = uncompressed_offsets[b + 1] + 0 /\ current_block' = b + 1
    <3>1. 0 \in 0 .. BlockLen(b + 1) - 1
      BY <2>2, BlocksNotEmpty
    <3> QED
      BY <2>1, <2>2, <3>1, ServedHere, ServeStep
  <2>4. current_block' + Len(readahead') + 1 = current_block + Len(readahead) + 1
    <3>1. Len(readahead') = Len(readahead) - 1 /\ Len(readahead) \in Nat
      BY <1>1, <2>1, HeadTailProperties
    <3> QED
      BY <2>2, <2>3, <3>1, IndexArrays DEF Blocks
  <2>5. NoGap' /\ (FetchesWhereBuffersEnd => FetchesWhereBuffersEnd')
    BY <2>1, <2>2, <2>4 DEF Served, NoGap, FetchesWhereBuffersEnd
  <2>6. uncompressed_offsets[b] + current_pos >= uncompressed_offsets[b + 1]
        /\ uncompressed_offsets[b + 1] \in Nat /\ uncompressed_offsets[b] \in Nat
        /\ current_pos \in Nat
    <3>1. current_pos >= BlockLen(b) /\ current_pos \in 0..BlockLen(b)
      BY <1>1, <2>1, <2>2 DEF Exhausted, CurrentLen, TypeOK
    <3>2. uncompressed_offsets[b + 1] \in Nat /\ uncompressed_offsets[b] \in Nat
      BY <2>2, BlocksNotEmpty, IndexArrays
    <3> QED
      BY <2>2, <3>1, <3>2, BlocksNotEmpty DEF BlockLen
  <2> QED
    BY <2>2, <2>3, <2>5, <2>6 DEF Served, ReadUpTo
<1>5. CASE ReadRefill(n)
  <2>1. PICK s \in Nat : s = next_block_index
    BY <1>1
  <2>2. /\ n \in Nat \ {0} /\ s < block_count
        /\ Serve(Head(Results(s)), 0, n) /\ readahead' = Tail(Results(s)) /\ Fill(s, inner)
        /\ pending_seek = None /\ pending_seek' = None /\ Exhausted /\ readahead = <<>>
        /\ UNCHANGED lost
    BY <1>5, <2>1, IndexArrays DEF ReadRefill, FillRefused, NeedsFill
  <2>3. Head(Results(s)) = s /\ s \in Blocks /\ 0 \in 0 .. BlockLen(s) - 1
    <3>1. current_block' = Head(Results(s))
      BY <2>2 DEF Serve
    <3>2. Head(Results(s)) = s /\ s \in Blocks
      BY <1>1, <2>2, <3>1, BatchStep
    <3> QED
      BY <3>2, BlocksNotEmpty
  <2>4. ReadUpTo' /\ reply'.from = uncompressed_offsets[s] + 0 /\ current_block' = s
    BY <2>2, <2>3, ServedHere, ServeStep
  <2>5. NoGap' /\ (KeepsPlace => FetchesWhereBuffersEnd')
    <3>1. NoGap' /\ (EndsFetched(s) => FetchesWhereBuffersEnd')
      BY <1>1, <2>2, <2>4, BatchReaches
    <3>2. KeepsPlace => EndsFetched(s)
      BY <1>5, <2>1 DEF KeepsPlace, FillDue, FillStart, ReadRefill, NeedsFill
    <3> QED
      BY <3>1, <3>2
  <2>6. ASSUME ~lost, GotBytes(reply) PROVE reply'.from <= reply.to
    <3>1. PICK b \in Blocks : b = current_block /\ current_block # None
      BY <1>1, <2>6 DEF Served, ReadUpTo, TypeOK
    <3>2. s <= b + 1
      BY <2>1, <2>2, <2>6, <3>1, IndexArrays DEF Served, NoGap, Blocks
    <3>3. b \in 0..block_count /\ b + 1 \in 0..block_count /\ s \in 0..block_count
      BY <2>3, <3>1, BlocksNotEmpty
    <3>4. /\ uncompressed_offsets[s] <= uncompressed_offsets[b + 1]
          /\ uncompressed_offsets[s] \in Nat
      BY <3>2, <3>3, OffsetsMonotonic
    <3>5. uncompressed_offsets[b] \in Nat /\ uncompressed_offsets[b + 1] \in Nat
      BY <3>3, IndexArrays
    <3>6. current_pos >= BlockLen(b) /\ current_pos \in 0..BlockLen(b) /\ BlockLen(b) \in Nat
      BY <1>1, <2>2, <3>1, BlocksNotEmpty DEF Exhausted, CurrentLen, TypeOK
    <3>7. /\ current_pos \in Nat
          /\ uncompressed_offsets[b] + current_pos >= uncompressed_offsets[b + 1]
      BY <3>5, <3>6 DEF BlockLen
    <3>8. reply.to = uncompressed_offsets[b] + current_pos
      BY <2>6, <3>1 DEF Served, ReadUpTo
    <3> QED
      BY <2>4, <3>4, <3>5, <3>7, <3>8
  <2> QED
    BY <2>4, <2>5, <2>6 DEF Served
<1>6. CASE ReadSeekHit(n) \/ ReadSeekMiss(n)
  <2>1. ~(~lost /\ GotBytes(reply))
    BY <1>6 DEF ReadSeekHit, ReadSeekMiss, SeekHit, SeekMiss, Seeking, Served, ReadUpTo
  <2>2. ReadUpTo'
    BY <1>1, <1>6, SoughtHere DEF Inv
  <2>3. NoGap' /\ (KeepsPlace => FetchesWhereBuffersEnd')
    BY <1>1, <1>6, SoughtHere DEF Inv
  <2> QED
    BY <2>1, <2>2, <2>3 DEF Served
<1> QED
  BY <1>2, <1>3, <1>4, <1>5, <1>6 DEF Read

(* The other calls leave the place alone, give it up, or set it anew.      *)
LEMMA ServedElsewhere ==
  ASSUME Inv, Next, ~ \E n \in ReadSizes : Read(n)
  PROVE  /\ \/ UNCHANGED <<current_block, current_pos, readahead, next_block_index,
                           pending_seek, lost>>
            \/ lost' \/ current_block' = None \/ pending_seek' # None
         /\ \/ reply'.call # "read"
            \/ UNCHANGED <<current_block, current_pos, pending_seek, lost, reply>>
<1>1. CASE \/ \E p \in SeekTargets : SeekTo(p)
           \/ \E n \in Shifts : SeekFromEnd(n) \/ SeekFromCurrent(n)
  BY <1>1 DEF SeekTo, SeekFromEnd, SeekFromCurrent, NoteSeek, Reply
<1>2. CASE \E i \in BlockIndices :
             SeekToBlock(i) \/ SeekToBlockRejected(i) \/ SeekToBlockFails(i)
  <2>1. CASE \E i \in BlockIndices : SeekToBlock(i) \/ SeekToBlockRejected(i)
    BY <2>1 DEF SeekToBlock, SeekToBlockRejected, Reply, Failure, state
  <2>2. ASSUME NEW i \in BlockIndices, SeekToBlockFails(i)
        PROVE  reply'.call = "seek_block" /\ (lost' \/ pending_seek' # None)
    BY <2>2 DEF SeekToBlockFails, Failure
  <2> QED
    BY <1>2, <2>1, <2>2
<1>3. ASSUME NEW start \in BlockIndices \cap Nat, NEW count \in BlockCounts,
             \/ ReadBlocks(start, count) \/ ReadNoBlocks(start, count)
             \/ ReadBlocksRejected(start, count) \/ ReadBlocksFails(start, count)
      PROVE  /\ \/ UNCHANGED <<current_block, current_pos, readahead, next_block_index,
                               pending_seek, lost>>
                \/ lost' \/ current_block' = None \/ pending_seek' # None
             /\ reply'.call = "read_blocks"
  <2>1. CASE ReadBlocks(start, count)
    BY <2>1 DEF ReadBlocks, Reply
  <2>2. CASE ReadNoBlocks(start, count) \/ ReadBlocksRejected(start, count)
    BY <2>2 DEF ReadNoBlocks, ReadBlocksRejected, Reply, Failure, state
  <2>3. CASE ReadBlocksFails(start, count)
    BY <2>3 DEF ReadBlocksFails, Failure
  <2> QED
    BY <1>3, <2>1, <2>2, <2>3
<1>4. CASE ReadRawBlock
  <2>1. reply'.call \in {"raw", "raw_idx"}
    BY <1>4 DEF ReadRawBlock, Reply
  <2> QED
    BY <1>4, <2>1 DEF ReadRawBlock
<1>5. CASE ReadRawEnd \/ ReadRawFails
  <2>1. CASE ReadRawEnd
    BY <2>1 DEF ReadRawEnd, Reply, state
  <2>2. CASE ReadRawFails
    BY <2>2 DEF ReadRawFails, Failure
  <2> QED
    BY <1>5, <2>1, <2>2
<1>6. CASE \/ \E k \in ReadaheadSizes : SetReadaheadSize(k)
           \/ \E m \in ReadaheadLimits \ {NoLimit} : SetReadaheadMemoryLimit(m)
           \/ \E c \in FreshCaches : SetBlockCache(c)
  BY <1>6 DEF SetReadaheadSize, SetReadaheadMemoryLimit, SetBlockCache, state
<1> QED
  BY <1>1, <1>2, <1>3, <1>4, <1>5, <1>6 DEF Next

LEMMA ServedNext ==
  ASSUME Inv, Served, [Next]_vars
  PROVE  /\ Served'
         /\ (~lost /\ GotBytes(reply) /\ GotBytes(reply') /\ reply' # reply)
              => reply'.from <= reply.to
         /\ (KeepsPlace /\ FetchesWhereBuffersEnd) => FetchesWhereBuffersEnd'
<1>1. CASE \E n \in ReadSizes : Read(n)
  BY <1>1, ServedRead, ClientBounds
<1>2. CASE Next /\ ~ \E n \in ReadSizes : Read(n)
  <2>1. NoGap' /\ (FetchesWhereBuffersEnd => FetchesWhereBuffersEnd')
    BY <1>2, ServedElsewhere DEF Served, NoGap, FetchesWhereBuffersEnd
  <2>2. ReadUpTo' /\ (GotBytes(reply') => reply' = reply)
    BY <1>2, ServedElsewhere DEF Served, ReadUpTo, GotBytes
  <2> QED
    BY <2>1, <2>2 DEF Served
<1>3. CASE UNCHANGED vars
  BY <1>3 DEF vars, state, Served, NoGap, ReadUpTo, FetchesWhereBuffersEnd, GotBytes
<1> QED
  BY <1>1, <1>2, <1>3

LEMMA ServedInit == Init => Served /\ FetchesWhereBuffersEnd
BY DEF Init, Served, NoGap, ReadUpTo, FetchesWhereBuffersEnd, GotBytes, Reply

(* A read never starts behind where the one before it ended: seeks,        *)
(* batches, caches, limits and failures in between never lose bytes.       *)
THEOREM ReadsNeverSkip == Spec => NeverSkips
<1>1. Inv /\ Served /\ [Next]_vars => Served'
  BY ServedNext
<1>2. Inv /\ Served /\ [Next]_vars =>
        [ (~lost /\ GotBytes(reply) /\ GotBytes(reply') /\ reply' # reply)
            => reply'.from <= reply.to ]_vars
  BY ServedNext
<1>3. Init => Served
  BY ServedInit
<1> QED
  BY <1>1, <1>2, <1>3, Invariance, PTL DEF Spec, NeverSkips

(* As long as no batch is fetched that ends in cached blocks, fetching     *)
(* goes on exactly behind the buffered blocks, whatever the calls, the     *)
(* cache and the batch sizes are: nothing is handed out twice.             *)
THEOREM FetchesInPlace == Spec /\ []KeepsPlace => []FetchesWhereBuffersEnd
<1>1. Inv /\ Served /\ [Next]_vars => Served'
  BY ServedNext
<1>2. Inv /\ Served /\ KeepsPlace /\ FetchesWhereBuffersEnd /\ [Next]_vars
        => FetchesWhereBuffersEnd'
  BY ServedNext
<1> QED
  BY <1>1, <1>2, ServedInit, Invariance, PTL DEF Spec

-----------------------------------------------------------------------------
(* Sequential readers.  They need not be told to keep their place: what    *)
(* they have cached is behind the next block to fetch, and no batch meets  *)
(* it.  A seek before anything is cached, which is all that the command    *)
(* line does (main.rs:95), changes nothing about that.                     *)
SeeksFirst == pending_seek # None => Cached = {}

CachedIsBehind == pending_seek = None => \A b \in Cached : b < next_block_index

(* What is cached behind a batch.                                          *)
LEMMA FillCaches ==
  ASSUME TypeOK, CacheCoherent, NEW s \in Nat, s < block_count,
         \A b \in Cached : b < s,
         \/ \E cursor \in 0..total_compressed \cup {Astray} : Fill(s, cursor)
         \/ FillFails(s)
  PROVE  \A b \in Cached' : b < next_block_index'
<1> DEFINE touched == CacheTouch(block_cache, Batch(s))
<1>1. Batch(s) \in SUBSET Blocks /\ Missing(s) \in SUBSET Blocks /\ s \in Batch(s)
  BY BatchType
<1>2. /\ touched \in Caches /\ block_cache \in Caches
      /\ DOMAIN CacheContents(touched) = Cached /\ Cached \subseteq Blocks
  BY <1>1, CacheFacts DEF TypeOK, Cached
<1>3. s \in Missing(s)
  BY <1>1, <1>2, IndexArrays DEF Missing, Blocks
<1>4. PICK e \in 1..block_count : e = LastEnd(s) /\ \A b \in Missing(s) : b < e
  BY <1>3, LastEndType
<1>5. Fetched(s) \in [Missing(s) -> Blocks]
  BY <1>1, FetchedRight
<1>6. \A b \in DOMAIN CacheContents(CacheInsert(touched, Fetched(s))) :
         b \in Missing(s) \/ b \in Cached
  <2> DEFINE Holds(new, d) ==
        \A b \in DOMAIN CacheContents(CacheInsert(touched, d)) :
          b \in new \/ b \in DOMAIN CacheContents(touched)
  <2>1. \A new \in SUBSET Blocks : \A d \in [new -> Blocks] : Holds(new, d)
    <3> HIDE DEF touched
    <3> QED
      BY <1>2, CacheContract, Zenon
  <2>2. Holds(Missing(s), Fetched(s))
    <3> HIDE DEF Holds
    <3> QED
      BY <1>1, <1>5, <2>1
  <2> QED
    BY <1>2, <2>2
<1>7. Cached' = Cached \/ Cached' = DOMAIN CacheContents(CacheInsert(touched, Fetched(s)))
  BY <1>2 DEF Fill, FillFails, Cached
<1>8. \A b \in Cached' : b \in Missing(s) \/ b \in Cached
  <2> HIDE DEF touched
  <2> QED
    BY <1>6, <1>7
<1>9. \A b \in Missing(s) \cup Cached : b \in Nat
  <2>1. Blocks \subseteq Nat
    BY IndexArrays DEF Blocks
  <2> QED
    BY <1>1, <1>2, <2>1
<1>10. s < e
  BY <1>3, <1>4
<1>11. CASE next_block_index' = e
  <2> SUFFICES ASSUME NEW b \in Cached' PROVE b < e
    BY <1>11
  <2>1. CASE b \in Missing(s)
    BY <1>4, <2>1
  <2>2. CASE b \in Cached
    BY <1>9, <1>10, <2>2
  <2> QED
    BY <1>8, <2>1, <2>2
<1>12. ASSUME next_block_index' # e
       PROVE  /\ Cached' = Cached
              /\ next_block_index' \in {s} \cup Missing(s) \cup {b + 1 : b \in Missing(s)}
  BY <1>2, <1>3, <1>4, <1>12 DEF Fill, FillFails, Cached
<1>13. \A b \in Missing(s) : s <= b
  BY <1>1 DEF Missing, Batch
<1>14. ASSUME next_block_index' # e PROVE next_block_index' \in Nat /\ s <= next_block_index'
  <2>1. next_block_index' \in {s} \cup Missing(s) \cup {b + 1 : b \in Missing(s)}
    BY <1>12, <1>14
  <2>2. ASSUME NEW b \in Missing(s)
        PROVE  b \in Nat /\ s <= b /\ b + 1 \in Nat /\ s <= b + 1
    BY <1>9, <1>13
  <2> QED
    BY <2>1, <2>2
<1>15. CASE next_block_index' # e
  BY <1>9, <1>12, <1>14, <1>15
<1> QED
  BY <1>11, <1>15

LEMMA SequentialRead ==
  ASSUME Inv, SeeksFirst, CachedIsBehind, NEW n \in Nat, Read(n)
  PROVE  CachedIsBehind'
<1>1. /\ TypeOK /\ CacheCoherent /\ next_block_index \in Nat /\ block_cache \in Caches
      /\ inner \in 0..total_compressed \cup {Astray}
  BY DEF Inv, TypeOK
<1>2. CASE \/ ReadEmptyBuffer(n) \/ ReadFromCurrent(n) \/ ReadAtEof(n)
           \/ ReadFromReadahead(n) \/ ReadRefillRefused(n)
  <2>1. UNCHANGED <<pending_seek, block_cache, next_block_index>>
    BY <1>2 DEF ReadEmptyBuffer, ReadFromCurrent, ReadAtEof, ReadFromReadahead,
                ReadRefillRefused, state
  <2> QED
    BY <2>1 DEF CachedIsBehind, Cached
<1>3. CASE ReadRefill(n) \/ ReadRefillFails(n)
  <2>1. PICK s \in Nat : s = next_block_index
    BY <1>1
  <2>2. /\ s < block_count /\ pending_seek = None
        /\ Fill(s, inner) \/ FillFails(s)
    BY <1>3, <2>1, IndexArrays DEF ReadRefill, ReadRefillFails, FillRefused, NeedsFill
  <2>3. \A b \in Cached : b < s
    BY <2>1, <2>2 DEF CachedIsBehind
  <2> QED
    BY <1>1, <2>2, <2>3, FillCaches DEF CachedIsBehind
<1>4. CASE pending_seek # None /\ n > 0
  <2>1. Cached = {} /\ pending_seek \in Nat
    BY <1>1, <1>4 DEF SeeksFirst, TypeOK
  <2>2. CASE ReadSeekHit(n) \/ ReadSeekHitFails(n)
    BY <2>1, <2>2 DEF ReadSeekHit, ReadSeekHitFails, SeekHit
  <2>3. CASE ReadBeyondEnd(n) \/ ReadSeekRefused(n)
    BY <2>1, <2>3 DEF ReadBeyondEnd, ReadSeekRefused, CachedIsBehind, Cached
  <2>4. ASSUME ReadSeekMiss(n) \/ ReadSeekMissFails(n), block_cache' # block_cache
        PROVE  \A b \in Cached' : b < next_block_index'
    <3>1. PICK t \in 0..block_count : t = Target
      BY <1>1, <1>4, <2>4, TargetIs DEF ReadSeekMiss, ReadSeekMissFails, SeekMiss
    <3>2. /\ t \in Nat /\ t < block_count
          /\ Fill(t, compressed_offsets[t]) \/ FillFails(t)
      BY <2>4, <3>1, IndexArrays DEF ReadSeekMiss, ReadSeekMissFails, FillRefused
    <3>3. compressed_offsets[t] \in 0..total_compressed
      BY <3>1, Totals
    <3> QED
      BY <1>1, <2>1, <3>2, <3>3, FillCaches
  <2>5. CASE block_cache' = block_cache
    BY <2>1, <2>5 DEF CachedIsBehind, Cached
  <2> QED
    BY <1>2, <1>3, <1>4, <2>2, <2>3, <2>4, <2>5
    DEF Read, CachedIsBehind, ReadRefill, ReadRefillFails, NeedsFill
<1>5. CASE \/ ReadBeyondEnd(n) \/ ReadSeekHit(n) \/ ReadSeekHitFails(n)
           \/ ReadSeekMiss(n) \/ ReadSeekRefused(n) \/ ReadSeekMissFails(n)
  BY <1>4, <1>5 DEF ReadBeyondEnd, ReadSeekHit, ReadSeekHitFails, ReadSeekMiss,
                    ReadSeekRefused, ReadSeekMissFails, SeekHit, SeekMiss, Seeking
<1> QED
  BY <1>2, <1>3, <1>5 DEF Read

LEMMA SequentialNext ==
  ASSUME Ops \cap {"seek_block", "read_blocks"} = {}, Inv, SeeksFirst, CachedIsBehind,
         [Next]_vars
  PROVE  CachedIsBehind'
<1>1. CASE \E n \in ReadSizes : Read(n)
  BY <1>1, SequentialRead, ClientBounds
<1>2. CASE \E p \in SeekTargets : SeekTo(p)
  <2>1. PICK p \in SeekTargets : SeekTo(p)
    BY <1>2
  <2>2. pending_seek' = p /\ p \in Nat
    BY <2>1, ClientBounds DEF SeekTo, NoteSeek
  <2> QED
    BY <2>2 DEF CachedIsBehind, None
<1>3. CASE \E n \in Shifts : SeekFromEnd(n) \/ SeekFromCurrent(n)
  <2>1. PICK n \in Shifts : SeekFromEnd(n) \/ SeekFromCurrent(n)
    BY <1>3
  <2>2. /\ n \in Int /\ current_pos \in Int /\ total_uncompressed \in Int
        /\ OffsetSpace \in Nat \ {0}
    BY ClientBounds, Totals DEF Inv, TypeOK
  <2>3. pending_seek' \in Nat
    BY <2>1, <2>2 DEF SeekFromEnd, SeekFromCurrent, NoteSeek
  <2> QED
    BY <2>3 DEF CachedIsBehind, None
<1>4. CASE \/ \E i \in BlockIndices :
                SeekToBlock(i) \/ SeekToBlockRejected(i) \/ SeekToBlockFails(i)
           \/ \E start \in BlockIndices \cap Nat, count \in BlockCounts :
                \/ ReadBlocks(start, count) \/ ReadNoBlocks(start, count)
                \/ ReadBlocksRejected(start, count) \/ ReadBlocksFails(start, count)
  BY <1>4 DEF SeekToBlock, SeekToBlockRejected, SeekToBlockFails, ReadBlocks, ReadNoBlocks,
              ReadBlocksRejected, ReadBlocksFails
<1>5. CASE ReadRawBlock \/ ReadRawEnd \/ ReadRawFails
  <2>1. /\ UNCHANGED <<pending_seek, block_cache>>
        /\ next_block_index' \in {next_block_index, next_block_index + 1}
    BY <1>5 DEF ReadRawBlock, ReadRawEnd, ReadRawFails, LabelAfter, state
  <2>2. next_block_index \in Nat /\ Cached \subseteq Nat
    <3>1. Cached \subseteq Blocks /\ next_block_index \in Nat
      BY CacheFacts DEF Inv, TypeOK, Cached
    <3> QED
      BY <3>1, IndexArrays DEF Blocks
  <2>3. UNCHANGED Cached
    BY <2>1 DEF Cached
  <2> QED
    BY <2>1, <2>2, <2>3 DEF CachedIsBehind
<1>6. CASE \/ \E k \in ReadaheadSizes : SetReadaheadSize(k)
           \/ \E m \in ReadaheadLimits \ {NoLimit} : SetReadaheadMemoryLimit(m)
           \/ UNCHANGED vars
  BY <1>6 DEF SetReadaheadSize, SetReadaheadMemoryLimit, vars, state, CachedIsBehind, Cached
<1>7. CASE \E c \in FreshCaches : SetBlockCache(c)
  BY <1>7, CacheContract DEF SetBlockCache, CachedIsBehind, Cached
<1> QED
  BY <1>1, <1>2, <1>3, <1>4, <1>5, <1>6, <1>7 DEF Next

LEMMA SequentialIsInPlace ==
  ASSUME Inv, SeeksFirst, CachedIsBehind
  PROVE  KeepsPlace
<1> SUFFICES ASSUME FillDue PROVE EndsFetched(FillStart)
  BY DEF KeepsPlace
<1>1. TypeOK /\ next_block_index \in Nat /\ pending_seek \in Nat \cup {None}
  BY DEF Inv, TypeOK
<1>2. PICK s \in Nat : s = FillStart /\ \A b \in Cached : b < s
  <2>1. CASE pending_seek = None
    BY <1>1, <2>1 DEF FillStart, CachedIsBehind
  <2>2. CASE pending_seek # None
    <3>1. Target \in 0..block_count
      BY <1>1, <2>2, TargetIs DEF FillDue
    <3> QED
      BY <2>2, <3>1, IndexArrays DEF FillStart, SeeksFirst
  <2> QED
    BY <2>1, <2>2
<1>3. Cached \subseteq Blocks
  BY CacheFacts DEF Inv, TypeOK, Cached
<1>4. Missing(s) = Batch(s)
  BY <1>2, <1>3, IndexArrays DEF Missing, Batch, Blocks
<1>5. EndsFetched(s)
  <2>1. PICK e \in 0..block_count :
          e = SmallerOf(block_count, s + readahead_size) /\ Batch(s) = s .. e - 1
    BY <1>1, BatchType DEF Batch
  <2>2. CASE s < e
    BY <1>2, <1>4, <2>1, <2>2, IndexArrays DEF EndsFetched
  <2>3. CASE ~(s < e)
    BY <1>2, <1>4, <2>1, <2>3, IndexArrays DEF EndsFetched
  <2> QED
    BY <2>2, <2>3
<1> QED
  BY <1>2, <1>5

(* A reader that seeks only while nothing is cached never fetches a batch  *)
(* that ends in cached blocks, with any readahead, cache and limit, and    *)
(* whatever fails: for reading in sequence, KeepsPlace is no restriction.  *)
THEOREM SequentialKeepsPlace ==
  ASSUME Ops \cap {"seek_block", "read_blocks"} = {}
  PROVE  Spec /\ []SeeksFirst => []KeepsPlace
<1>1. Init => CachedIsBehind
  BY CacheContract DEF Init, CachedIsBehind, Cached
<1>2. Inv /\ SeeksFirst /\ CachedIsBehind /\ [Next]_vars => CachedIsBehind'
  BY SequentialNext
<1>3. Inv /\ SeeksFirst /\ CachedIsBehind => KeepsPlace
  BY SequentialIsInPlace
<1> QED
  BY <1>1, <1>2, <1>3, Invariance, PTL DEF Spec

-----------------------------------------------------------------------------
(* The byte stream.                                                        *)

(* Clients that the stream is promised to: they seek by offsets, read      *)
(* ranges of blocks and configure the reader, without a memory limit and   *)
(* without a batch that ends in cached blocks.                             *)
PlainCalls == Ops \subseteq {"seek", "seek_end", "read_blocks", "set"}
PlainReads == KeepsPlace /\ readahead_memory_limit = NoLimit

Pos == IF lost THEN Stream!Lost ELSE StreamPos

(* What the position follows from, besides the invariants above.           *)
Stands ==
  /\ FetchesWhereBuffersEnd
  /\ lost => pending_seek = None
  /\ (~lost /\ pending_seek = None /\ eof) =>
       Exhausted /\ readahead = <<>> /\ next_block_index >= block_count

(* The reads of the byte stream.                                           *)
LEMMA StreamSome ==
  ASSUME NEW n \in ReadSizes, NEW k \in 1..n, Pos \in 0 .. total_uncompressed - 1,
         Pos + k <= total_uncompressed, reply' = Reply("read", n, 0, Pos, Pos + k),
         Pos' = Pos + k, UNCHANGED faults
  PROVE  Stream!Next
<1>1. Stream!ReadSome(n)
  BY DEF Stream!ReadSome, Stream!Reply, Reply, Stream!Lost, Pos
<1> QED
  BY <1>1 DEF Stream!Next, Stream!Succeed

LEMMA StreamNothing ==
  ASSUME NEW n \in ReadSizes, n = 0 \/ Pos = total_uncompressed,
         reply' = Reply("read", n, 0, 0, 0), UNCHANGED <<Pos, faults>>
  PROVE  Stream!Next
<1>1. Stream!ReadNothing(n)
  BY DEF Stream!ReadNothing, Stream!Reply, Reply, Stream!Lost, Pos
<1> QED
  BY <1>1 DEF Stream!Next, Stream!Succeed

LEMMA StreamAstray ==
  ASSUME NEW n \in ReadSizes, lost, lost',
         NEW from \in 0..total_uncompressed, NEW k \in 0..n, from + k <= total_uncompressed,
         reply' = Reply("read", n, 0, from, from + k), UNCHANGED faults
  PROVE  Stream!Next
BY DEF Stream!Next, Stream!Succeed, Stream!ReadLost, Stream!Reply, Stream!Lost, Reply

LEMMA StreamFails ==
  ASSUME NEW n \in ReadSizes, n > 0,
         \/ Pos > total_uncompressed /\ UNCHANGED faults
         \/ faults' = faults + 1,
         reply' = Failure("read", n, 0), lost'
  PROVE  Stream!Next
BY DEF Stream!Next, Stream!Fail, Stream!ReadFails, Stream!Failure, Stream!Lost, Failure, Pos

(* Wherever a block is served from, the stream stands behind the bytes     *)
(* returned.                                                               *)
LEMMA ServedPos ==
  ASSUME NEW b \in Blocks, NEW p \in 0 .. BlockLen(b) - 1, NEW n \in Nat \ {0},
         Serve(b, p, n), pending_seek' = None, ~lost',
         BuffersInOrder', FetchesWhereBuffersEnd', readahead' \in Seq(Blocks)
  PROVE  Pos' = uncompressed_offsets[b] + current_pos'
<1>1. /\ current_block' = b /\ CurrentLen' = BlockLen(b) /\ current_pos' \in 0..BlockLen(b)
      /\ b # None
  BY ServeStep DEF Blocks, None
<1>2. Pos' = StreamPos'
  BY DEF Pos
<1>3. CASE ~Exhausted'
  BY <1>1, <1>2, <1>3 DEF StreamPos
<1>4. CASE Exhausted'
  <2>1. b \in Nat /\ b + 1 \in 0..block_count /\ block_count \in Nat
        /\ uncompressed_offsets[b] \in Nat /\ uncompressed_offsets[b + 1] \in Nat
    BY BlocksNotEmpty, IndexArrays DEF Blocks
  <2>2. current_pos' = BlockLen(b)
    BY <1>1, <1>4, BlocksNotEmpty DEF Exhausted
  <2>3. uncompressed_offsets[b] + current_pos' = uncompressed_offsets[b + 1]
    BY <2>1, <2>2 DEF BlockLen
  <2>4. CASE readahead' # <<>>
    BY <1>1, <1>2, <1>4, <2>3, <2>4 DEF StreamPos, BuffersInOrder
  <2>5. CASE readahead' = <<>>
    <3>1. next_block_index' = b + Len(readahead') + 1 /\ Len(readahead') = 0
      BY <1>1, <2>5 DEF FetchesWhereBuffersEnd
    <3>2. next_block_index' = b + 1 /\ SmallerOf(b + 1, block_count) = b + 1
      BY <2>1, <3>1 DEF SmallerOf
    <3> QED
      BY <1>2, <1>4, <2>3, <2>5, <3>2 DEF StreamPos
  <2> QED
    BY <2>4, <2>5
<1> QED
  BY <1>3, <1>4

(* A place with room for some more bytes is before the end.                *)
LEMMA RangeRoom ==
  ASSUME NEW x \in Nat, NEW room \in Nat \ {0}, NEW most \in Nat, x + room <= most
  PROVE  x \in 0 .. most - 1 /\ x \in 0..most
<1>1. x <= most - 1 /\ x <= most
  OBVIOUS
<1> QED
  BY <1>1

(* A read of a block from where the stream stands is one of the stream.    *)
LEMMA ServedStream ==
  ASSUME NEW b \in Blocks, NEW p \in 0 .. BlockLen(b) - 1, NEW n \in ReadSizes, n # 0,
         Serve(b, p, n), pending_seek' = None, UNCHANGED <<lost, faults>>,
         BuffersInOrder', FetchesWhereBuffersEnd', readahead' \in Seq(Blocks),
         ~lost => StreamPos = uncompressed_offsets[b] + p
  PROVE  Stream!Next
<1>1. n \in Nat \ {0}
  BY ClientBounds
<1>2. PICK start \in Nat, len \in Nat \ {0} :
        /\ start = uncompressed_offsets[b] /\ len = BlockLen(b)
        /\ start + len <= total_uncompressed
  <2>1. /\ b \in 0..block_count /\ b + 1 \in 0..block_count /\ BlockLen(b) \in Nat \ {0}
    BY BlocksNotEmpty
  <2>2. /\ uncompressed_offsets[b] \in Nat /\ uncompressed_offsets[b + 1] \in Nat
        /\ uncompressed_offsets[b + 1] <= total_uncompressed
    BY <2>1, Totals, IndexArrays
  <2>3. uncompressed_offsets[b] + BlockLen(b) = uncompressed_offsets[b + 1]
    BY <2>2 DEF BlockLen
  <2> QED
    BY <2>1, <2>2, <2>3
<1>3. PICK take \in 1..n : current_pos' = p + take /\ p + take <= len
  <2>1. SmallerOf(n, len - p) \in 1..n /\ p + SmallerOf(n, len - p) <= len
    BY <1>1, <1>2 DEF SmallerOf
  <2> QED
    BY <1>2, <2>1 DEF Serve
<1>4. reply' = Reply("read", n, 0, start + p, start + (p + take))
  BY <1>1, <1>2, <1>3, ServeStep
<1>5. /\ start + (p + take) = (start + p) + take /\ (start + p) + take <= total_uncompressed
      /\ start + p \in 0 .. total_uncompressed - 1 /\ start + p \in 0..total_uncompressed
  <2>1. PICK total \in Nat : total = total_uncompressed
    BY Totals
  <2>2. take \in Nat \ {0} /\ p \in Nat /\ start + len <= total /\ p + take <= len
    BY <1>1, <1>2, <1>3, <2>1
  <2>3. PICK q \in Nat, t \in Nat \ {0} : q = p /\ t = take
    BY <2>2
  <2>4. start + len <= total /\ q + t <= len
    BY <2>2, <2>3
  <2>5. start + (q + t) = (start + q) + t /\ (start + q) + t <= total
    BY <2>4, <2>3, <2>1, <1>2
  <2>6. start + q \in 0 .. total - 1 /\ start + q \in 0..total
    <3>1. PICK sum \in Nat : sum = start + q
      <4>1. start + q \in Nat
        BY <2>3, <1>2
      <4> QED
        BY <4>1
    <3>2. sum + t <= total
      BY <2>5, <3>1
    <3>3. sum \in 0 .. total - 1 /\ sum \in 0..total
      BY <3>2, <3>1, <2>3, <2>1, RangeRoom
    <3> QED
      BY <3>1, <3>3
  <2> QED
    BY <2>1, <2>3, <2>5, <2>6
<1>6. CASE lost
  <2>1. lost' /\ take \in 0..n
    BY <1>3, <1>6
  <2> QED
    BY <1>4, <1>5, <1>6, <2>1, StreamAstray
<1>7. CASE ~lost
  <2>1. Pos' = start + (p + take)
    BY <1>1, <1>2, <1>3, <1>7, ServedPos
  <2>2. Pos = start + p
    BY <1>2, <1>7 DEF Pos
  <2> QED
    BY <1>3, <1>4, <1>5, <2>1, <2>2, StreamSome
<1> QED
  BY <1>6, <1>7

(* Behind the last block.                                                  *)
LEMMA AtTheEnd ==
  ASSUME ~lost, pending_seek = None, Exhausted, readahead = <<>>,
         next_block_index \in Nat, next_block_index >= block_count
  PROVE  Pos = total_uncompressed
<1>1. SmallerOf(next_block_index, block_count) = block_count
  BY IndexArrays DEF SmallerOf
<1> QED
  BY <1>1 DEF Pos, StreamPos, total_uncompressed

LEMMA StreamRead ==
  ASSUME Inv, Served, PlainReads, Stands, NEW n \in ReadSizes, Read(n)
  PROVE  Stream!Next /\ Stands'
<1>1. /\ TypeOK /\ CacheCoherent /\ BuffersInOrder
      /\ next_block_index \in Nat /\ readahead \in Seq(Blocks) /\ n \in Nat
      /\ pending_seek \in Nat \cup {None} /\ lost \in BOOLEAN /\ eof \in BOOLEAN
  BY ClientBounds DEF Inv, TypeOK
<1>2. /\ FetchesWhereBuffersEnd' /\ BuffersInOrder' /\ readahead' \in Seq(Blocks)
      /\ next_block_index' \in Nat
  <2>1. Inv'
    BY <1>1, ReadStep
  <2>2. FetchesWhereBuffersEnd'
    BY <1>1, ServedRead DEF PlainReads, Stands
  <2> QED
    BY <2>1, <2>2 DEF Inv, TypeOK
<1>3. ASSUME NEW s \in Nat, NEW memory, FillRefused(s, memory)
      PROVE  s >= block_count
  BY <1>3 DEF FillRefused, PlainReads
<1>4. CASE ReadEmptyBuffer(n)
  <2>1. UNCHANGED <<Pos, faults, lost, pending_seek, eof, readahead, next_block_index,
                    current_pos, current_block>>
    BY <1>4 DEF ReadEmptyBuffer, Pos, StreamPos, Exhausted, CurrentLen, state
  <2>2. Stands'
    BY <1>2, <2>1 DEF Stands, Exhausted, CurrentLen
  <2> QED
    BY <1>4, <2>1, <2>2, StreamNothing DEF ReadEmptyBuffer
<1>5. CASE ReadFromCurrent(n)
  <2>1. current_block \in Blocks /\ current_pos \in 0 .. BlockLen(current_block) - 1
    BY <1>1, <1>5, BlocksNotEmpty DEF ReadFromCurrent, TypeOK, Exhausted, CurrentLen
  <2>2. /\ n # 0 /\ Serve(current_block, current_pos, n) /\ pending_seek' = None
        /\ UNCHANGED <<lost, faults>> /\ pending_seek = None /\ ~Exhausted /\ UNCHANGED eof
    BY <1>5 DEF ReadFromCurrent
  <2>3. StreamPos = uncompressed_offsets[current_block] + current_pos
    BY <2>2 DEF StreamPos
  <2>4. Stands'
    BY <1>2, <2>2 DEF Stands
  <2> QED
    BY <1>2, <2>1, <2>2, <2>3, <2>4, ServedStream
<1>6. CASE ReadAtEof(n)
  <2>1. /\ reply' = Reply("read", n, 0, 0, 0) /\ pending_seek = None /\ Exhausted /\ eof
        /\ UNCHANGED <<Pos, faults, lost, pending_seek, eof, readahead, next_block_index,
                       current_pos, current_block>>
    BY <1>6 DEF ReadAtEof, Pos, StreamPos, Exhausted, CurrentLen, state
  <2>2. Stands'
    BY <1>2, <2>1 DEF Stands, Exhausted, CurrentLen
  <2>3. CASE lost
    <3>1. 0 \in 0..total_uncompressed /\ 0 \in 0..n /\ 0 + 0 = 0 /\ 0 + 0 <= total_uncompressed
      BY <1>1, Totals
    <3>2. lost'
      BY <2>1, <2>3
    <3> QED
      BY <2>1, <2>2, <2>3, <3>1, <3>2, StreamAstray
  <2>4. CASE ~lost
    <3>1. Pos = total_uncompressed
      BY <1>1, <2>1, <2>4, AtTheEnd DEF Stands
    <3> QED
      BY <2>1, <2>2, <3>1, StreamNothing
  <2> QED
    BY <2>3, <2>4
<1>7. CASE ReadFromReadahead(n)
  <2>1. /\ n # 0 /\ Serve(Head(readahead), 0, n) /\ pending_seek' = None
        /\ UNCHANGED <<lost, faults>> /\ pending_seek = None /\ Exhausted /\ readahead # <<>>
        /\ ~eof'
    BY <1>7 DEF ReadFromReadahead
  <2>2. PICK b \in Blocks : b = Head(readahead)
    BY <1>1, <2>1, HeadTailProperties
  <2>3. /\ 0 \in 0 .. BlockLen(b) - 1
        /\ StreamPos = uncompressed_offsets[b] + 0
    <3>1. uncompressed_offsets[b] \in Nat /\ 0 \in 0 .. BlockLen(b) - 1
      BY BlocksNotEmpty, IndexArrays
    <3> QED
      BY <2>1, <2>2, <3>1 DEF StreamPos
  <2>4. Stands'
    BY <1>2, <2>1 DEF Stands
  <2> QED
    BY <1>2, <2>1, <2>2, <2>3, <2>4, ServedStream
<1>8. CASE ReadRefill(n)
  <2>1. PICK s \in Nat : s = next_block_index
    BY <1>1
  <2>2. /\ n # 0 /\ s < block_count /\ Serve(Head(Results(s)), 0, n)
        /\ readahead' = Tail(Results(s)) /\ ~eof'
        /\ pending_seek = None /\ pending_seek' = None /\ Exhausted /\ readahead = <<>>
        /\ UNCHANGED <<lost, faults>>
    BY <1>8, <2>1, IndexArrays DEF ReadRefill, FillRefused, NeedsFill
  <2>3. Serve(s, 0, n) /\ s \in Blocks
    <3>1. current_block' = Head(Results(s))
      BY <2>2 DEF Serve
    <3> QED
      BY <1>1, <2>2, <3>1, BatchStep
  <2>4. /\ 0 \in 0 .. BlockLen(s) - 1
        /\ StreamPos = uncompressed_offsets[s] + 0
    <3>1. uncompressed_offsets[s] \in Nat /\ 0 \in 0 .. BlockLen(s) - 1
      BY <2>3, BlocksNotEmpty, IndexArrays
    <3>2. SmallerOf(s, block_count) = s
      BY <2>2 DEF SmallerOf
    <3> QED
      BY <2>1, <2>2, <3>1, <3>2 DEF StreamPos
  <2>5. Stands'
    BY <1>2, <2>2 DEF Stands
  <2> QED
    BY <1>2, <2>2, <2>3, <2>4, <2>5, ServedStream
<1>9. CASE ReadRefillRefused(n)
  <2>1. /\ reply' = Reply("read", n, 0, 0, 0) /\ pending_seek = None /\ Exhausted
        /\ readahead = <<>> /\ next_block_index >= block_count
        /\ UNCHANGED <<Pos, faults, lost, pending_seek, readahead, next_block_index,
                       current_pos, current_block>>
    BY <1>1, <1>3, <1>9
    DEF ReadRefillRefused, NeedsFill, Pos, StreamPos, Exhausted, CurrentLen
  <2>2. Stands'
    BY <1>2, <2>1 DEF Stands, Exhausted, CurrentLen
  <2>3. CASE lost
    <3>1. 0 \in 0..total_uncompressed /\ 0 \in 0..n /\ 0 + 0 = 0 /\ 0 + 0 <= total_uncompressed
      BY <1>1, Totals
    <3>2. lost'
      BY <2>1, <2>3
    <3> QED
      BY <2>1, <2>2, <2>3, <3>1, <3>2, StreamAstray
  <2>4. CASE ~lost
    <3>1. Pos = total_uncompressed
      BY <1>1, <2>1, <2>4, AtTheEnd
    <3> QED
      BY <2>1, <2>2, <3>1, StreamNothing
  <2> QED
    BY <2>3, <2>4
<1>10. CASE ReadRefillFails(n) \/ ReadSeekHitFails(n) \/ ReadSeekMissFails(n)
  <2>1. /\ n > 0 /\ faults' = faults + 1 /\ reply' = Failure("read", n, 0) /\ lost'
        /\ pending_seek' = None
    BY <1>10 DEF ReadRefillFails, ReadSeekHitFails, ReadSeekMissFails, NeedsFill, SeekHit,
                 SeekMiss, Seeking, Faulty, Sought
  <2> QED
    BY <1>2, <2>1, StreamFails DEF Stands
<1>11. CASE ReadBeyondEnd(n)
  <2>1. /\ n > 0 /\ reply' = Failure("read", n, 0) /\ lost' /\ UNCHANGED faults
        /\ pending_seek' = None /\ pending_seek # None /\ pending_seek > total_uncompressed
    BY <1>11 DEF ReadBeyondEnd, Seeking
  <2>2. Pos = pending_seek
    BY <2>1 DEF Stands, Pos, StreamPos
  <2> QED
    BY <1>2, <2>1, <2>2, StreamFails DEF Stands
<1>12. CASE ReadSeekHit(n) \/ ReadSeekMiss(n)
  <2>1. PICK t : t = Target
    OBVIOUS
  <2>2. /\ t \in Blocks /\ Skip \in 0 .. BlockLen(t) - 1
        /\ n # 0 /\ Serve(t, Skip, n) /\ pending_seek' = None
        /\ uncompressed_offsets[t] + Skip = pending_seek
    BY <1>1, <1>12, <2>1, SoughtHere
  <2>3. UNCHANGED <<lost, faults>> /\ ~eof' /\ pending_seek # None
    BY <1>12 DEF ReadSeekHit, ReadSeekMiss, SeekHit, SeekMiss, Seeking
  <2>4. StreamPos = uncompressed_offsets[t] + Skip
    BY <2>2, <2>3 DEF StreamPos
  <2>5. Stands'
    BY <1>2, <2>2, <2>3 DEF Stands
  <2> QED
    BY <1>2, <2>2, <2>3, <2>4, <2>5, ServedStream
<1>13. CASE ReadSeekRefused(n)
  <2>1. /\ reply' = Reply("read", n, 0, 0, 0) /\ pending_seek # None
        /\ pending_seek <= total_uncompressed /\ pending_seek' = None
        /\ FillRefused(Target, CacheMemory(block_cache))
        /\ current_block' = None /\ current_pos' = 0 /\ readahead' = <<>>
        /\ next_block_index' = Target /\ UNCHANGED <<lost, faults>>
    BY <1>13 DEF ReadSeekRefused, SeekMiss, Seeking, Sought
  <2>2. PICK t \in 0..block_count :
          t = Target /\ (t = block_count <=> pending_seek = total_uncompressed)
    BY <1>1, <2>1, TargetIs
  <2>3. t = block_count /\ t \in Nat
    BY <1>3, <2>1, <2>2, IndexArrays
  <2>4. Exhausted'
    BY <2>1 DEF Exhausted, CurrentLen
  <2>5. ~lost
    BY <2>1 DEF Stands
  <2>6. Pos = total_uncompressed
    BY <2>1, <2>2, <2>3, <2>5 DEF Pos, StreamPos
  <2>7. Pos' = total_uncompressed
    <3>1. SmallerOf(t, block_count) = block_count
      BY <2>3 DEF SmallerOf
    <3> QED
      BY <2>1, <2>2, <2>4, <2>5, <3>1 DEF Pos, StreamPos, total_uncompressed
  <2>8. Stands'
    BY <1>2, <2>1, <2>2, <2>3, <2>4 DEF Stands
  <2> QED
    BY <2>1, <2>6, <2>7, <2>8, StreamNothing
<1> QED
  BY <1>4, <1>5, <1>6, <1>7, <1>8, <1>9, <1>10, <1>11, <1>12, <1>13 DEF Read

(* The other calls of such a client.                                       *)
LEMMA StreamSeek ==
  ASSUME Inv, Stands,
         \/ \E p \in SeekTargets : SeekTo(p)
         \/ \E n \in Shifts : SeekFromEnd(n)
  PROVE  Stream!Next /\ Stands'
<1>1. ASSUME NEW target \in Nat, NoteSeek(target), ~lost'
      PROVE  Pos' = target /\ UNCHANGED faults /\ Stands'
  <2>1. /\ pending_seek' = target /\ target # None /\ current_block' = None
        /\ UNCHANGED faults
    BY <1>1 DEF NoteSeek, None
  <2> QED
    BY <1>1, <2>1 DEF Pos, StreamPos, Stands, FetchesWhereBuffersEnd
<1>2. ASSUME NEW p \in SeekTargets, SeekTo(p)
      PROVE  Stream!Next /\ Stands'
  <2>1. p \in Nat /\ NoteSeek(p) /\ ~lost' /\ reply' = Reply("seek", p, 0, p, p)
    BY <1>2, ClientBounds DEF SeekTo
  <2>2. Pos' = p /\ UNCHANGED faults /\ Stands'
    BY <1>1, <2>1
  <2> QED
    BY <2>1, <2>2 DEF Stream!Next, Stream!Succeed, Stream!SeekTo, Stream!Reply, Reply, Pos
<1>3. ASSUME NEW n \in Shifts, SeekFromEnd(n)
      PROVE  Stream!Next /\ Stands'
  <2> DEFINE t == (total_uncompressed + n) % OffsetSpace
  <2>1. t \in Nat
    BY ClientBounds, Totals
  <2>2. NoteSeek(t) /\ ~lost' /\ reply' = Reply("seek_end", n, 0, t, t)
    BY <1>3 DEF SeekFromEnd
  <2>3. Pos' = t /\ UNCHANGED faults /\ Stands'
    <3> HIDE DEF t
    <3> QED
      BY <1>1, <2>1, <2>2
  <2>4. Stream!SeekFromEnd(n)
    BY <2>2, <2>3 DEF Stream!SeekFromEnd, Stream!Reply, Reply, Pos
  <2> QED
    BY <2>3, <2>4 DEF Stream!Next, Stream!Succeed
<1> QED
  BY <1>2, <1>3

LEMMA StreamRange ==
  ASSUME Inv, Stands, NEW start \in BlockIndices \cap Nat, NEW count \in BlockCounts,
         \/ ReadBlocks(start, count) \/ ReadNoBlocks(start, count)
         \/ ReadBlocksRejected(start, count) \/ ReadBlocksFails(start, count)
  PROVE  Stream!Next /\ Stands'
<1>1. start \in Nat /\ count \in Nat /\ block_count \in Nat /\ lost \in BOOLEAN
  BY ClientBounds, IndexArrays DEF Inv, TypeOK
<1>2. CASE ReadBlocks(start, count)
  <2> DEFINE e == RangeEnd(start, count)
  <2>1. start \in Blocks /\ count > 0 /\ start \in 0..block_count
    BY <1>2, BlocksNotEmpty DEF ReadBlocks
  <2>2. FirstBlockFrom(compressed_offsets[start]) = start
    BY <2>1, FirstBlockAt
  <2>3. /\ start + (e - start) = e /\ e \in 0..block_count
        /\ e = IF start + count < block_count THEN start + count ELSE block_count
        /\ ~(start >= block_count) /\ count # 0
    BY <1>1, <2>1 DEF RangeEnd, SmallerOf, Blocks
  <2>4. /\ reply' = Reply("read_blocks", start, count,
                          uncompressed_offsets[start], uncompressed_offsets[e])
        /\ next_block_index' = e /\ current_block' = None /\ current_pos' = 0
        /\ readahead' = <<>> /\ pending_seek' = None /\ ~lost' /\ ~eof' /\ UNCHANGED faults
    BY <1>2, <2>2, <2>3 DEF ReadBlocks
  <2> HIDE DEF e
  <2>5. Pos' = uncompressed_offsets[e]
    <3>1. Exhausted' /\ SmallerOf(e, block_count) = e
      BY <1>1, <2>3, <2>4 DEF Exhausted, CurrentLen, SmallerOf
    <3> QED
      BY <2>4, <3>1 DEF Pos, StreamPos
  <2>6. Stands'
    BY <2>4 DEF Stands, FetchesWhereBuffersEnd
  <2>7. Stream!ReadRange(start, count)
    BY <2>3, <2>4, <2>5 DEF Stream!ReadRange, Stream!Reply, Reply, Stream!Lost, Pos
  <2> QED
    BY <2>4, <2>6, <2>7 DEF Stream!Next, Stream!Succeed
<1>3. CASE ReadNoBlocks(start, count) \/ ReadBlocksRejected(start, count)
  <2>1. UNCHANGED <<Pos, faults>> /\ Stands'
    BY <1>3 DEF ReadNoBlocks, ReadBlocksRejected, state, Pos, StreamPos, Exhausted, CurrentLen,
                Stands, FetchesWhereBuffersEnd
  <2>2. Stream!ReadRange(start, count)
    <3>1. CASE ReadNoBlocks(start, count)
      <4>1. ~(start >= block_count) /\ count = 0
            /\ reply' = Reply("read_blocks", start, count, 0, 0)
        BY <1>1, <3>1 DEF ReadNoBlocks, Blocks
      <4> QED
        BY <2>1, <4>1 DEF Stream!ReadRange, Stream!Reply, Reply, Stream!Lost, Pos
    <3>2. CASE ReadBlocksRejected(start, count)
      BY <2>1, <3>2
      DEF ReadBlocksRejected, Stream!ReadRange, Stream!Failure, Failure, Stream!Lost, Pos
    <3> QED
      BY <1>3, <3>1, <3>2
  <2> QED
    BY <2>1, <2>2 DEF Stream!Next, Stream!Succeed
<1>4. CASE ReadBlocksFails(start, count)
  <2>1. /\ faults' = faults + 1 /\ reply' = Failure("read_blocks", start, count)
        /\ lost' = (lost \/ pending_seek = None)
        /\ UNCHANGED <<current_block, current_pos, eof, pending_seek, readahead>>
    BY <1>4 DEF ReadBlocksFails, Faulty
  <2>2. CASE pending_seek = None
    <3>1. lost'
      BY <2>1, <2>2
    <3>2. Stands'
      BY <2>1, <2>2, <3>1 DEF Stands, FetchesWhereBuffersEnd
    <3>3. Stream!RangeFails(start, count)
      BY <2>1, <3>1 DEF Stream!RangeFails, Stream!Failure, Stream!Lost, Failure
    <3> QED
      BY <3>2, <3>3 DEF Stream!Next, Stream!Fail
  <2>3. CASE pending_seek # None
    <3>1. ~lost /\ ~lost'
      BY <2>1, <2>3 DEF Stands
    <3>2. Stands' /\ UNCHANGED Pos
      BY <2>1, <2>3, <3>1 DEF Stands, FetchesWhereBuffersEnd, Pos, StreamPos
    <3>3. Stream!RangeFails(start, count)
      BY <2>1, <3>2 DEF Stream!RangeFails, Stream!Failure, Failure, Stream!Lost, Pos
    <3> QED
      BY <3>2, <3>3 DEF Stream!Next, Stream!Fail
  <2> QED
    BY <2>2, <2>3
<1> QED
  BY <1>2, <1>3, <1>4

LEMMA StreamNext ==
  ASSUME PlainCalls, Inv, Served, PlainReads, Stands, [Next]_vars
  PROVE  [Stream!Next]_(Stream!vars) /\ Stands'
<1>1. CASE \E n \in ReadSizes : Read(n)
  BY <1>1, StreamRead
<1>2. CASE \/ \E p \in SeekTargets : SeekTo(p)
           \/ \E n \in Shifts : SeekFromEnd(n) \/ SeekFromCurrent(n)
  BY <1>2, StreamSeek DEF SeekFromCurrent, PlainCalls
<1>3. CASE \E start \in BlockIndices \cap Nat, count \in BlockCounts :
             \/ ReadBlocks(start, count) \/ ReadNoBlocks(start, count)
             \/ ReadBlocksRejected(start, count) \/ ReadBlocksFails(start, count)
  BY <1>3, StreamRange
<1>4. CASE \/ \E k \in ReadaheadSizes : SetReadaheadSize(k)
           \/ \E m \in ReadaheadLimits \ {NoLimit} : SetReadaheadMemoryLimit(m)
           \/ \E c \in FreshCaches : SetBlockCache(c)
           \/ UNCHANGED vars
  <2>1. UNCHANGED <<current_block, current_pos, eof, pending_seek, readahead,
                    next_block_index, lost, reply, faults>>
    BY <1>4 DEF SetReadaheadSize, SetReadaheadMemoryLimit, SetBlockCache, vars, state
  <2>2. Stands'
    BY <2>1 DEF Stands, FetchesWhereBuffersEnd, Exhausted, CurrentLen
  <2>3. UNCHANGED Stream!vars
    BY <2>1 DEF Stream!vars, StreamPos, Exhausted, CurrentLen
  <2> QED
    BY <2>2, <2>3
<1>5. CASE \/ \E i \in BlockIndices :
                SeekToBlock(i) \/ SeekToBlockRejected(i) \/ SeekToBlockFails(i)
           \/ ReadRawBlock \/ ReadRawEnd \/ ReadRawFails
  BY <1>5 DEF PlainCalls, SeekToBlock, SeekToBlockRejected, SeekToBlockFails, ReadRawBlock,
              ReadRawEnd, ReadRawFails
<1> QED
  BY <1>1, <1>2, <1>3, <1>4, <1>5 DEF Next

LEMMA StreamInit ==
  ASSUME Init
  PROVE  Stream!Init /\ Stands
<1>1. Exhausted /\ Pos = 0
  <2>1. SmallerOf(0, block_count) = 0 /\ uncompressed_offsets[0] = 0
    BY IndexArrays DEF SmallerOf
  <2> QED
    BY <2>1 DEF Init, Exhausted, CurrentLen, Pos, StreamPos
<1> QED
  BY <1>1 DEF Init, Stands, FetchesWhereBuffersEnd, Stream!Init, Stream!Reply, Reply, Pos

(* Lazy seeks, batches, a cache and ranges of blocks show nowhere: every   *)
(* call returns what it does on the uncompressed bytes, at the position    *)
(* that the calls before it left, and after a failure nothing is wrong     *)
(* from the next seek on (reader.rs, Read and Seek).                       *)
THEOREM ReaderImplementsByteStream ==
  ASSUME PlainCalls
  PROVE  Spec /\ []PlainReads => ImplementsByteStream
<1>1. Inv /\ Served /\ [Next]_vars => Served'
  BY ServedNext
<1>2. Inv /\ Served /\ PlainReads /\ Stands /\ [Next]_vars
        => [Stream!Next]_(Stream!vars) /\ Stands'
  BY StreamNext
<1>3. Init => Stream!Init /\ Stands /\ Served
  BY StreamInit, ServedInit
<1> QED
  BY <1>1, <1>2, <1>3, Invariance, PTL DEF Spec, ImplementsByteStream, Stream!Spec

(* A reader that seeks at most before it has cached anything, and that     *)
(* sets no memory limit, returns the bytes of the stream in order, with    *)
(* any readahead and any cache: the reader of the command line, and any    *)
(* that is read from the start with its default configuration.             *)
THEOREM SequentialReader ==
  ASSUME Ops \subseteq {"seek", "seek_end", "set"}
  PROVE  Spec /\ []SeeksFirst /\ [](readahead_memory_limit = NoLimit)
           => ImplementsByteStream
<1>1. PlainCalls /\ Ops \cap {"seek_block", "read_blocks"} = {}
  BY DEF PlainCalls
<1>2. Spec /\ []SeeksFirst => []KeepsPlace
  BY <1>1, SequentialKeepsPlace
<1>3. Spec /\ []PlainReads => ImplementsByteStream
  BY <1>1, ReaderImplementsByteStream
<1>4. KeepsPlace /\ readahead_memory_limit = NoLimit => PlainReads
  BY DEF PlainReads
<1> QED
  BY <1>2, <1>3, <1>4, PTL
=============================================================================
