---------------------------- MODULE MCPgzfReader ----------------------------
(***************************************************************************)
(* A file of three blocks, of 2, 1 and 2 bytes, in two groups: members 0   *)
(* and 1 are blocks 0 and 1, member 2 is their IDX, member 3 is block 2    *)
(* and member 4 its IDX.  The cache is BlockCacheOps.                      *)
(***************************************************************************)
EXTENDS PgzfReader

LRU == INSTANCE BlockCacheOps

MCOffsets == <<0, 2, 3, 5>>
MCMembers == <<0, 1, 3, 5>>
MCUncompressed == [b \in 0..3 |-> MCOffsets[b + 1]]
MCCompressed == [b \in 0..3 |-> MCMembers[b + 1]]

-----------------------------------------------------------------------------
(* BlockCacheOps as the reader uses it: keys and contents are blocks.      *)
MCSize(b) == MCOffsets[b + 2] - MCOffsets[b + 1]

Entry(k, b) == [key |-> k, data |-> b, size |-> MCSize(b)]

Arrangements(n) ==
  UNION {{s \in [1..k -> {Entry(key, b) : key \in 0..2, b \in 0..2}] :
            \A i, j \in 1..k : s[i].key = s[j].key => i = j} : k \in 0..n}

CacheStates(n, limit) ==
  {[entries |-> s, capacity |-> n, max_memory_bytes |-> limit,
    current_memory_bytes |-> LRU!Bytes(s)] : s \in Arrangements(n)}

MCContents(c) == [k \in LRU!Cached(c) |-> LRU!EntryOf(c, k).data]

MCMemory(c) == c.current_memory_bytes

InOrder(S) == LRU!SetToSortSeq(S, <)

(* Op(v), with v evaluated once before Op is expanded.                     *)
On(v, Op(_)) == CHOOSE r \in {Op(x) : x \in {v}} : TRUE

MCTouch(c, asked) ==
  LRU!FoldLeft(LAMBDA d, b : On(d, LAMBDA x : LRU!Get(x, b)), c, InOrder(asked))

MCInsert(c, data) ==
  On(data, LAMBDA f :
    LRU!FoldLeft(LAMBDA d, b : On(d, LAMBDA x : LRU!Insert(x, b, f[b], MCSize(f[b]))),
                 c, InOrder(DOMAIN f)))

(* Sets of caches for the runs, with all the states they can be in.        *)
StatesOf(fresh) == UNION {CacheStates(c.capacity, c.max_memory_bytes) : c \in fresh}

MCNoCache == {LRU!New(0)}
MCNoCacheStates == StatesOf(MCNoCache)

MCSmallCaches == {LRU!New(0), LRU!New(1), LRU!New(2)}
MCSmallCacheStates == StatesOf(MCSmallCaches)

MCPairCaches == {LRU!New(0), LRU!New(2)}
MCPairCacheStates == StatesOf(MCPairCaches)

MCLimitedCaches == {LRU!New(1), LRU!WithMemoryLimit(LRU!New(2), 3)}
MCLimitedCacheStates == StatesOf(MCLimitedCaches)

MCIndices == {-1, 0, 3}
MCShifts == {-6, -1}
MCBackward == {-2, -1}
MCUnlimited == {NoLimit}
MCReadaheadLimits == {NoLimit, 3}
=============================================================================
