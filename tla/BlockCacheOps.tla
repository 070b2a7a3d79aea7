--------------------------- MODULE BlockCacheOps ---------------------------
(***************************************************************************)
(* The operations of BlockCache (block_cache.rs) as functions on a cache   *)
(* value.  A cache is a record                                             *)
(*   entries               the LruCache: entries from the least to the     *)
(*                         most recently used                              *)
(*   capacity              number of blocks to retain; 0 disables the cache*)
(*   max_memory_bytes      byte limit, or NoLimit                          *)
(*   current_memory_bytes  the running total the code keeps                *)
(* The contents of a block are abstracted to a name (data) and a length.   *)
(***************************************************************************)
EXTENDS RunningTotals, SequencesExt

NoLimit == -1

(* BlockCache::new and with_memory_limit. *)
New(capacity) ==
  [entries |-> <<>>, capacity |-> capacity,
   max_memory_bytes |-> NoLimit, current_memory_bytes |-> 0]

WithMemoryLimit(c, max_bytes) == [c EXCEPT !.max_memory_bytes = max_bytes]

-----------------------------------------------------------------------------
Keys(c) == {c.entries[i].key : i \in DOMAIN c.entries}

IndexOf(entries, k) == CHOOSE i \in DOMAIN entries : entries[i].key = k

EntryOf(c, k) == c.entries[IndexOf(c.entries, k)]

Without(entries, k) == RemoveAt(entries, IndexOf(entries, k))

Sizes(entries) == [i \in DOMAIN entries |-> entries[i].size]

Bytes(entries) == SumOf(Sizes(entries))

(* lru::LruCache::put: a full cache first drops its least recently used    *)
(* entry, without the cache above it hearing of it.                        *)
Put(entries, e, capacity) ==
  Append(IF Len(entries) < capacity THEN entries ELSE Tail(entries), e)

(* Contents visible to get: none when the cache is disabled. *)
Cached(c) == IF c.capacity = 0 THEN {} ELSE Keys(c)

(* get: a hit makes the entry the most recently used one.  (A faulty       *)
(* variant first: it leaves the order alone.)                              *)
GetInPlace(c, k) == c

Get(c, k) ==
  IF k \in Cached(c)
  THEN [c EXCEPT !.entries = Append(Without(@, k), EntryOf(c, k))]
  ELSE c

(* n calls of evict_one.  (A faulty variant first: it does not account for *)
(* what goes.)                                                             *)
EvictUncounted(c, n) == [c EXCEPT !.entries = SubSeq(@, n + 1, Len(@))]

EvictOldest(c, n) ==
  [c EXCEPT !.entries = SubSeq(@, n + 1, Len(@)),
            !.current_memory_bytes = @ - Bytes(SubSeq(c.entries, 1, n))]

(* "Remove existing entry if updating".  (Faulty variants first: the entry *)
(* stays, or stays but is no longer counted.)                              *)
ForgetNothing(c, k) == c

ForgetSizeOnly(c, k) ==
  IF k \in Keys(c) THEN [c EXCEPT !.current_memory_bytes = @ - EntryOf(c, k).size] ELSE c

Forget(c, k) ==
  IF k \in Keys(c)
  THEN [c EXCEPT !.entries = Without(@, k),
                 !.current_memory_bytes = @ - EntryOf(c, k).size]
  ELSE c

(* "Evict LRU entries to satisfy memory limit": the loop stops at the first *)
(* moment the new block fits, or with nothing left to evict.  (A faulty    *)
(* variant first: one eviction has to do.)                                 *)
EvictOnceForMemory(c, size) ==
  IF c.max_memory_bytes = NoLimit \/ c.current_memory_bytes + size <= c.max_memory_bytes
  THEN c ELSE EvictOldest(c, Min({1, Len(c.entries)}))

EvictForMemory(c, size) ==
  LET Fits(n) == EvictOldest(c, n).current_memory_bytes + size <= c.max_memory_bytes
  IN IF c.max_memory_bytes = NoLimit THEN c
     ELSE EvictOldest(c, Min({n \in 0..Len(c.entries) : Fits(n) \/ n = Len(c.entries)}))

(* "Evict LRU entries to satisfy capacity limit".  (A faulty variant       *)
(* first: room for one block too many.)                                    *)
EvictBelowCapacity(c) ==
  EvictOldest(c, Min({Len(c.entries), Max({0, Len(c.entries) - c.capacity + 2})}))

EvictForCapacity(c) ==
  EvictOldest(c, Max({0, Len(c.entries) - c.capacity + 1}))

Insert(c, k, data, size) ==
  IF c.capacity = 0 THEN c
  ELSE LET roomy == EvictForCapacity(EvictForMemory(Forget(c, k), size))
       IN [roomy EXCEPT
             !.entries = Put(@, [key |-> k, data |-> data, size |-> size], c.capacity),
             !.current_memory_bytes = @ + size]
=============================================================================
