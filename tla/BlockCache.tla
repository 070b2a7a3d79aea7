----------------------------- MODULE BlockCache -----------------------------
(***************************************************************************)
(* BlockCache (block_cache.rs) driven by an arbitrary client: any sequence *)
(* of inserts, lookups and replacements of the whole cache, which is how   *)
(* PgzfReader reconfigures it (reader.rs:141-157).                         *)
(*                                                                         *)
(* latest and last_use are history variables: what was last inserted under *)
(* each key, and when each key was last touched.                           *)
(***************************************************************************)
EXTENDS BlockCacheOps

CONSTANTS
  Blocks,      \* block indices
  Datas,       \* contents a block can be given
  Size,        \* length of each content
  Capacities,  \* capacities a client asks for
  Limits,      \* memory limits a client asks for, NoLimit among them
  MaxOps       \* bound on the number of calls

ASSUME BlockCacheConstants ==
  /\ Size \in [Datas -> Nat \ {0}]
  /\ Capacities \subseteq Nat
  /\ Limits \subseteq Nat \cup {NoLimit}
  /\ MaxOps \in Nat

NoData == "none"

VARIABLES
  cache,     \* the BlockCache
  latest,    \* history: contents last inserted under each key, or NoData
  last_use,  \* history: call number of the last insert or hit of each key
  ops        \* number of calls so far

vars == <<cache, latest, last_use, ops>>

Configured(n, m) == IF m = NoLimit THEN New(n) ELSE WithMemoryLimit(New(n), m)

Init ==
  /\ \E n \in Capacities, m \in Limits : cache = Configured(n, m)
  /\ latest = [k \in Blocks |-> NoData]
  /\ last_use = [k \in Blocks |-> 0]
  /\ ops = 0

Tick == ops < MaxOps /\ ops' = ops + 1

InsertBlock(k, d) ==
  /\ Tick
  /\ cache' = Insert(cache, k, d, Size[d])
  /\ latest' = [latest EXCEPT ![k] = d]
  /\ last_use' = [last_use EXCEPT ![k] = ops']

GetBlock(k) ==
  /\ Tick
  /\ cache' = Get(cache, k)
  /\ last_use' = IF k \in Cached(cache) THEN [last_use EXCEPT ![k] = ops'] ELSE last_use
  /\ UNCHANGED latest

(* with_block_cache, with_block_cache_memory_limit and                     *)
(* set_block_cache_capacity all install a new, empty cache.                *)
Replace(n, m) ==
  /\ Tick
  /\ cache' = Configured(n, m)
  /\ UNCHANGED <<latest, last_use>>

Next ==
  \/ \E k \in Blocks, d \in Datas : InsertBlock(k, d)
  \/ \E k \in Blocks : GetBlock(k)
  \/ \E n \in Capacities, m \in Limits : Replace(n, m)

Spec == Init /\ [][Next]_vars

-----------------------------------------------------------------------------
TypeOK ==
  /\ cache.entries \in Seq([key : Blocks, data : Datas, size : Nat])
  /\ cache.capacity \in Nat
  /\ cache.max_memory_bytes \in Nat \cup {NoLimit}
  /\ cache.current_memory_bytes \in Nat
  /\ latest \in [Blocks -> Datas \cup {NoData}]
  /\ last_use \in [Blocks -> 0..MaxOps]
  /\ ops \in 0..MaxOps

(* memory_usage() is the total length of the blocks the cache holds, after *)
(* any mix of updates, evictions and reconfigurations: the counter that    *)
(* insert and evict_one maintain never drifts.                             *)
MemoryIsExact == cache.current_memory_bytes = Bytes(cache.entries)

(* The cache holds one entry per key and never more than its capacity, and *)
(* goes over its memory limit only for a single block that is by itself    *)
(* too large (insert stops evicting when nothing is left and inserts).     *)
WithinLimits ==
  /\ Len(cache.entries) = Cardinality(Keys(cache))
  /\ Len(cache.entries) <= cache.capacity
  /\ cache.max_memory_bytes # NoLimit /\ Len(cache.entries) > 1
       => cache.current_memory_bytes <= cache.max_memory_bytes

(* Every entry holds what was last inserted under its key: an update never *)
(* leaves an older version behind for get to find.                         *)
HoldsLatest ==
  \A k \in Keys(cache) : /\ EntryOf(cache, k).data = latest[k]
                         /\ EntryOf(cache, k).size = Size[latest[k]]

(* The block a step inserts or hits, and the other blocks it displaces.    *)
(* Only a replacement of the whole cache leaves it empty.                  *)
Touched == {k \in Blocks : last_use[k] = ops}
Victims == IF cache'.entries = <<>> THEN {} ELSE (Keys(cache) \ Keys(cache')) \ Touched'
Survivors == (Keys(cache) \cap Keys(cache')) \ Touched'

(* An insert evicts least recently used entries only: whatever goes was    *)
(* used before everything that stays, lookups counting as uses.            *)
OldestFirst ==
  \A gone \in Victims, kept \in Survivors : last_use[gone] < last_use[kept]

EvictsOldestFirst == [][OldestFirst]_vars

(* An insert evicts only under pressure: had the youngest victim stayed,   *)
(* the cache would be over its capacity or over its memory limit.          *)
UnderPressure ==
  \A gone \in Victims :
    (\A other \in Victims : last_use[other] <= last_use[gone]) =>
      \/ Len(cache'.entries) + 1 > cache.capacity
      \/ /\ cache.max_memory_bytes # NoLimit
         /\ cache'.current_memory_bytes + EntryOf(cache, gone).size > cache.max_memory_bytes

EvictsUnderPressure == [][UnderPressure]_vars
=============================================================================
