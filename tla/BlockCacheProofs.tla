-------------------------- MODULE BlockCacheProofs --------------------------
(***************************************************************************)
(* The block cache: type correctness, the memory accounting, the limits,   *)
(* that an entry holds what was last inserted, and which blocks an insert  *)
(* evicts, for all constants.                                              *)
(*                                                                         *)
(* First what each operation of BlockCacheOps does to the sequence of      *)
(* entries, then the inductive invariant Inv, whose new part is            *)
(* OrderedByUse: the entries are in the order of their last use.           *)
(***************************************************************************)
EXTENDS BlockCache, RunningTotalsProofs, FiniteSetTheorems

Entries == [key : Blocks, data : Datas, size : Nat]

(* There is one entry per key.                                             *)
Distinct(s) == \A i, j \in 1..Len(s) : s[i].key = s[j].key => i = j

-----------------------------------------------------------------------------
(* Sequences of entries.                                                   *)

(* SubSeq from some position on.                                           *)
LEMMA SuffixProperties ==
  ASSUME NEW S, NEW s \in Seq(S), NEW n \in 0..Len(s)
  PROVE  /\ SubSeq(s, n + 1, Len(s)) \in Seq(S)
         /\ Len(SubSeq(s, n + 1, Len(s))) = Len(s) - n
         /\ \A i \in 1 .. Len(s) - n : SubSeq(s, n + 1, Len(s))[i] = s[n + i]
<1>1. Len(s) \in Nat
  BY LenProperties
<1>2. \A i \in n + 1 .. Len(s) : s[i] \in S
  BY <1>1, ElementOfSeq
<1>3. n + 1 \in Int /\ Len(s) \in Int
  BY <1>1
<1>4. /\ SubSeq(s, n + 1, Len(s)) \in Seq(S)
      /\ Len(SubSeq(s, n + 1, Len(s))) = IF n + 1 <= Len(s) THEN Len(s) - (n + 1) + 1 ELSE 0
      /\ \A i \in 1 .. Len(s) - (n + 1) + 1 : SubSeq(s, n + 1, Len(s))[i] = s[(n + 1) + i - 1]
  BY <1>2, <1>3, SubSeqProperties
<1> QED
  BY <1>1, <1>4

(* SubSeq up to some position.                                             *)
LEMMA PrefixProperties ==
  ASSUME NEW S, NEW s \in Seq(S), NEW n \in 0..Len(s)
  PROVE  /\ SubSeq(s, 1, n) \in Seq(S)
         /\ Len(SubSeq(s, 1, n)) = n
         /\ \A i \in 1..n : SubSeq(s, 1, n)[i] = s[i]
<1>1. Len(s) \in Nat
  BY LenProperties
<1>2. \A i \in 1..n : s[i] \in S
  BY <1>1, ElementOfSeq
<1>3. /\ SubSeq(s, 1, n) \in Seq(S)
      /\ Len(SubSeq(s, 1, n)) = IF 1 <= n THEN n - 1 + 1 ELSE 0
      /\ \A i \in 1 .. n - 1 + 1 : SubSeq(s, 1, n)[i] = s[1 + i - 1]
  BY <1>1, <1>2, SubSeqProperties
<1> QED
  BY <1>1, <1>3

(* What remains when one entry is taken out.                               *)
LEMMA RemoveAtProperties ==
  ASSUME NEW S, NEW s \in Seq(S), NEW i \in 1..Len(s)
  PROVE  /\ RemoveAt(s, i) \in Seq(S)
         /\ Len(RemoveAt(s, i)) = Len(s) - 1
         /\ \A j \in 1 .. Len(s) - 1 : j < i => RemoveAt(s, i)[j] = s[j]
         /\ \A j \in 1 .. Len(s) - 1 : j >= i => RemoveAt(s, i)[j] = s[j + 1]
<1> DEFINE t == SubSeq(s, 1, i - 1)
           u == SubSeq(s, i + 1, Len(s))
<1>1. Len(s) \in Nat /\ i - 1 \in 0..Len(s) /\ i \in 0..Len(s)
  BY LenProperties
<1>2. t \in Seq(S) /\ Len(t) = i - 1 /\ \A j \in 1 .. i - 1 : t[j] = s[j]
  BY <1>1, PrefixProperties
<1>3. u \in Seq(S) /\ Len(u) = Len(s) - i /\ \A j \in 1 .. Len(s) - i : u[j] = s[i + j]
  BY <1>1, SuffixProperties
<1>4. RemoveAt(s, i) = t \o u
  BY DEF RemoveAt
<1> HIDE DEF t, u
<1>5. /\ t \o u \in Seq(S)
      /\ Len(t \o u) = Len(t) + Len(u)
      /\ \A j \in 1 .. Len(t) + Len(u) :
           (t \o u)[j] = IF j <= Len(t) THEN t[j] ELSE u[j - Len(t)]
  BY <1>2, <1>3, ConcatProperties
<1>6. Len(t) + Len(u) = Len(s) - 1
  BY <1>1, <1>2, <1>3
<1>7. ASSUME NEW j \in 1 .. Len(s) - 1, j < i PROVE (t \o u)[j] = s[j]
  BY <1>1, <1>2, <1>5, <1>6, <1>7
<1>8. ASSUME NEW j \in 1 .. Len(s) - 1, j >= i PROVE (t \o u)[j] = s[j + 1]
  <2>1. (t \o u)[j] = u[j - (i - 1)]
    BY <1>1, <1>2, <1>5, <1>6, <1>8
  <2>2. j - (i - 1) \in 1 .. Len(s) - i /\ i + (j - (i - 1)) = j + 1
    BY <1>1, <1>8
  <2> QED
    BY <1>3, <2>1, <2>2
<1> QED
  BY <1>4, <1>5, <1>6, <1>7, <1>8

-----------------------------------------------------------------------------
(* The bytes of a sequence of entries.                                     *)

(* The sizes of a sequence of entries.                                     *)
LEMMA SizesProperties ==
  ASSUME NEW s \in Seq(Entries)
  PROVE  /\ Sizes(s) \in Seq(Nat)
         /\ Sizes(s) \in Seq(Int)
         /\ Len(Sizes(s)) = Len(s)
         /\ \A i \in 1..Len(s) : Sizes(s)[i] = s[i].size
<1>1. Len(s) \in Nat /\ DOMAIN s = 1..Len(s)
  BY LenProperties
<1>2. \A i \in 1..Len(s) : s[i].size \in Nat
  <2>1. \A i \in 1..Len(s) : s[i] \in Entries
    BY ElementOfSeq
  <2> QED
    BY <2>1 DEF Entries
<1>3. Sizes(s) = [i \in 1..Len(s) |-> s[i].size]
  BY <1>1 DEF Sizes
<1>4. Sizes(s) \in [1..Len(s) -> Nat]
  BY <1>2, <1>3
<1>5. Sizes(s) \in Seq(Nat)
  BY <1>1, <1>4, SeqDef
<1>6. Sizes(s) \in Seq(Int)
  BY <1>5, SeqMonotonic
<1>7. Len(Sizes(s)) = Len(s)
  BY <1>1, <1>4, <1>5, LenProperties
<1> QED
  BY <1>3, <1>5, <1>6, <1>7

(* Bytes, the sum of the sizes: of any entries, of none, of two parts, of  *)
(* one entry, of one more, and of one less.                                *)
LEMMA BytesIsNat ==
  ASSUME NEW s \in Seq(Entries)
  PROVE  Bytes(s) \in Nat
BY SizesProperties, SumIsNat DEF Bytes

LEMMA BytesOfEmpty ==
  ASSUME NEW s \in Seq(Entries), Len(s) = 0
  PROVE  Bytes(s) = 0
BY SizesProperties, SumIsInt DEF Bytes

LEMMA BytesOfParts ==
  ASSUME NEW s \in Seq(Entries), NEW n \in 0..Len(s)
  PROVE  Bytes(s) = Bytes(SubSeq(s, 1, n)) + Bytes(SubSeq(s, n + 1, Len(s)))
<1> DEFINE t == SubSeq(s, 1, n)
           u == SubSeq(s, n + 1, Len(s))
<1>0. Len(s) \in Nat
  BY LenProperties
<1>1. t \in Seq(Entries) /\ Len(t) = n /\ \A i \in 1..n : t[i] = s[i]
  BY PrefixProperties
<1>2. u \in Seq(Entries) /\ Len(u) = Len(s) - n /\ \A i \in 1 .. Len(s) - n : u[i] = s[n + i]
  BY SuffixProperties
<1> HIDE DEF t, u
<1>3. Len(Sizes(s)) = Len(Sizes(t)) + Len(Sizes(u))
  BY <1>0, <1>1, <1>2, SizesProperties
<1>4. \A k \in 1..Len(Sizes(t)) : Sizes(t)[k] = Sizes(s)[k]
  <2> SUFFICES ASSUME NEW k \in 1..n PROVE Sizes(t)[k] = Sizes(s)[k]
    BY <1>1, SizesProperties
  <2>1. k \in 1..Len(s) /\ k \in 1..Len(t)
    BY <1>0, <1>1
  <2>2. Sizes(t)[k] = t[k].size /\ Sizes(s)[k] = s[k].size
    BY <1>1, <2>1, SizesProperties
  <2> QED
    BY <1>1, <2>2
<1>5. \A k \in 1..Len(Sizes(u)) : Sizes(u)[k] = Sizes(s)[Len(Sizes(t)) + k]
  <2> SUFFICES ASSUME NEW k \in 1 .. Len(s) - n PROVE Sizes(u)[k] = Sizes(s)[n + k]
    BY <1>1, <1>2, SizesProperties
  <2>1. n + k \in 1..Len(s) /\ k \in 1..Len(u)
    BY <1>0, <1>2
  <2>2. Sizes(u)[k] = u[k].size /\ Sizes(s)[n + k] = s[n + k].size
    BY <1>2, <2>1, SizesProperties
  <2> QED
    BY <1>2, <2>2
<1>6. Sizes(s) \in Seq(Int) /\ Sizes(t) \in Seq(Int) /\ Sizes(u) \in Seq(Int)
  BY <1>1, <1>2, SizesProperties
<1>7. SumOf(Sizes(s)) = SumOf(Sizes(t)) + SumOf(Sizes(u))
  BY <1>3, <1>4, <1>5, <1>6, SumOfParts
<1> QED
  BY <1>7 DEF Bytes, t, u

LEMMA BytesOfOne ==
  ASSUME NEW s \in Seq(Entries), Len(s) = 1
  PROVE  Bytes(s) = s[1].size
BY SizesProperties, SumIsInt DEF Bytes

LEMMA BytesAppend ==
  ASSUME NEW s \in Seq(Entries), NEW e \in Entries
  PROVE  Bytes(Append(s, e)) = Bytes(s) + e.size
<1> DEFINE t == Append(s, e)
           n == Len(s)
<1>1. n \in Nat
  BY LenProperties
<1>2. t \in Seq(Entries) /\ Len(t) = n + 1 /\ t[n + 1] = e /\ \A i \in 1..n : t[i] = s[i]
  BY AppendProperties
<1>3. n \in 0..Len(t)
  BY <1>1, <1>2
<1> HIDE DEF t, n
<1>4. /\ SubSeq(t, 1, n) \in Seq(Entries) /\ Len(SubSeq(t, 1, n)) = n
      /\ \A i \in 1..n : SubSeq(t, 1, n)[i] = t[i]
  BY <1>2, <1>3, PrefixProperties
<1>5. SubSeq(t, 1, n) = s
  BY <1>2, <1>4, SeqEqual DEF n
<1> DEFINE u == SubSeq(t, n + 1, Len(t))
<1>6. u \in Seq(Entries) /\ Len(u) = Len(t) - n /\ \A i \in 1 .. Len(t) - n : u[i] = t[n + i]
  BY <1>2, <1>3, SuffixProperties
<1>7. Bytes(t) = Bytes(SubSeq(t, 1, n)) + Bytes(u)
  BY <1>2, <1>3, BytesOfParts
<1> HIDE DEF u
<1>8. Bytes(u) = e.size
  <2>1. Len(t) - n = 1 /\ 1 \in 1 .. Len(t) - n
    BY <1>1, <1>2
  <2>2. Len(u) = 1 /\ u[1] = e
    BY <1>2, <1>6, <2>1
  <2> QED
    BY <1>6, <2>2, BytesOfOne
<1> QED
  BY <1>5, <1>7, <1>8 DEF t

LEMMA BytesWithout ==
  ASSUME NEW s \in Seq(Entries), NEW i \in 1..Len(s)
  PROVE  Bytes(RemoveAt(s, i)) = Bytes(s) - s[i].size
<1> DEFINE t == RemoveAt(s, i)
<1>1. /\ t \in Seq(Entries) /\ Len(t) = Len(s) - 1
      /\ \A j \in 1 .. Len(s) - 1 : j < i => t[j] = s[j]
      /\ \A j \in 1 .. Len(s) - 1 : j >= i => t[j] = s[j + 1]
  BY RemoveAtProperties
<1> HIDE DEF t
<1>2. PICK n \in Nat, p \in Nat : p = n + 1 /\ p = Len(s) /\ n = Len(t)
  BY <1>1, LenProperties
<1>3. /\ Sizes(s) \in Seq(Int) /\ Len(Sizes(s)) = p
      /\ Sizes(t) \in Seq(Int) /\ Len(Sizes(t)) = n
  BY <1>1, <1>2, SizesProperties
<1>4. \A j \in 1..p : Sizes(s)[j] = s[j].size
  BY <1>2, SizesProperties
<1>5. \A j \in 1..n : Sizes(t)[j] = t[j].size
  BY <1>1, <1>2, SizesProperties
<1>6. \A j \in 1..n : j < i => Sizes(t)[j] = Sizes(s)[j]
  BY <1>1, <1>2, <1>4, <1>5
<1>7. \A j \in 1..n : j >= i => Sizes(t)[j] = Sizes(s)[j + 1]
  BY <1>1, <1>2, <1>4, <1>5
<1>8. Sizes(s) \in [1..p -> Int]
  BY <1>2, <1>3, LenProperties
<1>9. TakenOut(n, i, Sizes(s), Sizes(t))
  BY <1>2, <1>6, <1>7, <1>8 DEF TakenOut
<1>10. SumOf(Sizes(t)) = SumOf(Sizes(s)) - Sizes(s)[i]
  BY <1>2, <1>3, <1>9, SumWithout
<1> QED
  BY <1>2, <1>4, <1>10 DEF Bytes, t

-----------------------------------------------------------------------------
(* The operations.                                                         *)

CacheType == [entries : Seq(Entries), capacity : Nat,
              max_memory_bytes : Nat \cup {NoLimit}, current_memory_bytes : Int]

(* The counter is right.                                                   *)
Exact(c) == c.current_memory_bytes = Bytes(c.entries)

(* The fields of a cache.                                                  *)
LEMMA CacheFields ==
  ASSUME NEW c \in CacheType
  PROVE  /\ c.entries \in Seq(Entries) /\ Len(c.entries) \in Nat
         /\ DOMAIN c.entries = 1..Len(c.entries)
         /\ \A i \in 1..Len(c.entries) : c.entries[i] \in Entries
         /\ c.capacity \in Nat
         /\ c.max_memory_bytes \in Nat \cup {NoLimit}
<1>1. c.entries \in Seq(Entries) /\ c.capacity \in Nat /\ c.max_memory_bytes \in Nat \cup {NoLimit}
  BY DEF CacheType
<1>2. Len(c.entries) \in Nat /\ DOMAIN c.entries = 1..Len(c.entries)
  BY <1>1, LenProperties
<1>3. \A i \in 1..Len(c.entries) : c.entries[i] \in Entries
  BY <1>1, ElementOfSeq
<1> QED
  BY <1>1, <1>2, <1>3

(* A cache with other entries and another count of bytes.                  *)
Changed(c, s, m) == [c EXCEPT !.entries = s, !.current_memory_bytes = m]

LEMMA ChangedCache ==
  ASSUME NEW c \in CacheType, NEW s \in Seq(Entries), NEW m \in Int
  PROVE  /\ Changed(c, s, m) \in CacheType
         /\ Changed(c, s, m).entries = s
         /\ Changed(c, s, m).current_memory_bytes = m
         /\ Changed(c, s, m).capacity = c.capacity
         /\ Changed(c, s, m).max_memory_bytes = c.max_memory_bytes
<1> DEFINE e == [c EXCEPT !.entries = s]
           f == [e EXCEPT !.current_memory_bytes = m]
<1>1. /\ e \in CacheType /\ e.entries = s
      /\ e.capacity = c.capacity /\ e.max_memory_bytes = c.max_memory_bytes
  BY DEF CacheType
<1> HIDE DEF e
<1>2. /\ f \in CacheType /\ f.entries = e.entries /\ f.current_memory_bytes = m
      /\ f.capacity = e.capacity /\ f.max_memory_bytes = e.max_memory_bytes
  BY <1>1 DEF CacheType
<1>3. Changed(c, s, m) = f
  BY Zenon DEF Changed, e
<1> HIDE DEF f
<1> QED
  BY <1>1, <1>2, <1>3, Zenon

(* A least element of a set of naturals, and the greater of two integers.  *)
LEMMA MinOf ==
  ASSUME NEW S \in SUBSET Nat, S # {}
  PROVE  Min(S) \in S /\ \A y \in S : Min(S) <= y
BY LeastOf DEF Min

LEMMA MaxWithZero ==
  ASSUME NEW x \in Int
  PROVE  Max({0, x}) = IF x > 0 THEN x ELSE 0
BY DEF Max

(* evict_one, n times, takes the first n entries and keeps the counter     *)
(* right.                                                                  *)
LEMMA EvictOldestProperties ==
  ASSUME NEW c \in CacheType, Exact(c), NEW n \in 0..Len(c.entries)
  PROVE  /\ EvictOldest(c, n) \in CacheType
         /\ Exact(EvictOldest(c, n))
         /\ EvictOldest(c, n).entries = SubSeq(c.entries, n + 1, Len(c.entries))
         /\ Len(EvictOldest(c, n).entries) = Len(c.entries) - n
         /\ EvictOldest(c, n).capacity = c.capacity
         /\ EvictOldest(c, n).max_memory_bytes = c.max_memory_bytes
<1> DEFINE s == c.entries
           t == SubSeq(s, n + 1, Len(s))
           u == SubSeq(s, 1, n)
           d == EvictOldest(c, n)
<1>1. s \in Seq(Entries) /\ Len(s) \in Nat /\ c.current_memory_bytes \in Int
  BY CacheFields DEF CacheType
<1>2. t \in Seq(Entries) /\ Len(t) = Len(s) - n
  BY <1>1, SuffixProperties
<1>3. u \in Seq(Entries)
  BY <1>1, PrefixProperties
<1>4. Bytes(s) \in Nat /\ Bytes(t) \in Nat /\ Bytes(u) \in Nat
  BY <1>1, <1>2, <1>3, BytesIsNat
<1>5. Bytes(s) = Bytes(u) + Bytes(t)
  BY <1>1, BytesOfParts
<1>6. d = [c EXCEPT !.entries = t, !.current_memory_bytes = @ - Bytes(u)]
  BY DEF EvictOldest
<1> HIDE DEF t, u, d
<1>7. /\ d.entries = t /\ d.current_memory_bytes = c.current_memory_bytes - Bytes(u)
      /\ d.capacity = c.capacity /\ d.max_memory_bytes = c.max_memory_bytes
      /\ d \in CacheType
  <2> DEFINE m == c.current_memory_bytes - Bytes(u)
  <2>1. m \in Int
    BY <1>1, <1>4
  <2>2. d = Changed(c, t, m)
    BY <1>6, Zenon DEF Changed
  <2> HIDE DEF m
  <2>3. /\ d.entries = t /\ d.current_memory_bytes = m
        /\ d.capacity = c.capacity /\ d.max_memory_bytes = c.max_memory_bytes
        /\ d \in CacheType
    BY <1>2, <2>1, <2>2, ChangedCache
  <2> QED
    BY <2>3, Zenon DEF m
<1>8. d.current_memory_bytes = Bytes(t)
  BY <1>4, <1>5, <1>7 DEF Exact
<1> QED
  BY <1>2, <1>7, <1>8 DEF Exact, t, d

(* t is s without the entry under k: the others, in the same order.        *)
Rest(s, k, t) ==
  /\ t \in Seq(Entries)
  /\ \A i \in 1..Len(t) : t[i].key # k /\ \E x \in 1..Len(s) : t[i] = s[x]
  /\ \A i, j \in 1..Len(t) : i < j =>
       \E x, y \in 1..Len(s) : x < y /\ t[i] = s[x] /\ t[j] = s[y]
  /\ \A x \in 1..Len(s) : s[x].key # k => \E i \in 1..Len(t) : t[i] = s[x]

(* The position of the entry under a key.                                  *)
LEMMA IndexOfProperties ==
  ASSUME NEW c \in CacheType, NEW k \in Keys(c)
  PROVE  /\ IndexOf(c.entries, k) \in 1..Len(c.entries)
         /\ EntryOf(c, k) = c.entries[IndexOf(c.entries, k)]
         /\ EntryOf(c, k) \in Entries
         /\ EntryOf(c, k).key = k
<1>1. DOMAIN c.entries = 1..Len(c.entries)
  BY CacheFields
<1>2. \E i \in 1..Len(c.entries) : c.entries[i].key = k
  BY <1>1 DEF Keys
<1>3. IndexOf(c.entries, k) \in 1..Len(c.entries) /\ c.entries[IndexOf(c.entries, k)].key = k
  BY <1>1, <1>2 DEF IndexOf
<1> QED
  BY <1>3, CacheFields DEF EntryOf

(* With one entry per key, the entry found under its key is the only one.  *)
LEMMA EntryOfDistinct ==
  ASSUME NEW c \in CacheType, Distinct(c.entries), NEW i \in 1..Len(c.entries)
  PROVE  EntryOf(c, c.entries[i].key) = c.entries[i]
<1>1. c.entries[i].key \in Keys(c)
  BY CacheFields DEF Keys
<1>2. IndexOf(c.entries, c.entries[i].key) = i
  <2>1. /\ IndexOf(c.entries, c.entries[i].key) \in 1..Len(c.entries)
        /\ EntryOf(c, c.entries[i].key) = c.entries[IndexOf(c.entries, c.entries[i].key)]
        /\ EntryOf(c, c.entries[i].key).key = c.entries[i].key
    BY <1>1, IndexOfProperties
  <2> QED
    BY <2>1 DEF Distinct
<1> QED
  BY <1>2 DEF EntryOf

(* The entries without the one under a key.                                *)
LEMMA WithoutProperties ==
  ASSUME NEW c \in CacheType, Distinct(c.entries), NEW k \in Keys(c)
  PROVE  /\ Rest(c.entries, k, Without(c.entries, k))
         /\ Len(Without(c.entries, k)) = Len(c.entries) - 1
         /\ Bytes(Without(c.entries, k)) = Bytes(c.entries) - EntryOf(c, k).size
<1> DEFINE s == c.entries
           at == IndexOf(s, k)
           t == Without(s, k)
<1>1. s \in Seq(Entries) /\ Len(s) \in Nat
  BY CacheFields
<1>2. at \in 1..Len(s) /\ s[at].key = k /\ EntryOf(c, k) = s[at]
  BY IndexOfProperties
<1>3. /\ t \in Seq(Entries) /\ Len(t) = Len(s) - 1
      /\ \A j \in 1 .. Len(s) - 1 : j < at => t[j] = s[j]
      /\ \A j \in 1 .. Len(s) - 1 : j >= at => t[j] = s[j + 1]
  BY <1>1, <1>2, RemoveAtProperties DEF Without
<1>4. Bytes(t) = Bytes(s) - s[at].size
  BY <1>1, <1>2, BytesWithout DEF Without
<1>5. \A i, j \in 1..Len(s) : s[i].key = s[j].key => i = j
  BY DEF Distinct
<1> HIDE DEF s, at, t
<1>6. ASSUME NEW i \in 1..Len(t) PROVE t[i].key # k /\ \E x \in 1..Len(s) : t[i] = s[x]
  <2>1. CASE i < at
    <3>1. i \in 1..Len(s) /\ i # at /\ t[i] = s[i]
      BY <1>1, <1>2, <1>3, <2>1
    <3> QED
      BY <1>2, <1>5, <3>1
  <2>2. CASE i >= at
    <3>1. i + 1 \in 1..Len(s) /\ i + 1 # at /\ t[i] = s[i + 1]
      BY <1>1, <1>2, <1>3, <2>2
    <3> QED
      BY <1>2, <1>5, <3>1
  <2> QED
    BY <1>1, <1>2, <1>3, <2>1, <2>2
<1>7. ASSUME NEW i \in 1..Len(t), NEW j \in 1..Len(t), i < j
      PROVE  \E x, y \in 1..Len(s) : x < y /\ t[i] = s[x] /\ t[j] = s[y]
  <2>1. CASE j < at
    <3>1. i \in 1..Len(s) /\ j \in 1..Len(s) /\ t[i] = s[i] /\ t[j] = s[j]
      BY <1>1, <1>2, <1>3, <1>7, <2>1
    <3> QED
      BY <1>7, <3>1
  <2>2. CASE i < at /\ j >= at
    <3>1. i \in 1..Len(s) /\ j + 1 \in 1..Len(s) /\ i < j + 1 /\ t[i] = s[i] /\ t[j] = s[j + 1]
      BY <1>1, <1>2, <1>3, <1>7, <2>2
    <3> QED
      BY <3>1
  <2>3. CASE i >= at
    <3>1. /\ i + 1 \in 1..Len(s) /\ j + 1 \in 1..Len(s) /\ i + 1 < j + 1
          /\ t[i] = s[i + 1] /\ t[j] = s[j + 1]
      BY <1>1, <1>2, <1>3, <1>7, <2>3
    <3> QED
      BY <3>1
  <2> QED
    BY <1>1, <1>2, <1>3, <1>7, <2>1, <2>2, <2>3
<1>8. ASSUME NEW x \in 1..Len(s), s[x].key # k PROVE \E i \in 1..Len(t) : t[i] = s[x]
  <2>1. x # at
    BY <1>2, <1>8
  <2>2. CASE x < at
    <3>1. x \in 1..Len(t) /\ t[x] = s[x]
      BY <1>1, <1>2, <1>3, <2>2
    <3> QED
      BY <3>1
  <2>3. CASE x > at
    <3>1. x - 1 \in 1..Len(t) /\ t[x - 1] = s[(x - 1) + 1] /\ (x - 1) + 1 = x
      BY <1>1, <1>2, <1>3, <2>3
    <3> QED
      BY <3>1
  <2> QED
    BY <1>1, <1>2, <2>1, <2>2, <2>3
<1>9. Rest(s, k, t)
  BY <1>3, <1>6, <1>7, <1>8 DEF Rest
<1> QED
  BY <1>2, <1>3, <1>4, <1>9 DEF s, t

(* The first step of insert: the entry under the key is gone, and no other.*)
LEMMA ForgetProperties ==
  ASSUME NEW c \in CacheType, Exact(c), Distinct(c.entries), NEW k \in Blocks
  PROVE  /\ Forget(c, k) \in CacheType
         /\ Exact(Forget(c, k))
         /\ Rest(c.entries, k, Forget(c, k).entries)
         /\ Forget(c, k).capacity = c.capacity
         /\ Forget(c, k).max_memory_bytes = c.max_memory_bytes
<1>1. CASE k \in Keys(c)
  <2> DEFINE s == c.entries
             t == Without(s, k)
             d == Forget(c, k)
             size == EntryOf(c, k).size
  <2>1. /\ Rest(s, k, t)
        /\ Bytes(t) = Bytes(s) - size
    BY <1>1, WithoutProperties
  <2>2. EntryOf(c, k) \in Entries
    BY <1>1, IndexOfProperties
  <2>3. s \in Seq(Entries) /\ t \in Seq(Entries) /\ c.current_memory_bytes \in Int
    BY <2>1 DEF Rest, CacheType
  <2>4. size \in Nat
    BY <2>2 DEF Entries
  <2>5. d = [c EXCEPT !.entries = t, !.current_memory_bytes = @ - size]
    BY <1>1 DEF Forget
  <2> HIDE DEF t, d, size
  <2>6. /\ d.entries = t /\ d.current_memory_bytes = c.current_memory_bytes - size
        /\ d.capacity = c.capacity /\ d.max_memory_bytes = c.max_memory_bytes
        /\ d \in CacheType
    <3> DEFINE m == c.current_memory_bytes - size
    <3>1. m \in Int
      BY <2>3, <2>4
    <3>2. d = Changed(c, t, m)
      BY <2>5, Zenon DEF Changed
    <3> HIDE DEF m
    <3>3. /\ d.entries = t /\ d.current_memory_bytes = m
          /\ d.capacity = c.capacity /\ d.max_memory_bytes = c.max_memory_bytes
          /\ d \in CacheType
      <4>1. t \in Seq(Entries)
        BY <2>3
      <4> QED
        BY <3>1, <3>2, <4>1, ChangedCache
    <3> QED
      BY <3>3, Zenon DEF m
  <2>7. Exact(d)
    BY <2>1, <2>6 DEF Exact
  <2> QED
    BY <2>1, <2>6, <2>7 DEF d
<1>2. CASE k \notin Keys(c)
  <2>1. Forget(c, k) = c
    BY <1>2 DEF Forget
  <2>2. \A i \in 1..Len(c.entries) : c.entries[i].key # k
    BY <1>2, CacheFields DEF Keys
  <2>3. Rest(c.entries, k, c.entries)
    BY <2>2, CacheFields DEF Rest
  <2> QED
    BY <2>1, <2>3
<1> QED
  BY <1>1, <1>2

(* d is c after n calls of evict_one.                                      *)
Evicted(c, n, d) ==
  /\ d \in CacheType
  /\ Exact(d)
  /\ d.entries = SubSeq(c.entries, n + 1, Len(c.entries))
  /\ Len(d.entries) = Len(c.entries) - n
  /\ d.capacity = c.capacity
  /\ d.max_memory_bytes = c.max_memory_bytes

LEMMA NothingEvicted ==
  ASSUME NEW c \in CacheType, Exact(c)
  PROVE  Evicted(c, 0, c)
<1>1. SubSeq(c.entries, 1, Len(c.entries)) = c.entries
  BY CacheFields, SubSeqFull
<1> QED
  BY <1>1, CacheFields DEF Evicted

(* One more eviction.                                                      *)
LEMMA EvictedTwice ==
  ASSUME NEW c \in CacheType, NEW n \in 0..Len(c.entries), NEW d, Evicted(c, n, d),
         NEW m \in 0..Len(d.entries), NEW e, Evicted(d, m, e)
  PROVE  n + m \in 0..Len(c.entries) /\ Evicted(c, n + m, e)
<1> DEFINE s == c.entries
           t == SubSeq(s, n + 1, Len(s))
           u == SubSeq(s, (n + m) + 1, Len(s))
<1>1. s \in Seq(Entries) /\ Len(s) \in Nat
  BY CacheFields
<1>2. /\ d.entries = t /\ d.capacity = c.capacity /\ d.max_memory_bytes = c.max_memory_bytes
      /\ Len(t) = Len(s) - n
  BY DEF Evicted
<1>3. /\ e.entries = SubSeq(t, m + 1, Len(t)) /\ Len(e.entries) = Len(t) - m
      /\ e.capacity = c.capacity /\ e.max_memory_bytes = c.max_memory_bytes
      /\ e \in CacheType /\ Exact(e)
  BY <1>2 DEF Evicted
<1>4. /\ n + m \in 0..Len(s) /\ m \in 0..Len(t)
  BY <1>1, <1>2
<1>5. t \in Seq(Entries) /\ \A i \in 1 .. Len(s) - n : t[i] = s[n + i]
  BY <1>1, SuffixProperties
<1>6. /\ u \in Seq(Entries) /\ Len(u) = Len(s) - (n + m)
      /\ \A i \in 1 .. Len(s) - (n + m) : u[i] = s[(n + m) + i]
  BY <1>1, <1>4, SuffixProperties
<1> DEFINE v == SubSeq(t, m + 1, Len(t))
<1>7. /\ v \in Seq(Entries) /\ Len(v) = Len(t) - m
      /\ \A i \in 1 .. Len(t) - m : v[i] = t[m + i]
  <2> HIDE DEF t
  <2> QED
    BY <1>4, <1>5, SuffixProperties
<1> HIDE DEF s, t, u, v
<1>8. Len(v) = Len(u)
  BY <1>1, <1>2, <1>4, <1>6, <1>7
<1>9. ASSUME NEW i \in 1..Len(v) PROVE v[i] = u[i]
  <2>1. i \in 1 .. Len(t) - m /\ m + i \in 1 .. Len(s) - n /\ i \in 1 .. Len(s) - (n + m)
    BY <1>1, <1>2, <1>4, <1>7
  <2>2. v[i] = t[m + i] /\ t[m + i] = s[n + (m + i)] /\ u[i] = s[(n + m) + i]
    BY <1>5, <1>6, <1>7, <2>1
  <2>3. n + (m + i) = (n + m) + i
    OBVIOUS
  <2> QED
    BY <2>2, <2>3
<1>10. v = u
  BY <1>6, <1>7, <1>8, <1>9, SeqEqual
<1>11. e.entries = u
  BY <1>3, <1>10 DEF v
<1>12. Len(e.entries) = Len(s) - (n + m)
  BY <1>6, <1>11
<1> QED
  BY <1>3, <1>4, <1>11, <1>12 DEF Evicted, s, u

LEMMA BytesWithOneMore ==
  ASSUME NEW s \in Seq(Entries), NEW n \in 1..Len(s)
  PROVE  Bytes(SubSeq(s, n, Len(s))) = s[n].size + Bytes(SubSeq(s, n + 1, Len(s)))
<1> DEFINE m == n - 1
           t == SubSeq(s, m + 1, Len(s))
           u == SubSeq(s, n + 1, Len(s))
<1>1. Len(s) \in Nat /\ m \in 0..Len(s) /\ m + 1 = n /\ n \in 0..Len(s)
  BY LenProperties
<1>2. t \in Seq(Entries) /\ Len(t) = Len(s) - m /\ \A i \in 1 .. Len(s) - m : t[i] = s[m + i]
  <2> HIDE DEF m
  <2> QED
    BY <1>1, SuffixProperties
<1>3. u \in Seq(Entries) /\ Len(u) = Len(s) - n /\ \A i \in 1 .. Len(s) - n : u[i] = s[n + i]
  BY <1>1, SuffixProperties
<1>4. SubSeq(s, n, Len(s)) = t
  BY <1>1
<1> HIDE DEF m, t, u
<1>5. 1 \in 0..Len(t) /\ 1 \in 1..Len(t)
  BY <1>1, <1>2
<1> DEFINE v == SubSeq(t, 1, 1)
           w == SubSeq(t, 1 + 1, Len(t))
<1>6. Bytes(t) = Bytes(v) + Bytes(w)
  BY <1>2, <1>5, BytesOfParts
<1>7. v \in Seq(Entries) /\ Len(v) = 1 /\ \A i \in 1..1 : v[i] = t[i]
  BY <1>2, <1>5, PrefixProperties
<1>8. /\ w \in Seq(Entries) /\ Len(w) = Len(t) - 1
      /\ \A i \in 1 .. Len(t) - 1 : w[i] = t[1 + i]
  BY <1>2, <1>5, SuffixProperties
<1> HIDE DEF v, w
<1>9. w = u
  <2>1. Len(w) = Len(u)
    <3>1. Len(w) = (Len(s) - m) - 1 /\ Len(u) = Len(s) - n
      BY <1>2, <1>3, <1>8
    <3> QED
      BY <1>1, <3>1
  <2>2. ASSUME NEW i \in 1..Len(w) PROVE w[i] = u[i]
    <3>1. i \in 1 .. Len(t) - 1 /\ 1 + i \in 1 .. Len(s) - m /\ i \in 1 .. Len(s) - n
      BY <1>1, <1>2, <1>8
    <3>2. w[i] = t[1 + i] /\ t[1 + i] = s[m + (1 + i)] /\ u[i] = s[n + i]
      BY <1>2, <1>3, <1>8, <3>1
    <3>3. m + (1 + i) = n + i
      BY <1>1
    <3> QED
      BY <3>2, <3>3
  <2> QED
    BY <1>3, <1>8, <2>1, <2>2, SeqEqual
<1>10. Bytes(v) = s[n].size
  <2>1. 1 \in 1..1 /\ 1 \in 1 .. Len(s) - m
    BY <1>1
  <2>2. v[1] = s[m + 1]
    BY <1>2, <1>7, <2>1
  <2> QED
    BY <1>1, <1>7, <2>2, BytesOfOne
<1> QED
  BY <1>4, <1>6, <1>9, <1>10 DEF u

(* The memory loop of insert evicts as long as the new block does not fit, *)
(* and not longer.                                                         *)
LEMMA EvictForMemoryProperties ==
  ASSUME NEW c \in CacheType, Exact(c), NEW size \in Nat
  PROVE  \E n \in 0..Len(c.entries) :
           LET d == EvictForMemory(c, size)
           IN  /\ Evicted(c, n, d)
               /\ c.max_memory_bytes # NoLimit /\ n < Len(c.entries)
                    => Bytes(d.entries) + size <= c.max_memory_bytes
               /\ n > 0
                    => /\ c.max_memory_bytes # NoLimit
                       /\ c.entries[n].size + Bytes(d.entries) + size > c.max_memory_bytes
<1> DEFINE s == c.entries
           d == EvictForMemory(c, size)
           max == c.max_memory_bytes
<1>0. s \in Seq(Entries) /\ Len(s) \in Nat /\ \A i \in 1..Len(s) : s[i] \in Entries
  BY CacheFields
<1>1. CASE max = NoLimit
  <2>1. d = c
    BY <1>1 DEF EvictForMemory
  <2>2. Evicted(c, 0, d) /\ 0 \in 0..Len(s)
    BY <1>0, <2>1, NothingEvicted
  <2> QED
    BY <1>1, <2>2
<1>2. CASE max # NoLimit
  <2> DEFINE Fits(n) == EvictOldest(c, n).current_memory_bytes + size <= max
             S == {n \in 0..Len(s) : Fits(n) \/ n = Len(s)}
             n == Min(S)
  <2>1. d = EvictOldest(c, n)
    BY <1>2 DEF EvictForMemory
  <2>2. n \in S /\ \A m \in S : n <= m
    <3>1. S \in SUBSET Nat /\ Len(s) \in S
      BY <1>0
    <3> HIDE DEF S
    <3> QED
      BY <3>1, MinOf
  <2>3. /\ n \in 0..Len(s)
        /\ Fits(n) \/ n = Len(s)
        /\ \A m \in 0..Len(s) : Fits(m) => n <= m
    <3> HIDE DEF n, Fits
    <3> QED
      BY <2>2
  <2>4. \A m \in 0..Len(s) : Evicted(c, m, EvictOldest(c, m))
    BY EvictOldestProperties DEF Evicted
  <2>5. Evicted(c, n, d)
    BY <2>1, <2>3, <2>4
  <2>6. \A m \in 0..Len(s) :
          Fits(m) <=> Bytes(SubSeq(s, m + 1, Len(s))) + size <= max
    <3> SUFFICES ASSUME NEW m \in 0..Len(s)
                 PROVE  EvictOldest(c, m).current_memory_bytes
                          = Bytes(SubSeq(s, m + 1, Len(s)))
      OBVIOUS
    <3> QED
      BY <2>4 DEF Evicted, Exact
  <2>7. d.entries = SubSeq(s, n + 1, Len(s))
    BY <2>5 DEF Evicted
  <2>8. n < Len(s) => Bytes(d.entries) + size <= max
    <3> HIDE DEF n, Fits
    <3> QED
      BY <1>0, <2>3, <2>6, <2>7
  <2>9. ASSUME n > 0 PROVE s[n].size + Bytes(d.entries) + size > max
    <3>1. n - 1 \in 0..Len(s) /\ n - 1 # Len(s) /\ ~ (n <= n - 1) /\ (n - 1) + 1 = n /\ n \in 1..Len(s)
      BY <1>0, <2>3, <2>9
    <3> HIDE DEF n, Fits
    <3>2. ~ Fits(n - 1)
      BY <2>3, <3>1
    <3>3. ~ (Bytes(SubSeq(s, n, Len(s))) + size <= max)
      BY <2>6, <3>1, <3>2
    <3>4. Bytes(SubSeq(s, n, Len(s))) = s[n].size + Bytes(d.entries)
      BY <1>0, <2>7, <3>1, BytesWithOneMore
    <3>5. s[n].size \in Nat /\ Bytes(d.entries) \in Nat /\ max \in Int
      <4>1. s[n] \in Entries
        BY <1>0, <3>1
      <4>2. d.entries \in Seq(Entries)
        BY <2>5, CacheFields DEF Evicted
      <4>3. max \in Int
        BY CacheFields DEF NoLimit
      <4> QED
        BY <4>1, <4>2, <4>3, BytesIsNat DEF Entries
    <3> QED
      BY <3>3, <3>4, <3>5
  <2> HIDE DEF n, d
  <2> QED
    BY <1>2, <2>3, <2>5, <2>8, <2>9 DEF d
<1> QED
  BY <1>1, <1>2

(* The capacity loop of insert makes room for one block, and not for more. *)
LEMMA EvictForCapacityProperties ==
  ASSUME NEW c \in CacheType, Exact(c), c.capacity # 0
  PROVE  \E n \in 0..Len(c.entries) :
           LET d == EvictForCapacity(c)
           IN  /\ Evicted(c, n, d)
               /\ Len(d.entries) < c.capacity
               /\ n > 0 => Len(d.entries) + 1 = c.capacity
<1> DEFINE s == c.entries
           d == EvictForCapacity(c)
           n == Max({0, Len(s) - c.capacity + 1})
<1>1. Len(s) \in Nat /\ c.capacity \in Nat /\ Len(s) - c.capacity + 1 \in Int
  BY CacheFields
<1>2. n = IF Len(s) - c.capacity + 1 > 0 THEN Len(s) - c.capacity + 1 ELSE 0
  BY <1>1, MaxWithZero
<1>3. d = EvictOldest(c, n)
  BY DEF EvictForCapacity
<1> HIDE DEF n, d
<1>4. n \in 0..Len(s)
  BY <1>1, <1>2
<1>5. Evicted(c, n, d)
  BY <1>3, <1>4, EvictOldestProperties DEF Evicted
<1>6. Len(d.entries) = Len(s) - n
  BY <1>5 DEF Evicted
<1>7. Len(d.entries) < c.capacity /\ (n > 0 => Len(d.entries) + 1 = c.capacity)
  BY <1>1, <1>2, <1>6
<1> QED
  BY <1>4, <1>5, <1>7 DEF d

(* F without its first n entries, and e appended.                          *)
Renewed(F, n, e) == Append(SubSeq(F, n + 1, Len(F)), e)

(* d is c after the insert of e: F is what the cache held under other keys,*)
(* n the number of evictions.                                              *)
Inserted(c, e, F, n, d) ==
  /\ Rest(c.entries, e.key, F)
  /\ n \in 0..Len(F)
  /\ d \in CacheType
  /\ Exact(d)
  /\ d.entries = Renewed(F, n, e)
  /\ d.capacity = c.capacity
  /\ d.max_memory_bytes = c.max_memory_bytes
  /\ Len(d.entries) <= d.capacity
  /\ d.max_memory_bytes # NoLimit /\ Len(d.entries) > 1
       => d.current_memory_bytes <= d.max_memory_bytes
  /\ n > 0 => \/ Len(d.entries) + 1 > d.capacity
              \/ /\ d.max_memory_bytes # NoLimit
                 /\ d.current_memory_bytes + F[n].size > d.max_memory_bytes

(* What one insert does, as Inserted says.                                 *)
LEMMA InsertProperties ==
  ASSUME NEW c \in CacheType, Exact(c), Distinct(c.entries), c.capacity # 0,
         NEW k \in Blocks, NEW data \in Datas, NEW size \in Nat
  PROVE  \E F, n : Inserted(c, [key |-> k, data |-> data, size |-> size], F, n,
                            Insert(c, k, data, size))
<1> DEFINE e == [key |-> k, data |-> data, size |-> size]
           f == Forget(c, k)
           F == f.entries
           g == EvictForMemory(f, size)
           h == EvictForCapacity(g)
           d == Insert(c, k, data, size)
<1>1. /\ f \in CacheType /\ Exact(f) /\ Rest(c.entries, k, F)
      /\ f.capacity = c.capacity /\ f.max_memory_bytes = c.max_memory_bytes
  BY ForgetProperties
<1> HIDE DEF f
<1>2. PICK n1 \in 0..Len(F) :
        /\ Evicted(f, n1, g)
        /\ f.max_memory_bytes # NoLimit /\ n1 < Len(F)
             => Bytes(g.entries) + size <= f.max_memory_bytes
        /\ n1 > 0
             => /\ f.max_memory_bytes # NoLimit
                /\ F[n1].size + Bytes(g.entries) + size > f.max_memory_bytes
  BY <1>1, EvictForMemoryProperties
<1> HIDE DEF g
<1>3. /\ g \in CacheType /\ Exact(g) /\ g.capacity = c.capacity
      /\ g.max_memory_bytes = c.max_memory_bytes /\ Len(g.entries) = Len(F) - n1
  BY <1>1, <1>2 DEF Evicted
<1>4. PICK n2 \in 0..Len(g.entries) :
        /\ Evicted(g, n2, h)
        /\ Len(h.entries) < g.capacity
        /\ n2 > 0 => Len(h.entries) + 1 = g.capacity
  BY <1>3, EvictForCapacityProperties
<1> HIDE DEF h
<1> DEFINE n == n1 + n2
<1>5. n \in 0..Len(F) /\ Evicted(f, n, h)
  BY <1>1, <1>2, <1>4, EvictedTwice
<1>6. /\ h \in CacheType /\ Exact(h) /\ h.capacity = c.capacity
      /\ h.max_memory_bytes = c.max_memory_bytes
      /\ h.entries = SubSeq(F, n + 1, Len(F))
      /\ Len(h.entries) = Len(F) - n
  BY <1>1, <1>5 DEF Evicted
<1>7. /\ h.entries \in Seq(Entries) /\ Len(h.entries) \in Nat /\ Len(F) \in Nat
      /\ c.capacity \in Nat /\ c.max_memory_bytes \in Int
  BY <1>1, <1>6, CacheFields DEF NoLimit
<1>8. e \in Entries /\ e.key = k /\ e.size = size
  BY DEF Entries
<1> DEFINE t == Append(h.entries, e)
<1>9. Put(h.entries, e, c.capacity) = t
  BY <1>3, <1>4, <1>6 DEF Put
<1>10. /\ t \in Seq(Entries)
       /\ Len(t) = Len(h.entries) + 1
       /\ Bytes(t) = Bytes(h.entries) + size
  BY <1>7, <1>8, AppendProperties, BytesAppend
<1> DEFINE m == h.current_memory_bytes + size
<1>11. m \in Int /\ m = Bytes(t) /\ Bytes(t) \in Nat
  <2>1. h.current_memory_bytes = Bytes(h.entries) /\ Bytes(h.entries) \in Nat
    BY <1>6, <1>7, BytesIsNat DEF Exact
  <2> QED
    BY <1>10, <2>1, BytesIsNat
<1>12. d = Changed(h, t, m)
  <2>1. d = [h EXCEPT !.entries = Put(@, e, c.capacity), !.current_memory_bytes = @ + size]
    BY Zenon DEF Insert, h, g, f
  <2> HIDE DEF e, t, d
  <2> QED
    BY <1>9, <2>1, Zenon DEF Changed
<1> HIDE DEF d, e, m
<1>13. /\ d \in CacheType /\ d.entries = t /\ d.current_memory_bytes = m
       /\ d.capacity = c.capacity /\ d.max_memory_bytes = c.max_memory_bytes
  <2>1. t \in Seq(Entries)
    BY <1>10
  <2> HIDE DEF t
  <2> QED
    BY <1>6, <1>11, <1>12, <2>1, ChangedCache
<1>14. Exact(d)
  BY <1>11, <1>13 DEF Exact
<1> HIDE DEF t
<1>15. Len(d.entries) <= d.capacity
  <2>1. Len(d.entries) = Len(h.entries) + 1 /\ Len(h.entries) < c.capacity
    BY <1>3, <1>4, <1>10, <1>13
  <2>2. Len(h.entries) \in Nat /\ c.capacity \in Nat /\ d.capacity = c.capacity
    BY <1>7, <1>13
  <2> QED
    BY <2>1, <2>2
<1>16. ASSUME d.max_memory_bytes # NoLimit, Len(d.entries) > 1
       PROVE  d.current_memory_bytes <= d.max_memory_bytes
  <2>1. Len(h.entries) > 0 /\ n < Len(F)
    <3>1. Len(d.entries) = Len(h.entries) + 1 /\ Len(h.entries) = Len(F) - n
      BY <1>6, <1>10, <1>13
    <3>2. Len(h.entries) \in Nat /\ Len(F) \in Nat /\ n \in Nat
      BY <1>5, <1>7
    <3> HIDE DEF n
    <3> QED
      BY <1>16, <3>1, <3>2
  <2>2. n1 < Len(F)
    BY <1>2, <1>4, <1>7, <2>1
  <2>3. Bytes(g.entries) + size <= c.max_memory_bytes
    BY <1>1, <1>2, <1>13, <1>16, <2>2
  <2>4. Bytes(h.entries) <= Bytes(g.entries)
    <3>1. g.entries \in Seq(Entries) /\ n2 \in 0..Len(g.entries)
      BY <1>3, <1>4, CacheFields
    <3>2. h.entries = SubSeq(g.entries, n2 + 1, Len(g.entries))
      BY <1>4 DEF Evicted
    <3>3. Bytes(g.entries) = Bytes(SubSeq(g.entries, 1, n2)) + Bytes(h.entries)
      BY <3>1, <3>2, BytesOfParts
    <3>4. SubSeq(g.entries, 1, n2) \in Seq(Entries)
      BY <3>1, PrefixProperties
    <3>5. Bytes(SubSeq(g.entries, 1, n2)) \in Nat /\ Bytes(h.entries) \in Nat
      BY <1>7, <3>4, BytesIsNat
    <3> QED
      BY <3>3, <3>5
  <2>5. Bytes(g.entries) \in Nat /\ Bytes(h.entries) \in Nat
    BY <1>3, <1>7, CacheFields, BytesIsNat
  <2> QED
    BY <1>7, <1>10, <1>11, <1>13, <2>3, <2>4, <2>5
<1>17. ASSUME n > 0
       PROVE  \/ Len(d.entries) + 1 > d.capacity
              \/ /\ d.max_memory_bytes # NoLimit
                 /\ d.current_memory_bytes + F[n].size > d.max_memory_bytes
  <2>1. CASE n2 > 0
    <3>1. Len(d.entries) + 1 = c.capacity + 1
      BY <1>3, <1>4, <1>7, <1>10, <1>13, <2>1
    <3> QED
      BY <1>7, <1>13, <3>1
  <2>2. CASE n2 = 0
    <3>1. n = n1 /\ n1 > 0 /\ n1 \in 1..Len(F)
      BY <1>2, <1>7, <1>17, <2>2
    <3>2. g.entries = h.entries
      <4>1. h.entries = SubSeq(g.entries, 1, Len(g.entries))
        BY <1>4, <2>2 DEF Evicted
      <4> QED
        BY <1>3, <4>1, CacheFields, SubSeqFull
    <3>3. F[n].size + Bytes(h.entries) + size > c.max_memory_bytes /\ c.max_memory_bytes # NoLimit
      BY <1>1, <1>2, <3>1, <3>2
    <3>4. F[n].size \in Nat
      <4>1. F[n1] \in Entries
        BY <1>1, <3>1, CacheFields
      <4> QED
        BY <3>1, <4>1 DEF Entries
    <3>5. Bytes(h.entries) \in Nat
      BY <1>7, BytesIsNat
    <3> HIDE DEF n
    <3> QED
      BY <1>7, <1>10, <1>11, <1>13, <3>3, <3>4, <3>5
  <2> QED
    BY <1>4, <1>7, <2>1, <2>2
<1>18. d.entries = Renewed(F, n, e)
  BY <1>6, <1>13 DEF t, Renewed
<1> HIDE DEF n, F
<1>19. Inserted(c, e, F, n, d)
  BY <1>1, <1>5, <1>8, <1>13, <1>14, <1>15, <1>16, <1>17, <1>18 DEF Inserted
<1> QED
  BY <1>19 DEF d, e

(* A lookup that hits moves the entry to the end and changes nothing else. *)
LEMMA GetProperties ==
  ASSUME NEW c \in CacheType, Exact(c), Distinct(c.entries), NEW k \in Cached(c)
  PROVE  /\ Get(c, k) \in CacheType
         /\ Exact(Get(c, k))
         /\ \E F : /\ Rest(c.entries, k, F)
                   /\ Get(c, k).entries = Renewed(F, 0, EntryOf(c, k))
         /\ Len(Get(c, k).entries) = Len(c.entries)
         /\ Get(c, k).capacity = c.capacity
         /\ Get(c, k).max_memory_bytes = c.max_memory_bytes
         /\ Get(c, k).current_memory_bytes = c.current_memory_bytes
<1> DEFINE s == c.entries
           F == Without(s, k)
           e == EntryOf(c, k)
           d == Get(c, k)
<1>1. k \in Keys(c)
  BY DEF Cached
<1>2. e \in Entries
  BY <1>1, IndexOfProperties
<1>3. s \in Seq(Entries) /\ Len(s) \in Nat
  BY CacheFields
<1>4. Rest(s, k, F) /\ Len(F) = Len(s) - 1 /\ Bytes(F) = Bytes(s) - e.size
  BY <1>1, WithoutProperties
<1>5. F \in Seq(Entries)
  BY <1>4 DEF Rest
<1> DEFINE t == Append(F, e)
<1>6. d = [c EXCEPT !.entries = t]
  BY DEF Get
<1> HIDE DEF F, e, d
<1>7. t \in Seq(Entries) /\ Len(t) = Len(F) + 1 /\ Bytes(t) = Bytes(F) + e.size
  BY <1>2, <1>5, AppendProperties, BytesAppend
<1>8. Bytes(t) = Bytes(s) /\ Len(t) = Len(s)
  <2>1. e.size \in Nat /\ Bytes(s) \in Nat /\ Bytes(F) \in Nat
    BY <1>2, <1>3, <1>5, BytesIsNat DEF Entries
  <2> QED
    BY <1>3, <1>4, <1>7, <2>1
<1> HIDE DEF t
<1>9. /\ d \in CacheType /\ d.entries = t /\ d.capacity = c.capacity
      /\ d.max_memory_bytes = c.max_memory_bytes
      /\ d.current_memory_bytes = c.current_memory_bytes
  BY <1>6, <1>7 DEF CacheType
<1>10. Exact(d)
  BY <1>8, <1>9 DEF Exact
<1>11. t = Renewed(F, 0, e)
  <2>1. SubSeq(F, 0 + 1, Len(F)) = F
    BY <1>5, SubSeqFull
  <2> QED
    BY <2>1 DEF t, Renewed
<1> QED
  BY <1>4, <1>8, <1>9, <1>10, <1>11 DEF d, e

(* What the entries of a cache are once one has been appended.             *)
LEMMA AppendedProperties ==
  ASSUME NEW s, NEW k, NEW F, Rest(s, k, F), NEW n \in 0..Len(F), NEW e \in Entries
  PROVE  /\ Renewed(F, n, e) \in Seq(Entries)
         /\ Len(F) \in Nat
         /\ Len(Renewed(F, n, e)) = Len(F) - n + 1
         /\ Renewed(F, n, e)[Len(Renewed(F, n, e))] = e
         /\ \A i \in 1 .. Len(F) - n : Renewed(F, n, e)[i] = F[n + i]
<1> DEFINE u == SubSeq(F, n + 1, Len(F))
           t == Append(u, e)
<1>1. F \in Seq(Entries) /\ Len(F) \in Nat
  BY LenProperties DEF Rest
<1>2. u \in Seq(Entries) /\ Len(u) = Len(F) - n /\ \A i \in 1 .. Len(F) - n : u[i] = F[n + i]
  BY <1>1, SuffixProperties
<1> HIDE DEF u
<1>3. t \in Seq(Entries) /\ Len(t) = Len(u) + 1 /\ t[Len(u) + 1] = e /\ \A i \in 1..Len(u) : t[i] = u[i]
  BY <1>2, AppendProperties
<1> HIDE DEF t
<1>4. \A i \in 1 .. Len(F) - n : t[i] = F[n + i]
  BY <1>2, <1>3
<1>5. Len(t) = Len(F) - n + 1 /\ t[Len(t)] = e
  BY <1>1, <1>2, <1>3
<1>6. t = Renewed(F, n, e)
  BY DEF t, u, Renewed
<1> QED
  BY <1>1, <1>3, <1>4, <1>5, <1>6

(* Entries in the order of their last use.                                 *)
InOrder(s, use) == \A i, j \in 1..Len(s) : i < j => use[s[i].key] < use[s[j].key]

(* Entries in the order of their last use have different keys.             *)
LEMMA OrderIsDistinct ==
  ASSUME NEW s \in Seq(Entries), NEW use \in [Blocks -> Nat], InOrder(s, use)
  PROVE  Distinct(s)
<1> SUFFICES ASSUME NEW i \in 1..Len(s), NEW j \in 1..Len(s), s[i].key = s[j].key, i < j
             PROVE  FALSE
  BY LenProperties DEF Distinct
<1>1. use[s[i].key] < use[s[j].key]
  BY DEF InOrder
<1>2. s[i] \in Entries
  BY ElementOfSeq
<1>3. use[s[i].key] \in Nat
  BY <1>2 DEF Entries
<1> QED
  BY <1>1, <1>3

(* An entry that is appended after its key was used keeps the order.       *)
LEMMA OrderKept ==
  ASSUME NEW s \in Seq(Entries), NEW use \in [Blocks -> Nat], InOrder(s, use),
         NEW k \in Blocks, NEW F, Rest(s, k, F), NEW n \in 0..Len(F),
         NEW e \in Entries, e.key = k,
         NEW now \in Nat, \A b \in Blocks : use[b] < now
  PROVE  InOrder(Renewed(F, n, e), [use EXCEPT ![k] = now])
<1> DEFINE t == Renewed(F, n, e)
           use2 == [use EXCEPT ![k] = now]
<1>1. /\ Len(F) \in Nat /\ Len(t) = Len(F) - n + 1 /\ t[Len(t)] = e
      /\ \A i \in 1 .. Len(F) - n : t[i] = F[n + i]
  BY AppendedProperties
<1>2. use2[k] = now /\ \A b \in Blocks : b # k => use2[b] = use[b]
  OBVIOUS
<1>3. F \in Seq(Entries)
  BY DEF Rest
<1> HIDE DEF t, use2
<1>4. ASSUME NEW i \in 1..Len(t), NEW j \in 1..Len(t), i < j
      PROVE  use2[t[i].key] < use2[t[j].key]
  <2>1. n + i \in 1..Len(F) /\ i \in 1 .. Len(F) - n
    BY <1>1, <1>4
  <2>2. t[i] = F[n + i]
    BY <1>1, <2>1
  <2>3. F[n + i].key # k /\ F[n + i] \in Entries
    BY <1>3, <2>1, ElementOfSeq DEF Rest
  <2>4. t[i].key \in Blocks /\ use2[t[i].key] = use[t[i].key]
    BY <1>2, <2>2, <2>3 DEF Entries
  <2>5. CASE j = Len(t)
    <3>1. use2[t[j].key] = now
      BY <1>1, <1>2, <2>5
    <3> QED
      BY <2>4, <3>1
  <2>6. CASE j # Len(t)
    <3>1. n + j \in 1..Len(F) /\ j \in 1 .. Len(F) - n /\ n + i < n + j
      BY <1>1, <1>4, <2>6
    <3>2. t[j] = F[n + j]
      BY <1>1, <3>1
    <3>3. F[n + j].key # k /\ F[n + j] \in Entries
      BY <1>3, <3>1, ElementOfSeq DEF Rest
    <3>4. use2[t[j].key] = use[t[j].key]
      BY <1>2, <3>2, <3>3 DEF Entries
    <3>5. PICK x \in 1..Len(s), y \in 1..Len(s) : x < y /\ F[n + i] = s[x] /\ F[n + j] = s[y]
      BY <2>1, <3>1 DEF Rest
    <3>6. use[s[x].key] < use[s[y].key]
      BY <3>5 DEF InOrder
    <3> QED
      BY <2>2, <2>4, <3>2, <3>4, <3>5, <3>6
  <2> QED
    BY <2>5, <2>6
<1> QED
  BY <1>4 DEF InOrder, t, use2

(* Every entry holds what was last inserted under its key.                 *)
Latest(s, last) ==
  \A i \in 1..Len(s) : s[i].data = last[s[i].key] /\ s[i].size = Size[last[s[i].key]]

(* One more entry, with what was just inserted, keeps that.                *)
LEMMA LatestKept ==
  ASSUME NEW s \in Seq(Entries), NEW last \in [Blocks -> Datas \cup {NoData}], Latest(s, last),
         NEW k \in Blocks, NEW F, Rest(s, k, F), NEW n \in 0..Len(F),
         NEW e \in Entries, e.key = k, NEW last2 \in [Blocks -> Datas \cup {NoData}],
         e.data = last2[k] /\ e.size = Size[last2[k]],
         \A b \in Blocks : b # k => last2[b] = last[b]
  PROVE  Latest(Renewed(F, n, e), last2)
<1> DEFINE t == Renewed(F, n, e)
<1>1. /\ Len(F) \in Nat /\ Len(t) = Len(F) - n + 1 /\ t[Len(t)] = e
      /\ \A i \in 1 .. Len(F) - n : t[i] = F[n + i]
  BY AppendedProperties
<1> HIDE DEF t
<1>2. ASSUME NEW i \in 1..Len(t)
      PROVE  t[i].data = last2[t[i].key] /\ t[i].size = Size[last2[t[i].key]]
  <2>1. CASE i = Len(t)
    BY <1>1, <2>1
  <2>2. CASE i # Len(t)
    <3>1. n + i \in 1..Len(F) /\ i \in 1 .. Len(F) - n
      BY <1>1, <2>2
    <3>2. t[i] = F[n + i]
      BY <1>1, <3>1
    <3>3. PICK x \in 1..Len(s) : F[n + i].key # k /\ F[n + i] = s[x]
      BY <3>1 DEF Rest
    <3>4. s[x] \in Entries
      BY ElementOfSeq
    <3>5. s[x].key \in Blocks
      BY <3>4 DEF Entries
    <3>6. last2[s[x].key] = last[s[x].key]
      BY <3>3, <3>5
    <3>7. s[x].data = last[s[x].key] /\ s[x].size = Size[last[s[x].key]]
      BY DEF Latest
    <3> QED
      BY <3>2, <3>3, <3>6, <3>7
  <2> QED
    BY <2>1, <2>2
<1> QED
  BY <1>2 DEF Latest, t

-----------------------------------------------------------------------------
(* The invariant.                                                          *)

OrderedByUse ==
  /\ InOrder(cache.entries, last_use)
  /\ \A k \in Blocks : last_use[k] <= ops

CacheOK ==
  /\ cache \in CacheType
  /\ Exact(cache)
  /\ Len(cache.entries) <= cache.capacity
  /\ cache.max_memory_bytes # NoLimit /\ Len(cache.entries) > 1
       => cache.current_memory_bytes <= cache.max_memory_bytes

HistoryOK ==
  /\ latest \in [Blocks -> Datas \cup {NoData}]
  /\ last_use \in [Blocks -> 0..MaxOps]
  /\ ops \in 0..MaxOps
  /\ Latest(cache.entries, latest)

Inv == CacheOK /\ OrderedByUse /\ HistoryOK

(* A cache ordered by use has one entry per key.                           *)
LEMMA CacheIsDistinct ==
  ASSUME Inv
  PROVE  Distinct(cache.entries) /\ last_use \in [Blocks -> Nat]
<1>1. last_use \in [Blocks -> Nat]
  BY BlockCacheConstants DEF Inv, HistoryOK
<1>2. cache.entries \in Seq(Entries)
  BY CacheFields DEF Inv, CacheOK
<1> QED
  BY <1>1, <1>2, OrderIsDistinct DEF Inv, OrderedByUse

(* A cache that the setters make is empty, and so is its count.            *)
LEMMA ConfiguredProperties ==
  ASSUME NEW n \in Nat, NEW m \in Nat \cup {NoLimit}
  PROVE  /\ Configured(n, m) \in CacheType
         /\ Exact(Configured(n, m))
         /\ Configured(n, m).entries = <<>>
         /\ Configured(n, m).capacity = n
         /\ Len(Configured(n, m).entries) = 0
<1> DEFINE c == Configured(n, m)
<1>1. /\ c \in CacheType /\ c.entries = <<>> /\ c.current_memory_bytes = 0 /\ c.capacity = n
  <2>1. /\ New(n) \in CacheType /\ New(n).entries = <<>>
        /\ New(n).current_memory_bytes = 0 /\ New(n).capacity = n
    <3>1. <<>> \in Seq(Entries)
      BY EmptySeq
    <3> QED
      BY <3>1 DEF New, CacheType
  <2>2. CASE m = NoLimit
    BY <2>1, <2>2 DEF Configured
  <2>3. CASE m # NoLimit
    <3> DEFINE d == New(n)
    <3>1. c = [d EXCEPT !.max_memory_bytes = m]
      BY <2>3 DEF Configured, WithMemoryLimit
    <3> HIDE DEF c, d
    <3>2. d \in CacheType /\ d.entries = <<>> /\ d.current_memory_bytes = 0 /\ d.capacity = n
      BY <2>1 DEF d
    <3> QED
      BY <3>1, <3>2 DEF CacheType
  <2> QED
    BY <2>2, <2>3
<1> HIDE DEF c
<1>2. <<>> \in Seq(Entries) /\ Len(<<>>) = 0
  BY EmptySeq
<1>3. Exact(c)
  BY <1>1, <1>2, BytesOfEmpty DEF Exact
<1> QED
  BY <1>1, <1>2, <1>3 DEF c

(* What holds of a new cache, whatever happened before.                    *)
LEMMA NewCacheOK ==
  ASSUME NEW c \in CacheType, Exact(c), Len(c.entries) = 0, NEW use, NEW last
  PROVE  /\ Len(c.entries) <= c.capacity
         /\ c.max_memory_bytes # NoLimit /\ Len(c.entries) > 1
              => c.current_memory_bytes <= c.max_memory_bytes
         /\ InOrder(c.entries, use)
         /\ Latest(c.entries, last)
BY CacheFields DEF InOrder, Latest

(* The invariant holds at first, and every call keeps it.                  *)
LEMMA InitInv == Init => Inv
<1> SUFFICES ASSUME Init PROVE Inv
  OBVIOUS
<1>1. PICK n \in Capacities, m \in Limits : cache = Configured(n, m)
  BY DEF Init
<1>2. n \in Nat /\ m \in Nat \cup {NoLimit} /\ MaxOps \in Nat
  BY BlockCacheConstants
<1>3. cache \in CacheType /\ Exact(cache) /\ Len(cache.entries) = 0
  BY <1>1, <1>2, ConfiguredProperties
<1>4. CacheOK
  BY <1>3, NewCacheOK DEF CacheOK
<1>5. /\ latest \in [Blocks -> Datas \cup {NoData}]
      /\ last_use \in [Blocks -> 0..MaxOps]
      /\ ops \in 0..MaxOps
      /\ \A k \in Blocks : last_use[k] <= ops
  BY <1>2 DEF Init
<1>6. HistoryOK /\ OrderedByUse
  BY <1>3, <1>5, NewCacheOK DEF HistoryOK, OrderedByUse
<1> QED
  BY <1>4, <1>6 DEF Inv

LEMMA ReplaceInv ==
  ASSUME Inv, NEW n \in Capacities, NEW m \in Limits, Replace(n, m)
  PROVE  Inv'
<1>2. n \in Nat /\ m \in Nat \cup {NoLimit} /\ MaxOps \in Nat
  BY BlockCacheConstants
<1>3. cache' \in CacheType /\ Exact(cache') /\ Len(cache'.entries) = 0
  BY <1>2, ConfiguredProperties DEF Replace
<1>4. CacheOK'
  BY <1>3, NewCacheOK DEF CacheOK
<1>5. /\ latest' \in [Blocks -> Datas \cup {NoData}]
      /\ last_use' \in [Blocks -> 0..MaxOps]
      /\ ops' \in 0..MaxOps
      /\ \A k \in Blocks : last_use'[k] <= ops'
  <2>1. ops' = ops + 1 /\ ops < MaxOps /\ last_use' = last_use /\ latest' = latest
    BY DEF Replace, Tick
  <2>2. \A k \in Blocks : last_use[k] \in 0..MaxOps /\ last_use[k] <= ops
    BY DEF Inv, HistoryOK, OrderedByUse
  <2> QED
    BY <1>2, <2>1, <2>2 DEF Inv, HistoryOK
<1>6. HistoryOK' /\ OrderedByUse'
  BY <1>3, <1>5, NewCacheOK DEF HistoryOK, OrderedByUse
<1> QED
  BY <1>4, <1>6 DEF Inv

(* What every call that counts as a use of k does to the histories.        *)
LEMMA UseProperties ==
  ASSUME Inv, NEW k \in Blocks, Tick
  PROVE  /\ ops' = ops + 1 /\ ops' \in 0..MaxOps /\ ops' \in Nat
         /\ last_use \in [Blocks -> Nat]
         /\ \A b \in Blocks : last_use[b] < ops'
         /\ [last_use EXCEPT ![k] = ops'] \in [Blocks -> 0..MaxOps]
         /\ \A b \in Blocks : [last_use EXCEPT ![k] = ops'][b] <= ops'
<1>1. ops \in 0..MaxOps /\ ops < MaxOps /\ ops' = ops + 1 /\ MaxOps \in Nat
  BY BlockCacheConstants DEF Inv, HistoryOK, Tick
<1>2. last_use \in [Blocks -> 0..MaxOps] /\ \A b \in Blocks : last_use[b] <= ops
  BY DEF Inv, HistoryOK, OrderedByUse
<1>3. ops' \in 0..MaxOps /\ ops' \in Nat
  BY <1>1
<1>4. \A b \in Blocks : last_use[b] \in Nat /\ last_use[b] < ops'
  BY <1>1, <1>2
<1>5. last_use \in [Blocks -> Nat]
  BY <1>2, <1>4
<1>6. [last_use EXCEPT ![k] = ops'] \in [Blocks -> 0..MaxOps]
  BY <1>2, <1>3
<1>7. \A b \in Blocks : [last_use EXCEPT ![k] = ops'][b] <= ops'
  BY <1>2, <1>3, <1>4
<1> QED
  BY <1>1, <1>3, <1>4, <1>5, <1>6, <1>7

LEMMA DisabledIsEmpty ==
  ASSUME CacheOK, cache.capacity = 0
  PROVE  Len(cache.entries) = 0
BY CacheFields DEF CacheOK

LEMMA InsertBlockInv ==
  ASSUME Inv, NEW k \in Blocks, NEW d \in Datas, InsertBlock(k, d)
  PROVE  Inv'
<1>1. /\ Tick
      /\ cache' = Insert(cache, k, d, Size[d])
      /\ latest' = [latest EXCEPT ![k] = d]
      /\ last_use' = [last_use EXCEPT ![k] = ops']
  BY DEF InsertBlock
<1>2. /\ ops' \in 0..MaxOps /\ ops' \in Nat
      /\ last_use \in [Blocks -> Nat]
      /\ \A b \in Blocks : last_use[b] < ops'
      /\ last_use' \in [Blocks -> 0..MaxOps]
      /\ \A b \in Blocks : last_use'[b] <= ops'
  BY <1>1, UseProperties
<1>3. /\ latest \in [Blocks -> Datas \cup {NoData}]
      /\ latest' \in [Blocks -> Datas \cup {NoData}]
      /\ latest'[k] = d /\ \A b \in Blocks : b # k => latest'[b] = latest[b]
  BY <1>1 DEF Inv, HistoryOK
<1>4. /\ cache \in CacheType /\ Exact(cache) /\ Distinct(cache.entries)
      /\ cache.entries \in Seq(Entries)
  BY CacheIsDistinct, CacheFields DEF Inv, CacheOK
<1>5. Size[d] \in Nat
  BY BlockCacheConstants
<1>6. CASE cache.capacity = 0
  <2>1. cache' = cache /\ Len(cache.entries) = 0
    BY <1>1, <1>6, DisabledIsEmpty DEF Insert, Inv
  <2>2. CacheOK'
    BY <1>4, <2>1, NewCacheOK DEF CacheOK
  <2>3. InOrder(cache.entries, last_use') /\ Latest(cache.entries, latest')
    BY <1>4, <2>1, NewCacheOK
  <2> QED
    BY <1>2, <1>3, <2>1, <2>2, <2>3 DEF Inv, OrderedByUse, HistoryOK
<1>7. CASE cache.capacity # 0
  <2> DEFINE e == [key |-> k, data |-> d, size |-> Size[d]]
  <2>1. PICK F, n : Inserted(cache, e, F, n, cache')
    BY <1>1, <1>4, <1>5, <1>7, InsertProperties
  <2>2. e \in Entries /\ e.key = k /\ e.data = d /\ e.size = Size[d]
    BY <1>5 DEF Entries
  <2> HIDE DEF e
  <2>3. /\ Rest(cache.entries, k, F) /\ n \in 0..Len(F)
        /\ cache'.entries = Renewed(F, n, e)
    BY <2>1, <2>2 DEF Inserted
  <2>4. CacheOK'
    BY <2>1 DEF Inserted, CacheOK
  <2>5. InOrder(Renewed(F, n, e), last_use')
    <3>1. InOrder(cache.entries, last_use)
      BY DEF Inv, OrderedByUse
    <3> QED
      BY <1>1, <1>2, <1>4, <2>2, <2>3, <3>1, OrderKept
  <2>6. Latest(Renewed(F, n, e), latest')
    <3>1. Latest(cache.entries, latest)
      BY DEF Inv, HistoryOK
    <3>2. e.data = latest'[k] /\ e.size = Size[latest'[k]]
      BY <1>3, <2>2
    <3> QED
      BY <1>3, <1>4, <2>2, <2>3, <3>1, <3>2, LatestKept
  <2> QED
    BY <1>2, <1>3, <2>3, <2>4, <2>5, <2>6 DEF Inv, OrderedByUse, HistoryOK
<1> QED
  BY <1>6, <1>7

LEMMA GetBlockInv ==
  ASSUME Inv, NEW k \in Blocks, GetBlock(k)
  PROVE  Inv'
<1>1. /\ Tick /\ cache' = Get(cache, k) /\ latest' = latest
      /\ last_use' = IF k \in Cached(cache) THEN [last_use EXCEPT ![k] = ops'] ELSE last_use
  BY DEF GetBlock
<1>2. /\ ops' \in 0..MaxOps /\ ops' \in Nat
      /\ last_use \in [Blocks -> Nat]
      /\ \A b \in Blocks : last_use[b] < ops'
      /\ [last_use EXCEPT ![k] = ops'] \in [Blocks -> 0..MaxOps]
      /\ \A b \in Blocks : [last_use EXCEPT ![k] = ops'][b] <= ops'
  BY <1>1, UseProperties
<1>3. /\ latest \in [Blocks -> Datas \cup {NoData}]
      /\ last_use \in [Blocks -> 0..MaxOps]
      /\ InOrder(cache.entries, last_use) /\ Latest(cache.entries, latest)
  BY DEF Inv, HistoryOK, OrderedByUse
<1>4. /\ cache \in CacheType /\ Exact(cache) /\ Distinct(cache.entries)
      /\ cache.entries \in Seq(Entries)
  BY CacheIsDistinct, CacheFields DEF Inv, CacheOK
<1>5. CASE k \notin Cached(cache)
  <2>1. cache' = cache /\ last_use' = last_use
    BY <1>1, <1>5 DEF Get
  <2>2. \A b \in Blocks : last_use[b] <= ops'
    BY <1>2
  <2>3. CacheOK'
    BY <2>1 DEF Inv, CacheOK
  <2> QED
    BY <1>1, <1>2, <1>3, <2>1, <2>2, <2>3 DEF Inv, OrderedByUse, HistoryOK
<1>6. CASE k \in Cached(cache)
  <2> DEFINE e == EntryOf(cache, k)
  <2>1. last_use' = [last_use EXCEPT ![k] = ops']
    BY <1>1, <1>6
  <2>2. /\ cache' \in CacheType /\ Exact(cache') /\ Len(cache'.entries) = Len(cache.entries)
        /\ cache'.capacity = cache.capacity
        /\ cache'.max_memory_bytes = cache.max_memory_bytes
        /\ cache'.current_memory_bytes = cache.current_memory_bytes
    BY <1>1, <1>4, <1>6, GetProperties
  <2>3. PICK F : Rest(cache.entries, k, F) /\ cache'.entries = Renewed(F, 0, e)
    BY <1>1, <1>4, <1>6, GetProperties
  <2>4. 0 \in 0..Len(F)
    BY <2>3, LenProperties DEF Rest
  <2>5. k \in Keys(cache)
    BY <1>6 DEF Cached
  <2>6. e \in Entries /\ e.key = k /\ \E i \in 1..Len(cache.entries) : e = cache.entries[i]
    BY <1>4, <2>5, IndexOfProperties
  <2>7. e.data = latest[k] /\ e.size = Size[latest[k]]
    BY <1>3, <2>6 DEF Latest
  <2> HIDE DEF e
  <2>8. CacheOK'
    BY <2>2 DEF Inv, CacheOK
  <2>9. InOrder(Renewed(F, 0, e), last_use')
    BY <1>2, <1>3, <1>4, <2>1, <2>3, <2>4, <2>6, OrderKept
  <2>10. Latest(Renewed(F, 0, e), latest)
    BY <1>3, <1>4, <2>3, <2>4, <2>6, <2>7, LatestKept
  <2> QED
    BY <1>1, <1>2, <1>3, <2>1, <2>3, <2>8, <2>9, <2>10 DEF Inv, OrderedByUse, HistoryOK
<1> QED
  BY <1>5, <1>6

LEMMA StutterInv == Inv /\ UNCHANGED vars => Inv'
BY DEF Inv, CacheOK, OrderedByUse, HistoryOK, vars

LEMMA NextInv == Inv /\ [Next]_vars => Inv'
<1> SUFFICES ASSUME Inv, [Next]_vars PROVE Inv'
  OBVIOUS
<1>1. ASSUME NEW k \in Blocks, NEW d \in Datas, InsertBlock(k, d) PROVE Inv'
  BY <1>1, InsertBlockInv
<1>2. ASSUME NEW k \in Blocks, GetBlock(k) PROVE Inv'
  BY <1>2, GetBlockInv
<1>3. ASSUME NEW n \in Capacities, NEW m \in Limits, Replace(n, m) PROVE Inv'
  BY <1>3, ReplaceInv
<1>4. CASE UNCHANGED vars
  BY <1>4, StutterInv
<1> QED
  BY <1>1, <1>2, <1>3, <1>4 DEF Next

(* The inductive invariant holds of every behaviour.                       *)
THEOREM CacheInvariance == Spec => []Inv
<1>1. Init => Inv
  BY InitInv
<1>2. Inv /\ [Next]_vars => Inv'
  BY NextInv
<1> QED
  BY <1>1, <1>2, PTL DEF Spec

(* Whatever the calls, the cache is a cache and the histories are.         *)
THEOREM CacheTypeCorrect == Spec => []TypeOK
<1>1. Inv => TypeOK
  <2> SUFFICES ASSUME Inv PROVE TypeOK
    OBVIOUS
  <2>1. /\ cache.entries \in Seq(Entries) /\ cache.capacity \in Nat
        /\ cache.max_memory_bytes \in Nat \cup {NoLimit}
    BY CacheFields DEF Inv, CacheOK
  <2>2. cache.current_memory_bytes \in Nat
    BY <2>1, BytesIsNat DEF Inv, CacheOK, Exact
  <2> QED
    BY <2>1, <2>2 DEF TypeOK, Inv, HistoryOK, Entries
<1> QED
  BY <1>1, CacheInvariance, PTL

(* memory_usage() is the total length of the blocks the cache holds.       *)
THEOREM MemoryAccounting == Spec => []MemoryIsExact
<1>1. Inv => MemoryIsExact
  BY DEF Inv, CacheOK, Exact, MemoryIsExact
<1> QED
  BY <1>1, CacheInvariance, PTL

(* The number of keys is the number of entries.                            *)
LEMMA OneEntryPerKey ==
  ASSUME NEW c \in CacheType, Distinct(c.entries)
  PROVE  Len(c.entries) = Cardinality(Keys(c))
<1> DEFINE n == Len(c.entries)
           f == [i \in 1..n |-> c.entries[i].key]
           K == Keys(c)
<1>1. n \in Nat /\ K = {c.entries[i].key : i \in 1..n}
  BY CacheFields DEF Keys
<1>2. \A i, j \in 1..n : c.entries[i].key = c.entries[j].key => i = j
  BY DEF Distinct
<1> HIDE DEF n, K
<1>3. f \in Bijection(1..n, K)
  <2>1. f \in [1..n -> K]
    BY <1>1
  <2>2. \A i, j \in 1..n : f[i] = f[j] => i = j
    BY <1>2
  <2>3. \A y \in K : \E i \in 1..n : f[i] = y
    BY <1>1
  <2> QED
    BY <2>1, <2>2, <2>3 DEF Bijection, Injection, Surjection, IsInjective
<1>4. ExistsBijection(1..n, K)
  BY <1>3 DEF ExistsBijection
<1>5. Cardinality(K) = n
  BY <1>1, <1>4, FS_CountingElements
<1> QED
  BY <1>5 DEF n, K

(* One entry per key, never more than the capacity, and over the memory    *)
(* limit only with a single block.                                         *)
THEOREM LimitsHold == Spec => []WithinLimits
<1>1. Inv => WithinLimits
  <2> SUFFICES ASSUME Inv PROVE WithinLimits
    OBVIOUS
  <2>1. Len(cache.entries) = Cardinality(Keys(cache))
    BY CacheIsDistinct, OneEntryPerKey DEF Inv, CacheOK
  <2> QED
    BY <2>1 DEF WithinLimits, Inv, CacheOK
<1> QED
  BY <1>1, CacheInvariance, PTL

(* Every entry holds what was last inserted under its key.                 *)
THEOREM ContentsAreLatest == Spec => []HoldsLatest
<1>1. Inv => HoldsLatest
  <2> SUFFICES ASSUME Inv, NEW k \in Keys(cache)
               PROVE  /\ EntryOf(cache, k).data = latest[k]
                      /\ EntryOf(cache, k).size = Size[latest[k]]
    BY DEF HoldsLatest
  <2>1. PICK i \in 1..Len(cache.entries) : EntryOf(cache, k) = cache.entries[i] /\ cache.entries[i].key = k
    BY IndexOfProperties DEF Inv, CacheOK
  <2> QED
    BY <2>1 DEF Inv, HistoryOK, Latest
<1> QED
  BY <1>1, CacheInvariance, PTL

-----------------------------------------------------------------------------
(* Which blocks a step displaces.                                          *)

(* A step that keeps the keys, or empties the cache, has no victims.       *)
LEMMA NothingDisplaced ==
  ASSUME Keys(cache) \subseteq Keys(cache') \/ cache'.entries = <<>>
  PROVE  Victims = {}
BY DEF Victims

(* The step is a use of k: it leaves, of the other blocks, F but for its   *)
(* first n, and an insert evicted those.                                   *)
Displaces(k, F, n, e) ==
  /\ Rest(cache.entries, k, F)
  /\ n \in 0..Len(F)
  /\ e \in Entries /\ e.key = k
  /\ cache'.entries = Renewed(F, n, e)
  /\ Tick
  /\ last_use' = [last_use EXCEPT ![k] = ops']
  /\ n > 0 => Inserted(cache, e, F, n, cache')

(* Which keys are gone after such a step, and when one more had to go.     *)
LEMMA Displacement ==
  ASSUME Inv, Inv', NEW k \in Blocks, NEW F, NEW n, NEW e, Displaces(k, F, n, e)
  PROVE  /\ Len(F) \in Nat /\ n \in 0..Len(F)
         /\ \A i, j \in 1..Len(F) : i < j => last_use[F[i].key] < last_use[F[j].key]
         /\ \A gone \in Victims : \E i \in 1..n : F[i].key = gone
         /\ \A kept \in Survivors : \E j \in n + 1 .. Len(F) : F[j].key = kept
         /\ n > 0 => F[n].key \in Victims
<1>0. /\ Rest(cache.entries, k, F) /\ n \in 0..Len(F) /\ e \in Entries /\ e.key = k
      /\ cache'.entries = Renewed(F, n, e)
      /\ Tick
      /\ last_use' = [last_use EXCEPT ![k] = ops']
  BY DEF Displaces
<1> DEFINE t == Renewed(F, n, e)
<1>1. /\ t \in Seq(Entries) /\ Len(F) \in Nat /\ Len(t) = Len(F) - n + 1
      /\ t[Len(t)] = e
      /\ \A i \in 1 .. Len(F) - n : t[i] = F[n + i]
  BY <1>0, AppendedProperties
<1>2. cache'.entries = t
  BY <1>0
<1> HIDE DEF t
<1>13. t[Len(t)].key = k /\ n \in 0..Len(F)
  BY <1>0, <1>1
<1>3. DOMAIN t = 1..Len(t) /\ DOMAIN cache.entries = 1..Len(cache.entries)
  BY <1>1, LenProperties, CacheFields DEF Inv, CacheOK
<1>4. Keys(cache') = {t[i].key : i \in 1..Len(t)}
  BY <1>2, <1>3 DEF Keys
<1>5. Keys(cache) = {cache.entries[x].key : x \in 1..Len(cache.entries)}
  BY <1>3 DEF Keys
<1>6. \A i \in 1..Len(F) : F[i].key \in Blocks /\ F[i].key # k /\ F[i].key \in Keys(cache)
  <2> SUFFICES ASSUME NEW i \in 1..Len(F)
               PROVE  F[i].key \in Blocks /\ F[i].key # k /\ F[i].key \in Keys(cache)
    OBVIOUS
  <2>1. PICK x \in 1..Len(cache.entries) : F[i].key # k /\ F[i] = cache.entries[x]
    BY <1>0 DEF Rest
  <2>2. cache.entries[x] \in Entries
    BY CacheFields DEF Inv, CacheOK
  <2> QED
    BY <1>5, <2>1, <2>2 DEF Entries
<1>7. \A i, j \in 1..Len(F) : i < j => last_use[F[i].key] < last_use[F[j].key]
  <2> SUFFICES ASSUME NEW i \in 1..Len(F), NEW j \in 1..Len(F), i < j
               PROVE  last_use[F[i].key] < last_use[F[j].key]
    OBVIOUS
  <2>1. PICK x \in 1..Len(cache.entries), y \in 1..Len(cache.entries) :
          x < y /\ F[i] = cache.entries[x] /\ F[j] = cache.entries[y]
    BY <1>0 DEF Rest
  <2> QED
    BY <2>1 DEF Inv, OrderedByUse, InOrder
<1>8. /\ last_use \in [Blocks -> Nat] /\ ops' \in Nat
      /\ \A b \in Blocks : last_use[b] < ops'
  BY <1>0, UseProperties
<1>9. Touched' = {k}
  <2>1. Touched' = {b \in Blocks : last_use'[b] = ops'}
    BY DEF Touched
  <2>2. last_use'[k] = ops' /\ \A b \in Blocks : b # k => last_use'[b] = last_use[b]
    BY <1>0, <1>8
  <2>3. \A b \in Blocks : b # k => last_use'[b] # ops'
    BY <1>8, <2>2
  <2> QED
    BY <2>1, <2>2, <2>3
<1>10. \A gone \in Victims : \E i \in 1..n : F[i].key = gone
  <2> SUFFICES ASSUME NEW gone \in Victims PROVE \E i \in 1..n : F[i].key = gone
    OBVIOUS
  <2>1. gone \in Keys(cache) /\ gone \notin Keys(cache') /\ gone # k
    BY <1>9 DEF Victims
  <2>2. PICK x \in 1..Len(cache.entries) : cache.entries[x].key = gone
    BY <1>5, <2>1
  <2>3. PICK i \in 1..Len(F) : F[i] = cache.entries[x]
    BY <1>0, <2>1, <2>2 DEF Rest
  <2>4. CASE i > n
    <3>1. i - n \in 1 .. Len(F) - n /\ n + (i - n) = i /\ i - n \in 1..Len(t)
      BY <1>1, <1>13, <2>4
    <3>2. t[i - n].key = gone
      BY <1>1, <2>2, <2>3, <3>1
    <3> QED
      BY <1>4, <2>1, <3>1, <3>2
  <2>5. CASE i <= n
    BY <2>2, <2>3, <2>5
  <2> QED
    BY <1>1, <1>13, <2>4, <2>5
<1>11. \A kept \in Survivors : \E j \in n + 1 .. Len(F) : F[j].key = kept
  <2> SUFFICES ASSUME NEW kept \in Survivors PROVE \E j \in n + 1 .. Len(F) : F[j].key = kept
    OBVIOUS
  <2>1. kept \in Keys(cache') /\ kept # k
    BY <1>9 DEF Survivors
  <2>2. PICK i \in 1..Len(t) : t[i].key = kept
    BY <1>4, <2>1
  <2>3. i # Len(t)
    BY <1>1, <1>13, <2>1, <2>2
  <2>4. i \in 1 .. Len(F) - n /\ n + i \in n + 1 .. Len(F)
    BY <1>1, <1>13, <2>3
  <2>5. F[n + i].key = kept
    BY <1>1, <2>2, <2>4
  <2> QED
    BY <2>4, <2>5
<1>12. ASSUME n > 0 PROVE F[n].key \in Victims
  <2>1. n \in 1..Len(F)
    BY <1>1, <1>12, <1>13
  <2>2. F[n].key \in Keys(cache) /\ F[n].key # k /\ F[n].key \in Blocks
    BY <1>6, <2>1
  <2>3. F[n].key \notin Keys(cache')
    <3> SUFFICES ASSUME NEW i \in 1..Len(t), t[i].key = F[n].key PROVE FALSE
      BY <1>4
    <3>1. i # Len(t)
      <4>1. t[i].key # t[Len(t)].key
        BY <1>13, <2>2
      <4> QED
        BY <4>1
    <3>2. i \in 1 .. Len(F) - n /\ n + i \in 1..Len(F) /\ n < n + i
      <4>1. Len(t) = Len(F) - n + 1 /\ Len(F) \in Nat
        BY <1>1
      <4> QED
        BY <2>1, <3>1, <4>1
    <3>3. F[n + i].key = F[n].key
      BY <1>1, <3>2
    <3>4. last_use[F[n].key] < last_use[F[n + i].key] /\ last_use[F[n].key] \in Nat
      BY <1>7, <1>8, <2>1, <2>2, <3>2
    <3> QED
      BY <3>3, <3>4
  <2>4. t # <<>>
    <3>1. Len(t) > 0
      BY <1>1, <1>13
    <3> QED
      BY <3>1, EmptySeq
  <2> QED
    BY <1>2, <1>9, <2>2, <2>3, <2>4 DEF Victims
<1> QED
  BY <1>1, <1>7, <1>10, <1>11, <1>12, <1>13

(* What displaces something is an insert into an enabled cache or a hit.   *)
LEMMA StepsDisplace ==
  ASSUME Inv, [Next]_vars
  PROVE  \/ Victims = {}
         \/ \E k \in Blocks : \E F, n, e : Displaces(k, F, n, e)
<1>1. /\ cache \in CacheType /\ Exact(cache) /\ Distinct(cache.entries)
      /\ cache.entries \in Seq(Entries)
  BY CacheIsDistinct, CacheFields DEF Inv, CacheOK
<1>2. ASSUME NEW k \in Blocks, NEW d \in Datas, InsertBlock(k, d)
      PROVE  \/ Victims = {}
             \/ \E F, n, e : Displaces(k, F, n, e)
  <2>1. CASE cache.capacity = 0
    <3>1. cache' = cache
      BY <1>2, <2>1 DEF InsertBlock, Insert
    <3> QED
      BY <3>1, NothingDisplaced
  <2>2. CASE cache.capacity # 0
    <3> DEFINE e == [key |-> k, data |-> d, size |-> Size[d]]
    <3>1. Size[d] \in Nat
      BY BlockCacheConstants
    <3>2. e \in Entries /\ e.key = k
      BY <3>1 DEF Entries
    <3>3. PICK F, n : Inserted(cache, e, F, n, cache')
      BY <1>1, <1>2, <2>2, <3>1, InsertProperties DEF InsertBlock
    <3> HIDE DEF e
    <3>4. Tick /\ last_use' = [last_use EXCEPT ![k] = ops']
      BY <1>2 DEF InsertBlock
    <3>5. /\ Rest(cache.entries, k, F) /\ n \in 0..Len(F)
          /\ cache'.entries = Renewed(F, n, e)
      BY <3>2, <3>3 DEF Inserted
    <3>6. Displaces(k, F, n, e)
      BY <3>2, <3>3, <3>4, <3>5 DEF Displaces
    <3> QED
      BY <3>6
  <2> QED
    BY <2>1, <2>2
<1>3. ASSUME NEW k \in Blocks, GetBlock(k)
      PROVE  \/ Victims = {}
             \/ \E F, n, e : Displaces(k, F, n, e)
  <2>1. CASE k \notin Cached(cache)
    <3>1. cache' = cache
      BY <1>3, <2>1 DEF GetBlock, Get
    <3> QED
      BY <3>1, NothingDisplaced
  <2>2. CASE k \in Cached(cache)
    <3> DEFINE e == EntryOf(cache, k)
    <3>1. cache' = Get(cache, k) /\ Tick /\ last_use' = [last_use EXCEPT ![k] = ops']
      BY <1>3, <2>2 DEF GetBlock
    <3>2. PICK F : Rest(cache.entries, k, F) /\ cache'.entries = Renewed(F, 0, e)
      BY <1>1, <2>2, <3>1, GetProperties
    <3>3. e \in Entries /\ e.key = k
      BY <1>1, <2>2, IndexOfProperties DEF Cached
    <3>4. 0 \in 0..Len(F)
      BY <3>2, LenProperties DEF Rest
    <3> HIDE DEF e
    <3>5. Displaces(k, F, 0, e)
      BY <3>1, <3>2, <3>3, <3>4 DEF Displaces
    <3> QED
      BY <3>5
  <2> QED
    BY <2>1, <2>2
<1>4. ASSUME NEW n \in Capacities, NEW m \in Limits, Replace(n, m) PROVE Victims = {}
  <2>1. cache'.entries = <<>>
    BY <1>4, BlockCacheConstants, ConfiguredProperties DEF Replace
  <2> QED
    BY <2>1, NothingDisplaced
<1>5. CASE UNCHANGED vars
  <2>1. cache' = cache
    BY <1>5 DEF vars
  <2> QED
    BY <2>1, NothingDisplaced
<1> QED
  BY <1>2, <1>3, <1>4, <1>5 DEF Next

(* The two facts about victims, as facts about one step.                   *)
LEMMA OldestGoFirst == Inv /\ Inv' /\ [Next]_vars => OldestFirst
<1> SUFFICES ASSUME Inv, Inv', [Next]_vars, NEW gone \in Victims, NEW kept \in Survivors
             PROVE  last_use[gone] < last_use[kept]
  BY DEF OldestFirst
<1>1. PICK k, F, n, e : k \in Blocks /\ Displaces(k, F, n, e)
  BY StepsDisplace
<1>2. /\ Len(F) \in Nat /\ n \in 0..Len(F)
      /\ \A i, j \in 1..Len(F) : i < j => last_use[F[i].key] < last_use[F[j].key]
      /\ \A g \in Victims : \E i \in 1..n : F[i].key = g
      /\ \A g \in Survivors : \E j \in n + 1 .. Len(F) : F[j].key = g
  BY <1>1, Displacement
<1>3. PICK i \in 1..n : F[i].key = gone
  BY <1>2
<1>4. PICK j \in n + 1 .. Len(F) : F[j].key = kept
  BY <1>2
<1>5. i \in 1..Len(F) /\ j \in 1..Len(F) /\ i < j
  BY <1>2
<1> QED
  BY <1>2, <1>3, <1>4, <1>5

LEMMA EvictionUnderPressure == Inv /\ Inv' /\ [Next]_vars => UnderPressure
<1> SUFFICES ASSUME Inv, Inv', [Next]_vars, NEW gone \in Victims,
                    \A other \in Victims : last_use[other] <= last_use[gone]
             PROVE  \/ Len(cache'.entries) + 1 > cache.capacity
                    \/ /\ cache.max_memory_bytes # NoLimit
                       /\ cache'.current_memory_bytes + EntryOf(cache, gone).size
                            > cache.max_memory_bytes
  BY DEF UnderPressure
<1>1. PICK k, F, n, e : k \in Blocks /\ Displaces(k, F, n, e)
  BY StepsDisplace
<1>2. /\ Len(F) \in Nat /\ n \in 0..Len(F)
      /\ \A i, j \in 1..Len(F) : i < j => last_use[F[i].key] < last_use[F[j].key]
      /\ \A g \in Victims : \E i \in 1..n : F[i].key = g
      /\ n > 0 => F[n].key \in Victims
  BY <1>1, Displacement
<1>3. PICK i \in 1..n : F[i].key = gone
  BY <1>2
<1>4. n > 0 /\ n \in 1..Len(F) /\ i \in 1..Len(F)
  BY <1>2
<1>5. /\ Rest(cache.entries, k, F) /\ Inserted(cache, e, F, n, cache')
  BY <1>1, <1>4 DEF Displaces
<1>6. PICK x \in 1..Len(cache.entries) : F[n] = cache.entries[x]
  BY <1>4, <1>5 DEF Rest
<1>7. F[n].key \in Blocks /\ last_use[F[n].key] \in Nat
  <2>1. F[n] \in Entries
    BY <1>6, CacheFields DEF Inv, CacheOK
  <2>2. last_use \in [Blocks -> Nat]
    BY CacheIsDistinct
  <2> QED
    BY <2>1, <2>2 DEF Entries
<1>8. F[n].key = gone
  <2>1. last_use[F[n].key] <= last_use[F[i].key]
    BY <1>2, <1>3, <1>4
  <2>2. last_use[F[i].key] \in Nat
    <3>1. PICK y \in 1..Len(cache.entries) : F[i] = cache.entries[y]
      BY <1>4, <1>5 DEF Rest
    <3>2. F[i] \in Entries
      BY <3>1, CacheFields DEF Inv, CacheOK
    <3>3. last_use \in [Blocks -> Nat]
      BY CacheIsDistinct
    <3> QED
      BY <3>2, <3>3 DEF Entries
  <2>3. i < n => last_use[F[i].key] < last_use[F[n].key]
    BY <1>2, <1>4
  <2>4. i = n
    BY <1>4, <1>7, <2>1, <2>2, <2>3
  <2> QED
    BY <1>3, <2>4
<1>9. EntryOf(cache, gone) = F[n]
  BY <1>6, <1>8, EntryOfDistinct, CacheIsDistinct DEF Inv, CacheOK
<1>10. /\ cache'.capacity = cache.capacity
       /\ cache'.max_memory_bytes = cache.max_memory_bytes
       /\ \/ Len(cache'.entries) + 1 > cache'.capacity
          \/ /\ cache'.max_memory_bytes # NoLimit
             /\ cache'.current_memory_bytes + F[n].size > cache'.max_memory_bytes
  BY <1>4, <1>5 DEF Inserted
<1> QED
  BY <1>9, <1>10

(* An insert evicts least recently used entries only.                      *)
THEOREM EvictionOrder == Spec => EvictsOldestFirst
<1>1. Inv /\ Inv' /\ [Next]_vars => [OldestFirst]_vars
  BY OldestGoFirst
<1> QED
  BY <1>1, CacheInvariance, PTL DEF Spec, EvictsOldestFirst

(* And no more of them than it has to.                                     *)
THEOREM EvictionNeeded == Spec => EvictsUnderPressure
<1>1. Inv /\ Inv' /\ [Next]_vars => [UnderPressure]_vars
  BY EvictionUnderPressure
<1> QED
  BY <1>1, CacheInvariance, PTL DEF Spec, EvictsUnderPressure
=============================================================================
