------------------------ MODULE PgzfIndexBuildProofs ------------------------
(***************************************************************************)
(* What PgzfIndex::build makes of a file, for every file: that its walk    *)
(* ends, where it gets to when one group is sealed after another, and what *)
(* a group adds to the arrays.                                             *)
(***************************************************************************)
EXTENDS PgzfIndexBuild, RunningTotalsProofs

-----------------------------------------------------------------------------
(* The loop over the entries of a group.                                   *)

EntriesLoop(f, m, acc, entries) ==
  /\ f[0] = acc
  /\ \A k \in 1..m : f[k] = AddEntry(f[k - 1], entries[k])

(* The recursion of AddEntries has a solution, and AddEntries is its last. *)
LEMMA AddEntriesIs ==
  ASSUME NEW n \in Nat, NEW acc, NEW entries
  PROVE  \E f : EntriesLoop(f, n, acc, entries) /\ AddEntries(acc, entries, n) = f[n]
<1> DEFINE Round(f) == [k \in 0..n |-> IF k = 0 THEN acc ELSE AddEntry(f[k - 1], entries[k])]
           Upto(f, m) == \A k \in 0..m : f[k] = Round(f)[k]
           S == {m \in 0..n : \E f : Upto(f, m)}
           r == CHOOSE f : f = Round(f)
<1>1. 0 \in S
  <2> DEFINE f == [k \in 0..n |-> acc]
  <2>1. Upto(f, 0)
    OBVIOUS
  <2> HIDE DEF f, Upto
  <2> QED
    BY <2>1
<1>2. ASSUME NEW m \in 0 .. n - 1, m \in S PROVE m + 1 \in S
  <2>1. PICK f : Upto(f, m)
    BY <1>2
  <2> DEFINE g == Round(f)
  <2>2. ASSUME NEW k \in 0 .. m + 1 PROVE g[k] = Round(g)[k]
    <3>1. k \in 0..n
      OBVIOUS
    <3>2. CASE k = 0
      BY <3>1, <3>2
    <3>3. CASE k \in 1 .. m + 1
      <4>1. k - 1 \in 0..m /\ k - 1 \in 0..n
        BY <3>3
      <4>2. f[k - 1] = g[k - 1]
        BY <2>1, <4>1
      <4>3. g[k] = AddEntry(f[k - 1], entries[k]) /\ Round(g)[k] = AddEntry(g[k - 1], entries[k])
        BY <3>1, <3>3
      <4> QED
        BY <4>2, <4>3
    <3> QED
      BY <3>2, <3>3
  <2> HIDE DEF g, Round
  <2>3. Upto(g, m + 1)
    BY <2>2
  <2> HIDE DEF Upto
  <2> QED
    BY <2>3
<1>3. n \in S
  <2> HIDE DEF S
  <2>1. \A k \in 0..n : k \in S
    BY <1>1, <1>2, InductionUpTo
  <2> QED
    BY <2>1
<1>4. PICK f : Upto(f, n)
  BY <1>3
<1>5. Round(f) = Round(Round(f))
  <2> DEFINE g == Round(f)
  <2>1. ASSUME NEW k \in 0..n PROVE Round(f)[k] = Round(g)[k]
    <3>1. CASE k = 0
      BY <3>1
    <3>2. CASE k \in 1..n
      <4>1. f[k - 1] = g[k - 1]
        BY <1>4, <3>2
      <4> QED
        BY <3>2, <4>1
    <3> QED
      BY <3>1, <3>2
  <2> HIDE DEF g
  <2>2. Round(f) = Round(g)
    BY <2>1
  <2> QED
    BY <2>2 DEF g
<1>6. AddEntries(acc, entries, n) = r[n]
  BY DEF AddEntries
<1>7. r = Round(r)
  <2> HIDE DEF Round
  <2> QED
    BY <1>5
<1> HIDE DEF r
<1>8. r[0] = acc /\ \A k \in 1..n : r[k] = AddEntry(r[k - 1], entries[k])
  BY <1>7
<1>9. EntriesLoop(r, n, acc, entries)
  BY <1>8 DEF EntriesLoop
<1> QED
  BY <1>6, <1>9

(* One more entry, and n of them: b goes on where a ends, by the offsets t. *)
Continues(a, b, n, t) ==
  /\ b \in Seq(Nat)
  /\ Len(b) = Len(a) + n
  /\ \A i \in 1..Len(a) : b[i] = a[i]
  /\ \A j \in 0..n : b[Len(a) + j] = t[j]

(* An array of offsets has a last one.                                     *)
LEMMA OffsetsProperties ==
  ASSUME NEW a \in Offsets
  PROVE  a \in Seq(Nat) /\ Len(a) \in Nat \ {0} /\ Last(a) \in Nat /\ Last(a) = a[Len(a)]
<1>1. a \in Seq(Nat) /\ a # <<>>
  BY DEF Offsets
<1>2. Len(a) \in Nat /\ Len(a) # 0
  BY <1>1, EmptySeq, LenProperties
<1>3. a[Len(a)] \in Nat
  BY <1>1, <1>2, ElementOfSeq
<1> QED
  BY <1>1, <1>2, <1>3 DEF Last

(* An array that is continued is an array of offsets.                      *)
LEMMA ContinuesType ==
  ASSUME NEW a \in Offsets, NEW n \in Nat, NEW b, NEW t, Continues(a, b, n, t)
  PROVE  /\ b \in Offsets /\ Len(b) = Len(a) + n
         /\ Last(b) = t[n] /\ t[n] \in Nat
<1>1. Len(a) \in Nat \ {0}
  BY OffsetsProperties
<1>2. b \in Seq(Nat) /\ Len(b) = Len(a) + n /\ b[Len(a) + n] = t[n]
  BY DEF Continues
<1>3. b # <<>>
  BY <1>1, <1>2, EmptySeq
<1>4. b \in Offsets
  BY <1>2, <1>3 DEF Offsets
<1>5. Last(b) \in Nat /\ Last(b) = b[Len(b)]
  BY <1>4, OffsetsProperties
<1> QED
  BY <1>2, <1>4, <1>5

(* One offset appended.                                                    *)
LEMMA AppendOffset ==
  ASSUME NEW b \in Seq(Nat), NEW y \in Nat
  PROVE  /\ Append(b, y) \in Seq(Nat) /\ Len(Append(b, y)) = Len(b) + 1
         /\ \A i \in 1..Len(b) : Append(b, y)[i] = b[i]
         /\ Append(b, y)[Len(b) + 1] = y
BY AppendProperties

(* One size added: the array goes on to the next total.                    *)
LEMMA AddSizeContinues ==
  ASSUME NEW a \in Offsets, NEW m \in Nat, NEW p, p = m + 1, NEW b, NEW t,
         Continues(a, b, m, t), NEW x \in Nat, t[p] = t[m] + x
  PROVE  Continues(a, AddSize(b, x), p, t)
<1> DEFINE c == AddSize(b, x)
<1>1. Len(a) \in Nat /\ b \in Seq(Nat) /\ Len(b) = Len(a) + m /\ Len(b) \in Nat
  BY OffsetsProperties DEF Continues
<1>2. Last(b) = t[m] /\ t[p] \in Nat
  BY ContinuesType
<1>3. c = Append(b, t[p])
  BY <1>2 DEF AddSize
<1>4. /\ c \in Seq(Nat) /\ Len(c) = Len(b) + 1
      /\ \A i \in 1..Len(b) : c[i] = b[i]
      /\ c[Len(b) + 1] = t[p]
  <2> HIDE DEF c
  <2> QED
    BY <1>1, <1>2, <1>3, AppendOffset
<1> HIDE DEF c
<1>5. \A i \in 1..Len(a) : c[i] = a[i]
  BY <1>1, <1>4 DEF Continues
<1>6. \A j \in 0..p : c[Len(a) + j] = t[j]
  <2> TAKE j \in 0..p
  <2>1. CASE j = p
    BY <1>1, <1>4, <2>1
  <2>2. CASE j \in 0..m
    <3>1. b[Len(a) + j] = t[j]
      BY <2>2 DEF Continues
    <3>2. Len(a) \in Nat \ {0}
      BY OffsetsProperties
    <3>3. Len(a) + j \in 1..Len(b)
      BY <1>1, <2>2, <3>2
    <3> QED
      BY <1>4, <3>1, <3>3
  <2> QED
    BY <2>1, <2>2
<1>7. Len(c) = Len(a) + p
  BY <1>1, <1>4
<1> QED
  BY <1>4, <1>5, <1>6, <1>7 DEF Continues, c

(* Without entries the array is as it was.                                 *)
LEMMA NothingContinues ==
  ASSUME NEW a \in Offsets, NEW t, t[0] = Last(a)
  PROVE  Continues(a, a, 0, t)
BY OffsetsProperties DEF Continues

(* new has the n blocks more whose ends are t in the file, u in the stream. *)
Extended(acc, new, n, t, u) ==
  /\ new \in Indexes
  /\ new.group_count = acc.group_count
  /\ Continues(acc.compressed_offsets, new.compressed_offsets, n, t)
  /\ Continues(acc.uncompressed_offsets, new.uncompressed_offsets, n, u)

(* The fields of an index.                                                 *)
LEMMA IndexFields ==
  ASSUME NEW acc \in Indexes
  PROVE  /\ acc.compressed_offsets \in Offsets /\ acc.uncompressed_offsets \in Offsets
         /\ acc.group_count \in Nat
BY DEF Indexes

(* The sizes of the entries.                                               *)
LEMMA EntrySizes ==
  ASSUME NEW entries \in Seq(IndexEntries)
  PROVE  /\ CompressedSizes(entries) \in [1..Len(entries) -> Nat]
         /\ UncompressedSizes(entries) \in [1..Len(entries) -> Nat]
         /\ \A k \in 1..Len(entries) :
              /\ CompressedSizes(entries)[k] = entries[k].compressed_size
              /\ UncompressedSizes(entries)[k] = entries[k].uncompressed_size
<1>1. DOMAIN entries = 1..Len(entries)
  BY LenProperties
<1>2. \A k \in 1..Len(entries) : entries[k] \in IndexEntries
  BY ElementOfSeq
<1> QED
  BY <1>1, <1>2 DEF CompressedSizes, UncompressedSizes, IndexEntries

(* One entry added to both arrays.                                         *)
LEMMA AddEntryExtends ==
  ASSUME NEW acc \in Indexes, NEW m \in Nat, NEW p, p = m + 1, NEW new, NEW t, NEW u,
         Extended(acc, new, m, t, u), NEW e \in IndexEntries,
         t[p] = t[m] + e.compressed_size, u[p] = u[m] + e.uncompressed_size
  PROVE  Extended(acc, AddEntry(new, e), p, t, u)
<1> DEFINE c == AddSize(new.compressed_offsets, e.compressed_size)
           d == AddSize(new.uncompressed_offsets, e.uncompressed_size)
<1>1. acc.compressed_offsets \in Offsets /\ acc.uncompressed_offsets \in Offsets
  BY IndexFields
<1>2. e.compressed_size \in Nat /\ e.uncompressed_size \in Nat
  BY DEF IndexEntries
<1>3. Continues(acc.compressed_offsets, c, p, t)
  BY <1>1, <1>2, AddSizeContinues DEF Extended
<1>4. Continues(acc.uncompressed_offsets, d, p, u)
  BY <1>1, <1>2, AddSizeContinues DEF Extended
<1>5. p \in Nat
  OBVIOUS
<1>6. c \in Offsets /\ d \in Offsets
  BY <1>1, <1>3, <1>4, <1>5, ContinuesType
<1>7. PICK j : j = AddEntry(new, e)
               /\ j = [new EXCEPT !.compressed_offsets = c, !.uncompressed_offsets = d]
  BY DEF AddEntry
<1>8. new.group_count \in Nat /\ new.group_count = acc.group_count
  BY IndexFields DEF Extended
<1> HIDE DEF c, d
<1>9. new \in Indexes
  BY DEF Extended
<1>10. j.compressed_offsets = c /\ j.uncompressed_offsets = d /\ j.group_count = new.group_count
  BY <1>7, <1>9 DEF Indexes
<1>11. j \in Indexes
  BY <1>6, <1>7, <1>9 DEF Indexes
<1> QED
  BY <1>3, <1>4, <1>7, <1>8, <1>10, <1>11 DEF Extended

(* All entries added: both arrays go on with their totals.                 *)
LEMMA EntriesExtend ==
  ASSUME NEW n \in Nat, NEW acc \in Indexes, NEW entries \in Seq(IndexEntries),
         n <= Len(entries), NEW t, NEW u,
         Adds(n, Last(acc.compressed_offsets), CompressedSizes(entries), t),
         Adds(n, Last(acc.uncompressed_offsets), UncompressedSizes(entries), u)
  PROVE  Extended(acc, AddEntries(acc, entries, n), n, t, u)
<1>1. PICK f : EntriesLoop(f, n, acc, entries) /\ AddEntries(acc, entries, n) = f[n]
  BY AddEntriesIs
<1> DEFINE S == {m \in 0..n : Extended(acc, f[m], m, t, u)}
<1>2. 0 \in S
  <2>1. t[0] = Last(acc.compressed_offsets) /\ u[0] = Last(acc.uncompressed_offsets)
    BY AddsType
  <2>2. f[0] = acc
    BY <1>1 DEF EntriesLoop
  <2>3. Extended(acc, acc, 0, t, u)
    BY <2>1, IndexFields, NothingContinues DEF Extended
  <2> QED
    BY <2>2, <2>3
<1>3. ASSUME NEW m \in 0 .. n - 1, m \in S PROVE m + 1 \in S
  <2>1. PICK p \in 1..n : p = m + 1
    OBVIOUS
  <2>2. Len(entries) \in Nat
    BY LenProperties
  <2>3. p \in 1..Len(entries)
    BY <2>2
  <2>4. entries[p] \in IndexEntries
    BY <2>3, ElementOfSeq
  <2>5. /\ t[p] = t[p - 1] + CompressedSizes(entries)[p]
        /\ u[p] = u[p - 1] + UncompressedSizes(entries)[p]
    BY AddsAt
  <2>6. p - 1 = m
    BY <2>1
  <2>7. /\ t[p] = t[m] + entries[p].compressed_size
        /\ u[p] = u[m] + entries[p].uncompressed_size
    BY <2>3, <2>5, <2>6, EntrySizes
  <2>8. f[p] = AddEntry(f[m], entries[p])
    BY <1>1, <2>6 DEF EntriesLoop
  <2>9. Extended(acc, f[m], m, t, u)
    BY <1>3
  <2>10. Extended(acc, AddEntry(f[m], entries[p]), p, t, u)
    BY <2>1, <2>4, <2>7, <2>9, AddEntryExtends
  <2> QED
    BY <2>1, <2>8, <2>10
<1>4. n \in S
  <2> HIDE DEF S
  <2>1. \A m \in 0..n : m \in S
    BY <1>2, <1>3, InductionUpTo
  <2> QED
    BY <2>1
<1> QED
  BY <1>1, <1>4

(* The sizes of any entries add up.                                        *)
LEMMA TotalsOfEntries ==
  ASSUME NEW start \in Int, NEW sizes, NEW len \in Nat, sizes \in [1..len -> Nat],
         NEW n \in Nat, n <= len
  PROVE  \E t : Adds(n, start, sizes, t)
<1> DEFINE first == [k \in 1..n |-> sizes[k]]
<1>1. first \in [1..n -> Int] /\ \A k \in 1..n : first[k] = sizes[k]
  OBVIOUS
<1> HIDE DEF first
<1>2. PICK t : Adds(n, start, first, t)
  BY <1>1, TotalsExist
<1>3. Adds(n, start, sizes, t)
  <2>1. t \in [0..n -> Int] /\ t[0] = start
    BY <1>2, AddsType
  <2>2. ASSUME NEW k \in 1..n PROVE t[k] = t[k - 1] + sizes[k]
    <3>1. t[k] = t[k - 1] + first[k]
      BY <1>2, AddsAt
    <3> QED
      BY <1>1, <3>1
  <2> QED
    BY <2>1, <2>2 DEF Adds
<1> QED
  BY <1>3

(* The arrays after any number of entries.                                 *)
LEMMA EntriesType ==
  ASSUME NEW n \in Nat, NEW acc \in Indexes, NEW entries \in Seq(IndexEntries),
         n <= Len(entries)
  PROVE  AddEntries(acc, entries, n) \in Indexes
<1>1. Last(acc.compressed_offsets) \in Int /\ Last(acc.uncompressed_offsets) \in Int
  BY IndexFields, OffsetsProperties
<1>2. PICK len \in Nat : len = Len(entries)
  BY LenProperties
<1>3. PICK t : Adds(n, Last(acc.compressed_offsets), CompressedSizes(entries), t)
  BY <1>1, <1>2, EntrySizes, TotalsOfEntries
<1>4. PICK u : Adds(n, Last(acc.uncompressed_offsets), UncompressedSizes(entries), u)
  BY <1>1, <1>2, EntrySizes, TotalsOfEntries
<1> QED
  BY <1>3, <1>4, EntriesExtend DEF Extended

(* The IDX member's own ZC goes to the last offset.                        *)
Raised(a, x) == Append(Front(a), Last(a) + x)

(* The size of the IDX member added to the last offset.                    *)
LEMMA LastRaised ==
  ASSUME NEW a \in Offsets, NEW x \in Nat
  PROVE  /\ Raised(a, x) \in Offsets /\ Len(Raised(a, x)) = Len(a)
         /\ \A i \in 1 .. Len(a) - 1 : Raised(a, x)[i] = a[i]
         /\ Last(Raised(a, x)) = Last(a) + x
<1> DEFINE b == Append(Front(a), Last(a) + x)
<1>1. a \in Seq(Nat) /\ Last(a) + x \in Nat
  BY OffsetsProperties
<1>2. PICK n \in Nat : Len(a) = n + 1
  <2>1. Len(a) \in Nat \ {0}
    BY OffsetsProperties
  <2>2. Len(a) - 1 \in Nat
    BY <2>1
  <2> QED
    BY <2>1, <2>2
<1>3. Len(a) - 1 = n /\ n \in 0..Len(a)
  BY <1>2
<1>4. /\ Front(a) \in Seq(Nat) /\ Len(Front(a)) = n
      /\ \A i \in 1..n : Front(a)[i] = a[i]
  <2>1. \A i \in 1..n : a[i] \in Nat
    BY <1>1, <1>2, ElementOfSeq
  <2>2. /\ SubSeq(a, 1, n) \in Seq(Nat)
        /\ Len(SubSeq(a, 1, n)) = IF 1 <= n THEN n - 1 + 1 ELSE 0
        /\ \A i \in 1 .. n - 1 + 1 : SubSeq(a, 1, n)[i] = a[1 + i - 1]
    BY <2>1, SubSeqProperties
  <2> QED
    BY <1>3, <2>2 DEF Front
<1>5. /\ b \in Seq(Nat) /\ Len(b) = n + 1
      /\ \A i \in 1..n : b[i] = a[i]
      /\ b[n + 1] = Last(a) + x
  BY <1>1, <1>4, AppendOffset
<1> HIDE DEF b
<1>6. b # <<>>
  BY <1>5, EmptySeq
<1> QED
  BY <1>2, <1>3, <1>5, <1>6 DEF Offsets, Last, b, Raised

(* What a group adds to the index.                                         *)
LEMMA AddGroupIs ==
  ASSUME NEW n \in Nat, NEW acc, NEW idx, (Xlen(idx) - XlenBase) \div EntrySize = n,
         NEW blocks, blocks = AddEntries(acc, idx.entries, n),
         blocks \in Indexes, idx.zc \in Nat
  PROVE  /\ AddGroup(acc, idx) \in Indexes
         /\ AddGroup(acc, idx).compressed_offsets = Raised(blocks.compressed_offsets, idx.zc)
         /\ AddGroup(acc, idx).uncompressed_offsets = blocks.uncompressed_offsets
         /\ AddGroup(acc, idx).group_count = blocks.group_count + 1
<1> DEFINE c == Raised(blocks.compressed_offsets, idx.zc)
<1>1. PICK j : /\ j = AddGroup(acc, idx)
              /\ j = [blocks EXCEPT !.compressed_offsets = c,
                                     !.group_count = blocks.group_count + 1]
  BY DEF AddGroup, Raised
<1>2. /\ blocks.compressed_offsets \in Offsets /\ blocks.uncompressed_offsets \in Offsets
      /\ blocks.group_count \in Nat
  BY IndexFields
<1>3. c \in Offsets
  BY <1>2, LastRaised
<1> HIDE DEF c
<1>4. /\ j.compressed_offsets = c /\ j.uncompressed_offsets = blocks.uncompressed_offsets
      /\ j.group_count = blocks.group_count + 1
  BY <1>1 DEF Indexes
<1>5. j \in Indexes
  <2>1. blocks.group_count + 1 \in Nat
    BY <1>2
  <2> QED
    BY <1>1, <1>3, <2>1 DEF Indexes
<1> QED
  BY <1>1, <1>4, <1>5 DEF c

(* What XLEN says of the number of entries, wrapped or not.                *)
LEMMA NumEntries ==
  ASSUME NEW m \in Members, m.kind = "idx", Xlen(m) >= XlenBase
  PROVE  /\ m.entries \in Seq(IndexEntries) /\ Len(m.entries) \in Nat
         /\ (Xlen(m) - XlenBase) \div EntrySize \in Nat
         /\ (Xlen(m) - XlenBase) \div EntrySize <= Len(m.entries)
         /\ Xlen(m) - XlenBase \in Nat
<1>1. m.entries \in Seq(IndexEntries)
  BY DEF Members
<1>2. PICK n \in Nat : n = Len(m.entries)
  BY <1>1, LenProperties
<1>3. Xlen(m) = (12 + 8 * n) % U16Space
  BY <1>2 DEF Xlen, XlenBase, EntrySize
<1>4. Xlen(m) \in Nat /\ Xlen(m) <= 12 + 8 * n
  BY <1>3, U16SpacePositive
<1>5. PICK x \in Nat : x = Xlen(m) - 12
  BY <1>4 DEF XlenBase
<1>6. x <= 8 * n
  BY <1>4, <1>5
<1>7. x \div 8 \in Nat /\ x \div 8 <= n
  BY <1>6
<1> QED
  BY <1>1, <1>2, <1>5, <1>7 DEF XlenBase, EntrySize

(* It leaves an index.                                                     *)
LEMMA AddGroupType ==
  ASSUME NEW acc \in Indexes, NEW m \in Members, m.kind = "idx", Xlen(m) >= XlenBase
  PROVE  AddGroup(acc, m) \in Indexes
<1>1. PICK n \in Nat : n = (Xlen(m) - XlenBase) \div EntrySize /\ n <= Len(m.entries)
  BY NumEntries
<1>2. m.entries \in Seq(IndexEntries) /\ m.zc \in Nat
  BY DEF Members
<1>3. AddEntries(acc, m.entries, n) \in Indexes
  BY <1>1, <1>2, EntriesType
<1> QED
  BY <1>1, <1>2, <1>3, AddGroupIs

-----------------------------------------------------------------------------
(* The walk over the groups.                                               *)

FileType(file) ==
  /\ file.length \in Nat
  /\ DOMAIN file.members \subseteq Nat
  /\ \A at \in DOMAIN file.members : file.members[at] \in Members

(* A group that is sealed: the walk goes on behind it.                     *)
Passes(file, walk) ==
  ~EndOfGroups(file, walk.group_start) /\ ValidGroup(file, walk.group_start)

(* The walk goes on behind the IDX member, further than it was.            *)
LEMMA PassesOn ==
  ASSUME NEW file, FileType(file), NEW walk \in Walks, Passes(file, walk)
  PROVE  /\ NextGroup(file, walk) \in Walks
         /\ walk.group_start < IdxAt(file, walk.group_start)
         /\ IdxAt(file, walk.group_start) <= NextGroup(file, walk).group_start
<1> DEFINE gs == walk.group_start
           at == IdxAt(file, gs)
<1>1. walk.index \in Indexes /\ gs \in Nat
  BY DEF Walks
<1>2. gs \in DOMAIN file.members /\ file.members[gs].kind = "beg"
  BY DEF Passes, ValidGroup, StartsGroup
<1>3. file.members[gs] \in Members /\ file.members[gs].gc # 0
  BY <1>2 DEF FileType, Passes, EndOfGroups
<1>4. at = gs + file.members[gs].gc /\ file.members[gs].gc \in Nat
  BY <1>3 DEF IdxAt, Members
<1>5. at \in DOMAIN file.members /\ file.members[at].kind = "idx"
      /\ Xlen(file.members[at]) >= XlenBase
  BY DEF Passes, ValidGroup, IsIdx
<1>6. file.members[at] \in Members /\ file.members[at].zc \in Nat
  BY <1>5 DEF FileType, Members
<1>7. NextGroup(file, walk) = [group_start |-> at + file.members[at].zc,
                               index |-> AddGroup(walk.index, file.members[at])]
  BY DEF NextGroup
<1>8. AddGroup(walk.index, file.members[at]) \in Indexes
  BY <1>1, <1>5, <1>6, AddGroupType
<1> HIDE DEF at
<1>9. at \in Nat /\ gs < at
  BY <1>1, <1>3, <1>4
<1> QED
  BY <1>6, <1>7, <1>8, <1>9 DEF Walks, at

(* The recursion of build() has a solution on every file: each round of    *)
(* the loop gets further, up to the end of the file.                       *)
From(file, from, walk) ==
  IF EndOfGroups(file, walk.group_start) THEN walk.index
  ELSE IF ValidGroup(file, walk.group_start) THEN from[NextGroup(file, walk)]
  ELSE Failed

(* A walk from anywhere ends, since it cannot go on beyond the end of the  *)
(* file.                                                                   *)
LEMMA WalkEnds ==
  ASSUME NEW file, FileType(file)
  PROVE  \E from : from = [walk \in Walks |-> From(file, from, walk)]
<1> DEFINE Round(f) == [walk \in Walks |-> From(file, f, walk)]
           Near(walk, m) == file.length <= walk.group_start + m
           Upto(f, m) == \A walk \in Walks : Near(walk, m) => f[walk] = Round(f)[walk]
           len == file.length
           S == {m \in 0..len : \E f : Upto(f, m)}
<1>1. len \in Nat
  BY DEF FileType
<1>2. 0 \in S
  <2> DEFINE f == [walk \in Walks |-> walk.index]
  <2>1. ASSUME NEW walk \in Walks, Near(walk, 0) PROVE f[walk] = Round(f)[walk]
    <3>1. walk.group_start \in Nat
      BY DEF Walks
    <3>2. EndOfGroups(file, walk.group_start)
      BY <1>1, <2>1, <3>1 DEF EndOfGroups, BEG_HEADER_SIZE
    <3> QED
      BY <3>2 DEF From
  <2> HIDE DEF f, Round
  <2>2. Upto(f, 0)
    BY <2>1
  <2> HIDE DEF Upto
  <2> QED
    BY <1>1, <2>2
<1>3. ASSUME NEW m \in 0 .. len - 1, m \in S PROVE m + 1 \in S
  <2>1. PICK f : Upto(f, m)
    BY <1>3
  <2> DEFINE g == Round(f)
  <2>2. ASSUME NEW walk \in Walks, Near(walk, m + 1) PROVE g[walk] = Round(g)[walk]
    <3>1. CASE Passes(file, walk)
      <4> DEFINE next == NextGroup(file, walk)
      <4>1. next \in Walks /\ walk.group_start < next.group_start
        <5>1. /\ next \in Walks /\ walk.group_start < IdxAt(file, walk.group_start)
              /\ IdxAt(file, walk.group_start) <= next.group_start
          BY <3>1, PassesOn
        <5>2. walk.group_start \in Nat /\ next.group_start \in Nat
          BY <5>1 DEF Walks
        <5>3. IdxAt(file, walk.group_start) \in Nat
          <6>1. /\ walk.group_start \in DOMAIN file.members
                /\ file.members[walk.group_start] \in Members
            BY <3>1 DEF Passes, ValidGroup, StartsGroup, FileType
          <6> QED
            BY <5>2, <6>1 DEF IdxAt, Members
        <5> HIDE DEF next
        <5> QED
          BY <5>1, <5>2, <5>3
      <4>2. Near(next, m)
        <5>1. walk.group_start \in Nat /\ next.group_start \in Nat
          BY <4>1 DEF Walks
        <5> HIDE DEF next
        <5> QED
          BY <1>1, <2>2, <4>1, <5>1
      <4>3. f[next] = Round(f)[next]
        BY <2>1, <4>1, <4>2
      <4>4. g[walk] = f[next] /\ Round(g)[walk] = g[next]
        BY <3>1 DEF From, Passes
      <4> QED
        BY <4>3, <4>4
    <3>2. CASE ~Passes(file, walk)
      BY <3>2 DEF From, Passes
    <3> QED
      BY <3>1, <3>2
  <2> HIDE DEF g, Round
  <2>3. Upto(g, m + 1)
    BY <2>2
  <2> HIDE DEF Upto
  <2> QED
    BY <1>1, <2>3
<1>4. len \in S
  <2> HIDE DEF S, len
  <2>1. \A m \in 0..len : m \in S
    BY <1>1, <1>2, <1>3, InductionUpTo
  <2> QED
    BY <1>1, <2>1
<1>5. PICK f : Upto(f, len)
  BY <1>4
<1>6. ASSUME NEW walk \in Walks PROVE f[walk] = Round(f)[walk]
  <2>1. walk.group_start \in Nat
    BY DEF Walks
  <2>2. Near(walk, len)
    BY <1>1, <2>1
  <2> QED
    BY <1>5, <2>2
<1> DEFINE g == Round(f)
<1>7. ASSUME NEW walk \in Walks PROVE g[walk] = Round(g)[walk]
  <2>1. CASE Passes(file, walk)
    <3>1. NextGroup(file, walk) \in Walks
      BY <2>1, PassesOn
    <3>2. g[NextGroup(file, walk)] = f[NextGroup(file, walk)]
      BY <1>6, <3>1
    <3>3. /\ g[walk] = f[NextGroup(file, walk)]
          /\ Round(g)[walk] = g[NextGroup(file, walk)]
      BY <2>1 DEF From, Passes
    <3> QED
      BY <3>2, <3>3
  <2>2. CASE ~Passes(file, walk)
    BY <2>2 DEF From, Passes
  <2> QED
    BY <2>1, <2>2
<1>8. g = Round(g)
  BY <1>7
<1> HIDE DEF g
<1> QED
  BY <1>8

(* build() goes from one group to the next until it stops.                 *)
LEMMA BuildIs ==
  ASSUME NEW file, FileType(file)
  PROVE  \E from : /\ \A walk \in Walks : from[walk] = From(file, from, walk)
                  /\ Build(file) = from[Start]
<1> DEFINE Solves(f) == f = [walk \in Walks |-> From(file, f, walk)]
           r == CHOOSE f : Solves(f)
<1>1. \E f : Solves(f)
  BY WalkEnds
<1>2. Build(file) = r[Start]
  BY DEF Build, From
<1>3. Solves(r)
  <2> HIDE DEF Solves
  <2> QED
    BY <1>1
<1> HIDE DEF r
<1>4. \A walk \in Walks : r[walk] = From(file, r, walk)
  BY <1>3
<1> QED
  BY <1>2, <1>4

(* The walk starts at the beginning, with an empty index.                  *)
LEMMA StartType == Start \in Walks
<1>1. <<0>> \in Offsets
  BY DEF Offsets
<1> QED
  BY <1>1 DEF Start, NoGroups, Indexes, Walks

-----------------------------------------------------------------------------
(* What the arrays say of the file.                                        *)

Increases(s) == \A i, j \in 1..Len(s) : i < j => s[i] < s[j]

(* The i-th block of an index is a data member of the file, with the part  *)
(* of the stream that the index says.                                      *)
BlockFound(file, index, i) ==
  LET at == index.compressed_offsets[i]
  IN /\ at \in DOMAIN file.members
     /\ file.members[at].kind \in {"beg", "dat"}
     /\ file.members[at].from = index.uncompressed_offsets[i]
     /\ file.members[at].to = index.uncompressed_offsets[i + 1]

Finds(file, index) ==
  /\ index \in Indexes
  /\ Len(index.compressed_offsets) = Len(index.uncompressed_offsets)
  /\ index.compressed_offsets[1] = 0 /\ index.uncompressed_offsets[1] = 0
  /\ Increases(index.compressed_offsets) /\ Increases(index.uncompressed_offsets)
  /\ \A i \in 1..block_count(index) : BlockFound(file, index, i)

(* What happens to a file behind an offset does not matter before it.      *)
SameBelow(old, new, offset) ==
  /\ old.length <= new.length
  /\ \A at \in DOMAIN old.members :
       at < offset => at \in DOMAIN new.members /\ new.members[at] = old.members[at]

(* There is nothing to find in a file without groups.                      *)
LEMMA FindsNothing ==
  ASSUME NEW file
  PROVE  /\ Finds(file, NoGroups)
         /\ Last(NoGroups.compressed_offsets) = 0 /\ Total(NoGroups) = 0
<1>1. NoGroups \in Indexes
  BY StartType DEF Start, Walks
<1>2. /\ NoGroups.compressed_offsets = <<0>> /\ NoGroups.uncompressed_offsets = <<0>>
      /\ Len(<<0>>) = 1 /\ <<0>>[1] = 0
  BY DEF NoGroups
<1>3. Increases(<<0>>)
  BY DEF Increases
<1>4. block_count(NoGroups) = 0
  BY <1>2 DEF block_count
<1> QED
  BY <1>1, <1>2, <1>3, <1>4 DEF Finds, Last, Total

(* Blocks below an offset are found in any file that is the same below it. *)
LEMMA FindsBelow ==
  ASSUME NEW old, NEW new, NEW index, Finds(old, index), NEW offset \in Nat,
         Last(index.compressed_offsets) <= offset, SameBelow(old, new, offset)
  PROVE  Finds(new, index)
<1> DEFINE c == index.compressed_offsets
<1>1. c \in Seq(Nat) /\ Len(c) \in Nat \ {0} /\ Last(c) = c[Len(c)] /\ Last(c) \in Nat
  BY IndexFields, OffsetsProperties DEF Finds
<1>2. ASSUME NEW i \in 1..block_count(index) PROVE BlockFound(new, index, i)
  <2>1. i \in 1..Len(c) /\ i < Len(c)
    BY <1>1 DEF block_count
  <2>2. c[i] < Last(c) /\ c[i] \in Nat
    BY <1>1, <2>1, ElementOfSeq DEF Finds, Increases
  <2>3. c[i] < offset
    BY <1>1, <2>2
  <2>4. BlockFound(old, index, i)
    BY DEF Finds
  <2> QED
    BY <2>3, <2>4 DEF BlockFound, SameBelow
<1> QED
  BY <1>2 DEF Finds

-----------------------------------------------------------------------------
(* The walk so far is good: its index finds its blocks, up to where it is. *)
Fits(file, walk) ==
  Finds(file, walk.index) /\ Last(walk.index.compressed_offsets) = walk.group_start

(* The rounds w of the loop up to the n-th, each further than the one      *)
(* before, over groups whose blocks are found.                             *)
Rounds(file, n, w) ==
  /\ w \in [0..n -> Walks]
  /\ w[0] = Start
  /\ \A k \in 1..n : Passes(file, w[k - 1]) /\ w[k] = NextGroup(file, w[k - 1])
  /\ \A j, k \in 0..n : j < k => /\ w[j].group_start < w[k].group_start
                                /\ IdxAt(file, w[j].group_start) < w[k].group_start
  /\ \A k \in 0..n : Fits(file, w[k])

(* The loop gets to this point.                                            *)
Reached(file, walk) == \E n \in Nat : \E w : Rounds(file, n, w) /\ w[n] = walk

(* The start is reached.                                                   *)
LEMMA ReachedStart ==
  ASSUME NEW file
  PROVE  Reached(file, Start)
<1> DEFINE w == [k \in 0..0 |-> Start]
<1>1. /\ w \in [0..0 -> Walks] /\ w[0] = Start
      /\ \A k \in 0..0 : w[k] = Start
  BY StartType
<1>2. Fits(file, Start)
  BY FindsNothing DEF Fits, Start
<1> HIDE DEF w
<1>3. Rounds(file, 0, w)
  BY <1>1, <1>2 DEF Rounds
<1>4. 0 \in Nat
  OBVIOUS
<1> QED
  BY <1>1, <1>3, <1>4 DEF Reached

(* What is reached is a walk, and good.                                    *)
LEMMA ReachedType ==
  ASSUME NEW file, NEW walk, Reached(file, walk)
  PROVE  /\ walk \in Walks /\ walk.group_start \in Nat /\ walk.index \in Indexes
         /\ Fits(file, walk)
<1>1. PICK n \in Nat : \E w : Rounds(file, n, w) /\ w[n] = walk
  BY DEF Reached
<1>2. PICK w : Rounds(file, n, w) /\ w[n] = walk
  BY <1>1
<1>3. w \in [0..n -> Walks] /\ Fits(file, w[n])
  BY <1>2 DEF Rounds
<1>4. walk \in Walks
  BY <1>2, <1>3
<1> QED
  BY <1>2, <1>3, <1>4 DEF Walks

(* From a sealed group it gets behind it.                                  *)
LEMMA ReachedNext ==
  ASSUME NEW file, FileType(file), NEW walk, Reached(file, walk), Passes(file, walk),
         file.members[IdxAt(file, walk.group_start)].zc # 0,
         Fits(file, NextGroup(file, walk))
  PROVE  Reached(file, NextGroup(file, walk))
<1> DEFINE next == NextGroup(file, walk)
           at == IdxAt(file, walk.group_start)
<1>1. walk \in Walks /\ walk.group_start \in Nat
  BY ReachedType
<1>2. next \in Walks /\ walk.group_start < at /\ next.group_start \in Nat
  BY <1>1, PassesOn DEF Walks
<1>3. at \in Nat /\ at < next.group_start
  <2>1. at \in DOMAIN file.members
    BY DEF Passes, ValidGroup, IsIdx
  <2>2. at \in Nat /\ file.members[at].zc \in Nat
    BY <2>1 DEF FileType, Members
  <2>3. next.group_start = at + file.members[at].zc
    BY DEF NextGroup
  <2> HIDE DEF next, at
  <2> QED
    BY <2>2, <2>3 DEF at
<1>4. PICK n \in Nat : \E w : Rounds(file, n, w) /\ w[n] = walk
  BY DEF Reached
<1>5. PICK w : Rounds(file, n, w) /\ w[n] = walk
  BY <1>4
<1>6. PICK p \in Nat : p = n + 1
  OBVIOUS
<1>7. Fits(file, next)
  OBVIOUS
<1> HIDE DEF next
<1> DEFINE v == [k \in 0..p |-> IF k = p THEN next ELSE w[k]]
<1>8. w \in [0..n -> Walks] /\ w[0] = Start
  BY <1>5 DEF Rounds
<1>9. /\ v \in [0..p -> Walks] /\ v[p] = next
      /\ \A k \in 0..n : v[k] = w[k]
  BY <1>2, <1>6, <1>8
<1> HIDE DEF v
<1>10. v[0] = Start
  BY <1>8, <1>9
<1>11. ASSUME NEW k \in 1..p
       PROVE  Passes(file, v[k - 1]) /\ v[k] = NextGroup(file, v[k - 1])
  <2>1. CASE k = p
    <3>1. v[k - 1] = walk
      BY <1>5, <1>6, <1>9, <2>1
    <3> QED
      BY <1>9, <2>1, <3>1 DEF next
  <2>2. CASE k \in 1..n
    <3>1. v[k] = w[k] /\ v[k - 1] = w[k - 1]
      BY <1>9, <2>2
    <3>2. Passes(file, w[k - 1]) /\ w[k] = NextGroup(file, w[k - 1])
      BY <1>5, <2>2 DEF Rounds
    <3> QED
      BY <3>1, <3>2
  <2> QED
    BY <1>6, <2>1, <2>2
<1>12. ASSUME NEW j \in 0..p, NEW k \in 0..p, j < k
       PROVE  /\ v[j].group_start < v[k].group_start
              /\ IdxAt(file, v[j].group_start) < v[k].group_start
  <2>1. j \in 0..n /\ v[j] = w[j]
    BY <1>6, <1>9, <1>12
  <2>2. CASE k \in 0..n
    <3>1. v[k] = w[k]
      BY <1>9, <2>2
    <3> QED
      BY <1>5, <1>12, <2>1, <2>2, <3>1 DEF Rounds
  <2>3. CASE k = p
    <3>1. v[k] = next
      BY <1>9, <2>3
    <3>2. CASE j = n
      BY <1>1, <1>2, <1>3, <1>5, <2>1, <3>1, <3>2
    <3>3. CASE j # n
      <4>1. n \in 0..n /\ j < n
        BY <2>1, <3>3
      <4>2. /\ w[j].group_start < walk.group_start
            /\ IdxAt(file, w[j].group_start) < walk.group_start
        BY <1>5, <2>1, <4>1 DEF Rounds
      <4>3. w[j].group_start \in Nat
        BY <1>8, <2>1 DEF Walks
      <4>4. IdxAt(file, w[j].group_start) \in Nat
        <5>1. j + 1 \in 1..n /\ (j + 1) - 1 = j
          BY <2>1, <4>1
        <5>2. Passes(file, w[j])
          BY <1>5, <5>1 DEF Rounds
        <5> QED
          BY <5>2 DEF Passes, ValidGroup, IsIdx, FileType
      <4>5. walk.group_start < next.group_start
        BY <1>1, <1>2, <1>3
      <4> QED
        BY <1>1, <1>2, <2>1, <3>1, <4>2, <4>3, <4>4, <4>5
    <3> QED
      BY <3>2, <3>3
  <2> QED
    BY <1>6, <2>2, <2>3
<1>13. ASSUME NEW k \in 0..p PROVE Fits(file, v[k])
  <2>1. CASE k = p
    BY <1>7, <1>9, <2>1
  <2>2. CASE k \in 0..n
    BY <1>5, <1>9, <2>2 DEF Rounds
  <2> QED
    BY <1>6, <2>1, <2>2
<1>14. Rounds(file, p, v)
  BY <1>9, <1>10, <1>11, <1>12, <1>13 DEF Rounds
<1>15. \E u : Rounds(file, p, u) /\ u[p] = next
  BY <1>9, <1>14
<1> QED
  BY <1>6, <1>15 DEF Reached, next

(* A group below an offset is passed in any file that is the same below    *)
(* it.                                                                     *)
LEMMA PassesBelow ==
  ASSUME NEW old, FileType(old), NEW new, FileType(new), NEW walk \in Walks,
         NEW offset, SameBelow(old, new, offset), Passes(old, walk),
         walk.group_start < offset, IdxAt(old, walk.group_start) < offset
  PROVE  /\ Passes(new, walk)
         /\ IdxAt(new, walk.group_start) = IdxAt(old, walk.group_start)
         /\ NextGroup(new, walk) = NextGroup(old, walk)
<1> DEFINE gs == walk.group_start
           at == IdxAt(old, gs)
<1>1. gs \in Nat
  BY DEF Walks
<1>2. /\ gs \in DOMAIN old.members /\ old.members[gs].kind = "beg"
      /\ gs + BEG_HEADER_SIZE <= old.length /\ old.members[gs].gc # 0
  BY <1>1 DEF Passes, ValidGroup, StartsGroup, EndOfGroups, FileType, BEG_HEADER_SIZE
<1>3. /\ at \in DOMAIN old.members /\ old.members[at].kind = "idx"
      /\ Xlen(old.members[at]) >= XlenBase
      /\ at + IDX_HEADER_BASE_SIZE + (Xlen(old.members[at]) - XlenBase) <= old.length
  BY DEF Passes, ValidGroup, IsIdx
<1>4. gs \in DOMAIN new.members /\ new.members[gs] = old.members[gs]
  BY <1>2 DEF SameBelow
<1>5. at \in DOMAIN new.members /\ new.members[at] = old.members[at]
  BY <1>3 DEF SameBelow
<1>6. IdxAt(new, gs) = at
  BY <1>4 DEF IdxAt
<1>7. old.length \in Nat /\ new.length \in Nat /\ old.length <= new.length
  BY DEF SameBelow, FileType
<1>8. ~EndOfGroups(new, gs)
  BY <1>1, <1>2, <1>4, <1>7 DEF EndOfGroups, BEG_HEADER_SIZE
<1>9. IsIdx(new, at)
  <2>1. old.members[at] \in Members /\ at \in Nat
    BY <1>3 DEF FileType
  <2>2. Xlen(old.members[at]) - XlenBase \in Nat
    BY <1>3, <2>1, NumEntries
  <2>3. PICK x \in Nat : x = Xlen(old.members[at]) - XlenBase
    BY <2>2
  <2> HIDE DEF at
  <2>4. at + IDX_HEADER_BASE_SIZE + x <= new.length
    BY <1>3, <1>7, <2>1, <2>3 DEF IDX_HEADER_BASE_SIZE
  <2> QED
    BY <1>3, <1>5, <2>3, <2>4 DEF IsIdx
<1>10. Passes(new, walk)
  BY <1>2, <1>4, <1>6, <1>8, <1>9 DEF Passes, ValidGroup, StartsGroup
<1>11. NextGroup(new, walk) = NextGroup(old, walk)
  BY <1>5, <1>6 DEF NextGroup
<1> QED
  BY <1>6, <1>10, <1>11

(* So is all that leads to it.                                             *)
LEMMA ReachedBelow ==
  ASSUME NEW old, FileType(old), NEW new, FileType(new),
         NEW walk, SameBelow(old, new, walk.group_start), Reached(old, walk)
  PROVE  Reached(new, walk)
<1>1. PICK n \in Nat : \E w : Rounds(old, n, w) /\ w[n] = walk
  BY DEF Reached
<1>2. PICK w : Rounds(old, n, w) /\ w[n] = walk
  BY <1>1
<1>3. w \in [0..n -> Walks] /\ w[0] = Start /\ n \in 0..n /\ walk.group_start \in Nat
  BY <1>2, ReachedType DEF Rounds
<1>4. ASSUME NEW k \in 0..n, k < n
      PROVE  /\ Passes(new, w[k])
             /\ IdxAt(new, w[k].group_start) = IdxAt(old, w[k].group_start)
             /\ NextGroup(new, w[k]) = NextGroup(old, w[k])
  <2>1. w[k] \in Walks
    BY <1>3
  <2>2. /\ IdxAt(old, w[k].group_start) < walk.group_start
        /\ w[k].group_start < walk.group_start
    BY <1>2, <1>3, <1>4 DEF Rounds
  <2>3. Passes(old, w[k])
    <3>1. k + 1 \in 1..n /\ (k + 1) - 1 = k
      BY <1>4
    <3> QED
      BY <1>2, <3>1 DEF Rounds
  <2> QED
    BY <2>1, <2>2, <2>3, PassesBelow
<1>5. ASSUME NEW k \in 1..n
      PROVE  Passes(new, w[k - 1]) /\ w[k] = NextGroup(new, w[k - 1])
  <2>1. k - 1 \in 0..n /\ k - 1 < n
    OBVIOUS
  <2>2. w[k] = NextGroup(old, w[k - 1])
    BY <1>2 DEF Rounds
  <2> QED
    BY <1>4, <2>1, <2>2
<1>6. ASSUME NEW j \in 0..n, NEW k \in 0..n, j < k
      PROVE  /\ w[j].group_start < w[k].group_start
             /\ IdxAt(new, w[j].group_start) < w[k].group_start
  <2>1. j < n
    BY <1>6
  <2>2. /\ w[j].group_start < w[k].group_start
        /\ IdxAt(old, w[j].group_start) < w[k].group_start
    BY <1>2, <1>6 DEF Rounds
  <2> QED
    BY <1>4, <2>1, <2>2
<1>7. ASSUME NEW k \in 0..n PROVE Fits(new, w[k])
  <2>1. Finds(old, w[k].index) /\ Last(w[k].index.compressed_offsets) = w[k].group_start
    BY <1>2 DEF Rounds, Fits
  <2>2. w[k].group_start \in Nat /\ w[k].group_start <= walk.group_start
    <3>1. w[k].group_start \in Nat
      BY <1>3 DEF Walks
    <3>2. CASE k = n
      BY <1>2, <3>1, <3>2
    <3>3. CASE k # n
      <4>1. w[k].group_start < walk.group_start
        BY <1>2, <1>3, <3>3 DEF Rounds
      <4> QED
        BY <1>3, <3>1, <4>1
    <3> QED
      BY <3>2, <3>3
  <2>3. Finds(new, w[k].index)
    BY <1>3, <2>1, <2>2, FindsBelow
  <2> QED
    BY <2>1, <2>3 DEF Fits
<1>8. Rounds(new, n, w)
  BY <1>3, <1>5, <1>6, <1>7 DEF Rounds
<1> QED
  BY <1>2, <1>8 DEF Reached

(* The loop has one way to go: of two points that it gets to, it gets from *)
(* the first over a sealed group and on towards the second.                *)
LEMMA ReachedOn ==
  ASSUME NEW file, FileType(file), NEW walk, Reached(file, walk),
         NEW last, Reached(file, last), walk.group_start <= last.group_start
  PROVE  \/ walk = last
         \/ /\ walk.group_start < last.group_start
            /\ Passes(file, walk)
            /\ IdxAt(file, walk.group_start) < last.group_start
            /\ Reached(file, NextGroup(file, walk))
            /\ NextGroup(file, walk).group_start <= last.group_start
<1>1. PICK n \in Nat : \E w : Rounds(file, n, w) /\ w[n] = walk
  BY DEF Reached
<1>2. PICK w : Rounds(file, n, w) /\ w[n] = walk
  BY <1>1
<1>3. PICK m \in Nat : \E v : Rounds(file, m, v) /\ v[m] = last
  BY DEF Reached
<1>4. PICK v : Rounds(file, m, v) /\ v[m] = last
  BY <1>3
<1>5. walk.group_start \in Nat /\ last.group_start \in Nat
  BY ReachedType
<1> DEFINE S == {k \in 0..n : k <= m => w[k] = v[k]}
<1>6. 0 \in S
  BY <1>2, <1>4 DEF Rounds
<1>7. ASSUME NEW k \in 0 .. n - 1, k \in S PROVE k + 1 \in S
  <2>1. PICK p \in 1..n : p = k + 1 /\ p - 1 = k
    OBVIOUS
  <2>2. ASSUME p <= m PROVE w[p] = v[p]
    <3>1. p \in 1..m /\ k <= m
      BY <2>1, <2>2
    <3>2. w[p] = NextGroup(file, w[p - 1]) /\ v[p] = NextGroup(file, v[p - 1])
      BY <1>2, <1>4, <3>1 DEF Rounds
    <3>3. w[k] = v[k]
      BY <1>7, <3>1
    <3> QED
      BY <2>1, <3>2, <3>3
  <2> QED
    BY <2>1, <2>2
<1>8. \A k \in 0..n : k <= m => w[k] = v[k]
  <2> HIDE DEF S
  <2>1. \A k \in 0..n : k \in S
    BY <1>6, <1>7, InductionUpTo
  <2> QED
    BY <2>1 DEF S
<1>9. CASE n = m
  BY <1>2, <1>4, <1>8, <1>9
<1>10. CASE m < n
  <2>1. w[m] = last
    BY <1>4, <1>8, <1>10
  <2>2. last.group_start < walk.group_start
    BY <1>2, <1>10, <2>1 DEF Rounds
  <2> QED
    BY <1>5, <2>2
<1>11. CASE n < m
  <2>1. v[n] = walk
    BY <1>2, <1>8, <1>11
  <2>2. PICK p \in 1..m : p = n + 1 /\ p - 1 = n
    BY <1>11
  <2>3. Passes(file, walk) /\ v[p] = NextGroup(file, walk)
    BY <1>4, <2>1, <2>2 DEF Rounds
  <2>4. /\ walk.group_start < last.group_start
        /\ IdxAt(file, walk.group_start) < last.group_start
        /\ IdxAt(file, walk.group_start) < v[p].group_start
        /\ Fits(file, v[p])
    BY <1>4, <1>11, <2>1, <2>2 DEF Rounds
  <2>5. file.members[IdxAt(file, walk.group_start)].zc # 0
    <3>1. IdxAt(file, walk.group_start) \in DOMAIN file.members
      BY <2>3 DEF Passes, ValidGroup, IsIdx
    <3>2. IdxAt(file, walk.group_start) \in Nat
      BY <3>1 DEF FileType
    <3>3. v[p].group_start = IdxAt(file, walk.group_start)
                             + file.members[IdxAt(file, walk.group_start)].zc
      BY <2>3 DEF NextGroup
    <3> QED
      BY <2>4, <3>2, <3>3
  <2>6. Reached(file, NextGroup(file, walk))
    BY <2>3, <2>4, <2>5, ReachedNext
  <2>7. v[p].group_start <= last.group_start
    <3>1. CASE p = m
      BY <1>4, <1>5, <3>1
    <3>2. CASE p # m
      <4>1. v[p].group_start < last.group_start
        BY <1>4, <2>2, <3>2 DEF Rounds
      <4>2. v[p].group_start \in Nat
        BY <2>3, <2>6, ReachedType
      <4> QED
        BY <1>5, <4>1, <4>2
    <3> QED
      BY <3>1, <3>2
  <2> QED
    BY <2>3, <2>4, <2>6, <2>7
<1> QED
  BY <1>9, <1>10, <1>11

(* When the loop gets to its end, the arrays so far are the index.         *)
LEMMA ReachedBuild ==
  ASSUME NEW file, FileType(file), NEW walk, Reached(file, walk),
         EndOfGroups(file, walk.group_start)
  PROVE  Build(file) = walk.index
<1>1. PICK from : /\ \A r \in Walks : from[r] = From(file, from, r)
                  /\ Build(file) = from[Start]
  BY BuildIs
<1>2. PICK n \in Nat : \E w : Rounds(file, n, w) /\ w[n] = walk
  BY DEF Reached
<1>3. PICK w : Rounds(file, n, w) /\ w[n] = walk
  BY <1>2
<1>4. w \in [0..n -> Walks] /\ w[0] = Start
  BY <1>3 DEF Rounds
<1> DEFINE S == {k \in 0..n : from[w[k]] = from[Start]}
<1>5. 0 \in S
  BY <1>4
<1>6. ASSUME NEW k \in 0 .. n - 1, k \in S PROVE k + 1 \in S
  <2>1. PICK p \in 1..n : p = k + 1
    OBVIOUS
  <2>2. Passes(file, w[p - 1]) /\ w[p] = NextGroup(file, w[p - 1]) /\ p - 1 = k
    BY <1>3, <2>1 DEF Rounds
  <2>3. w[k] \in Walks
    BY <1>4
  <2>4. from[w[k]] = from[w[p]]
    BY <1>1, <2>2, <2>3 DEF From, Passes
  <2> QED
    BY <1>6, <2>1, <2>4
<1>7. n \in S
  <2> HIDE DEF S
  <2>1. \A k \in 0..n : k \in S
    BY <1>5, <1>6, InductionUpTo
  <2> QED
    BY <2>1
<1>8. walk \in Walks
  BY ReachedType
<1>9. from[walk] = walk.index
  BY <1>1, <1>8 DEF From
<1> QED
  BY <1>1, <1>3, <1>7, <1>9

-----------------------------------------------------------------------------
(* An index has, behind the blocks of acc, n more with the offsets t and u,*)
(* and x bytes behind the last.                                            *)
Grown(acc, index, n, t, u, x) ==
  LET len == Len(acc.compressed_offsets)
  IN /\ index \in Indexes
     /\ Len(index.compressed_offsets) = len + n /\ Len(index.uncompressed_offsets) = len + n
     /\ \A i \in 1..len : /\ index.compressed_offsets[i] = acc.compressed_offsets[i]
                         /\ index.uncompressed_offsets[i] = acc.uncompressed_offsets[i]
     /\ \A j \in 0 .. n - 1 : index.compressed_offsets[len + j] = t[j]
     /\ index.compressed_offsets[len + n] = t[n] + x
     /\ \A j \in 0..n : index.uncompressed_offsets[len + j] = u[j]

(* A group whose entries add up makes both arrays grow by it.              *)
LEMMA GroupGrows ==
  ASSUME NEW n \in Nat \ {0}, NEW acc \in Indexes,
         Len(acc.compressed_offsets) = Len(acc.uncompressed_offsets),
         NEW idx, idx.entries \in Seq(IndexEntries), Len(idx.entries) = n, idx.zc \in Nat,
         (Xlen(idx) - XlenBase) \div EntrySize = n, NEW t, NEW u,
         Adds(n, Last(acc.compressed_offsets), CompressedSizes(idx.entries), t),
         Adds(n, Last(acc.uncompressed_offsets), UncompressedSizes(idx.entries), u)
  PROVE  Grown(acc, AddGroup(acc, idx), n, t, u, idx.zc)
<1> DEFINE blocks == AddEntries(acc, idx.entries, n)
           c == acc.compressed_offsets
           d == acc.uncompressed_offsets
           b == blocks.compressed_offsets
           new == AddGroup(acc, idx)
<1>1. Extended(acc, blocks, n, t, u)
  BY EntriesExtend
<1>2. c \in Offsets /\ d \in Offsets
  BY IndexFields
<1>3. PICK len \in Nat \ {0} : len = Len(c) /\ len = Len(d)
  BY <1>2, OffsetsProperties
<1>4. blocks \in Indexes /\ Continues(c, b, n, t)
      /\ Continues(d, blocks.uncompressed_offsets, n, u)
  BY <1>1 DEF Extended
<1> HIDE DEF blocks, new
<1>5. b \in Offsets /\ Len(b) = len + n /\ Last(b) = t[n]
  <2>1. n \in Nat /\ Continues(c, b, n, t)
    BY <1>4
  <2> HIDE DEF b, c
  <2>2. b \in Offsets /\ Len(b) = Len(c) + n /\ Last(b) = t[n]
    BY <1>2, <2>1, ContinuesType
  <2> QED
    BY <1>3, <2>2
<1>6. /\ new \in Indexes
      /\ new.compressed_offsets = Raised(b, idx.zc)
      /\ new.uncompressed_offsets = blocks.uncompressed_offsets
  BY <1>4, AddGroupIs DEF blocks, new
<1>7. /\ Raised(b, idx.zc) \in Offsets /\ Len(Raised(b, idx.zc)) = Len(b)
      /\ \A i \in 1 .. Len(b) - 1 : Raised(b, idx.zc)[i] = b[i]
      /\ Last(Raised(b, idx.zc)) = Last(b) + idx.zc
  BY <1>5, LastRaised
<1>8. ASSUME NEW i \in 1..len
      PROVE  /\ new.compressed_offsets[i] = c[i]
             /\ new.uncompressed_offsets[i] = d[i]
  <2>1. i \in 1 .. Len(b) - 1
    BY <1>5
  <2>2. b[i] = c[i] /\ blocks.uncompressed_offsets[i] = d[i]
    BY <1>3, <1>4 DEF Continues
  <2> QED
    BY <1>6, <1>7, <2>1, <2>2
<1>9. ASSUME NEW j \in 0 .. n - 1 PROVE new.compressed_offsets[len + j] = t[j]
  <2>1. len + j \in 1 .. Len(b) - 1
    BY <1>5
  <2>2. b[len + j] = t[j]
    BY <1>3, <1>4 DEF Continues
  <2> QED
    BY <1>6, <1>7, <2>1, <2>2
<1>10. new.compressed_offsets[len + n] = t[n] + idx.zc
  BY <1>5, <1>6, <1>7 DEF Last
<1>11. /\ Len(new.uncompressed_offsets) = len + n
       /\ \A j \in 0..n : new.uncompressed_offsets[len + j] = u[j]
  BY <1>3, <1>4, <1>6 DEF Continues
<1> QED
  BY <1>3, <1>5, <1>6, <1>7, <1>8, <1>9, <1>10, <1>11 DEF Grown, new

(* A group of n blocks that follow each other in the file, at t, and in    *)
(* the stream, up to u.                                                    *)
Consecutive(file, n, t, u) ==
  /\ t \in [0..n -> Nat] /\ u \in [0..n -> Nat]
  /\ \A j \in 1..n :
       /\ t[j - 1] < t[j] /\ u[j - 1] < u[j]
       /\ t[j - 1] \in DOMAIN file.members
       /\ file.members[t[j - 1]].kind \in {"beg", "dat"}
       /\ file.members[t[j - 1]].from = u[j - 1]
       /\ file.members[t[j - 1]].to = u[j]

(* Steps upwards make an increasing function.                              *)
LEMMA StepsIncrease ==
  ASSUME NEW n \in Nat, NEW t \in [0..n -> Nat], \A j \in 1..n : t[j - 1] < t[j]
  PROVE  \A i, j \in 0..n : i < j => t[i] < t[j]
<1> DEFINE S == {k \in 0..n : \A i \in 0..k : i < k => t[i] < t[k]}
<1>1. 0 \in S
  OBVIOUS
<1>2. ASSUME NEW k \in 0 .. n - 1, k \in S PROVE k + 1 \in S
  <2>1. PICK p \in 1..n : p = k + 1 /\ p - 1 = k
    OBVIOUS
  <2>2. t[k] < t[p] /\ t[k] \in Nat /\ t[p] \in Nat
    BY <2>1
  <2>3. ASSUME NEW i \in 0..p, i < p PROVE t[i] < t[p]
    <3>1. CASE i = k
      BY <2>2, <3>1
    <3>2. CASE i \in 0..k /\ i < k
      <4>1. t[i] < t[k] /\ t[i] \in Nat
        BY <1>2, <3>2
      <4> QED
        BY <2>2, <4>1
    <3> QED
      BY <2>1, <2>3, <3>1, <3>2
  <2> QED
    BY <2>1, <2>3
<1>3. \A k \in 0..n : k \in S
  <2> HIDE DEF S
  <2> QED
    BY <1>1, <1>2, InductionUpTo
<1> QED
  BY <1>3

(* The offsets of a grown index increase if those of the group do.         *)
GrowsBy(a, b, len, n, t, x) ==
  /\ a \in Seq(Nat) /\ Len(a) = len /\ b \in Seq(Nat) /\ Len(b) = len + n
  /\ t \in [0..n -> Nat] /\ \A j \in 1..n : t[j - 1] < t[j]
  /\ a[len] = t[0]
  /\ \A i \in 1 .. len - 1 : b[i] = a[i]
  /\ \A j \in 0 .. n - 1 : b[len + j] = t[j]
  /\ b[len + n] = t[n] + x

(* The arrays still increase.                                              *)
LEMMA GrownIncreases ==
  ASSUME NEW n \in Nat, NEW len \in Nat \ {0}, NEW a, NEW b, NEW t, NEW x \in Nat,
         GrowsBy(a, b, len, n, t, x), Increases(a)
  PROVE  Increases(b)
<1>a. PICK p \in Nat : p = len + n
  OBVIOUS
<1>b. /\ a \in Seq(Nat) /\ Len(a) = len /\ b \in Seq(Nat) /\ Len(b) = p
      /\ t \in [0..n -> Nat] /\ \A j \in 1..n : t[j - 1] < t[j]
      /\ a[len] = t[0]
      /\ \A i \in 1 .. len - 1 : b[i] = a[i]
      /\ \A j \in 0 .. n - 1 : b[len + j] = t[j]
      /\ b[p] = t[n] + x
  BY <1>a DEF GrowsBy
<1>1. \A i, j \in 0..n : i < j => t[i] < t[j]
  BY <1>b, StepsIncrease
<1>2. \A i \in 1 .. len - 1 : a[i] < t[0] /\ a[i] \in Nat
  BY <1>b, ElementOfSeq DEF Increases
<1>3. ASSUME NEW i \in 1..p, NEW k \in 1..p, i < k PROVE b[i] < b[k]
  <2>1. b[i] \in Nat /\ b[k] \in Nat
    BY <1>b, ElementOfSeq
  <2>2. CASE k \in 1 .. len - 1
    <3>1. i \in 1 .. len - 1 /\ i \in 1..Len(a) /\ k \in 1..Len(a)
      BY <1>b, <1>3, <2>2
    <3>2. a[i] < a[k]
      BY <1>3, <3>1 DEF Increases
    <3> QED
      BY <1>b, <2>2, <3>1, <3>2
  <2>3. CASE k \in len..p
    <3>1. PICK m \in 0..n : m = k - len /\ k = len + m
      BY <1>a, <2>3
    <3>2. b[k] >= t[m] /\ t[m] \in Nat
      <4>1. CASE m = n
        <5>1. b[k] = t[n] + x
          BY <1>a, <1>b, <3>1, <4>1
        <5> QED
          BY <1>b, <4>1, <5>1
      <4>2. CASE m \in 0 .. n - 1
        BY <1>b, <3>1, <4>2
      <4> QED
        BY <4>1, <4>2
    <3>3. CASE i \in 1 .. len - 1
      <4>1. b[i] < t[0] /\ t[0] \in Nat
        BY <1>b, <1>2, <3>3
      <4>2. t[0] <= t[m]
        <5>1. CASE m = 0
          BY <1>b, <5>1
        <5>2. CASE 0 < m
          <6>1. 0 \in 0..n /\ t[0] \in Nat /\ t[m] \in Nat
            BY <1>b
          <6>2. t[0] < t[m]
            BY <1>1, <5>2, <6>1
          <6> QED
            BY <6>1, <6>2
        <5> QED
          BY <5>1, <5>2
      <4> QED
        BY <2>1, <3>2, <4>1, <4>2
    <3>4. CASE i \in len..p
      <4>1. PICK l \in 0..n : l = i - len /\ i = len + l
        BY <1>a, <3>4
      <4>2. l \in 0 .. n - 1 /\ l < m
        BY <1>3, <3>1, <4>1
      <4>3. b[i] = t[l] /\ t[l] \in Nat
        BY <1>b, <4>1, <4>2
      <4>4. t[l] < t[m]
        BY <1>1, <4>2
      <4> QED
        BY <2>1, <3>2, <4>3, <4>4
    <3> QED
      BY <3>3, <3>4
  <2> QED
    BY <2>2, <2>3
<1> QED
  BY <1>b, <1>3 DEF Increases

(* A group adds its blocks to what the index finds.                        *)
LEMMA FindsGrown ==
  ASSUME NEW file, NEW acc, Finds(file, acc), NEW n \in Nat \ {0}, NEW t, NEW u,
         Consecutive(file, n, t, u), t[0] = Last(acc.compressed_offsets), u[0] = Total(acc),
         NEW x \in Nat, NEW index, Grown(acc, index, n, t, u, x)
  PROVE  /\ Finds(file, index)
         /\ Last(index.compressed_offsets) = t[n] + x /\ Total(index) = u[n]
<1> DEFINE a == acc.compressed_offsets
           d == acc.uncompressed_offsets
           b == index.compressed_offsets
           e == index.uncompressed_offsets
<1>1. /\ acc \in Indexes /\ Len(a) = Len(d) /\ a[1] = 0 /\ d[1] = 0
      /\ Increases(a) /\ Increases(d)
      /\ \A i \in 1..block_count(acc) : BlockFound(file, acc, i)
  BY DEF Finds
<1>2. /\ a \in Seq(Nat) /\ d \in Seq(Nat) /\ Len(a) \in Nat \ {0}
      /\ Last(a) = a[Len(a)] /\ Last(d) = d[Len(d)]
  BY <1>1, IndexFields, OffsetsProperties
<1>3. PICK len \in Nat \ {0} : len = Len(a)
  BY <1>2
<1>4. PICK p \in Nat \ {0} : p = len + n
  OBVIOUS
<1>5. /\ index \in Indexes /\ Len(b) = p /\ Len(e) = p
      /\ \A i \in 1..len : b[i] = a[i] /\ e[i] = d[i]
      /\ \A j \in 0 .. n - 1 : b[len + j] = t[j]
      /\ b[p] = t[n] + x
      /\ \A j \in 0..n : e[len + j] = u[j]
  BY <1>3, <1>4 DEF Grown
<1>6. b \in Seq(Nat) /\ e \in Seq(Nat) /\ Last(b) = b[p] /\ Last(e) = e[p]
  BY <1>5, IndexFields, OffsetsProperties
<1>7. a[len] = t[0] /\ d[len] = u[0]
  BY <1>1, <1>2, <1>3 DEF Total
<1>8. t \in [0..n -> Nat] /\ u \in [0..n -> Nat]
      /\ \A j \in 1..n : t[j - 1] < t[j] /\ u[j - 1] < u[j]
  BY DEF Consecutive
<1> HIDE DEF a, b, d, e
<1>9. Increases(b)
  <2>1. Len(b) = len + n /\ b[len + n] = t[n] + x
    BY <1>4, <1>5
  <2>2. /\ \A i \in 1 .. len - 1 : b[i] = a[i]
        /\ \A j \in 0 .. n - 1 : b[len + j] = t[j]
    BY <1>5
  <2>3. a \in Seq(Nat) /\ Len(a) = len /\ b \in Seq(Nat) /\ a[len] = t[0]
    BY <1>2, <1>3, <1>6, <1>7
  <2>4. t \in [0..n -> Nat] /\ \A j \in 1..n : t[j - 1] < t[j]
    BY <1>8
  <2>5. GrowsBy(a, b, len, n, t, x)
    BY <2>1, <2>2, <2>3, <2>4 DEF GrowsBy
  <2> QED
    BY <1>1, <2>5, GrownIncreases
<1>10. Increases(e)
  <2>1. \A j \in 0 .. n - 1 : e[len + j] = u[j]
    BY <1>5
  <2>2. e[p] = u[n] + 0
    BY <1>4, <1>5, <1>8
  <2>3. Len(d) = len
    BY <1>1, <1>3
  <2>4. \A i \in 1 .. len - 1 : e[i] = d[i]
    BY <1>5
  <2>5. Len(e) = len + n /\ e[len + n] = u[n] + 0
    BY <1>4, <1>5, <2>2
  <2>6. u \in [0..n -> Nat] /\ \A j \in 1..n : u[j - 1] < u[j]
    BY <1>8
  <2>7. GrowsBy(d, e, len, n, u, 0)
    BY <1>2, <1>6, <1>7, <2>1, <2>3, <2>4, <2>5, <2>6 DEF GrowsBy
  <2> QED
    BY <1>1, <2>7, GrownIncreases
<1>11. b[1] = 0 /\ e[1] = 0
  BY <1>1, <1>5
<1>12. ASSUME NEW i \in 1 .. p - 1 PROVE BlockFound(file, index, i)
  <2>1. CASE i \in 1 .. len - 1
    <3>1. BlockFound(file, acc, i)
      <4>1. block_count(acc) = len - 1
        BY <1>3 DEF block_count, a
      <4> QED
        BY <1>1, <2>1, <4>1
    <3>2. b[i] = a[i] /\ e[i] = d[i] /\ e[i + 1] = d[i + 1]
      BY <1>5, <2>1
    <3> QED
      BY <3>1, <3>2 DEF BlockFound, a, b, d, e
  <2>2. CASE i \in len .. p - 1
    <3>1. PICK k \in 1..n : k = i - len + 1 /\ k - 1 = i - len
      BY <1>4, <2>2
    <3>2. k - 1 \in 0 .. n - 1 /\ i = len + (k - 1) /\ i + 1 = len + k /\ k - 1 \in 0..n
      BY <3>1
    <3>3. b[i] = t[k - 1] /\ e[i] = u[k - 1] /\ e[i + 1] = u[k]
      BY <1>5, <3>2
    <3>4. /\ t[k - 1] \in DOMAIN file.members
          /\ file.members[t[k - 1]].kind \in {"beg", "dat"}
          /\ file.members[t[k - 1]].from = u[k - 1]
          /\ file.members[t[k - 1]].to = u[k]
      BY DEF Consecutive
    <3> QED
      BY <3>3, <3>4 DEF BlockFound, b, e
  <2> QED
    BY <2>1, <2>2
<1>13. block_count(index) = p - 1
  BY <1>5 DEF block_count, b
<1>14. Finds(file, index)
  BY <1>5, <1>9, <1>10, <1>11, <1>12, <1>13 DEF Finds, b, e
<1>15. Last(b) = t[n] + x
  BY <1>5, <1>6
<1>16. Last(e) = u[n]
  <2>1. e[len + n] = u[n]
    BY <1>5
  <2> QED
    BY <1>4, <1>6, <2>1
<1>17. Total(index) = u[n]
  BY <1>16 DEF Total, e
<1> QED
  BY <1>14, <1>15, <1>17 DEF b
=============================================================================
