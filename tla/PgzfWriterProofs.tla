-------------------------- MODULE PgzfWriterProofs --------------------------
(***************************************************************************)
(* The writer: what is in its buffers and on the file at any moment, for   *)
(* all constants, and that it implements the durable stream.               *)
(***************************************************************************)
EXTENDS PgzfWriter, PgzfIndexBuildProofs

-----------------------------------------------------------------------------
(* The file below: members end to end, the last of which may be cut short. *)

EndOf(f, at) == at + f.members[at].zc

Follows(f, at) == at = 0 \/ \E before \in DOMAIN f.members : EndOf(f, before) = at

Tiles(f) ==
  \A at \in DOMAIN f.members :
    Follows(f, at) /\ (EndOf(f, at) \in DOMAIN f.members \/ EndOf(f, at) >= f.length)

Within(f) ==
  \A at \in DOMAIN f.members : f.members[at].zc # 0 /\ EndOf(f, at) <= f.length

(* No write has been interrupted.                                          *)
Intact(f) == FileType(f) /\ Within(f) /\ Tiles(f) /\ Follows(f, f.length)

(* There is nothing wrong with an empty file.                              *)
LEMMA EmptyFileIntact ==
  /\ Intact(EmptyFile) /\ EmptyFile.length = 0 /\ DOMAIN EmptyFile.members = {}
<1>1. EmptyFile.members = <<>> /\ EmptyFile.length = 0 /\ DOMAIN <<>> = {}
  BY DEF EmptyFile
<1> QED
  BY <1>1 DEF Intact, FileType, Within, Tiles, Follows

(* A write at the end, complete or not.                                    *)
LEMMA WrittenBehind ==
  ASSUME NEW f, FileType(f), Within(f), NEW m \in Members, NEW size \in Nat, NEW new,
         new = WriteMember(f, f.length, m, size)
  PROVE  /\ FileType(new) /\ new.length = f.length + size
         /\ f.length \notin DOMAIN f.members
         /\ DOMAIN new.members = DOMAIN f.members \cup {f.length}
         /\ new.members[f.length] = m
         /\ \A at \in DOMAIN f.members : new.members[at] = f.members[at]
<1> DEFINE intact == {at \in DOMAIN f.members : ~Overlaps(f, at, f.length, size)}
<1>1. f.length \in Nat /\ DOMAIN f.members \subseteq Nat
  BY DEF FileType
<1>2. ASSUME NEW at \in DOMAIN f.members
      PROVE  /\ at \in Nat /\ f.members[at].zc \in Nat \ {0}
             /\ at + f.members[at].zc <= f.length
  BY DEF FileType, Within, EndOf, Members
<1>3. f.length \notin DOMAIN f.members
  BY <1>1, <1>2
<1>4. intact = DOMAIN f.members
  <2>1. ASSUME NEW at \in DOMAIN f.members PROVE ~Overlaps(f, at, f.length, size)
    BY <1>1, <1>2 DEF Overlaps
  <2> QED
    BY <2>1
<1>5. /\ new.members = [at \in intact \cup {f.length} |->
                          IF at = f.length THEN m ELSE f.members[at]]
      /\ new.length = IF f.length + size > f.length THEN f.length + size ELSE f.length
  BY DEF WriteMember
<1> HIDE DEF intact
<1>6. new.length = f.length + size
  BY <1>1, <1>5
<1>7. /\ DOMAIN new.members = DOMAIN f.members \cup {f.length}
      /\ new.members[f.length] = m
      /\ \A at \in DOMAIN f.members : new.members[at] = f.members[at]
  BY <1>3, <1>4, <1>5
<1>8. FileType(new)
  BY <1>1, <1>6, <1>7 DEF FileType
<1> QED
  BY <1>3, <1>6, <1>7, <1>8

(* It changes nothing before it.                                           *)
LEMMA WrittenIsSame ==
  ASSUME NEW f, FileType(f), Within(f), NEW m \in Members, NEW size \in Nat, NEW new,
         new = WriteMember(f, f.length, m, size), NEW offset
  PROVE  SameBelow(f, new, offset)
<1>1. f.length \in Nat
  BY DEF FileType
<1>2. /\ new.length = f.length + size
      /\ DOMAIN new.members = DOMAIN f.members \cup {f.length}
      /\ \A at \in DOMAIN f.members : new.members[at] = f.members[at]
  BY WrittenBehind
<1> QED
  BY <1>1, <1>2 DEF SameBelow

(* It leaves the members end to end, and no write interrupted if it is     *)
(* complete.                                                               *)
LEMMA WrittenIntact ==
  ASSUME NEW f, Intact(f), NEW m \in Members, NEW size \in Nat, size <= m.zc, NEW new,
         new = WriteMember(f, f.length, m, size)
  PROVE  /\ Tiles(new)
         /\ size = m.zc /\ size # 0 => Intact(new)
<1>1. FileType(f) /\ Within(f) /\ Tiles(f) /\ Follows(f, f.length) /\ f.length \in Nat
  BY DEF Intact, FileType
<1>2. /\ FileType(new) /\ new.length = f.length + size
      /\ f.length \notin DOMAIN f.members
      /\ DOMAIN new.members = DOMAIN f.members \cup {f.length}
      /\ new.members[f.length] = m
      /\ \A at \in DOMAIN f.members : new.members[at] = f.members[at]
  BY <1>1, WrittenBehind
<1>3. /\ \A at \in DOMAIN f.members : EndOf(new, at) = EndOf(f, at)
      /\ EndOf(new, f.length) = f.length + m.zc
  BY <1>2 DEF EndOf
<1>4. m.zc \in Nat
  BY DEF Members
<1>5. ASSUME NEW at, Follows(f, at) PROVE Follows(new, at)
  BY <1>2, <1>3, <1>5 DEF Follows
<1>6. ASSUME NEW at \in DOMAIN new.members
      PROVE  /\ Follows(new, at)
             /\ EndOf(new, at) \in DOMAIN new.members \/ EndOf(new, at) >= new.length
  <2>1. CASE at = f.length
    BY <1>1, <1>2, <1>3, <1>4, <1>5, <2>1
  <2>2. CASE at \in DOMAIN f.members
    <3>1. /\ Follows(f, at) /\ EndOf(f, at) <= f.length
          /\ EndOf(f, at) \in DOMAIN f.members \/ EndOf(f, at) >= f.length
      BY <1>1, <2>2 DEF Tiles, Within
    <3>2. EndOf(f, at) \in Nat
      <4>1. at \in Nat /\ f.members[at] \in Members
        BY <1>1, <2>2 DEF FileType
      <4>2. f.members[at].zc \in Nat
        BY <4>1 DEF Members
      <4> QED
        BY <4>1, <4>2 DEF EndOf
    <3>3. EndOf(f, at) \in DOMAIN f.members \/ EndOf(f, at) = f.length
      BY <1>1, <3>1, <3>2
    <3> QED
      BY <1>2, <1>3, <1>5, <2>2, <3>1, <3>3
  <2> QED
    BY <1>2, <2>1, <2>2
<1>7. Tiles(new)
  BY <1>6 DEF Tiles
<1>8. ASSUME size = m.zc, size # 0 PROVE Intact(new)
  <2>1. Within(new)
    <3>1. ASSUME NEW at \in DOMAIN new.members
          PROVE  new.members[at].zc # 0 /\ EndOf(new, at) <= new.length
      <4>1. CASE at = f.length
        BY <1>1, <1>2, <1>3, <1>4, <1>8, <4>1
      <4>2. CASE at \in DOMAIN f.members
        <5>1. f.members[at].zc # 0 /\ EndOf(f, at) <= f.length /\ EndOf(f, at) \in Nat
          BY <1>1, <4>2 DEF Within, FileType, EndOf, Members
        <5> QED
          BY <1>1, <1>2, <1>3, <4>2, <5>1
      <4> QED
        BY <1>2, <4>1, <4>2
    <3> QED
      BY <3>1 DEF Within
  <2>2. Follows(new, new.length)
    BY <1>2, <1>3, <1>8 DEF Follows
  <2> QED
    BY <1>2, <1>7, <2>1, <2>2 DEF Intact
<1> QED
  BY <1>7, <1>8

(* The GC value goes into the BEG header it is meant for, and changes      *)
(* nothing else.                                                           *)
LEMMA GcWritten ==
  ASSUME NEW f, FileType(f), NEW beg \in DOMAIN f.members, f.members[beg].kind = "beg",
         NEW gc \in Nat, NEW new, new = WriteGc(f, beg + GC_VALUE_OFFSET, gc)
  PROVE  /\ FileType(new) /\ new.length = f.length
         /\ DOMAIN new.members = DOMAIN f.members
         /\ new.members[beg] = [f.members[beg] EXCEPT !.gc = gc]
         /\ \A at \in DOMAIN f.members : at # beg => new.members[at] = f.members[at]
<1>1. beg \in Nat
  BY DEF FileType
<1>2. (beg + GC_VALUE_OFFSET) - GC_VALUE_OFFSET = beg
  BY <1>1 DEF GC_VALUE_OFFSET
<1>3. new = [members |-> [f.members EXCEPT ![beg].gc = gc], length |-> f.length]
  BY <1>2 DEF WriteGc
<1>4. /\ new.length = f.length
      /\ DOMAIN new.members = DOMAIN f.members
      /\ new.members[beg] = [f.members[beg] EXCEPT !.gc = gc]
      /\ \A at \in DOMAIN f.members : at # beg => new.members[at] = f.members[at]
  BY <1>3
<1>5. f.members[beg] \in Members
  BY DEF FileType
<1>6. [f.members[beg] EXCEPT !.gc = gc] \in Members
  BY <1>5 DEF Members
<1>7. FileType(new)
  BY <1>4, <1>6 DEF FileType
<1> QED
  BY <1>4, <1>7

(* A member with another GC value.                                         *)
LEMMA PatchedMember ==
  ASSUME NEW m \in Members, NEW gc \in Nat, NEW new, new = [m EXCEPT !.gc = gc]
  PROVE  /\ new \in Members /\ new.gc = gc /\ new.kind = m.kind /\ new.zc = m.zc
         /\ new.from = m.from /\ new.to = m.to
BY DEF Members

(* It interrupts nothing, and changes nothing before the header.           *)
LEMMA GcIntact ==
  ASSUME NEW f, Intact(f), NEW beg \in DOMAIN f.members, f.members[beg].kind = "beg",
         NEW gc \in Nat, NEW new, new = WriteGc(f, beg + GC_VALUE_OFFSET, gc)
  PROVE  Intact(new) /\ SameBelow(f, new, beg) /\ new.length = f.length
<1>1. FileType(f) /\ Within(f) /\ Tiles(f) /\ Follows(f, f.length) /\ f.length \in Nat
  BY DEF Intact, FileType
<1>2. /\ FileType(new) /\ new.length = f.length
      /\ DOMAIN new.members = DOMAIN f.members
      /\ new.members[beg] = [f.members[beg] EXCEPT !.gc = gc]
      /\ \A at \in DOMAIN f.members : at # beg => new.members[at] = f.members[at]
  BY <1>1, GcWritten
<1>3. \A at \in DOMAIN f.members : new.members[at].zc = f.members[at].zc
  <2>1. f.members[beg] \in Members
    BY <1>1 DEF FileType
  <2>2. new.members[beg].zc = f.members[beg].zc
    BY <1>2, <2>1, PatchedMember
  <2> QED
    BY <1>2, <2>2
<1>4. \A at \in DOMAIN f.members : EndOf(new, at) = EndOf(f, at)
  BY <1>3 DEF EndOf
<1>5. \A at : Follows(f, at) => Follows(new, at)
  BY <1>2, <1>4 DEF Follows
<1>6. Tiles(new)
  BY <1>1, <1>2, <1>4, <1>5 DEF Tiles
<1>7. Within(new)
  BY <1>1, <1>2, <1>3, <1>4 DEF Within
<1>8. Intact(new)
  BY <1>1, <1>2, <1>5, <1>6, <1>7 DEF Intact
<1>9. SameBelow(f, new, beg)
  <2>1. beg \in Nat
    BY <1>1 DEF FileType
  <2>2. ASSUME NEW at \in DOMAIN f.members, at < beg PROVE new.members[at] = f.members[at]
    <3>1. at # beg
      BY <2>1, <2>2
    <3> QED
      BY <1>2, <3>1
  <2>3. f.length <= new.length
    BY <1>1, <1>2
  <2> QED
    BY <1>2, <2>2, <2>3 DEF SameBelow
<1> QED
  BY <1>2, <1>8, <1>9

-----------------------------------------------------------------------------
(* The members of the writer.                                              *)

LEMMA DataMemberIs ==
  ASSUME NEW b \in Blocks, NEW body \in Nat, NEW m, m = DataMember(b.kind, body, b.from, b.to)
  PROVE  /\ m \in Members /\ m.kind = b.kind /\ m.gc = 0 /\ m.from = b.from /\ m.to = b.to
         /\ m.zc \in Nat /\ m.zc # 0 /\ m.kind \in {"beg", "dat"}
<1>1. b.kind \in {"beg", "dat"} /\ b.from \in Nat /\ b.to \in Nat
  BY DEF Blocks
<1> DEFINE size == (IF b.kind = "beg" THEN BEG_HEADER_SIZE ELSE DAT_HEADER_SIZE)
                     + body + PGZF_TAIL_SIZE
<1>2. size \in Nat /\ size # 0
  BY DEF BEG_HEADER_SIZE, DAT_HEADER_SIZE, PGZF_TAIL_SIZE
<1>3. m = [kind |-> b.kind, gc |-> 0, from |-> b.from, to |-> b.to, entries |-> <<>>, zc |-> size]
  BY DEF DataMember
<1>4. <<>> \in Seq(IndexEntries)
  BY EmptySeq
<1> HIDE DEF size
<1>5. /\ m.kind = b.kind /\ m.gc = 0 /\ m.from = b.from /\ m.to = b.to /\ m.zc = size
      /\ m \in [kind : Kinds, zc : Nat, gc : Nat, from : Nat, to : Nat, entries : Seq(IndexEntries)]
  BY <1>1, <1>2, <1>3, <1>4 DEF Kinds
<1> QED
  BY <1>1, <1>2, <1>5 DEF Members

(* The IDX member of a group.                                              *)
LEMMA IdxMemberIs ==
  ASSUME NEW entries \in Seq(IndexEntries), NEW m, m = IdxMember(EmptyBody, entries)
  PROVE  /\ m \in Members /\ m.kind = "idx" /\ m.entries = entries /\ m.gc = 0
         /\ m.zc = IDX_HEADER_BASE_SIZE + EntrySize * Len(entries) + EmptyBody + PGZF_TAIL_SIZE
         /\ m.zc \in Nat /\ m.zc # 0
<1> DEFINE size == IDX_HEADER_BASE_SIZE + EntrySize * Len(entries) + EmptyBody + PGZF_TAIL_SIZE
<1>1. Len(entries) \in Nat
  BY LenProperties
<1>2. size \in Nat /\ size # 0
  BY <1>1 DEF IDX_HEADER_BASE_SIZE, EntrySize, EmptyBody, PGZF_TAIL_SIZE
<1>3. m = [kind |-> "idx", gc |-> 0, from |-> 0, to |-> 0, entries |-> entries, zc |-> size]
  BY DEF IdxMember
<1> HIDE DEF size
<1>4. /\ m.kind = "idx" /\ m.entries = entries /\ m.gc = 0 /\ m.zc = size
      /\ m \in [kind : Kinds, zc : Nat, gc : Nat, from : Nat, to : Nat, entries : Seq(IndexEntries)]
  BY <1>2, <1>3 DEF Kinds
<1> QED
  BY <1>2, <1>4 DEF Members, size

-----------------------------------------------------------------------------
(* What is in the buffers, and where a call is.                            *)

InOrder(blocks, end) ==
  /\ Len(blocks) > 0 => blocks[Len(blocks)].to = end
  /\ \A i \in 1..Len(blocks) :
       /\ blocks[i].kind = IF i = 1 THEN "beg" ELSE "dat"
       /\ blocks[i].from < blocks[i].to
       /\ blocks[i].to - blocks[i].from <= block_size
       /\ i > 1 => blocks[i].from = blocks[i - 1].to

Calls ==
  /\ session.from + buffer_len <= accepted
  /\ step # "idle" => call # "none" /\ pending_blocks # <<>> /\ buffer_len = 0
  /\ call \in {"finish", "finish_buffer"} =>
       buffer_len = 0 /\ (step = "idle" => pending_blocks = <<>>)
  /\ outcome = "finished" =>
       call = "none" /\ step = "idle" /\ pending_blocks = <<>> /\ buffer_len = 0
  /\ Len(pending_blocks) <= MaxBlocks

(* The GC value is still to be patched.                                    *)
GcPends ==
  gc_pending \in BOOLEAN /\ (gc_pending <=> pending_blocks # <<>> /\ step # "reset")

(* The members of a batch are those of the blocks behind the first done.   *)
IsBatch(members, blocks, done) ==
  /\ members # <<>> /\ done + Len(members) <= Len(blocks)
  /\ \A i \in 1..Len(members) : \E body \in BodySizes :
       LET b == blocks[done + i] IN members[i] = DataMember(b.kind, body, b.from, b.to)

Batches ==
  LET done == Len(block_entries)
      n == Len(pending_blocks)
  IN /\ done <= n
     /\ step = "idle" => block_entries = <<>>
     /\ step = "compress" => done < n
     /\ step = "write" => IsBatch(compressed, pending_blocks, done)
     /\ step \in {"index", "patch", "reset"} => done = n

(* TypeOK in parts.                                                        *)
FileTypes == FileType(file) /\ inner \in Nat /\ group_start_offset \in Nat

BufferTypes ==
  /\ buffer_len \in Nat /\ buffer_len <= block_size
  /\ pending_blocks \in Seq(Blocks) /\ blocks_in_group \in Nat

FlushTypes ==
  /\ total_uncompressed \in Nat /\ total_compressed \in Nat /\ total_blocks \in Nat
  /\ compressed \in Seq(Members) /\ block_entries \in Seq(IndexEntries)

CallTypes ==
  /\ call \in {"none", "write", "finish", "finish_buffer"}
  /\ step \in {"idle", "compress", "write", "index", "patch", "reset"}
  /\ rest \in Nat /\ accepted \in Nat
  /\ session \in [number : Nat, from : Nat, at : Nat]
  /\ outcome \in {"open", "finished", "error", "panic", "crash", "warned", "dropped"}

Types == FileTypes /\ BufferTypes /\ FlushTypes /\ CallTypes

(* There is room in the buffer and in the group when a call begins.        *)
Room ==
  outcome = "open" /\ step = "idle" /\ call \in {"none", "write"} =>
    /\ Len(pending_blocks) = 0 \/ Len(pending_blocks) < group_blocks
    /\ buffer_len < block_size \/ block_size = 0

Buffered ==
  /\ blocks_in_group = Len(pending_blocks)
  /\ InOrder(pending_blocks, accepted - buffer_len)
  /\ Room

(* The inductive invariant of the calls, for which the file does not matter. *)
CallsInv == Types /\ GcPends /\ Buffered /\ Calls /\ Batches

(* Where in the stream the blocks begin, if there are any.                 *)
BeginOf(blocks, end) == IF blocks = <<>> THEN end ELSE blocks[1].from

NextKind(n) == IF n = 0 THEN "beg" ELSE "dat"

(* b is a block of at most block_size from start on.                       *)
StartsAt(b, start) ==
  b \in Blocks /\ b.from = start /\ start < b.to /\ b.to - start <= block_size

(* One more block behind those of the group, up to its own end.            *)
LEMMA AppendedBlock ==
  ASSUME NEW blocks \in Seq(Blocks), NEW n \in Nat, n = Len(blocks), NEW start \in Nat,
         InOrder(blocks, start), NEW b, StartsAt(b, start), b.kind = NextKind(n), NEW new, new = Append(blocks, b)
  PROVE  /\ new \in Seq(Blocks) /\ Len(new) = n + 1 /\ new # <<>>
         /\ InOrder(new, b.to)
<1>a. b \in Blocks /\ b.from = start /\ start < b.to /\ b.to - start <= block_size
  BY DEF StartsAt
<1>1. PICK p \in Nat : p = n + 1 /\ p - 1 = n
  OBVIOUS
<1>2. /\ new \in Seq(Blocks) /\ Len(new) = p /\ new[p] = b
      /\ \A i \in 1..n : new[i] = blocks[i]
  BY <1>1, <1>a, AppendProperties
<1>3. new # <<>>
  BY <1>1, <1>2, EmptySeq
<1>4. ASSUME NEW i \in 1..p
      PROVE  /\ new[i].kind = IF i = 1 THEN "beg" ELSE "dat"
             /\ new[i].from < new[i].to
             /\ new[i].to - new[i].from <= block_size
             /\ i > 1 => new[i].from = new[i - 1].to
  <2>1. CASE i \in 1..n
    <3>1. i > 1 => i - 1 \in 1..n
      BY <2>1
    <3> QED
      BY <1>2, <2>1, <3>1 DEF InOrder
  <2>2. CASE i = p
    <3>1. new[i] = b
      BY <1>2, <2>2
    <3>2. i > 1 => new[i - 1] = blocks[n] /\ blocks[n].to = start
      BY <1>1, <1>2, <2>2 DEF InOrder
    <3>3. b.kind = IF i = 1 THEN "beg" ELSE "dat"
      BY <1>1, <2>2 DEF NextKind
    <3> QED
      BY <1>a, <3>1, <3>2, <3>3
  <2> QED
    BY <1>1, <2>1, <2>2
<1> QED
  BY <1>1, <1>2, <1>3, <1>4 DEF InOrder

(* The group begins where it did, or with its first block.                 *)
LEMMA AppendedBegins ==
  ASSUME NEW blocks \in Seq(Blocks), NEW b \in Blocks, NEW start, b.from = start, NEW x
  PROVE  BeginOf(Append(blocks, b), x) = BeginOf(blocks, start)
<1> DEFINE new == Append(blocks, b)
<1>1. PICK n \in Nat : n = Len(blocks)
  BY LenProperties
<1>2. /\ Len(new) = n + 1 /\ new \in Seq(Blocks) /\ new[n + 1] = b
      /\ \A i \in 1..n : new[i] = blocks[i]
  BY <1>1, AppendProperties
<1> HIDE DEF new
<1>3. new # <<>>
  BY <1>2, EmptySeq
<1>4. CASE blocks = <<>>
  BY <1>1, <1>2, <1>3, <1>4, EmptySeq DEF BeginOf, new
<1>5. CASE blocks # <<>>
  <2>1. 1 \in 1..n
    BY <1>1, <1>5, EmptySeq
  <2> QED
    BY <1>2, <1>3, <1>5, <2>1 DEF BeginOf, new
<1> QED
  BY <1>4, <1>5

(* What buffer_block does with the bytes in the buffer.                    *)
LEMMA Buffering ==
  ASSUME NEW len \in Nat, NEW end \in Nat, NEW start \in Nat, start = end - len,
         len <= block_size,
         pending_blocks \in Seq(Blocks), blocks_in_group = Len(pending_blocks),
         InOrder(pending_blocks, start), buffer_block(len, end), len # 0
  PROVE  /\ pending_blocks' \in Seq(Blocks) /\ Len(pending_blocks') = Len(pending_blocks) + 1
         /\ blocks_in_group' = Len(pending_blocks') /\ blocks_in_group' \in Nat
         /\ pending_blocks' # <<>> /\ InOrder(pending_blocks', end)
         /\ buffer_len' = 0
         /\ \A x : BeginOf(pending_blocks', x) = BeginOf(pending_blocks, start)
<1> DEFINE block == [kind |-> IF blocks_in_group = 0 THEN "beg" ELSE "dat",
                     from |-> start, to |-> end]
<1>1. PICK n \in Nat : n = Len(pending_blocks)
  BY LenProperties
<1>2. /\ pending_blocks' = Append(pending_blocks, block)
      /\ blocks_in_group' = blocks_in_group + 1 /\ buffer_len' = 0
  BY DEF buffer_block
<1>3. PICK b \in Blocks : b = block /\ b.from = start /\ b.to = end /\ b.kind = NextKind(n)
  <2>1. block \in Blocks /\ block.from = start /\ block.to = end /\ block.kind = NextKind(n)
    BY <1>1 DEF Blocks, NextKind
  <2> HIDE DEF block
  <2> QED
    BY <2>1
<1>4. start < end /\ end - start <= block_size
  BY WriterConfig
<1> HIDE DEF block
<1>5. /\ pending_blocks' \in Seq(Blocks) /\ Len(pending_blocks') = n + 1
      /\ pending_blocks' # <<>> /\ InOrder(pending_blocks', end)
      /\ \A x : BeginOf(pending_blocks', x) = BeginOf(pending_blocks, start)
  <2>1. PICK new : new = Append(pending_blocks, b) /\ new = pending_blocks'
    BY <1>2, <1>3
  <2>2. StartsAt(b, start)
    BY <1>3, <1>4 DEF StartsAt
  <2>3. n \in Nat /\ n = Len(pending_blocks) /\ pending_blocks \in Seq(Blocks) /\ start \in Nat
    BY <1>1
  <2>4. InOrder(pending_blocks, start) /\ StartsAt(b, start) /\ b.kind = NextKind(n)
    BY <1>3, <2>2
  <2>5. new = Append(pending_blocks, b)
    BY <2>1
  <2>6. new \in Seq(Blocks) /\ Len(new) = n + 1 /\ new # <<>> /\ InOrder(new, b.to)
    BY <2>3, <2>4, <2>5, AppendedBlock
  <2>7. ASSUME NEW x PROVE BeginOf(new, x) = BeginOf(pending_blocks, start)
    BY <1>3, <2>5, AppendedBegins
  <2> QED
    BY <1>3, <2>1, <2>6, <2>7
<1> QED
  BY <1>1, <1>2, <1>5

(* The calls, action by action: with_config.                               *)
LEMMA CallsInit ==
  ASSUME Init
  PROVE  CallsInv
<1>1. /\ <<>> \in Seq(Blocks) /\ <<>> \in Seq(Members) /\ <<>> \in Seq(IndexEntries)
      /\ Len(<<>>) = 0
  BY EmptySeq
<1>2. FileType(EmptyFile)
  BY EmptyFileIntact DEF Intact
<1>3. Types
  <2>1. FileTypes
    BY <1>2 DEF Init, FileTypes
  <2>2. BufferTypes
    BY <1>1, WriterConfig DEF Init, BufferTypes
  <2>3. FlushTypes
    BY <1>1 DEF Init, FlushTypes
  <2>4. CallTypes
    BY DEF Init, CallTypes
  <2> QED
    BY <2>1, <2>2, <2>3, <2>4 DEF Types
<1>4. Buffered
  <2>1. InOrder(<<>>, 0)
    BY <1>1 DEF InOrder
  <2>2. /\ pending_blocks = <<>> /\ blocks_in_group = 0 /\ buffer_len = 0 /\ accepted = 0
        /\ accepted - buffer_len = 0
    BY DEF Init
  <2> QED
    BY <1>1, <2>1, <2>2, WriterConfig DEF Buffered, Room
<1>5. Calls
  BY <1>1, WriterConfig DEF Init, Calls, MaxBlocks
<1>6. Batches
  BY <1>1 DEF Init, Batches
<1>7. GcPends
  BY Zenon DEF Init, GcPends
<1> QED
  BY <1>3, <1>4, <1>5, <1>6, <1>7 DEF CallsInv

(* A round of write().  The group begins where it did.                     *)
LEMMA CallsTake ==
  ASSUME CallsInv, Take
  PROVE  /\ CallsInv'
         /\ BeginOf(pending_blocks', accepted' - buffer_len') =
              BeginOf(pending_blocks, accepted - buffer_len)
<1>1. /\ outcome = "open" /\ call = "write" /\ step = "idle" /\ rest \in Nat /\ rest > 0
      /\ accepted \in Nat /\ buffer_len \in Nat /\ buffer_len <= block_size
      /\ block_size \in Nat /\ group_blocks \in Nat
  BY WriterConfig DEF CallsInv, Types, CallTypes, BufferTypes, Take, At
<1>2. /\ Taken \in Nat /\ Taken <= rest /\ buffer_len + Taken <= block_size
      /\ rest - Taken \in Nat
  BY <1>1 DEF Taken, Space
<1>3. /\ rest' = rest - Taken /\ accepted' = accepted + Taken
      /\ rest' \in Nat /\ accepted' \in Nat
      /\ UNCHANGED <<file, inner, group_start_offset, totals, flush, call, session, outcome>>
  BY <1>1, <1>2 DEF Take
<1>4. /\ session \in [number : Nat, from : Nat, at : Nat] /\ session.from \in Nat
      /\ session.from + buffer_len <= accepted
      /\ pending_blocks \in Seq(Blocks) /\ blocks_in_group = Len(pending_blocks)
      /\ InOrder(pending_blocks, accepted - buffer_len)
      /\ Len(pending_blocks) \in Nat
      /\ Len(pending_blocks) = 0 \/ Len(pending_blocks) < group_blocks
      /\ buffer_len < block_size \/ block_size = 0
      /\ block_entries = <<>> /\ Len(pending_blocks) <= MaxBlocks
  BY <1>1, LenProperties DEF CallsInv, Types, BufferTypes, CallTypes, Calls, Buffered, Room, Batches
<1>5. FileTypes' /\ FlushTypes'
  BY <1>3 DEF CallsInv, Types, FileTypes, FlushTypes, FileType, totals, flush
<1>6. CASE buffer_len + Taken # block_size \/ block_size = 0
  <2>1. /\ buffer_len' = buffer_len + Taken
        /\ UNCHANGED <<pending_blocks, blocks_in_group, gc_pending, step>>
    <3>1. CASE buffer_len + Taken # block_size
      BY <3>1 DEF Take
    <3>2. CASE buffer_len + Taken = block_size
      <4>1. block_size = 0 /\ buffer_len = 0 /\ Taken = 0
        BY <1>1, <1>2, <1>6, <3>2
      <4>2. UNCHANGED buffers /\ step' = Flushing(GroupFull)
        BY <3>2, <4>1 DEF Take, buffer_block
      <4>3. step' = "idle"
        BY <1>1, <1>4, <4>2, EmptySeq DEF Flushing, GroupFull, buffers
      <4> QED
        BY <1>1, <4>1, <4>2, <4>3 DEF buffers
    <3> QED
      BY <3>1, <3>2
  <2>2. accepted' - buffer_len' = accepted - buffer_len
    BY <1>1, <1>2, <1>3, <2>1
  <2>3. BufferTypes' /\ CallTypes'
    BY <1>1, <1>2, <1>3, <1>4, <2>1 DEF BufferTypes, CallTypes, CallsInv, Types
  <2>4. Buffered'
    <3>1. InOrder(pending_blocks', accepted' - buffer_len')
      BY <1>4, <2>1, <2>2
    <3>2. Room'
      BY <1>1, <1>2, <1>4, <1>6, <2>1 DEF Room
    <3> QED
      BY <1>4, <2>1, <3>1, <3>2 DEF Buffered
  <2>5. Calls'
    BY <1>1, <1>2, <1>3, <1>4, <2>1 DEF Calls
  <2>6. Batches'
    BY <1>1, <1>3, <1>4, <2>1, EmptySeq DEF Batches, flush
  <2>7. GcPends'
    BY <2>1, Zenon DEF CallsInv, GcPends
  <2>8. BeginOf(pending_blocks', accepted' - buffer_len') =
          BeginOf(pending_blocks, accepted - buffer_len)
    BY <2>1, <2>2
  <2> QED
    BY <1>5, <2>3, <2>4, <2>5, <2>6, <2>7, <2>8 DEF CallsInv, Types
<1>7. CASE buffer_len + Taken = block_size /\ block_size # 0
  <2>1. buffer_block(block_size, accepted') /\ step' = Flushing(GroupFull)
    BY <1>7 DEF Take
  <2>2. PICK end \in Nat, start \in Nat :
          /\ end = accepted' /\ start = accepted - buffer_len /\ start = end - block_size
    BY <1>1, <1>2, <1>3, <1>4, <1>7
  <2>3. buffer_block(block_size, end)
    BY <2>1, <2>2
  <2>4. /\ pending_blocks' \in Seq(Blocks) /\ Len(pending_blocks') = Len(pending_blocks) + 1
        /\ blocks_in_group' = Len(pending_blocks') /\ blocks_in_group' \in Nat
        /\ pending_blocks' # <<>> /\ InOrder(pending_blocks', end)
        /\ buffer_len' = 0
        /\ \A x : BeginOf(pending_blocks', x) = BeginOf(pending_blocks, start)
    <3>1. block_size \in Nat /\ block_size <= block_size /\ block_size # 0
      BY <1>1, <1>7
    <3>2. /\ pending_blocks \in Seq(Blocks) /\ blocks_in_group = Len(pending_blocks)
          /\ InOrder(pending_blocks, start)
      BY <1>4, <2>2
    <3>3. start = end - block_size
      BY <2>2
    <3> QED
      BY <2>3, <3>1, <3>2, <3>3, Buffering
  <2>5. /\ step' \in {"idle", "compress"}
        /\ step' = "idle" => Len(pending_blocks') < group_blocks
    BY <1>1, <2>1, <2>4 DEF Flushing, GroupFull
  <2>6. BufferTypes' /\ CallTypes'
    BY <1>1, <1>3, <1>4, <2>4, <2>5 DEF BufferTypes, CallTypes, CallsInv, Types
  <2>7. Buffered'
    <3>0. buffer_len' = 0 /\ accepted' = end
      BY <2>2, <2>4
    <3>1. accepted' - buffer_len' = end
      BY <3>0
    <3>2. InOrder(pending_blocks', end)
      BY <2>4
    <3>3. Room'
      BY <1>1, <2>4, <2>5 DEF Room
    <3>4. InOrder(pending_blocks', accepted' - buffer_len')
      BY <3>1, <3>2
    <3> QED
      BY <2>4, <3>3, <3>4 DEF Buffered
  <2>8. Calls'
    <3>1. Len(pending_blocks') <= MaxBlocks
      BY <1>1, <1>4, <2>4 DEF MaxBlocks
    <3>2. session'.from + buffer_len' <= accepted'
      BY <1>1, <1>2, <1>3, <1>4, <2>4
    <3> QED
      BY <1>1, <1>3, <2>4, <2>5, <3>1, <3>2 DEF Calls
  <2>9. Batches'
    BY <1>1, <1>3, <1>4, <2>4, <2>5, EmptySeq DEF Batches, flush
  <2>10. GcPends'
    <3>1. gc_pending' = (gc_pending \/ blocks_in_group = 0)
      BY <1>7, <2>1 DEF buffer_block
    <3>2. pending_blocks = <<>> => blocks_in_group = 0
      BY <1>4, EmptySeq
    <3> QED
      BY <1>1, <2>4, <2>5, <3>1, <3>2, Zenon DEF CallsInv, GcPends
  <2>11. BeginOf(pending_blocks', accepted' - buffer_len') =
           BeginOf(pending_blocks, accepted - buffer_len)
    BY <2>2, <2>4
  <2> QED
    BY <1>5, <2>6, <2>7, <2>8, <2>9, <2>10, <2>11 DEF CallsInv, Types
<1> QED
  BY <1>6, <1>7

(* What the lemmas about the actions begin with.                           *)
LEMMA CallsTypes ==
  ASSUME CallsInv
  PROVE  /\ FileType(file) /\ inner \in Nat /\ group_start_offset \in Nat
         /\ buffer_len \in Nat /\ buffer_len <= block_size
         /\ pending_blocks \in Seq(Blocks) /\ blocks_in_group \in Nat
         /\ total_uncompressed \in Nat /\ total_compressed \in Nat /\ total_blocks \in Nat
         /\ compressed \in Seq(Members) /\ block_entries \in Seq(IndexEntries)
         /\ call \in {"none", "write", "finish", "finish_buffer"}
         /\ step \in {"idle", "compress", "write", "index", "patch", "reset"}
         /\ rest \in Nat /\ accepted \in Nat
         /\ session \in [number : Nat, from : Nat, at : Nat]
         /\ outcome \in {"open", "finished", "error", "panic", "crash", "warned", "dropped"}
BY DEF CallsInv, Types, FileTypes, BufferTypes, FlushTypes, CallTypes

(* The actions between the steps of flush_group that leave the buffers as  *)
(* they are.                                                               *)
LEMMA CallsOutside ==
  ASSUME CallsInv, (\E n \in WriteSizes : Write(n)) \/ WriteReturns \/ FinishReturns
  PROVE  CallsInv'
<1>1. /\ UNCHANGED <<file, inner, group_start_offset, buffers, totals, flush, step,
                     accepted, session>>
      /\ rest' \in Nat /\ outcome = "open" /\ outcome' \in {"open", "finished"} /\ step = "idle"
      /\ call' \in {"none", "write"}
      /\ \/ outcome' = "open" /\ call \in {"none", "write"}
         \/ outcome' = "finished" /\ call' = "none" /\ call \in {"finish", "finish_buffer"}
  BY CallsTypes, WriterConfig DEF Write, WriteReturns, FinishReturns, Idle, At, CallsInv, Calls
<1>2. Types'
  BY <1>1, CallsTypes DEF Types, FileTypes, FileType, BufferTypes, FlushTypes, CallTypes,
                          buffers, totals, flush
<1>3. GcPends'
  BY <1>1, Zenon DEF CallsInv, GcPends, buffers
<1>4. Buffered'
  <2>1. InOrder(pending_blocks', accepted' - buffer_len')
    BY <1>1 DEF CallsInv, Buffered, buffers
  <2>2. Room'
    BY <1>1 DEF CallsInv, Buffered, Room, buffers
  <2> QED
    BY <1>1, <2>1, <2>2 DEF CallsInv, Buffered, buffers
<1>5. Calls'
  BY <1>1 DEF CallsInv, Calls, buffers
<1>6. Batches'
  BY <1>1 DEF CallsInv, Batches, buffers, flush
<1> QED
  BY <1>2, <1>3, <1>4, <1>5, <1>6 DEF CallsInv

(* finish(), up to the flush.                                              *)
LEMMA CallsFinish ==
  ASSUME CallsInv, Finish
  PROVE  /\ CallsInv'
         /\ BeginOf(pending_blocks', accepted' - buffer_len') =
              BeginOf(pending_blocks, accepted - buffer_len)
<1>1. /\ outcome = "open" /\ call = "none" /\ step = "idle" /\ block_entries = <<>>
      /\ UNCHANGED <<file, inner, group_start_offset, totals, flush, rest,
                     accepted, session, outcome>>
      /\ buffer_block(buffer_len, accepted) /\ step' = Flushing(TRUE)
      /\ call' \in {"finish", "finish_buffer"}
  BY DEF Finish, Idle, CallsInv, Calls, Batches
<1>2. /\ session.from \in Nat /\ session.from + buffer_len <= accepted
      /\ blocks_in_group = Len(pending_blocks)
      /\ InOrder(pending_blocks, accepted - buffer_len)
      /\ Len(pending_blocks) \in Nat
      /\ Len(pending_blocks) = 0 \/ Len(pending_blocks) < group_blocks
      /\ Len(pending_blocks) <= MaxBlocks
  BY <1>1, CallsTypes, LenProperties DEF CallsInv, Calls, Buffered, Room
<1>3. step' \in {"idle", "compress"} /\ (step' = "idle" <=> pending_blocks' = <<>>)
  BY <1>1 DEF Flushing
<1>4. /\ buffer_len' = 0 /\ InOrder(pending_blocks', accepted)
      /\ pending_blocks' \in Seq(Blocks) /\ blocks_in_group' = Len(pending_blocks')
      /\ Len(pending_blocks') <= MaxBlocks
      /\ buffer_len # 0 => pending_blocks' # <<>>
      /\ BeginOf(pending_blocks', accepted) = BeginOf(pending_blocks, accepted - buffer_len)
  <2>1. CASE buffer_len = 0
    <3>1. UNCHANGED buffers /\ accepted - buffer_len = accepted
      BY <1>1, <2>1, CallsTypes DEF buffer_block
    <3> QED
      BY <1>2, <2>1, <3>1, CallsTypes DEF buffers
  <2>2. CASE buffer_len # 0
    <3>1. PICK end \in Nat, start \in Nat, len \in Nat :
            end = accepted /\ start = accepted - buffer_len /\ len = buffer_len
      BY <1>2, CallsTypes
    <3>2. start = end - len /\ len <= block_size /\ len # 0 /\ buffer_block(len, end)
      BY <1>1, <2>2, <3>1, CallsTypes
    <3>3. /\ pending_blocks \in Seq(Blocks) /\ blocks_in_group = Len(pending_blocks)
          /\ InOrder(pending_blocks, start)
      BY <1>2, <3>1, CallsTypes
    <3>4. /\ pending_blocks' \in Seq(Blocks) /\ Len(pending_blocks') = Len(pending_blocks) + 1
          /\ blocks_in_group' = Len(pending_blocks') /\ InOrder(pending_blocks', end)
          /\ buffer_len' = 0 /\ pending_blocks' # <<>>
          /\ \A x : BeginOf(pending_blocks', x) = BeginOf(pending_blocks, start)
      BY <3>2, <3>3, Buffering
    <3> QED
      BY <1>2, <3>1, <3>4, WriterConfig DEF MaxBlocks
  <2> QED
    BY <2>1, <2>2
<1>5. Types'
  <2>1. Len(pending_blocks') \in Nat
    BY <1>4, LenProperties
  <2>2. BufferTypes'
    BY <1>4, <2>1, WriterConfig DEF BufferTypes
  <2>3. CallTypes'
    BY <1>1, <1>3, CallsTypes DEF CallTypes
  <2>4. FileTypes' /\ FlushTypes'
    BY <1>1, CallsTypes DEF FileTypes, FileType, FlushTypes, totals, flush
  <2> QED
    BY <2>2, <2>3, <2>4 DEF Types
<1>6. GcPends'
  <2>1. (pending_blocks = <<>> => blocks_in_group = 0) /\ step = "idle" /\ step' # "reset"
    BY <1>1, <1>2, <1>3, EmptySeq
  <2>2. CASE UNCHANGED <<gc_pending, pending_blocks>>
    BY <2>1, <2>2, Zenon DEF CallsInv, GcPends
  <2>3. CASE gc_pending' = (gc_pending \/ blocks_in_group = 0) /\ pending_blocks' # <<>>
    BY <2>1, <2>3, Zenon DEF CallsInv, GcPends
  <2>4. \/ UNCHANGED <<gc_pending, pending_blocks>>
        \/ gc_pending' = (gc_pending \/ blocks_in_group = 0) /\ pending_blocks' # <<>>
    <3>1. CASE buffer_len = 0
      BY <1>1, <3>1 DEF buffer_block, buffers
    <3>2. CASE buffer_len # 0
      <4>1. gc_pending' = (gc_pending \/ blocks_in_group = 0)
        BY <1>1, <3>2, Zenon DEF buffer_block
      <4> QED
        BY <1>4, <3>2, <4>1
    <3> QED
      BY <3>1, <3>2
  <2> QED
    BY <2>2, <2>3, <2>4
<1>7. Buffered'
  <2>1. InOrder(pending_blocks', accepted' - buffer_len')
    <3>1. accepted' - buffer_len' = accepted
      BY <1>1, <1>4, CallsTypes
    <3> QED
      BY <1>4, <3>1
  <2> QED
    BY <1>1, <1>4, <2>1 DEF Buffered, Room
<1>8. Calls'
  <2>1. session'.from + buffer_len' <= accepted'
    BY <1>1, <1>2, <1>4, CallsTypes
  <2> QED
    BY <1>1, <1>3, <1>4, <2>1 DEF Calls
<1>9. Batches'
  <2>1. Len(block_entries') = 0 /\ block_entries' = <<>>
    BY <1>1, EmptySeq DEF flush
  <2>2. Len(pending_blocks') \in Nat /\ (Len(pending_blocks') = 0 => pending_blocks' = <<>>)
    BY <1>4, EmptySeq, LenProperties
  <2> QED
    BY <1>3, <2>1, <2>2 DEF Batches
<1>10. BeginOf(pending_blocks', accepted' - buffer_len') =
         BeginOf(pending_blocks, accepted - buffer_len)
  <2>1. accepted' - buffer_len' = accepted
    BY <1>1, <1>4, CallsTypes
  <2> QED
    BY <1>4, <2>1
<1> QED
  BY <1>5, <1>6, <1>7, <1>8, <1>9, <1>10 DEF CallsInv

-----------------------------------------------------------------------------
(* The steps of flush_group, as far as the calls are concerned.            *)

LEMMA WrittenType ==
  ASSUME NEW f, FileType(f), NEW offset \in Nat, NEW m \in Members, NEW size \in Nat
  PROVE  FileType(WriteMember(f, offset, m, size))
<1> DEFINE intact == {at \in DOMAIN f.members : ~Overlaps(f, at, offset, size)}
           new == [at \in intact \cup {offset} |-> IF at = offset THEN m ELSE f.members[at]]
           length == IF offset + size > f.length THEN offset + size ELSE f.length
<1>1. /\ f.length \in Nat /\ DOMAIN f.members \subseteq Nat
      /\ \A at \in DOMAIN f.members : f.members[at] \in Members
  BY DEF FileType
<1>2. WriteMember(f, offset, m, size) = [members |-> new, length |-> length]
  BY DEF WriteMember
<1>3. length \in Nat
  BY <1>1
<1>4. intact \subseteq DOMAIN f.members
  OBVIOUS
<1> HIDE DEF intact, length
<1>5. DOMAIN new \subseteq Nat /\ \A at \in DOMAIN new : new[at] \in Members
  BY <1>1, <1>4
<1> HIDE DEF new
<1> QED
  BY <1>2, <1>3, <1>5 DEF FileType

(* Those that a GC value leaves are, wherever it goes.                     *)
LEMMA GcWrittenType ==
  ASSUME NEW f, FileType(f), NEW offset \in Nat, NEW gc \in Nat
  PROVE  FileType(WriteGc(f, offset, gc))
<1> DEFINE beg == offset - GC_VALUE_OFFSET
           kept == {at \in DOMAIN f.members : ~Overlaps(f, at, offset, 8)}
           rest_of == [at \in kept |-> f.members[at]]
<1>1. CASE beg \in DOMAIN f.members /\ f.members[beg].kind = "beg"
  <2>1. beg + GC_VALUE_OFFSET = offset
    BY DEF GC_VALUE_OFFSET
  <2> HIDE DEF beg
  <2> QED
    BY <1>1, <2>1, GcWritten
<1>2. CASE ~(beg \in DOMAIN f.members /\ f.members[beg].kind = "beg")
  <2>1. WriteGc(f, offset, gc) = [members |-> rest_of, length |-> f.length]
    BY <1>2 DEF WriteGc
  <2>2. kept \subseteq DOMAIN f.members
    OBVIOUS
  <2> HIDE DEF kept
  <2>3. DOMAIN rest_of \subseteq DOMAIN f.members /\ \A at \in DOMAIN rest_of : rest_of[at] = f.members[at]
    BY <2>2
  <2> HIDE DEF rest_of
  <2> QED
    BY <2>1, <2>3 DEF FileType
<1> QED
  BY <1>1, <1>2

(* A batch, and what is left of it when its first member is written.       *)
LEMMA BatchMade ==
  ASSUME NEW blocks \in Seq(Blocks), NEW n \in Nat, n = Len(blocks),
         NEW done \in Nat, NEW k \in Nat \ {0}, done + k <= n,
         NEW body \in [1..k -> BodySizes], NEW members,
         members = [i \in 1..k |->
                      LET b == blocks[done + i] IN DataMember(b.kind, body[i], b.from, b.to)]
  PROVE  members \in Seq(Members) /\ IsBatch(members, blocks, done)
<1>1. ASSUME NEW i \in 1..k
      PROVE  /\ members[i] \in Members /\ body[i] \in BodySizes
             /\ members[i] = DataMember(blocks[done + i].kind, body[i], blocks[done + i].from,
                                        blocks[done + i].to)
  <2>1. done + i \in 1..n
    OBVIOUS
  <2>2. blocks[done + i] \in Blocks
    BY <2>1, ElementOfSeq
  <2>3. body[i] \in BodySizes /\ body[i] \in Nat
    BY WriterConfig
  <2>4. members[i] = DataMember(blocks[done + i].kind, body[i], blocks[done + i].from,
                                blocks[done + i].to)
    OBVIOUS
  <2> QED
    BY <2>2, <2>3, <2>4, DataMemberIs
<1>2. members \in [1..k -> Members]
  BY <1>1
<1>3. members \in Seq(Members) /\ Len(members) = k
  BY <1>2, SeqDef, LenProperties
<1>4. members # <<>>
  BY <1>3, EmptySeq
<1> QED
  BY <1>1, <1>3, <1>4 DEF IsBatch

(* The first member of a batch, and what is left behind it.                *)
LEMMA BatchWritten ==
  ASSUME NEW blocks \in Seq(Blocks), NEW n \in Nat, n = Len(blocks),
         NEW done \in Nat, NEW p, p = done + 1,
         NEW members \in Seq(Members), IsBatch(members, blocks, done)
  PROVE  /\ Head(members) \in Members /\ p \in 1..n /\ blocks[p] \in Blocks
         /\ \E body \in BodySizes :
              Head(members) = DataMember(blocks[p].kind, body, blocks[p].from, blocks[p].to)
         /\ Tail(members) \in Seq(Members)
         /\ Tail(members) = <<>> \/ IsBatch(Tail(members), blocks, p)
<1>1. /\ members # <<>> /\ done + Len(members) <= n
      /\ \A i \in 1..Len(members) : \E body \in BodySizes :
           LET b == blocks[done + i] IN members[i] = DataMember(b.kind, body, b.from, b.to)
  BY DEF IsBatch
<1>2. PICK k \in Nat : Len(members) = k + 1
  <2>1. Len(members) \in Nat /\ Len(members) # 0
    BY <1>1, EmptySeq, LenProperties
  <2>2. Len(members) - 1 \in Nat
    BY <2>1
  <2> QED
    BY <2>1, <2>2
<1>3. /\ Head(members) = members[1] /\ Head(members) \in Members
      /\ Tail(members) \in Seq(Members) /\ Len(Tail(members)) = k
      /\ \A i \in 1..k : Tail(members)[i] = members[i + 1]
  BY <1>1, <1>2, HeadTailProperties
<1>4. p \in 1..n /\ blocks[p] \in Blocks
  BY <1>1, <1>2, ElementOfSeq
<1>5. \E body \in BodySizes :
        Head(members) = DataMember(blocks[p].kind, body, blocks[p].from, blocks[p].to)
  BY <1>1, <1>2, <1>3
<1>6. ASSUME NEW i \in 1..k
      PROVE  \E body \in BodySizes :
               LET b == blocks[p + i] IN Tail(members)[i] = DataMember(b.kind, body, b.from, b.to)
  <2>1. i + 1 \in 1..Len(members) /\ done + (i + 1) = p + i
    BY <1>2
  <2> QED
    BY <1>1, <1>3, <2>1
<1>7. p + k <= n
  BY <1>1, <1>2
<1> QED
  BY <1>3, <1>4, <1>5, <1>6, <1>7 DEF IsBatch

(* The sizes of the entries of a group.                                    *)
LEMMA SizesType ==
  ASSUME NEW entries \in Seq(IndexEntries)
  PROVE  /\ CompressedSizes(entries) \in Seq(Nat)
         /\ Len(CompressedSizes(entries)) = Len(entries)
<1> DEFINE sizes == CompressedSizes(entries)
<1>1. PICK n \in Nat : n = Len(entries)
  BY LenProperties
<1>2. sizes \in [1..n -> Nat]
  BY <1>1, EntrySizes
<1> HIDE DEF sizes
<1>3. sizes \in Seq(Nat) /\ Len(sizes) = n
  BY <1>2, SeqDef, LenProperties
<1> QED
  BY <1>1, <1>3 DEF sizes

(* flush_group: a batch compressed.                                        *)
LEMMA CallsCompress ==
  ASSUME CallsInv, Compress
  PROVE  CallsInv'
<1>1. /\ outcome = "open" /\ call # "none" /\ step = "compress" /\ step' = "write"
      /\ UNCHANGED <<file, inner, group_start_offset, buffers, totals, block_entries,
                     call, rest, accepted, session, outcome>>
  BY DEF Compress, At
<1>2. PICK n \in Nat, done \in Nat :
        n = Len(pending_blocks) /\ done = Len(block_entries) /\ done < n
  BY <1>1, CallsTypes, LenProperties DEF CallsInv, Batches
<1>3. PICK k \in Nat \ {0} :
        /\ done + k <= n
        /\ k = IF n - done < compression_batch_size THEN n - done ELSE compression_batch_size
  BY <1>2, WriterConfig
<1>4. PICK body \in [1..k -> BodySizes] :
        compressed' = [i \in 1..k |-> LET b == pending_blocks[done + i]
                                       IN DataMember(b.kind, body[i], b.from, b.to)]
  BY <1>2, <1>3 DEF Compress
<1>5. compressed' \in Seq(Members) /\ IsBatch(compressed', pending_blocks, done)
  <2>1. pending_blocks \in Seq(Blocks) /\ n = Len(pending_blocks) /\ done + k <= n
    BY <1>2, <1>3, CallsTypes
  <2>2. PICK members :
          /\ members = compressed'
          /\ members = [i \in 1..k |-> LET b == pending_blocks[done + i]
                                      IN DataMember(b.kind, body[i], b.from, b.to)]
    BY <1>4
  <2>3. members \in Seq(Members) /\ IsBatch(members, pending_blocks, done)
    BY <2>1, <2>2, BatchMade
  <2> QED
    BY <2>2, <2>3
<1>6. Types'
  BY <1>1, <1>5, CallsTypes DEF Types, FileTypes, FileType, BufferTypes, FlushTypes, CallTypes,
                                buffers, totals
<1>7. GcPends'
  BY <1>1, Zenon DEF CallsInv, GcPends, buffers
<1>8. Buffered'
  <2>1. InOrder(pending_blocks', accepted' - buffer_len')
    BY <1>1 DEF CallsInv, Buffered, buffers
  <2> QED
    BY <1>1, <2>1 DEF CallsInv, Buffered, buffers, Room
<1>9. Calls'
  BY <1>1 DEF CallsInv, Calls, buffers
<1>10. Batches'
  BY <1>1, <1>2, <1>5 DEF Batches, buffers
<1> QED
  BY <1>6, <1>7, <1>8, <1>9, <1>10 DEF CallsInv

(* A member of the batch written.                                          *)
LEMMA CallsWriteBlock ==
  ASSUME CallsInv, WriteBlock
  PROVE  CallsInv'
<1> DEFINE cb == Head(compressed)
           entry == [compressed_size |-> cb.zc, uncompressed_size |-> cb.to - cb.from]
<1>1. /\ outcome = "open" /\ call # "none" /\ step = "write"
      /\ UNCHANGED <<group_start_offset, buffers, call, rest, accepted, session, outcome>>
      /\ file' = WriteMember(file, inner, cb, cb.zc) /\ inner' = inner + cb.zc
      /\ block_entries' = Append(block_entries, entry)
      /\ total_compressed' = total_compressed + cb.zc
      /\ total_uncompressed' = total_uncompressed + (cb.to - cb.from)
      /\ total_blocks' = total_blocks + 1
      /\ compressed' = Tail(compressed)
      /\ step' = IF compressed' # <<>> THEN "write"
                 ELSE IF Len(block_entries') < Len(pending_blocks) THEN "compress" ELSE "index"
  BY DEF WriteBlock, At
<1>2. PICK n \in Nat, done \in Nat, p \in Nat :
        n = Len(pending_blocks) /\ done = Len(block_entries) /\ p = done + 1
  BY CallsTypes, LenProperties
<1>3. IsBatch(compressed, pending_blocks, done)
  BY <1>1, <1>2 DEF CallsInv, Batches
<1>4. /\ cb \in Members /\ p \in 1..n /\ pending_blocks[p] \in Blocks
      /\ \E body \in BodySizes :
           cb = DataMember(pending_blocks[p].kind, body, pending_blocks[p].from, pending_blocks[p].to)
      /\ Tail(compressed) \in Seq(Members)
      /\ Tail(compressed) = <<>> \/ IsBatch(Tail(compressed), pending_blocks, p)
  <2>1. /\ pending_blocks \in Seq(Blocks) /\ n = Len(pending_blocks) /\ p = done + 1
        /\ compressed \in Seq(Members)
    BY <1>2, CallsTypes
  <2> HIDE DEF cb
  <2> QED
    BY <1>3, <2>1, BatchWritten DEF cb
<1>5. cb.zc \in Nat /\ cb.to = pending_blocks[p].to /\ cb.from = pending_blocks[p].from
  BY <1>4, DataMemberIs, WriterConfig
<1>6. cb.to - cb.from \in Nat
  <2>1. pending_blocks[p].from \in Nat /\ pending_blocks[p].to \in Nat
    BY <1>4 DEF Blocks
  <2>2. pending_blocks[p].from < pending_blocks[p].to
    BY <1>2, <1>4 DEF CallsInv, Buffered, InOrder
  <2> QED
    BY <1>5, <2>1, <2>2
<1>7. entry \in IndexEntries
  BY <1>5, <1>6 DEF IndexEntries
<1> HIDE DEF cb, entry
<1>8. block_entries' \in Seq(IndexEntries) /\ Len(block_entries') = p /\ block_entries' # <<>>
  <2>1. block_entries' \in Seq(IndexEntries) /\ Len(block_entries') = p
    <3>1. block_entries \in Seq(IndexEntries)
      BY CallsTypes
    <3> QED
      BY <1>1, <1>2, <1>7, <3>1, AppendProperties
  <2> QED
    BY <1>4, <2>1, EmptySeq
<1>9. FileType(file')
  BY <1>1, <1>4, <1>5, CallsTypes, WrittenType
<1>10. Types'
  <2>1. FileTypes'
    <3>1. inner \in Nat /\ group_start_offset \in Nat
      BY CallsTypes
    <3>2. inner' \in Nat /\ group_start_offset' \in Nat
      BY <1>1, <1>5, <3>1
    <3> QED
      BY <1>9, <3>2 DEF FileTypes, FileType
  <2>2. BufferTypes'
    BY <1>1, CallsTypes DEF BufferTypes, buffers
  <2>3. FlushTypes'
    <3>1. total_compressed \in Nat /\ total_uncompressed \in Nat /\ total_blocks \in Nat
      BY CallsTypes
    <3>2. total_compressed' \in Nat /\ total_uncompressed' \in Nat /\ total_blocks' \in Nat
      <4>1. PICK q \in Nat, z \in Nat : q = cb.to - cb.from /\ z = cb.zc
        BY <1>5, <1>6
      <4>2. /\ total_compressed' = total_compressed + z
            /\ total_uncompressed' = total_uncompressed + q
            /\ total_blocks' = total_blocks + 1
        BY <1>1, <4>1
      <4> QED
        BY <3>1, <4>2
    <3>3. compressed' \in Seq(Members)
      BY <1>1, <1>4
    <3> QED
      BY <1>8, <3>2, <3>3 DEF FlushTypes
  <2>4. CallTypes'
    BY <1>1, CallsTypes DEF CallTypes
  <2> QED
    BY <2>1, <2>2, <2>3, <2>4 DEF Types
<1>11. step' # "reset" /\ step' # "idle"
  BY <1>1
<1>12. GcPends'
  BY <1>1, <1>11, Zenon DEF CallsInv, GcPends, buffers
<1>13. Buffered'
  <2>1. InOrder(pending_blocks', accepted' - buffer_len')
    BY <1>1 DEF CallsInv, Buffered, buffers
  <2> QED
    BY <1>1, <1>11, <2>1 DEF CallsInv, Buffered, buffers, Room
<1>14. Calls'
  BY <1>1, <1>11 DEF CallsInv, Calls, buffers
<1>15. Batches'
  BY <1>1, <1>2, <1>4, <1>8, <1>11 DEF Batches, buffers
<1> QED
  BY <1>10, <1>12, <1>13, <1>14, <1>15 DEF CallsInv

(* The IDX member written: there is always a GC value to be patched.       *)
LEMMA CallsWriteIdx ==
  ASSUME CallsInv, WriteIdx
  PROVE  CallsInv' /\ step' = "patch"
<1>1. /\ outcome = "open" /\ call # "none" /\ step = "index"
      /\ UNCHANGED <<group_start_offset, buffers, total_uncompressed, total_blocks, flush,
                     call, rest, accepted, session, outcome>>
      /\ file' = WriteMember(file, inner, Idx, Idx.zc) /\ inner' = inner + Idx.zc
      /\ total_compressed' = total_compressed + Idx.zc
      /\ step' = IF gc_pending THEN "patch" ELSE "reset"
  BY DEF WriteIdx, At
<1>2. Idx \in Members /\ Idx.zc \in Nat
  BY CallsTypes, IdxMemberIs DEF Idx
<1>3. step' = "patch"
  <2>1. pending_blocks # <<>>
    BY <1>1 DEF CallsInv, Calls
  <2>2. gc_pending
    BY <1>1, <2>1, Zenon DEF CallsInv, GcPends
  <2> QED
    BY <1>1, <2>2, Zenon
<1>4. FileType(file')
  BY <1>1, <1>2, CallsTypes, WrittenType
<1>5. Types'
  <2>1. FileTypes'
    <3>1. inner \in Nat /\ group_start_offset \in Nat
      BY CallsTypes
    <3>2. inner' \in Nat /\ group_start_offset' \in Nat
      BY <1>1, <1>2, <3>1
    <3> QED
      BY <1>4, <3>2 DEF FileTypes, FileType
  <2>2. BufferTypes'
    BY <1>1, CallsTypes DEF BufferTypes, buffers
  <2>3. FlushTypes'
    <3>1. total_compressed \in Nat
      BY CallsTypes
    <3>2. total_compressed' \in Nat
      BY <1>1, <1>2, <3>1
    <3> QED
      BY <1>1, <3>2, CallsTypes DEF FlushTypes, flush
  <2>4. CallTypes'
    BY <1>1, <1>3, CallsTypes DEF CallTypes
  <2> QED
    BY <2>1, <2>2, <2>3, <2>4 DEF Types
<1>6. GcPends'
  BY <1>1, <1>3, Zenon DEF CallsInv, GcPends, buffers
<1>7. Buffered'
  <2>1. InOrder(pending_blocks', accepted' - buffer_len')
    BY <1>1 DEF CallsInv, Buffered, buffers
  <2> QED
    BY <1>1, <1>3, <2>1 DEF CallsInv, Buffered, buffers, Room
<1>8. Calls'
  BY <1>1, <1>3 DEF CallsInv, Calls, buffers
<1>9. Batches'
  BY <1>1, <1>3 DEF CallsInv, Batches, buffers, flush
<1> QED
  BY <1>3, <1>5, <1>6, <1>7, <1>8, <1>9 DEF CallsInv

(* The GC value patched.                                                   *)
LEMMA CallsBackpatch ==
  ASSUME CallsInv, Backpatch
  PROVE  CallsInv'
<1>1. /\ outcome = "open" /\ call # "none" /\ step = "patch" /\ step' = "reset"
      /\ file' = WriteGc(file, group_start_offset + GC_VALUE_OFFSET, GcValue)
      /\ UNCHANGED <<inner, group_start_offset, buffer_len, pending_blocks, blocks_in_group,
                     totals, flush, call, rest, accepted, session, outcome>>
  BY DEF Backpatch, PatchGc, At
<1>2. GcValue \in Nat
  <2>1. CompressedSizes(block_entries) \in Seq(Nat)
    BY CallsTypes, SizesType
  <2> QED
    BY <2>1, SumIsNat DEF GcValue
<1>3. group_start_offset + GC_VALUE_OFFSET \in Nat
  BY CallsTypes DEF GC_VALUE_OFFSET
<1>4. FileType(file')
  BY <1>1, <1>2, <1>3, CallsTypes, GcWrittenType
<1>5. Types'
  <2>1. FileTypes'
    BY <1>1, <1>4, CallsTypes DEF FileTypes, FileType
  <2>2. BufferTypes'
    BY <1>1, CallsTypes DEF BufferTypes
  <2>3. FlushTypes'
    BY <1>1, CallsTypes DEF FlushTypes, flush, totals
  <2>4. CallTypes'
    BY <1>1, CallsTypes DEF CallTypes
  <2> QED
    BY <2>1, <2>2, <2>3, <2>4 DEF Types
<1>6. GcPends'
  <2>1. gc_pending' = FALSE
    BY DEF Backpatch, PatchGc
  <2> QED
    BY <1>1, <2>1, Zenon DEF GcPends
<1>7. Buffered'
  <2>1. InOrder(pending_blocks', accepted' - buffer_len')
    BY <1>1 DEF CallsInv, Buffered
  <2> QED
    BY <1>1, <2>1 DEF CallsInv, Buffered, Room
<1>8. Calls'
  BY <1>1 DEF CallsInv, Calls
<1>9. Batches'
  BY <1>1 DEF CallsInv, Batches, flush
<1> QED
  BY <1>5, <1>6, <1>7, <1>8, <1>9 DEF CallsInv

(* The group left behind.                                                  *)
LEMMA CallsReset ==
  ASSUME CallsInv, ResetGroup
  PROVE  CallsInv'
<1>1. /\ outcome = "open" /\ call # "none" /\ step = "reset" /\ step' = "idle"
      /\ blocks_in_group' = 0 /\ pending_blocks' = <<>> /\ group_start_offset' = inner
      /\ block_entries' = <<>>
      /\ UNCHANGED <<file, inner, buffer_len, gc_pending, totals, compressed,
                     call, rest, accepted, session, outcome>>
  BY DEF ResetGroup, At
<1>2. /\ buffer_len = 0 /\ Len(<<>>) = 0 /\ <<>> \in Seq(Blocks) /\ <<>> \in Seq(IndexEntries)
  BY <1>1, EmptySeq DEF CallsInv, Calls
<1>3. Types'
  <2>1. FileTypes' /\ BufferTypes'
    BY <1>1, <1>2, CallsTypes DEF FileTypes, FileType, BufferTypes
  <2>2. FlushTypes' /\ CallTypes'
    BY <1>1, <1>2, CallsTypes DEF FlushTypes, CallTypes, totals
  <2> QED
    BY <2>1, <2>2 DEF Types
<1>4. GcPends'
  BY <1>1, Zenon DEF CallsInv, GcPends
<1>5. Buffered'
  <2>1. InOrder(<<>>, accepted' - buffer_len')
    BY <1>2 DEF InOrder
  <2>2. Room'
    BY <1>1, <1>2, CallsTypes, WriterConfig DEF Room
  <2> QED
    BY <1>1, <1>2, <2>1, <2>2 DEF Buffered
<1>6. Calls'
  BY <1>1, <1>2, WriterConfig DEF CallsInv, Calls, MaxBlocks
<1>7. Batches'
  BY <1>1, <1>2 DEF Batches
<1> QED
  BY <1>3, <1>4, <1>5, <1>6, <1>7 DEF CallsInv

(* The files that a writer that stops can leave.                           *)
LEMMA InterruptedIs ==
  ASSUME CallsInv, NEW new \in Interrupted
  PROVE  \/ new = file
         \/ \E m \in Members, size \in Nat :
              /\ size < m.zc /\ new = WriteMember(file, inner, m, size)
              /\ \/ step = "write" /\ m = Head(compressed)
                 \/ step = "index" /\ m = Idx
<1> DEFINE Cut(m) == {WriteMember(file, inner, m, k) : k \in {k \in TornSizes : k < m.zc}}
<1>1. \/ new = file
      \/ step = "write" /\ new \in Cut(Head(compressed))
      \/ step = "index" /\ new \in Cut(Idx)
  BY DEF Interrupted
<1>2. ASSUME NEW m \in Members, new \in Cut(m)
      PROVE  \E size \in Nat : size < m.zc /\ new = WriteMember(file, inner, m, size)
  BY <1>2, WriterConfig
<1>3. Idx \in Members
  BY CallsTypes, IdxMemberIs DEF Idx
<1>4. step = "write" => Head(compressed) \in Members
  BY CallsTypes, HeadTailProperties DEF CallsInv, Batches, IsBatch
<1> HIDE DEF Cut
<1> QED
  BY <1>1, <1>2, <1>3, <1>4

(* The ends of a writer, and the next one.                                 *)
LEMMA CallsEnd ==
  ASSUME CallsInv, Fail \/ Crash \/ Drop
  PROVE  CallsInv'
<1>1. /\ UNCHANGED <<inner, group_start_offset, buffers, totals, flush, control,
                     accepted, session>>
      /\ outcome' \in {"error", "panic", "crash", "warned", "dropped"}
      /\ file' = file \/ file' \in Interrupted
  BY DEF Fail, Crash, Drop, Stop
<1>2. FileType(file')
  <2>1. CASE file' = file
    BY <2>1, CallsTypes
  <2>2. CASE file' \in Interrupted
    <3>1. PICK new : new = file' /\ new \in Interrupted
      BY <2>2
    <3>2. \/ new = file
          \/ \E m \in Members, size \in Nat : new = WriteMember(file, inner, m, size)
      BY <3>1, InterruptedIs
    <3> QED
      BY <3>1, <3>2, CallsTypes, WrittenType
  <2> QED
    BY <1>1, <2>1, <2>2
<1>3. Types'
  BY <1>1, <1>2, CallsTypes DEF Types, FileTypes, FileType, BufferTypes, FlushTypes, CallTypes,
                                buffers, totals, flush, control
<1>4. GcPends'
  BY <1>1, Zenon DEF CallsInv, GcPends, buffers, control
<1>5. Buffered'
  <2>1. InOrder(pending_blocks', accepted' - buffer_len')
    BY <1>1 DEF CallsInv, Buffered, buffers
  <2> QED
    BY <1>1, <2>1 DEF CallsInv, Buffered, buffers, Room
<1>6. Calls'
  BY <1>1 DEF CallsInv, Calls, buffers, control
<1>7. Batches'
  BY <1>1 DEF CallsInv, Batches, buffers, flush, control
<1> QED
  BY <1>3, <1>4, <1>5, <1>6, <1>7 DEF CallsInv

(* Another writer on the file.                                             *)
LEMMA CallsNewWriter ==
  ASSUME CallsInv, NewWriter
  PROVE  CallsInv'
<1>1. /\ outcome = "finished" /\ outcome' = "open" /\ step = "idle" /\ call = "none"
      /\ session' = [number |-> session.number + 1, from |-> accepted, at |-> inner]
      /\ group_start_offset' = inner
      /\ buffer_len' = 0 /\ pending_blocks' = <<>> /\ blocks_in_group' = 0
      /\ total_uncompressed' = 0 /\ total_compressed' = 0 /\ total_blocks' = 0
      /\ UNCHANGED <<file, inner, flush, control, accepted>>
  BY DEF NewWriter, StartOffset, CallsInv, Calls
<1>2. Len(<<>>) = 0 /\ <<>> \in Seq(Blocks)
  BY EmptySeq
<1>3. session'.from = accepted /\ session' \in [number : Nat, from : Nat, at : Nat]
  <2>1. session.number + 1 \in Nat
    BY CallsTypes
  <2> QED
    BY <1>1, <2>1, CallsTypes
<1>4. Types'
  <2>1. FileTypes' /\ BufferTypes'
    BY <1>1, <1>2, CallsTypes, WriterConfig DEF FileTypes, FileType, BufferTypes
  <2>2. FlushTypes'
    BY <1>1, CallsTypes DEF FlushTypes, flush
  <2>3. CallTypes'
    <3>1. UNCHANGED <<call, step, rest, accepted>> /\ outcome' = "open"
      BY <1>1 DEF control
    <3> QED
      BY <1>3, <3>1, CallsTypes DEF CallTypes
  <2> QED
    BY <2>1, <2>2, <2>3 DEF Types
<1>5. GcPends'
  <2>1. gc_pending' = FALSE
    BY DEF NewWriter
  <2> QED
    BY <1>1, <2>1, Zenon DEF GcPends
<1>6. Buffered'
  <2>1. InOrder(<<>>, accepted' - buffer_len')
    BY <1>2 DEF InOrder
  <2>2. Room'
    BY <1>1, <1>2, WriterConfig DEF Room
  <2> QED
    BY <1>1, <1>2, <2>1, <2>2 DEF Buffered
<1>7. Calls'
  <2>1. session'.from + buffer_len' <= accepted'
    BY <1>1, <1>3, CallsTypes
  <2> QED
    BY <1>1, <1>2, <2>1, WriterConfig DEF Calls, MaxBlocks, control
<1>8. Batches'
  BY <1>1, <1>2 DEF CallsInv, Batches, flush, control
<1> QED
  BY <1>4, <1>5, <1>6, <1>7, <1>8 DEF CallsInv

(* CallsInv is inductive.                                                  *)
LEMMA CallsNext ==
  ASSUME CallsInv, [Next]_vars
  PROVE  CallsInv'
<1>1. CASE UNCHANGED vars
  <2>1. Types'
    BY <1>1, CallsTypes DEF Types, FileTypes, FileType, BufferTypes, FlushTypes, CallTypes,
                            vars, buffers, totals, flush, control
  <2>2. GcPends'
    BY <1>1, Zenon DEF CallsInv, GcPends, vars, buffers, control
  <2>3. Buffered'
    <3>1. InOrder(pending_blocks', accepted' - buffer_len')
      BY <1>1 DEF CallsInv, Buffered, vars, buffers
    <3> QED
      BY <1>1, <3>1 DEF CallsInv, Buffered, Room, vars, buffers, control
  <2>4. Calls'
    BY <1>1 DEF CallsInv, Calls, vars, buffers, control
  <2>5. Batches'
    BY <1>1 DEF CallsInv, Batches, vars, buffers, flush, control
  <2> QED
    BY <2>1, <2>2, <2>3, <2>4, <2>5 DEF CallsInv
<1>2. CASE Next
  BY <1>2, CallsOutside, CallsFinish, CallsTake, CallsCompress, CallsWriteBlock, CallsWriteIdx,
     CallsBackpatch, CallsReset, CallsEnd, CallsNewWriter DEF Next, Progress
<1> QED
  BY <1>1, <1>2

(* It holds what TypeOK and BuffersInOrder ask for.                        *)
LEMMA CallsInOrder ==
  ASSUME CallsInv
  PROVE  TypeOK /\ BuffersInOrder
<1>1. TypeOK
  <2>1. gc_pending \in BOOLEAN
    BY Zenon DEF CallsInv, GcPends
  <2> QED
    BY <2>1, CallsTypes DEF TypeOK, FileType
<1>2. BuffersInOrder
  BY DEF CallsInv, Buffered, InOrder, Room, BuffersInOrder
<1> QED
  BY <1>1, <1>2

(* The writer is in the states it should be in.                            *)
THEOREM WriterTypeOK == Spec => []TypeOK
<1>1. Init => CallsInv
  BY CallsInit
<1>2. CallsInv /\ [Next]_vars => CallsInv'
  BY CallsNext
<1>3. CallsInv => TypeOK
  BY CallsInOrder
<1> QED
  BY <1>1, <1>2, <1>3, PTL DEF Spec

(* What is not on the file yet is all there, in order, whatever the sizes  *)
(* of the blocks, of the groups, of the batches and of the input.          *)
THEOREM WriterBuffersInOrder == Spec => []BuffersInOrder
<1>1. Init => CallsInv
  BY CallsInit
<1>2. CallsInv /\ [Next]_vars => CallsInv'
  BY CallsNext
<1>3. CallsInv => BuffersInOrder
  BY CallsInOrder
<1> QED
  BY <1>1, <1>2, <1>3, PTL DEF Spec

-----------------------------------------------------------------------------
(* What is on the file: members end to end up to the cursor, as long as    *)
(* nothing has failed, and the BEG member of the group where it starts.    *)

Running == outcome \in {"open", "finished"}

GroupHeaded ==
  step # "reset" =>
    IF block_entries = <<>> THEN inner = group_start_offset
    ELSE /\ group_start_offset \in DOMAIN file.members
         /\ file.members[group_start_offset].kind = "beg"

FileInv ==
  /\ Tiles(file)
  /\ Running => Intact(file) /\ inner = file.length /\ GroupHeaded

(* The file, action by action.                                             *)
LEMMA FileInit ==
  ASSUME Init
  PROVE  FileInv
BY EmptyFileIntact DEF Init, FileInv, Running, GroupHeaded, Intact

(* The actions that do not touch the file.                                 *)
LEMMA Elsewhere ==
  ASSUME CallsInv,
         \/ \E n \in WriteSizes : Write(n)
         \/ Finish \/ Take \/ WriteReturns \/ FinishReturns \/ Compress
  PROVE  /\ UNCHANGED <<file, inner, group_start_offset, block_entries, totals, session>>
         /\ step # "reset" /\ step' # "reset" /\ outcome = "open" /\ Running'
<1>1. Flushing(TRUE) # "reset" /\ Flushing(GroupFull) # "reset"
  BY DEF Flushing
<1>2. CASE (\E n \in WriteSizes : Write(n)) \/ WriteReturns \/ FinishReturns
  BY <1>2 DEF Write, WriteReturns, FinishReturns, Idle, At, CallsInv, Calls, Running, flush
<1>3. CASE Finish
  BY <1>1, <1>3 DEF Finish, Idle, CallsInv, Calls, Running, flush
<1>4. CASE Take
  <2>1. /\ outcome = "open" /\ step = "idle" /\ step' \in {"idle", Flushing(GroupFull)}
        /\ UNCHANGED <<file, inner, group_start_offset, totals, flush, call, session, outcome>>
    BY <1>4 DEF Take, At
  <2> QED
    BY <1>1, <2>1 DEF Running, flush
<1>5. CASE Compress
  BY <1>5 DEF Compress, At, Running
<1> QED
  BY <1>2, <1>3, <1>4, <1>5

(* What WriteBlock writes, where.                                          *)
LEMMA BlockWritten ==
  ASSUME CallsInv, WriteBlock,
         NEW n \in Nat, n = Len(pending_blocks), NEW done \in Nat, done = Len(block_entries),
         NEW p \in Nat, p = done + 1
  PROVE  /\ p \in 1..n /\ pending_blocks[p] \in Blocks
         /\ pending_blocks[p].kind = IF done = 0 THEN "beg" ELSE "dat"
         /\ \E cb \in Members, e \in IndexEntries :
              /\ file' = WriteMember(file, inner, cb, cb.zc) /\ inner' = inner + cb.zc
              /\ cb.zc # 0 /\ cb.kind = pending_blocks[p].kind /\ cb.gc = 0
              /\ cb.from = pending_blocks[p].from /\ cb.to = pending_blocks[p].to
              /\ e.compressed_size = cb.zc /\ e.uncompressed_size = cb.to - cb.from
              /\ block_entries' = Append(block_entries, e)
              /\ total_compressed' = total_compressed + e.compressed_size
              /\ total_uncompressed' = total_uncompressed + e.uncompressed_size
<1> DEFINE cb == Head(compressed)
           entry == [compressed_size |-> cb.zc, uncompressed_size |-> cb.to - cb.from]
<1>1. /\ step = "write"
      /\ file' = WriteMember(file, inner, cb, cb.zc) /\ inner' = inner + cb.zc
      /\ block_entries' = Append(block_entries, entry)
      /\ total_compressed' = total_compressed + cb.zc
      /\ total_uncompressed' = total_uncompressed + (cb.to - cb.from)
  BY DEF WriteBlock, At
<1>2. IsBatch(compressed, pending_blocks, done)
  BY <1>1 DEF CallsInv, Batches
<1>3. /\ cb \in Members /\ p \in 1..n /\ pending_blocks[p] \in Blocks
      /\ \E body \in BodySizes :
           cb = DataMember(pending_blocks[p].kind, body, pending_blocks[p].from, pending_blocks[p].to)
  <2>1. pending_blocks \in Seq(Blocks) /\ compressed \in Seq(Members)
    BY CallsTypes
  <2> HIDE DEF cb
  <2> QED
    BY <1>2, <2>1, BatchWritten DEF cb
<1>4. /\ cb.zc \in Nat /\ cb.zc # 0 /\ cb.kind = pending_blocks[p].kind /\ cb.gc = 0
      /\ cb.from = pending_blocks[p].from /\ cb.to = pending_blocks[p].to
  BY <1>3, DataMemberIs, WriterConfig
<1>5. /\ pending_blocks[p].from < pending_blocks[p].to
      /\ pending_blocks[p].kind = IF p = 1 THEN "beg" ELSE "dat"
  BY <1>3 DEF CallsInv, Buffered, InOrder
<1>6. (p = 1) <=> (done = 0)
  OBVIOUS
<1>7. cb.to - cb.from \in Nat
  <2>1. pending_blocks[p].from \in Nat /\ pending_blocks[p].to \in Nat
    BY <1>3 DEF Blocks
  <2> QED
    BY <1>4, <1>5, <2>1
<1>8. /\ entry \in IndexEntries /\ entry.compressed_size = cb.zc
      /\ entry.uncompressed_size = cb.to - cb.from
  BY <1>4, <1>7 DEF IndexEntries
<1> HIDE DEF cb, entry
<1> QED
  BY <1>1, <1>3, <1>4, <1>5, <1>6, <1>8

(* A block goes behind the members there are, the first where the group    *)
(* starts.                                                                 *)
LEMMA FileWriteBlock ==
  ASSUME CallsInv, FileInv, WriteBlock
  PROVE  FileInv'
<1>1. PICK n \in Nat, done \in Nat, p \in Nat :
        n = Len(pending_blocks) /\ done = Len(block_entries) /\ p = done + 1
  BY CallsTypes, LenProperties
<1>2. PICK cb \in Members, e \in IndexEntries :
        /\ file' = WriteMember(file, inner, cb, cb.zc) /\ inner' = inner + cb.zc /\ cb.zc # 0
        /\ cb.kind = IF done = 0 THEN "beg" ELSE "dat"
        /\ block_entries' = Append(block_entries, e)
  <2>1. /\ pending_blocks[p].kind = IF done = 0 THEN "beg" ELSE "dat"
        /\ \E cb \in Members, e \in IndexEntries :
             /\ file' = WriteMember(file, inner, cb, cb.zc) /\ inner' = inner + cb.zc
             /\ cb.zc # 0 /\ cb.kind = pending_blocks[p].kind
             /\ block_entries' = Append(block_entries, e)
    BY <1>1, BlockWritten
  <2> QED
    BY <2>1
<1>3. /\ outcome = "open" /\ step = "write"
      /\ UNCHANGED <<group_start_offset, outcome>> /\ group_start_offset \in Nat
  BY CallsTypes DEF WriteBlock, At
<1>4. Intact(file) /\ inner = file.length /\ GroupHeaded /\ cb.zc \in Nat
  BY <1>3 DEF FileInv, Running, Members
<1>5. FileType(file) /\ Within(file)
  BY <1>4 DEF Intact
<1>6. PICK new : new = file' /\ new = WriteMember(file, file.length, cb, cb.zc)
  BY <1>2, <1>4
<1>7. /\ new.length = file.length + cb.zc
      /\ DOMAIN new.members = DOMAIN file.members \cup {file.length}
      /\ new.members[file.length] = cb
      /\ \A at \in DOMAIN file.members : new.members[at] = file.members[at]
  BY <1>4, <1>5, <1>6, WrittenBehind
<1>8. Intact(new) /\ Tiles(new)
  BY <1>2, <1>4, <1>6, WrittenIntact
<1>9. block_entries' # <<>>
  <2>1. block_entries \in Seq(IndexEntries)
    BY CallsTypes
  <2>2. Append(block_entries, e) # <<>>
    BY <2>1, AppendProperties
  <2> QED
    BY <1>2, <2>2
<1>10. new.members[group_start_offset].kind = "beg" /\ group_start_offset \in DOMAIN new.members
  <2>1. CASE block_entries = <<>>
    <3>1. group_start_offset = file.length
      BY <1>3, <1>4, <2>1 DEF GroupHeaded
    <3>2. cb.kind = "beg"
      BY <1>1, <1>2, <2>1, EmptySeq
    <3> QED
      BY <1>7, <3>1, <3>2
  <2>2. CASE block_entries # <<>>
    BY <1>3, <1>4, <1>7, <2>2 DEF GroupHeaded
  <2> QED
    BY <2>1, <2>2
<1> QED
  BY <1>2, <1>3, <1>4, <1>6, <1>7, <1>8, <1>9, <1>10 DEF FileInv, Running, GroupHeaded

(* So does the IDX member.                                                 *)
LEMMA FileWriteIdx ==
  ASSUME CallsInv, FileInv, WriteIdx
  PROVE  FileInv'
<1>1. /\ outcome = "open" /\ step = "index"
      /\ UNCHANGED <<group_start_offset, block_entries, outcome>>
      /\ file' = WriteMember(file, inner, Idx, Idx.zc) /\ inner' = inner + Idx.zc
  BY DEF WriteIdx, At, flush
<1>2. PICK idx \in Members : idx = Idx /\ idx.zc \in Nat /\ idx.zc # 0
  BY CallsTypes, IdxMemberIs DEF Idx
<1>3. block_entries # <<>>
  <2>1. Len(block_entries) = Len(pending_blocks) /\ pending_blocks # <<>>
    BY <1>1 DEF CallsInv, Batches, Calls
  <2> QED
    BY <2>1, CallsTypes, EmptySeq
<1>4. Intact(file) /\ inner = file.length /\ GroupHeaded
  BY <1>1 DEF FileInv, Running
<1>5. FileType(file) /\ Within(file)
  BY <1>4 DEF Intact
<1>6. PICK new : new = file' /\ new = WriteMember(file, file.length, idx, idx.zc)
  BY <1>1, <1>2, <1>4
<1>7. /\ new.length = file.length + idx.zc
      /\ DOMAIN new.members = DOMAIN file.members \cup {file.length}
      /\ \A at \in DOMAIN file.members : new.members[at] = file.members[at]
  BY <1>2, <1>5, <1>6, WrittenBehind
<1>8. Intact(new) /\ Tiles(new)
  BY <1>2, <1>4, <1>6, WrittenIntact
<1>9. new.members[group_start_offset].kind = "beg" /\ group_start_offset \in DOMAIN new.members
  BY <1>1, <1>3, <1>4, <1>7 DEF GroupHeaded
<1> QED
  BY <1>1, <1>2, <1>3, <1>4, <1>6, <1>7, <1>8, <1>9 DEF FileInv, Running, GroupHeaded

(* The GC value goes into the BEG member of the group.                     *)
LEMMA FileBackpatch ==
  ASSUME CallsInv, FileInv, Backpatch
  PROVE  FileInv'
<1>1. /\ outcome = "open" /\ step = "patch" /\ step' = "reset" /\ UNCHANGED <<inner, outcome>>
      /\ file' = WriteGc(file, group_start_offset + GC_VALUE_OFFSET, GcValue)
  BY DEF Backpatch, PatchGc, At
<1>2. block_entries # <<>>
  <2>1. Len(block_entries) = Len(pending_blocks) /\ pending_blocks # <<>>
    BY <1>1 DEF CallsInv, Batches, Calls
  <2> QED
    BY <2>1, CallsTypes, EmptySeq
<1>3. PICK gc \in Nat, beg \in Nat : gc = GcValue /\ beg = group_start_offset
  BY CallsTypes, SizesType, SumIsNat DEF GcValue
<1>4. /\ Intact(file) /\ inner = file.length
      /\ beg \in DOMAIN file.members /\ file.members[beg].kind = "beg"
  BY <1>1, <1>2, <1>3 DEF FileInv, Running, GroupHeaded
<1>5. PICK new : new = file' /\ new = WriteGc(file, beg + GC_VALUE_OFFSET, gc)
  BY <1>1, <1>3
<1>6. Intact(new) /\ new.length = file.length
  BY <1>4, <1>5, GcIntact
<1> QED
  BY <1>1, <1>4, <1>5, <1>6 DEF FileInv, Running, GroupHeaded, Intact

(* A write that is not carried out can only cut the last member short.     *)
LEMMA FileEnd ==
  ASSUME CallsInv, FileInv, Fail \/ Crash \/ Drop
  PROVE  FileInv'
<1>1. /\ outcome = "open" /\ ~Running'
      /\ file' = file \/ file' \in Interrupted
  BY DEF Fail, Crash, Drop, Stop, Idle, Running
<1>2. Intact(file) /\ inner = file.length /\ Tiles(file)
  BY <1>1 DEF FileInv, Running
<1>3. CASE file' = file
  BY <1>1, <1>2, <1>3 DEF FileInv, Tiles, Follows, EndOf
<1>4. CASE file' \in Interrupted
  <2>1. PICK new : new = file' /\ new \in Interrupted
    BY <1>4
  <2>2. \/ new = file
        \/ \E m \in Members, size \in Nat : size < m.zc /\ new = WriteMember(file, inner, m, size)
    BY <2>1, InterruptedIs
  <2>3. Tiles(new)
    <3>1. CASE new = file
      BY <1>2, <3>1
    <3>2. ASSUME NEW m \in Members, NEW size \in Nat, size < m.zc,
                 new = WriteMember(file, inner, m, size)
          PROVE  Tiles(new)
      <4>1. size <= m.zc /\ new = WriteMember(file, file.length, m, size)
        BY <1>2, <3>2 DEF Members
      <4> QED
        BY <1>2, <4>1, WrittenIntact
    <3> QED
      BY <2>2, <3>1, <3>2
  <2> QED
    BY <1>1, <2>1, <2>3 DEF FileInv
<1> QED
  BY <1>1, <1>3, <1>4

(* FileInv is inductive, with CallsInv.                                    *)
LEMMA FileNext ==
  ASSUME CallsInv, FileInv, [Next]_vars
  PROVE  FileInv'
<1>1. CASE UNCHANGED vars
  BY <1>1 DEF FileInv, Running, GroupHeaded, vars, flush, control
<1>2. CASE \/ \E n \in WriteSizes : Write(n)
           \/ Finish \/ Take \/ WriteReturns \/ FinishReturns \/ Compress
  <2>1. /\ UNCHANGED <<file, inner, group_start_offset, block_entries>>
        /\ step # "reset" /\ step' # "reset" /\ outcome = "open" /\ Running'
    BY <1>2, Elsewhere
  <2> QED
    BY <2>1 DEF FileInv, Running, GroupHeaded
<1>3. CASE WriteBlock
  BY <1>3, FileWriteBlock
<1>4. CASE WriteIdx
  BY <1>4, FileWriteIdx
<1>5. CASE Backpatch
  BY <1>5, FileBackpatch
<1>6. CASE ResetGroup
  BY <1>6 DEF ResetGroup, At, FileInv, Running, GroupHeaded
<1>7. CASE Fail \/ Crash \/ Drop
  BY <1>7, FileEnd
<1>8. CASE NewWriter
  <2>1. block_entries = <<>>
    BY <1>8 DEF NewWriter, CallsInv, Calls, Batches
  <2> QED
    BY <1>8, <2>1 DEF NewWriter, StartOffset, FileInv, Running, GroupHeaded, flush
<1> QED
  BY <1>1, <1>2, <1>3, <1>4, <1>5, <1>6, <1>7, <1>8 DEF Next, Progress

(* Whatever is written and however a writer ends, the file is gzip members *)
(* end to end, of which only the last can be incomplete, and none is once  *)
(* finish() has returned.                                                  *)
THEOREM WriterMembersTile == Spec => []MembersTile
<1>1. Init => CallsInv /\ FileInv
  BY CallsInit, FileInit
<1>2. CallsInv /\ FileInv /\ [Next]_vars => (CallsInv /\ FileInv)'
  BY CallsNext, FileNext
<1>3. CallsInv /\ FileInv => MembersTile
  <2>1. ASSUME CallsInv, FileInv PROVE MembersTile
    <3>1. Tiles(file) /\ (outcome = "finished" => Within(file))
      BY <2>1 DEF FileInv, Running, Intact
    <3> QED
      BY <3>1 DEF MembersTile, Tiles, Within, Follows, EndOf
  <2> QED
    BY <2>1
<1> QED
  BY <1>1, <1>2, <1>3, PTL DEF Spec

-----------------------------------------------------------------------------
(* The members of the group in progress, and the totals of their sizes.    *)

LEMMA AddsExtend ==
  ASSUME NEW n \in Nat, NEW p \in Nat, p = n + 1, NEW start \in Int, NEW s, NEW r, NEW t,
         Adds(n, start, s, t), \A k \in 1..n : r[k] = s[k], r[p] \in Int
  PROVE  \E g : /\ Adds(p, start, r, g) /\ g[p] = t[n] + r[p]
               /\ \A k \in 0..n : g[k] = t[k]
<1> DEFINE g == [k \in 0..p |-> IF k = p THEN t[n] + r[p] ELSE t[k]]
<1>1. /\ t \in [0..n -> Int] /\ t[0] = start
      /\ \A k \in 1..n : t[k] = t[k - 1] + s[k]
  BY DEF Adds
<1>2. g \in [0..p -> Int] /\ g[p] = t[n] + r[p] /\ \A k \in 0..n : g[k] = t[k]
  <2>1. t[n] \in Int /\ t[n] + r[p] \in Int
    BY <1>1
  <2>2. \A k \in 0..p : k # p => t[k] \in Int
    BY <1>1
  <2> QED
    BY <2>1, <2>2
<1> HIDE DEF g
<1>3. ASSUME NEW k \in 1..p PROVE g[k] = g[k - 1] + r[k]
  <2>1. CASE k = p
    <3>1. k - 1 = n
      BY <2>1
    <3> QED
      BY <1>2, <2>1, <3>1
  <2>2. CASE k # p
    <3>1. k \in 1..n /\ k \in 0..n /\ k - 1 \in 0..n
      BY <2>2
    <3> QED
      BY <1>1, <1>2, <3>1
  <2> QED
    BY <2>1, <2>2
<1>4. g[0] = start
  BY <1>1, <1>2
<1> QED
  BY <1>2, <1>3, <1>4 DEF Adds

(* The totals from start on are the sums of the sizes, shifted.            *)
LEMMA SumFromStart ==
  ASSUME NEW n \in Nat, NEW start \in Int, NEW s \in Seq(Int), Len(s) = n, NEW t,
         Adds(n, start, s, t)
  PROVE  SumOf(s) = t[n] - start
<1> DEFINE f == [k \in 0..n |-> t[k] - start]
<1>1. /\ t \in [0..n -> Int] /\ t[0] = start
      /\ \A k \in 1..n : t[k] = t[k - 1] + s[k]
  BY DEF Adds
<1>2. f \in [0..n -> Int] /\ f[0] = 0
  BY <1>1
<1>3. s \in [1..n -> Int]
  BY LenProperties
<1>4. ASSUME NEW k \in 1..n PROVE f[k] = f[k - 1] + s[k]
  <2>1. t[k] = t[k - 1] + s[k] /\ t[k] \in Int /\ t[k - 1] \in Int /\ s[k] \in Int
    BY <1>1, <1>3
  <2>2. f[k] = t[k] - start /\ f[k - 1] = t[k - 1] - start
    OBVIOUS
  <2> QED
    BY <2>1, <2>2
<1>5. f[n] = t[n] - start
  OBVIOUS
<1> HIDE DEF f
<1>6. Adds(n, 0, s, f)
  BY <1>2, <1>4 DEF Adds
<1> QED
  BY <1>5, <1>6, SumIs

(* A block is on the file at an offset, with its index entry.              *)
Placed(f, b, e, at) ==
  /\ at \in DOMAIN f.members
  /\ f.members[at].kind = b.kind /\ f.members[at].gc = 0
  /\ f.members[at].from = b.from /\ f.members[at].to = b.to
  /\ f.members[at].zc = e.compressed_size /\ e.uncompressed_size = b.to - b.from

(* The first n blocks of a group are, one behind the other, at t.          *)
GroupIs(f, start, blocks, entries, n, t) ==
  /\ Adds(n, start, CompressedSizes(entries), t)
  /\ \A j \in 1..n : Placed(f, blocks[j], entries[j], t[j - 1])

(* They are, and reach up to end.                                          *)
GroupTo(f, start, blocks, entries, n, end) ==
  \E t : GroupIs(f, start, blocks, entries, n, t) /\ t[n] = end

(* A group without a block ends where it starts.                           *)
LEMMA GroupEmpty ==
  ASSUME NEW f, NEW start \in Nat, NEW blocks
  PROVE  GroupTo(f, start, blocks, <<>>, 0, start)
<1> DEFINE t == [k \in 0..0 |-> start]
<1>1. t \in [0..0 -> Int] /\ t[0] = start
  OBVIOUS
<1> HIDE DEF t
<1>2. GroupIs(f, start, blocks, <<>>, 0, t)
  BY <1>1 DEF GroupIs, Adds
<1> QED
  BY <1>1, <1>2 DEF GroupTo

(* Members added behind a group leave it as it is.                         *)
LEMMA GroupBehind ==
  ASSUME NEW f, NEW new, \A at \in DOMAIN f.members :
                           at \in DOMAIN new.members /\ new.members[at] = f.members[at],
         NEW start, NEW blocks, NEW entries, NEW n, NEW end,
         GroupTo(f, start, blocks, entries, n, end)
  PROVE  GroupTo(new, start, blocks, entries, n, end)
BY DEF GroupTo, GroupIs, Placed

Appended(entries, new, n, p, e) ==
  /\ new \in Seq(IndexEntries) /\ Len(new) = p /\ new[p] = e
  /\ \A k \in 1..n : new[k] = entries[k]
  /\ CompressedSizes(new)[p] = e.compressed_size
  /\ \A k \in 1..n : CompressedSizes(new)[k] = CompressedSizes(entries)[k]

(* One more entry.                                                         *)
LEMMA SizesAppend ==
  ASSUME NEW entries \in Seq(IndexEntries), NEW n \in Nat, n = Len(entries),
         NEW e \in IndexEntries, NEW p \in Nat, p = n + 1, NEW new, new = Append(entries, e)
  PROVE  Appended(entries, new, n, p, e)
<1>1. /\ new \in Seq(IndexEntries) /\ Len(new) = p /\ new[p] = e
      /\ \A k \in 1..n : new[k] = entries[k]
  BY AppendProperties
<1>2. \A k \in 1..p : CompressedSizes(new)[k] = new[k].compressed_size
  BY <1>1, EntrySizes
<1>3. \A k \in 1..n : CompressedSizes(entries)[k] = entries[k].compressed_size
  BY EntrySizes
<1>4. \A k \in 1..n : k \in 1..p
  OBVIOUS
<1>5. p \in 1..p
  OBVIOUS
<1> QED
  BY <1>1, <1>2, <1>3, <1>4, <1>5 DEF Appended

(* One more block, placed where the group ends.                            *)
LEMMA GroupExtend ==
  ASSUME NEW f, NEW start \in Nat, NEW blocks, NEW entries \in Seq(IndexEntries),
         NEW n \in Nat, n = Len(entries), NEW t, GroupIs(f, start, blocks, entries, n, t),
         NEW e \in IndexEntries, NEW p \in Nat, p = n + 1, NEW new, new = Append(entries, e),
         Placed(f, blocks[p], e, t[n]), NEW end, end = t[n] + e.compressed_size
  PROVE  GroupTo(f, start, blocks, new, p, end)
<1>1. /\ new[p] = e /\ \A k \in 1..n : new[k] = entries[k]
      /\ CompressedSizes(new)[p] = e.compressed_size
      /\ \A k \in 1..n : CompressedSizes(new)[k] = CompressedSizes(entries)[k]
  <2>1. Appended(entries, new, n, p, e)
    BY SizesAppend
  <2> QED
    BY <2>1 DEF Appended
<1>2. Adds(n, start, CompressedSizes(entries), t)
      /\ \A j \in 1..n : Placed(f, blocks[j], entries[j], t[j - 1])
  BY DEF GroupIs
<1>3. e.compressed_size \in Int
  BY DEF IndexEntries
<1>4. PICK g : /\ Adds(p, start, CompressedSizes(new), g)
              /\ g[p] = t[n] + CompressedSizes(new)[p]
              /\ \A k \in 0..n : g[k] = t[k]
  BY <1>1, <1>2, <1>3, AddsExtend
<1>5. ASSUME NEW j \in 1..p PROVE Placed(f, blocks[j], new[j], g[j - 1])
  <2>1. CASE j = p
    <3>1. g[j - 1] = t[n] /\ new[j] = e
      BY <1>1, <1>4, <2>1
    <3> QED
      BY <2>1, <3>1
  <2>2. CASE j # p
    <3>1. j \in 1..n /\ j - 1 \in 0..n
      BY <2>2
    <3>2. g[j - 1] = t[j - 1] /\ new[j] = entries[j]
      BY <1>1, <1>4, <3>1
    <3> QED
      BY <1>2, <3>1, <3>2
  <2> QED
    BY <2>1, <2>2
<1> QED
  BY <1>1, <1>4, <1>5 DEF GroupTo, GroupIs

(* The same, for the end alone.                                            *)
LEMMA GroupToNext ==
  ASSUME NEW f, NEW start \in Nat, NEW blocks, NEW entries \in Seq(IndexEntries),
         NEW n \in Nat, n = Len(entries), NEW end \in Nat,
         GroupTo(f, start, blocks, entries, n, end),
         NEW e \in IndexEntries, NEW p \in Nat, p = n + 1, NEW new, new = Append(entries, e),
         Placed(f, blocks[p], e, end)
  PROVE  GroupTo(f, start, blocks, new, p, end + e.compressed_size)
<1>1. PICK t : GroupIs(f, start, blocks, entries, n, t) /\ t[n] = end
  BY DEF GroupTo
<1>2. Placed(f, blocks[p], e, t[n])
  BY <1>1
<1>3. end + e.compressed_size = t[n] + e.compressed_size
  BY <1>1
<1> QED
  BY <1>1, <1>2, <1>3, GroupExtend

(* A group that is all on the file: its blocks follow one another in it    *)
(* and in the stream.                                                      *)
LEMMA GroupConsecutive ==
  ASSUME NEW f, FileType(f), Within(f), NEW n \in Nat \ {0}, NEW start \in Nat, NEW end,
         NEW blocks \in Seq(Blocks), Len(blocks) = n, InOrder(blocks, end),
         NEW entries \in Seq(IndexEntries), Len(entries) = n, NEW t,
         GroupIs(f, start, blocks, entries, n, t)
  PROVE  /\ t \in [0..n -> Nat] /\ t[0] = start /\ start < t[n]
         /\ \E u : /\ Consecutive(f, n, t, u) /\ u[0] = blocks[1].from /\ u[n] = end
                  /\ Adds(n, blocks[1].from, UncompressedSizes(entries), u)
<1> DEFINE u == [j \in 0..n |-> IF j = 0 THEN blocks[1].from ELSE blocks[j].to]
<1>1. /\ CompressedSizes(entries) \in [1..n -> Nat]
      /\ \A k \in 1..n : /\ CompressedSizes(entries)[k] = entries[k].compressed_size
                         /\ UncompressedSizes(entries)[k] = entries[k].uncompressed_size
  BY EntrySizes
<1>2. Adds(n, start, CompressedSizes(entries), t)
      /\ \A j \in 1..n : Placed(f, blocks[j], entries[j], t[j - 1])
  BY DEF GroupIs
<1>3. t \in [0..n -> Nat] /\ t[0] = start /\ \A i, j \in 0..n : i <= j => t[i] <= t[j]
  <2>1. t[0] = start
    BY <1>2, AddsType
  <2> QED
    BY <1>1, <1>2, <2>1, AddsMonotonic
<1>4. ASSUME NEW j \in 1..n
      PROVE  /\ blocks[j].from \in Nat /\ blocks[j].to \in Nat /\ blocks[j].kind \in {"beg", "dat"}
             /\ blocks[j].from < blocks[j].to
             /\ j > 1 => blocks[j].from = blocks[j - 1].to
  <2>1. blocks[j] \in Blocks
    BY ElementOfSeq
  <2> QED
    BY <2>1 DEF Blocks, InOrder
<1>5. 1 \in 1..n /\ n \in 1..n
  OBVIOUS
<1>6. u \in [0..n -> Nat] /\ u[0] = blocks[1].from /\ \A j \in 1..n : u[j] = blocks[j].to
  BY <1>4, <1>5
<1>7. u[n] = end
  BY <1>5, <1>6 DEF InOrder
<1> HIDE DEF u
<1>8. ASSUME NEW j \in 1..n PROVE u[j - 1] = blocks[j].from
  <2>1. CASE j = 1
    BY <1>6, <2>1
  <2>2. CASE j # 1
    <3>1. j - 1 \in 1..n
      BY <2>2
    <3> QED
      BY <1>4, <1>6, <2>2, <3>1
  <2> QED
    BY <2>1, <2>2
<1>9. ASSUME NEW j \in 1..n
      PROVE  /\ t[j - 1] < t[j] /\ u[j - 1] < u[j]
             /\ t[j - 1] \in DOMAIN f.members
             /\ f.members[t[j - 1]].kind \in {"beg", "dat"}
             /\ f.members[t[j - 1]].from = u[j - 1]
             /\ f.members[t[j - 1]].to = u[j]
             /\ u[j] = u[j - 1] + UncompressedSizes(entries)[j]
  <2>1. Placed(f, blocks[j], entries[j], t[j - 1])
    BY <1>2
  <2>2. /\ t[j - 1] \in DOMAIN f.members
        /\ f.members[t[j - 1]].kind = blocks[j].kind
        /\ f.members[t[j - 1]].from = blocks[j].from /\ f.members[t[j - 1]].to = blocks[j].to
        /\ f.members[t[j - 1]].zc = entries[j].compressed_size
        /\ entries[j].uncompressed_size = blocks[j].to - blocks[j].from
    BY <2>1 DEF Placed
  <2>3. entries[j].compressed_size \in Nat /\ entries[j].compressed_size # 0
    <3>1. entries[j].compressed_size \in Nat
      BY <1>1
    <3> QED
      BY <2>2, <3>1 DEF Within
  <2>4. t[j] = t[j - 1] + entries[j].compressed_size
    BY <1>1, <1>2, AddsAt
  <2>5. j - 1 \in 0..n /\ t[j - 1] \in Nat
    BY <1>3
  <2>6. t[j - 1] < t[j]
    BY <2>3, <2>4, <2>5
  <2>7. u[j] = u[j - 1] + UncompressedSizes(entries)[j]
    <3>1. u[j] = blocks[j].to /\ u[j - 1] = blocks[j].from
      BY <1>6, <1>8
    <3>2. UncompressedSizes(entries)[j] = blocks[j].to - blocks[j].from
      BY <1>1, <2>2
    <3> QED
      BY <1>4, <3>1, <3>2
  <2> QED
    BY <1>4, <1>6, <1>8, <2>2, <2>6, <2>7
<1>10. Consecutive(f, n, t, u)
  BY <1>3, <1>6, <1>9 DEF Consecutive
<1>11. Adds(n, blocks[1].from, UncompressedSizes(entries), u)
  <2>1. u \in [0..n -> Int]
    BY <1>6
  <2> QED
    BY <1>6, <1>9, <2>1 DEF Adds
<1>12. start < t[n]
  <2>1. t[0] < t[1] /\ t[1] <= t[n] /\ t[1] \in Nat /\ t[n] \in Nat
    <3>1. t[1 - 1] < t[1]
      BY <1>5, <1>9
    <3> QED
      BY <1>3, <3>1
  <2> QED
    BY <1>3, <2>1
<1> QED
  BY <1>3, <1>6, <1>7, <1>10, <1>11, <1>12

(* The groups up to end are sealed, and hold the stream up to secured.     *)
SealedUpTo(f, end, secured) ==
  \E index : /\ Reached(f, [group_start |-> end, index |-> index])
            /\ Total(index) = secured

(* An empty file is sealed up to its beginning.                            *)
LEMMA SealedStart ==
  ASSUME NEW f
  PROVE  SealedUpTo(f, 0, 0)
BY ReachedStart, FindsNothing DEF SealedUpTo, Start

(* What is sealed stays sealed when nothing below its end changes.         *)
LEMMA SealedBelow ==
  ASSUME NEW old, FileType(old), NEW new, FileType(new), NEW end \in Nat,
         SameBelow(old, new, end), NEW secured, SealedUpTo(old, end, secured)
  PROVE  SealedUpTo(new, end, secured)
<1>1. PICK index : /\ Reached(old, [group_start |-> end, index |-> index])
                  /\ Total(index) = secured
  BY DEF SealedUpTo
<1> DEFINE walk == [group_start |-> end, index |-> index]
<1>2. walk.group_start = end /\ Reached(old, walk)
  BY <1>1
<1> HIDE DEF walk
<1>3. Reached(new, walk)
  BY <1>2, ReachedBelow
<1> QED
  BY <1>1, <1>3 DEF SealedUpTo, walk

(* Where the walk over a file that is sealed up to end stops.              *)
Unsealed(f, end) ==
  \/ end = f.length
  \/ /\ end \in DOMAIN f.members
     /\ f.members[end].kind = "beg" /\ f.members[end].gc = 0

(* The walk stops where it did when a member is written behind, unless one *)
(* starts a group.                                                         *)
LEMMA UnsealedBehind ==
  ASSUME NEW f, FileType(f), Within(f), NEW m \in Members, NEW size \in Nat, NEW new,
         new = WriteMember(f, f.length, m, size),
         NEW end, Unsealed(f, end), end = f.length => m.kind = "beg" /\ m.gc = 0
  PROVE  Unsealed(new, end)
<1>1. /\ DOMAIN new.members = DOMAIN f.members \cup {f.length}
      /\ new.members[f.length] = m
      /\ \A at \in DOMAIN f.members : new.members[at] = f.members[at]
  BY WrittenBehind
<1> QED
  BY <1>1 DEF Unsealed

(* build() stops there, with the index of the sealed groups.               *)
LEMMA SealedBuild ==
  ASSUME NEW f, FileType(f), NEW end \in Nat, NEW secured, SealedUpTo(f, end, secured),
         Unsealed(f, end)
  PROVE  /\ Finds(f, Build(f)) /\ Last(Build(f).compressed_offsets) = end
         /\ Total(Build(f)) = secured
<1>1. PICK index : /\ Reached(f, [group_start |-> end, index |-> index])
                  /\ Total(index) = secured
  BY DEF SealedUpTo
<1> DEFINE walk == [group_start |-> end, index |-> index]
<1>2. walk.group_start = end /\ walk.index = index /\ Reached(f, walk)
  BY <1>1
<1> HIDE DEF walk
<1>3. EndOfGroups(f, end)
  BY DEF Unsealed, EndOfGroups, BEG_HEADER_SIZE, FileType
<1>4. Build(f) = index
  BY <1>2, <1>3, ReachedBuild
<1>5. Finds(f, index) /\ Last(index.compressed_offsets) = end
  BY <1>2, ReachedType DEF Fits
<1> QED
  BY <1>1, <1>4, <1>5

(* Where there is room, XLEN tells the number of entries.                  *)
LEMMA IdxFits ==
  ASSUME GroupsFit, NEW entries \in Seq(IndexEntries), NEW n \in Nat, Len(entries) = n,
         n <= MaxBlocks, NEW idx, idx = IdxMember(EmptyBody, entries)
  PROVE  /\ Xlen(idx) = 12 + 8 * n /\ Xlen(idx) >= XlenBase
         /\ (Xlen(idx) - XlenBase) \div EntrySize = n
         /\ idx.zc = 34 + 8 * n
         /\ IDX_HEADER_BASE_SIZE + (Xlen(idx) - XlenBase) <= idx.zc
<1>1. idx.kind = "idx" /\ idx.entries = entries /\ idx.zc = 34 + 8 * n
  BY IdxMemberIs DEF IDX_HEADER_BASE_SIZE, EntrySize, EmptyBody, PGZF_TAIL_SIZE
<1>2. PICK m \in Nat : m = MaxBlocks
  BY WriterConfig DEF MaxBlocks
<1>3. 12 + 8 * n \in Nat /\ 12 + 8 * n < U16Space /\ U16Space \in Nat
  <2>1. 12 + 8 * m < U16Space
    BY <1>2 DEF GroupsFit, XlenBase, EntrySize
  <2> QED
    BY <1>2, <2>1, U16SpacePositive
<1>4. Xlen(idx) = (12 + 8 * n) % U16Space
  BY <1>1 DEF Xlen, XlenBase, EntrySize
<1>5. (12 + 8 * n) % U16Space = 12 + 8 * n
  BY <1>3
<1>6. Xlen(idx) = 12 + 8 * n
  BY <1>4, <1>5
<1>7. (Xlen(idx) - XlenBase) \div EntrySize = n
  BY <1>6 DEF XlenBase, EntrySize
<1> QED
  BY <1>1, <1>6, <1>7 DEF XlenBase, IDX_HEADER_BASE_SIZE

(* The GC value seals the group: the walk gets past it, to the end of the  *)
(* file, and finds its blocks there.                                       *)
LEMMA GroupSealed ==
  ASSUME GroupsFit, NEW f, Intact(f), NEW n \in Nat \ {0}, n <= MaxBlocks,
         NEW start \in Nat, NEW end,
         NEW blocks \in Seq(Blocks), Len(blocks) = n, InOrder(blocks, end),
         NEW entries \in Seq(IndexEntries), Len(entries) = n, NEW t,
         GroupIs(f, start, blocks, entries, n, t),
         NEW idx, idx = IdxMember(EmptyBody, entries),
         t[n] \in DOMAIN f.members, f.members[t[n]] = idx, f.length = t[n] + idx.zc,
         SealedUpTo(f, start, blocks[1].from),
         NEW new, new = WriteGc(f, start + GC_VALUE_OFFSET, SumOf(CompressedSizes(entries)))
  PROVE  Intact(new) /\ new.length = f.length /\ SealedUpTo(new, new.length, end)
<1>1. FileType(f) /\ Within(f) /\ f.length \in Nat
  BY DEF Intact, FileType
<1>2. t \in [0..n -> Nat] /\ t[0] = start /\ start < t[n]
  BY <1>1, GroupConsecutive
<1>3. PICK u : /\ Consecutive(f, n, t, u) /\ u[0] = blocks[1].from /\ u[n] = end
              /\ Adds(n, blocks[1].from, UncompressedSizes(entries), u)
  BY <1>1, GroupConsecutive
<1>4. PICK gc \in Nat \ {0}, at \in Nat :
        at = t[n] /\ gc = at - start /\ start + gc = at /\ start < at
  <2>1. PICK at \in Nat : at = t[n] /\ start < at
    BY <1>2
  <2>2. at - start \in Nat \ {0} /\ start + (at - start) = at
    BY <2>1
  <2> QED
    BY <2>1, <2>2
<1>5. SumOf(CompressedSizes(entries)) = gc
  <2>1. CompressedSizes(entries) \in Seq(Nat) /\ Len(CompressedSizes(entries)) = n
    BY SizesType
  <2>2. CompressedSizes(entries) \in Seq(Int)
    BY <2>1, SeqMonotonic
  <2>3. Adds(n, start, CompressedSizes(entries), t)
    BY DEF GroupIs
  <2>4. SumOf(CompressedSizes(entries)) = t[n] - start
    BY <2>1, <2>2, <2>3, SumFromStart
  <2> QED
    BY <1>4, <2>4
<1>6. start \in DOMAIN f.members /\ f.members[start].kind = "beg"
  <2>1. 1 \in 1..n
    OBVIOUS
  <2>2. Placed(f, blocks[1], entries[1], t[1 - 1]) /\ blocks[1].kind = "beg"
    BY <2>1 DEF GroupIs, InOrder
  <2> QED
    BY <1>2, <2>2 DEF Placed
<1>7. new = WriteGc(f, start + GC_VALUE_OFFSET, gc)
  BY <1>5
<1>8. Intact(new) /\ SameBelow(f, new, start) /\ new.length = f.length /\ FileType(new)
  BY <1>6, <1>7, GcIntact DEF Intact
<1>9. /\ DOMAIN new.members = DOMAIN f.members
      /\ new.members[start] = [f.members[start] EXCEPT !.gc = gc]
      /\ \A a \in DOMAIN f.members : a # start => new.members[a] = f.members[a]
  BY <1>1, <1>6, <1>7, GcWritten
<1>10. /\ new.members[start].gc = gc /\ new.members[start].kind = "beg"
       /\ new.members[start].from = f.members[start].from
       /\ new.members[start].to = f.members[start].to
  <2>1. f.members[start] \in Members
    BY <1>1, <1>6 DEF FileType
  <2> QED
    BY <1>6, <1>9, <2>1, PatchedMember
<1>11. at \in DOMAIN new.members /\ new.members[at] = idx
  BY <1>4, <1>9
<1>12. /\ Xlen(idx) = 12 + 8 * n /\ Xlen(idx) >= XlenBase
       /\ (Xlen(idx) - XlenBase) \div EntrySize = n
       /\ idx.zc = 34 + 8 * n /\ idx.zc \in Nat /\ idx.zc # 0
       /\ idx.kind = "idx" /\ idx.entries = entries
  BY IdxFits, IdxMemberIs
<1>13. PICK acc : /\ Reached(new, [group_start |-> start, index |-> acc])
                 /\ Finds(new, acc) /\ Last(acc.compressed_offsets) = start
                 /\ Total(acc) = blocks[1].from
  <2>1. SealedUpTo(new, start, blocks[1].from)
    BY <1>1, <1>8, SealedBelow
  <2>2. PICK acc : /\ Reached(new, [group_start |-> start, index |-> acc])
                  /\ Total(acc) = blocks[1].from
    BY <2>1 DEF SealedUpTo
  <2>3. Finds(new, acc) /\ Last(acc.compressed_offsets) = start
    BY <2>2, ReachedType DEF Fits
  <2> QED
    BY <2>2, <2>3
<1> DEFINE walk == [group_start |-> start, index |-> acc]
           index == AddGroup(acc, idx)
<1>14. /\ Reached(new, walk) /\ walk.group_start = start /\ walk.index = acc
       /\ IdxAt(new, walk.group_start) = at
  BY <1>4, <1>10, <1>13 DEF IdxAt
<1>15. NextGroup(new, walk) = [group_start |-> new.length, index |-> index]
  BY <1>4, <1>8, <1>11, <1>14 DEF NextGroup
<1> HIDE DEF walk
<1>16. Passes(new, walk)
  <2>1. ~EndOfGroups(new, start)
    <3>1. start + BEG_HEADER_SIZE <= new.length
      BY <1>4, <1>8, <1>12 DEF BEG_HEADER_SIZE
    <3> QED
      BY <1>4, <1>8, <1>10, <3>1 DEF EndOfGroups, FileType, BEG_HEADER_SIZE
  <2>2. StartsGroup(new, start)
    BY <1>6, <1>9, <1>10 DEF StartsGroup
  <2>3. IsIdx(new, at)
    <3>1. at + IDX_HEADER_BASE_SIZE + (Xlen(idx) - XlenBase) <= new.length
      BY <1>4, <1>8, <1>12 DEF IDX_HEADER_BASE_SIZE, XlenBase
    <3> QED
      BY <1>11, <1>12, <3>1 DEF IsIdx
  <2> QED
    BY <1>14, <2>1, <2>2, <2>3 DEF Passes, ValidGroup
<1>17. Consecutive(new, n, t, u)
  <2>1. ASSUME NEW a \in DOMAIN f.members
        PROVE  /\ a \in DOMAIN new.members /\ new.members[a].kind = f.members[a].kind
               /\ new.members[a].from = f.members[a].from /\ new.members[a].to = f.members[a].to
    BY <1>6, <1>9, <1>10
  <2> QED
    BY <1>3, <2>1 DEF Consecutive
<1>18. /\ acc \in Indexes /\ Len(acc.compressed_offsets) = Len(acc.uncompressed_offsets)
       /\ Last(acc.uncompressed_offsets) = blocks[1].from
  BY <1>13 DEF Finds, Total
<1>19. Grown(acc, index, n, t, u, idx.zc)
  <2>1. /\ Adds(n, Last(acc.compressed_offsets), CompressedSizes(idx.entries), t)
        /\ Adds(n, Last(acc.uncompressed_offsets), UncompressedSizes(idx.entries), u)
    BY <1>3, <1>12, <1>13, <1>18 DEF GroupIs
  <2>2. idx.entries \in Seq(IndexEntries) /\ Len(idx.entries) = n
    BY <1>12
  <2> QED
    BY <1>12, <1>18, <2>1, <2>2, GroupGrows
<1> HIDE DEF index
<1>20. /\ Finds(new, index) /\ Last(index.compressed_offsets) = t[n] + idx.zc
       /\ Total(index) = u[n]
  <2>1. t[0] = Last(acc.compressed_offsets) /\ u[0] = Total(acc)
    BY <1>2, <1>3, <1>13
  <2>2. PICK x \in Nat : x = idx.zc
    BY <1>12
  <2>3. Finds(new, acc) /\ Grown(acc, index, n, t, u, x)
    BY <1>13, <1>19, <2>2
  <2>4. /\ Finds(new, index) /\ Last(index.compressed_offsets) = t[n] + x
        /\ Total(index) = u[n]
    BY <1>17, <2>1, <2>3, FindsGrown
  <2> QED
    BY <2>2, <2>4
<1>21. Reached(new, [group_start |-> new.length, index |-> index])
  <2>1. Fits(new, [group_start |-> new.length, index |-> index])
    BY <1>4, <1>8, <1>20 DEF Fits
  <2> QED
    BY <1>8, <1>11, <1>12, <1>14, <1>15, <1>16, <2>1, ReachedNext
<1> QED
  BY <1>3, <1>8, <1>20, <1>21 DEF SealedUpTo

-----------------------------------------------------------------------------
(* What the file holds of the input: the sealed groups, up to where the    *)
(* group in progress starts, and the blocks of that group one by one.      *)

GroupEnd == IF step = "reset" THEN inner ELSE group_start_offset

Secured ==
  IF step = "reset" THEN accepted - buffer_len
  ELSE BeginOf(pending_blocks, accepted - buffer_len)

Written == IF block_entries = <<>> THEN Secured ELSE pending_blocks[Len(block_entries)].to

GroupUpTo(end) ==
  GroupTo(file, group_start_offset, pending_blocks, block_entries, Len(block_entries), end)

GroupOnFile ==
  IF step = "patch"
  THEN \E at \in DOMAIN file.members :
         GroupUpTo(at) /\ file.members[at] = Idx /\ inner = at + Idx.zc
  ELSE GroupUpTo(inner)

GroupInv == Running /\ step # "reset" => GroupOnFile

Counters ==
  Running => /\ total_compressed = inner - session.at
             /\ total_uncompressed = Written - session.from

SealedInv == SealedUpTo(file, GroupEnd, Secured) /\ Unsealed(file, GroupEnd)

IndexInv == GroupInv /\ Counters /\ SealedInv

(* The index, action by action.                                            *)
LEMMA IndexInit ==
  ASSUME Init
  PROVE  IndexInv
<1>1. /\ file = EmptyFile /\ inner = 0 /\ group_start_offset = 0 /\ pending_blocks = <<>>
      /\ block_entries = <<>> /\ buffer_len = 0 /\ accepted = 0 /\ step = "idle"
      /\ total_compressed = 0 /\ total_uncompressed = 0
      /\ session.from = 0 /\ session.at = 0
  BY DEF Init
<1>2. GroupEnd = 0 /\ Secured = 0 /\ Written = 0
  BY <1>1 DEF GroupEnd, Secured, Written, BeginOf
<1>3. GroupInv
  <2>1. GroupTo(file, 0, pending_blocks, <<>>, 0, 0)
    BY GroupEmpty
  <2>2. Len(block_entries) = 0
    BY <1>1, EmptySeq
  <2> QED
    BY <1>1, <2>1, <2>2 DEF GroupInv, GroupOnFile, GroupUpTo
<1>4. Counters
  BY <1>1, <1>2 DEF Counters
<1>5. SealedInv
  BY <1>1, <1>2, SealedStart, EmptyFileIntact DEF SealedInv, Unsealed
<1> QED
  BY <1>3, <1>4, <1>5 DEF IndexInv

(* The actions that do not touch the file do not change what it holds.     *)
LEMMA IndexElsewhere ==
  ASSUME CallsInv, IndexInv,
         \/ \E n \in WriteSizes : Write(n)
         \/ Finish \/ Take \/ WriteReturns \/ FinishReturns \/ Compress
  PROVE  IndexInv' /\ Secured' = Secured
<1>1. /\ UNCHANGED <<file, inner, group_start_offset, block_entries, totals, session>>
      /\ step # "reset" /\ step' # "reset" /\ outcome = "open" /\ Running'
  BY Elsewhere
<1>2. Secured' = Secured
  <2>1. BeginOf(pending_blocks', accepted' - buffer_len') =
          BeginOf(pending_blocks, accepted - buffer_len)
    <3>1. CASE Finish
      BY <3>1, CallsFinish
    <3>2. CASE Take
      BY <3>2, CallsTake
    <3>3. CASE ~Finish /\ ~Take
      <4>1. UNCHANGED <<buffers, accepted>>
        BY <3>3 DEF Write, WriteReturns, FinishReturns, Compress
      <4> QED
        BY <4>1 DEF buffers
    <3> QED
      BY <3>1, <3>2, <3>3
  <2> QED
    BY <1>1, <2>1 DEF Secured
<1>3. /\ block_entries = <<>> \/ UNCHANGED pending_blocks
      /\ step # "patch" /\ step' # "patch"
  <2>1. Flushing(TRUE) # "patch" /\ Flushing(GroupFull) # "patch"
    BY DEF Flushing
  <2>2. CASE Compress
    BY <2>2 DEF Compress, At, buffers
  <2>3. CASE (\E n \in WriteSizes : Write(n)) \/ WriteReturns \/ FinishReturns \/ Finish
    <3>1. step = "idle" /\ step' \in {"idle", Flushing(TRUE)}
      BY <2>3 DEF Write, WriteReturns, FinishReturns, Finish, Idle, At, CallsInv, Calls
    <3> QED
      BY <2>1, <3>1 DEF CallsInv, Batches
  <2>4. CASE Take
    <3>1. step = "idle" /\ step' \in {"idle", Flushing(GroupFull)}
      BY <2>4 DEF Take, At
    <3> QED
      BY <2>1, <3>1 DEF CallsInv, Batches
  <2> QED
    BY <2>2, <2>3, <2>4
<1>4. GroupInv'
  <2>1. GroupUpTo(inner)
    BY <1>1, <1>3 DEF IndexInv, GroupInv, GroupOnFile, Running
  <2>2. GroupTo(file, group_start_offset, pending_blocks', block_entries, Len(block_entries), inner)
    <3>1. CASE block_entries = <<>>
      <4>1. Len(block_entries) = 0
        BY <3>1, EmptySeq
      <4> QED
        BY <2>1, <4>1 DEF GroupUpTo, GroupTo, GroupIs
    <3>2. CASE UNCHANGED pending_blocks
      BY <2>1, <3>2 DEF GroupUpTo
    <3> QED
      BY <1>3, <3>1, <3>2
  <2> QED
    BY <1>1, <1>3, <2>2 DEF GroupInv, GroupOnFile, GroupUpTo
<1>5. Counters'
  <2>1. Written' = Written
    BY <1>1, <1>2, <1>3 DEF Written
  <2> QED
    BY <1>1, <2>1 DEF IndexInv, Counters, Running, totals
<1>6. SealedInv'
  BY <1>1, <1>2 DEF IndexInv, SealedInv, GroupEnd
<1> QED
  BY <1>2, <1>4, <1>5, <1>6 DEF IndexInv

(* The group in progress is still empty if it starts at the end.           *)
LEMMA StartAtEnd ==
  ASSUME CallsInv, FileInv, outcome = "open", step # "reset",
         group_start_offset = file.length
  PROVE  block_entries = <<>>
<1>1. FileType(file) /\ Within(file) /\ GroupHeaded
  BY DEF FileInv, Running, Intact
<1>2. file.length \notin DOMAIN file.members
  <2>1. ASSUME NEW at \in DOMAIN file.members PROVE at # file.length
    <3>1. /\ at \in Nat /\ file.members[at].zc \in Nat \ {0} /\ file.length \in Nat
          /\ at + file.members[at].zc <= file.length
      BY <1>1 DEF FileType, Within, EndOf, Members
    <3> QED
      BY <3>1
  <2> QED
    BY <2>1
<1> QED
  BY <1>1, <1>2 DEF GroupHeaded

(* A block more is written, at the position where those before it end.     *)
LEMMA BlockContinues ==
  ASSUME CallsInv, WriteBlock,
         NEW n \in Nat, n = Len(pending_blocks), NEW done \in Nat, done = Len(block_entries),
         NEW p \in Nat, p = done + 1
  PROVE  Written = pending_blocks[p].from /\ Written' = pending_blocks[p].to
<1>1. p \in 1..n /\ \E e : block_entries' = Append(block_entries, e) /\ e \in IndexEntries
  BY BlockWritten
<1>2. /\ step = "write" /\ step' \in {"write", "compress", "index"}
      /\ UNCHANGED pending_blocks
  BY DEF WriteBlock, At, buffers
<1>3. block_entries \in Seq(IndexEntries)
  BY CallsTypes
<1>4. Written = pending_blocks[p].from
  <2>1. CASE block_entries = <<>>
    <3>1. done = 0 /\ p = 1
      BY <2>1, EmptySeq
    <3>2. pending_blocks # <<>>
      BY <1>2 DEF CallsInv, Calls
    <3> QED
      BY <1>2, <2>1, <3>1, <3>2 DEF Written, Secured, BeginOf
  <2>2. CASE block_entries # <<>>
    <3>1. done # 0 /\ p > 1 /\ p - 1 = done
      BY <1>3, <2>2, EmptySeq
    <3>2. pending_blocks[p].from = pending_blocks[done].to
      BY <1>1, <3>1 DEF CallsInv, Buffered, InOrder
    <3> QED
      BY <2>2, <3>2 DEF Written
  <2> QED
    BY <2>1, <2>2
<1>5. Written' = pending_blocks[p].to
  <2>1. PICK e \in IndexEntries : block_entries' = Append(block_entries, e)
    BY <1>1
  <2>2. PICK entries : entries = block_entries' /\ entries = Append(block_entries, e)
    BY <2>1
  <2>3. Appended(block_entries, entries, done, p, e)
    BY <1>3, <2>2, SizesAppend
  <2>4. Len(entries) = p /\ entries # <<>>
    BY <2>3, EmptySeq DEF Appended
  <2> QED
    BY <1>2, <2>2, <2>4 DEF Written
<1> QED
  BY <1>4, <1>5

(* A block more is written, and not found yet.                             *)
LEMMA IndexWriteBlock ==
  ASSUME CallsInv, FileInv, IndexInv, WriteBlock
  PROVE  IndexInv' /\ Secured' = Secured
<1>1. PICK n \in Nat, done \in Nat, p \in Nat :
        n = Len(pending_blocks) /\ done = Len(block_entries) /\ p = done + 1
  BY CallsTypes, LenProperties
<1>2. /\ p \in 1..n /\ pending_blocks[p] \in Blocks
      /\ pending_blocks[p].kind = IF done = 0 THEN "beg" ELSE "dat"
  BY <1>1, BlockWritten
<1>3. PICK cb \in Members, e \in IndexEntries :
        /\ file' = WriteMember(file, inner, cb, cb.zc) /\ inner' = inner + cb.zc
        /\ cb.zc # 0 /\ cb.kind = pending_blocks[p].kind /\ cb.gc = 0
        /\ cb.from = pending_blocks[p].from /\ cb.to = pending_blocks[p].to
        /\ e.compressed_size = cb.zc /\ e.uncompressed_size = cb.to - cb.from
        /\ block_entries' = Append(block_entries, e)
        /\ total_compressed' = total_compressed + e.compressed_size
        /\ total_uncompressed' = total_uncompressed + e.uncompressed_size
  BY <1>1, BlockWritten
<1>4. /\ outcome = "open" /\ step = "write" /\ step' \in {"write", "compress", "index"}
      /\ UNCHANGED <<group_start_offset, pending_blocks, buffer_len, accepted, session, outcome>>
      /\ group_start_offset \in Nat /\ inner \in Nat /\ cb.zc \in Nat
  BY CallsTypes DEF WriteBlock, At, buffers, Members
<1>5. Intact(file) /\ FileType(file) /\ Within(file) /\ inner = file.length
  BY <1>4 DEF FileInv, Running, Intact
<1>6. PICK new : new = file' /\ new = WriteMember(file, file.length, cb, cb.zc)
  BY <1>3, <1>5
<1>7. /\ FileType(new) /\ new.length = file.length + cb.zc
      /\ DOMAIN new.members = DOMAIN file.members \cup {file.length}
      /\ new.members[file.length] = cb
      /\ \A at \in DOMAIN file.members : new.members[at] = file.members[at]
  BY <1>4, <1>5, <1>6, WrittenBehind
<1>8. GroupTo(file, group_start_offset, pending_blocks, block_entries, done, inner)
  BY <1>1, <1>4 DEF IndexInv, GroupInv, GroupOnFile, GroupUpTo, Running
<1>9. GroupTo(new, group_start_offset, pending_blocks, block_entries, done, inner)
  BY <1>7, <1>8, GroupBehind
<1>10. Placed(new, pending_blocks[p], e, inner)
  BY <1>3, <1>5, <1>7 DEF Placed
<1>11. PICK entries : entries = block_entries' /\ entries = Append(block_entries, e)
  BY <1>3
<1>12. GroupTo(new, group_start_offset, pending_blocks, entries, p, inner + e.compressed_size)
  <2>1. /\ block_entries \in Seq(IndexEntries) /\ inner \in Nat /\ group_start_offset \in Nat
        /\ done = Len(block_entries) /\ p = done + 1 /\ entries = Append(block_entries, e)
    BY <1>1, <1>11, CallsTypes
  <2> QED
    BY <1>9, <1>10, <2>1, GroupToNext
<1>13. Len(entries) = p /\ entries # <<>>
  <2>1. block_entries \in Seq(IndexEntries)
    BY CallsTypes
  <2>2. Appended(block_entries, entries, done, p, e)
    BY <1>1, <1>11, <2>1, SizesAppend
  <2> QED
    BY <1>1, <2>2, EmptySeq DEF Appended
<1>15. GroupInv'
  <2>1. inner' = inner + e.compressed_size
    BY <1>3
  <2>2. GroupTo(file', group_start_offset', pending_blocks', block_entries', Len(block_entries'), inner')
    BY <1>4, <1>6, <1>11, <1>12, <1>13, <2>1
  <2> QED
    BY <1>4, <2>2 DEF GroupInv, GroupOnFile, GroupUpTo
<1>16. Secured' = Secured
  BY <1>4 DEF Secured
<1>17. Counters'
  <2>1. Written = pending_blocks[p].from
    BY <1>1, BlockContinues
  <2>2. Written' = pending_blocks[p].to
    BY <1>1, BlockContinues
  <2>3. PICK from \in Nat, to \in Nat, q \in Int, z \in Nat :
          /\ from = pending_blocks[p].from /\ to = pending_blocks[p].to
          /\ q = e.uncompressed_size /\ q = to - from /\ z = e.compressed_size /\ z = cb.zc
    BY <1>2, <1>3, <1>4 DEF Blocks
  <2>4. session.at \in Nat /\ session.from \in Nat
    BY CallsTypes
  <2>5. total_compressed = inner - session.at /\ total_uncompressed = from - session.from
    BY <1>4, <2>1, <2>3 DEF IndexInv, Counters, Running
  <2>6. /\ total_compressed' = total_compressed + z /\ total_uncompressed' = total_uncompressed + q
        /\ inner' = inner + z /\ session' = session /\ Written' = to
    BY <1>3, <1>4, <2>2, <2>3
  <2>7. total_compressed' = inner' - session'.at
    BY <1>4, <2>4, <2>5, <2>6
  <2>8. total_uncompressed' = Written' - session'.from
    BY <2>3, <2>4, <2>5, <2>6
  <2> QED
    BY <2>7, <2>8 DEF Counters
<1>18. SealedInv'
  <2>1. SealedUpTo(file, group_start_offset, Secured) /\ Unsealed(file, group_start_offset)
    BY <1>4 DEF IndexInv, SealedInv, GroupEnd
  <2>2. SealedUpTo(new, group_start_offset, Secured)
    BY <1>4, <1>5, <1>6, <1>7, <2>1, WrittenIsSame, SealedBelow
  <2>3. Unsealed(new, group_start_offset)
    <3>1. group_start_offset = file.length => cb.kind = "beg" /\ cb.gc = 0
      BY <1>1, <1>2, <1>3, <1>4, StartAtEnd, EmptySeq
    <3>2. new = WriteMember(file, file.length, cb, cb.zc) /\ cb.zc \in Nat
      BY <1>4, <1>6
    <3> QED
      BY <1>5, <2>1, <3>1, <3>2, UnsealedBehind
  <2> QED
    BY <1>4, <1>6, <1>16, <2>2, <2>3 DEF SealedInv, GroupEnd
<1> QED
  BY <1>15, <1>16, <1>17, <1>18 DEF IndexInv

(* The blocks of a group begin before they end.                            *)
LEMMA InOrderBegins ==
  ASSUME NEW blocks \in Seq(Blocks), NEW n \in Nat \ {0}, n = Len(blocks), NEW end \in Nat,
         InOrder(blocks, end)
  PROVE  blocks[1].from < end
<1> DEFINE bad == {k \in 1..n : ~(blocks[1].from < blocks[k].to)}
<1>1. ASSUME NEW k \in 1..n
      PROVE  /\ blocks[k].from \in Nat /\ blocks[k].to \in Nat /\ blocks[k].from < blocks[k].to
             /\ k > 1 => blocks[k].from = blocks[k - 1].to
  <2>1. blocks[k] \in Blocks
    BY ElementOfSeq
  <2> QED
    BY <2>1 DEF Blocks, InOrder
<1>2. bad = {}
  <2>1. SUFFICES ASSUME bad # {} PROVE FALSE
    OBVIOUS
  <2>2. PICK m \in bad : \A x \in bad : m <= x
    <3>1. bad \in SUBSET Nat
      OBVIOUS
    <3> HIDE DEF bad
    <3> QED
      BY <2>1, <3>1, LeastOf
  <2>3. m \in 1..n /\ ~(blocks[1].from < blocks[m].to)
    OBVIOUS
  <2>4. m # 1 /\ m - 1 \in 1..n
    BY <1>1, <2>3
  <2>5. blocks[1].from < blocks[m - 1].to
    BY <2>2, <2>4
  <2> HIDE DEF bad
  <2> QED
    BY <1>1, <2>3, <2>4, <2>5
<1>3. n \in 1..n /\ blocks[n].to = end
  BY DEF InOrder
<1> QED
  BY <1>2, <1>3

(* The first member of a group is its BEG member, without a GC value.      *)
LEMMA FirstIsBeg ==
  ASSUME CallsInv, IsBatch(compressed, pending_blocks, 0), NEW m, m = Head(compressed)
  PROVE  m.kind = "beg" /\ m.gc = 0
<1>1. PICK n \in Nat : n = Len(pending_blocks)
  BY CallsTypes, LenProperties
<1>2. pending_blocks \in Seq(Blocks) /\ compressed \in Seq(Members) /\ 1 = 0 + 1
  BY CallsTypes
<1>3. /\ 1 \in 1..n /\ pending_blocks[1] \in Blocks
      /\ \E body \in BodySizes :
           m = DataMember(pending_blocks[1].kind, body, pending_blocks[1].from, pending_blocks[1].to)
  BY <1>1, <1>2, BatchWritten
<1>4. m.kind = pending_blocks[1].kind /\ m.gc = 0
  BY <1>3, DataMemberIs, WriterConfig
<1> QED
  BY <1>1, <1>3, <1>4 DEF CallsInv, Buffered, InOrder

(* The IDX member behind the blocks is not found yet either.               *)
LEMMA IndexWriteIdx ==
  ASSUME CallsInv, FileInv, IndexInv, WriteIdx
  PROVE  IndexInv' /\ Secured' = Secured
<1>1. /\ outcome = "open" /\ step = "index" /\ step' = "patch"
      /\ UNCHANGED <<group_start_offset, pending_blocks, buffer_len, block_entries,
                     total_uncompressed, accepted, session, outcome>>
      /\ file' = WriteMember(file, inner, Idx, Idx.zc) /\ inner' = inner + Idx.zc
      /\ total_compressed' = total_compressed + Idx.zc
  BY CallsWriteIdx DEF WriteIdx, At, buffers, flush
<1>2. PICK idx \in Members : idx = Idx /\ idx.zc \in Nat
  BY CallsTypes, IdxMemberIs DEF Idx
<1>3. Idx' = Idx
  BY <1>1 DEF Idx
<1>4. block_entries # <<>>
  <2>1. Len(block_entries) = Len(pending_blocks) /\ pending_blocks # <<>>
    BY <1>1 DEF CallsInv, Batches, Calls
  <2> QED
    BY <2>1, CallsTypes, EmptySeq
<1>5. FileType(file) /\ Within(file) /\ inner = file.length
  BY <1>1 DEF FileInv, Running, Intact
<1>6. PICK new : new = file' /\ new = WriteMember(file, file.length, idx, idx.zc)
  BY <1>1, <1>2, <1>5
<1>7. /\ FileType(new)
      /\ DOMAIN new.members = DOMAIN file.members \cup {file.length}
      /\ new.members[file.length] = idx
      /\ \A at \in DOMAIN file.members : new.members[at] = file.members[at]
  BY <1>2, <1>5, <1>6, WrittenBehind
<1>8. GroupInv'
  <2>1. GroupTo(file, group_start_offset, pending_blocks, block_entries, Len(block_entries), inner)
    BY <1>1 DEF IndexInv, GroupInv, GroupOnFile, GroupUpTo, Running
  <2>2. PICK at : at = file.length /\ at = inner
    BY <1>5
  <2>3. GroupTo(new, group_start_offset, pending_blocks, block_entries, Len(block_entries), at)
    BY <1>7, <2>1, <2>2, GroupBehind
  <2>4. GroupUpTo(at)'
    BY <1>1, <1>6, <2>3 DEF GroupUpTo
  <2>5. at \in DOMAIN file'.members /\ file'.members[at] = Idx' /\ inner' = at + Idx'.zc
    BY <1>1, <1>2, <1>3, <1>6, <1>7, <2>2
  <2> QED
    BY <1>1, <2>4, <2>5 DEF GroupInv, GroupOnFile
<1>9. Secured' = Secured /\ Written' = Written
  BY <1>1 DEF Secured, Written
<1>10. Counters'
  <2>1. session.at \in Nat /\ inner \in Nat
    BY CallsTypes
  <2>2. total_compressed = inner - session.at /\ total_uncompressed = Written - session.from
    BY <1>1 DEF IndexInv, Counters, Running
  <2>3. total_compressed' = inner' - session'.at
    BY <1>1, <1>2, <2>1, <2>2
  <2> QED
    BY <1>1, <1>9, <2>2, <2>3 DEF Counters
<1>11. SealedInv'
  <2>1. SealedUpTo(file, group_start_offset, Secured) /\ Unsealed(file, group_start_offset)
    BY <1>1 DEF IndexInv, SealedInv, GroupEnd
  <2>2. group_start_offset \in Nat
    BY CallsTypes
  <2>3. SealedUpTo(new, group_start_offset, Secured)
    <3>1. SameBelow(file, new, group_start_offset)
      BY <1>2, <1>5, <1>6, WrittenIsSame
    <3> QED
      BY <1>5, <1>7, <2>1, <2>2, <3>1, SealedBelow
  <2>4. Unsealed(new, group_start_offset)
    <3>1. group_start_offset # file.length
      BY <1>1, <1>4, StartAtEnd
    <3> QED
      BY <1>2, <1>5, <1>6, <2>1, <3>1, UnsealedBehind
  <2> QED
    BY <1>1, <1>6, <1>9, <2>3, <2>4 DEF SealedInv, GroupEnd
<1> QED
  BY <1>8, <1>9, <1>10, <1>11 DEF IndexInv

(* The GC value makes the group part of the index.                         *)
LEMMA IndexBackpatch ==
  ASSUME GroupsFit, CallsInv, FileInv, IndexInv, Backpatch
  PROVE  IndexInv' /\ Secured' = accepted /\ Secured < accepted /\ accepted' = accepted
<1>1. /\ outcome = "open" /\ step = "patch" /\ step' = "reset" /\ pending_blocks # <<>>
      /\ buffer_len = 0
      /\ file' = WriteGc(file, group_start_offset + GC_VALUE_OFFSET, GcValue)
      /\ UNCHANGED <<inner, group_start_offset, pending_blocks, buffer_len, block_entries,
                     totals, accepted, session, outcome>>
  BY DEF Backpatch, PatchGc, At, flush, CallsInv, Calls
<1>2. PICK blocks \in Seq(Blocks), entries \in Seq(IndexEntries), start \in Nat, end \in Nat :
        /\ blocks = pending_blocks /\ entries = block_entries /\ start = group_start_offset
        /\ end = accepted /\ end = accepted - buffer_len
  BY <1>1, CallsTypes
<1>3. PICK n \in Nat \ {0} : n = Len(blocks) /\ n = Len(entries)
  <2>1. Len(entries) = Len(blocks) /\ blocks # <<>>
    BY <1>1, <1>2 DEF CallsInv, Batches
  <2> QED
    BY <1>2, <2>1, EmptySeq, LenProperties
<1>4. n <= MaxBlocks /\ InOrder(blocks, end)
  BY <1>2, <1>3 DEF CallsInv, Calls, Buffered
<1>5. PICK idx \in Members : idx = Idx /\ idx = IdxMember(EmptyBody, entries)
  BY <1>2, IdxMemberIs DEF Idx
<1>6. PICK at \in DOMAIN file.members :
        /\ GroupTo(file, start, blocks, entries, n, at) /\ file.members[at] = idx
        /\ inner = at + idx.zc
  BY <1>1, <1>2, <1>3, <1>5 DEF IndexInv, GroupInv, GroupOnFile, GroupUpTo, Running
<1>7. PICK t : GroupIs(file, start, blocks, entries, n, t) /\ t[n] = at
  BY <1>6 DEF GroupTo
<1>8. Intact(file) /\ inner = file.length
  BY <1>1 DEF FileInv, Running
<1>9. Secured = blocks[1].from
  BY <1>1, <1>2 DEF Secured, BeginOf
<1>10. SealedUpTo(file, start, blocks[1].from)
  BY <1>1, <1>2, <1>9 DEF IndexInv, SealedInv, GroupEnd
<1>11. PICK new : /\ new = file'
                 /\ new = WriteGc(file, start + GC_VALUE_OFFSET, SumOf(CompressedSizes(entries)))
  BY <1>1, <1>2 DEF GcValue
<1>12. Intact(new) /\ new.length = file.length /\ SealedUpTo(new, new.length, end)
  <2>1. t[n] \in DOMAIN file.members /\ file.members[t[n]] = idx /\ file.length = t[n] + idx.zc
    BY <1>6, <1>7, <1>8
  <2>2. Intact(file) /\ n <= MaxBlocks /\ Len(blocks) = n /\ InOrder(blocks, end)
        /\ Len(entries) = n /\ GroupIs(file, start, blocks, entries, n, t)
    BY <1>3, <1>4, <1>7, <1>8
  <2> QED
    BY <1>5, <1>10, <1>11, <2>1, <2>2, GroupSealed
<1>13. GroupInv'
  BY <1>1 DEF GroupInv
<1>14. Secured' = end /\ GroupEnd' = new.length
  BY <1>1, <1>2, <1>8, <1>12 DEF Secured, GroupEnd
<1>15. SealedInv'
  BY <1>11, <1>12, <1>14 DEF SealedInv, Unsealed
<1>16. Counters'
  <2>1. Written' = Written
    BY <1>1, <1>2, <1>3, EmptySeq DEF Written
  <2> QED
    BY <1>1, <2>1 DEF IndexInv, Counters, Running, totals
<1>17. blocks[1].from < end
  BY <1>3, <1>4, InOrderBegins
<1> QED
  BY <1>1, <1>2, <1>9, <1>13, <1>14, <1>15, <1>16, <1>17 DEF IndexInv

(* The next group starts at the end of what is sealed.                     *)
LEMMA IndexReset ==
  ASSUME CallsInv, FileInv, IndexInv, ResetGroup
  PROVE  IndexInv' /\ Secured' = Secured
<1>1. /\ outcome = "open" /\ step = "reset" /\ step' = "idle"
      /\ pending_blocks' = <<>> /\ group_start_offset' = inner /\ block_entries' = <<>>
      /\ UNCHANGED <<file, inner, buffer_len, totals, accepted, session, outcome>>
  BY DEF ResetGroup, At
<1>2. Secured' = Secured /\ GroupEnd' = GroupEnd
  BY <1>1 DEF Secured, GroupEnd, BeginOf
<1>3. GroupInv'
  <2>1. GroupTo(file, inner, pending_blocks', <<>>, 0, inner)
    BY CallsTypes, GroupEmpty
  <2>2. Len(block_entries') = 0
    BY <1>1, EmptySeq
  <2>3. GroupUpTo(inner)'
    BY <1>1, <2>1, <2>2 DEF GroupUpTo
  <2> QED
    BY <1>1, <2>3 DEF GroupInv, GroupOnFile, GroupUpTo
<1>4. Counters'
  <2>1. Written' = Written
    <3>1. Len(block_entries) = Len(pending_blocks) /\ pending_blocks # <<>>
      BY <1>1 DEF CallsInv, Batches, Calls
    <3>2. block_entries # <<>> /\ Len(pending_blocks) > 0
      BY <3>1, CallsTypes, EmptySeq, LenProperties
    <3>3. pending_blocks[Len(pending_blocks)].to = accepted - buffer_len
      BY <3>2 DEF CallsInv, Buffered, InOrder
    <3> QED
      BY <1>1, <1>2, <3>1, <3>2, <3>3 DEF Written, Secured
  <2> QED
    BY <1>1, <2>1 DEF IndexInv, Counters, Running, totals
<1>5. SealedInv'
  BY <1>1, <1>2 DEF IndexInv, SealedInv, Unsealed
<1> QED
  BY <1>2, <1>3, <1>4, <1>5 DEF IndexInv

(* A write that is not carried out leaves the sealed groups as they were,  *)
(* and what is behind them unsealed.                                       *)
LEMMA InterruptedIsUnsealed ==
  ASSUME CallsInv, FileInv, IndexInv, outcome = "open", NEW new \in Interrupted
  PROVE  /\ FileType(new) /\ Unsealed(new, GroupEnd)
         /\ \A offset : SameBelow(file, new, offset)
<1>1. GroupEnd \in Nat
  BY CallsTypes DEF GroupEnd
<1>2. FileType(file) /\ Within(file) /\ inner = file.length
  BY DEF FileInv, Running, Intact
<1>3. Unsealed(file, GroupEnd)
  BY DEF IndexInv, SealedInv
<1>4. CASE new = file
  BY <1>2, <1>3, <1>4 DEF SameBelow, FileType
<1>5. ASSUME NEW m \in Members, NEW size \in Nat, new = WriteMember(file, inner, m, size),
             \/ step = "write" /\ m = Head(compressed)
             \/ step = "index" /\ m = Idx
      PROVE  /\ FileType(new) /\ Unsealed(new, GroupEnd)
             /\ \A offset : SameBelow(file, new, offset)
  <2>1. new = WriteMember(file, file.length, m, size)
    BY <1>2, <1>5
  <2>2. FileType(new) /\ \A offset : SameBelow(file, new, offset)
    BY <1>2, <2>1, WrittenBehind, WrittenIsSame
  <2>3. GroupEnd = file.length => m.kind = "beg" /\ m.gc = 0
    <3>1. SUFFICES ASSUME GroupEnd = file.length PROVE m.kind = "beg" /\ m.gc = 0
      OBVIOUS
    <3>2. block_entries = <<>>
      <4>1. group_start_offset = file.length /\ step # "reset"
        BY <1>5, <3>1 DEF GroupEnd
      <4> QED
        BY <4>1, StartAtEnd
    <3>3. step = "write"
      <4>1. step # "index"
        <5>1. step = "index" => /\ Len(block_entries) = Len(pending_blocks)
                                /\ pending_blocks # <<>>
          BY DEF CallsInv, Batches, Calls
        <5> QED
          BY <3>2, <5>1, CallsTypes, EmptySeq
      <4> QED
        BY <1>5, <4>1
    <3>4. m = Head(compressed) /\ IsBatch(compressed, pending_blocks, 0)
      BY <1>5, <3>2, <3>3, EmptySeq DEF CallsInv, Batches
    <3> QED
      BY <3>4, FirstIsBeg
  <2> QED
    BY <1>2, <1>3, <2>1, <2>2, <2>3, UnsealedBehind
<1> QED
  BY <1>4, <1>5, InterruptedIs

(* So it is when a writer stops.                                           *)
LEMMA IndexEnd ==
  ASSUME CallsInv, FileInv, IndexInv, Fail \/ Crash \/ Drop
  PROVE  IndexInv' /\ Secured' = Secured
<1>1. /\ outcome = "open" /\ ~Running'
      /\ UNCHANGED <<inner, group_start_offset, pending_blocks, buffer_len, step, accepted>>
      /\ file' = file \/ file' \in Interrupted
  BY DEF Fail, Crash, Drop, Stop, Idle, Running, buffers, control
<1>2. Secured' = Secured /\ GroupEnd' = GroupEnd /\ GroupEnd \in Nat
  BY <1>1, CallsTypes DEF Secured, GroupEnd
<1>3. FileType(file) /\ SealedUpTo(file, GroupEnd, Secured) /\ Unsealed(file, GroupEnd)
  BY CallsTypes DEF IndexInv, SealedInv
<1>4. PICK new : new = file' /\ (new = file \/ new \in Interrupted)
  BY <1>1
<1>5. SealedUpTo(new, GroupEnd, Secured) /\ Unsealed(new, GroupEnd)
  <2>1. CASE new = file
    BY <1>3, <2>1
  <2>2. CASE new \in Interrupted
    <3>1. FileType(new) /\ Unsealed(new, GroupEnd) /\ SameBelow(file, new, GroupEnd)
      BY <1>1, <2>2, InterruptedIsUnsealed
    <3> QED
      BY <1>2, <1>3, <3>1, SealedBelow
  <2> QED
    BY <1>4, <2>1, <2>2
<1>6. SealedInv'
  BY <1>2, <1>4, <1>5 DEF SealedInv
<1>7. GroupInv' /\ Counters'
  BY <1>1 DEF GroupInv, Counters
<1> QED
  BY <1>2, <1>6, <1>7 DEF IndexInv

(* Another writer goes on where the last one ended.                        *)
LEMMA IndexNewWriter ==
  ASSUME CallsInv, FileInv, IndexInv, NewWriter
  PROVE  IndexInv' /\ Secured' = Secured
<1>1. /\ outcome = "finished" /\ outcome' = "open" /\ step = "idle" /\ step' = "idle"
      /\ pending_blocks = <<>> /\ pending_blocks' = <<>> /\ buffer_len = 0 /\ buffer_len' = 0
      /\ block_entries = <<>> /\ block_entries' = <<>>
      /\ session'.from = accepted /\ session'.at = inner /\ group_start_offset' = inner
      /\ total_uncompressed' = 0 /\ total_compressed' = 0
      /\ UNCHANGED <<file, inner, accepted>>
  BY DEF NewWriter, StartOffset, CallsInv, Calls, Batches, flush, control
<1>2. accepted \in Nat /\ inner \in Nat
  BY CallsTypes
<1>3. group_start_offset = inner
  BY <1>1 DEF FileInv, Running, GroupHeaded
<1>4. /\ Secured' = Secured /\ GroupEnd' = GroupEnd
      /\ Written' = accepted
  BY <1>1, <1>2, <1>3 DEF Secured, GroupEnd, Written, BeginOf
<1>5. GroupInv'
  <2>1. GroupTo(file, inner, pending_blocks', <<>>, 0, inner)
    BY <1>2, GroupEmpty
  <2>2. Len(block_entries') = 0
    BY <1>1, EmptySeq
  <2>3. GroupUpTo(inner)'
    BY <1>1, <2>1, <2>2 DEF GroupUpTo
  <2> QED
    BY <1>1, <2>3 DEF GroupInv, GroupOnFile, GroupUpTo
<1>6. Counters'
  BY <1>1, <1>2, <1>4 DEF Counters
<1>7. SealedInv'
  BY <1>1, <1>4 DEF IndexInv, SealedInv, Unsealed
<1> QED
  BY <1>4, <1>5, <1>6, <1>7 DEF IndexInv

(* IndexInv is inductive, with CallsInv and FileInv, where the header has  *)
(* room.                                                                   *)
LEMMA IndexNext ==
  ASSUME GroupsFit, CallsInv, FileInv, IndexInv, [Next]_vars
  PROVE  IndexInv'
<1>1. CASE UNCHANGED vars
  <2>1. UNCHANGED <<GroupEnd, Secured, Written, Idx>>
    BY <1>1 DEF GroupEnd, Secured, Written, Idx, vars, buffers, flush, control
  <2>2. GroupInv'
    BY <1>1, <2>1 DEF IndexInv, GroupInv, GroupOnFile, GroupUpTo, Running, vars, buffers, flush, control
  <2>3. Counters' /\ SealedInv'
    BY <1>1, <2>1 DEF IndexInv, Counters, SealedInv, Running, vars, totals
  <2> QED
    BY <2>2, <2>3 DEF IndexInv
<1>2. CASE Next
  BY <1>2, IndexElsewhere, IndexWriteBlock, IndexWriteIdx, IndexBackpatch, IndexReset, IndexEnd,
     IndexNewWriter DEF Next, Progress
<1> QED
  BY <1>1, <1>2

(* build() succeeds, and ends where the group in progress starts.          *)
LEMMA IndexIs ==
  ASSUME CallsInv, IndexInv
  PROVE  /\ Finds(file, Index) /\ Last(Index.compressed_offsets) = GroupEnd
         /\ Total(Index) = Secured
<1>1. FileType(file) /\ GroupEnd \in Nat
  BY CallsTypes DEF GroupEnd
<1>2. SealedUpTo(file, GroupEnd, Secured) /\ Unsealed(file, GroupEnd)
  BY DEF IndexInv, SealedInv
<1> QED
  BY <1>1, <1>2, SealedBuild DEF Index

(* build() succeeds when it finds blocks.                                  *)
LEMMA FoundNotFailed ==
  ASSUME NEW f, NEW index, Finds(f, index)
  PROVE  index # Failed
<1>1. index.compressed_offsets # <<>>
  BY DEF Finds, Indexes, Offsets
<1>2. Failed.compressed_offsets = <<>>
  BY DEF Failed, NoGroups
<1> QED
  BY <1>1, <1>2

(* They hold what IndexFindsBlocks and FinishedReadable ask for.           *)
LEMMA IndexFound ==
  ASSUME CallsInv, IndexInv
  PROVE  IndexFindsBlocks
<1>1. Finds(file, Index)
  BY IndexIs
<1>2. Index # Failed
  BY <1>1, FoundNotFailed
<1> QED
  BY <1>1, <1>2 DEF IndexFindsBlocks, Finds, BlockFound

(* After finish() the group in progress is empty, at the end of the file.  *)
LEMMA FinishedIs ==
  ASSUME CallsInv, FileInv, IndexInv
  PROVE  FinishedReadable
<1>1. SUFFICES ASSUME outcome = "finished" PROVE FinishedReadable
  BY DEF FinishedReadable
<1>2. /\ step = "idle" /\ pending_blocks = <<>> /\ buffer_len = 0 /\ block_entries = <<>>
      /\ accepted \in Nat
  BY <1>1, CallsTypes DEF CallsInv, Calls, Batches
<1>3. inner = file.length /\ inner = group_start_offset
  BY <1>1, <1>2 DEF FileInv, Running, GroupHeaded
<1>4. Secured = accepted /\ Written = accepted /\ GroupEnd = file.length
  BY <1>2, <1>3 DEF Secured, Written, BeginOf, GroupEnd
<1>5. total_compressed = file.length - session.at /\ total_uncompressed = accepted - session.from
  BY <1>1, <1>3, <1>4 DEF IndexInv, Counters, Running
<1>6. Finds(file, Index) /\ Last(Index.compressed_offsets) = file.length /\ Total(Index) = accepted
  BY <1>4, IndexIs
<1>7. Index # Failed
  BY <1>6, FoundNotFailed
<1> QED
  BY <1>5, <1>6, <1>7 DEF FinishedReadable

(* The inductive invariant of the writer.                                  *)
WriterInv == CallsInv /\ FileInv /\ IndexInv

(* WriterInv is an invariant where the IDX header has room.                *)
LEMMA WriterInvariant ==
  ASSUME GroupsFit
  PROVE  Spec => []WriterInv
<1>1. Init => WriterInv
  BY CallsInit, FileInit, IndexInit DEF WriterInv
<1>2. WriterInv /\ [Next]_vars => WriterInv'
  BY CallsNext, FileNext, IndexNext DEF WriterInv
<1> QED
  BY <1>1, <1>2, PTL DEF Spec

(* Whatever is written, and wherever a call is, fails or crashes, build()  *)
(* succeeds on the file as it is, and the blocks it finds hold the stream  *)
(* from its beginning without a gap - provided that the IDX header has     *)
(* room for the entries of the largest group.                              *)
THEOREM WriterIndexFindsBlocks ==
  ASSUME GroupsFit
  PROVE  Spec => []IndexFindsBlocks
<1>1. WriterInv => IndexFindsBlocks
  BY IndexFound DEF WriterInv
<1> QED
  BY <1>1, WriterInvariant, PTL

(* Once finish() has returned, the index accounts for the whole input and  *)
(* the whole file.                                                         *)
THEOREM WriterFinishedReadable ==
  ASSUME GroupsFit
  PROVE  Spec => []FinishedReadable
<1>1. WriterInv => FinishedReadable
  BY FinishedIs DEF WriterInv
<1> QED
  BY <1>1, WriterInvariant, PTL

-----------------------------------------------------------------------------
(* The writer implements the durable stream: what the index finds grows in *)
(* the moment the GC value is patched, and only then.                      *)

LEMMA TakenIs ==
  ASSUME CallsInv, Take
  PROVE  accepted' \in Nat /\ (accepted' = accepted \/ accepted' > accepted)
<1>1. PICK space \in Nat : space = Space
  BY CallsTypes, WriterConfig DEF Space
<1>2. PICK taken \in Nat : taken = Taken
  BY <1>1, CallsTypes DEF Taken
<1>3. accepted' = accepted + taken /\ accepted \in Nat
  BY <1>2, CallsTypes DEF Take
<1> QED
  BY <1>3

(* What the index accounts for is what is secured, in the next state too.  *)
LEMMA TotalIsNext == (CallsInv /\ IndexInv)' => (Total(Index) = Secured)'
<1>1. CallsInv /\ IndexInv => Total(Index) = Secured
  BY IndexIs
<1> QED
  BY <1>1, PTL

(* The initial state is one of the durable stream.                         *)
LEMMA DurableInit ==
  ASSUME Init
  PROVE  Durable!Init
<1>1. Total(Index) = Secured
  BY CallsInit, IndexInit, IndexIs
<1>2. Secured = 0
  BY DEF Init, Secured, BeginOf
<1> QED
  BY <1>1, <1>2 DEF Init, Durable!Init

(* Every step of the writer is one of the durable stream, or none.         *)
LEMMA DurableNext ==
  ASSUME GroupsFit, WriterInv, WriterInv', [Next]_vars
  PROVE  [Durable!Next]_Durable!vars
<1>1. CallsInv /\ FileInv /\ IndexInv
  BY DEF WriterInv
<1>2. Total(Index) = Secured /\ Total(Index)' = Secured'
  <2>1. Total(Index) = Secured
    BY <1>1, IndexIs
  <2>2. (Total(Index) = Secured)'
    BY TotalIsNext DEF WriterInv
  <2> QED
    BY <2>1, <2>2
<1>3. accepted \in Nat
  BY <1>1, CallsTypes
<1>4. CASE UNCHANGED vars
  BY <1>4 DEF vars, Index, Durable!vars
<1>5. CASE Take
  <2>1. Secured' = Secured /\ outcome = "open" /\ outcome' = "open"
    BY <1>1, <1>5, IndexElsewhere DEF Take, At
  <2>2. accepted' = accepted \/ accepted' > accepted
    BY <1>1, <1>3, <1>5, TakenIs
  <2> QED
    BY <1>2, <2>1, <2>2 DEF Durable!Next, Durable!Accept, Durable!vars
<1>6. CASE Backpatch
  <2>1. /\ Secured' = accepted /\ Secured < accepted /\ accepted' = accepted
        /\ outcome = "open" /\ outcome' = "open"
    BY <1>1, <1>6, IndexBackpatch DEF Backpatch, PatchGc, At
  <2> QED
    BY <1>2, <1>3, <2>1 DEF Durable!Next, Durable!Secure, Durable!vars
<1>7. CASE FinishReturns
  <2>1. /\ outcome = "open" /\ outcome' = "finished" /\ accepted' = accepted
        /\ step = "idle" /\ call \in {"finish", "finish_buffer"}
    BY <1>7 DEF FinishReturns, At
  <2>2. Secured = accepted
    BY <1>1, <1>3, <2>1 DEF Secured, BeginOf, CallsInv, Calls
  <2>3. Secured' = Secured
    BY <1>1, <1>7, IndexElsewhere
  <2> QED
    BY <1>2, <2>1, <2>2, <2>3 DEF Durable!Next, Durable!Finish, Durable!vars
<1>8. CASE NewWriter
  <2>1. /\ outcome = "finished" /\ outcome' = "open" /\ accepted' = accepted
        /\ Secured' = Secured
    BY <1>1, <1>8, IndexNewWriter DEF NewWriter
  <2> QED
    BY <1>2, <2>1 DEF Durable!Next, Durable!Continue, Durable!vars
<1>9. CASE \/ \E n \in WriteSizes : Write(n)
           \/ Finish \/ WriteReturns \/ Compress \/ WriteBlock \/ WriteIdx \/ ResetGroup
           \/ Fail \/ Crash \/ Drop
  <2>1. Secured' = Secured
    BY <1>1, <1>9, IndexElsewhere, IndexWriteBlock, IndexWriteIdx, IndexReset, IndexEnd
  <2>2. accepted' = accepted /\ outcome = "open" /\ outcome' # "finished"
    BY <1>9 DEF Write, Finish, WriteReturns, Compress, WriteBlock, WriteIdx, ResetGroup,
                Fail, Crash, Drop, Stop, Idle, At
  <2> QED
    BY <1>2, <2>1, <2>2 DEF Durable!vars
<1> QED
  BY <1>4, <1>5, <1>6, <1>7, <1>8, <1>9 DEF Next, Progress

(* The file reads, at every moment, as a prefix of the input that only     *)
(* grows, and as all of it when finish() has returned.                     *)
THEOREM WriterImplementsDurableStream ==
  ASSUME GroupsFit
  PROVE  Spec => ImplementsDurableStream
<1>1. Init => Durable!Init
  BY DurableInit
<1>2. WriterInv /\ WriterInv' /\ [Next]_vars => [Durable!Next]_Durable!vars
  BY DurableNext
<1> QED
  BY <1>1, <1>2, WriterInvariant, PTL DEF Spec, ImplementsDurableStream, Durable!Spec
=============================================================================
