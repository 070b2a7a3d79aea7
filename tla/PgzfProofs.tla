----------------------------- MODULE PgzfProofs -----------------------------
(***************************************************************************)
(* A reader on a file that a writer is at work on, or has finished, or     *)
(* left behind: it never fails and gets a prefix of the input, at least    *)
(* what was on the file for good when it was opened.                       *)
(***************************************************************************)
EXTENDS Pgzf, PgzfWriterProofs, FiniteSetTheorems

-----------------------------------------------------------------------------
(* The members of a file up to tip, where the writer's cursor is, and the  *)
(* position in the stream at the start of each of them.                    *)

Boundaries(f, tip) == {at \in DOMAIN f.members : at < tip} \cup {tip}

(* read_one_raw_block reads the member whole, and as what it is.           *)
ReadAs(m) ==
  GZIP_FIXED_HEADER_SIZE + 2 + Xlen(m) <= m.zc /\ Zc(m) = m.zc /\ RawType(m) = m.kind

Carries(f, at, pos) ==
  LET m == f.members[at]
  IN IF m.kind = "idx" THEN pos[EndOf(f, at)] = pos[at]
     ELSE m.from = pos[at] /\ m.to = pos[EndOf(f, at)] /\ m.from < m.to

(* Members one behind the other, and at most a torn one behind them.       *)
Stream(f, tip, pos) ==
  /\ pos \in [Nat -> Nat] /\ pos[0] = 0
  /\ tip \in Nat /\ tip <= f.length
  /\ 0 \in Boundaries(f, tip)
  /\ \A at \in DOMAIN f.members :
       IF at < tip
         THEN /\ EndOf(f, at) \in Boundaries(f, tip) /\ EndOf(f, at) <= tip /\ at < EndOf(f, at)
              /\ ReadAs(f.members[at]) /\ Carries(f, at, pos)
         ELSE at = tip /\ f.length < EndOf(f, at)
  /\ \A a, b \in Boundaries(f, tip) : a < b => EndOf(f, a) <= b /\ pos[a] <= pos[b]

(* A file without members.                                                 *)
LEMMA StreamEmpty ==
  \E pos : Stream(EmptyFile, 0, pos)
<1> DEFINE pos == [k \in Nat |-> 0]
<1>1. pos \in [Nat -> Nat] /\ \A k \in Nat : pos[k] = 0
  OBVIOUS
<1>2. DOMAIN EmptyFile.members = {} /\ EmptyFile.length = 0
  BY EmptyFileIntact
<1>3. Boundaries(EmptyFile, 0) = {0}
  BY <1>2 DEF Boundaries
<1> HIDE DEF pos
<1>4. Stream(EmptyFile, 0, pos)
  BY <1>1, <1>2, <1>3 DEF Stream
<1> QED
  BY <1>4

(* There are x bytes more of the stream, up to tip.                        *)
Longer(f, pos, new, tip, x) ==
  \E q : /\ Stream(new, tip, q) /\ q[tip] = pos[f.length] + x
        /\ \A b \in Boundaries(f, f.length) : b \in Boundaries(new, tip) /\ q[b] = pos[b]

Brings(m, start, x) ==
  IF m.kind = "idx" THEN x = 0 ELSE x # 0 /\ m.from = start /\ m.to = m.from + x

(* A member is written whole at the end of the file.                       *)
LEMMA StreamAppend ==
  ASSUME NEW f, FileType(f), Within(f), NEW pos, Stream(f, f.length, pos),
         NEW m \in Members, m.zc # 0, ReadAs(m), NEW x \in Nat,
         Brings(m, pos[f.length], x),
         NEW new, new = WriteMember(f, f.length, m, m.zc),
         NEW tip, tip = f.length + m.zc
  PROVE  Longer(f, pos, new, tip, x)
<1> DEFINE old == f.length
           q == [pos EXCEPT ![tip] = pos[old] + x]
<1>1. old \in Nat /\ m.zc \in Nat /\ tip \in Nat /\ old < tip
  BY DEF FileType, Members
<1>2. /\ FileType(new) /\ new.length = tip
      /\ old \notin DOMAIN f.members
      /\ DOMAIN new.members = DOMAIN f.members \cup {old}
      /\ new.members[old] = m
      /\ \A at \in DOMAIN f.members : new.members[at] = f.members[at]
  BY <1>1, WrittenBehind
<1>3. \A at \in DOMAIN f.members : at \in Nat /\ at < old
  BY <1>1, <1>2 DEF Stream, FileType
<1>4. Boundaries(f, old) = DOMAIN f.members \cup {old}
  BY <1>3 DEF Boundaries
<1>5. Boundaries(new, tip) = Boundaries(f, old) \cup {tip}
  BY <1>1, <1>2, <1>3, <1>4 DEF Boundaries
<1>6. /\ q \in [Nat -> Nat] /\ q[tip] = pos[old] + x /\ pos[old] \in Nat
      /\ \A b \in Boundaries(f, old) : b \in Nat /\ b < tip /\ q[b] = pos[b]
  <2>1. pos \in [Nat -> Nat]
    BY DEF Stream
  <2>2. \A b \in Boundaries(f, old) : b \in Nat /\ b < tip
    BY <1>1, <1>3, <1>4
  <2> QED
    BY <1>1, <2>1, <2>2
<1> HIDE DEF q
<1>7. ASSUME NEW at \in DOMAIN f.members
      PROVE  /\ EndOf(new, at) = EndOf(f, at) /\ EndOf(f, at) \in Boundaries(f, old)
             /\ EndOf(new, at) \in Boundaries(new, tip) /\ EndOf(new, at) <= tip
             /\ at < EndOf(new, at) /\ ReadAs(new.members[at]) /\ Carries(new, at, q)
  <2>1. at < old /\ at \in Boundaries(f, old)
    BY <1>3, <1>4
  <2>2. /\ EndOf(f, at) \in Boundaries(f, old) /\ EndOf(f, at) <= old /\ at < EndOf(f, at)
        /\ ReadAs(f.members[at]) /\ Carries(f, at, pos)
    BY <2>1 DEF Stream
  <2>3. EndOf(new, at) = EndOf(f, at) /\ new.members[at] = f.members[at]
    BY <1>2 DEF EndOf
  <2>4. q[at] = pos[at] /\ q[EndOf(f, at)] = pos[EndOf(f, at)]
    BY <1>6, <2>1, <2>2
  <2>5. Carries(new, at, q)
    BY <2>2, <2>3, <2>4 DEF Carries
  <2>6. EndOf(f, at) \in Nat
    BY <1>6, <2>2
  <2> QED
    BY <1>1, <1>5, <2>2, <2>3, <2>5, <2>6
<1>8. /\ EndOf(new, old) = tip /\ ReadAs(new.members[old])
      /\ Carries(new, old, q)
  <2>1. EndOf(new, old) = tip
    BY <1>2 DEF EndOf
  <2>2. q[old] = pos[old]
    BY <1>4, <1>6
  <2>3. CASE m.kind = "idx"
    BY <1>2, <1>6, <2>1, <2>2, <2>3 DEF Carries, Brings
  <2>4. CASE m.kind # "idx"
    BY <1>2, <1>6, <2>1, <2>2, <2>4 DEF Carries, Brings
  <2> QED
    BY <1>2, <2>1, <2>3, <2>4
<1>9. ASSUME NEW a \in Boundaries(new, tip), NEW b \in Boundaries(new, tip), a < b
      PROVE  EndOf(new, a) <= b /\ q[a] <= q[b]
  <2>1. a \in Boundaries(f, old)
    BY <1>1, <1>5, <1>6, <1>9
  <2>2. CASE b \in Boundaries(f, old)
    <3>1. a \in DOMAIN f.members
      <4>1. b \in Nat /\ b <= old
        BY <1>1, <1>3, <1>4, <2>2
      <4>2. a # old
        BY <1>1, <1>9, <4>1
      <4> QED
        BY <1>4, <2>1, <4>2
    <3>2. EndOf(f, a) <= b /\ pos[a] <= pos[b]
      BY <1>9, <2>1, <2>2 DEF Stream
    <3> QED
      BY <1>6, <1>7, <2>1, <2>2, <3>1, <3>2
  <2>3. CASE b = tip
    <3>1. EndOf(new, a) <= tip
      BY <1>1, <1>4, <1>7, <1>8, <2>1
    <3>2. pos[a] <= pos[old] /\ pos[a] \in Nat
      <4>1. pos \in [Nat -> Nat] /\ a \in Nat /\ old \in Boundaries(f, old)
        BY <1>4, <1>6, <2>1 DEF Stream
      <4>2. CASE a = old
        BY <1>1, <4>1, <4>2
      <4>3. CASE a # old
        <5>1. a < old
          BY <1>3, <1>4, <2>1, <4>3
        <5> QED
          BY <2>1, <4>1, <5>1 DEF Stream
      <4> QED
        BY <4>2, <4>3
    <3> QED
      BY <1>6, <2>1, <2>3, <3>1, <3>2
  <2> QED
    BY <1>5, <2>2, <2>3
<1>10. q[0] = 0 /\ 0 \in Boundaries(new, tip)
  BY <1>5, <1>6 DEF Stream
<1>11. Stream(new, tip, q)
  <2>1. ASSUME NEW at \in DOMAIN new.members
        PROVE  /\ at < tip
               /\ EndOf(new, at) \in Boundaries(new, tip) /\ EndOf(new, at) <= tip
               /\ at < EndOf(new, at) /\ ReadAs(new.members[at]) /\ Carries(new, at, q)
    <3>1. CASE at = old
      BY <1>1, <1>5, <1>8, <3>1
    <3>2. CASE at \in DOMAIN f.members
      BY <1>4, <1>6, <1>7, <3>2
    <3> QED
      BY <1>2, <3>1, <3>2
  <2> QED
    BY <1>1, <1>2, <1>6, <1>9, <1>10, <2>1 DEF Stream
<1> QED
  BY <1>5, <1>6, <1>11 DEF Longer

(* A write that is not carried out leaves a torn member, or none.          *)
LEMMA StreamTorn ==
  ASSUME NEW f, FileType(f), Within(f), NEW pos, Stream(f, f.length, pos),
         NEW m \in Members, NEW size \in Nat, size < m.zc,
         NEW new, new = WriteMember(f, f.length, m, size)
  PROVE  Stream(new, f.length, pos) /\ Boundaries(new, f.length) = Boundaries(f, f.length)
<1>1. f.length \in Nat /\ m.zc \in Nat
  BY DEF FileType, Members
<1>2. /\ new.length = f.length + size
      /\ f.length \notin DOMAIN f.members
      /\ DOMAIN new.members = DOMAIN f.members \cup {f.length}
      /\ new.members[f.length] = m
      /\ \A at \in DOMAIN f.members : new.members[at] = f.members[at]
  BY <1>1, WrittenBehind
<1>3. \A at \in DOMAIN f.members : at \in Nat /\ at < f.length
  BY <1>1, <1>2 DEF Stream, FileType
<1>4. Boundaries(new, f.length) = Boundaries(f, f.length)
  BY <1>1, <1>2, <1>3 DEF Boundaries
<1>5. ASSUME NEW at \in DOMAIN f.members
      PROVE  /\ EndOf(new, at) = EndOf(f, at) /\ new.members[at] = f.members[at]
             /\ (Carries(new, at, pos) <=> Carries(f, at, pos))
  BY <1>2 DEF EndOf, Carries
<1>6. EndOf(new, f.length) = f.length + m.zc
  BY <1>2 DEF EndOf
<1>7. ASSUME NEW at \in DOMAIN new.members
      PROVE  IF at < f.length
               THEN /\ EndOf(new, at) \in Boundaries(new, f.length) /\ EndOf(new, at) <= f.length
                    /\ at < EndOf(new, at) /\ ReadAs(new.members[at]) /\ Carries(new, at, pos)
               ELSE at = f.length /\ new.length < EndOf(new, at)
  <2>1. CASE at = f.length
    BY <1>1, <1>2, <1>6, <2>1
  <2>2. CASE at \in DOMAIN f.members
    <3>1. /\ EndOf(f, at) \in Boundaries(f, f.length) /\ EndOf(f, at) <= f.length
          /\ at < EndOf(f, at) /\ ReadAs(f.members[at]) /\ Carries(f, at, pos)
      BY <1>3, <2>2 DEF Stream
    <3> QED
      BY <1>3, <1>4, <1>5, <2>2, <3>1
  <2> QED
    BY <1>2, <2>1, <2>2
<1>8. ASSUME NEW a \in Boundaries(new, f.length), NEW b \in Boundaries(new, f.length), a < b
      PROVE  EndOf(new, a) <= b /\ pos[a] <= pos[b]
  <2>1. a \in DOMAIN f.members
    <3>1. b \in Nat /\ b <= f.length
      BY <1>1, <1>3, <1>4 DEF Boundaries
    <3>2. a # f.length
      BY <1>1, <1>8, <3>1
    <3> QED
      BY <1>4, <3>2 DEF Boundaries
  <2>2. EndOf(f, a) <= b /\ pos[a] <= pos[b]
    BY <1>4, <1>8 DEF Stream
  <2> QED
    BY <1>5, <2>1, <2>2
<1>9. f.length <= new.length
  BY <1>1, <1>2
<1> QED
  BY <1>1, <1>4, <1>7, <1>8, <1>9 DEF Stream

(* A GC value is no part of the stream.                                    *)
LEMMA StreamGc ==
  ASSUME NEW f, FileType(f), NEW beg \in DOMAIN f.members, f.members[beg].kind = "beg",
         NEW gc \in Nat, NEW new, new = WriteGc(f, beg + GC_VALUE_OFFSET, gc),
         NEW tip, NEW pos, Stream(f, tip, pos)
  PROVE  Stream(new, tip, pos) /\ Boundaries(new, tip) = Boundaries(f, tip)
<1>1. /\ new.length = f.length
      /\ DOMAIN new.members = DOMAIN f.members
      /\ new.members[beg] = [f.members[beg] EXCEPT !.gc = gc]
      /\ \A at \in DOMAIN f.members : at # beg => new.members[at] = f.members[at]
  BY GcWritten
<1>2. Boundaries(new, tip) = Boundaries(f, tip)
  BY <1>1 DEF Boundaries
<1>3. ASSUME NEW at \in DOMAIN f.members
      PROVE  /\ new.members[at].kind = f.members[at].kind
             /\ new.members[at].zc = f.members[at].zc
             /\ new.members[at].from = f.members[at].from
             /\ new.members[at].to = f.members[at].to
             /\ (f.members[at].kind = "idx" => new.members[at].entries = f.members[at].entries)
  <2>1. f.members[at] \in Members
    BY DEF FileType
  <2>2. CASE at = beg
    BY <1>1, <2>1, <2>2, PatchedMember
  <2>3. CASE at # beg
    BY <1>1, <2>3
  <2> QED
    BY <2>2, <2>3
<1>4. ASSUME NEW at \in DOMAIN f.members
      PROVE  /\ EndOf(new, at) = EndOf(f, at)
             /\ (ReadAs(new.members[at]) <=> ReadAs(f.members[at]))
             /\ (Carries(new, at, pos) <=> Carries(f, at, pos))
  <2>1. EndOf(new, at) = EndOf(f, at)
    BY <1>3 DEF EndOf
  <2>2. Carries(new, at, pos) <=> Carries(f, at, pos)
    BY <1>3, <2>1 DEF Carries
  <2>3. ReadAs(new.members[at]) <=> ReadAs(f.members[at])
    <3> DEFINE m == f.members[at]
               n == new.members[at]
    <3>1. m \in Members
      BY DEF FileType
    <3>2. n.kind = m.kind /\ n.zc = m.zc /\ (m.kind = "idx" => n.entries = m.entries)
      BY <1>3
    <3>3. m.kind \in {"beg", "dat", "idx"}
      BY <3>1 DEF Members, Kinds
    <3> HIDE DEF m, n
    <3>4. Xlen(n) = Xlen(m) /\ Subfields(n) = Subfields(m)
      BY <3>2, <3>3 DEF Xlen, Subfields
    <3>5. \A tag, min : Found(n, tag, min) <=> Found(m, tag, min)
      BY <3>4 DEF Found
    <3>6. Zc(n) = Zc(m) /\ RawType(n) = RawType(m)
      BY <3>2, <3>5 DEF Zc, RawType, TypeByTags
    <3> QED
      BY <3>2, <3>4, <3>6 DEF ReadAs, m, n
  <2> QED
    BY <2>1, <2>2, <2>3
<1>5. ASSUME NEW at \in DOMAIN new.members
      PROVE  IF at < tip
               THEN /\ EndOf(new, at) \in Boundaries(new, tip) /\ EndOf(new, at) <= tip
                    /\ at < EndOf(new, at) /\ ReadAs(new.members[at]) /\ Carries(new, at, pos)
               ELSE at = tip /\ new.length < EndOf(new, at)
  <2>1. at \in DOMAIN f.members
    BY <1>1
  <2>2. IF at < tip
          THEN /\ EndOf(f, at) \in Boundaries(f, tip) /\ EndOf(f, at) <= tip
               /\ at < EndOf(f, at) /\ ReadAs(f.members[at]) /\ Carries(f, at, pos)
          ELSE at = tip /\ f.length < EndOf(f, at)
    BY <2>1 DEF Stream
  <2> QED
    BY <1>1, <1>2, <1>4, <2>1, <2>2
<1>6. tip \in Nat /\ DOMAIN f.members \subseteq Nat
  BY DEF Stream, FileType
<1>7. ASSUME NEW a \in Boundaries(new, tip), NEW b \in Boundaries(new, tip), a < b
      PROVE  EndOf(new, a) <= b /\ pos[a] <= pos[b]
  <2>1. a \in DOMAIN f.members
    <3>1. b \in Nat /\ b <= tip /\ a \in Nat
      BY <1>1, <1>6 DEF Boundaries
    <3>2. a # tip
      BY <1>6, <1>7, <3>1
    <3> QED
      BY <1>1, <3>2 DEF Boundaries
  <2>2. EndOf(f, a) <= b /\ pos[a] <= pos[b]
    BY <1>2, <1>7 DEF Stream
  <2> QED
    BY <1>4, <2>1, <2>2
<1> QED
  BY <1>1, <1>2, <1>5, <1>7 DEF Stream

(* Two subfields.                                                          *)
LEMMA Pair ==
  ASSUME NEW a, NEW b, NEW s, s = <<a>> \o <<b>>
  PROVE  DOMAIN s = 1..2 /\ s[1] = a /\ s[2] = b
<1>1. /\ <<a>> \in Seq({a, b}) /\ <<b>> \in Seq({a, b})
      /\ Len(<<a>>) = 1 /\ Len(<<b>>) = 1 /\ <<a>>[1] = a /\ <<b>>[1] = b
  OBVIOUS
<1>2. /\ s \in Seq({a, b}) /\ Len(s) = 2
      /\ \A i \in 1..2 : s[i] = IF i <= 1 THEN <<a>>[i] ELSE <<b>>[i - 1]
  BY <1>1, ConcatProperties
<1>3. DOMAIN s = 1..2
  BY <1>2, LenProperties
<1> QED
  BY <1>1, <1>2, <1>3

(* The headers that the writer builds are read as what they are.           *)
LEMMA DataMemberReadAs ==
  ASSUME NEW m \in Members, m.kind \in {"beg", "dat"}, NEW b \in Blocks, NEW body \in Nat,
         m = DataMember(b.kind, body, b.from, b.to)
  PROVE  ReadAs(m)
<1>1. m.zc = (IF m.kind = "beg" THEN 32 ELSE 20) + body + 8
  BY DataMemberIs DEF DataMember, BEG_HEADER_SIZE, DAT_HEADER_SIZE, PGZF_TAIL_SIZE
<1>2. Xlen(m) = IF m.kind = "beg" THEN 20 ELSE 8
  BY DEF Xlen, BEG_HEADER_SIZE, DAT_HEADER_SIZE
<1>3. CASE m.kind = "beg"
  <2>1. /\ DOMAIN Subfields(m) = 1..2
        /\ Subfields(m)[1] = [tag |-> "ZC", slen |-> 4]
        /\ Subfields(m)[2] = [tag |-> "GC", slen |-> 8]
    <3>1. Subfields(m) = <<[tag |-> "ZC", slen |-> 4]>> \o <<[tag |-> "GC", slen |-> 8]>>
      BY <1>3 DEF Subfields
    <3> QED
      BY <3>1, Pair
  <2>2. Found(m, "ZC", 4) /\ Found(m, "GC", 0) /\ ~Found(m, "IX", 0)
    BY <1>2, <1>3, <2>1 DEF Found
  <2> QED
    BY <1>1, <1>2, <1>3, <2>2 DEF ReadAs, Zc, RawType, TypeByTags, GZIP_FIXED_HEADER_SIZE
<1>4. CASE m.kind = "dat"
  <2>1. Subfields(m) = <<[tag |-> "ZC", slen |-> 4]>>
    BY <1>4 DEF Subfields
  <2>2. Found(m, "ZC", 4) /\ ~Found(m, "GC", 0) /\ ~Found(m, "IX", 0)
    BY <1>2, <1>4, <2>1 DEF Found
  <2> QED
    BY <1>1, <1>2, <1>4, <2>2 DEF ReadAs, Zc, RawType, TypeByTags, GZIP_FIXED_HEADER_SIZE
<1> QED
  BY <1>3, <1>4

(* So is the IDX header, where it has room for its entries.                *)
LEMMA IdxMemberReadAs ==
  ASSUME GroupsFit, NEW entries \in Seq(IndexEntries), NEW n \in Nat, Len(entries) = n,
         n <= MaxBlocks, NEW m, m = IdxMember(EmptyBody, entries)
  PROVE  ReadAs(m)
<1>1. Xlen(m) = 12 + 8 * n /\ m.zc = 34 + 8 * n /\ m.kind = "idx" /\ m.entries = entries
  BY IdxFits, IdxMemberIs
<1>2. (EntrySize * n) % U16Space = 8 * n
  <2>1. PICK k \in Nat : k = MaxBlocks
    BY WriterConfig DEF MaxBlocks
  <2>2. 12 + 8 * k < U16Space
    BY <2>1 DEF GroupsFit, XlenBase, EntrySize
  <2>3. U16Space \in Nat /\ 8 * n < U16Space
    BY <2>1, <2>2, U16SpacePositive
  <2> QED
    BY <2>3 DEF EntrySize
<1>3. /\ DOMAIN Subfields(m) = 1..2
      /\ Subfields(m)[1] = [tag |-> "ZC", slen |-> 4]
      /\ Subfields(m)[2] = [tag |-> "IX", slen |-> 8 * n]
  <2>1. Subfields(m) = <<[tag |-> "ZC", slen |-> 4]>> \o <<[tag |-> "IX", slen |-> 8 * n]>>
    BY <1>1, <1>2 DEF Subfields
  <2> QED
    BY <2>1, Pair
<1>4. Found(m, "ZC", 4) /\ Found(m, "IX", 0)
  <2>1. /\ Subfields(m)[1].tag = "ZC" /\ Subfields(m)[1].slen = 4
        /\ Subfields(m)[2].tag = "IX" /\ Subfields(m)[2].slen = 8 * n
    BY <1>3
  <2>2. 8 <= Xlen(m) /\ 12 + 8 * n <= Xlen(m)
    BY <1>1
  <2>3. \A j \in 1..1 : 8 * (j - 1) + 4 + Subfields(m)[j].slen <= Xlen(m)
    BY <2>1, <2>2
  <2>4. \A j \in 1..2 : 8 * (j - 1) + 4 + Subfields(m)[j].slen <= Xlen(m)
    BY <2>1, <2>2
  <2> QED
    BY <1>3, <2>1, <2>3, <2>4 DEF Found
<1> QED
  BY <1>1, <1>4 DEF ReadAs, Zc, RawType, TypeByTags, GZIP_FIXED_HEADER_SIZE

-----------------------------------------------------------------------------
(* The stream on the file of the writer.                                   *)

OnStream(pos) ==
  /\ Stream(file, inner, pos) /\ pos[inner] = Written
  /\ GroupEnd \in Boundaries(file, inner) /\ pos[GroupEnd] = Secured

(* What was on the file is there, at the same position.                    *)
CarriesOn(pos, q) ==
  \A b \in Boundaries(file, inner) : b \in Boundaries(file', inner') /\ q[b] = pos[b]

(* Initially there is nothing.                                             *)
LEMMA OnStreamInit ==
  ASSUME Init
  PROVE  \E pos : OnStream(pos)
<1>1. /\ file = EmptyFile /\ inner = 0 /\ group_start_offset = 0 /\ pending_blocks = <<>>
      /\ block_entries = <<>> /\ buffer_len = 0 /\ accepted = 0 /\ step = "idle"
  BY DEF Init
<1>2. GroupEnd = 0 /\ Secured = 0 /\ Written = 0
  BY <1>1 DEF GroupEnd, Secured, Written, BeginOf
<1>3. PICK pos : Stream(EmptyFile, 0, pos)
  BY StreamEmpty
<1> QED
  BY <1>1, <1>2, <1>3 DEF OnStream, Stream

(* Where the members, the cursor and the group are as they were, so is the *)
(* stream.                                                                 *)
LEMMA OnStreamKept ==
  ASSUME NEW pos, OnStream(pos), file' = file, inner' = inner, GroupEnd' = GroupEnd,
         Secured' = Secured, Written' = Written
  PROVE  OnStream(pos)' /\ CarriesOn(pos, pos)
BY DEF OnStream, CarriesOn

(* The actions that do not touch the file.                                 *)
LEMMA OnStreamElsewhere ==
  ASSUME CallsInv, IndexInv, NEW pos, OnStream(pos),
         \/ \E n \in WriteSizes : Write(n)
         \/ Finish \/ Take \/ WriteReturns \/ FinishReturns \/ Compress
  PROVE  OnStream(pos)' /\ CarriesOn(pos, pos) /\ GroupEnd' = GroupEnd /\ file' = file
<1>1. /\ UNCHANGED <<file, inner, group_start_offset, block_entries>>
      /\ step # "reset" /\ step' # "reset"
  BY Elsewhere
<1>2. Secured' = Secured /\ GroupEnd' = GroupEnd
  BY <1>1, IndexElsewhere DEF GroupEnd
<1>3. Written' = Written
  <2>1. CASE block_entries = <<>>
    BY <1>1, <1>2, <2>1 DEF Written
  <2>2. CASE block_entries # <<>>
    <3>1. step # "idle" /\ ~Idle
      BY <2>2 DEF CallsInv, Batches, Calls, Idle
    <3>2. UNCHANGED pending_blocks
      BY <3>1 DEF Write, Finish, Take, WriteReturns, FinishReturns, Compress, At, Idle, buffers
    <3> QED
      BY <1>1, <2>2, <3>2 DEF Written
  <2> QED
    BY <2>1, <2>2
<1> QED
  BY <1>1, <1>2, <1>3, OnStreamKept

(* A block goes behind the members.                                        *)
LEMMA OnStreamWriteBlock ==
  ASSUME CallsInv, FileInv, IndexInv, NEW pos, OnStream(pos), WriteBlock
  PROVE  /\ \E q : OnStream(q)' /\ CarriesOn(pos, q)
         /\ SameBelow(file, file', GroupEnd) /\ GroupEnd' = GroupEnd
<1>1. PICK n \in Nat, done \in Nat, p \in Nat :
        n = Len(pending_blocks) /\ done = Len(block_entries) /\ p = done + 1
  BY CallsTypes, LenProperties
<1>2. /\ p \in 1..n /\ pending_blocks[p] \in Blocks
      /\ pending_blocks[p].from < pending_blocks[p].to
  BY <1>1, BlockWritten DEF CallsInv, Buffered, InOrder
<1>3. PICK b \in Blocks, from \in Nat, to \in Nat :
        b = pending_blocks[p] /\ from = b.from /\ to = b.to /\ from < to
  BY <1>2 DEF Blocks
<1>4. PICK m : m = Head(compressed)
  OBVIOUS
<1>5. /\ outcome = "open" /\ step = "write" /\ step' \in {"write", "compress", "index"}
      /\ UNCHANGED <<group_start_offset, pending_blocks, buffer_len, accepted>>
      /\ file' = WriteMember(file, inner, m, m.zc) /\ inner' = inner + m.zc
  BY <1>4 DEF WriteBlock, At, buffers
<1>6. m \in Members /\ \E body \in BodySizes : m = DataMember(b.kind, body, b.from, b.to)
  <2>1. pending_blocks \in Seq(Blocks) /\ compressed \in Seq(Members)
        /\ IsBatch(compressed, pending_blocks, done)
    BY <1>1, <1>5, CallsTypes DEF CallsInv, Batches
  <2> QED
    BY <1>1, <1>3, <1>4, <2>1, BatchWritten
<1>7. PICK body \in Nat : m = DataMember(b.kind, body, b.from, b.to)
  BY <1>6, WriterConfig
<1>8. /\ m.kind \in {"beg", "dat"} /\ m.kind # "idx" /\ m.zc \in Nat /\ m.zc # 0
      /\ m.from = from /\ m.to = to
  BY <1>3, <1>7, DataMemberIs
<1>9. ReadAs(m)
  BY <1>6, <1>7, <1>8, DataMemberReadAs
<1>10. Intact(file) /\ FileType(file) /\ Within(file) /\ inner = file.length
  BY <1>5 DEF FileInv, Running, Intact
<1>11. Stream(file, file.length, pos) /\ pos[file.length] = from
  <2>1. Written = from
    BY <1>1, <1>3, BlockContinues
  <2> QED
    BY <1>10, <2>1 DEF OnStream
<1>12. PICK x \in Nat : x = to - from /\ x # 0 /\ to = from + x
  <2>1. to - from \in Nat /\ to - from # 0 /\ to = from + (to - from)
    BY <1>3
  <2> QED
    BY <2>1
<1>13. PICK new : new = file' /\ new = WriteMember(file, file.length, m, m.zc)
  BY <1>5, <1>10
<1>21. PICK tip : tip = file.length + m.zc
  OBVIOUS
<1>14. PICK q : /\ Stream(new, tip, q) /\ q[tip] = pos[file.length] + x
               /\ \A a \in Boundaries(file, file.length) :
                    a \in Boundaries(new, tip) /\ q[a] = pos[a]
  <2>1. Brings(m, pos[file.length], x)
    BY <1>8, <1>11, <1>12 DEF Brings
  <2>2. /\ FileType(file) /\ Within(file) /\ Stream(file, file.length, pos)
        /\ m \in Members /\ m.zc # 0 /\ ReadAs(m)
        /\ new = WriteMember(file, file.length, m, m.zc) /\ tip = file.length + m.zc
    BY <1>6, <1>8, <1>9, <1>10, <1>11, <1>13, <1>21
  <2>3. Longer(file, pos, new, tip, x)
    BY <2>1, <2>2, StreamAppend
  <2> QED
    BY <2>3 DEF Longer
<1>15. Written' = to
  BY <1>1, <1>3, BlockContinues
<1>16. GroupEnd' = GroupEnd /\ Secured' = Secured
  BY <1>5, IndexWriteBlock DEF GroupEnd
<1>17. GroupEnd \in Boundaries(file, file.length) /\ pos[GroupEnd] = Secured
  BY <1>10 DEF OnStream
<1>18. OnStream(q)'
  BY <1>5, <1>10, <1>11, <1>12, <1>13, <1>14, <1>15, <1>16, <1>17, <1>21 DEF OnStream
<1>19. CarriesOn(pos, q)
  BY <1>5, <1>10, <1>13, <1>14, <1>21 DEF CarriesOn
<1>20. SameBelow(file, new, GroupEnd)
  BY <1>6, <1>8, <1>10, <1>13, WrittenIsSame
<1> QED
  BY <1>13, <1>16, <1>18, <1>19, <1>20

(* The IDX member holds nothing of the stream.                             *)
LEMMA OnStreamWriteIdx ==
  ASSUME GroupsFit, CallsInv, FileInv, IndexInv, NEW pos, OnStream(pos), WriteIdx
  PROVE  /\ \E q : OnStream(q)' /\ CarriesOn(pos, q)
         /\ SameBelow(file, file', GroupEnd) /\ GroupEnd' = GroupEnd
<1>1. /\ outcome = "open" /\ step = "index" /\ step' = "patch"
      /\ UNCHANGED <<group_start_offset, pending_blocks, buffer_len, block_entries, accepted>>
      /\ file' = WriteMember(file, inner, Idx, Idx.zc) /\ inner' = inner + Idx.zc
  BY CallsWriteIdx DEF WriteIdx, At, buffers, flush
<1>2. PICK m : m = Idx
  OBVIOUS
<1>3. m \in Members /\ m.zc \in Nat /\ m.zc # 0 /\ m.kind = "idx"
  BY <1>2, CallsTypes, IdxMemberIs DEF Idx
<1>4. ReadAs(m)
  <2>1. Len(block_entries) = Len(pending_blocks) /\ Len(pending_blocks) <= MaxBlocks
    BY <1>1 DEF CallsInv, Batches, Calls
  <2>2. PICK n \in Nat : n = Len(block_entries)
    BY CallsTypes, LenProperties
  <2>3. m = IdxMember(EmptyBody, block_entries) /\ block_entries \in Seq(IndexEntries)
    BY <1>2, CallsTypes DEF Idx
  <2>4. Len(block_entries) = n /\ n <= MaxBlocks
    BY <2>1, <2>2
  <2> QED
    BY <2>3, <2>4, IdxMemberReadAs
<1>5. Intact(file) /\ FileType(file) /\ Within(file) /\ inner = file.length
  BY <1>1 DEF FileInv, Running, Intact
<1>6. Stream(file, file.length, pos) /\ pos[file.length] = Written
  BY <1>5 DEF OnStream
<1>7. PICK new : new = file' /\ new = WriteMember(file, file.length, m, m.zc)
  BY <1>1, <1>2, <1>5
<1>8. PICK tip : tip = file.length + m.zc
  OBVIOUS
<1>9. PICK q : /\ Stream(new, tip, q) /\ q[tip] = pos[file.length] + 0
              /\ \A a \in Boundaries(file, file.length) :
                   a \in Boundaries(new, tip) /\ q[a] = pos[a]
  <2>1. Brings(m, pos[file.length], 0)
    BY <1>3 DEF Brings
  <2>2. /\ FileType(file) /\ Within(file) /\ Stream(file, file.length, pos)
        /\ m \in Members /\ m.zc # 0 /\ ReadAs(m)
        /\ new = WriteMember(file, file.length, m, m.zc) /\ tip = file.length + m.zc
    BY <1>3, <1>4, <1>5, <1>6, <1>7, <1>8
  <2>3. Longer(file, pos, new, tip, 0)
    BY <2>1, <2>2, StreamAppend
  <2> QED
    BY <2>3 DEF Longer
<1>10. GroupEnd' = GroupEnd /\ Secured' = Secured /\ Written' = Written
  BY <1>1 DEF GroupEnd, Secured, Written
<1>11. GroupEnd \in Boundaries(file, file.length) /\ pos[GroupEnd] = Secured
  BY <1>5 DEF OnStream
<1>12. q[tip] = Written
  <2>1. pos[file.length] \in Nat
    BY <1>5, <1>6 DEF Stream, FileType
  <2> QED
    BY <1>6, <1>9, <2>1
<1>13. OnStream(q)'
  BY <1>1, <1>2, <1>5, <1>7, <1>8, <1>9, <1>10, <1>11, <1>12 DEF OnStream
<1>14. CarriesOn(pos, q)
  BY <1>1, <1>2, <1>5, <1>7, <1>8, <1>9 DEF CarriesOn
<1>15. SameBelow(file, new, GroupEnd)
  BY <1>3, <1>5, <1>7, WrittenIsSame
<1> QED
  BY <1>7, <1>10, <1>13, <1>14, <1>15

(* The GC value secures the whole file.                                    *)
LEMMA OnStreamBackpatch ==
  ASSUME CallsInv, FileInv, NEW pos, OnStream(pos), Backpatch
  PROVE  /\ OnStream(pos)' /\ CarriesOn(pos, pos)
         /\ SameBelow(file, file', GroupEnd) /\ GroupEnd <= GroupEnd'
<1>1. /\ outcome = "open" /\ step = "patch" /\ step' = "reset"
      /\ UNCHANGED <<inner, pending_blocks, buffer_len, block_entries, accepted>>
      /\ file' = WriteGc(file, group_start_offset + GC_VALUE_OFFSET, GcValue)
  BY DEF Backpatch, PatchGc, At, flush
<1>2. block_entries # <<>> /\ pending_blocks # <<>> /\ Len(block_entries) = Len(pending_blocks)
  <2>1. Len(block_entries) = Len(pending_blocks) /\ pending_blocks # <<>>
    BY <1>1 DEF CallsInv, Batches, Calls
  <2> QED
    BY <2>1, CallsTypes, EmptySeq
<1>3. PICK gc \in Nat, beg \in Nat : gc = GcValue /\ beg = group_start_offset
  BY CallsTypes, SizesType, SumIsNat DEF GcValue
<1>4. /\ Intact(file) /\ FileType(file) /\ inner = file.length
      /\ beg \in DOMAIN file.members /\ file.members[beg].kind = "beg"
  BY <1>1, <1>2, <1>3 DEF FileInv, Running, GroupHeaded, Intact
<1>5. PICK new : new = file' /\ new = WriteGc(file, beg + GC_VALUE_OFFSET, gc)
  BY <1>1, <1>3
<1>6. Stream(new, inner, pos) /\ Boundaries(new, inner) = Boundaries(file, inner)
  BY <1>4, <1>5, StreamGc DEF OnStream
<1>7. GroupEnd = beg /\ GroupEnd' = inner
  BY <1>1, <1>3 DEF GroupEnd
<1>8. Written' = Secured' /\ Written' = Written
  <2>1. PICK n \in Nat : n = Len(pending_blocks) /\ n > 0
    BY <1>2, CallsTypes, EmptySeq, LenProperties
  <2>2. pending_blocks[n].to = accepted - buffer_len
    BY <2>1 DEF CallsInv, Buffered, InOrder
  <2> QED
    BY <1>1, <1>2, <2>1, <2>2 DEF Written, Secured
<1>9. SameBelow(file, new, beg)
  BY <1>4, <1>5, GcIntact
<1>10. beg <= inner /\ inner \in Boundaries(new, inner)
  BY <1>3, <1>4 DEF OnStream, Stream, Boundaries
<1>11. OnStream(pos)'
  BY <1>1, <1>5, <1>6, <1>7, <1>8, <1>10 DEF OnStream
<1>12. CarriesOn(pos, pos)
  BY <1>1, <1>5, <1>6 DEF CarriesOn
<1> QED
  BY <1>5, <1>7, <1>9, <1>10, <1>11, <1>12

(* The next group starts behind the IDX member.                            *)
LEMMA OnStreamReset ==
  ASSUME CallsInv, FileInv, IndexInv, NEW pos, OnStream(pos), ResetGroup
  PROVE  OnStream(pos)' /\ CarriesOn(pos, pos) /\ GroupEnd' = GroupEnd /\ file' = file
<1>1. /\ step = "reset" /\ step' = "idle" /\ block_entries' = <<>>
      /\ group_start_offset' = inner /\ UNCHANGED <<file, inner>>
  BY DEF ResetGroup, At
<1>2. GroupEnd' = GroupEnd /\ GroupEnd = inner
  BY <1>1 DEF GroupEnd
<1>3. Secured' = Secured /\ Written' = Secured'
  BY <1>1, IndexReset DEF Written
<1>4. Written = Secured
  BY <1>2 DEF OnStream
<1> QED
  BY <1>1, <1>2, <1>3, <1>4, OnStreamKept

(* A writer that stops leaves the stream as it is.                         *)
LEMMA OnStreamEnd ==
  ASSUME CallsInv, FileInv, IndexInv, NEW pos, OnStream(pos), Fail \/ Crash \/ Drop
  PROVE  /\ OnStream(pos)' /\ CarriesOn(pos, pos)
         /\ SameBelow(file, file', GroupEnd) /\ GroupEnd' = GroupEnd
<1>1. /\ outcome = "open"
      /\ UNCHANGED <<inner, group_start_offset, pending_blocks, buffer_len, block_entries, step,
                     accepted>>
      /\ file' = file \/ file' \in Interrupted
  BY DEF Fail, Crash, Drop, Stop, Idle, buffers, flush, control
<1>2. GroupEnd' = GroupEnd /\ Secured' = Secured /\ Written' = Written
  BY <1>1 DEF GroupEnd, Secured, Written
<1>3. FileType(file) /\ Within(file) /\ inner = file.length
  BY <1>1 DEF FileInv, Running, Intact
<1>4. CASE file' = file
  <2>1. SameBelow(file, file, GroupEnd)
    BY <1>3 DEF SameBelow, FileType
  <2> QED
    BY <1>1, <1>2, <1>4, <2>1, OnStreamKept
<1>5. ASSUME NEW m \in Members, NEW size \in Nat, size < m.zc,
             file' = WriteMember(file, inner, m, size)
      PROVE  OnStream(pos)' /\ CarriesOn(pos, pos) /\ SameBelow(file, file', GroupEnd)
  <2>1. PICK new : new = file' /\ new = WriteMember(file, file.length, m, size)
    BY <1>3, <1>5
  <2>2. Stream(file, file.length, pos)
    BY <1>3 DEF OnStream
  <2>3. Stream(new, inner, pos) /\ Boundaries(new, inner) = Boundaries(file, inner)
    BY <1>3, <1>5, <2>1, <2>2, StreamTorn
  <2>4. SameBelow(file, new, GroupEnd)
    BY <1>3, <2>1, WrittenIsSame
  <2> QED
    BY <1>1, <1>2, <2>1, <2>3, <2>4 DEF OnStream, CarriesOn
<1>6. CASE file' \in Interrupted
  <2>1. PICK new : new = file' /\ new \in Interrupted
    BY <1>6
  <2>2. \/ new = file
        \/ \E m \in Members, size \in Nat : size < m.zc /\ new = WriteMember(file, inner, m, size)
    BY <2>1, InterruptedIs
  <2> QED
    BY <1>2, <1>4, <1>5, <2>1, <2>2
<1> QED
  BY <1>1, <1>2, <1>4, <1>6

(* Another writer goes on with it.                                         *)
LEMMA OnStreamNewWriter ==
  ASSUME CallsInv, FileInv, IndexInv, NEW pos, OnStream(pos), NewWriter
  PROVE  OnStream(pos)' /\ CarriesOn(pos, pos) /\ GroupEnd' = GroupEnd /\ file' = file
<1>1. /\ outcome = "finished" /\ step = "idle" /\ block_entries = <<>>
      /\ group_start_offset' = inner
      /\ UNCHANGED <<file, inner, block_entries, step>>
  BY DEF NewWriter, StartOffset, CallsInv, Calls, Batches, flush, control
<1>2. group_start_offset = inner
  BY <1>1 DEF FileInv, Running, GroupHeaded
<1>3. GroupEnd' = GroupEnd
  BY <1>1, <1>2 DEF GroupEnd
<1>4. Secured' = Secured /\ Written' = Secured' /\ Written = Secured
  BY <1>1, IndexNewWriter DEF Written
<1> QED
  BY <1>1, <1>3, <1>4, OnStreamKept

(* The stream on the file only grows, and what is secured stays.           *)
Grows ==
  /\ SameBelow(file, file', GroupEnd) /\ GroupEnd <= GroupEnd'
  /\ Secured <= Secured' /\ accepted <= accepted'

LEMMA OnStreamNext ==
  ASSUME GroupsFit, WriterInv, NEW pos, OnStream(pos), [Next]_vars
  PROVE  /\ \E q : OnStream(q)' /\ CarriesOn(pos, q)
         /\ SameBelow(file, file', GroupEnd) /\ GroupEnd <= GroupEnd'
<1>1. CallsInv /\ FileInv /\ IndexInv
  BY DEF WriterInv
<1>2. FileType(file) /\ GroupEnd \in Nat
  BY <1>1, CallsTypes DEF GroupEnd
<1>3. SameBelow(file, file, GroupEnd) /\ GroupEnd <= GroupEnd
  BY <1>2 DEF SameBelow, FileType
<1>4. CASE UNCHANGED vars
  <2>1. UNCHANGED <<file, inner, GroupEnd, Secured, Written>>
    BY <1>4 DEF GroupEnd, Secured, Written, vars, buffers, flush, control
  <2> QED
    BY <1>3, <2>1, OnStreamKept
<1>5. CASE \/ \E n \in WriteSizes : Write(n)
           \/ Finish \/ Take \/ WriteReturns \/ FinishReturns \/ Compress
  BY <1>1, <1>3, <1>5, OnStreamElsewhere
<1>6. CASE WriteBlock \/ WriteIdx
  BY <1>1, <1>3, <1>6, OnStreamWriteBlock, OnStreamWriteIdx
<1>7. CASE Backpatch \/ ResetGroup
  BY <1>1, <1>3, <1>7, OnStreamBackpatch, OnStreamReset
<1>8. CASE Fail \/ Crash \/ Drop \/ NewWriter
  BY <1>1, <1>3, <1>8, OnStreamEnd, OnStreamNewWriter
<1> QED
  BY <1>4, <1>5, <1>6, <1>7, <1>8 DEF Next, Progress

(* The blocks of a group end where the last of them does, or before.       *)
LEMMA InOrderWithin ==
  ASSUME NEW blocks \in Seq(Blocks), NEW n \in Nat, n = Len(blocks), NEW end \in Nat,
         InOrder(blocks, end), NEW k \in 1..n
  PROVE  blocks[k].to <= end /\ blocks[k].to \in Nat /\ blocks[k].from <= blocks[k].to
<1> DEFINE bad == {d \in 0 .. n - 1 : ~(blocks[n - d].to <= end)}
<1>1. ASSUME NEW i \in 1..n
      PROVE  /\ blocks[i].from \in Nat /\ blocks[i].to \in Nat /\ blocks[i].from < blocks[i].to
             /\ i > 1 => blocks[i].from = blocks[i - 1].to
  <2>1. blocks[i] \in Blocks
    BY ElementOfSeq
  <2> QED
    BY <2>1 DEF Blocks, InOrder
<1>2. blocks[n].to = end
  BY DEF InOrder
<1>3. bad = {}
  <2>1. SUFFICES ASSUME bad # {} PROVE FALSE
    OBVIOUS
  <2>2. PICK m \in bad : \A x \in bad : m <= x
    <3>1. bad \in SUBSET Nat
      OBVIOUS
    <3> HIDE DEF bad
    <3> QED
      BY <2>1, <3>1, LeastOf
  <2>3. m \in 0 .. n - 1 /\ ~(blocks[n - m].to <= end)
    OBVIOUS
  <2>4. m # 0
    BY <1>2, <2>3
  <2>5. PICK p \in 0 .. n - 1 : p = m - 1
    BY <2>3, <2>4
  <2>6. blocks[n - p].to <= end
    <3>1. p < m
      BY <2>3, <2>5
    <3>2. p \notin bad
      <4>1. SUFFICES ASSUME p \in bad PROVE FALSE
        OBVIOUS
      <4>2. m <= p
        <5> HIDE DEF bad
        <5> QED
          BY <2>2, <4>1
      <4> QED
        BY <2>3, <2>5, <3>1, <4>2
    <3> QED
      BY <2>5, <3>2
  <2>7. n - p \in 1..n /\ n - p > 1 /\ (n - p) - 1 = n - m /\ n - m \in 1..n
    BY <2>3, <2>4, <2>5
  <2> HIDE DEF bad
  <2>8. blocks[n - p].from = blocks[n - m].to /\ blocks[n - p].from < blocks[n - p].to
    BY <1>1, <2>7
  <2>9. blocks[n - m].to \in Nat /\ blocks[n - p].to \in Nat
    BY <1>1, <2>7
  <2> QED
    BY <2>3, <2>6, <2>8, <2>9
<1>4. \A d \in 0 .. n - 1 : blocks[n - d].to <= end
  BY <1>3
<1> HIDE DEF bad
<1>5. n - k \in 0 .. n - 1 /\ n - (n - k) = k
  OBVIOUS
<1>6. blocks[k].to <= end
  BY <1>4, <1>5
<1> QED
  BY <1>1, <1>6

(* Nothing is secured, or written, that was not accepted.                  *)
LEMMA WrittenAccepted ==
  ASSUME CallsInv
  PROVE  /\ Secured \in Nat /\ Secured <= accepted
         /\ Written \in Nat /\ Written <= accepted
<1>1. PICK end \in Nat : end = accepted - buffer_len /\ end <= accepted
  <2>1. session.from \in Nat /\ session.from + buffer_len <= accepted
    BY CallsTypes DEF CallsInv, Calls
  <2>2. accepted \in Nat /\ buffer_len \in Nat
    BY CallsTypes
  <2>3. PICK f \in Nat, a \in Nat, b \in Nat :
          f = session.from /\ a = accepted /\ b = buffer_len
    BY <2>1, <2>2
  <2>4. f + b <= a
    BY <2>1, <2>3
  <2>5. a - b \in Nat /\ a - b <= a
    BY <2>4, <2>3
  <2> QED
    BY <2>3, <2>5
<1>2. PICK n \in Nat, done \in Nat : n = Len(pending_blocks) /\ done = Len(block_entries)
  BY CallsTypes, LenProperties
<1>3. \A k \in 1..n : /\ pending_blocks[k].to <= end /\ pending_blocks[k].to \in Nat
                     /\ pending_blocks[k].from <= pending_blocks[k].to
                     /\ pending_blocks[k].from \in Nat
  <2>1. pending_blocks \in Seq(Blocks) /\ InOrder(pending_blocks, end)
    BY <1>1, CallsTypes DEF CallsInv, Buffered
  <2>2. \A k \in 1..n : pending_blocks[k] \in Blocks
    BY <1>2, <2>1, ElementOfSeq
  <2>3. \A k \in 1..n : /\ pending_blocks[k].to <= end /\ pending_blocks[k].to \in Nat
                       /\ pending_blocks[k].from <= pending_blocks[k].to
    BY <1>2, <2>1, InOrderWithin
  <2> QED
    BY <2>2, <2>3 DEF Blocks
<1>4. Secured \in Nat /\ Secured <= end
  <2>1. CASE step = "reset" \/ pending_blocks = <<>>
    BY <1>1, <2>1 DEF Secured, BeginOf
  <2>2. CASE step # "reset" /\ pending_blocks # <<>>
    <3>1. 1 \in 1..n
      BY <1>2, <2>2, CallsTypes, EmptySeq
    <3>2. Secured = pending_blocks[1].from
      BY <2>2 DEF Secured, BeginOf
    <3> QED
      BY <1>3, <3>1, <3>2
  <2> QED
    BY <2>1, <2>2
<1>5. Written \in Nat /\ Written <= end
  <2>1. CASE block_entries = <<>>
    BY <1>4, <2>1 DEF Written
  <2>2. CASE block_entries # <<>>
    <3>1. done # 0 /\ done <= n
      BY <1>2, <2>2, CallsTypes, EmptySeq DEF CallsInv, Batches
    <3>2. done \in 1..n /\ Written = pending_blocks[done].to
      BY <1>2, <2>2, <3>1 DEF Written
    <3> QED
      BY <1>3, <3>2
  <2> QED
    BY <2>1, <2>2
<1>6. accepted \in Nat
  BY CallsTypes
<1> QED
  BY <1>1, <1>4, <1>5, <1>6

(* So it is in the next state.                                             *)
LEMMA SecuredIsNat == CallsInv' => (Secured \in Nat /\ accepted \in Nat)'
<1>1. CallsInv => Secured \in Nat /\ accepted \in Nat
  BY WrittenAccepted, CallsTypes
<1> QED
  BY <1>1, PTL

(* What is accepted, and what of it is secured, never gets less.           *)
LEMMA SecuredGrows ==
  ASSUME GroupsFit, WriterInv, [Next]_vars
  PROVE  Secured <= Secured' /\ accepted <= accepted'
<1>1. CallsInv /\ FileInv /\ IndexInv
  BY DEF WriterInv
<1>2. accepted \in Nat /\ Secured \in Nat
  BY <1>1, CallsTypes, WrittenAccepted
<1>3. CASE UNCHANGED vars
  <2>1. UNCHANGED <<Secured, accepted>>
    BY <1>3 DEF Secured, vars, buffers, flush, control
  <2> QED
    BY <1>2, <2>1
<1>4. CASE Take
  <2>1. Secured' = Secured
    BY <1>1, <1>4, IndexElsewhere
  <2>2. accepted' \in Nat /\ (accepted' = accepted \/ accepted' > accepted)
    BY <1>1, <1>4, TakenIs
  <2>3. accepted <= accepted'
    <3>1. CASE accepted' = accepted
      BY <1>2, <3>1
    <3>2. CASE accepted' > accepted
      BY <1>2, <2>2, <3>2
    <3> QED
      BY <2>2, <3>1, <3>2
  <2> QED
    BY <1>2, <2>1, <2>3
<1>5. CASE Backpatch
  <2>1. Secured' = accepted /\ Secured < accepted /\ accepted' = accepted
    BY <1>1, <1>5, IndexBackpatch
  <2> QED
    BY <1>2, <2>1
<1>6. CASE \/ \E n \in WriteSizes : Write(n)
           \/ Finish \/ WriteReturns \/ FinishReturns \/ Compress \/ WriteBlock \/ WriteIdx
           \/ ResetGroup \/ Fail \/ Crash \/ Drop \/ NewWriter
  <2>1. Secured' = Secured
    BY <1>1, <1>6, IndexElsewhere, IndexWriteBlock, IndexWriteIdx, IndexReset, IndexEnd,
       IndexNewWriter
  <2>2. accepted' = accepted
    BY <1>6 DEF Write, Finish, WriteReturns, FinishReturns, Compress, WriteBlock, WriteIdx,
                ResetGroup, Fail, Crash, Drop, NewWriter, Stop
  <2> QED
    BY <1>2, <2>1, <2>2
<1> QED
  BY <1>3, <1>4, <1>5, <1>6 DEF Next, Progress

-----------------------------------------------------------------------------
(* What the reader finds.                                                  *)

(* A member below tip is read whole.                                       *)
LEMMA RawWhole ==
  ASSUME NEW f, FileType(f), NEW tip, NEW pos, Stream(f, tip, pos),
         NEW at \in Boundaries(f, tip), at < tip
  PROVE  /\ at \in DOMAIN f.members /\ f.members[at] \in Members
         /\ RawBlock(f, at) = [result |-> "block", type |-> f.members[at].kind]
         /\ EndOf(f, at) \in Boundaries(f, tip) /\ at < EndOf(f, at) /\ Carries(f, at, pos)
<1>1. at \in DOMAIN f.members
  BY DEF Boundaries, Stream
<1>2. /\ EndOf(f, at) \in Boundaries(f, tip) /\ EndOf(f, at) <= tip /\ at < EndOf(f, at)
      /\ ReadAs(f.members[at]) /\ Carries(f, at, pos)
  BY <1>1 DEF Stream
<1>3. f.members[at] \in Members /\ at \in Nat /\ f.length \in Nat /\ tip \in Nat /\ tip <= f.length
  BY <1>1 DEF FileType, Stream
<1>4. PICK m : m = f.members[at]
  OBVIOUS
<1>5. m \in Members /\ m.zc \in Nat /\ m.kind \in {"beg", "dat", "idx"}
  BY <1>3, <1>4 DEF Members, Kinds
<1>6. PICK x \in Nat : x = Xlen(m)
  <2>1. Xlen(m) \in Nat
    <3>1. CASE m.kind # "idx"
      BY <1>5, <3>1 DEF Xlen, BEG_HEADER_SIZE, DAT_HEADER_SIZE
    <3>2. CASE m.kind = "idx"
      <4>1. m.entries \in Seq(IndexEntries)
        BY <1>5 DEF Members
      <4>2. PICK n \in Nat : n = Len(m.entries)
        BY <4>1, LenProperties
      <4>3. Xlen(m) = (12 + 8 * n) % U16Space
        BY <3>2, <4>2 DEF Xlen, XlenBase, EntrySize
      <4>4. U16Space \in Nat \ {0} /\ 12 + 8 * n \in Nat
        BY U16SpacePositive
      <4> QED
        BY <4>3, <4>4
    <3> QED
      BY <3>1, <3>2
  <2> QED
    BY <2>1
<1>7. 12 + x <= m.zc /\ Zc(m) = m.zc /\ RawType(m) = m.kind /\ at + m.zc <= f.length
  <2>1. 12 + x <= m.zc /\ Zc(m) = m.zc /\ RawType(m) = m.kind
    BY <1>2, <1>4, <1>6 DEF ReadAs, GZIP_FIXED_HEADER_SIZE
  <2>2. at + m.zc <= tip
    BY <1>2, <1>4 DEF EndOf
  <2> QED
    BY <1>3, <1>5, <2>1, <2>2
<1>8. RawBlock(f, at) = [result |-> "block", type |-> m.kind]
  <2>1. ~(at + 10 > f.length) /\ ~(at + (10 + 2 + x) > f.length) /\ m.zc # 0
        /\ ~(at + m.zc > f.length)
    BY <1>3, <1>5, <1>6, <1>7
  <2> QED
    BY <1>1, <1>4, <1>6, <1>7, <2>1 DEF RawBlock, GZIP_FIXED_HEADER_SIZE
<1> QED
  BY <1>1, <1>2, <1>3, <1>4, <1>8

(* At tip there is no member, or a torn one.                               *)
LEMMA RawAtTip ==
  ASSUME NEW f, FileType(f), NEW tip, NEW pos, Stream(f, tip, pos)
  PROVE  RawBlock(f, tip).result # "block"
<1>1. tip \in Nat /\ f.length \in Nat
  BY DEF Stream, FileType
<1>2. CASE tip \notin DOMAIN f.members
  BY <1>2 DEF RawBlock
<1>3. CASE tip \in DOMAIN f.members
  <2>1. PICK m \in Members : m = f.members[tip]
    BY <1>3 DEF FileType
  <2>2. m.zc \in Nat /\ f.length < tip + m.zc
    BY <1>1, <1>3, <2>1 DEF Stream, EndOf, Members
  <2>3. Zc(m) = 0 \/ Zc(m) = m.zc
    BY DEF Zc
  <2>4. Zc(m) # 0 => tip + Zc(m) > f.length
    BY <1>1, <2>2, <2>3
  <2> QED
    BY <2>1, <2>4 DEF RawBlock
<1> QED
  BY <1>2, <1>3

(* The file as the reader finds it: like the file of the writer, but for a *)
(* member that is being written.                                           *)
SeenAs(seen, pos) ==
  /\ FileType(seen) /\ Unsealed(seen, GroupEnd)
  /\ \A offset : SameBelow(file, seen, offset)
  /\ Stream(seen, inner, pos) /\ Boundaries(seen, inner) = Boundaries(file, inner)

(* So is the file itself.                                                  *)
LEMMA AsItIs ==
  ASSUME WriterInv, NEW pos, OnStream(pos)
  PROVE  SeenAs(file, pos)
<1>1. FileType(file) /\ Unsealed(file, GroupEnd)
  BY CallsTypes DEF WriterInv, IndexInv, SealedInv
<1>2. \A offset : SameBelow(file, file, offset)
  BY <1>1 DEF SameBelow, FileType
<1> QED
  BY <1>1, <1>2 DEF SeenAs, OnStream

(* Whatever it finds is like that.                                         *)
LEMMA SeenIs ==
  ASSUME WriterInv, NEW pos, OnStream(pos), NEW seen \in Seen
  PROVE  SeenAs(seen, pos)
<1>1. CallsInv /\ FileInv /\ IndexInv /\ FileType(file)
  BY CallsTypes DEF WriterInv
<1>2. Stream(file, inner, pos)
  BY DEF OnStream
<1>3. CASE seen = file
  BY <1>3, AsItIs
<1>4. CASE outcome = "open" /\ seen \in Interrupted
  <2>1. FileType(seen) /\ Unsealed(seen, GroupEnd) /\ \A offset : SameBelow(file, seen, offset)
    BY <1>1, <1>4, InterruptedIsUnsealed
  <2>2. ASSUME NEW m \in Members, NEW size \in Nat, size < m.zc,
               seen = WriteMember(file, inner, m, size)
        PROVE  Stream(seen, inner, pos) /\ Boundaries(seen, inner) = Boundaries(file, inner)
    <3>1. Within(file) /\ inner = file.length
      BY <1>1, <1>4 DEF FileInv, Running, Intact
    <3>2. Stream(file, file.length, pos) /\ seen = WriteMember(file, file.length, m, size)
      BY <1>2, <2>2, <3>1
    <3> QED
      BY <1>1, <2>2, <3>1, <3>2, StreamTorn
  <2>3. \/ seen = file
        \/ \E m \in Members, size \in Nat : size < m.zc /\ seen = WriteMember(file, inner, m, size)
    BY <1>1, <1>4, InterruptedIs
  <2>4. CASE seen # file
    BY <2>1, <2>2, <2>3, <2>4 DEF SeenAs
  <2> QED
    BY <1>3, <2>4
<1> QED
  BY <1>3, <1>4 DEF Seen

(* A point of the walk is the end of the sealed groups, for the reader     *)
(* too, or it sees a sealed group there.                                   *)
LEMMA GroupSeen ==
  ASSUME WriterInv, NEW pos, NEW seen, SeenAs(seen, pos),
         NEW walk, Reached(file, walk), walk.group_start <= GroupEnd
  PROVE  \/ /\ walk.group_start = GroupEnd
            /\ EndOfGroups(seen, walk.group_start) /\ Total(walk.index) = Secured
         \/ /\ walk.group_start < GroupEnd
            /\ ~EndOfGroups(seen, walk.group_start) /\ ValidGroup(seen, walk.group_start)
            /\ IdxAt(seen, walk.group_start) = IdxAt(file, walk.group_start)
            /\ NextGroup(seen, walk) = NextGroup(file, walk)
            /\ Reached(file, NextGroup(file, walk))
            /\ NextGroup(file, walk).group_start <= GroupEnd
<1>1. /\ FileType(file) /\ FileType(seen) /\ Unsealed(seen, GroupEnd)
      /\ SameBelow(file, seen, GroupEnd) /\ GroupEnd \in Nat
  BY CallsTypes DEF WriterInv, SeenAs, GroupEnd
<1>2. PICK found : /\ Reached(file, [group_start |-> GroupEnd, index |-> found])
                  /\ Total(found) = Secured
  BY DEF WriterInv, IndexInv, SealedInv, SealedUpTo
<1> DEFINE last == [group_start |-> GroupEnd, index |-> found]
<1>3. last.group_start = GroupEnd /\ last.index = found /\ Reached(file, last)
  BY <1>2
<1> HIDE DEF last
<1>4. \/ walk = last
      \/ /\ walk.group_start < last.group_start
         /\ Passes(file, walk)
         /\ IdxAt(file, walk.group_start) < last.group_start
         /\ Reached(file, NextGroup(file, walk))
         /\ NextGroup(file, walk).group_start <= last.group_start
  BY <1>1, <1>3, ReachedOn
<1>5. CASE walk = last
  <2>1. EndOfGroups(seen, GroupEnd)
    BY <1>1 DEF Unsealed, EndOfGroups, BEG_HEADER_SIZE, FileType
  <2> QED
    BY <1>2, <1>3, <1>5, <2>1
<1>6. CASE /\ walk.group_start < GroupEnd
           /\ Passes(file, walk)
           /\ IdxAt(file, walk.group_start) < GroupEnd
           /\ Reached(file, NextGroup(file, walk))
           /\ NextGroup(file, walk).group_start <= GroupEnd
  <2>1. walk \in Walks
    BY ReachedType
  <2>2. /\ Passes(seen, walk)
        /\ IdxAt(seen, walk.group_start) = IdxAt(file, walk.group_start)
        /\ NextGroup(seen, walk) = NextGroup(file, walk)
    BY <1>1, <1>6, <2>1, PassesBelow
  <2> QED
    BY <1>6, <2>2 DEF Passes
<1> QED
  BY <1>3, <1>4, <1>5, <1>6

(* The blocks of an index of sealed groups are on the stream where the     *)
(* index says, and all of them secured.                                    *)
LEMMA IndexOnStream ==
  ASSUME NEW pos, OnStream(pos), FileType(file), NEW arrays, Finds(file, arrays),
         Last(arrays.compressed_offsets) <= GroupEnd,
         NEW n, n = block_count(arrays)
  PROVE  /\ n \in Nat /\ arrays.uncompressed_offsets[1] = 0
         /\ Total(arrays) = arrays.uncompressed_offsets[n + 1]
         /\ Total(arrays) \in Nat /\ Total(arrays) <= Secured
         /\ \A i \in 1..n :
              LET at == arrays.compressed_offsets[i]
              IN /\ at \in DOMAIN file.members /\ at \in Boundaries(file, inner) /\ at < inner
                 /\ file.members[at].kind \in {"beg", "dat"}
                 /\ pos[at] = arrays.uncompressed_offsets[i]
                 /\ pos[EndOf(file, at)] = arrays.uncompressed_offsets[i + 1]
         /\ \A i \in 1 .. n - 1 : arrays.compressed_offsets[i] < arrays.compressed_offsets[i + 1]
<1> DEFINE c == arrays.compressed_offsets
           u == arrays.uncompressed_offsets
<1>1. /\ c \in Seq(Nat) /\ Len(c) \in Nat \ {0} /\ Last(c) = c[Len(c)] /\ Last(c) \in Nat
      /\ u \in Seq(Nat) /\ Len(u) = Len(c) /\ Last(u) = u[Len(u)] /\ Last(u) \in Nat
      /\ u[1] = 0 /\ c[1] = 0
  BY IndexFields, OffsetsProperties DEF Finds
<1>2. n \in Nat /\ Len(c) = n + 1
  BY <1>1 DEF block_count
<1>3. /\ GroupEnd \in Boundaries(file, inner) /\ pos[GroupEnd] = Secured
      /\ Stream(file, inner, pos) /\ inner \in Nat /\ pos \in [Nat -> Nat]
  BY DEF OnStream, Stream
<1>4. DOMAIN file.members \subseteq Nat
  BY DEF FileType
<1>5. GroupEnd \in Nat /\ GroupEnd <= inner
  BY <1>3, <1>4 DEF Boundaries
<1>6. ASSUME NEW i \in 1..n, NEW at, at = c[i]
      PROVE  /\ at \in DOMAIN file.members /\ at \in Boundaries(file, inner) /\ at < inner
             /\ at < GroupEnd
             /\ file.members[at].kind \in {"beg", "dat"}
             /\ pos[at] = u[i] /\ pos[EndOf(file, at)] = u[i + 1]
  <2>1. i \in 1..Len(c) /\ Len(c) \in 1..Len(c) /\ i < Len(c)
    BY <1>2
  <2>2. at < Last(c) /\ at \in Nat
    BY <1>1, <1>6, <2>1, ElementOfSeq DEF Finds, Increases
  <2>3. at < GroupEnd /\ at < inner
    <3>1. PICK last \in Nat : last = Last(c) /\ last <= GroupEnd
      BY <1>1
    <3>2. at < last /\ at \in Nat
      BY <2>2, <3>1
    <3> QED
      BY <1>3, <1>5, <3>1, <3>2
  <2>4. /\ at \in DOMAIN file.members /\ file.members[at].kind \in {"beg", "dat"}
        /\ file.members[at].from = u[i] /\ file.members[at].to = u[i + 1]
    BY <1>6 DEF Finds, BlockFound
  <2>5. Carries(file, at, pos)
    BY <1>3, <2>3, <2>4 DEF Stream
  <2> QED
    BY <2>3, <2>4, <2>5 DEF Carries, Boundaries
<1>7. Total(arrays) = u[n + 1] /\ Total(arrays) \in Nat
  BY <1>1, <1>2 DEF Total
<1>8. Total(arrays) <= Secured
  <2>1. CASE n = 0
    <3>1. Secured \in Nat
      BY <1>3, <1>5
    <3> QED
      BY <1>1, <1>7, <2>1, <3>1
  <2>2. CASE n # 0
    <3>1. PICK at : at = c[n]
      OBVIOUS
    <3>2. /\ at \in DOMAIN file.members /\ at \in Boundaries(file, inner) /\ at < GroupEnd
          /\ at < inner /\ pos[EndOf(file, at)] = u[n + 1]
      BY <1>2, <1>6, <2>2, <3>1
    <3>3. EndOf(file, at) \in Boundaries(file, inner) /\ EndOf(file, at) <= GroupEnd
      BY <1>3, <3>2 DEF Stream
    <3>4. EndOf(file, at) \in Nat
      BY <1>3, <1>4, <3>3 DEF Boundaries
    <3>5. pos[EndOf(file, at)] <= pos[GroupEnd]
      <4>1. CASE EndOf(file, at) = GroupEnd
        BY <1>3, <1>5, <4>1
      <4>2. CASE EndOf(file, at) # GroupEnd
        <5>1. EndOf(file, at) < GroupEnd
          BY <1>5, <3>3, <3>4, <4>2
        <5> QED
          BY <1>3, <3>3, <5>1 DEF Stream
      <4> QED
        BY <4>1, <4>2
    <3> QED
      BY <1>3, <1>7, <3>2, <3>5
  <2> QED
    BY <2>1, <2>2
<1>9. ASSUME NEW i \in 1 .. n - 1 PROVE c[i] < c[i + 1]
  <2>1. i \in 1..Len(c) /\ i + 1 \in 1..Len(c) /\ i < i + 1
    BY <1>2
  <2> QED
    BY <2>1 DEF Finds, Increases
<1> QED
  BY <1>1, <1>2, <1>6, <1>7, <1>8, <1>9

-----------------------------------------------------------------------------
(* What the client got: a chain of n blocks that end at got.               *)

Returned == [block_index : Nat, from : Nat, to : Nat]

Chain(blocks, n, got) ==
  /\ blocks \in Seq(Returned) /\ Len(blocks) = n
  /\ \A i \in 1..n : /\ blocks[i].block_index = i - 1
                    /\ blocks[i].from = IF i = 1 THEN 0 ELSE blocks[i - 1].to
  /\ got \in Nat /\ got = IF blocks = <<>> THEN 0 ELSE Last(blocks).to

(* Nothing so far.                                                         *)
LEMMA ChainEmpty == Chain(<<>>, 0, 0)
<1>1. <<>> \in Seq(Returned) /\ Len(<<>>) = 0
  OBVIOUS
<1> QED
  BY <1>1 DEF Chain

(* The next block.                                                         *)
LEMMA ChainAppend ==
  ASSUME NEW blocks, NEW n \in Nat, NEW got, Chain(blocks, n, got), NEW to \in Nat,
         NEW p, p = n + 1,
         NEW new, new = Append(blocks, [block_index |-> n, from |-> got, to |-> to])
  PROVE  Chain(new, p, to)
<1> DEFINE block == [block_index |-> n, from |-> got, to |-> to]
<1>1. block.block_index = n /\ block.from = got /\ block.to = to /\ block \in Returned
  BY DEF Chain, Returned
<1> HIDE DEF block
<1>2. blocks \in Seq(Returned) /\ Len(blocks) = n /\ new = Append(blocks, block)
  BY DEF Chain, block
<1>3. /\ new \in Seq(Returned) /\ Len(new) = n + 1
      /\ \A i \in 1..n : new[i] = blocks[i]
      /\ new[n + 1] = block
  BY <1>1, <1>2, AppendProperties
<1>4. new # <<>> /\ Last(new) = block
  BY <1>3, EmptySeq DEF Last
<1>5. ASSUME NEW i \in 1..p
      PROVE  /\ new[i].block_index = i - 1
             /\ new[i].from = IF i = 1 THEN 0 ELSE new[i - 1].to
  <2>1. CASE i \in 1..n
    <3>1. i # 1 => i - 1 \in 1..n
      BY <2>1
    <3> QED
      BY <1>3, <2>1, <3>1 DEF Chain
  <2>2. CASE i = p
    <3>1. new[i] = block
      BY <1>3, <2>2
    <3>2. CASE n = 0
      <4>1. blocks = <<>>
        BY <1>2, <3>2, EmptySeq
      <4> QED
        BY <1>1, <2>2, <3>1, <3>2, <4>1 DEF Chain
    <3>3. CASE n # 0
      <4>1. blocks # <<>> /\ got = blocks[n].to
        BY <1>2, <3>3, EmptySeq DEF Chain, Last
      <4>2. i - 1 = n /\ n \in 1..n /\ i # 1
        BY <2>2, <3>3
      <4> QED
        BY <1>1, <1>3, <3>1, <4>1, <4>2
    <3> QED
      BY <3>2, <3>3
  <2>3. i \in 1..n \/ i = p
    OBVIOUS
  <2> QED
    BY <2>1, <2>2, <2>3
<1> QED
  BY <1>1, <1>3, <1>4, <1>5 DEF Chain

-----------------------------------------------------------------------------
(* Where the reader is, on a file with this stream.                        *)

ReaderTypes ==
  /\ mode \in {"closed", "refused", "beg", "idx", "read", "raw", "torn", "end"}
  /\ inner_reader \in Nat /\ group_start \in Nat /\ next_block_index \in Nat
  /\ to_fetch \in 0..readahead_size
  /\ promised \in Nat

Bounded == promised <= Secured /\ Got <= accepted

Indexed == Finds(file, index) /\ Last(index.compressed_offsets) <= GroupEnd

(* Building the index, it is at a group that build() gets to.              *)
Builds ==
  /\ mode \in {"closed", "refused", "beg", "idx"} =>
       delivered = <<>> /\ next_block_index = 0 /\ to_fetch = 0
  /\ mode = "closed" => inner_reader = 0 /\ index = NoGroups
  /\ mode = "beg" => /\ Reached(file, [group_start |-> inner_reader, index |-> index])
                     /\ inner_reader <= GroupEnd
  /\ mode = "idx" => /\ Reached(file, [group_start |-> group_start, index |-> index])
                     /\ group_start < GroupEnd
                     /\ inner_reader = IdxAt(file, group_start)

(* Reading, it is where the stream goes on behind what the client got; in  *)
(* a batch, not behind the block that is due.                              *)
Reads(pos) ==
  /\ mode = "raw" => inner_reader \in Boundaries(file, inner) /\ pos[inner_reader] = Got
  /\ mode = "read" =>
       /\ promised <= Total(index)
       /\ next_block_index + to_fetch <= block_count(index)
       /\ Got = index.uncompressed_offsets[next_block_index + 1]
       /\ to_fetch > 0 => /\ inner_reader \in Boundaries(file, inner) /\ pos[inner_reader] = Got
                          /\ inner_reader <= index.compressed_offsets[next_block_index + 1]
  /\ mode \in {"refused", "torn", "end"} => promised <= Got

ReaderOn(pos) ==
  /\ ReaderTypes /\ Chain(delivered, next_block_index, Got)
  /\ Bounded /\ Indexed /\ Builds /\ Reads(pos)

(* What a step of the reader leaves as it is.                              *)
LEMMA WriterRests ==
  ASSUME UNCHANGED vars
  PROVE  UNCHANGED <<file, inner, GroupEnd, Secured, accepted, outcome>>
BY DEF vars, buffers, flush, control, GroupEnd, Secured

(* Where it starts.                                                        *)
LEMMA ReaderInit ==
  ASSUME PgzfInit, NEW pos
  PROVE  ReaderOn(pos)
<1>1. /\ file = EmptyFile /\ inner = 0 /\ group_start_offset = 0 /\ pending_blocks = <<>>
      /\ buffer_len = 0 /\ accepted = 0 /\ step = "idle"
      /\ mode = "closed" /\ inner_reader = 0 /\ group_start = 0 /\ index = NoGroups
      /\ next_block_index = 0 /\ to_fetch = 0 /\ delivered = <<>> /\ promised = 0
  BY DEF PgzfInit, Init
<1>2. GroupEnd = 0 /\ Secured = 0 /\ Got = 0
  BY <1>1 DEF GroupEnd, Secured, BeginOf, Got
<1>3. ReaderTypes /\ Bounded /\ Builds /\ Reads(pos)
  BY <1>1, <1>2, ReaderConfig DEF ReaderTypes, Bounded, Builds, Reads
<1>4. Indexed
  BY <1>1, <1>2, FindsNothing DEF Indexed
<1>5. Chain(delivered, next_block_index, Got)
  BY <1>1, <1>2, ChainEmpty
<1> QED
  BY <1>3, <1>4, <1>5 DEF ReaderOn

(* There is no header of 10 bytes only where nothing is secured.           *)
LEMMA ReaderOpen ==
  ASSUME WriterInv, NEW pos, OnStream(pos), ReaderOn(pos), Open, UNCHANGED vars
  PROVE  ReaderOn(pos)'
<1>1. PICK seen \in Seen :
        mode' = IF seen.length < GZIP_FIXED_HEADER_SIZE THEN "refused" ELSE "beg"
  BY DEF Open
<1>2. /\ mode = "closed" /\ mode' \in {"refused", "beg"}
      /\ UNCHANGED <<inner_reader, next_block_index, to_fetch, group_start, index, delivered>>
      /\ promised' = IF outcome = "finished" THEN accepted ELSE Total(Index)
      /\ UNCHANGED <<file, inner, GroupEnd, Secured, accepted>>
  BY <1>1, WriterRests DEF Open, place
<1>3. promised' = Secured
  <2>1. Total(Index) = Secured
    BY IndexIs DEF WriterInv
  <2>2. outcome = "finished" => Total(Index) = accepted
    BY FinishedIs DEF WriterInv, FinishedReadable
  <2> QED
    BY <1>2, <2>1, <2>2
<1>4. Secured \in Nat
  BY WrittenAccepted DEF WriterInv
<1>5. /\ inner_reader = 0 /\ index = NoGroups /\ delivered = <<>> /\ to_fetch = 0
      /\ next_block_index = 0 /\ Got = 0 /\ Got' = Got
  BY <1>2 DEF ReaderOn, Builds, Got
<1>6. mode' = "refused" => Secured = 0
  <2>1. SUFFICES ASSUME mode' = "refused", Secured # 0 PROVE FALSE
    OBVIOUS
  <2>2. SeenAs(seen, pos)
    BY SeenIs
  <2>3. FileType(seen) /\ Stream(seen, inner, pos) /\ Boundaries(seen, inner) = Boundaries(file, inner)
    BY <2>2 DEF SeenAs
  <2>4. /\ 0 \in Boundaries(seen, inner) /\ pos[0] = 0 /\ GroupEnd \in Boundaries(seen, inner)
        /\ pos[GroupEnd] = Secured /\ inner \in Nat /\ inner <= seen.length /\ seen.length \in Nat
        /\ DOMAIN seen.members \subseteq Nat
    BY <2>3 DEF OnStream, Stream, FileType
  <2>5. GroupEnd # 0
    BY <2>1, <2>4
  <2>6. 0 < inner
    BY <2>4, <2>5 DEF Boundaries
  <2>7. RawBlock(seen, 0).result = "block"
    BY <2>3, <2>4, <2>6, RawWhole
  <2>8. ~(0 + GZIP_FIXED_HEADER_SIZE > seen.length)
    BY <2>7 DEF RawBlock
  <2> QED
    BY <1>1, <2>1, <2>4, <2>8 DEF GZIP_FIXED_HEADER_SIZE
<1>7. ReaderTypes' /\ Bounded' /\ Reads(pos)'
  BY <1>2, <1>3, <1>4, <1>5, <1>6 DEF ReaderOn, ReaderTypes, Bounded, Reads
<1>8. Builds'
  <2>1. Reached(file, [group_start |-> 0, index |-> NoGroups])
    BY ReachedStart DEF Start
  <2>2. GroupEnd \in Nat
    BY CallsTypes DEF WriterInv, GroupEnd
  <2> QED
    BY <1>2, <1>5, <2>1, <2>2 DEF Builds
<1>9. Indexed' /\ Chain(delivered, next_block_index, Got)'
  BY <1>2, <1>5 DEF ReaderOn, Indexed
<1> QED
  BY <1>7, <1>8, <1>9 DEF ReaderOn

(* At the end of the groups the index has all that is secured.             *)
LEMMA ReaderReadBeg ==
  ASSUME WriterInv, NEW pos, OnStream(pos), ReaderOn(pos), ReadBeg, UNCHANGED vars
  PROVE  ReaderOn(pos)'
<1>1. PICK seen \in Seen :
        IF EndOfGroups(seen, inner_reader)
        THEN /\ mode' \in {"read", "raw"}
             /\ inner_reader' = 0
             /\ UNCHANGED group_start
        ELSE /\ mode' = IF StartsGroup(seen, inner_reader) THEN "idx" ELSE "failed"
             /\ group_start' = inner_reader
             /\ inner_reader' = IF mode' = "idx" THEN IdxAt(seen, inner_reader) ELSE inner_reader
  BY DEF ReadBeg
<1>2. /\ mode = "beg"
      /\ UNCHANGED <<index, next_block_index, to_fetch, delivered, promised>>
      /\ UNCHANGED <<file, inner, GroupEnd, Secured, accepted>>
  BY WriterRests DEF ReadBeg
<1>3. SeenAs(seen, pos)
  BY SeenIs
<1> DEFINE walk == [group_start |-> inner_reader, index |-> index]
<1>4. /\ walk.group_start = inner_reader /\ walk.index = index /\ Reached(file, walk)
      /\ inner_reader <= GroupEnd
  BY <1>2 DEF ReaderOn, Builds
<1> HIDE DEF walk
<1>5. \/ EndOfGroups(seen, inner_reader) /\ Total(index) = Secured
      \/ /\ inner_reader < GroupEnd
         /\ ~EndOfGroups(seen, inner_reader) /\ ValidGroup(seen, inner_reader)
         /\ IdxAt(seen, inner_reader) = IdxAt(file, inner_reader)
  BY <1>3, <1>4, GroupSeen
<1>6. /\ delivered = <<>> /\ to_fetch = 0 /\ next_block_index = 0 /\ Got = 0 /\ Got' = Got
      /\ ReaderTypes /\ Bounded /\ Indexed /\ Chain(delivered, next_block_index, Got)
  BY <1>2 DEF ReaderOn, Builds, Got
<1>7. Bounded' /\ Indexed' /\ Chain(delivered, next_block_index, Got)'
  BY <1>2, <1>6 DEF Bounded, Indexed
<1>8. CASE EndOfGroups(seen, inner_reader) /\ Total(index) = Secured
  <2>1. mode' \in {"read", "raw"} /\ inner_reader' = 0 /\ UNCHANGED group_start
    BY <1>1, <1>8
  <2>2. ReaderTypes' /\ Builds'
    BY <1>2, <1>6, <2>1 DEF ReaderTypes, Builds
  <2>3. 0 \in Boundaries(file, inner) /\ pos[0] = 0
    BY DEF OnStream, Stream
  <2>4. PICK n : n = block_count(index)
    OBVIOUS
  <2>5. n \in Nat /\ index.uncompressed_offsets[1] = 0
    <3>1. FileType(file) /\ Finds(file, index) /\ Last(index.compressed_offsets) <= GroupEnd
      BY <1>6, CallsTypes DEF WriterInv, Indexed
    <3> QED
      BY <2>4, <3>1, IndexOnStream
  <2>6. next_block_index' = 0 /\ to_fetch' = 0 /\ Got' = 0 /\ promised' <= Total(index')
    BY <1>2, <1>6, <1>8 DEF Bounded
  <2>7. Reads(pos)'
    BY <1>2, <2>1, <2>3, <2>4, <2>5, <2>6 DEF Reads
  <2> QED
    BY <1>7, <2>2, <2>7 DEF ReaderOn
<1>9. CASE /\ inner_reader < GroupEnd
           /\ ~EndOfGroups(seen, inner_reader) /\ ValidGroup(seen, inner_reader)
           /\ IdxAt(seen, inner_reader) = IdxAt(file, inner_reader)
  <2>1. mode' = "idx" /\ group_start' = inner_reader /\ inner_reader' = IdxAt(file, inner_reader)
    BY <1>1, <1>9 DEF ValidGroup
  <2>2. IdxAt(file, inner_reader) \in Nat
    <3>1. IdxAt(seen, inner_reader) \in DOMAIN seen.members /\ FileType(seen)
      BY <1>3, <1>9 DEF ValidGroup, IsIdx, SeenAs
    <3> QED
      BY <1>9, <3>1 DEF FileType
  <2>3. ReaderTypes'
    BY <1>2, <1>6, <2>1, <2>2 DEF ReaderTypes
  <2>4. Builds' /\ Reads(pos)'
    BY <1>2, <1>4, <1>6, <1>9, <2>1 DEF Builds, Reads, walk
  <2> QED
    BY <1>7, <2>3, <2>4 DEF ReaderOn
<1> QED
  BY <1>5, <1>8, <1>9

(* An IDX member that the GC value leads to is there for good.             *)
LEMMA ReaderReadIdx ==
  ASSUME WriterInv, NEW pos, OnStream(pos), ReaderOn(pos), ReadIdx, UNCHANGED vars
  PROVE  ReaderOn(pos)'
<1>1. PICK seen \in Seen :
        IF IsIdx(seen, inner_reader)
        THEN /\ index' = AddGroup(index, seen.members[inner_reader])
             /\ inner_reader' = inner_reader + seen.members[inner_reader].zc
             /\ mode' = "beg"
        ELSE /\ mode' = "failed"
             /\ UNCHANGED <<index, inner_reader>>
  BY DEF ReadIdx
<1>2. /\ mode = "idx"
      /\ UNCHANGED <<group_start, next_block_index, to_fetch, delivered, promised>>
      /\ UNCHANGED <<file, inner, GroupEnd, Secured, accepted>>
  BY WriterRests DEF ReadIdx
<1>3. SeenAs(seen, pos)
  BY SeenIs
<1> DEFINE walk == [group_start |-> group_start, index |-> index]
<1>4. /\ walk.group_start = group_start /\ walk.index = index /\ Reached(file, walk)
      /\ group_start < GroupEnd /\ inner_reader = IdxAt(file, group_start)
  BY <1>2 DEF ReaderOn, Builds
<1> HIDE DEF walk
<1>5. GroupEnd \in Nat /\ group_start \in Nat /\ FileType(seen) /\ Unsealed(seen, GroupEnd)
  BY <1>3, CallsTypes DEF WriterInv, GroupEnd, SeenAs, ReaderOn, ReaderTypes
<1>6. group_start <= GroupEnd
  BY <1>4, <1>5
<1>7. PICK next : next = NextGroup(file, walk)
  OBVIOUS
<1>8. /\ IsIdx(seen, inner_reader) /\ next = NextGroup(seen, walk)
      /\ IdxAt(seen, group_start) = inner_reader
      /\ Reached(file, next) /\ next.group_start <= GroupEnd
  <2>1. \/ group_start = GroupEnd
        \/ /\ ~EndOfGroups(seen, group_start) /\ ValidGroup(seen, group_start)
           /\ IdxAt(seen, group_start) = IdxAt(file, group_start)
           /\ NextGroup(seen, walk) = next
           /\ Reached(file, next)
           /\ next.group_start <= GroupEnd
    BY <1>3, <1>4, <1>6, <1>7, GroupSeen
  <2>2. group_start # GroupEnd
    BY <1>4, <1>5
  <2> QED
    BY <1>4, <2>1, <2>2 DEF ValidGroup
<1>9. /\ mode' = "beg" /\ index' = AddGroup(index, seen.members[inner_reader])
      /\ inner_reader' = inner_reader + seen.members[inner_reader].zc
  BY <1>1, <1>8
<1>10. next = [group_start |-> inner_reader', index |-> index']
  BY <1>4, <1>8, <1>9 DEF NextGroup
<1>11. next.group_start = inner_reader' /\ next.index = index'
  BY <1>10
<1>12. inner_reader' \in Nat /\ Fits(file, next)
  BY <1>8, <1>11, ReachedType
<1>13. Indexed'
  BY <1>2, <1>8, <1>11, <1>12 DEF Indexed, Fits
<1>14. /\ delivered = <<>> /\ to_fetch = 0 /\ next_block_index = 0 /\ Got' = Got
       /\ ReaderTypes /\ Bounded /\ Chain(delivered, next_block_index, Got)
  BY <1>2 DEF ReaderOn, Builds, Got
<1>15. ReaderTypes' /\ Bounded' /\ Chain(delivered, next_block_index, Got)'
  BY <1>2, <1>9, <1>12, <1>14 DEF ReaderTypes, Bounded
<1>16. Builds' /\ Reads(pos)'
  BY <1>2, <1>8, <1>9, <1>10, <1>11, <1>14 DEF Builds, Reads
<1> QED
  BY <1>13, <1>15, <1>16 DEF ReaderOn

(* A batch starts at the block that is due.                                *)
LEMMA ReaderStartBatch ==
  ASSUME WriterInv, NEW pos, OnStream(pos), ReaderOn(pos), StartBatch, UNCHANGED vars
  PROVE  ReaderOn(pos)'
<1>1. /\ mode = "read" /\ to_fetch = 0
      /\ UNCHANGED <<next_block_index, group_start, index, delivered, promised>>
      /\ UNCHANGED <<file, inner, GroupEnd, Secured, accepted>>
  BY WriterRests DEF StartBatch, place
<1>2. PICK n : n = block_count(index)
  OBVIOUS
<1>3. FileType(file) /\ Finds(file, index) /\ Last(index.compressed_offsets) <= GroupEnd
  BY CallsTypes DEF WriterInv, ReaderOn, Indexed
<1>4. /\ n \in Nat /\ Total(index) = index.uncompressed_offsets[n + 1]
      /\ \A i \in 1..n :
           LET at == index.compressed_offsets[i]
           IN /\ at \in DOMAIN file.members /\ at \in Boundaries(file, inner)
              /\ pos[at] = index.uncompressed_offsets[i]
  BY <1>2, <1>3, IndexOnStream
<1>5. /\ ReaderTypes /\ promised <= Total(index) /\ next_block_index \in Nat
      /\ next_block_index <= n /\ Got = index.uncompressed_offsets[next_block_index + 1]
  <2>1. next_block_index + to_fetch <= n /\ next_block_index \in Nat
    BY <1>1, <1>2 DEF ReaderOn, Reads, ReaderTypes
  <2> QED
    BY <1>1, <1>4, <2>1 DEF ReaderOn, Reads
<1>6. Got' = Got /\ Bounded' /\ Indexed' /\ Chain(delivered, next_block_index, Got)'
  BY <1>1 DEF ReaderOn, Bounded, Indexed, Got
<1>7. CASE AllBlocks
  <2>1. mode' = "end" /\ UNCHANGED <<inner_reader, to_fetch>>
    BY <1>7 DEF StartBatch, place
  <2>2. next_block_index = n
    BY <1>2, <1>4, <1>5, <1>7 DEF AllBlocks
  <2>3. promised <= Got
    BY <1>4, <1>5, <2>2
  <2> QED
    BY <1>1, <1>5, <1>6, <2>1, <2>3 DEF ReaderOn, ReaderTypes, Builds, Reads
<1>8. CASE ~AllBlocks
  <2> DEFINE left == n - next_block_index
             at == index.compressed_offsets[next_block_index + 1]
  <2>1. next_block_index < n /\ left \in Nat \ {0}
    BY <1>2, <1>4, <1>5, <1>8 DEF AllBlocks
  <2>2. /\ to_fetch' = IF readahead_size < left THEN readahead_size ELSE left
        /\ inner_reader' = at /\ mode' = mode
    BY <1>2, <1>8 DEF StartBatch
  <2>3. /\ to_fetch' \in 0..readahead_size /\ next_block_index + to_fetch' <= n
        /\ to_fetch' > 0
    BY <1>4, <1>5, <2>1, <2>2, ReaderConfig
  <2>4. next_block_index + 1 \in 1..n
    BY <1>4, <1>5, <2>1
  <2>5. at \in DOMAIN file.members /\ at \in Boundaries(file, inner) /\ pos[at] = Got
    BY <1>4, <1>5, <2>4
  <2>6. at \in Nat
    BY <1>3, <2>5 DEF FileType
  <2> HIDE DEF at, left
  <2>7. ReaderTypes' /\ Builds'
    BY <1>1, <1>5, <2>2, <2>3, <2>6 DEF ReaderTypes, Builds
  <2>8. inner_reader' <= at
    BY <2>2, <2>6
  <2>9. Reads(pos)'
    BY <1>1, <1>2, <1>5, <1>6, <2>2, <2>3, <2>5, <2>8 DEF Reads, at
  <2> QED
    BY <1>6, <2>7, <2>9 DEF ReaderOn
<1> QED
  BY <1>7, <1>8

(* What the reader finds at a place in the stream of the writer.           *)
LEMMA MemberSeen ==
  ASSUME WriterInv, NEW pos, OnStream(pos), NEW seen, SeenAs(seen, pos),
         NEW at \in Boundaries(file, inner)
  PROVE  IF at < inner
         THEN /\ at \in DOMAIN file.members /\ seen.members[at] = file.members[at]
              /\ RawBlock(seen, at) = [result |-> "block", type |-> file.members[at].kind]
              /\ EndOf(file, at) \in Boundaries(file, inner) /\ at < EndOf(file, at)
              /\ Carries(file, at, pos)
         ELSE at = inner /\ RawBlock(seen, at).result # "block"
<1>1. /\ FileType(seen) /\ Stream(seen, inner, pos) /\ at \in Boundaries(seen, inner)
      /\ SameBelow(file, seen, inner) /\ FileType(file) /\ Stream(file, inner, pos)
  BY CallsTypes DEF WriterInv, SeenAs, OnStream
<1>2. CASE at < inner
  <2>1. /\ at \in DOMAIN file.members
        /\ EndOf(file, at) \in Boundaries(file, inner) /\ at < EndOf(file, at)
        /\ Carries(file, at, pos)
    BY <1>1, <1>2, RawWhole
  <2>2. seen.members[at] = file.members[at]
    BY <1>1, <1>2, <2>1 DEF SameBelow
  <2>3. RawBlock(seen, at) = [result |-> "block", type |-> seen.members[at].kind]
    BY <1>1, <1>2, RawWhole
  <2> QED
    BY <1>2, <2>1, <2>2, <2>3
<1>3. CASE ~(at < inner)
  <2>1. at = inner
    BY <1>3 DEF Boundaries
  <2> QED
    BY <1>1, <1>3, <2>1, RawAtTip
<1> QED
  BY <1>2, <1>3

(* The stream up to any place is accepted, and what is up to the cursor    *)
(* has all that is secured.                                                *)
LEMMA StreamAccepted ==
  ASSUME WriterInv, NEW pos, OnStream(pos), NEW at \in Boundaries(file, inner)
  PROVE  pos[at] \in Nat /\ pos[at] <= accepted /\ Secured <= pos[inner]
<1>1. /\ Stream(file, inner, pos) /\ pos \in [Nat -> Nat] /\ inner \in Nat
      /\ inner \in Boundaries(file, inner) /\ FileType(file)
      /\ GroupEnd \in Boundaries(file, inner) /\ pos[GroupEnd] = Secured /\ pos[inner] = Written
  BY CallsTypes DEF WriterInv, OnStream, Stream, Boundaries
<1>2. ASSUME NEW b \in Boundaries(file, inner)
      PROVE  pos[b] \in Nat /\ pos[b] <= pos[inner]
  <2>1. b \in Nat /\ (b = inner \/ b < inner)
    BY <1>1 DEF Boundaries, FileType
  <2>2. CASE b = inner
    BY <1>1, <2>2
  <2>3. CASE b < inner
    BY <1>1, <2>1, <2>3 DEF Stream
  <2> QED
    BY <2>1, <2>2, <2>3
<1>3. Written \in Nat /\ Written <= accepted /\ accepted \in Nat
  BY WrittenAccepted, CallsTypes DEF WriterInv
<1> QED
  BY <1>1, <1>2, <1>3

(* The next member on the file is what comes next in the stream: a block   *)
(* that goes on where the last one ended, or an IDX member.                *)
LEMMA ReaderTakes ==
  ASSUME WriterInv, NEW pos, OnStream(pos), ReaderOn(pos), NEW seen, SeenAs(seen, pos),
         inner_reader \in Boundaries(file, inner), pos[inner_reader] = Got,
         ReadRawBlock(seen), UNCHANGED vars
  PROVE  /\ inner_reader < inner /\ inner_reader \in DOMAIN file.members
         /\ inner_reader' = EndOf(file, inner_reader) /\ inner_reader < inner_reader'
         /\ inner_reader' \in Boundaries(file, inner) /\ pos[inner_reader'] = Got'
         /\ Chain(delivered, next_block_index, Got)' /\ Got' <= accepted
         /\ next_block_index' \in Nat
         /\ IF file.members[inner_reader].kind = "idx"
            THEN Got' = Got /\ UNCHANGED <<next_block_index, to_fetch>>
            ELSE /\ Got < Got' /\ next_block_index' = next_block_index + 1
                 /\ to_fetch' = IF mode = "read" THEN to_fetch - 1 ELSE to_fetch
<1>1. PICK m : m = file.members[inner_reader]
  OBVIOUS
<1>2. /\ inner_reader < inner /\ inner_reader \in DOMAIN file.members
      /\ seen.members[inner_reader] = m
      /\ RawBlock(seen, inner_reader) = [result |-> "block", type |-> m.kind]
      /\ EndOf(file, inner_reader) \in Boundaries(file, inner)
      /\ inner_reader < EndOf(file, inner_reader)
      /\ Carries(file, inner_reader, pos)
  <2>1. RawBlock(seen, inner_reader).result = "block"
    BY DEF ReadRawBlock
  <2> QED
    BY <1>1, <2>1, MemberSeen
<1>3. PICK end : end = EndOf(file, inner_reader) /\ end = inner_reader + m.zc
  BY <1>1 DEF EndOf
<1>4. end \in Boundaries(file, inner) /\ pos[end] \in Nat /\ pos[end] <= accepted
  BY <1>2, <1>3, StreamAccepted
<1>5. /\ inner_reader' = end
      /\ next_block_index' = IF m.kind # "idx" THEN next_block_index + 1 ELSE next_block_index
      /\ delivered' = IF m.kind # "idx"
                      THEN Append(delivered, [block_index |-> next_block_index,
                                              from |-> m.from, to |-> m.to])
                      ELSE delivered
      /\ to_fetch' = IF mode = "read" /\ m.kind # "idx" THEN to_fetch - 1 ELSE to_fetch
  BY <1>2, <1>3 DEF ReadRawBlock, BehindMember, IsBlock
<1>6. Chain(delivered, next_block_index, Got) /\ next_block_index \in Nat
  BY DEF ReaderOn, ReaderTypes
<1>7. CASE m.kind = "idx"
  <2>1. delivered' = delivered /\ UNCHANGED <<next_block_index, to_fetch>>
    BY <1>5, <1>7
  <2>2. Got' = Got
    BY <2>1 DEF Got
  <2>3. pos[end] = Got
    BY <1>1, <1>2, <1>3, <1>7 DEF Carries
  <2> QED
    BY <1>1, <1>2, <1>3, <1>4, <1>5, <1>6, <1>7, <2>1, <2>2, <2>3
<1>8. CASE m.kind # "idx"
  <2>1. m.from = Got /\ m.to = pos[end] /\ m.from < m.to
    BY <1>1, <1>2, <1>3, <1>8 DEF Carries
  <2>2. PICK p : p = next_block_index + 1
    OBVIOUS
  <2>3. PICK new : new = delivered' /\ new = Append(delivered,
          [block_index |-> next_block_index, from |-> Got, to |-> pos[end]])
    BY <1>5, <1>8, <2>1
  <2>4. Chain(new, p, pos[end])
    BY <1>4, <1>6, <2>2, <2>3, ChainAppend
  <2>5. Got' = pos[end]
    BY <2>3, <2>4 DEF Got, Chain
  <2>6. next_block_index' = p /\ p \in Nat
    BY <1>5, <1>6, <1>8, <2>2
  <2> QED
    BY <1>1, <1>2, <1>3, <1>4, <1>5, <1>8, <2>1, <2>2, <2>3, <2>4, <2>5, <2>6
<1> QED
  BY <1>7, <1>8

(* The next raw member, or none.                                           *)
LEMMA ReaderTakeRaw ==
  ASSUME WriterInv, NEW pos, OnStream(pos), ReaderOn(pos), TakeRaw, UNCHANGED vars
  PROVE  ReaderOn(pos)'
<1>1. PICK seen \in Seen :
        \/ ReadRawBlock(seen)
        \/ /\ RawBlock(seen, inner_reader).result # "block"
           /\ mode' = IF RawBlock(seen, inner_reader).result = "none" THEN "end" ELSE "torn"
           /\ UNCHANGED <<place, delivered>>
  BY DEF TakeRaw
<1>2. /\ mode = "raw" /\ UNCHANGED <<group_start, index, promised>>
      /\ UNCHANGED <<file, inner, GroupEnd, Secured, accepted>>
  BY WriterRests DEF TakeRaw
<1>3. SeenAs(seen, pos)
  BY SeenIs
<1>4. /\ inner_reader \in Boundaries(file, inner) /\ pos[inner_reader] = Got
      /\ ReaderTypes /\ Bounded /\ Indexed /\ Chain(delivered, next_block_index, Got)
  BY <1>2 DEF ReaderOn, Reads
<1>5. Indexed'
  BY <1>2, <1>4 DEF Indexed
<1>6. CASE ReadRawBlock(seen)
  <2>1. /\ inner_reader' \in Boundaries(file, inner) /\ pos[inner_reader'] = Got'
        /\ Chain(delivered, next_block_index, Got)' /\ Got' <= accepted
        /\ next_block_index' \in Nat
    BY <1>3, <1>4, <1>6, ReaderTakes
  <2>2. mode' = "raw" /\ to_fetch' = to_fetch
    BY <1>2, <1>6 DEF ReadRawBlock
  <2>3. inner_reader' \in Nat
    <3>1. FileType(file) /\ inner \in Nat
      BY CallsTypes DEF WriterInv
    <3> QED
      BY <2>1, <3>1 DEF Boundaries, FileType
  <2>4. ReaderTypes' /\ Bounded' /\ Builds'
    BY <1>2, <1>4, <2>1, <2>2, <2>3 DEF ReaderTypes, Bounded, Builds
  <2>5. Reads(pos)'
    BY <1>2, <2>1, <2>2 DEF Reads
  <2> QED
    BY <1>5, <2>1, <2>4, <2>5 DEF ReaderOn
<1>7. CASE /\ RawBlock(seen, inner_reader).result # "block"
           /\ mode' = IF RawBlock(seen, inner_reader).result = "none" THEN "end" ELSE "torn"
           /\ UNCHANGED <<place, delivered>>
  <2>1. mode' \in {"end", "torn"} /\ UNCHANGED <<inner_reader, next_block_index, to_fetch, delivered>>
    BY <1>7 DEF place
  <2>2. inner_reader = inner
    BY <1>3, <1>4, <1>7, MemberSeen
  <2>3. Got' = Got /\ Secured <= Got /\ Got \in Nat
    BY <1>4, <2>1, <2>2, StreamAccepted DEF Got
  <2>4. promised \in Nat /\ promised <= Secured /\ Secured \in Nat
    BY <1>4, WrittenAccepted DEF WriterInv, ReaderTypes, Bounded
  <2>5. promised <= Got
    BY <2>3, <2>4
  <2>6. ReaderTypes' /\ Bounded' /\ Builds' /\ Chain(delivered, next_block_index, Got)'
    BY <1>2, <1>4, <2>1, <2>3 DEF ReaderTypes, Bounded, Builds
  <2>7. Reads(pos)'
    BY <1>2, <2>1, <2>3, <2>5 DEF Reads
  <2> QED
    BY <1>5, <2>6, <2>7 DEF ReaderOn
<1> QED
  BY <1>1, <1>6, <1>7

(* The blocks that the index lists are on the file, in this order, with    *)
(* nothing but IDX members between them.                                   *)
LEMMA ReaderFetch ==
  ASSUME WriterInv, NEW pos, OnStream(pos), ReaderOn(pos), Fetch, UNCHANGED vars
  PROVE  ReaderOn(pos)'
<1>1. PICK seen \in Seen :
        \/ ReadRawBlock(seen)
        \/ RawBlock(seen, inner_reader).result # "block"
  BY DEF Fetch
<1>2. /\ mode = "read" /\ to_fetch > 0 /\ UNCHANGED <<group_start, index, promised>>
      /\ UNCHANGED <<file, inner, GroupEnd, Secured, accepted>>
  BY WriterRests DEF Fetch
<1>3. /\ SeenAs(seen, pos) /\ FileType(file) /\ Stream(file, inner, pos)
      /\ inner \in Nat /\ pos \in [Nat -> Nat]
  BY SeenIs, CallsTypes DEF WriterInv, OnStream, Stream
<1>4. PICK n : n = block_count(index)
  OBVIOUS
<1>5. /\ ReaderTypes /\ Bounded /\ Indexed
      /\ promised <= Total(index) /\ next_block_index + to_fetch <= n
      /\ Got = index.uncompressed_offsets[next_block_index + 1]
      /\ inner_reader \in Boundaries(file, inner) /\ pos[inner_reader] = Got
      /\ inner_reader <= index.compressed_offsets[next_block_index + 1]
  BY <1>2, <1>4 DEF ReaderOn, Reads
<1>6. /\ n \in Nat
      /\ \A j \in 1..n :
           LET at == index.compressed_offsets[j]
           IN /\ at \in DOMAIN file.members /\ at \in Boundaries(file, inner) /\ at < inner
              /\ file.members[at].kind \in {"beg", "dat"}
              /\ pos[at] = index.uncompressed_offsets[j]
              /\ pos[EndOf(file, at)] = index.uncompressed_offsets[j + 1]
      /\ \A j \in 1 .. n - 1 : index.compressed_offsets[j] < index.compressed_offsets[j + 1]
  <2>1. Finds(file, index) /\ Last(index.compressed_offsets) <= GroupEnd
    BY <1>5 DEF Indexed
  <2> QED
    BY <1>3, <1>4, <2>1, IndexOnStream
<1>7. PICK i \in 1..n : i = next_block_index + 1
  <2>1. next_block_index \in Nat /\ to_fetch \in Nat
    BY <1>5, ReaderConfig DEF ReaderTypes
  <2> QED
    BY <1>2, <1>5, <1>6, <2>1
<1>8. PICK at : at = index.compressed_offsets[i]
  OBVIOUS
<1>9. /\ at \in DOMAIN file.members /\ at \in Boundaries(file, inner) /\ at < inner
      /\ file.members[at].kind \in {"beg", "dat"} /\ at \in Nat
      /\ pos[at] = Got /\ pos[EndOf(file, at)] = index.uncompressed_offsets[i + 1]
      /\ inner_reader <= at
  BY <1>3, <1>5, <1>6, <1>7, <1>8 DEF FileType
<1>10. inner_reader \in Nat /\ inner_reader < inner
  BY <1>3, <1>5, <1>9 DEF ReaderTypes
<1>11. ReadRawBlock(seen)
  <2>1. RawBlock(seen, inner_reader).result = "block"
    BY <1>3, <1>5, <1>10, MemberSeen
  <2> QED
    BY <1>1, <2>1
<1>12. PICK end : end = EndOf(file, inner_reader)
  OBVIOUS
<1>13. /\ inner_reader \in DOMAIN file.members
       /\ inner_reader' = end /\ inner_reader < end
       /\ end \in Boundaries(file, inner) /\ pos[end] = Got'
       /\ Chain(delivered, next_block_index, Got)' /\ Got' <= accepted
       /\ next_block_index' \in Nat
       /\ IF file.members[inner_reader].kind = "idx"
          THEN Got' = Got /\ UNCHANGED <<next_block_index, to_fetch>>
          ELSE /\ Got < Got' /\ next_block_index' = next_block_index + 1
               /\ to_fetch' = to_fetch - 1
  BY <1>2, <1>3, <1>5, <1>11, <1>12, ReaderTakes
<1>14. end \in Nat /\ Got \in Nat /\ Got' \in Nat /\ mode' = "read"
  <2>1. end \in Nat
    BY <1>3, <1>13 DEF Boundaries, FileType
  <2> QED
    BY <1>2, <1>3, <1>9, <1>11, <1>13, <2>1 DEF ReadRawBlock
<1>15. inner_reader # at => end <= at
  BY <1>3, <1>5, <1>9, <1>10, <1>12 DEF Stream
<1>16. Bounded' /\ Indexed'
  BY <1>2, <1>5, <1>13 DEF Bounded, Indexed
<1>17. ASSUME file.members[inner_reader].kind = "idx"
       PROVE  ReaderTypes' /\ Builds' /\ Reads(pos)'
  <2>1. Got' = Got /\ UNCHANGED <<next_block_index, to_fetch>>
    BY <1>13, <1>17
  <2>2. end <= at
    BY <1>9, <1>15, <1>17
  <2>3. ReaderTypes' /\ Builds'
    BY <1>2, <1>5, <1>13, <1>14, <2>1 DEF ReaderTypes, Builds
  <2> QED
    BY <1>2, <1>4, <1>5, <1>7, <1>8, <1>13, <1>14, <2>1, <2>2, <2>3 DEF Reads
<1>18. ASSUME file.members[inner_reader].kind # "idx"
       PROVE  ReaderTypes' /\ Builds' /\ Reads(pos)'
  <2>1. Got < Got' /\ next_block_index' = next_block_index + 1 /\ to_fetch' = to_fetch - 1
    BY <1>13, <1>18
  <2>2. inner_reader = at
    <3>1. SUFFICES ASSUME inner_reader # at PROVE FALSE
      OBVIOUS
    <3>2. end <= at
      BY <1>15, <3>1
    <3>3. pos[end] <= pos[at]
      <4>1. CASE end = at
        BY <1>3, <1>9, <4>1
      <4>2. CASE end # at
        <5>1. end < at
          BY <1>9, <1>14, <3>2, <4>2
        <5> QED
          BY <1>3, <1>9, <1>13, <5>1 DEF Stream
      <4> QED
        BY <4>1, <4>2
    <3> QED
      BY <1>9, <1>13, <1>14, <2>1, <3>3
  <2>3. Got' = index.uncompressed_offsets[i + 1]
    BY <1>9, <1>12, <1>13, <2>2
  <2>4. to_fetch \in Nat /\ to_fetch <= readahead_size /\ next_block_index \in Nat
    BY <1>5, ReaderConfig DEF ReaderTypes
  <2>5. /\ to_fetch' \in 0..readahead_size /\ next_block_index' + to_fetch' <= n
        /\ next_block_index' = i
    BY <1>2, <1>5, <1>6, <1>7, <2>1, <2>4, ReaderConfig
  <2>6. ReaderTypes' /\ Builds'
    BY <1>2, <1>5, <1>13, <1>14, <2>5 DEF ReaderTypes, Builds
  <2>7. to_fetch' > 0 => end <= index.compressed_offsets[i + 1]
    <3>1. SUFFICES ASSUME to_fetch' > 0 PROVE end <= index.compressed_offsets[i + 1]
      OBVIOUS
    <3>2. i \in 1 .. n - 1 /\ i + 1 \in 1..n
      <4>1. PICK k \in Nat : k = to_fetch'
        BY <2>5, ReaderConfig
      <4>2. k > 0 /\ i + k <= n
        BY <2>5, <3>1, <4>1
      <4>3. n \in Nat
        BY <1>6
      <4> QED
        BY <1>7, <4>1, <4>2, <4>3
    <3>3. PICK next : next = index.compressed_offsets[i + 1]
      OBVIOUS
    <3>4. next \in Boundaries(file, inner) /\ at < next
      BY <1>6, <1>8, <3>2, <3>3
    <3>5. EndOf(file, at) <= next
      BY <1>3, <1>9, <3>4 DEF Stream
    <3> QED
      BY <1>12, <2>2, <3>3, <3>5
  <2>8. Reads(pos)'
    BY <1>2, <1>4, <1>5, <1>13, <1>14, <2>3, <2>5, <2>7 DEF Reads
  <2> QED
    BY <2>6, <2>8
<1> QED
  BY <1>13, <1>16, <1>17, <1>18 DEF ReaderOn

(* What the reader has is not disturbed by what the writer does.           *)
LEMMA ReaderRests ==
  ASSUME WriterInv, WriterInv', NEW pos, OnStream(pos), ReaderOn(pos), UNCHANGED reader,
         NEW q, OnStream(q)', CarriesOn(pos, q), Grows
  PROVE  ReaderOn(q)'
<1>1. /\ UNCHANGED <<mode, inner_reader, group_start, index, next_block_index, to_fetch,
                     delivered, promised>>
      /\ Got' = Got
  BY DEF reader, place, Got
<1>2. /\ FileType(file) /\ FileType(file') /\ GroupEnd \in Nat /\ GroupEnd' \in Nat
      /\ GroupEnd <= GroupEnd'
  <2>1. FileType(file') /\ inner' \in Nat /\ group_start_offset' \in Nat
    BY DEF WriterInv, CallsInv, Types, FileTypes
  <2> QED
    BY <2>1, CallsTypes DEF WriterInv, GroupEnd, Grows
<1>3. /\ Secured \in Nat /\ Secured' \in Nat /\ accepted \in Nat /\ accepted' \in Nat
      /\ Secured <= Secured' /\ accepted <= accepted'
  <2>1. Secured \in Nat /\ accepted \in Nat
    BY WrittenAccepted, CallsTypes DEF WriterInv
  <2> QED
    BY <2>1, SecuredIsNat DEF Grows, WriterInv
<1>4. ReaderTypes' /\ Chain(delivered, next_block_index, Got)'
  BY <1>1 DEF ReaderOn, ReaderTypes
<1>5. Bounded'
  <2>1. promised \in Nat /\ promised <= Secured
    BY DEF ReaderOn, ReaderTypes, Bounded
  <2>2. Got \in Nat /\ Got <= accepted
    BY DEF ReaderOn, Bounded, Chain
  <2>3. promised <= Secured' /\ Got <= accepted'
    BY <1>3, <2>1, <2>2
  <2> QED
    BY <1>1, <2>3 DEF Bounded
<1>6. Indexed'
  <2>1. Finds(file, index) /\ Last(index.compressed_offsets) <= GroupEnd
    BY DEF ReaderOn, Indexed
  <2>2. Last(index.compressed_offsets) \in Nat
    BY <2>1, IndexFields, OffsetsProperties DEF Finds
  <2>3. Last(index.compressed_offsets) <= GroupEnd'
    BY <1>2, <2>1, <2>2
  <2>4. Finds(file', index)
    BY <1>2, <2>1, FindsBelow DEF Grows
  <2> QED
    BY <1>1, <2>3, <2>4 DEF Indexed
<1>7. Builds'
  <2>1. ASSUME NEW walk, Reached(file, walk), walk.group_start <= GroupEnd
        PROVE  /\ Reached(file', walk) /\ walk.group_start \in Nat
               /\ SameBelow(file, file', GroupEnd)
    <3>1. walk.group_start \in Nat
      BY <2>1, ReachedType
    <3>2. SameBelow(file, file', walk.group_start)
      BY <1>2, <2>1, <3>1 DEF Grows, SameBelow, FileType
    <3> QED
      BY <1>2, <2>1, <3>1, <3>2, ReachedBelow DEF Grows
  <2>2. ASSUME mode = "beg"
        PROVE  /\ Reached(file', [group_start |-> inner_reader, index |-> index])
               /\ inner_reader <= GroupEnd'
    <3> DEFINE walk == [group_start |-> inner_reader, index |-> index]
    <3>1. walk.group_start = inner_reader /\ Reached(file, walk) /\ inner_reader <= GroupEnd
      BY <2>2 DEF ReaderOn, Builds
    <3> HIDE DEF walk
    <3>2. Reached(file', walk) /\ inner_reader \in Nat
      BY <2>1, <3>1
    <3>3. inner_reader <= GroupEnd'
      BY <1>2, <3>1, <3>2
    <3> QED
      BY <3>2, <3>3 DEF walk
  <2>3. ASSUME mode = "idx"
        PROVE  /\ Reached(file', [group_start |-> group_start, index |-> index])
               /\ group_start < GroupEnd' /\ inner_reader = IdxAt(file', group_start)
    <3> DEFINE walk == [group_start |-> group_start, index |-> index]
    <3>1. /\ walk.group_start = group_start /\ Reached(file, walk) /\ group_start < GroupEnd
          /\ inner_reader = IdxAt(file, group_start) /\ group_start \in Nat
      BY <2>3 DEF ReaderOn, Builds, ReaderTypes
    <3> HIDE DEF walk
    <3>2. group_start <= GroupEnd /\ group_start < GroupEnd' /\ group_start # GroupEnd
      BY <1>2, <3>1
    <3>3. Reached(file', walk)
      BY <2>1, <3>1, <3>2
    <3>4. IdxAt(file', group_start) = IdxAt(file, group_start)
      <4>1. group_start \in DOMAIN file.members
        <5>1. SeenAs(file, pos)
          BY AsItIs
        <5>2. ValidGroup(file, group_start)
          BY <3>1, <3>2, <5>1, GroupSeen
        <5> QED
          BY <5>2 DEF ValidGroup, StartsGroup
      <4> QED
        BY <3>1, <4>1 DEF IdxAt, Grows, SameBelow
    <3> QED
      BY <3>1, <3>2, <3>3, <3>4 DEF walk
  <2> QED
    BY <1>1, <2>2, <2>3 DEF ReaderOn, Builds
<1>8. Reads(q)'
  <2>1. inner_reader \in Boundaries(file, inner) =>
          inner_reader \in Boundaries(file', inner') /\ q[inner_reader] = pos[inner_reader]
    BY DEF CarriesOn
  <2> QED
    BY <1>1, <2>1 DEF ReaderOn, Reads
<1> QED
  BY <1>4, <1>5, <1>6, <1>7, <1>8 DEF ReaderOn

-----------------------------------------------------------------------------
(* Reader and writer together.                                             *)

(* The inductive invariant: that of the writer, and a stream on its file   *)
(* on which the reader is.                                                 *)
PgzfInv == WriterInv /\ \E pos : OnStream(pos) /\ ReaderOn(pos)

(* A step of the two is one of the writer, or none of it.                  *)
LEMMA WriterStep ==
  ASSUME [PgzfNext]_<<vars, reader>>
  PROVE  [Next]_vars
BY DEF PgzfNext

(* The writer does not notice the reader.                                  *)
LEMMA WriterAlone == PgzfSpec => Spec
<1>1. PgzfInit => Init
  BY DEF PgzfInit
<1>2. [PgzfNext]_<<vars, reader>> => [Next]_vars
  BY WriterStep
<1> QED
  BY <1>1, <1>2, PTL DEF PgzfSpec, Spec

(* There is a stream at first.                                             *)
LEMMA PgzfStarts ==
  ASSUME PgzfInit
  PROVE  PgzfInv
<1>1. Init
  BY DEF PgzfInit
<1>2. WriterInv
  BY <1>1, CallsInit, FileInit, IndexInit DEF WriterInv
<1>3. PICK pos : OnStream(pos)
  BY <1>1, OnStreamInit
<1>4. ReaderOn(pos)
  BY ReaderInit
<1> QED
  BY <1>2, <1>3, <1>4 DEF PgzfInv

(* And after every step of either of them.                                 *)
LEMMA PgzfGoesOn ==
  ASSUME GroupsFit, PgzfInv, WriterInv', [PgzfNext]_<<vars, reader>>
  PROVE  \E q : OnStream(q)' /\ ReaderOn(q)'
<1>1. WriterInv
  BY DEF PgzfInv
<1>2. PICK pos : OnStream(pos) /\ ReaderOn(pos)
  BY DEF PgzfInv
<1>3. CASE UNCHANGED reader
  <2>1. [Next]_vars
    BY WriterStep
  <2>2. PICK q : OnStream(q)' /\ CarriesOn(pos, q)
    BY <1>1, <1>2, <2>1, OnStreamNext
  <2>3. Grows
    BY <1>1, <1>2, <2>1, OnStreamNext, SecuredGrows DEF Grows
  <2>4. ReaderOn(q)'
    BY <1>1, <1>2, <1>3, <2>2, <2>3, ReaderRests
  <2> QED
    BY <2>2, <2>4
<1>4. CASE ReaderStep /\ UNCHANGED vars
  <2>1. ReaderOn(pos)'
    BY <1>1, <1>2, <1>4, ReaderOpen, ReaderReadBeg, ReaderReadIdx, ReaderStartBatch, ReaderFetch,
       ReaderTakeRaw DEF ReaderStep
  <2>2. Written' = Written
    BY <1>4 DEF Written, Secured, vars, buffers, flush, control
  <2>3. OnStream(pos)'
    BY <1>2, <1>4, <2>2, WriterRests, OnStreamKept
  <2> QED
    BY <2>1, <2>3
<1> QED
  BY <1>3, <1>4 DEF PgzfNext

(* PgzfInv is an invariant where the IDX header has room.                  *)
LEMMA PgzfInvariant ==
  ASSUME GroupsFit
  PROVE  PgzfSpec => []PgzfInv
<1>1. PgzfInit => PgzfInv
  BY PgzfStarts
<1>2. PgzfInv /\ WriterInv' /\ [PgzfNext]_<<vars, reader>> => PgzfInv'
  BY PgzfGoesOn DEF PgzfInv
<1>3. PgzfSpec => []WriterInv
  BY WriterAlone, WriterInvariant
<1> QED
  BY <1>1, <1>2, <1>3, PTL DEF PgzfSpec

-----------------------------------------------------------------------------
(* What this says of the properties.                                       *)

(* The types.                                                              *)
LEMMA ReaderTyped ==
  ASSUME PgzfInv
  PROVE  PgzfTypeOK
<1>1. PICK pos : OnStream(pos) /\ ReaderOn(pos)
  BY DEF PgzfInv
<1>2. TypeOK
  BY CallsInOrder DEF PgzfInv, WriterInv
<1> QED
  BY <1>1, <1>2 DEF PgzfTypeOK, ReaderOn, ReaderTypes

(* The blocks of a chain are a prefix of the input.                        *)
LEMMA ReaderChained ==
  ASSUME PgzfInv
  PROVE  ReaderSeesPrefix
<1>1. PICK pos : OnStream(pos) /\ ReaderOn(pos)
  BY DEF PgzfInv
<1>2. Chain(delivered, next_block_index, Got) /\ Got <= accepted
  BY <1>1 DEF ReaderOn, Bounded
<1>3. DOMAIN delivered = 1..next_block_index
  BY <1>2, LenProperties DEF Chain
<1> QED
  BY <1>2, <1>3 DEF ReaderSeesPrefix, Chain

(* The reader has not failed, and what was promised is there at the end.   *)
LEMMA ReaderKeeps ==
  ASSUME PgzfInv
  PROVE  OpenReaderNeverFails /\ PromisesKept
<1>1. PICK pos : OnStream(pos) /\ ReaderOn(pos)
  BY DEF PgzfInv
<1>2. mode # "failed"
  BY <1>1 DEF ReaderOn, ReaderTypes
<1>3. mode \in {"refused", "torn", "end"} => promised <= Got
  BY <1>1 DEF ReaderOn, Reads
<1>4. promised \in Nat /\ Got \in Nat
  BY <1>1 DEF ReaderOn, ReaderTypes, Chain
<1> QED
  BY <1>2, <1>3, <1>4 DEF OpenReaderNeverFails, PromisesKept

(* The members in front of an offset.                                      *)
Before(f, offset) == {at \in DOMAIN f.members : at < offset}

(* There are finitely many, none in front of the first, and more in front  *)
(* of an offset that a member is in front of.                              *)
LEMMA BeforeCounts ==
  ASSUME NEW f, FileType(f), NEW a \in Nat, NEW b \in Nat
  PROVE  /\ Cardinality(Before(f, a)) \in Nat
         /\ Cardinality(Before(f, 0)) = 0
         /\ a \in DOMAIN f.members /\ a < b =>
              Cardinality(Before(f, a)) < Cardinality(Before(f, b))
<1>1. DOMAIN f.members \subseteq Nat
  BY DEF FileType
<1>2. ASSUME NEW x \in Nat
      PROVE  IsFiniteSet(Before(f, x)) /\ Cardinality(Before(f, x)) \in Nat
  <2>1. Before(f, x) \in SUBSET Nat /\ \A at \in Before(f, x) : at <= x
    BY <1>1 DEF Before
  <2>2. IsFiniteSet(Before(f, x))
    BY <2>1, FS_BoundedSetOfNaturals
  <2> QED
    BY <2>2, FS_CardinalityType
<1>3. Before(f, 0) = {}
  BY <1>1 DEF Before
<1>4. ASSUME a \in DOMAIN f.members, a < b
      PROVE  Cardinality(Before(f, a)) < Cardinality(Before(f, b))
  <2>1. Before(f, a) \subseteq Before(f, b) /\ a \in Before(f, b) /\ a \notin Before(f, a)
    BY <1>1, <1>4 DEF Before
  <2>2. /\ Cardinality(Before(f, a)) <= Cardinality(Before(f, b))
        /\ Cardinality(Before(f, b)) # Cardinality(Before(f, a))
    BY <1>2, <2>1, FS_Subset
  <2>3. PICK m \in Nat, n \in Nat :
          m = Cardinality(Before(f, a)) /\ n = Cardinality(Before(f, b))
    BY <1>2
  <2>4. m <= n /\ m # n
    BY <2>2, <2>3
  <2> QED
    BY <2>3, <2>4
<1> QED
  BY <1>2, <1>3, <1>4, FS_EmptySet

(* The blocks found are on the file one behind the other.                  *)
LEMMA ReaderIndexed ==
  ASSUME PgzfInv
  PROVE  IndexIsWellFormed
<1>1. PICK pos : OnStream(pos) /\ ReaderOn(pos)
  BY DEF PgzfInv
<1>2. Finds(file, index) /\ FileType(file)
  BY <1>1, CallsTypes DEF ReaderOn, Indexed, PgzfInv, WriterInv
<1>3. PICK cs : cs = index.compressed_offsets
  OBVIOUS
<1>4. PICK us : us = index.uncompressed_offsets
  OBVIOUS
<1>5. /\ cs \in Seq(Nat) /\ us \in Seq(Nat) /\ Len(us) = Len(cs) /\ Len(cs) \in Nat \ {0}
      /\ cs[1] = 0 /\ us[1] = 0 /\ Increases(cs) /\ Increases(us)
      /\ \A i \in 1..block_count(index) : cs[i] \in DOMAIN file.members
  BY <1>2, <1>3, <1>4, IndexFields, OffsetsProperties DEF Finds, BlockFound
<1>6. PICK n \in Nat : n = block_count(index) /\ Len(cs) = n + 1 /\ Len(us) = n + 1
  <2>1. Len(cs) \in Nat \ {0} /\ Len(us) = Len(cs)
    BY <1>5
  <2>2. Len(cs) - 1 \in Nat /\ Len(cs) = (Len(cs) - 1) + 1
    BY <2>1
  <2>3. block_count(index) = Len(cs) - 1
    BY <1>3 DEF block_count
  <2> QED
    BY <2>1, <2>2, <2>3
<1> DEFINE u == [b \in 0..n |-> us[b + 1]]
           c == [b \in 0..n |-> Cardinality(Before(file, cs[b + 1]))]
<1>7. \A b \in 0..n : /\ b + 1 \in 1..Len(cs) /\ us[b + 1] \in Nat /\ cs[b + 1] \in Nat
                     /\ Cardinality(Before(file, cs[b + 1])) \in Nat
  <2>1. \A b \in 0..n : b + 1 \in 1..Len(cs) /\ b + 1 \in 1..Len(us)
    BY <1>5, <1>6
  <2>2. \A b \in 0..n : us[b + 1] \in Nat /\ cs[b + 1] \in Nat
    BY <1>5, <2>1, ElementOfSeq
  <2> QED
    BY <1>2, <2>1, <2>2, BeforeCounts
<1>8. u \in [0..n -> Nat] /\ c \in [0..n -> Nat]
  BY <1>7
<1>9. u[0] = 0 /\ c[0] = 0
  <2>1. 0 \in 0..n /\ 0 + 1 = 1
    BY <1>6
  <2>2. Cardinality(Before(file, 0)) = 0
    BY <1>2, BeforeCounts
  <2> QED
    BY <1>5, <2>1, <2>2
<1>10. ASSUME NEW i \in 0..n, NEW j \in 0..n, i < j
       PROVE  u[i] < u[j] /\ c[i] < c[j]
  <2>1. /\ i + 1 \in 1..Len(cs) /\ j + 1 \in 1..Len(cs) /\ i + 1 < j + 1 /\ i + 1 \in 1..n
        /\ j + 1 \in 1..Len(us) /\ i + 1 \in 1..Len(us)
    BY <1>6, <1>10
  <2>2. us[i + 1] < us[j + 1] /\ cs[i + 1] < cs[j + 1]
    BY <1>5, <2>1 DEF Increases
  <2>3. cs[i + 1] \in DOMAIN file.members /\ cs[i + 1] \in Nat /\ cs[j + 1] \in Nat
    BY <1>5, <1>6, <1>7, <2>1
  <2>4. Cardinality(Before(file, cs[i + 1])) < Cardinality(Before(file, cs[j + 1]))
    BY <1>2, <2>2, <2>3, BeforeCounts
  <2> QED
    BY <2>2, <2>4
<1> HIDE DEF u, c
<1>11. WellFormed(n, u, c)
  BY <1>8, <1>9, <1>10 DEF WellFormed
<1> QED
  BY <1>3, <1>4, <1>6, <1>11 DEF IndexIsWellFormed, u, c, Before

(* Reader and writer are in the states they should be in.                  *)
THEOREM ReaderTypeOK ==
  ASSUME GroupsFit
  PROVE  PgzfSpec => []PgzfTypeOK
BY PgzfInvariant, ReaderTyped, PTL

(* Whenever it was opened, and whatever a writer does, fails or crashes in *)
(* the meantime, the reader gets the input from its first byte on, block   *)
(* by block, and nothing that was never written.                           *)
THEOREM ReaderPrefix ==
  ASSUME GroupsFit
  PROVE  PgzfSpec => []ReaderSeesPrefix
BY PgzfInvariant, ReaderChained, PTL

(* And neither PgzfIndex::build nor reading by the index fails.            *)
THEOREM ReaderNeverFails ==
  ASSUME GroupsFit
  PROVE  PgzfSpec => []OpenReaderNeverFails
BY PgzfInvariant, ReaderKeeps, PTL

(* It does not come to an end, or to a torn member, before it has all that *)
(* was secured when it was opened - all of the input after finish().       *)
THEOREM ReaderPromisesKept ==
  ASSUME GroupsFit
  PROVE  PgzfSpec => []PromisesKept
BY PgzfInvariant, ReaderKeeps, PTL

(* The index is, at any time while it is built too, what the reader        *)
(* assumes of its arrays.                                                  *)
THEOREM ReaderIndexWellFormed ==
  ASSUME GroupsFit
  PROVE  PgzfSpec => []IndexIsWellFormed
BY PgzfInvariant, ReaderIndexed, PTL
=============================================================================
