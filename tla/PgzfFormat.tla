----------------------------- MODULE PgzfFormat -----------------------------
(***************************************************************************)
(* The layout of a PGZF file (constants.rs, format.rs), as the writer      *)
(* lays it down and PgzfIndex::build reads it back.                        *)
(*                                                                         *)
(* A file is the gzip members in it by offset, and its length, which cuts  *)
(* the last member short when its write was interrupted.  A data member    *)
(* stands for the interval from .. to of the stream that it decompresses   *)
(* to; only an IDX member has entries.                                     *)
(***************************************************************************)
EXTENDS RunningTotals

CONSTANT U16Space  \* number of u16 values: 2^16, or less to meet the wrap in a small file

ASSUME U16SpacePositive == U16Space \in Nat \ {0}

GZIP_FIXED_HEADER_SIZE == 10
BEG_HEADER_SIZE == 32
DAT_HEADER_SIZE == 20
IDX_HEADER_BASE_SIZE == 24
PGZF_TAIL_SIZE == 8
GC_VALUE_OFFSET == 24
EntrySize == 8
XlenBase == 12  \* the ZC subfield and the header of the IX tag

IndexEntries == [compressed_size : Nat, uncompressed_size : Nat]

CompressedSizes(entries) == [i \in DOMAIN entries |-> entries[i].compressed_size]
UncompressedSizes(entries) == [i \in DOMAIN entries |-> entries[i].uncompressed_size]

Kinds == {"beg", "dat", "idx"}

Members == [kind : Kinds, zc : Nat, gc : Nat, from : Nat, to : Nat,
            entries : Seq(IndexEntries)]

(* build_beg_header and build_dat_header, with the member around them:     *)
(* body is the length of the deflate stream.                               *)
DataMember(kind, body, from, to) ==
  [kind |-> kind, gc |-> 0, from |-> from, to |-> to, entries |-> <<>>,
   zc |-> (IF kind = "beg" THEN BEG_HEADER_SIZE ELSE DAT_HEADER_SIZE) + body + PGZF_TAIL_SIZE]

IdxMember(body, entries) ==
  [kind |-> "idx", gc |-> 0, from |-> 0, to |-> 0, entries |-> entries,
   zc |-> IDX_HEADER_BASE_SIZE + EntrySize * Len(entries) + body + PGZF_TAIL_SIZE]

(* The extra field that the builders give a member: XLEN, which is a u16,  *)
(* and the subfields behind it, with their SLEN.                           *)
Xlen(m) ==
  CASE m.kind = "beg" -> BEG_HEADER_SIZE - 12
    [] m.kind = "dat" -> DAT_HEADER_SIZE - 12
    [] m.kind = "idx" -> (XlenBase + EntrySize * Len(m.entries)) % U16Space

Subfields(m) ==
  <<[tag |-> "ZC", slen |-> 4]>> \o
    (CASE m.kind = "beg" -> <<[tag |-> "GC", slen |-> 8]>>
       [] m.kind = "dat" -> <<>>
       [] m.kind = "idx" -> <<[tag |-> "IX", slen |-> (EntrySize * Len(m.entries)) % U16Space]>>)

(* The parsers walk the subfields until one does not fit into XLEN (the    *)
(* first takes 8 bytes), and take a tag that has at least min bytes.       *)
Found(m, tag, min) ==
  \E i \in DOMAIN Subfields(m) :
    /\ Subfields(m)[i].tag = tag /\ Subfields(m)[i].slen >= min
    /\ \A j \in 1..i : 8 * (j - 1) + 4 + Subfields(m)[j].slen <= Xlen(m)

Zc(m) == IF Found(m, "ZC", 4) THEN m.zc ELSE 0

(* The type of a member is that of the tags found.  read_one_raw_block     *)
(* takes a tag of any length, parse_extra_field wants its value in it.     *)
TypeByTags(m, ix, gc) ==
  IF Found(m, "IX", ix) THEN "idx" ELSE IF Found(m, "GC", gc) THEN "beg" ELSE "dat"

RawType(m) == TypeByTags(m, 0, 0)
determine_block_type(m) == TypeByTags(m, 8, 8)

-----------------------------------------------------------------------------
(* The file underneath: write_all at an offset.  Members that the bytes    *)
(* run into are no longer members.                                         *)
EmptyFile == [members |-> <<>>, length |-> 0]

Overlaps(file, at, offset, size) ==
  at < offset + size /\ offset < at + file.members[at].zc

WriteMember(file, offset, member, size) ==
  LET intact == {at \in DOMAIN file.members : ~Overlaps(file, at, offset, size)}
  IN [members |-> [at \in intact \cup {offset} |->
                     IF at = offset THEN member ELSE file.members[at]],
      length |-> IF offset + size > file.length THEN offset + size ELSE file.length]

(* write_all of a GC value.                                                *)
WriteGc(file, offset, gc) ==
  LET beg == offset - GC_VALUE_OFFSET
  IN IF beg \in DOMAIN file.members /\ file.members[beg].kind = "beg"
     THEN [members |-> [file.members EXCEPT ![beg].gc = gc], length |-> file.length]
     ELSE [members |-> [at \in {a \in DOMAIN file.members : ~Overlaps(file, a, offset, 8)} |->
                          file.members[at]],
           length |-> file.length]

-----------------------------------------------------------------------------
(* read_one_raw_block with the cursor at an offset: there is none when the *)
(* fixed header is not there, or ZC is not; it is an error when another    *)
(* part is not there, or (never met) when no member starts at the offset.  *)
RawBlock(file, at) ==
  LET none == [result |-> "none", type |-> "dat"]
      error == [result |-> "error", type |-> "dat"]
  IN IF at + GZIP_FIXED_HEADER_SIZE > file.length THEN none
     ELSE IF at \notin DOMAIN file.members THEN error
     ELSE LET m == file.members[at]
              header_size == GZIP_FIXED_HEADER_SIZE + 2 + Xlen(m)
          IN IF at + header_size > file.length THEN error
             ELSE IF Zc(m) = 0 THEN none
             ELSE IF at + Zc(m) > file.length THEN error
             ELSE [result |-> "block", type |-> RawType(m)]
=============================================================================
