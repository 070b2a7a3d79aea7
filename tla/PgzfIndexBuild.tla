--------------------------- MODULE PgzfIndexBuild ---------------------------
(***************************************************************************)
(* PgzfIndex::build (index.rs): the walk over the groups of a file, and    *)
(* the arrays it accumulates.                                              *)
(***************************************************************************)
EXTENDS PgzfFormat, SequencesExt

(* Where the walk ends, with the index of the groups before: at the end of *)
(* the file, or at a group that was never completed.                       *)
EndOfFile(file, group_start) ==  \* a faulty variant
  group_start + BEG_HEADER_SIZE > file.length

EndOfGroups(file, group_start) ==
  \/ group_start + BEG_HEADER_SIZE > file.length
  \/ /\ group_start \in DOMAIN file.members
     /\ file.members[group_start].kind = "beg"
     /\ file.members[group_start].gc = 0

(* The errors of the walk: no group starts here, the GC value does not     *)
(* lead to an IDX member, or that is incomplete or its XLEN is too small.  *)
StartsGroup(file, group_start) ==
  group_start \in DOMAIN file.members /\ file.members[group_start].kind = "beg"

IsIdx(file, at) ==
  /\ at \in DOMAIN file.members
  /\ file.members[at].kind = "idx"
  /\ Xlen(file.members[at]) >= XlenBase
  /\ at + IDX_HEADER_BASE_SIZE + (Xlen(file.members[at]) - XlenBase) <= file.length

IdxAt(file, group_start) == group_start + file.members[group_start].gc

ValidGroup(file, group_start) ==
  StartsGroup(file, group_start) /\ IsIdx(file, IdxAt(file, group_start))

(* The last entry of each array is the running total (cum_c, cum_u), at    *)
(* which the next block starts.                                            *)
Offsets == {offsets \in Seq(Nat) : offsets # <<>>}

Indexes == [compressed_offsets : Offsets, uncompressed_offsets : Offsets, group_count : Nat]

AddSize(offsets, size) == Append(offsets, Last(offsets) + size)

AddEntry(acc, entry) ==
  [acc EXCEPT !.compressed_offsets = AddSize(@, entry.compressed_size),
              !.uncompressed_offsets = AddSize(@, entry.uncompressed_size)]

AddEntries(acc, entries, num_entries) ==
  LET after[n \in 0..num_entries] ==
        IF n = 0 THEN acc ELSE AddEntry(after[n - 1], entries[n])
  IN after[num_entries]

(* As many entries as XLEN says there are, then the IDX member itself.     *)
AddGroup(acc, idx) ==
  LET blocks == AddEntries(acc, idx.entries, (Xlen(idx) - XlenBase) \div EntrySize)
  IN [blocks EXCEPT !.compressed_offsets = Append(Front(@), Last(@) + idx.zc),
                    !.group_count = @ + 1]

NoGroups ==
  [compressed_offsets |-> <<0>>, uncompressed_offsets |-> <<0>>, group_count |-> 0]

block_count(index) == Len(index.compressed_offsets) - 1
Total(index) == Last(index.uncompressed_offsets)

(* An error of build(), for which there is no total.                       *)
Failed == [NoGroups EXCEPT !.compressed_offsets = <<>>]

(* The loop: the arrays so far go from one group to the next.              *)
Walks == [group_start : Nat, index : Indexes]

Start == [group_start |-> 0, index |-> NoGroups]

NextGroup(file, walk) ==
  LET at == IdxAt(file, walk.group_start)
  IN [group_start |-> at + file.members[at].zc,
      index |-> AddGroup(walk.index, file.members[at])]

Build(file) ==
  LET from[walk \in Walks] ==
        IF EndOfGroups(file, walk.group_start) THEN walk.index
        ELSE IF ValidGroup(file, walk.group_start) THEN from[NextGroup(file, walk)]
        ELSE Failed
  IN from[Start]
=============================================================================
