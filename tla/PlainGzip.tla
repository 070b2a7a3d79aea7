----------------------------- MODULE PlainGzip -----------------------------
(***************************************************************************)
(* PgzfReader on a file whose first member is not marked as PGZF: there is *)
(* no index, and reads go from member to member with read_pgzf_block       *)
(* (decompress.rs).                                                        *)
(***************************************************************************)
EXTENDS Integers, Sequences

CONSTANTS
  members,       \* the gzip members by offset
  length,        \* of the file
  GarbageXlens,  \* what the two bytes behind a fixed header without XLEN amount to
  BufferSizes, Offsets,  \* arguments of the client
  MaxOps         \* bound on the calls

(* A member is a PGZF one, or has an extra field that is somebody else's,  *)
(* or has none; xlen is that of the extra field.                           *)
Forms == {"pgzf", "foreign", "bare"}

MemberType == [form : Forms, type : {"beg", "dat", "idx"}, xlen : Nat, size : Nat, from : Nat, to : Nat]

(* The file is intact, and its first member is not a PGZF one.             *)
PlainFile ==
  /\ length \in Nat
  /\ members \in [DOMAIN members -> MemberType]
  /\ DOMAIN members \subseteq 0..length /\ 0 \in DOMAIN members
  /\ members[0].form # "pgzf"
  /\ \A at \in DOMAIN members :
       LET end == at + members[at].size
       IN end = length \/ end \in DOMAIN members

VARIABLES
  inner,             \* cursor of the file
  current,           \* what is left of the current block
  eof,
  pending_seek,
  next_block_index,
  replies            \* history: the calls so far and what they returned

fields == <<inner, current, eof, pending_seek, next_block_index>>
vars == <<fields, replies>>

None == -1
Nothing == [from |-> 0, to |-> 0]

Call(call, result) ==
  /\ Len(replies) < MaxOps
  /\ replies' = Append(replies, [call |-> call, result |-> result])

Init ==
  /\ PlainFile
  /\ inner = 0 /\ current = Nothing /\ eof = FALSE
  /\ pending_seek = None /\ next_block_index = 0
  /\ replies = <<>>

-----------------------------------------------------------------------------
FixedHeader == 10

(* read_exact of the rest of a header: where it leaves the cursor.         *)
BehindHeader(at, xlen) ==
  IF at + FixedHeader + 2 + xlen > length THEN length ELSE at + FixedHeader + 2 + xlen

Xlens(at) ==
  IF at \in DOMAIN members /\ members[at].form # "bare" THEN {members[at].xlen} ELSE GarbageXlens

IsPgzf(at) == at \in DOMAIN members /\ members[at].form = "pgzf"

(* read_pgzf_block at an offset.  The size of the deflate stream comes     *)
(* from ZC, which parse_extra_field only looks for in PGZF members; in any *)
(* other it is 0, less than a header.                                      *)
ReadPgzfBlock(at) ==
  IF at + FixedHeader > length
    THEN {[result |-> "none", inner |-> length, data |-> Nothing]}
  ELSE IF at \notin DOMAIN members  \* no gzip magic
    THEN {[result |-> "error", inner |-> at + FixedHeader, data |-> Nothing]}
  ELSE IF ~IsPgzf(at)
    THEN {[result |-> "error", inner |-> BehindHeader(at, x), data |-> Nothing] : x \in Xlens(at)}
  ELSE {[result |-> "block", inner |-> at + members[at].size,
         data |-> [from |-> members[at].from, to |-> members[at].to]]}

(* advance_to_next_block_sequential goes on behind IDX members.            *)
BehindIdx(at) ==
  LET behind[a \in 0..length] ==
        IF IsPgzf(a) /\ members[a].type = "idx" THEN behind[a + members[a].size] ELSE a
  IN behind[at]

(* read(), n being the length of the buffer.                               *)
ReadNoBuffer ==
  /\ Call("read", "ok")
  /\ UNCHANGED fields

ReadSought ==
  /\ pending_seek # None
  /\ pending_seek' = None
  /\ Call("read", "unsupported")
  /\ UNCHANGED <<inner, current, eof, next_block_index>>

Served(block, n) ==
  [block EXCEPT !.from = IF block.from + n < block.to THEN block.from + n ELSE block.to]

ReadCurrent(n) ==
  /\ pending_seek = None
  /\ current.from < current.to
  /\ current' = Served(current, n)
  /\ Call("read", "ok")
  /\ UNCHANGED <<inner, eof, pending_seek, next_block_index>>

ReadAtEof ==
  /\ pending_seek = None
  /\ current.from = current.to /\ eof
  /\ Call("read", "end")
  /\ UNCHANGED fields

ReadOn(n) ==
  /\ pending_seek = None
  /\ current.from = current.to /\ ~eof
  /\ \E read \in ReadPgzfBlock(BehindIdx(inner)) :
       /\ inner' = read.inner
       /\ eof' = (read.result = "none" \/ (read.result = "block" /\ read.data.from = read.data.to))
       /\ current' = IF read.result = "block" THEN Served(read.data, n) ELSE current
       /\ Call("read", IF read.result = "error" THEN "error" ELSE IF eof' THEN "end" ELSE "ok")
  /\ UNCHANGED <<pending_seek, next_block_index>>

Read(n) ==
  IF n = 0 THEN ReadNoBuffer
  ELSE ReadSought \/ ReadCurrent(n) \/ ReadAtEof \/ ReadOn(n)

-----------------------------------------------------------------------------
(* Seek::seek: no total is known, so only SeekFrom::End is refused, and    *)
(* the others by the read that follows.                                    *)
Seek(target) ==
  /\ target >= 0
  /\ pending_seek' = target
  /\ next_block_index' = 0 /\ current' = Nothing
  /\ Call("seek", "ok")
  /\ UNCHANGED <<inner, eof>>

(* SeekFrom::End, and seek_to_byte, seek_to_block and read_blocks.         *)
Refused ==
  /\ Call("random access", "unsupported")
  /\ UNCHANGED fields

(* read_one_raw_block looks for ZC in every member, and returns none when  *)
(* there is no ZC, as at the end of the file.                              *)
ReadRawBlock ==
  \/ /\ inner + FixedHeader > length
     /\ inner' = length
     /\ Call("raw", "end")
     /\ UNCHANGED <<current, eof, pending_seek, next_block_index>>
  \/ /\ inner + FixedHeader <= length
     /\ \E x \in Xlens(inner) :
          IF inner + FixedHeader + 2 + x > length
            THEN /\ Call("raw", "error")
                 /\ inner' = length
                 /\ UNCHANGED next_block_index
            ELSE /\ Call("raw", IF IsPgzf(inner) THEN "ok" ELSE "end")
                 /\ inner' = IF IsPgzf(inner) THEN inner + members[inner].size
                             ELSE BehindHeader(inner, x)
                 /\ next_block_index' = IF IsPgzf(inner) /\ members[inner].type = "idx"
                                        THEN next_block_index ELSE next_block_index + 1
     /\ UNCHANGED <<current, eof, pending_seek>>

Next ==
  \/ \E n \in BufferSizes : Read(n)
  \/ \E offset \in Offsets : Seek(offset)
  \/ Refused
  \/ ReadRawBlock

Spec == Init /\ [][Next]_vars

-----------------------------------------------------------------------------
(* Standard gzip files are read sequentially (pgzf.spec.md:275): to a      *)
(* client that only reads, no read of an intact file fails.                *)
PlainGzipIsRead ==
  (\A i \in DOMAIN replies : replies[i].call = "read") =>
    \A i \in DOMAIN replies : replies[i].result # "error"
=============================================================================
