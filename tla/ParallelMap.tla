---------------------------- MODULE ParallelMap ----------------------------
(***************************************************************************)
(* A batch of blocks compressed (PgzfWriter::flush_group) or decompressed  *)
(* (fill_readahead, read_blocks) in parallel: rayon cuts the jobs into     *)
(* ranges of successive jobs, each range makes a ReusableCompressor or     *)
(* ReusableDecompressor (compress.rs) for itself and uses it for its jobs  *)
(* one after the other, and collect() puts the results together.           *)
(*                                                                         *)
(* A range is named by its first job.  The bytes of a job are named by its *)
(* number, so a buffer that holds its output holds that number; of what a  *)
(* codec makes of them only the length matters.                            *)
(***************************************************************************)
EXTENDS Integers

CONSTANTS
  N,      \* number of jobs of the batch
  Sizes   \* length of the output of a job

ASSUME BatchSize == N \in Nat /\ Sizes \subseteq Nat

Jobs == 1..N

Faults == {"none", "short", "inflate", "crc"}  \* what can be wrong with a raw block

VARIABLES
  work,    \* "compress" or "decompress"
  items,   \* job -> length of its output, and what is wrong with it
  first,   \* job -> first job of its range
  pc,      \* range -> where it is
  at,      \* range -> job to be done next
  codec,   \* range -> its compressor or decompressor, and the output buffer
  done,    \* job -> result
  saved,   \* error that collect() will return, or NoJob
  full,    \* no range takes another job
  answer   \* what collect() returned

input == <<work, items, first>>
vars == <<input, pc, at, codec, done, saved, full, answer>>

NoJob == 0
Zeros == 0  \* a buffer as resize(.., 0) and vec![0; ..] leave it
Missing == [of |-> -1, len |-> 0]

Fresh == [ended |-> FALSE, total_out |-> 0, buf |-> Zeros]

Ranges == {first[i] : i \in Jobs}
InRange(r, i) == i \in Jobs /\ first[i] = r

(* decompress_raw_block_with: blocks that are no blocks, or say that they  *)
(* hold nothing, are not decompressed.                                     *)
IsEmpty(i) == work = "decompress" /\ (items[i].fault = "short" \/ items[i].size = 0)

Fails(i) == work = "decompress" /\ ~IsEmpty(i) /\ items[i].fault \in {"inflate", "crc"}

(* The result of a job that is done alone, with a new codec.               *)
Alone(i) == IF IsEmpty(i) THEN [of |-> Zeros, len |-> 0]
                          ELSE [of |-> i, len |-> items[i].size]

(* Each job is in the range of the job before, or the first of its own.    *)
CutInRanges ==
  /\ \A i \in Jobs : first[i] <= i /\ first[first[i]] = first[i]
  /\ \A i, j \in Jobs : i <= j => first[i] <= first[j]

Init ==
  /\ work \in {"compress", "decompress"}
  /\ items \in [Jobs -> [size : Sizes, fault : Faults]]
  /\ first \in [Jobs -> Jobs]
  /\ CutInRanges
  /\ pc = [r \in Jobs |-> "next"]
  /\ at = [r \in Jobs |-> r]
  /\ codec = [r \in Jobs |-> Fresh]
  /\ done = [i \in Jobs |-> Missing]
  /\ saved = NoJob
  /\ full = FALSE
  /\ answer = [state |-> "pending"]

Goto(r, label) == pc' = [pc EXCEPT ![r] = label]

-----------------------------------------------------------------------------
(* The range r takes its next job.                                         *)
Take(r) ==
  /\ pc[r] = "next"
  /\ InRange(r, at[r]) /\ ~full
  /\ IF IsEmpty(at[r])
       THEN /\ done' = [done EXCEPT ![at[r]] = [of |-> Zeros, len |-> 0]]
            /\ at' = [at EXCEPT ![r] = @ + 1]
            /\ UNCHANGED pc
       ELSE Goto(r, "reset") /\ UNCHANGED <<done, at>>
  /\ UNCHANGED <<input, codec, saved, full, answer>>

NoMoreJobs(r) == ~InRange(r, at[r]) \/ full

EndRange(r) ==
  /\ pc[r] = "next"
  /\ NoMoreJobs(r)
  /\ Goto(r, "ended")
  /\ UNCHANGED <<input, at, codec, done, saved, full, answer>>

(* The codec of the range: from map_init's first closure.  (A faulty       *)
(* variant first: one for all of them.)                                    *)
SharedCodec(r) == first[1]
Codec(r) == r

(* inner.reset(), and an output buffer of zeros.  (Faulty variants first:  *)
(* only the buffer; all but total_out.)                                    *)
Cleared(c) == [c EXCEPT !.buf = Zeros]
Reopened(c) == [Fresh EXCEPT !.total_out = c.total_out]
Reset(c) == Fresh

Prepare(r) ==
  /\ pc[r] = "reset"
  /\ codec' = [codec EXCEPT ![Codec(r)] = Reset(@)]
  /\ Goto(r, "run")
  /\ UNCHANGED <<input, at, done, saved, full, answer>>

(* The codec runs over job i; total_out counts from the last reset, and a  *)
(* stream that has ended gives no more bytes.                              *)
Produce(c, i) ==
  IF c.ended THEN c
  ELSE [ended |-> TRUE, total_out |-> c.total_out + items[i].size, buf |-> i]

(* The closure hands the error of a job on to collect() with "?".  (A      *)
(* faulty variant first: it leaves the job out.)                           *)
LeaveOut(r) == Goto(r, "next") /\ at' = [at EXCEPT ![r] = @ + 1]
HandOn(r) == Goto(r, "failed") /\ UNCHANGED at

Run(r) ==
  /\ pc[r] = "run"
  /\ IF work = "decompress" /\ items[at[r]].fault = "inflate"
       THEN HandOn(r) /\ UNCHANGED codec
       ELSE /\ codec' = [codec EXCEPT ![Codec(r)] = Produce(@, at[r])]
            /\ Goto(r, "verify") /\ UNCHANGED at
  /\ UNCHANGED <<input, done, saved, full, answer>>

(* The result is the part of the buffer up to total_out; a decompressed    *)
(* one must have the CRC of the block.                                     *)
Output(r) == [of |-> codec[Codec(r)].buf, len |-> codec[Codec(r)].total_out]

CrcMatches(r) ==
  work = "decompress" => items[at[r]].fault # "crc" /\ Output(r) = Alone(at[r])

Deliver(r) ==
  /\ pc[r] = "verify"
  /\ IF CrcMatches(r)
       THEN /\ done' = [done EXCEPT ![at[r]] = Output(r)]
            /\ at' = [at EXCEPT ![r] = @ + 1]
            /\ Goto(r, "next")
       ELSE HandOn(r) /\ UNCHANGED done
  /\ UNCHANGED <<input, codec, saved, full, answer>>

-----------------------------------------------------------------------------
(* collect::<Result<Vec<_>>>(): the first error to arrive is kept, then    *)
(* the ranges are told to take no more jobs.                               *)
Kept(r) == IF saved = NoJob THEN at[r] ELSE saved

SaveError(r) ==
  /\ pc[r] = "failed"
  /\ saved' = Kept(r)
  /\ Goto(r, "stop")
  /\ UNCHANGED <<input, at, codec, done, full, answer>>

StopAll(r) ==
  /\ pc[r] = "stop"
  /\ full' = TRUE
  /\ Goto(r, "ended")
  /\ UNCHANGED <<input, at, codec, done, saved, answer>>

Collect ==
  /\ answer = [state |-> "pending"]
  /\ \A r \in Ranges : pc[r] = "ended"
  /\ answer' = IF saved # NoJob THEN [state |-> "error", job |-> saved]
                                ELSE [state |-> "ok", results |-> done]
  /\ UNCHANGED <<input, pc, at, codec, done, saved, full>>

Step(r) ==
  \/ Take(r) \/ EndRange(r) \/ Prepare(r) \/ Run(r) \/ Deliver(r)
  \/ SaveError(r) \/ StopAll(r)

Next == (\E r \in Ranges : Step(r)) \/ Collect

Spec == Init /\ [][Next]_vars

-----------------------------------------------------------------------------
Outputs == [of : Int, len : Nat]

(* A codec has put out no more than one job, the buffer being no longer.   *)
Codecs == [ended : BOOLEAN, total_out : Sizes \cup {0}, buf : Jobs \cup {Zeros}]

TypeOK ==
  /\ work \in {"compress", "decompress"}
  /\ items \in [Jobs -> [size : Sizes, fault : Faults]]
  /\ first \in [Jobs -> Jobs]
  /\ pc \in [Jobs -> {"next", "reset", "run", "verify", "failed", "stop", "ended"}]
  /\ at \in [Jobs -> Nat]
  /\ codec \in [Jobs -> Codecs]
  /\ done \in [Jobs -> Outputs]
  /\ saved \in Jobs \cup {NoJob}
  /\ full \in BOOLEAN

(* However the ranges are cut and the threads take turns, the result of a  *)
(* job is the one it has alone: nothing of the jobs that used the codec    *)
(* before, or use another one at the same time, shows in it.               *)
NothingLeaks == \A i \in Jobs : done[i] \in {Missing, Alone(i)}

(* The jobs that a range has behind it are all done, and nobody else did   *)
(* them; a range that ends before its last job knows of an error.          *)
RangesAreDone ==
  /\ \A i \in Jobs : done[i] # Missing <=> i < at[first[i]]
  /\ \A r \in Ranges : pc[r] = "ended" /\ InRange(r, at[r]) => saved # NoJob

(* The batch is an ordered map with one answer.                            *)
Map == INSTANCE OrderedMap WITH
  wanted <- [i \in Jobs |-> Alone(i)],
  bad <- {i \in Jobs : Fails(i)}

ImplementsOrderedMap == Map!Spec
=============================================================================
