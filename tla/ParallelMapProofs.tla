------------------------- MODULE ParallelMapProofs -------------------------
(***************************************************************************)
(* A batch of any size, cut into ranges in any way and run by threads that *)
(* take turns in any way, is the ordered map of its jobs.                  *)
(*                                                                         *)
(* NothingLeaks alone is not inductive.  What makes it so: a codec that is *)
(* about to run has just been reset (and by its own range, which is the    *)
(* only one to use it); one that has run holds the output of the job that  *)
(* is being verified; and done is filled exactly up to where its range is. *)
(***************************************************************************)
EXTENDS ParallelMap, TLAPS

Busy == {"reset", "run", "verify", "failed", "stop"}

HasRun(i) == [ended |-> TRUE, total_out |-> items[i].size, buf |-> i]

CodecsInStep ==
  \A r \in Ranges :
    /\ at[r] >= r
    /\ pc[r] \in Busy => InRange(r, at[r]) /\ ~IsEmpty(at[r])
    /\ pc[r] = "run" => codec[r] = Fresh
    /\ pc[r] = "verify" => /\ codec[r] = HasRun(at[r])
                           /\ ~(work = "decompress" /\ items[at[r]].fault = "inflate")

ErrorsAreReal ==
  /\ saved # NoJob => Fails(saved)
  /\ full => saved # NoJob
  /\ \A r \in Ranges : /\ pc[r] \in {"failed", "stop"} => Fails(at[r])
                       /\ pc[r] = "stop" => saved # NoJob
  /\ \A i \in Jobs : done[i] # Missing => ~Fails(i)

IInv ==
  /\ TypeOK /\ CutInRanges
  /\ CodecsInStep /\ ErrorsAreReal
  /\ NothingLeaks /\ RangesAreDone

-----------------------------------------------------------------------------
(* A range is named by its own first job.                                  *)
LEMMA RangesNamed ==
  ASSUME TypeOK, CutInRanges, NEW r \in Ranges
  PROVE  r \in Jobs /\ first[r] = r
  BY DEF TypeOK, CutInRanges, Ranges

(* What the records of the module are.                                     *)
LEMMA AloneIsAResult ==
  ASSUME TypeOK, NEW i \in Jobs
  PROVE  Alone(i) \in Outputs /\ Alone(i) # Missing
  <1>1. items[i].size \in Nat
    BY BatchSize DEF TypeOK
  <1>2. i \in Int /\ i > 0
    BY BatchSize DEF Jobs
  <1>3. Alone(i) \in Outputs
    BY <1>1, <1>2 DEF Alone, Outputs, Zeros
  <1>4. Alone(i) # Missing
    BY <1>2 DEF Alone, Missing, Zeros
  <1> QED BY <1>3, <1>4

LEMMA FreshIsACodec == Fresh \in Codecs
  <1>1. 0 \in Sizes \cup {0} /\ 0 \in Jobs \cup {0} /\ FALSE \in BOOLEAN
    OBVIOUS
  <1> QED BY Zenon, <1>1 DEF Fresh, Zeros, Codecs

(* What a codec that was reset makes of a job.                             *)
LEMMA RunIsACodec ==
  ASSUME TypeOK, NEW i \in Jobs
  PROVE  HasRun(i) \in Codecs /\ Produce(Fresh, i) = HasRun(i)
  <1>1. items[i].size \in Sizes /\ items[i].size \in Nat
    BY BatchSize DEF TypeOK
  <1>2. 0 + items[i].size = items[i].size
    BY <1>1
  <1>3. Produce(Fresh, i) = HasRun(i)
    BY <1>2 DEF Produce, Fresh, HasRun
  <1>4. TRUE \in BOOLEAN /\ items[i].size \in Sizes \cup {0} /\ i \in Jobs \cup {Zeros}
    BY <1>1
  <1>5. HasRun(i) \in Codecs
    BY Zenon, <1>4 DEF HasRun, Codecs
  <1> QED BY <1>3, <1>5

(* The invariant holds of a batch that has not begun.                      *)
LEMMA InitInv == Init => IInv
  <1> SUFFICES ASSUME Init PROVE IInv
    OBVIOUS
  <1>1. Missing \in Outputs
    BY DEF Missing, Outputs
  <1>2. TypeOK
    <2>1. at \in [Jobs -> Nat]
      BY BatchSize DEF Init, Jobs
    <2>2. codec \in [Jobs -> Codecs] /\ done \in [Jobs -> Outputs]
      BY <1>1, FreshIsACodec DEF Init
    <2> QED BY <2>1, <2>2 DEF Init, TypeOK
  <1>3. \A r \in Ranges : r \in Jobs /\ first[r] = r
    BY <1>2, RangesNamed DEF Init
  <1>4. CodecsInStep
    BY <1>3, BatchSize DEF Init, CodecsInStep, Busy, Jobs
  <1>5. ErrorsAreReal
    BY <1>3 DEF Init, ErrorsAreReal
  <1>6. NothingLeaks
    BY DEF Init, NothingLeaks
  <1>7. RangesAreDone
    <2>1. ASSUME NEW i \in Jobs PROVE done[i] = Missing /\ ~(i < at[first[i]])
      BY BatchSize DEF Init, CutInRanges, Jobs
    <2> QED BY <1>3, <2>1 DEF Init, RangesAreDone
  <1> QED BY <1>2, <1>4, <1>5, <1>6, <1>7 DEF Init, IInv

-----------------------------------------------------------------------------
(* Each step of a range keeps the invariant.                               *)
LEMMA EndRangeInv ==
  ASSUME IInv, NEW r \in Ranges, EndRange(r)
  PROVE  IInv'
  <1> USE DEF EndRange, Goto, IInv, NoMoreJobs
  <1>1. r \in Jobs /\ first[r] = r /\ at[r] \in Nat
    BY RangesNamed DEF TypeOK
  <1>2. UNCHANGED input /\ TypeOK'
    BY <1>1 DEF TypeOK, input
  <1>3. CutInRanges'
    BY <1>2 DEF CutInRanges, input
  <1>4. CodecsInStep'
    BY <1>1, <1>2 DEF CodecsInStep, input, TypeOK, Ranges, InRange, IsEmpty, Busy, HasRun
  <1>5. ErrorsAreReal'
    BY <1>1, <1>2 DEF ErrorsAreReal, input, TypeOK, Ranges, Fails, IsEmpty
  <1>6. NothingLeaks'
    BY <1>1, <1>2 DEF NothingLeaks, input, TypeOK, Alone, IsEmpty
  <1>7. RangesAreDone'
    BY <1>1, <1>2 DEF RangesAreDone, ErrorsAreReal, input, TypeOK, Ranges, InRange
  <1> QED BY <1>2, <1>3, <1>4, <1>5, <1>6, <1>7

LEMMA PrepareInv ==
  ASSUME IInv, NEW r \in Ranges, Prepare(r)
  PROVE  IInv'
  <1> USE DEF Prepare, Goto, IInv, Codec, Reset
  <1>1. r \in Jobs /\ first[r] = r /\ at[r] \in Nat
    BY RangesNamed DEF TypeOK
  <1>2. UNCHANGED input /\ TypeOK'
    BY <1>1, FreshIsACodec DEF TypeOK, input
  <1>3. CutInRanges'
    BY <1>2 DEF CutInRanges, input
  <1>4. CodecsInStep'
    BY <1>1, <1>2 DEF CodecsInStep, input, TypeOK, Ranges, InRange, IsEmpty, Busy, HasRun
  <1>5. ErrorsAreReal'
    BY <1>1, <1>2 DEF ErrorsAreReal, input, TypeOK, Ranges, Fails, IsEmpty
  <1>6. NothingLeaks'
    BY <1>1, <1>2 DEF NothingLeaks, input, TypeOK, Alone, IsEmpty
  <1>7. RangesAreDone'
    BY <1>1, <1>2 DEF RangesAreDone, ErrorsAreReal, input, TypeOK, Ranges, InRange
  <1> QED BY <1>2, <1>3, <1>4, <1>5, <1>6, <1>7

LEMMA SaveErrorInv ==
  ASSUME IInv, NEW r \in Ranges, SaveError(r)
  PROVE  IInv'
  <1> USE DEF SaveError, Goto, IInv, Kept
  <1>1. r \in Jobs /\ first[r] = r /\ at[r] \in Nat
    BY RangesNamed DEF TypeOK
  <1>2. UNCHANGED input /\ TypeOK' /\ at[r] # NoJob /\ Fails(at[r])
    <2>1. at[r] \in Jobs /\ Fails(at[r])
      BY DEF CodecsInStep, ErrorsAreReal, Busy, InRange
    <2>2. at[r] # NoJob
      BY <2>1, BatchSize DEF Jobs, NoJob
    <2> QED BY <1>1, <2>1, <2>2 DEF TypeOK, input
  <1>3. CutInRanges'
    BY <1>2 DEF CutInRanges, input
  <1>4. CodecsInStep'
    BY <1>1, <1>2 DEF CodecsInStep, input, TypeOK, Ranges, InRange, IsEmpty, Busy, HasRun
  <1>5. ErrorsAreReal'
    BY <1>1, <1>2 DEF ErrorsAreReal, input, TypeOK, Ranges, Fails, IsEmpty
  <1>6. NothingLeaks'
    BY <1>1, <1>2 DEF NothingLeaks, input, TypeOK, Alone, IsEmpty
  <1>7. RangesAreDone'
    BY <1>1, <1>2 DEF RangesAreDone, ErrorsAreReal, input, TypeOK, Ranges, InRange
  <1> QED BY <1>2, <1>3, <1>4, <1>5, <1>6, <1>7

LEMMA StopAllInv ==
  ASSUME IInv, NEW r \in Ranges, StopAll(r)
  PROVE  IInv'
  <1> USE DEF StopAll, Goto, IInv
  <1>1. r \in Jobs /\ first[r] = r /\ at[r] \in Nat
    BY RangesNamed DEF TypeOK
  <1>2. UNCHANGED input /\ TypeOK'
    BY <1>1 DEF TypeOK, input
  <1>3. CutInRanges'
    BY <1>2 DEF CutInRanges, input
  <1>4. CodecsInStep'
    BY <1>1, <1>2 DEF CodecsInStep, input, TypeOK, Ranges, InRange, IsEmpty, Busy, HasRun
  <1>5. ErrorsAreReal'
    BY <1>1, <1>2 DEF ErrorsAreReal, input, TypeOK, Ranges, Fails, IsEmpty
  <1>6. NothingLeaks'
    BY <1>1, <1>2 DEF NothingLeaks, input, TypeOK, Alone, IsEmpty
  <1>7. RangesAreDone'
    BY <1>1, <1>2 DEF RangesAreDone, ErrorsAreReal, input, TypeOK, Ranges, InRange
  <1> QED BY <1>2, <1>3, <1>4, <1>5, <1>6, <1>7

(* A range that has the result of its next job puts it down and goes on.   *)
LEMMA OneMoreDone ==
  ASSUME IInv, NEW r \in Ranges, InRange(r, at[r]), ~Fails(at[r]),
         pc' = [pc EXCEPT ![r] = "next"],
         at' = [at EXCEPT ![r] = at[r] + 1],
         done' = [done EXCEPT ![at[r]] = Alone(at[r])],
         UNCHANGED <<input, codec, saved, full>>
  PROVE  IInv'
  <1> USE DEF IInv
  <1>1. /\ r \in Jobs /\ first[r] = r /\ r \in Nat
        /\ at[r] \in Jobs /\ at[r] \in Nat /\ first[at[r]] = r
    <2>1. r \in Jobs /\ first[r] = r /\ at[r] \in Jobs /\ first[at[r]] = r
      BY RangesNamed DEF InRange
    <2> QED BY <2>1, BatchSize DEF Jobs
  <1>2. Alone(at[r]) \in Outputs /\ Alone(at[r]) # Missing
    BY <1>1, AloneIsAResult
  <1>3. CutInRanges' /\ Ranges' = Ranges
    BY DEF CutInRanges, Ranges, input
  <1>4. \A s \in Ranges : s # r => at'[s] = at[s] /\ pc'[s] = pc[s]
    BY RangesNamed DEF TypeOK
  <1>5. at'[r] = at[r] + 1 /\ pc'[r] = "next"
    BY <1>1 DEF TypeOK
  <1>6. TypeOK'
    <2>1. at' \in [Jobs -> Nat] /\ done' \in [Jobs -> Outputs]
      BY <1>1, <1>2 DEF TypeOK
    <2> QED BY <1>1, <2>1 DEF TypeOK, input
  <1>7. CodecsInStep'
    <2> SUFFICES ASSUME NEW s \in Ranges PROVE CodecsInStep!(s)'
      BY <1>3 DEF CodecsInStep
    <2>1. CASE s = r
      BY <1>1, <1>5, <2>1 DEF CodecsInStep, Busy
    <2>2. CASE s # r
      BY <1>4, <2>2 DEF CodecsInStep, input, InRange, IsEmpty, HasRun
    <2> QED BY <2>1, <2>2
  <1>8. ErrorsAreReal'
    BY <1>1, <1>3, <1>4, <1>5 DEF ErrorsAreReal, input, TypeOK, Fails, IsEmpty
  <1>9. NothingLeaks'
    BY <1>1 DEF NothingLeaks, input, TypeOK, Alone, IsEmpty
  <1>10. RangesAreDone'
    <2>1. ASSUME NEW i \in Jobs
          PROVE  done'[i] # Missing <=> i < at'[first[i]]
      <3>1. i \in Nat /\ first[i] \in Ranges
        BY BatchSize DEF Jobs, Ranges
      <3>2. CASE first[i] = r
        BY <1>1, <1>2, <1>5, <3>1, <3>2 DEF RangesAreDone, TypeOK
      <3>3. CASE first[i] # r
        BY <1>1, <1>4, <3>1, <3>3 DEF RangesAreDone, TypeOK
      <3> QED BY <3>2, <3>3
    <2> QED BY <1>3, <1>4, <1>5, <2>1 DEF RangesAreDone, InRange, input
  <1> QED BY <1>3, <1>6, <1>7, <1>8, <1>9, <1>10

LEMMA TakeInv ==
  ASSUME IInv, NEW r \in Ranges, Take(r)
  PROVE  IInv'
  <1> USE DEF Take, Goto, IInv
  <1>1. r \in Jobs /\ first[r] = r /\ at[r] \in Jobs /\ at[r] \in Nat /\ first[at[r]] = r
    BY RangesNamed DEF TypeOK, InRange
  <1>3. UNCHANGED input /\ CutInRanges'
    BY DEF CutInRanges, input
  <1>4. CASE IsEmpty(at[r])
    <2>1. Alone(at[r]) = [of |-> Zeros, len |-> 0] /\ ~Fails(at[r])
      BY <1>4 DEF Alone, Fails
    <2>2. pc' = [pc EXCEPT ![r] = "next"]
      BY <1>1, <1>4 DEF TypeOK
    <2> QED BY <1>4, <2>1, <2>2, OneMoreDone
  <1>5. CASE ~IsEmpty(at[r])
    <2>2. TypeOK'
      BY <1>1, <1>3, <1>5 DEF TypeOK, input
    <2>3. CodecsInStep'
      BY <1>1, <1>3, <1>5 DEF CodecsInStep, input, TypeOK, Ranges, InRange, IsEmpty, Busy, HasRun
    <2>4. ErrorsAreReal'
      BY <1>1, <1>3, <1>5 DEF ErrorsAreReal, input, TypeOK, Ranges, Fails, IsEmpty
    <2>5. NothingLeaks'
      BY <1>3, <1>5 DEF NothingLeaks, input, Alone, IsEmpty
    <2>6. RangesAreDone'
      BY <1>1, <1>3, <1>5 DEF RangesAreDone, input, TypeOK, Ranges, InRange
    <2> QED BY <1>3, <2>2, <2>3, <2>4, <2>5, <2>6
  <1> QED BY <1>4, <1>5

LEMMA RunInv ==
  ASSUME IInv, NEW r \in Ranges, Run(r)
  PROVE  IInv'
  <1> USE DEF Run, HandOn, Goto, IInv, Codec
  <1>1. r \in Jobs /\ at[r] \in Jobs /\ first[at[r]] = r /\ ~IsEmpty(at[r])
    BY RangesNamed DEF CodecsInStep, Busy, InRange
  <1>2. codec[r] \in Codecs /\ codec[r] = Fresh
    BY <1>1 DEF TypeOK, CodecsInStep
  <1>3. Produce(codec[r], at[r]) \in Codecs /\ Produce(codec[r], at[r]) = HasRun(at[r])
    BY <1>1, <1>2, RunIsACodec
  <1>4. UNCHANGED input /\ CutInRanges'
    BY DEF CutInRanges, input
  <1>5. TypeOK'
    BY <1>1, <1>3, <1>4 DEF TypeOK, input
  <1>6. CodecsInStep'
    <2> SUFFICES ASSUME NEW s \in Ranges PROVE CodecsInStep!(s)'
      BY <1>4 DEF CodecsInStep, Ranges, input
    <2>1. CASE s = r
      BY <1>1, <1>3, <1>4, <2>1 DEF CodecsInStep, Busy, input, InRange, IsEmpty, HasRun, TypeOK
    <2>2. CASE s # r
      <3>1. s \in Jobs
        BY RangesNamed
      <3>2. pc'[s] = pc[s] /\ codec'[s] = codec[s] /\ at'[s] = at[s]
        BY <2>2, <3>1 DEF TypeOK
      <3> QED BY <1>4, <3>2 DEF CodecsInStep, input, InRange, IsEmpty, HasRun
    <2> QED BY <2>1, <2>2
  <1>7. ErrorsAreReal'
    BY <1>1, <1>4 DEF ErrorsAreReal, input, TypeOK, Ranges, Fails, IsEmpty
  <1>8. NothingLeaks'
    BY <1>4 DEF NothingLeaks, input, Alone, IsEmpty
  <1>9. RangesAreDone'
    BY <1>1, <1>4 DEF RangesAreDone, input, TypeOK, Ranges, InRange
  <1> QED BY <1>4, <1>5, <1>6, <1>7, <1>8, <1>9

LEMMA DeliverInv ==
  ASSUME IInv, NEW r \in Ranges, Deliver(r)
  PROVE  IInv'
  <1> USE DEF Deliver, HandOn, Goto, IInv
  <1>1. /\ r \in Jobs /\ first[r] = r /\ at[r] \in Jobs /\ at[r] \in Nat
        /\ first[at[r]] = r /\ ~IsEmpty(at[r])
    BY RangesNamed DEF CodecsInStep, Busy, InRange, TypeOK
  <1>2. codec[r] = HasRun(at[r])
    BY <1>1 DEF CodecsInStep
  <1>3. Output(r) = Alone(at[r])
    BY <1>1, <1>2 DEF HasRun, Output, Codec, Alone
  <1>4. CrcMatches(r) <=> ~Fails(at[r])
    BY <1>1, <1>3 DEF CodecsInStep, CrcMatches, Fails
  <1>5. CASE CrcMatches(r)
    BY <1>1, <1>3, <1>4, <1>5, OneMoreDone DEF InRange
  <1>6. CASE ~CrcMatches(r)
    <2>1. UNCHANGED input /\ CutInRanges'
      BY DEF CutInRanges, input
    <2>2. TypeOK'
      BY <1>1, <1>6, <2>1 DEF TypeOK, input
    <2>3. CodecsInStep'
      BY <1>1, <1>6, <2>1 DEF CodecsInStep, input, TypeOK, Ranges, InRange, IsEmpty, Busy, HasRun
    <2>4. ErrorsAreReal'
      BY <1>1, <1>4, <1>6, <2>1 DEF ErrorsAreReal, input, TypeOK, Ranges, Fails, IsEmpty
    <2>5. NothingLeaks'
      BY <1>6, <2>1 DEF NothingLeaks, input, Alone, IsEmpty
    <2>6. RangesAreDone'
      BY <1>1, <1>6, <2>1 DEF RangesAreDone, input, TypeOK, Ranges, InRange
    <2> QED BY <2>1, <2>2, <2>3, <2>4, <2>5, <2>6
  <1> QED BY <1>5, <1>6

-----------------------------------------------------------------------------
(* collect() changes the answer alone, and so does no step.                *)
LEMMA FrameInv ==
  ASSUME IInv, UNCHANGED <<input, pc, at, codec, done, saved, full>>
  PROVE  IInv'
  BY DEF IInv, TypeOK, CutInRanges, CodecsInStep, ErrorsAreReal, NothingLeaks, RangesAreDone,
     input, Ranges, InRange, IsEmpty, Fails, Alone, HasRun

LEMMA NextInv == IInv /\ [Next]_vars => IInv'
  <1> SUFFICES ASSUME IInv, [Next]_vars PROVE IInv'
    OBVIOUS
  <1>1. ASSUME NEW r \in Ranges, Step(r) PROVE IInv'
    BY <1>1, TakeInv, EndRangeInv, PrepareInv, RunInv, DeliverInv, SaveErrorInv, StopAllInv
       DEF Step
  <1>2. CASE Collect
    BY <1>2, FrameInv DEF Collect
  <1>3. CASE UNCHANGED vars
    BY <1>3, FrameInv DEF vars
  <1> QED BY <1>1, <1>2, <1>3 DEF Next

LEMMA Invariance == Spec => []IInv
  BY InitInv, NextInv, PTL DEF Spec

(* The fields of a batch stay in their ranges: codecs, results and errors  *)
(* (compress.rs, reader.rs:434).                                           *)
THEOREM TypeCorrect == Spec => []TypeOK
  BY Invariance, PTL DEF IInv

(* No job's result shows anything of another's, for any cut of a batch of  *)
(* any length (ReusableCompressor::compress, ReusableDecompressor::        *)
(* decompress).                                                            *)
THEOREM NothingEverLeaks == Spec => []NothingLeaks
  BY Invariance, PTL DEF IInv

(* A range leaves no job behind without an error to show for it.           *)
THEOREM RangesAreAlwaysDone == Spec => []RangesAreDone
  BY Invariance, PTL DEF IInv

-----------------------------------------------------------------------------
(* collect() returns the results in the order of the jobs, or a real error *)
(* (writer.rs:157, reader.rs:277 and 618).                                 *)
LEMMA CollectMaps == IInv /\ Collect => Map!Collect
  <1> SUFFICES ASSUME IInv, Collect PROVE Map!Collect
    OBVIOUS
  <1> USE DEF IInv
  <1>1. UNCHANGED <<[i \in Jobs |-> Alone(i)], {i \in Jobs : Fails(i)}>>
    BY DEF Collect, input, Alone, IsEmpty, Fails
  <1>2. CASE saved # NoJob
    <2>1. saved \in {i \in Jobs : Fails(i)}
      BY <1>2 DEF TypeOK, ErrorsAreReal
    <2> QED BY <1>1, <1>2, <2>1 DEF Collect, Map!Collect, Map!Pending, Map!ErrorOf
  <1>3. CASE saved = NoJob
    <2>1. ASSUME NEW i \in Jobs PROVE i < at[first[i]]
      <3>1. /\ first[i] \in Ranges /\ first[i] \in Jobs /\ first[i] <= i
            /\ first[first[i]] = first[i] /\ first[i] \in Nat /\ i \in Nat
        BY BatchSize DEF Ranges, TypeOK, CutInRanges, Jobs
      <3>2. ~InRange(first[i], at[first[i]]) /\ at[first[i]] >= first[i] /\ at[first[i]] \in Nat
        BY <1>3, <3>1 DEF Collect, RangesAreDone, CodecsInStep, TypeOK
      <3>3. ASSUME at[first[i]] <= i PROVE FALSE
        <4>1. at[first[i]] \in Jobs
          BY <3>1, <3>2, <3>3, BatchSize DEF Jobs
        <4>2. first[first[i]] <= first[at[first[i]]] /\ first[at[first[i]]] <= first[i]
          BY <3>1, <3>2, <3>3, <4>1 DEF CutInRanges
        <4>3. first[at[first[i]]] \in Nat
          BY <4>1, BatchSize DEF TypeOK, Jobs
        <4> QED BY <3>1, <3>2, <4>1, <4>2, <4>3 DEF InRange
      <3> QED BY <3>1, <3>2, <3>3
    <2>2. \A i \in Jobs : done[i] = Alone(i) /\ ~Fails(i)
      BY <2>1 DEF RangesAreDone, NothingLeaks, ErrorsAreReal
    <2>3. done = [i \in Jobs |-> Alone(i)] /\ {i \in Jobs : Fails(i)} = {}
      BY <2>2 DEF TypeOK
    <2> QED BY <1>1, <1>3, <2>3 DEF Collect, Map!Collect, Map!Pending, Map!Results
  <1> QED BY <1>2, <1>3

(* Every step of the threads is the one step of the ordered map, or does   *)
(* not show.                                                               *)
THEOREM BatchIsAnOrderedMap == Spec => ImplementsOrderedMap
  <1>1. Init => Map!Init
    BY DEF Init, Map!Init, Map!Pending
  <1>2. IInv /\ [Next]_vars => [Map!Collect]_Map!vars
    <2> SUFFICES ASSUME IInv, [Next]_vars, ~Collect PROVE UNCHANGED Map!vars
      BY CollectMaps
    <2>1. UNCHANGED input /\ UNCHANGED answer
      BY DEF Next, vars, Step, Take, EndRange, Prepare, Run, HandOn, Deliver, SaveError, StopAll
    <2> QED BY <2>1 DEF Map!vars, input, Alone, IsEmpty, Fails
  <1> QED BY <1>1, <1>2, Invariance, PTL DEF Spec, ImplementsOrderedMap, Map!Spec
=============================================================================
