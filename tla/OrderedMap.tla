----------------------------- MODULE OrderedMap -----------------------------
(***************************************************************************)
(* What the writer and the reader take par_iter().map_init(..).collect()   *)
(* to be: in one step, the results of all jobs in the order of the jobs,   *)
(* or the error of one of those that fail.                                 *)
(***************************************************************************)
VARIABLES
  wanted,  \* job -> its result when it is the only one
  bad,     \* jobs that fail
  answer   \* what collect() returns

vars == <<wanted, bad, answer>>

Pending == [state |-> "pending"]
Results == [state |-> "ok", results |-> wanted]
ErrorOf(job) == [state |-> "error", job |-> job]

Init == answer = Pending

Collect ==
  /\ answer = Pending
  /\ IF bad = {} THEN answer' = Results ELSE \E job \in bad : answer' = ErrorOf(job)
  /\ UNCHANGED <<wanted, bad>>

Spec == Init /\ [][Collect]_vars
=============================================================================
