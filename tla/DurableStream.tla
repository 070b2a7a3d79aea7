--------------------------- MODULE DurableStream ---------------------------
(***************************************************************************)
(* What PgzfWriter promises of the file under it, at every moment of every *)
(* call: opened there and then, after a crash included, it reads as a      *)
(* prefix of the input, which only grows, and which is all of the input    *)
(* once finish() has returned.                                             *)
(***************************************************************************)
EXTENDS Integers

VARIABLES
  accepted,  \* bytes of input taken
  durable,   \* bytes that a reader of the file as it is gets back
  finished   \* finish() returned

vars == <<accepted, durable, finished>>

Init ==
  /\ accepted = 0 /\ durable = 0
  /\ finished = FALSE

Accept ==
  /\ ~finished
  /\ accepted' > accepted
  /\ UNCHANGED <<durable, finished>>

Secure ==
  /\ ~finished
  /\ durable' > durable /\ durable' <= accepted
  /\ UNCHANGED <<accepted, finished>>

Finish ==
  /\ ~finished
  /\ durable = accepted
  /\ finished' = TRUE
  /\ UNCHANGED <<accepted, durable>>

(* Another writer goes on behind a finished file.                          *)
Continue ==
  /\ finished
  /\ finished' = FALSE
  /\ UNCHANGED <<accepted, durable>>

Next == Accept \/ Secure \/ Finish \/ Continue

Spec == Init /\ [][Next]_vars
=============================================================================
