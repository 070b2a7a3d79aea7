--------------------------- MODULE MCParallelMap ---------------------------
(***************************************************************************)
(* Three jobs in one to three ranges, any of them damaged in any way.      *)
(***************************************************************************)
EXTENDS ParallelMap
=============================================================================
