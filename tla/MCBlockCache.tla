---------------------------- MODULE MCBlockCache ----------------------------
(***************************************************************************)
(* Three blocks, and contents of three lengths: small enough to share the  *)
(* limit of 4 bytes, filling it, and larger than the limit by itself.      *)
(***************************************************************************)
EXTENDS BlockCache

MCDatas == {"small", "medium", "large"}
MCSize == [d \in MCDatas |-> CASE d = "small" -> 1 [] d = "medium" -> 3 [] d = "large" -> 5]
MCLimits == {NoLimit, 4}
=============================================================================
