---------------------------- MODULE MCPgzfWriter ----------------------------
(***************************************************************************)
(* The writer alone, with 32 values for the 16-bit lengths: they wrap in   *)
(* an IDX member of three entries.                                         *)
(***************************************************************************)
EXTENDS PgzfWriter
=============================================================================
