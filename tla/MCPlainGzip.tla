---------------------------- MODULE MCPlainGzip ----------------------------
(***************************************************************************)
(* What gzip makes of a named file (no extra field), followed by a member  *)
(* with an extra field and by a group of PGZF members.                     *)
(***************************************************************************)
EXTENDS PlainGzip, TLC

Member(form, type, xlen, size, from, to) ==
  [form |-> form, type |-> type, xlen |-> xlen, size |-> size, from |-> from, to |-> to]

MCMembers ==
  (0 :> Member("bare", "dat", 0, 30, 0, 3)) @@ (30 :> Member("foreign", "dat", 6, 30, 3, 5)) @@
  (60 :> Member("pgzf", "beg", 20, 45, 5, 8)) @@ (105 :> Member("pgzf", "idx", 20, 43, 0, 0))
=============================================================================
