----------------------------- MODULE MCPgzfCli -----------------------------
(***************************************************************************)
(* Three files: long data a, an archive b of short data, with a copy that  *)
(* was cut, and the work of gzip.  The command lines are those of the      *)
(* README and what they become with other options and files.               *)
(***************************************************************************)
EXTENDS PgzfCli

A == <<"a">>
AGz == <<"a", "gz">>
B == <<"b">>
BGz == <<"b", "gz">>
G == <<"g">>
GGz == <<"g", "gz">>
E == <<"e">>
Missing == <<"m">>

MCDisk ==
  LET content(p) == CASE p = A -> <<"x">> [] p = BGz -> <<"pgzf", "y">> [] p = GGz -> <<"gzip", "z">>
                      [] p = E -> <<>>
  IN [p \in {A, BGz, GGz, E} |-> content(p)]

Line(mode, files) == [NoInvocation EXCEPT !.mode = mode, !.files = files]

Options(i) ==
  {i, [i EXCEPT !.stdout = TRUE], [i EXCEPT !.keep = TRUE], [i EXCEPT !.force = TRUE],
   [i EXCEPT !.output = B], [i EXCEPT !.output = B, !.stdout = TRUE],
   [i EXCEPT !.output = AGz, !.force = TRUE]}

MCInvocations ==
  UNION {Options(Line("compress", f)) : f \in {<<>>, <<A>>, <<B>>, <<A, B>>, <<E, Missing>>}}
  \cup UNION {Options(Line("decompress", f)) : f \in {<<AGz>>, <<BGz>>, <<GGz>>, <<A>>, <<AGz, BGz>>}}
  \cup {[Line("decompress", f) EXCEPT !.part = TRUE, !.keep = k] : f \in {<<BGz>>}, k \in BOOLEAN}
  \cup {[Line("compress", <<A>>) EXCEPT !.block_size_mb = 0],
        [Line("compress", <<A, A>>) EXCEPT !.keep = TRUE, !.force = TRUE]}
  \cup {[Line(m, <<>>) EXCEPT !.stdin = c, !.output = o] :
          m \in {"compress", "decompress"}, c \in {<<"x">>, <<"pgzf", "x">>}, o \in {NoPath, AGz}}
  \cup {Line("inspect", f) : f \in {<<>>, <<BGz, GGz>>, <<AGz>>, <<B>>, <<A>>, <<Missing>>}}
=============================================================================
