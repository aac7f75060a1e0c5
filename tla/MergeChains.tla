------------------------------ MODULE MergeChains ------------------------------
(***************************************************************************)
(* The walks along data_principal.merged_into_id: up, to the row somebody  *)
(* was folded into, and down, to the rows that were folded into them.      *)
(***************************************************************************)
EXTENDS Naturals

\* The rows at most depth links away from p along into, where none is SQL NULL.
ChainFrom(p, into, depth, none) ==
  LET reached[n \in 0 .. depth] ==
        IF n = 0 THEN {p}
        ELSE reached[n - 1] \cup ({into[q] : q \in reached[n - 1]} \ {none})
  IN  reached[depth]

\* The rows at most depth links below p: the levels of a query that joins the
\* rows whose link points at the level before.
FoldedBelow(p, into, rows, depth) ==
  LET level[n \in 0 .. depth] ==
        IF n = 0 THEN {p} ELSE {q \in rows : into[q] \in level[n - 1]}
  IN  UNION {level[n] : n \in 0 .. depth}
================================================================================
