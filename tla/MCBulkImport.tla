----------------------------- MODULE MCBulkImport -----------------------------
(***************************************************************************)
(* Instances of BulkImport for TLC: spreadsheets without rows, of two      *)
(* people alike, and hard to read.                                         *)
(***************************************************************************)
EXTENDS BulkImport, TLC

CONSTANTS p, q, u, v

Tick(a, b) == u :> a @@ v :> b
MCRow(who, date, ticks) == [who |-> who, date |-> date, ticks |-> ticks]

Plain == MCRow(p, "past", Tick("yes", "no"))

Hard == MCRow(p, "ambiguous", Tick("yes", "unclear"))

MCSheets ==
  {<<>>, <<Plain, MCRow(q, "blank", Tick("yes", "yes"))>>,
   <<Hard, MCRow(None, "future", Tick("no", "no"))>>}

MCSimilar == {<<p, q>>}

MCMappings == {[dated |-> TRUE, columns |-> {u, v}], [dated |-> FALSE, columns |-> {u}]}

\* The requests of a kind are interchangeable.
Requests == Permutations(MapCalls) \cup Permutations(CommitCalls)

MCReadings == {[who |-> p, date |-> "past", granted |-> {u}, declined |-> {v}]}
===============================================================================
