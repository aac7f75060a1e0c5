---------------------------- MODULE MCEvidenceStore ----------------------------
(***************************************************************************)
(* Instances of EvidenceStore for TLC.                                     *)
(***************************************************************************)
EXTENDS EvidenceStore, TLC

CONSTANTS d1, d2, p, q

\* One scan attached twice by two screens or by one, a scan and a signature with
\* the same bytes, and one scan with the forms of two people.
Scan(second) == d1 :> "scan" @@ d2 :> second
Both(second, order, about) ==
  [attached |-> {d1, d2}, carries |-> Scan(second), before |-> order, about |-> about]
MCPlans ==
  {Both("scan", {}, {}), Both("scan", {<<d1, d2>>}, {p}), Both("signature", {}, {}),
   [attached |-> {d1}, carries |-> Scan("scan"), before |-> {}, about |-> {p, q}]}
================================================================================
