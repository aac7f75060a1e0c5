--------------------------- MODULE MCRegisterClaims ---------------------------
(***************************************************************************)
(* An instance of RegisterClaims for TLC.                                  *)
(***************************************************************************)
EXTENDS RegisterClaims, TLC

CONSTANTS p1, p2, u1

Paper(p, day) ==
  [subject |-> p, collectedOn |-> day, granted |-> {u1}, declined |-> {}]

\* Forms of the first two days, so that one may be signed between a withdrawal on
\* the first and a withdrawal on the third.
PapersOfTwo == {Paper(p, day) : p \in {p1, p2}, day \in {0, 1}}
===============================================================================
