-------------------------- MODULE MCConsentRegister --------------------------
(***************************************************************************)
(* Instances of ConsentRegister for TLC.                                   *)
(***************************************************************************)
EXTENDS ConsentRegister, TLC

CONSTANTS p1, p2, p3, u1

Paper(p, day, yes, no) ==
  [subject |-> p, collectedOn |-> day, granted |-> yes, declined |-> no]

\* Two people whose forms could be mistaken for one another's.
AlikePair == {<<p1, p2>>, <<p2, p1>>}

\* Forms of three people: undated, old and recent, one of them a refusal; the
\* third has only an old one.
PapersOfThree ==
  {Paper(p, day, {u1}, {}) : p \in {p1, p2}, day \in {0, 2}}
    \cup {Paper(p1, NoDay, {u1}, {}), Paper(p1, 1, {}, {u1}), Paper(p3, 0, {u1}, {})}

DraftSymmetry == Permutations(Drafts)
=============================================================================
