----------------------------- MODULE MCReviewDesk -----------------------------
(***************************************************************************)
(* Instances of ReviewDesk for TLC: two names alike and one that is not,   *)
(* two form versions.                                                      *)
(***************************************************************************)
EXTENDS ReviewDesk, TLC

CONSTANTS asha, aasha, ravi, phone, short, long, calls, letters

AlikeNames == {<<aasha, asha>>, <<asha, aasha>>}
AshaOnFile == {<<asha, phone>>}
PrintedOn  == (short :> {calls} @@ long :> {calls, letters})

\* Rows as they may be queued: one with a number that cannot be dialled and an item
\* outside the catalogue, and one of a version that does not print all its boxes.
Unfit == [EmptyPayload EXCEPT !.name = aasha, !.contact = "bad", !.items = {calls}, !.mapped = FALSE]
Aashas == [EmptyPayload EXCEPT !.name = aasha, !.contact = phone, !.notice = short,
                               !.items = {calls, letters}, !.granted = {letters}]
Rows  == {Unfit, Aashas}
Staff == Permutations(Reviewers)

\* Many saves beside one another, or a scan that is read; and what each claim needs.
Spare(e, u, s) == [edits |-> e, uploads |-> u, saves |-> s]
SavesOrScan  == {Spare(2, 0, 3), Spare(2, 1, 1)}
ToLockItself == {Spare(2, 1, 2)}
ToOutrank    == {Spare(3, 1, 2)}
===============================================================================
