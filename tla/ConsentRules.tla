----------------------------- MODULE ConsentRules -----------------------------
(***************************************************************************)
(* The two rules that decide what a consent record says: which form may    *)
(* replace it (commitDraft) and which of two records survives a merge      *)
(* (mergePrincipals).  Pure definitions, shared by the modules that model  *)
(* the register one transaction at a time and one statement at a time.     *)
(***************************************************************************)
EXTENDS Integers, FiniteSets

CONSTANTS
  Persons,   \* identities: a contact point and a normalised name
  Purposes,  \* the purpose catalogue
  Drafts,    \* ids of intake drafts, and of the artifacts made from them
  MaxDay,    \* bound on the calendar
  None       \* SQL NULL, for an id

ASSUME RulesAssumption ==
  /\ MaxDay \in Nat
  /\ None \notin Persons /\ None \notin Drafts

NoDay == -1
Day   == 0 .. MaxDay
DayOrNull == Day \cup {NoDay}

\* What payload_hash covers.  granted and declined are the ticked and unticked
\* boxes; validateDraft refuses a purpose answered twice.
Form == [subject : Persons, collectedOn : DayOrNull,
         granted : SUBSET Purposes, declined : SUBSET Purposes]

Asked(f) == f.granted \cup f.declined

\* status "none" is the absence of the row.
Record == [status : {"none", "active", "declined", "withdrawn"},
           source : Drafts \cup {None},
           givenOn : DayOrNull, withdrawnOn : DayOrNull]

NoRecord == [status |-> "none", source |-> None,
             givenOn |-> NoDay, withdrawnOn |-> NoDay]

-----------------------------------------------------------------------------
(* The projection of a form onto a consent record                          *)

\* Mutant of WinsOver: a form of the day of the withdrawal overrides it.
WinsOverOnATie(f, rec) ==
  \/ rec.status = "none"
  \/ /\ f.collectedOn # NoDay
     /\ rec.status = "withdrawn" => rec.withdrawnOn <= f.collectedOn
     /\ rec.givenOn # NoDay => rec.givenOn <= f.collectedOn

\* Mutant of WinsOver: an older form overrides a later signature.
WinsOverAnyAnswer(f, rec) ==
  \/ rec.status = "none"
  \/ /\ f.collectedOn # NoDay
     /\ rec.status = "withdrawn" => rec.withdrawnOn < f.collectedOn

\* Mutant of WinsOver: when consent was withdrawn is not looked at.
WinsOverAnyStop(f, rec) ==
  \/ rec.status = "none"
  \/ /\ f.collectedOn # NoDay
     /\ rec.givenOn # NoDay => rec.givenOn <= f.collectedOn

\* A form wins only if it can be shown to be later: an undated one never
\* replaces a row, a withdrawal on or after its date stands, and so does an
\* answer signed after it.
WinsOver(f, rec) ==
  \/ rec.status = "none"
  \/ /\ f.collectedOn # NoDay
     /\ rec.status = "withdrawn" => rec.withdrawnOn < f.collectedOn
     /\ rec.givenOn # NoDay => rec.givenOn <= f.collectedOn

Answered(d, f, u) ==
  [status |-> IF u \in f.granted THEN "active" ELSE "declined",
   source |-> d, givenOn |-> f.collectedOn, withdrawnOn |-> NoDay]

\* Mutant of Projected: the update forgets withdrawn_at = NULL.
ProjectedKeepingStop(d, f, rec, u) ==
  IF u \in Asked(f) /\ WinsOver(f, rec)
  THEN [Answered(d, f, u) EXCEPT !.withdrawnOn = rec.withdrawnOn] ELSE rec

Projected(d, f, rec, u) ==
  IF u \in Asked(f) /\ WinsOver(f, rec) THEN Answered(d, f, u) ELSE rec

-----------------------------------------------------------------------------
(* The reconciliation of two records in a merge                            *)

\* Mutant of AbsorbedWins: the later signature wins even over a withdrawal.
LaterSignatureWins(surv, abs, absorbedFirst) ==
  /\ abs.givenOn # NoDay
  /\ surv.givenOn # NoDay => abs.givenOn > surv.givenOn

\* A withdrawal never loses, and the earliest of two is kept; absorbedFirst
\* orders two on the same day.  Otherwise the later signature wins, and an
\* undated record never beats a dated one.
AbsorbedWins(surv, abs, absorbedFirst) ==
  \/ /\ abs.status = "withdrawn"
     /\ surv.status = "withdrawn" =>
          \/ abs.withdrawnOn < surv.withdrawnOn
          \/ abs.withdrawnOn = surv.withdrawnOn /\ absorbedFirst
  \/ /\ abs.status # "withdrawn" /\ surv.status # "withdrawn"
     /\ abs.givenOn # NoDay
     /\ surv.givenOn # NoDay => abs.givenOn > surv.givenOn

\* Mutant of Reconciled: the copy leaves out source_artifact_id.
ReconciledButSource(surv, abs, absorbedFirst) ==
  IF /\ abs.status # "none"
     /\ surv.status = "none" \/ AbsorbedWins(surv, abs, absorbedFirst)
  THEN IF surv.status = "none" THEN abs ELSE [abs EXCEPT !.source = surv.source]
  ELSE surv

Reconciled(surv, abs, absorbedFirst) ==
  IF /\ abs.status # "none"
     /\ surv.status = "none" \/ AbsorbedWins(surv, abs, absorbedFirst)
  THEN abs ELSE surv
===============================================================================
