----------------------------- MODULE EvidenceStore -----------------------------
(***************************************************************************)
(* Scans: a row of evidence_object and a file under EVIDENCE_DIR, written  *)
(* one after the other with no transaction over both; the screen that      *)
(* uploads and reads a folder of documents; the script that drafts from    *)
(* what is stored; the route that serves an object, and its narrowing once *)
(* the person has withdrawn.                                               *)
(*                                                                         *)
(* A call of putEvidence is a document, and the row and the file it would  *)
(* create bear its name.                                                   *)
(***************************************************************************)
EXTENDS Naturals, FiniteSets

CONSTANTS
  Documents,    \* calls of putEvidence
  Plans,        \* what the screens attach: attached, the documents; carries, the
                \* bytes and kind of each; before, <<d, e>> when one screen sends d
                \* and then e; about, the people whose forms they may be
  Openings,     \* requests for the bytes of an object
  Batches,      \* runs of extract-batch
  People, PurposeIds

NoObject == {}
Nobody   == {}

ASSUME EvidenceAssumption ==
  /\ NoObject \notin Documents /\ Nobody \notin People
  /\ \A p \in Plans : /\ p.attached \subseteq Documents /\ p.about \subseteq People
                       /\ p.before \subseteq p.attached \X p.attached

VARIABLES
  plan,         \* which of the plans it is
  row,          \* evidence_object
  disk,         \* EVIDENCE_DIR
  stage,        \* progress of each document
  answer,       \* the object its upload was answered with
  known,        \* objects whose upload had been answered when this one began
  gone,         \* objects that had been destroyed by then
  destroying,   \* progress of the destruction of each object
  drafts,       \* <<o, by>>: an intake_draft with evidence_id o
  todo,         \* the scans each batch run has listed and not reached
  artifact,     \* <<o, p>>: a consent_artifact of p that rests on o
  record,       \* status of the record of each person under each purpose
  mergedInto,   \* data_principal.merged_into_id
  opening       \* progress of each request for an object

store   == <<row, disk>>
uploads == <<stage, answer, known, gone>>
people  == <<artifact, record, mergedInto>>
vars    == <<plan, store, uploads, destroying, drafts, todo, people, opening>>

NoRow     == "none"
NotListed == {NoObject}

\* A row is live until it is destroyed, and is kept after that.
Live(o) == row[o] = "live"

Screen == "screen"

Uploading == {"look", "insert", "open", "write", "undo"}
Stages    == Uploading \cup {"queued", "stored", "done", "failed"}

Statuses == {"none", "active", "declined", "withdrawn"}

Unopened == [object |-> NoObject, dpo |-> FALSE]

TypeOK ==
  /\ plan \in Plans
  /\ row \in [Documents -> {NoRow, "live", "destroyed"}]
  /\ disk \in [Documents -> {"none", "part", "whole"}]
  /\ stage \in [Documents -> Stages]
  /\ answer \in [Documents -> Documents \cup {NoObject}]
  /\ known \in [Documents -> SUBSET Documents]
  /\ gone \in [Documents -> SUBSET Documents]
  /\ destroying \in [Documents -> {"no", "unlink", "ended"}]
  /\ drafts \subseteq Documents \X (Batches \cup {Screen})
  /\ todo \in [Batches -> {NotListed} \cup SUBSET Documents]
  /\ artifact \subseteq Documents \X People
  /\ record \in [People -> [PurposeIds -> Statuses]]
  /\ mergedInto \in [People -> People \cup {Nobody}]
  /\ opening \in [Openings -> [object : Documents \cup {NoObject}, dpo : BOOLEAN]]

Init ==
  /\ plan \in Plans
  /\ row = [o \in Documents |-> NoRow]
  /\ disk = [o \in Documents |-> "none"]
  /\ stage = [d \in Documents |-> "queued"]
  /\ answer = [d \in Documents |-> NoObject]
  /\ known = [d \in Documents |-> {}]
  /\ gone = [d \in Documents |-> {}]
  /\ destroying = [o \in Documents |-> "no"]
  /\ drafts = {}
  /\ todo = [b \in Batches |-> NotListed]
  /\ artifact = {}
  /\ record = [p \in People |-> [u \in PurposeIds |-> "none"]]
  /\ mergedInto = [p \in People |-> Nobody]
  /\ opening = [r \in Openings |-> Unopened]

-----------------------------------------------------------------------------
(* putEvidence, called for one document after another by a screen          *)

Go(d, s) == stage' = [stage EXCEPT ![d] = s]

\* Mutant of Over: an upload that fails ends the loop.
OverUnlessFailed(d) == stage[d] = "done"

\* A document that fails is marked so, and the loop goes on.
Over(d) == stage[d] \in {"done", "failed"}

Begin(d) ==
  /\ d \in plan.attached /\ stage[d] = "queued"
  /\ \A e \in Documents : <<e, d>> \in plan.before => Over(e)
  /\ known' = [known EXCEPT ![d] = {answer[e] : e \in Documents} \ {NoObject}]
  /\ gone' = [gone EXCEPT ![d] = {o \in Documents : row[o] = "destroyed"}]
  /\ Go(d, "look")
  /\ UNCHANGED <<plan, store, answer, destroying, drafts, todo, people, opening>>

\* Rows with the same bytes and kind that have not been destroyed.
Identical(d) == {o \in Documents : Live(o) /\ plan.carries[o] = plan.carries[d]}

Look(d) ==
  /\ stage[d] = "look"
  /\ IF Identical(d) = {}
     THEN UNCHANGED answer /\ Go(d, "insert")
     ELSE /\ \E o \in Identical(d) : answer' = [answer EXCEPT ![d] = o]
          /\ Go(d, "stored")
  /\ UNCHANGED <<plan, store, known, gone, destroying, drafts, todo, people, opening>>

\* Mutant of InsertRow: the file is written first.
InsertRowLate(d) ==
  /\ stage[d] = "insert"
  /\ disk' = [disk EXCEPT ![d] = "whole"]
  /\ Go(d, "open")
  /\ UNCHANGED <<plan, row, answer, known, gone, destroying, drafts, todo, people, opening>>

\* The row commits by itself, before the bytes.
InsertRow(d) ==
  /\ stage[d] = "insert"
  /\ row' = [row EXCEPT ![d] = "live"]
  /\ Go(d, "open")
  /\ UNCHANGED <<plan, disk, answer, known, gone, destroying, drafts, todo, people, opening>>

\* Mutant of OpenFile: nobody waits for writeFile.
OpenFileUnawaited(d) ==
  /\ stage[d] = "open"
  /\ disk' = [disk EXCEPT ![d] = "part"]
  /\ answer' = [answer EXCEPT ![d] = d]
  /\ Go(d, "stored")
  /\ UNCHANGED <<plan, row, known, gone, destroying, drafts, todo, people, opening>>

\* writeFile creates the file and fills it.
OpenFile(d) ==
  /\ stage[d] = "open"
  /\ disk' = [disk EXCEPT ![d] = "part"]
  /\ Go(d, "write")
  /\ UNCHANGED <<plan, row, answer, known, gone, destroying, drafts, todo, people, opening>>

WriteFile(d) ==
  /\ stage[d] = "write"
  /\ disk' = [disk EXCEPT ![d] = IF @ = "none" THEN "none" ELSE "whole"]
  /\ answer' = [answer EXCEPT ![d] = d]
  /\ Go(d, "stored")
  /\ UNCHANGED <<plan, row, known, gone, destroying, drafts, todo, people, opening>>

\* mkdir, the creation of the file or the writing fails: what is on disk stays.
FailFile(d) ==
  /\ stage[d] \in {"open", "write"}
  /\ Go(d, "undo")
  /\ UNCHANGED <<plan, store, answer, known, gone, destroying, drafts, todo, people, opening>>

\* Foreign keys with ON DELETE RESTRICT.
Referenced(o) ==
  (\E by \in Batches \cup {Screen} : <<o, by>> \in drafts) \/ (\E p \in People : <<o, p>> \in artifact)

\* Best effort: the row is deleted, unless the statement fails.
Undo(d) ==
  /\ stage[d] = "undo"
  /\ \/ ~ Referenced(d) /\ row' = [row EXCEPT ![d] = NoRow]
     \/ UNCHANGED row
  /\ Go(d, "failed")
  /\ UNCHANGED <<plan, disk, answer, known, gone, destroying, drafts, todo, people, opening>>

\* The server dies, or the answer is lost.
Crash(d) ==
  /\ stage[d] \in Uploading \cup {"stored"}
  /\ Go(d, "failed")
  /\ UNCHANGED <<plan, store, answer, known, gone, destroying, drafts, todo, people, opening>>

-----------------------------------------------------------------------------
(* POST /api/staff/extract for the object the upload was answered with     *)

\* Where a service is configured, an object that is gone is an error.  Anything
\* else is an answer: no service, bytes that cannot be read, a service that fails
\* or takes too long are all "nothing was read", and the register is left alone.
Extract(d) ==
  /\ stage[d] = "stored"
  /\ \/ Go(d, "done")
     \/ ~ Live(answer[d]) /\ Go(d, "failed")
  /\ UNCHANGED <<plan, store, answer, known, gone, destroying, drafts, todo, people, opening>>

-----------------------------------------------------------------------------
(* destroyEvidence                                                         *)

\* Identifiers of objects come from answers.
Answered(o) == \E d \in Documents : answer[d] = o

MarkDestroyed(o) ==
  /\ Live(o) /\ Answered(o)
  /\ row' = [row EXCEPT ![o] = "destroyed"]
  /\ destroying' = [destroying EXCEPT ![o] = "unlink"]
  /\ UNCHANGED <<plan, disk, uploads, drafts, todo, people, opening>>

\* A missing file is not an error, any other failure is, and neither is tried again.
Unlink(o) ==
  /\ destroying[o] = "unlink"
  /\ disk' \in {disk, [disk EXCEPT ![o] = "none"]}
  /\ destroying' = [destroying EXCEPT ![o] = "ended"]
  /\ UNCHANGED <<plan, row, uploads, drafts, todo, people, opening>>

-----------------------------------------------------------------------------
(* Drafts on a scan: by hand, and by extract-batch                         *)

\* A draft may be saved as soon as the screen has been answered with an object.
SaveDraft(d) ==
  /\ answer[d] # NoObject /\ row[answer[d]] # NoRow
  /\ drafts' = drafts \cup {<<answer[d], Screen>>}
  /\ UNCHANGED <<plan, store, uploads, destroying, todo, people, opening>>

\* One query lists every object without a draft, whatever its kind.
ListScans(b) ==
  /\ todo[b] = NotListed
  /\ todo' = [todo EXCEPT ![b] =
       {o \in Documents : Live(o) /\ \A by \in Batches \cup {Screen} : <<o, by>> \notin drafts}]
  /\ UNCHANGED <<plan, store, uploads, destroying, drafts, people, opening>>

\* Missing bytes and a service that fails are reported and passed over.
DraftScan(b, o) ==
  /\ o \in todo[b]
  /\ todo' = [todo EXCEPT ![b] = @ \ {o}]
  /\ \/ disk[o] # "none" /\ row[o] # NoRow /\ drafts' = drafts \cup {<<o, b>>}
     \/ UNCHANGED drafts
  /\ UNCHANGED <<plan, store, uploads, destroying, people, opening>>

\* The row has been deleted since: the insert fails and the script with it.
DraftOfNothing(b, o) ==
  /\ o \in todo[b]
  /\ disk[o] # "none" /\ row[o] = NoRow
  /\ todo' = [todo EXCEPT ![b] = {}]
  /\ UNCHANGED <<plan, store, uploads, destroying, drafts, people, opening>>

-----------------------------------------------------------------------------
(* The register, as far as access to a scan depends on it                  *)

Standing(p) == mergedInto[p] = Nobody

\* commitDraft on a draft with this scan: under each purpose the form grants, or
\* declines, or is silent or older than what stands.
Digitise(o, p) ==
  /\ \E by \in Batches \cup {Screen} : <<o, by>> \in drafts
  /\ p \in plan.about /\ Standing(p)
  /\ artifact' = artifact \cup {<<o, p>>}
  /\ \E settled \in [PurposeIds -> Statuses] :
       /\ \A u \in PurposeIds : settled[u] \in {record[p][u], "active", "declined"}
       /\ record' = [record EXCEPT ![p] = settled]
  /\ UNCHANGED <<plan, store, uploads, destroying, drafts, todo, mergedInto, opening>>

\* withdrawPurposes, over every purpose: what was declined stays as it is.
WithdrawAll(p) ==
  /\ Standing(p) /\ \E u \in PurposeIds : record[p][u] = "active"
  /\ record' = [record EXCEPT ![p] =
       [u \in PurposeIds |-> IF @[u] = "active" THEN "withdrawn" ELSE @[u]]]
  /\ UNCHANGED <<plan, store, uploads, destroying, drafts, todo, artifact, mergedInto, opening>>

\* Records move to the survivor, one of two under a purpose both have; artifacts
\* stay where they are.
Merge(p, q) ==
  /\ {p, q} \subseteq plan.about /\ p # q /\ Standing(p) /\ Standing(q)
  /\ mergedInto' = [mergedInto EXCEPT ![p] = q]
  /\ \E kept \in [PurposeIds -> Statuses] :
       /\ \A u \in PurposeIds :
            /\ kept[u] \in {record[p][u], record[q][u]}
            /\ kept[u] = "none" => record[p][u] = "none" /\ record[q][u] = "none"
       /\ record' = [record EXCEPT ![p] = [u \in PurposeIds |-> "none"], ![q] = kept]
  /\ UNCHANGED <<plan, store, uploads, destroying, drafts, todo, artifact, opening>>

-----------------------------------------------------------------------------
(* GET /api/staff/evidence/[id]                                            *)

\* The statuses of all records under a person.
Held(p) == {record[p][u] : u \in PurposeIds} \ {"none"}

\* Every record under the artifact's own person is withdrawn: for a DPO only.  An
\* AND over no records is NULL, and counts as false.
Narrowed(p, dpo) == Held(p) = {"withdrawn"} /\ ~ dpo

Holders(o) == {p \in People : <<o, p>> \in artifact}

\* LIMIT 1 over the artifacts that rest on the object: any one of them.
Open(r, o, dpo) ==
  /\ opening[r] = Unopened /\ Answered(o) /\ Live(o)
  /\ Holders(o) # {} => \E p \in Holders(o) : ~ Narrowed(p, dpo)
  /\ opening' = [opening EXCEPT ![r] = [object |-> o, dpo |-> dpo]]
  /\ UNCHANGED <<plan, store, uploads, destroying, drafts, todo, people>>

\* Whatever the file holds by then is what is served; no file, an error.
Serve(r) ==
  /\ opening[r] # Unopened
  /\ opening' = [opening EXCEPT ![r] = Unopened]
  /\ UNCHANGED <<plan, store, uploads, destroying, drafts, todo, people>>

-----------------------------------------------------------------------------
Put(d) ==
  \/ Begin(d) \/ Look(d) \/ InsertRow(d) \/ OpenFile(d) \/ WriteFile(d) \/ FailFile(d) \/ Undo(d) \/ Extract(d)

Next ==
  \/ \E d \in Documents : Put(d) \/ Crash(d) \/ MarkDestroyed(d) \/ Unlink(d) \/ SaveDraft(d)
  \/ \E b \in Batches : ListScans(b) \/ \E o \in Documents : DraftScan(b, o) \/ DraftOfNothing(b, o)
  \/ \E p \in People : WithdrawAll(p) \/ \E o \in Documents : Digitise(o, p)
  \/ \E p, q \in People : Merge(p, q)
  \/ \E r \in Openings : Serve(r) \/ \E o \in Documents, dpo \in BOOLEAN : Open(r, o, dpo)

\* A request that runs is answered or fails: the calls out of it have time limits.
Spec == Init /\ [][Next]_vars /\ \A d \in Documents : WF_vars(Put(d))

-----------------------------------------------------------------------------
(* Properties                                                              *)

\* No whole scan lies on disk that no row knows of: a retention sweep reaches
\* every one, whatever failed or crashed, and whoever deleted a row.
FilesAreIndexed == \A o \in Documents : disk[o] = "whole" => row[o] # NoRow

\* The upload that made o went through to the end of its file.
Completed(o) == answer[o] = o

\* An upload is answered with an object of its bytes and kind that had not been
\* destroyed before it began, and whose file is whole until it is destroyed: unless
\* the upload that made the object has broken off, or not ended.  When the same
\* bytes were on file by then, and still are, it adds no copy of its own.
UploadsShareBytes ==
  \A d, o \in Documents :
    /\ answer[d] = o =>
         /\ plan.carries[o] = plan.carries[d] /\ o \notin gone[d]
         /\ Completed(o) => disk[o] = "whole" \/ row[o] = "destroyed"
    /\ o \in known[d] /\ Live(o) /\ plan.carries[o] = plan.carries[d] /\ o # d
         => row[d] = NoRow

\* Every attached document ends as read or failed, whichever of them fail.
EveryDocumentEnds ==
  \A d \in Documents : <>(d \notin plan.attached \/ stage[d] \in {"done", "failed"})
===============================================================================
