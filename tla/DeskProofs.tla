------------------------------- MODULE DeskProofs -------------------------------
(***************************************************************************)
(* The desk on which scans become drafts and drafts become records, for    *)
(* any documents, any staff and any people: theorems about EvidenceStore,  *)
(* what rows, files and answers tell of each other, and about ReviewDesk,  *)
(* what reviewers see, say and file.                                       *)
(***************************************************************************)
EXTENDS EvidenceStore, ReviewDesk, TLAPS

-----------------------------------------------------------------------------
(* The store: the invariant                                                *)

\* The upload of d has not written a row yet.
Early(d) == stage[d] \in {"queued", "look", "insert"}

\* The row comes before the file, and an undo only before the file is whole.
RowsComeFirst ==
  \A d \in Documents :
    /\ Early(d) => row[d] = NoRow /\ disk[d] = "none"
    /\ stage[d] \in {"open", "write", "undo"} => row[d] # NoRow /\ disk[d] # "whole"
    /\ disk[d] = "whole" => row[d] # NoRow

\* An object has been written when an answer names it, and whoever finds it, and
\* is never written again; what was destroyed does not come back to life.
AnswersAreWritten ==
  \A d, o \in Documents :
    /\ Early(d) => answer[d] = NoObject
    /\ answer[d] = o => ~ Early(o) /\ plan.carries[o] = plan.carries[d] /\ o \notin gone[d]
    /\ o \in known[d] => ~ Early(o)
    /\ o \in gone[d] => ~ Early(o) /\ ~ Live(o) /\ o # d

\* A file that an upload has opened is taken away by a destruction only, and is whole
\* when the upload ends well.
FilesAreKept ==
  \A o \in Documents :
    /\ destroying[o] = "unlink" => ~ Early(o) /\ ~ Live(o)
    /\ stage[o] = "write" => disk[o] # "none" \/ row[o] = "destroyed"
    /\ Completed(o) =>
         /\ stage[o] \in {"stored", "done", "failed"}
         /\ row[o] = "destroyed" \/ (Live(o) /\ disk[o] = "whole")

\* A copy of what was on file is neither written nor about to be.
CopiesAreNeeded ==
  \A d, o \in Documents :
    o \in known[d] /\ Live(o) /\ plan.carries[o] = plan.carries[d] /\ o # d =>
      row[d] = NoRow /\ stage[d] # "insert"

StoreInv ==
  TypeOK /\ RowsComeFirst /\ AnswersAreWritten /\ FilesAreKept /\ CopiesAreNeeded

-----------------------------------------------------------------------------
(* Types                                                                   *)

\* The empty store satisfies the invariant.
LEMMA StoreStarts == Init => StoreInv
<1> SUFFICES ASSUME Init
             PROVE  StoreInv
  OBVIOUS
<1>1. TypeOK
  BY EvidenceAssumption DEF Init, TypeOK, Stages, Uploading, Unopened, NotListed, Screen, Statuses
<1>2. RowsComeFirst
  BY DEF Init, RowsComeFirst, Early
<1>3. AnswersAreWritten /\ CopiesAreNeeded
  BY EvidenceAssumption DEF Init, AnswersAreWritten, CopiesAreNeeded
<1>4. FilesAreKept
  BY EvidenceAssumption DEF Init, FilesAreKept, Completed
<1> QED
  BY <1>1, <1>2, <1>3, <1>4 DEF StoreInv

\* Every step of an upload or of a sweep keeps the types.
LEMMA TypesStand == TypeOK /\ [Next]_vars => TypeOK'
<1> USE DEF TypeOK
<1> SUFFICES ASSUME TypeOK, [Next]_vars
             PROVE  TypeOK'
  OBVIOUS
<1> USE DEF store, uploads, people
<1>1. ASSUME NEW d \in Documents, NEW s \in Stages, Go(d, s)
      PROVE  stage' \in [Documents -> Stages]
  BY <1>1 DEF Go
<1>2. ASSUME NEW d \in Documents, Begin(d)
      PROVE  TypeOK'
  <2>1. stage' \in [Documents -> Stages]
    BY <1>1, <1>2 DEF Begin, Stages, Uploading
  <2>2. {answer[e] : e \in Documents} \ {NoObject} \in SUBSET Documents
    OBVIOUS
  <2> QED
    BY <1>2, <2>1, <2>2 DEF Begin
<1>3. ASSUME NEW d \in Documents, Look(d)
      PROVE  TypeOK'
  <2>1. stage' \in [Documents -> Stages]
    BY <1>1, <1>3 DEF Look, Stages, Uploading
  <2> QED
    BY <1>3, <2>1 DEF Look, Identical
<1>4. ASSUME NEW d \in Documents, InsertRow(d) \/ OpenFile(d) \/ WriteFile(d)
      PROVE  TypeOK'
  <2>1. stage' \in [Documents -> Stages]
    BY <1>1, <1>4 DEF InsertRow, OpenFile, WriteFile, Stages, Uploading
  <2>2. CASE InsertRow(d) \/ OpenFile(d)
    BY <2>1, <2>2 DEF InsertRow, OpenFile
  <2>3. CASE WriteFile(d)
    BY <2>1, <2>3 DEF WriteFile
  <2> QED
    BY <1>4, <2>2, <2>3
<1>5. ASSUME NEW d \in Documents, FailFile(d) \/ Undo(d) \/ Extract(d) \/ Crash(d)
      PROVE  TypeOK'
  <2>1. stage' \in [Documents -> Stages]
    BY <1>1, <1>5 DEF FailFile, Undo, Extract, Crash, Stages, Uploading
  <2> QED
    BY <1>5, <2>1 DEF FailFile, Undo, Extract, Crash
<1>6. ASSUME NEW o \in Documents, MarkDestroyed(o) \/ Unlink(o)
      PROVE  TypeOK'
  BY <1>6 DEF MarkDestroyed, Unlink
<1>7. ASSUME NEW d \in Documents, SaveDraft(d)
      PROVE  TypeOK'
  BY <1>7 DEF SaveDraft
<1>8. ASSUME NEW b \in Batches, ListScans(b)
      PROVE  TypeOK'
  BY <1>8 DEF ListScans
<1>9. ASSUME NEW b \in Batches, NEW o \in Documents, DraftScan(b, o) \/ DraftOfNothing(b, o)
      PROVE  TypeOK'
  <2>1. todo[b] \in SUBSET Documents
    BY <1>9, EvidenceAssumption DEF DraftScan, DraftOfNothing, NotListed
  <2> QED
    BY <1>9, <2>1 DEF DraftScan, DraftOfNothing
<1>10. ASSUME NEW p \in People, WithdrawAll(p) \/ \E o \in Documents : Digitise(o, p)
       PROVE  TypeOK'
  <2>1. \E settled \in [PurposeIds -> Statuses] : record' = [record EXCEPT ![p] = settled]
    <3>1. CASE WithdrawAll(p)
      <4>1. [u \in PurposeIds |-> IF record[p][u] = "active" THEN "withdrawn" ELSE record[p][u]]
              \in [PurposeIds -> Statuses]
        BY DEF Statuses
      <4> QED
        BY <3>1, <4>1 DEF WithdrawAll
    <3>2. CASE \E o \in Documents : Digitise(o, p)
      BY <3>2 DEF Digitise
    <3> QED
      BY <1>10, <3>1, <3>2
  <2>2. record' \in [People -> [PurposeIds -> Statuses]]
    BY <2>1
  <2>3. artifact' \subseteq Documents \X People
    BY <1>10 DEF WithdrawAll, Digitise
  <2> QED
    BY <1>10, <2>2, <2>3 DEF WithdrawAll, Digitise
<1>11. ASSUME NEW p \in People, NEW q \in People, Merge(p, q)
       PROVE  TypeOK'
  <2>1. PICK kept \in [PurposeIds -> Statuses] :
          record' = [record EXCEPT ![p] = [u \in PurposeIds |-> "none"], ![q] = kept]
    BY <1>11 DEF Merge
  <2>2. [u \in PurposeIds |-> "none"] \in [PurposeIds -> Statuses]
    BY DEF Statuses
  <2>3. record' \in [People -> [PurposeIds -> Statuses]]
    BY <2>1, <2>2
  <2> QED
    BY <1>11, <2>3 DEF Merge
<1>12. ASSUME NEW r \in Openings, Serve(r) \/ \E o \in Documents, dpo \in BOOLEAN : Open(r, o, dpo)
       PROVE  TypeOK'
  <2>1. opening' \in [Openings -> [object : Documents \cup {NoObject}, dpo : BOOLEAN]]
    <3>1. CASE Serve(r)
      BY <3>1 DEF Serve, Unopened
    <3>2. CASE \E o \in Documents, dpo \in BOOLEAN : Open(r, o, dpo)
      BY <3>2 DEF Open
    <3> QED
      BY <1>12, <3>1, <3>2
  <2> QED
    BY <1>12, <2>1 DEF Serve, Open
<1>13. CASE UNCHANGED vars
  BY <1>13 DEF vars
<1> QED
  BY <1>2, <1>3, <1>4, <1>5, <1>6, <1>7, <1>8, <1>9, <1>10, <1>11, <1>12, <1>13 DEF Next, Put

-----------------------------------------------------------------------------
(* What each step may do to rows, files and answers                        *)

\* The upload of d makes a step, or dies.
Uploads(d) == Put(d) \/ Crash(d)

\* What an upload of d leaves alone.
LEMMA UploadTouchesItsOwn ==
  ASSUME TypeOK, NEW d \in Documents, Uploads(d)
  PROVE  /\ \A e \in Documents \ {d} :
              /\ stage'[e] = stage[e] /\ row'[e] = row[e] /\ disk'[e] = disk[e]
              /\ answer'[e] = answer[e] /\ known'[e] = known[e] /\ gone'[e] = gone[e]
         /\ plan' = plan
<1> USE DEF TypeOK, store, uploads
<1>1. ASSUME NEW s, Go(d, s)
      PROVE  \A e \in Documents \ {d} : stage'[e] = stage[e]
  BY <1>1 DEF Go
<1>2. CASE Begin(d)
  BY <1>1, <1>2 DEF Begin
<1>3. CASE Look(d)
  BY <1>1, <1>3 DEF Look
<1>4. CASE InsertRow(d) \/ OpenFile(d) \/ WriteFile(d)
  BY <1>1, <1>4 DEF InsertRow, OpenFile, WriteFile
<1>5. CASE FailFile(d) \/ Undo(d) \/ Extract(d) \/ Crash(d)
  BY <1>1, <1>5 DEF FailFile, Undo, Extract, Crash
<1> QED
  BY <1>2, <1>3, <1>4, <1>5 DEF Uploads, Put

\* The steps of an upload, by where it is.
LEMMA UploadSteps ==
  ASSUME TypeOK, NEW d \in Documents, Uploads(d)
  PROVE  \/ /\ stage[d] = "queued" /\ stage'[d] = "look"
            /\ UNCHANGED <<row, disk, answer>>
            /\ known'[d] = {answer[e] : e \in Documents} \ {NoObject}
            /\ gone'[d] = {o \in Documents : row[o] = "destroyed"}
         \/ /\ stage[d] = "look" /\ stage'[d] = "insert" /\ Identical(d) = {}
            /\ UNCHANGED <<row, disk, answer, known, gone>>
         \/ /\ stage[d] = "look" /\ stage'[d] = "stored" /\ answer'[d] \in Identical(d)
            /\ UNCHANGED <<row, disk, known, gone>>
         \/ /\ stage[d] = "insert" /\ stage'[d] = "open" /\ row'[d] = "live"
            /\ UNCHANGED <<disk, answer, known, gone>>
         \/ /\ stage[d] = "open" /\ stage'[d] = "write" /\ disk'[d] = "part"
            /\ UNCHANGED <<row, answer, known, gone>>
         \/ /\ stage[d] = "write" /\ stage'[d] = "stored" /\ answer'[d] = d
            /\ UNCHANGED <<row, known, gone>>
         \/ /\ stage[d] \in {"open", "write"} /\ stage'[d] = "undo"
            /\ UNCHANGED <<row, disk, answer, known, gone>>
         \/ /\ stage[d] = "undo" /\ stage'[d] = "failed" /\ row'[d] \in {row[d], NoRow}
            /\ UNCHANGED <<disk, answer, known, gone>>
         \/ /\ stage[d] # "queued" /\ stage'[d] \in {"done", "failed"}
            /\ UNCHANGED <<row, disk, answer, known, gone>>
<1> USE DEF TypeOK, store, uploads
<1>1. ASSUME NEW s, Go(d, s)
      PROVE  stage'[d] = s
  BY <1>1 DEF Go
<1>2. CASE Begin(d)
  BY <1>1, <1>2 DEF Begin
<1>3. CASE Look(d)
  BY <1>1, <1>3 DEF Look, Identical
<1>4. CASE InsertRow(d)
  BY <1>1, <1>4 DEF InsertRow
<1>5. CASE OpenFile(d)
  BY <1>1, <1>5 DEF OpenFile
<1>6. CASE WriteFile(d)
  BY <1>1, <1>6 DEF WriteFile
<1>7. CASE FailFile(d)
  BY <1>1, <1>7 DEF FailFile
<1>8. CASE Undo(d)
  BY <1>1, <1>8 DEF Undo, NoRow
<1>9. CASE Extract(d) \/ Crash(d)
  BY <1>1, <1>9 DEF Extract, Crash, Uploading
<1> QED
  BY <1>2, <1>3, <1>4, <1>5, <1>6, <1>7, <1>8, <1>9 DEF Uploads, Put

\* Nothing else writes a row or a file, and the rest only takes away: an object
\* that was live is destroyed, a file that was there is gone.
LEMMA OthersTakeAway ==
  ASSUME TypeOK, [Next]_vars
  PROVE  \/ \E d \in Documents : Uploads(d)
         \/ /\ UNCHANGED <<plan, uploads>>
            /\ \A o \in Documents : row'[o] = row[o] \/ (Live(o) /\ row'[o] = "destroyed")
            /\ \A o \in Documents : disk'[o] = disk[o] \/ disk'[o] = "none"
<1> USE DEF TypeOK, store
<1>1. ASSUME NEW o \in Documents, MarkDestroyed(o)
      PROVE  /\ UNCHANGED <<plan, uploads, disk>>
             /\ \A e \in Documents : row'[e] = row[e] \/ (Live(e) /\ row'[e] = "destroyed")
  BY <1>1 DEF MarkDestroyed
<1>2. ASSUME NEW o \in Documents, Unlink(o)
      PROVE  /\ UNCHANGED <<plan, uploads, row>>
             /\ \A e \in Documents : disk'[e] = disk[e] \/ disk'[e] = "none"
  BY <1>2 DEF Unlink
<1>3. ASSUME \/ \E d \in Documents : SaveDraft(d)
             \/ \E b \in Batches :
                  ListScans(b) \/ \E o \in Documents : DraftScan(b, o) \/ DraftOfNothing(b, o)
             \/ \E p \in People : WithdrawAll(p) \/ \E o \in Documents : Digitise(o, p)
             \/ \E p, q \in People : Merge(p, q)
             \/ \E r \in Openings : Serve(r) \/ \E o \in Documents, dpo \in BOOLEAN : Open(r, o, dpo)
             \/ UNCHANGED vars
      PROVE  UNCHANGED <<plan, uploads, row, disk>>
  BY <1>3 DEF SaveDraft, ListScans, DraftScan, DraftOfNothing, WithdrawAll, Digitise, Merge,
              Serve, Open, vars
<1> QED
  BY <1>1, <1>2, <1>3 DEF Next, Uploads

-----------------------------------------------------------------------------
(* Rows and files                                                          *)

\* The row goes on coming before the file.
LEMMA RowsStep ==
  ASSUME TypeOK, RowsComeFirst, [Next]_vars
  PROVE  RowsComeFirst'
<1>1. ASSUME NEW d \in Documents, Uploads(d)
      PROVE  RowsComeFirst'
  <2> SUFFICES ASSUME NEW e \in Documents
               PROVE  /\ Early(e)' => row'[e] = NoRow /\ disk'[e] = "none"
                      /\ stage'[e] \in {"open", "write", "undo"} =>
                           row'[e] # NoRow /\ disk'[e] # "whole"
                      /\ disk'[e] = "whole" => row'[e] # NoRow
    BY DEF RowsComeFirst
  <2>1. CASE e # d
    BY <1>1, <2>1, UploadTouchesItsOwn DEF RowsComeFirst, Early
  <2>2. CASE e = d
    <3>1. CASE stage[d] = "write" /\ stage'[d] = "stored"
      BY <1>1, <2>2, <3>1, UploadSteps DEF RowsComeFirst, Early
    <3>2. CASE ~ (stage[d] = "write" /\ stage'[d] = "stored")
      BY <1>1, <2>2, <3>2, UploadSteps DEF RowsComeFirst, Early, NoRow
    <3> QED
      BY <3>1, <3>2
  <2> QED
    BY <2>1, <2>2
<1>2. ASSUME UNCHANGED <<plan, uploads>>,
             \A o \in Documents : row'[o] = row[o] \/ (Live(o) /\ row'[o] = "destroyed"),
             \A o \in Documents : disk'[o] = disk[o] \/ disk'[o] = "none"
      PROVE  RowsComeFirst'
  BY <1>2 DEF RowsComeFirst, Early, Live, NoRow, uploads
<1> QED
  BY <1>1, <1>2, OthersTakeAway

\* No whole scan lies on disk that no row knows of.
THEOREM FilesAreIndexedHolds == Spec => []FilesAreIndexed
<1>1. Init => TypeOK /\ RowsComeFirst
  BY StoreStarts DEF StoreInv
<1>2. TypeOK /\ RowsComeFirst /\ [Next]_vars => TypeOK' /\ RowsComeFirst'
  BY TypesStand, RowsStep
<1>3. RowsComeFirst => FilesAreIndexed
  BY DEF RowsComeFirst, FilesAreIndexed
<1> QED
  BY <1>1, <1>2, <1>3, PTL DEF Spec

-----------------------------------------------------------------------------
(* Answers                                                                 *)

\* Once the row of o has been written or the upload has died before it, o is
\* never written again.
LEMMA LateStays ==
  ASSUME TypeOK, [Next]_vars, NEW o \in Documents, ~ Early(o)
  PROVE  ~ Early(o)' /\ (~ Live(o) => ~ Live(o)')
<1>1. ASSUME NEW d \in Documents, Uploads(d)
      PROVE  ~ Early(o)' /\ (~ Live(o) => ~ Live(o)')
  <2>1. CASE o # d
    BY <1>1, <2>1, UploadTouchesItsOwn DEF Early, Live
  <2>2. CASE o = d
    BY <1>1, <2>2, UploadSteps DEF Early, Live, NoRow
  <2> QED
    BY <2>1, <2>2
<1>2. ASSUME UNCHANGED <<plan, uploads>>,
             \A e \in Documents : row'[e] = row[e] \/ (Live(e) /\ row'[e] = "destroyed")
      PROVE  ~ Early(o)' /\ (~ Live(o) => ~ Live(o)')
  BY <1>2 DEF Early, Live, uploads
<1> QED
  BY <1>1, <1>2, OthersTakeAway

\* What d is answered with, knows and misses changes by its own steps only.
LEMMA NewsOf ==
  ASSUME TypeOK, [Next]_vars, NEW d \in Documents
  PROVE  /\ plan' = plan
         /\ \/ answer'[d] = answer[d] /\ known'[d] = known[d] /\ gone'[d] = gone[d]
            \/ Uploads(d)
<1>1. ASSUME NEW e \in Documents, Uploads(e)
      PROVE  /\ plan' = plan
             /\ d # e => answer'[d] = answer[d] /\ known'[d] = known[d] /\ gone'[d] = gone[d]
  BY <1>1, UploadTouchesItsOwn
<1> QED
  BY <1>1, OthersTakeAway DEF uploads

\* What an answer names stays written, and what was destroyed stays dead.
LEMMA AnswersStep ==
  ASSUME TypeOK, RowsComeFirst, AnswersAreWritten, [Next]_vars
  PROVE  AnswersAreWritten'
<1> SUFFICES ASSUME NEW d \in Documents, NEW o \in Documents
             PROVE  /\ Early(d)' => answer'[d] = NoObject
                    /\ answer'[d] = o => /\ ~ Early(o)' /\ plan'.carries[o] = plan'.carries[d]
                                         /\ o \notin gone'[d]
                    /\ o \in known'[d] => ~ Early(o)'
                    /\ o \in gone'[d] => ~ Early(o)' /\ ~ Live(o)' /\ o # d
  BY DEF AnswersAreWritten
<1>1. /\ Early(d) => answer[d] = NoObject
      /\ answer[d] = o => ~ Early(o) /\ plan.carries[o] = plan.carries[d] /\ o \notin gone[d]
      /\ o \in known[d] => ~ Early(o)
      /\ o \in gone[d] => ~ Early(o) /\ ~ Live(o) /\ o # d
      /\ \A e \in Documents : answer[e] = o => ~ Early(o)
  BY DEF AnswersAreWritten
<1>2. /\ ~ Early(o) => ~ Early(o)' /\ (~ Live(o) => ~ Live(o)')
      /\ ~ Early(d) => ~ Early(d)'
      /\ plan' = plan
  BY LateStays, NewsOf
<1>3. Early(o) => row[o] = NoRow
  BY DEF RowsComeFirst
<1>4. CASE answer'[d] = answer[d] /\ known'[d] = known[d] /\ gone'[d] = gone[d]
  BY <1>1, <1>2, <1>4
<1>5. CASE Uploads(d)
  <2>1. CASE stage[d] = "queued"
    <3>1. /\ answer' = answer
          /\ known'[d] = {answer[e] : e \in Documents} \ {NoObject}
          /\ gone'[d] = {e \in Documents : row[e] = "destroyed"}
          /\ Early(d) /\ row[d] = NoRow
      BY <1>5, <2>1, UploadSteps DEF RowsComeFirst, Early
    <3>2. o \in gone'[d] => ~ Early(o) /\ ~ Live(o) /\ o # d
      BY <1>3, <3>1 DEF Live, NoRow
    <3>3. o \in known'[d] => ~ Early(o)
      BY <1>1, <3>1
    <3>4. answer[d] # o
      BY <1>1, <3>1, EvidenceAssumption
    <3> QED
      BY <1>1, <1>2, <3>1, <3>2, <3>3, <3>4
  <2>2. CASE stage[d] # "queued"
    <3>1. known'[d] = known[d] /\ gone'[d] = gone[d]
      BY <1>5, <2>2, UploadSteps
    <3>2. CASE answer'[d] = answer[d]
      BY <1>4, <3>1, <3>2
    <3>3. CASE stage'[d] = "stored" /\ answer'[d] \in Identical(d)
      BY <1>1, <1>2, <1>3, <3>1, <3>3 DEF Identical, Live, NoRow, Early
    <3>4. CASE answer'[d] # answer[d] /\ answer'[d] = d /\ ~ Early(d)
      <4>1. ~ Early(d)' /\ d \notin gone[d]
        <5>1. ~ Early(d)'
          BY <1>2, <3>4
        <5>2. d \in gone[d] => d # d
          BY DEF AnswersAreWritten
        <5> QED
          BY <5>1, <5>2
      <4>2. answer'[d] = o => o = d
        BY <3>4
      <4> QED
        BY <1>1, <1>2, <3>1, <4>1, <4>2
    <3> QED
      BY <1>5, <3>2, <3>3, <3>4, UploadSteps DEF Early
  <2> QED
    BY <2>1, <2>2
<1> QED
  BY <1>4, <1>5, NewsOf

\* No copy of what was on file gets written.
LEMMA CopiesStep ==
  ASSUME TypeOK, RowsComeFirst, AnswersAreWritten, CopiesAreNeeded, [Next]_vars
  PROVE  CopiesAreNeeded'
<1> SUFFICES ASSUME NEW d \in Documents, NEW o \in Documents,
                    o \in known'[d], Live(o)', plan'.carries[o] = plan'.carries[d], o # d
             PROVE  row'[d] = NoRow /\ stage'[d] # "insert"
  BY DEF CopiesAreNeeded
<1>1. plan' = plan
  BY NewsOf
<1>2. CASE Uploads(d) /\ stage[d] = "queued"
  BY <1>2, UploadSteps DEF RowsComeFirst, Early
<1>3. CASE known'[d] = known[d]
  <2>1. ~ Early(o) /\ Live(o)
    BY <1>3, LateStays DEF AnswersAreWritten
  <2>2. row[d] = NoRow /\ stage[d] # "insert"
    BY <1>1, <1>3, <2>1 DEF CopiesAreNeeded
  <2>3. o \in Identical(d)
    BY <1>1, <2>1 DEF Identical
  <2>4. CASE Uploads(d)
    BY <2>2, <2>3, <2>4, UploadSteps
  <2>5. ASSUME NEW e \in Documents \ {d}, Uploads(e)
        PROVE  row'[d] = NoRow /\ stage'[d] # "insert"
    BY <2>2, <2>5, UploadTouchesItsOwn
  <2>6. ASSUME UNCHANGED <<plan, uploads>>,
               \A e \in Documents : row'[e] = row[e] \/ (Live(e) /\ row'[e] = "destroyed")
        PROVE  row'[d] = NoRow /\ stage'[d] # "insert"
    BY <2>2, <2>6 DEF Live, NoRow, uploads
  <2> QED
    BY <2>4, <2>5, <2>6, OthersTakeAway
<1> QED
  BY <1>2, <1>3, NewsOf, UploadSteps

\* What sweeps do to a file: it goes only after its row has been marked.
LEMMA SweepsMarkFirst ==
  ASSUME TypeOK, [Next]_vars, ~ \E d \in Documents : Uploads(d), NEW o \in Documents
  PROVE  /\ destroying'[o] = "unlink" => destroying[o] = "unlink" \/ row'[o] = "destroyed"
         /\ disk'[o] = disk[o] \/ destroying[o] = "unlink"
<1> USE DEF TypeOK, store
<1>1. ASSUME NEW e \in Documents, MarkDestroyed(e)
      PROVE  /\ disk' = disk
             /\ destroying'[o] = "unlink" => destroying[o] = "unlink" \/ row'[o] = "destroyed"
  BY <1>1 DEF MarkDestroyed
<1>2. ASSUME NEW e \in Documents, Unlink(e)
      PROVE  /\ destroying'[o] = "unlink" => destroying[o] = "unlink"
             /\ disk'[o] = disk[o] \/ destroying[o] = "unlink"
  BY <1>2 DEF Unlink
<1>3. ASSUME \/ \E d \in Documents : SaveDraft(d)
             \/ \E b \in Batches :
                  ListScans(b) \/ \E e \in Documents : DraftScan(b, e) \/ DraftOfNothing(b, e)
             \/ \E p \in People : WithdrawAll(p) \/ \E e \in Documents : Digitise(e, p)
             \/ \E p, q \in People : Merge(p, q)
             \/ \E r \in Openings : Serve(r) \/ \E e \in Documents, dpo \in BOOLEAN : Open(r, e, dpo)
             \/ UNCHANGED vars
      PROVE  UNCHANGED <<disk, destroying>>
  BY <1>3 DEF SaveDraft, ListScans, DraftScan, DraftOfNothing, WithdrawAll, Digitise, Merge,
              Serve, Open, vars
<1> QED
  BY <1>1, <1>2, <1>3 DEF Next, Uploads

\* An upload leaves the destructions alone.
LEMMA UploadsDestroyNothing ==
  ASSUME NEW d \in Documents, Uploads(d)
  PROVE  destroying' = destroying
BY DEF Uploads, Put, Begin, Look, InsertRow, OpenFile, WriteFile, FailFile, Undo, Extract, Crash

\* Files go on standing until they are destroyed.
LEMMA FilesStep ==
  ASSUME TypeOK, RowsComeFirst, AnswersAreWritten, FilesAreKept, [Next]_vars
  PROVE  FilesAreKept'
<1> SUFFICES ASSUME NEW o \in Documents
             PROVE  /\ destroying'[o] = "unlink" => ~ Early(o)' /\ ~ Live(o)'
                    /\ stage'[o] = "write" => disk'[o] # "none" \/ row'[o] = "destroyed"
                    /\ answer'[o] = o =>
                         /\ stage'[o] \in {"stored", "done", "failed"}
                         /\ row'[o] = "destroyed" \/ (Live(o)' /\ disk'[o] = "whole")
  BY DEF FilesAreKept, Completed
<1>1. /\ destroying[o] = "unlink" => ~ Early(o) /\ ~ Live(o)
      /\ stage[o] = "write" => disk[o] # "none" \/ row[o] = "destroyed"
      /\ answer[o] = o =>
           /\ stage[o] \in {"stored", "done", "failed"}
           /\ row[o] = "destroyed" \/ (Live(o) /\ disk[o] = "whole")
  BY DEF FilesAreKept, Completed
<1>2. /\ Early(o) => row[o] = NoRow /\ answer[o] # o
      /\ stage[o] = "write" => row[o] \in {"live", "destroyed"}
  BY EvidenceAssumption DEF RowsComeFirst, AnswersAreWritten, TypeOK
<1>3. ~ Early(o) => ~ Early(o)' /\ (~ Live(o) => ~ Live(o)')
  BY LateStays
<1>4. ASSUME NEW d \in Documents \ {o}, Uploads(d)
      PROVE  /\ stage'[o] = stage[o] /\ row'[o] = row[o] /\ disk'[o] = disk[o]
             /\ answer'[o] = answer[o] /\ destroying' = destroying
  BY <1>4, UploadTouchesItsOwn, UploadsDestroyNothing
<1>5. CASE \E d \in Documents \ {o} : Uploads(d)
  BY <1>1, <1>4, <1>5 DEF Early, Live
<1>6. CASE Uploads(o)
  <2>1. destroying' = destroying
    BY <1>6, UploadsDestroyNothing
  <2>2. CASE stage[o] = "queued"
    BY <1>1, <1>2, <1>3, <1>6, <2>1, <2>2, UploadSteps DEF Early
  <2>3. CASE stage[o] = "look"
    <3>1. o \notin Identical(o)
      BY <1>2, <2>3 DEF Early, Identical, Live, NoRow
    <3> QED
      BY <1>1, <1>2, <1>6, <2>1, <2>3, <3>1, UploadSteps DEF Early
  <2>4. CASE stage[o] = "insert"
    BY <1>1, <1>2, <1>6, <2>1, <2>4, UploadSteps DEF Early
  <2>5. CASE stage[o] = "open"
    BY <1>1, <1>2, <1>3, <1>6, <2>1, <2>5, UploadSteps DEF Early
  <2>6. CASE stage[o] = "write"
    <3>1. WriteFile(o) => disk'[o] = IF disk[o] = "none" THEN "none" ELSE "whole"
      BY DEF WriteFile, TypeOK
    <3>2. stage'[o] # "write"
      BY <1>6, <2>6, UploadSteps
    <3>3. CASE answer'[o] = o
      <4>1. answer[o] # o
        BY <1>1, <2>6
      <4>2. WriteFile(o)
        BY <1>6, <2>6, <3>3, <4>1 DEF Uploads, Put, Begin, Look, InsertRow, OpenFile, FailFile, Undo,
                                      Extract, Crash
      <4>3. stage'[o] = "stored" /\ row'[o] = row[o]
        BY <4>2 DEF WriteFile, Go, TypeOK
      <4> QED
        BY <1>1, <1>2, <1>3, <2>1, <2>6, <3>1, <3>2, <4>2, <4>3 DEF Early, Live
    <3>4. CASE answer'[o] # o
      BY <1>1, <1>3, <2>1, <2>6, <3>2, <3>4 DEF Early
    <3> QED
      BY <3>3, <3>4
  <2>7. CASE stage[o] = "undo"
    BY <1>1, <1>3, <1>6, <2>1, <2>7, UploadSteps DEF Early
  <2>8. CASE stage[o] \in {"stored", "done", "failed"}
    <3>1. UNCHANGED <<row, disk, answer>> /\ stage'[o] \in {"done", "failed"}
      BY <1>6, <2>8, UploadSteps
    <3> QED
      BY <1>1, <1>3, <2>1, <2>8, <3>1 DEF Early, Live
  <2> QED
    BY <2>2, <2>3, <2>4, <2>5, <2>6, <2>7, <2>8 DEF TypeOK, Stages, Uploading
<1>7. CASE ~ \E d \in Documents : Uploads(d)
  <2>1. /\ stage'[o] = stage[o] /\ answer'[o] = answer[o]
        /\ row'[o] = row[o] \/ (Live(o) /\ row'[o] = "destroyed")
    BY <1>7, OthersTakeAway DEF uploads
  <2>2. /\ destroying'[o] = "unlink" => destroying[o] = "unlink" \/ row'[o] = "destroyed"
        /\ disk'[o] = disk[o] \/ destroying[o] = "unlink"
    BY <1>7, SweepsMarkFirst
  <2>3. row'[o] = "destroyed" => ~ Early(o)
    BY <1>2, <2>1 DEF Live, NoRow
  <2> QED
    BY <1>1, <1>2, <1>3, <2>1, <2>2, <2>3 DEF Live, Early, NoRow
<1> QED
  BY <1>5, <1>6, <1>7

\* An upload is answered with an object of its bytes and kind that had not been
\* destroyed when it began, whose file, once whole, stays so until it is destroyed;
\* and it adds no copy of what was on file.
THEOREM UploadsShareBytesHolds == Spec => []UploadsShareBytes
<1> DEFINE Inv == TypeOK /\ RowsComeFirst /\ AnswersAreWritten /\ FilesAreKept /\ CopiesAreNeeded
<1>1. Init => Inv
  BY StoreStarts DEF StoreInv
<1>2. Inv /\ [Next]_vars => Inv'
  BY TypesStand, RowsStep, AnswersStep, FilesStep, CopiesStep
<1>3. Inv => UploadsShareBytes
  BY DEF AnswersAreWritten, FilesAreKept, CopiesAreNeeded, UploadsShareBytes
<1> QED
  BY <1>1, <1>2, <1>3, PTL DEF Spec

\* Types.
THEOREM TypeCorrect == Spec => []TypeOK
<1>1. Init => TypeOK
  BY StoreStarts DEF StoreInv
<1> QED
  BY <1>1, TypesStand, PTL DEF Spec


-----------------------------------------------------------------------------
(* The reviewer's screen: the invariant                                    *)

\* A screen is well typed, what it shows and what it has sent are as a version
\* prints them, its ticks have grounds, a commit under way has a draft, and without
\* a page there is nothing but a request under way.
Sound(s) ==
  /\ s \in Desk
  /\ AsPrinted(s.now) /\ AsPrinted(s.sent)
  /\ s.now.granted \subseteq s.ground
  /\ s.waits = "commit" => s.target # None
  /\ s.open \/ s.waits # "none" \/ s = Closed

\* Who the form of a draft is filed with by a reviewer who says who it is: that
\* reviewer said so on this draft, and the draft is as they had it before them
\* unless another saved it since.
Said(v, d, who) ==
  \E q \in asked : /\ q.draft = d /\ q.by = v /\ q.is = who
                   /\ q.who = Who(draft[d].payload) \/ draft[d].saved # v

\* A commit under way that says who it is has been said.
Backed(v) ==
  screen[v].waits = "commit" /\ screen[v].choice # None
    => Said(v, screen[v].target, screen[v].choice)

\* A draft carries what some screen sent or the import left, and is matched with the
\* person it names or with nobody.
Kept(r) == AsPrinted(r.payload) /\ r.matched \in {None, Who(r.payload)}

DeskInv ==
  /\ DeskTypeOK
  /\ \A v \in Reviewers : Sound(screen[v]) /\ Backed(v)
  /\ \A d \in Drafts : Kept(draft[d])
  /\ BoxesHaveGrounds /\ NothingInvalidFiled /\ NobodyFusedUnasked

-----------------------------------------------------------------------------
(* What is written                                                         *)

\* A payload without errors names somebody and has the shape of the schema.
LEMMA NoErrorsNamed ==
  ASSUME NEW p \in Payload, Errors(p) = {}
  PROVE  Who(p) \in Principals /\ Shaped(p)
<1>1. "name" \notin Errors(p) /\ "contact" \notin Errors(p) /\ "items" \notin Errors(p)
  OBVIOUS
<1>2. p.name \in Names /\ p.contact \in Contacts /\ p.items # {}
  BY <1>1 DEF Errors, Fields, Payload, Written
<1>3. p.name # "blank"
  BY <1>2, ReviewAssumption
<1> QED
  BY <1>2, <1>3 DEF Who, Principals, Shaped

\* The empty payload is a payload, and as printed.
LEMMA EmptyIsPayload == EmptyPayload \in Payload /\ AsPrinted(EmptyPayload)
BY DEF EmptyPayload, Payload, Written, Reached, Signed, AsPrinted

\* A screen before anything is on it is sound.
LEMMA ClosedIsSound == Sound(Closed) /\ Sound([Closed EXCEPT !.open = TRUE])
<1>1. Closed \in Desk /\ [Closed EXCEPT !.open = TRUE] \in Desk
  BY EmptyIsPayload DEF Closed, Desk
<1>2. /\ Closed.now = EmptyPayload /\ Closed.sent = EmptyPayload /\ Closed.waits = "none"
      /\ [Closed EXCEPT !.open = TRUE].now = EmptyPayload
      /\ [Closed EXCEPT !.open = TRUE].sent = EmptyPayload
      /\ [Closed EXCEPT !.open = TRUE].waits = "none"
      /\ [Closed EXCEPT !.open = TRUE].open
  BY DEF Closed
<1>3. EmptyPayload.granted = {}
  BY DEF EmptyPayload
<1> QED
  BY <1>1, <1>2, <1>3, EmptyIsPayload DEF Sound

\* A row that the routes write is typed and kept.
LEMMA RowIsKept ==
  ASSUME NEW p \in Payload, NEW scan \in BOOLEAN, NEW by \in Reviewers \cup {None},
         AsPrinted(p), register \subseteq Principals
  PROVE  Row(p, scan, by) \in Stored /\ Kept(Row(p, scan, by))
<1>1. Errors(p) \subseteq Fields
  BY DEF Errors
<1>2. Exact(Who(p)) \in Principals \cup {None} /\ Exact(Who(p)) \in {None, Who(p)}
  BY DEF Exact
<1> QED
  BY <1>1, <1>2 DEF Row, Stored, Kept

\* A screen as it is but for what shows that it waits, and why not.
Settled(s, t) ==
  /\ t \in Desk /\ t.open = s.open /\ t.now = s.now /\ t.ground = s.ground
  /\ t.sent = EmptyPayload

\* What a screen shows after a lost or unanswered request.
LEMMA IdleIsSettled ==
  ASSUME NEW s, Sound(s)
  PROVE  Settled(s, Idle(s)) /\ Idle(s).waits = "none"
<1>1. s \in Desk
  BY DEF Sound
<1> QED
  BY <1>1, EmptyIsPayload DEF Idle, Desk, Settled

\* And after one that was refused.
LEMMA RefusedIsSettled ==
  ASSUME NEW s, Sound(s), NEW issues \in SUBSET Fields
  PROVE  Settled(s, Refused(s, issues)) /\ Refused(s, issues).waits = "none"
<1>1. s \in Desk
  BY DEF Sound
<1> QED
  BY <1>1, EmptyIsPayload DEF Idle, Refused, Desk, Settled

\* The same, when somebody it may be is on file.
LEMMA AskedIsSettled ==
  ASSUME NEW s, Sound(s), NEW offer \in SUBSET Principals
  PROVE  /\ Settled(s, [Idle(s) EXCEPT !.offer = offer])
         /\ [Idle(s) EXCEPT !.offer = offer].waits = "none"
<1>1. s \in Desk
  BY DEF Sound
<1> QED
  BY <1>1, EmptyIsPayload DEF Idle, Desk, Settled

\* And while the draft it saved is being committed.
LEMMA OnwardIsSound ==
  ASSUME NEW s, Sound(s), NEW d \in Drafts
  PROVE  /\ Settled(s, Onward(s, d))
         /\ \/ Onward(s, d).waits = "none"
            \/ /\ Onward(s, d).waits = "commit" /\ Onward(s, d).target = d
               /\ Onward(s, d).choice = s.choice
<1>1. Errors(s.sent) \in SUBSET Fields /\ s \in Desk
  BY DEF Errors, Sound
<1>2. CASE Errors(s.sent) = {}
  BY <1>1, <1>2, EmptyIsPayload DEF Onward, Desk, Settled
<1>3. CASE Errors(s.sent) # {}
  BY <1>1, <1>3, RefusedIsSettled DEF Onward
<1> QED
  BY <1>2, <1>3

\* The screens when one of them comes to show s.
LEMMA ScreensAfter ==
  ASSUME DeskInv, NEW v \in Reviewers, NEW s \in Desk, Shows(v, s),
         AsPrinted(s.now), AsPrinted(s.sent), s.now.granted \subseteq s.ground,
         s.waits = "commit" => s.target # None
  PROVE  /\ screen' \in [Reviewers -> Desk]
         /\ \A w \in Reviewers : Sound(screen'[w])
         /\ \A w \in Reviewers \ {v} : screen'[w] = screen[w]
         /\ screen'[v] = s \/ screen'[v] = Closed
<1>1. screen \in [Reviewers -> Desk] /\ \A w \in Reviewers : Sound(screen[w])
  BY DEF DeskInv, DeskTypeOK
<1>2. PICK t : t = IF s.open \/ s.waits # "none" THEN s ELSE Closed
  OBVIOUS
<1>3. t \in Desk /\ Sound(t) /\ (t = s \/ t = Closed)
  BY <1>2, ClosedIsSound DEF Sound
<1>4. screen' = [screen EXCEPT ![v] = t]
  BY <1>2 DEF Shows
<1> QED
  BY <1>1, <1>3, <1>4

\* What was said of a draft holds while nobody else saves it.
LEMMA SaidStays ==
  ASSUME NEW v, NEW d, NEW who, Said(v, d, who), asked \subseteq asked',
         \/ draft'[d].payload = draft[d].payload /\ draft'[d].saved = draft[d].saved
         \/ draft'[d].saved # v
  PROVE  Said(v, d, who)'
BY DEF Said

-----------------------------------------------------------------------------
(* Every step keeps the invariant                                          *)

\* A step that concerns one screen, and no draft, person or form: no commit begins.
LEMMA ScreenOnlyStep ==
  ASSUME DeskInv, NEW v \in Reviewers, NEW s \in Desk, Shows(v, s),
         AsPrinted(s.now), AsPrinted(s.sent), s.now.granted \subseteq s.ground,
         \/ s.waits # "commit"
         \/ /\ s.waits = screen[v].waits /\ s.target = screen[v].target
            /\ s.choice = screen[v].choice,
         reading' \in [Reviewers -> SUBSET (Notices \cup {None})],
         spare' \in [edits : Nat, uploads : Nat, saves : Nat],
         UNCHANGED <<draft, register, filed, asked>>
  PROVE  DeskInv'
<1>1. Sound(screen[v]) /\ \A w \in Reviewers : Backed(w)
  BY DEF DeskInv
<1>2. /\ screen' \in [Reviewers -> Desk] /\ \A w \in Reviewers : Sound(screen'[w])
      /\ \A w \in Reviewers \ {v} : screen'[w] = screen[w]
      /\ screen'[v] = s \/ screen'[v] = Closed
  <2>1. s.waits = "commit" => s.target # None
    BY <1>1 DEF Sound
  <2> QED
    BY <2>1, ScreensAfter
<1>3. ASSUME NEW w \in Reviewers
      PROVE  Backed(w)'
  <2>1. SUFFICES ASSUME NEW e, NEW who, screen'[w].waits = "commit",
                           who = screen'[w].choice, who # None, e = screen'[w].target
                 PROVE  Said(w, e, who)'
    BY DEF Backed
  <2>2. /\ screen[w].waits = "commit" /\ screen'[w].target = screen[w].target
        /\ screen'[w].choice = screen[w].choice
    BY <1>2, <2>1 DEF Closed
  <2>3. Said(w, e, who)
    BY <1>1, <2>1, <2>2 DEF Backed
  <2> QED
    BY <2>3, SaidStays
<1>4. DeskTypeOK' /\ (\A d \in Drafts : Kept(draft[d]))'
  BY <1>2 DEF DeskInv, DeskTypeOK
<1>5. BoxesHaveGrounds' /\ NothingInvalidFiled' /\ NobodyFusedUnasked'
  BY <1>2 DEF DeskInv, BoxesHaveGrounds, NothingInvalidFiled, NobodyFusedUnasked, Sound
<1> QED
  BY <1>2, <1>3, <1>4, <1>5 DEF DeskInv

\* What is spare stays a count.
LEMMA SpareIsCounted ==
  ASSUME DeskInv, NEW kind \in {"edits", "uploads", "saves"}, Use(kind)
  PROVE  spare' \in [edits : Nat, uploads : Nat, saves : Nat]
BY DEF DeskInv, DeskTypeOK, Use

\* Opening a draft or a new entry, and leaving.
LEMMA OpeningStep ==
  ASSUME DeskInv, NEW v \in Reviewers,
         (\E d \in Drafts : OpenDraft(v, d)) \/ OpenNew(v) \/ Leave(v)
  PROVE  DeskInv'
<1>1. ASSUME NEW d \in Drafts, OpenDraft(v, d)
      PROVE  DeskInv'
  <2> DEFINE s == [Closed EXCEPT !.open = TRUE, !.draft = d, !.now = draft[d].payload,
                                 !.scan = draft[d].scan, !.issues = draft[d].issues,
                                 !.ground = draft[d].payload.granted]
  <2>1. draft[d] \in Stored /\ AsPrinted(draft[d].payload)
    BY DEF DeskInv, DeskTypeOK, Kept
  <2>2. draft[d].payload \in Payload /\ draft[d].payload.granted \subseteq Purposes
    BY <2>1 DEF Stored, Payload
  <2>3. /\ s \in Desk /\ AsPrinted(s.now) /\ AsPrinted(s.sent)
        /\ s.now.granted \subseteq s.ground /\ s.waits = "none"
    <3>1. Closed \in Desk /\ AsPrinted(Closed.sent) /\ Closed.waits = "none"
      BY ClosedIsSound DEF Sound, Closed
    <3>2. draft[d].scan \in BOOLEAN /\ draft[d].issues \in SUBSET Fields
      BY <2>1 DEF Stored
    <3>3. s \in Desk
      BY <2>2, <3>1, <3>2 DEF Desk
    <3>4. /\ s.now = draft[d].payload /\ s.ground = draft[d].payload.granted
          /\ s.sent = Closed.sent /\ s.waits = "none"
      BY <3>1 DEF Desk
    <3> HIDE DEF s
    <3> QED
      BY <2>1, <3>1, <3>3, <3>4
  <2>4. asked' = asked /\ Shows(v, s)
    BY <1>1 DEF OpenDraft
  <2> HIDE DEF s
  <2> QED
    BY <1>1, <2>3, <2>4, ScreenOnlyStep DEF OpenDraft, DeskInv, DeskTypeOK
<1>2. ASSUME OpenNew(v)
      PROVE  DeskInv'
  <2>1. PICK s : s = [Closed EXCEPT !.open = TRUE]
    OBVIOUS
  <2>2. Sound(s) /\ s.waits = "none"
    BY <2>1, ClosedIsSound DEF Closed
  <2> QED
    BY <1>2, <2>1, <2>2, ScreenOnlyStep DEF OpenNew, Sound, DeskInv, DeskTypeOK
<1>3. ASSUME Leave(v)
      PROVE  DeskInv'
  <2>1. PICK s : s = Left(screen[v])
    OBVIOUS
  <2>2. Sound(screen[v]) /\ screen[v] \in Desk
    BY DEF DeskInv, Sound
  <2>3. /\ s \in Desk /\ AsPrinted(s.now) /\ AsPrinted(s.sent) /\ s.now.granted \subseteq s.ground
        /\ \/ s.waits # "commit"
           \/ /\ s.waits = screen[v].waits /\ s.target = screen[v].target
              /\ s.choice = screen[v].choice
    <3>1. CASE screen[v].waits \in {"save", "commit"}
      <4>1. s = [screen[v] EXCEPT !.open = FALSE, !.now = EmptyPayload, !.mine = {}, !.ground = {}]
        BY <2>1, <3>1 DEF Left
      <4>2. EmptyPayload.granted = {} /\ EmptyPayload \in Payload /\ AsPrinted(EmptyPayload)
        BY EmptyIsPayload DEF EmptyPayload
      <4>3. AsPrinted(screen[v].sent)
        BY <2>2 DEF Sound
      <4> QED
        BY <2>2, <4>1, <4>2, <4>3 DEF Desk
    <3>2. CASE screen[v].waits \notin {"save", "commit"}
      <4>1. s = Closed /\ s.waits = "none"
        BY <2>1, <3>2 DEF Left, Closed
      <4> QED
        BY <4>1, ClosedIsSound DEF Sound
    <3> QED
      BY <3>1, <3>2
  <2>4. Shows(v, s) /\ UNCHANGED <<draft, register, filed, asked, spare>>
    BY <1>3, <2>1 DEF Leave
  <2>5. reading' \in [Reviewers -> SUBSET (Notices \cup {None})]
    BY <1>3 DEF Leave, DeskInv, DeskTypeOK
  <2>6. spare' \in [edits : Nat, uploads : Nat, saves : Nat]
    BY <2>4 DEF DeskInv, DeskTypeOK
  <2> QED
    BY <2>3, <2>4, <2>5, <2>6, ScreenOnlyStep
<1> QED
  BY <1>1, <1>2, <1>3

\* A step that only puts another payload on a screen, as printed and with grounds for
\* its ticks.
LEMMA NowStep ==
  ASSUME DeskInv, NEW v \in Reviewers, NEW p \in Payload, AsPrinted(p),
         NEW ground \in SUBSET Purposes, p.granted \subseteq ground,
         NEW mine \in SUBSET (Purposes \cup {"name", "contact", "signed"}),
         Shows(v, [screen[v] EXCEPT !.now = p, !.ground = ground, !.mine = mine]),
         reading' \in [Reviewers -> SUBSET (Notices \cup {None})],
         spare' \in [edits : Nat, uploads : Nat, saves : Nat],
         UNCHANGED <<draft, register, filed, asked>>
  PROVE  DeskInv'
<1>1. PICK s : s = [screen[v] EXCEPT !.now = p, !.ground = ground, !.mine = mine]
  OBVIOUS
<1>2. Sound(screen[v])
  BY DEF DeskInv
<1>3. /\ s \in Desk /\ s.now = p /\ s.ground = ground /\ s.sent = screen[v].sent
      /\ s.waits = screen[v].waits /\ s.target = screen[v].target
      /\ s.choice = screen[v].choice
  BY <1>1, <1>2 DEF Sound, Desk
<1>4. AsPrinted(s.sent)
  BY <1>2, <1>3 DEF Sound
<1>5. Shows(v, s)
  BY <1>1
<1> QED
  BY <1>3, <1>4, <1>5, ScreenOnlyStep

\* The text fields of what a screen shows changed, and nothing else of it.
Retyped(p, q) ==
  \E name \in Written, contact \in Reached, signed \in Signed :
    q = [p EXCEPT !.name = name, !.contact = contact, !.signed = signed]

\* A payload with other text is one, as printed as it was.
LEMMA RetypedIsPayload ==
  ASSUME NEW p \in Payload, AsPrinted(p), NEW q, Retyped(p, q)
  PROVE  q \in Payload /\ AsPrinted(q) /\ q.granted = p.granted
<1>1. PICK name \in Written, contact \in Reached, signed \in Signed :
        q = [p EXCEPT !.name = name, !.contact = contact, !.signed = signed]
  BY DEF Retyped
<1> QED
  BY <1>1 DEF Payload, AsPrinted

\* A step that only retypes one field.
LEMMA RetypingStep ==
  ASSUME DeskInv, NEW v \in Reviewers, NEW q, NEW key \in {"name", "contact", "signed"},
         Retyped(screen[v].now, q),
         Shows(v, [screen[v] EXCEPT !.now = q, !.mine = @ \cup {key}]),
         Use("edits"), UNCHANGED <<reading, draft, register, filed, asked>>
  PROVE  DeskInv'
<1>1. /\ Sound(screen[v]) /\ screen[v] \in Desk /\ screen[v].now \in Payload
      /\ AsPrinted(screen[v].now) /\ screen[v].now.granted \subseteq screen[v].ground
      /\ screen[v].ground \in SUBSET Purposes
      /\ screen[v].mine \in SUBSET (Purposes \cup {"name", "contact", "signed"})
  BY DEF DeskInv, Sound, Desk
<1>2. q \in Payload /\ AsPrinted(q) /\ q.granted = screen[v].now.granted
  BY <1>1, RetypedIsPayload
<1>3. PICK mine : mine = screen[v].mine \cup {key}
  OBVIOUS
<1>4. mine \in SUBSET (Purposes \cup {"name", "contact", "signed"})
  BY <1>1, <1>3
<1>5. Shows(v, [screen[v] EXCEPT !.now = q, !.ground = screen[v].ground, !.mine = mine])
  <2>1. [screen[v] EXCEPT !.now = q, !.mine = mine]
          = [screen[v] EXCEPT !.now = q, !.ground = screen[v].ground, !.mine = mine]
    BY <1>1 DEF Desk
  <2>2. Shows(v, [screen[v] EXCEPT !.now = q, !.mine = mine])
    BY <1>3
  <2> QED
    BY <2>1, <2>2
<1>6. spare' \in [edits : Nat, uploads : Nat, saves : Nat]
  BY SpareIsCounted
<1> QED
  BY <1>1, <1>2, <1>4, <1>5, <1>6, NowStep DEF DeskInv, DeskTypeOK

\* Typing and dating.
LEMMA TypingStep ==
  ASSUME DeskInv, NEW v \in Reviewers,
         \/ \E name \in Written : TypeName(v, name)
         \/ \E contact \in Reached : TypeContact(v, contact)
         \/ \E signed \in Dates : EnterDate(v, signed)
  PROVE  DeskInv'
<1>1. PICK now : now = screen[v].now
  OBVIOUS
<1>2. now \in Payload /\ now.name \in Written /\ now.contact \in Reached /\ now.signed \in Signed
  BY <1>1 DEF DeskInv, Sound, Desk, Payload
<1>3. ASSUME NEW name \in Written, TypeName(v, name)
      PROVE  DeskInv'
  <2>1. PICK q : q = [now EXCEPT !.name = name]
    OBVIOUS
  <2>2. q = [now EXCEPT !.name = name, !.contact = now.contact, !.signed = now.signed]
    BY <1>2, <2>1 DEF Payload
  <2>3. Retyped(screen[v].now, q)
    BY <1>1, <1>2, <2>2 DEF Retyped
  <2>4. /\ Shows(v, [screen[v] EXCEPT !.now = q, !.mine = @ \cup {"name"}])
        /\ Use("edits") /\ UNCHANGED <<reading, draft, register, filed, asked>>
    BY <1>1, <1>3, <2>1 DEF TypeName
  <2> QED
    BY <2>3, <2>4, RetypingStep
<1>4. ASSUME NEW contact \in Reached, TypeContact(v, contact)
      PROVE  DeskInv'
  <2>1. PICK q : q = [now EXCEPT !.contact = contact]
    OBVIOUS
  <2>2. q = [now EXCEPT !.name = now.name, !.contact = contact, !.signed = now.signed]
    BY <1>2, <2>1 DEF Payload
  <2>3. Retyped(screen[v].now, q)
    BY <1>1, <1>2, <2>2 DEF Retyped
  <2>4. /\ Shows(v, [screen[v] EXCEPT !.now = q, !.mine = @ \cup {"contact"}])
        /\ Use("edits") /\ UNCHANGED <<reading, draft, register, filed, asked>>
    BY <1>1, <1>4, <2>1 DEF TypeContact
  <2> QED
    BY <2>3, <2>4, RetypingStep
<1>5. ASSUME NEW signed \in Dates, EnterDate(v, signed)
      PROVE  DeskInv'
  <2>1. PICK q : q = [now EXCEPT !.signed = signed]
    OBVIOUS
  <2>2. q = [now EXCEPT !.name = now.name, !.contact = now.contact, !.signed = signed]
    BY <1>2, <2>1 DEF Payload
  <2>3. Retyped(screen[v].now, q)
    BY <1>1, <1>2, <2>2, EnteredAssumption DEF Retyped
  <2>4. /\ Shows(v, [screen[v] EXCEPT !.now = q, !.mine = @ \cup {"signed"}])
        /\ Use("edits") /\ UNCHANGED <<reading, draft, register, filed, asked>>
    BY <1>1, <1>5, <2>1 DEF EnterDate
  <2> QED
    BY <2>3, <2>4, RetypingStep
<1> QED
  BY <1>3, <1>4, <1>5

\* Ticking.
LEMMA TickingStep ==
  ASSUME DeskInv, NEW v \in Reviewers, NEW p \in Purposes, Toggle(v, p)
  PROVE  DeskInv'
<1>1. /\ screen[v] \in Desk /\ screen[v].now \in Payload
      /\ AsPrinted(screen[v].now) /\ screen[v].now.granted \subseteq screen[v].ground
      /\ screen[v].ground \in SUBSET Purposes
      /\ screen[v].mine \in SUBSET (Purposes \cup {"name", "contact", "signed"})
  BY DEF DeskInv, Sound, Desk
<1>2. PICK granted : granted = IF p \in screen[v].now.granted THEN screen[v].now.granted \ {p}
                               ELSE screen[v].now.granted \cup {p}
  OBVIOUS
<1>3. PICK now : now = screen[v].now
  OBVIOUS
<1>4. PICK q, ground, mine : /\ q = [now EXCEPT !.granted = granted]
                             /\ ground = screen[v].ground \cup {p}
                             /\ mine = screen[v].mine \cup {p}
  OBVIOUS
<1>5. p \in now.items /\ Shows(v, [screen[v] EXCEPT !.now = q, !.ground = ground, !.mine = mine])
  BY <1>2, <1>3, <1>4 DEF Toggle
<1>6. granted \subseteq now.items /\ granted \subseteq ground
  BY <1>1, <1>2, <1>3, <1>4, <1>5 DEF AsPrinted
<1>7. q \in Payload /\ AsPrinted(q) /\ q.granted = granted
  BY <1>1, <1>3, <1>4, <1>6 DEF Payload, AsPrinted
<1>8. UNCHANGED <<reading, draft, register, filed, asked>> /\ Use("edits")
  BY DEF Toggle
<1>9. spare' \in [edits : Nat, uploads : Nat, saves : Nat]
  BY <1>8, SpareIsCounted
<1>10. /\ mine \in SUBSET (Purposes \cup {"name", "contact", "signed"})
       /\ ground \in SUBSET Purposes
  BY <1>1, <1>4
<1> QED
  BY <1>5, <1>6, <1>7, <1>8, <1>9, <1>10, NowStep DEF DeskInv, DeskTypeOK

\* The items of a version, with the ticks they had, are as printed.
LEMMA ItemsAreAsPrinted ==
  ASSUME NEW p \in Payload, NEW n \in Notices
  PROVE  /\ ItemsOf(n, p) \in Payload /\ AsPrinted(ItemsOf(n, p))
         /\ ItemsOf(n, p).granted \subseteq p.granted
<1>1. Printed[n] \in SUBSET Purposes
  BY ReviewAssumption
<1> QED
  BY <1>1 DEF ItemsOf, Payload, AsPrinted

\* Choosing a form version.
LEMMA VersionStep ==
  ASSUME DeskInv, NEW v \in Reviewers, NEW n \in Notices \cup {None}, SelectNotice(v, n)
  PROVE  DeskInv'
<1> DEFINE now == screen[v].now
<1>1. /\ Sound(screen[v]) /\ screen[v] \in Desk /\ now \in Payload /\ AsPrinted(now)
      /\ now.granted \subseteq screen[v].ground /\ screen[v].ground \in SUBSET Purposes
      /\ screen[v].mine \in SUBSET (Purposes \cup {"name", "contact", "signed"})
  BY DEF DeskInv, Sound, Desk
<1>2. PICK p \in Payload, mine \in SUBSET (Purposes \cup {"name", "contact", "signed"}) :
        /\ AsPrinted(p) /\ p.granted \subseteq now.granted
        /\ Shows(v, [screen[v] EXCEPT !.now = p, !.ground = screen[v].ground, !.mine = mine])
  <2>1. CASE n = None
    <3>1. Shows(v, [screen[v] EXCEPT !.now = [now EXCEPT !.notice = None],
                                     !.ground = screen[v].ground, !.mine = screen[v].mine])
      BY <1>1, <2>1 DEF SelectNotice, Shows, Desk
    <3> HIDE DEF now
    <3>2. /\ [now EXCEPT !.notice = None] \in Payload /\ AsPrinted([now EXCEPT !.notice = None])
          /\ [now EXCEPT !.notice = None].granted = now.granted
      BY <1>1 DEF Payload, AsPrinted
    <3> QED
      BY <1>1, <3>1, <3>2
  <2>2. CASE n # None
    <3>1. Shows(v, [screen[v] EXCEPT !.now = ItemsOf(n, now), !.ground = screen[v].ground,
                                     !.mine = screen[v].mine \ (Purposes \ Printed[n])])
      BY <1>1, <2>2 DEF SelectNotice, Shows, Desk
    <3> HIDE DEF now
    <3>2. screen[v].mine \ (Purposes \ Printed[n]) \in SUBSET (Purposes \cup {"name", "contact", "signed"})
      BY <1>1
    <3> QED
      BY <1>1, <2>2, <3>1, <3>2, ItemsAreAsPrinted
  <2> QED
    BY <2>1, <2>2
<1>5. asked' = asked /\ UNCHANGED <<draft, register, filed>> /\ Use("edits")
  BY DEF SelectNotice
<1>6. spare' \in [edits : Nat, uploads : Nat, saves : Nat]
  BY <1>5, SpareIsCounted
<1>7. reading' \in [Reviewers -> SUBSET (Notices \cup {None})]
  BY DEF SelectNotice, DeskInv, DeskTypeOK
<1> HIDE DEF now
<1>8. p.granted \subseteq screen[v].ground
  BY <1>1, <1>2
<1> QED
  BY <1>1, <1>2, <1>5, <1>6, <1>7, <1>8, NowStep

\* Attaching a scan: it starts, is answered or fails.
LEMMA ScanStep ==
  ASSUME DeskInv, NEW v \in Reviewers, Upload(v) \/ UploadAnswered(v) \/ UploadFails(v)
  PROVE  DeskInv'
<1>1. /\ Sound(screen[v]) /\ screen[v] \in Desk /\ screen[v].sent.notice \in Notices \cup {None}
      /\ AsPrinted(screen[v].now) /\ screen[v].now.granted \subseteq screen[v].ground
  BY DEF DeskInv, Sound, Desk, Payload
<1>2. PICK s : /\ Shows(v, s)
               /\ \/ s = [screen[v] EXCEPT !.waits = "upload", !.sent = screen[v].now]
                  \/ s = [screen[v] EXCEPT !.scan = TRUE, !.waits = "none", !.sent = EmptyPayload]
                  \/ s = [screen[v] EXCEPT !.waits = "none", !.sent = EmptyPayload]
  BY DEF Upload, UploadAnswered, UploadFails
<1>3. /\ s \in Desk /\ s.now = screen[v].now /\ s.ground = screen[v].ground
      /\ s.sent \in {screen[v].now, EmptyPayload} /\ s.waits # "commit"
  <2>1. CASE s = [screen[v] EXCEPT !.waits = "upload", !.sent = screen[v].now]
    BY <1>1, <2>1 DEF Desk
  <2>2. CASE s = [screen[v] EXCEPT !.scan = TRUE, !.waits = "none", !.sent = EmptyPayload]
    BY <1>1, <2>2, EmptyIsPayload DEF Desk
  <2>3. CASE s = [screen[v] EXCEPT !.waits = "none", !.sent = EmptyPayload]
    BY <1>1, <2>3, EmptyIsPayload DEF Desk
  <2> QED
    BY <1>2, <2>1, <2>2, <2>3
<1>4. AsPrinted(s.sent)
  BY <1>1, <1>3, EmptyIsPayload
<1>5. reading' \in [Reviewers -> SUBSET (Notices \cup {None})]
  BY <1>1 DEF Upload, UploadAnswered, UploadFails, DeskInv, DeskTypeOK
<1>6. spare' \in [edits : Nat, uploads : Nat, saves : Nat]
  BY SpareIsCounted DEF Upload, UploadAnswered, UploadFails, DeskInv, DeskTypeOK
<1>7. UNCHANGED <<draft, register, filed, asked>>
  BY DEF Upload, UploadAnswered, UploadFails
<1> QED
  BY <1>1, <1>2, <1>3, <1>4, <1>5, <1>6, <1>7, ScreenOnlyStep

\* A reading pre-fills a payload with ticks that it is sure of or that were there.
LEMMA PrefilledIsPrinted ==
  ASSUME NEW p \in Payload, AsPrinted(p), NEW name \in (Legible \cap Names) \cup {None},
         NEW contact \in (Legible \cap Contacts) \cup {None}, NEW signed \in {"past", None}, NEW read
  PROVE  LET q == Prefilled(p, read, name, contact, signed)
         IN  /\ q \in Payload /\ AsPrinted(q)
             /\ q.granted \subseteq p.granted \cup {u \in DOMAIN read : read[u] = "ticked"}
             /\ p.name # "blank" => q.name = p.name
             /\ p.contact # "none" => q.contact = p.contact
             /\ p.signed \in {"past", "future"} => q.signed = p.signed
<1> DEFINE n == IF p.name = "blank" /\ name # None THEN name ELSE p.name
           c == IF p.contact = "none" /\ contact # None THEN contact ELSE p.contact
           d == IF p.signed \in {"undated", "undecided"} /\ signed # None THEN signed ELSE p.signed
           g == (p.granted \ Confident(read)) \cup (p.items \cap Confident(read) \cap Ticked(read))
<1>1. n \in Written /\ c \in Reached /\ d \in Signed /\ g \subseteq p.items
  BY DEF Payload, AsPrinted, Written, Reached, Signed
<1>2. g \subseteq p.granted \cup {u \in DOMAIN read : read[u] = "ticked"}
  BY DEF Confident, Ticked
<1>3. Prefilled(p, read, name, contact, signed)
        = [p EXCEPT !.name = n, !.contact = c, !.signed = d, !.granted = g]
  BY DEF Prefilled
<1>4. /\ p.name # "blank" => n = p.name
      /\ p.contact # "none" => c = p.contact
      /\ p.signed \in {"past", "future"} => d = p.signed
  OBVIOUS
<1> HIDE DEF n, c, d, g
<1>5. PICK q : q = [p EXCEPT !.name = n, !.contact = c, !.signed = d, !.granted = g]
  OBVIOUS
<1>6. q \in Payload /\ AsPrinted(q)
  BY <1>1, <1>5 DEF Payload, AsPrinted
<1>7. q.name = n /\ q.contact = c /\ q.signed = d /\ q.granted = g
  BY <1>5 DEF Payload
<1> QED
  BY <1>2, <1>3, <1>4, <1>5, <1>6, <1>7

\* A reading arrives, or does not.
LEMMA ReadingStep ==
  ASSUME DeskInv, NEW v \in Reviewers, Read(v)
  PROVE  DeskInv'
<1>1. /\ Sound(screen[v]) /\ screen[v] \in Desk /\ screen[v].now \in Payload
      /\ AsPrinted(screen[v].now) /\ screen[v].now.granted \subseteq screen[v].ground
      /\ screen[v].ground \in SUBSET Purposes
      /\ screen[v].mine \in SUBSET (Purposes \cup {"name", "contact", "signed"})
  BY DEF DeskInv, Sound, Desk
<1>2. PICK n \in Notices \cup {None} :
        \/ ReadFails(v, n)
        \/ \E read \in [IF n = None THEN {} ELSE Printed[n] -> Readings],
              name \in (Legible \cap Names) \cup {None},
              contact \in (Legible \cap Contacts) \cup {None}, signed \in {"past", None} :
             ReadArrives(v, n, read, name, contact, signed)
  BY DEF Read, DeskInv, DeskTypeOK
<1>3. reading' \in [Reviewers -> SUBSET (Notices \cup {None})]
  BY <1>2 DEF ReadFails, ReadArrives, DeskInv, DeskTypeOK
<1>4. CASE UNCHANGED screen
  <2>1. PICK s : s = screen[v]
    OBVIOUS
  <2>2. Shows(v, s)
    <3>1. s.open \/ s.waits # "none" \/ s = Closed
      BY <1>1, <2>1 DEF Sound
    <3> QED
      BY <1>4, <2>1, <3>1 DEF Shows, DeskInv, DeskTypeOK
  <2>3. /\ s \in Desk /\ AsPrinted(s.now) /\ AsPrinted(s.sent) /\ s.now.granted \subseteq s.ground
        /\ s.waits = screen[v].waits /\ s.target = screen[v].target /\ s.choice = screen[v].choice
    BY <1>1, <2>1 DEF Sound
  <2>4. UNCHANGED <<draft, register, filed, asked, spare>>
    BY <1>2 DEF ReadFails, ReadArrives
  <2> QED
    BY <1>3, <2>2, <2>3, <2>4, ScreenOnlyStep DEF DeskInv, DeskTypeOK
<1>5. CASE ~ UNCHANGED screen
  <2>1. PICK read \in [Printed[n] -> Readings], name \in (Legible \cap Names) \cup {None},
             contact \in (Legible \cap Contacts) \cup {None}, signed \in {"past", None} :
          ReadArrives(v, n, read, name, contact, signed) /\ n # None
    BY <1>2, <1>5 DEF ReadFails, ReadArrives
  <2>2. PICK p, ground, mine :
          /\ p = Prefilled(screen[v].now, read, name, contact, signed)
          /\ ground = screen[v].ground \cup {u \in DOMAIN read : read[u] = "ticked"}
          /\ mine = screen[v].mine
    OBVIOUS
  <2>3. p \in Payload /\ AsPrinted(p) /\ p.granted \subseteq ground
    BY <1>1, <2>2, PrefilledIsPrinted
  <2>4. ground \in SUBSET Purposes
    <3>1. Printed[n] \subseteq Purposes
      BY <2>1, ReviewAssumption
    <3> QED
      BY <1>1, <2>2, <3>1
  <2>5. Shows(v, [screen[v] EXCEPT !.now = p, !.ground = ground, !.mine = mine])
    <3>1. Shows(v, [screen[v] EXCEPT !.now = p, !.ground = ground])
      BY <2>1, <2>2 DEF ReadArrives
    <3>2. [screen[v] EXCEPT !.now = p, !.ground = ground]
            = [screen[v] EXCEPT !.now = p, !.ground = ground, !.mine = mine]
      BY <1>1, <2>2 DEF Desk
    <3> QED
      BY <3>1, <3>2
  <2>6. UNCHANGED <<draft, register, filed, asked, spare>>
    BY <2>1 DEF ReadArrives
  <2> QED
    BY <1>1, <1>3, <2>2, <2>3, <2>4, <2>5, <2>6, NowStep DEF DeskInv, DeskTypeOK
<1> QED
  BY <1>4, <1>5

\* A click that saves, with or without an answer about who it is.
LEMMA ClickStep ==
  ASSUME DeskInv, NEW v \in Reviewers, NEW choice \in Principals \cup {None}, NEW forced \in BOOLEAN,
         Click(v, choice, forced)
  PROVE  DeskInv'
<1>1. /\ screen[v] \in Desk /\ AsPrinted(screen[v].now)
      /\ screen[v].now.granted \subseteq screen[v].ground
  BY DEF DeskInv, Sound
<1>2. PICK s : s = [screen[v] EXCEPT !.waits = "save", !.sent = screen[v].now, !.offer = {},
                                     !.choice = choice, !.forced = forced]
  OBVIOUS
<1>3. /\ s \in Desk /\ s.now = screen[v].now /\ s.sent = screen[v].now
      /\ s.ground = screen[v].ground /\ s.waits = "save"
  BY <1>1, <1>2 DEF Desk
<1>4. /\ Shows(v, s) /\ Use("saves")
      /\ UNCHANGED <<reading, draft, register, filed, asked>>
  BY <1>2 DEF Click
<1>5. spare' \in [edits : Nat, uploads : Nat, saves : Nat]
  BY <1>4, SpareIsCounted
<1> QED
  BY <1>1, <1>3, <1>4, <1>5, ScreenOnlyStep DEF DeskInv, DeskTypeOK

\* A step after which a screen waits for nothing, and that wrote nothing.
LEMMA AnsweredStep ==
  ASSUME DeskInv, NEW v \in Reviewers, NEW s, Settled(screen[v], s), s.waits = "none", Shows(v, s),
         UNCHANGED <<reading, draft, register, filed, asked, spare>>
  PROVE  DeskInv'
<1>1. Sound(screen[v])
  BY DEF DeskInv
<1>2. /\ s \in Desk /\ AsPrinted(s.now) /\ AsPrinted(s.sent) /\ s.now.granted \subseteq s.ground
  BY <1>1, EmptyIsPayload DEF Settled, Sound
<1> QED
  BY <1>2, ScreenOnlyStep DEF DeskInv, DeskTypeOK

\* A request that is lost.
LEMMA LostStep ==
  ASSUME DeskInv, NEW v \in Reviewers, Lost(v)
  PROVE  DeskInv'
<1>2. Settled(screen[v], Idle(screen[v])) /\ Idle(screen[v]).waits = "none"
  BY IdleIsSettled DEF DeskInv
<1> QED
  BY <1>2, AnsweredStep DEF Lost

\* A step that writes one draft as a screen sent it, and shows that screen what came
\* of it.
LEMMA DraftStep ==
  ASSUME DeskInv, NEW v \in Reviewers, NEW d \in Drafts, NEW scan \in BOOLEAN, NEW s,
         s \in {Idle(screen[v]), Onward(screen[v], d)}, Shows(v, s),
         draft' = [draft EXCEPT ![d] = Row(screen[v].sent, scan, v)], Confirms(v, d),
         UNCHANGED <<reading, register, filed, spare>>
  PROVE  DeskInv'
<1>1. /\ Sound(screen[v]) /\ screen[v] \in Desk /\ screen[v].sent \in Payload
      /\ AsPrinted(screen[v].sent) /\ screen[v].choice \in Principals \cup {None}
      /\ register \subseteq Principals /\ draft \in [Drafts -> Stored]
  BY DEF DeskInv, DeskTypeOK, Sound, Desk
<1>2. PICK r : r = Row(screen[v].sent, scan, v)
  OBVIOUS
<1>3. /\ r \in Stored /\ Kept(r) /\ r.payload = screen[v].sent /\ r.saved = v
  BY <1>1, <1>2, RowIsKept DEF Row
<1>4. draft' \in [Drafts -> Stored] /\ (\A e \in Drafts : Kept(draft'[e]))
      /\ draft'[d] = r /\ \A e \in Drafts \ {d} : draft'[e] = draft[e]
  BY <1>2, <1>3 DEF DeskInv, DeskTypeOK
<1>5. /\ Settled(screen[v], s)
      /\ \/ s.waits = "none"
         \/ s.waits = "commit" /\ s.target = d /\ s.choice = screen[v].choice
  <2>1. CASE s = Idle(screen[v])
    BY <1>1, <2>1, IdleIsSettled
  <2>2. CASE s = Onward(screen[v], d)
    BY <1>1, <2>2, OnwardIsSound
  <2> QED
    BY <2>1, <2>2
<1>6. /\ screen' \in [Reviewers -> Desk] /\ \A w \in Reviewers : Sound(screen'[w])
      /\ \A w \in Reviewers \ {v} : screen'[w] = screen[w]
      /\ screen'[v] = s \/ screen'[v] = Closed
  <2>1. /\ s \in Desk /\ AsPrinted(s.now) /\ AsPrinted(s.sent) /\ s.now.granted \subseteq s.ground
    BY <1>1, <1>5, EmptyIsPayload DEF Settled, Sound
  <2>2. s.waits = "commit" => s.target # None
    BY <1>5, ReviewAssumption
  <2> QED
    BY <2>1, <2>2, ScreensAfter
<1>7. asked \subseteq asked' /\ asked' \subseteq Answers
  <2>1. \A q \in Principals : [draft |-> d, by |-> v, who |-> Who(screen[v].sent), is |-> q] \in Answers
    BY <1>1 DEF Answers, Who, Payload
  <2> QED
    BY <1>1, <2>1 DEF Confirms, DeskInv, DeskTypeOK
<1>8. ASSUME NEW w \in Reviewers
      PROVE  Backed(w)'
  <2>1. SUFFICES ASSUME NEW e, NEW who, screen'[w].waits = "commit",
                           who = screen'[w].choice, who # None, e = screen'[w].target
                 PROVE  Said(w, e, who)'
    BY DEF Backed
  <2>2. CASE w = v
    <3>1. screen'[v].target = d /\ screen'[v].choice = screen[v].choice
      BY <1>5, <1>6, <2>1, <2>2 DEF Closed
    <3>2. PICK q : q = [draft |-> d, by |-> v, who |-> Who(screen[v].sent), is |-> screen[v].choice]
      OBVIOUS
    <3>3. q \in asked'
      BY <2>1, <2>2, <3>1, <3>2 DEF Confirms
    <3>4. q.draft = d /\ q.by = v /\ q.is = screen[v].choice /\ q.who = Who(draft'[d].payload)
      BY <1>3, <1>4, <3>2
    <3> QED
      BY <2>1, <2>2, <3>1, <3>3, <3>4 DEF Said
  <2>3. CASE w # v
    <3>1. screen'[w] = screen[w]
      BY <1>6, <2>3
    <3>2. e \in Drafts /\ Said(w, e, who)
      BY <2>1, <3>1 DEF DeskInv, Sound, Desk, Backed
    <3>3. \/ draft'[e] = draft[e]
          \/ draft'[e].saved # w
      BY <1>3, <1>4, <2>3, <3>2
    <3> QED
      BY <1>7, <3>2, <3>3, SaidStays
  <2> QED
    BY <2>2, <2>3
<1>9. DeskTypeOK'
  BY <1>4, <1>6, <1>7 DEF DeskInv, DeskTypeOK
<1>10. BoxesHaveGrounds' /\ NothingInvalidFiled'
  BY <1>6 DEF DeskInv, BoxesHaveGrounds, NothingInvalidFiled, Sound
<1>11. NobodyFusedUnasked'
  BY <1>7 DEF DeskInv, NobodyFusedUnasked
<1> QED
  BY <1>4, <1>6, <1>8, <1>9, <1>10, <1>11 DEF DeskInv

\* A save, of the draft or of a new entry, with its answer or without.
LEMMA SaveStep ==
  ASSUME DeskInv, NEW v \in Reviewers, NEW answered \in BOOLEAN,
         PatchDraft(v, answered) \/ \E d \in Drafts : CreateDraft(v, d, answered)
  PROVE  DeskInv'
<1>1. /\ Sound(screen[v]) /\ screen[v] \in Desk /\ screen[v].scan \in BOOLEAN
      /\ screen[v].draft \in Drafts \cup {None}
  BY DEF DeskInv, Sound, Desk
<1>2. ASSUME UNCHANGED <<reading, draft, register, filed, asked, spare>>,
             Shows(v, Idle(screen[v])) \/ Shows(v, Refused(screen[v], {}))
      PROVE  DeskInv'
  <2>1. PICK s : s \in {Idle(screen[v]), Refused(screen[v], {})} /\ Shows(v, s)
    BY <1>2
  <2>2. Settled(screen[v], s) /\ s.waits = "none"
    <3>1. {} \in SUBSET Fields
      OBVIOUS
    <3> QED
      BY <1>1, <2>1, <3>1, IdleIsSettled, RefusedIsSettled
  <2> QED
    BY <1>2, <2>1, <2>2, AnsweredStep
<1>3. ASSUME PatchDraft(v, answered)
      PROVE  DeskInv'
  <2>1. PICK d \in Drafts : d = screen[v].draft
    BY <1>1, <1>3 DEF PatchDraft
  <2>2. CASE Shaped(screen[v].sent) /\ Reviewable(d)
    <3>1. PICK scan \in BOOLEAN : scan = (screen[v].scan \/ draft[d].scan)
      OBVIOUS
    <3>2. PICK s : s \in {Idle(screen[v]), Onward(screen[v], d)} /\ Shows(v, s)
      BY <1>3, <2>1, <2>2 DEF PatchDraft
    <3>3. /\ draft' = [draft EXCEPT ![d] = Row(screen[v].sent, scan, v)] /\ Confirms(v, d)
          /\ UNCHANGED <<reading, register, filed, spare>>
      BY <1>3, <2>1, <2>2, <3>1 DEF PatchDraft
    <3> QED
      BY <3>2, <3>3, DraftStep
  <2>3. CASE ~ (Shaped(screen[v].sent) /\ Reviewable(d))
    BY <1>2, <1>3, <2>1, <2>3 DEF PatchDraft
  <2> QED
    BY <2>2, <2>3
<1>4. ASSUME NEW d \in Drafts, CreateDraft(v, d, answered)
      PROVE  DeskInv'
  <2>1. CASE Shaped(screen[v].sent)
    <3>1. PICK s : s \in {Idle(screen[v]), Onward(screen[v], d)} /\ Shows(v, s)
      BY <1>4, <2>1 DEF CreateDraft
    <3>2. /\ draft' = [draft EXCEPT ![d] = Row(screen[v].sent, screen[v].scan, v)]
          /\ Confirms(v, d) /\ UNCHANGED <<reading, register, filed, spare>>
      BY <1>4, <2>1 DEF CreateDraft
    <3> QED
      BY <1>1, <3>1, <3>2, DraftStep
  <2>2. CASE ~ Shaped(screen[v].sent)
    BY <1>2, <1>4, <2>2 DEF CreateDraft
  <2> QED
    BY <2>1, <2>2
<1> QED
  BY <1>3, <1>4

\* Whoever a valid draft is found to be of is a person; the one it names, unless the
\* reviewer said who.
LEMMA PersonIsNamedOrChosen ==
  ASSUME DeskInv, NEW d \in Drafts, Validated(d) = {}, NEW choice \in Principals \cup {None},
         NEW who, who = IF Person(d, choice) = None THEN Who(draft[d].payload) ELSE Person(d, choice)
  PROVE  /\ who \in Principals
         /\ who = Who(draft[d].payload) \/ (choice # None /\ who = choice)
         /\ Shaped(draft[d].payload) /\ Errors(draft[d].payload) = {}
<1>1. draft[d].payload \in Payload /\ draft[d].matched \in {None, Who(draft[d].payload)}
  BY DEF DeskInv, DeskTypeOK, Stored, Kept
<1>2. /\ Who(draft[d].payload) \in Principals /\ Shaped(draft[d].payload)
      /\ Errors(draft[d].payload) = {}
  BY <1>1, NoErrorsNamed DEF Validated
<1>3. \/ choice # None /\ Person(d, choice) = choice
      \/ Person(d, choice) \in {None, Who(draft[d].payload)}
  BY <1>1 DEF Person, Exact
<1> QED
  BY <1>2, <1>3

\* Filing a valid draft, for a person it names or whom its reviewer said it was.
LEMMA FileStep ==
  ASSUME DeskInv, NEW v \in Reviewers, NEW d \in Drafts, NEW who \in Principals,
         NEW answered \in BOOLEAN, File(v, d, who, answered), UNCHANGED <<asked, spare>>,
         who = Who(draft[d].payload) \/ Said(v, d, who),
         Shaped(draft[d].payload), Errors(draft[d].payload) = {}
  PROVE  DeskInv'
<1>1. /\ Sound(screen[v]) /\ draft[d] \in Stored /\ Kept(draft[d])
  BY DEF DeskInv, DeskTypeOK
<1>2. CASE UNCHANGED <<reading, draft, register, filed>> /\ Shows(v, Idle(screen[v]))
  <2>1. Settled(screen[v], Idle(screen[v])) /\ Idle(screen[v]).waits = "none"
    BY <1>1, IdleIsSettled
  <2> QED
    BY <1>2, <2>1, AnsweredStep
<1>3. CASE ~ (UNCHANGED <<reading, draft, register, filed>> /\ Shows(v, Idle(screen[v])))
  <2>1. PICK a, r : /\ a = [draft |-> d, by |-> v, payload |-> draft[d].payload,
                            scan |-> draft[d].scan, is |-> who, saved |-> draft[d].saved]
                    /\ r = [draft[d] EXCEPT !.status = "committed"]
    OBVIOUS
  <2>2. /\ filed' = filed \cup {a} /\ register' = register \cup {who}
        /\ draft' = [draft EXCEPT ![d] = r]
        /\ Shows(v, IF answered THEN Closed ELSE Idle(screen[v]))
        /\ reading' = IF answered THEN [reading EXCEPT ![v] = {}] ELSE reading
    BY <1>3, <2>1 DEF File
  <2>3. /\ a \in Filing /\ a.draft = d /\ a.by = v /\ a.payload = draft[d].payload /\ a.is = who
        /\ a.saved = draft[d].saved /\ AsPrinted(a.payload)
    BY <1>1, <2>1 DEF Stored, Kept, Filing
  <2>4. /\ r \in Stored /\ Kept(r) /\ r.payload = draft[d].payload /\ r.saved = draft[d].saved
    BY <1>1, <2>1 DEF Stored, Kept
  <2>5. PICK s : /\ Shows(v, s) /\ s \in Desk /\ s.waits = "none"
                 /\ AsPrinted(s.now) /\ AsPrinted(s.sent) /\ s.now.granted \subseteq s.ground
    <3>1. /\ Idle(screen[v]).waits = "none" /\ Settled(screen[v], Idle(screen[v]))
      BY <1>1, IdleIsSettled
    <3>2. /\ Idle(screen[v]) \in Desk /\ AsPrinted(Idle(screen[v]).now)
          /\ AsPrinted(Idle(screen[v]).sent)
          /\ Idle(screen[v]).now.granted \subseteq Idle(screen[v]).ground
      BY <1>1, <3>1, EmptyIsPayload DEF Settled, Sound
    <3>3. /\ Closed \in Desk /\ AsPrinted(Closed.now) /\ AsPrinted(Closed.sent)
          /\ Closed.now.granted \subseteq Closed.ground
      BY ClosedIsSound DEF Sound
    <3>4. Closed.waits = "none"
      BY DEF Closed
    <3> QED
      BY <2>2, <3>1, <3>2, <3>3, <3>4
  <2>6. /\ screen' \in [Reviewers -> Desk] /\ \A w \in Reviewers : Sound(screen'[w])
        /\ \A w \in Reviewers \ {v} : screen'[w] = screen[w]
        /\ screen'[v] = s \/ screen'[v] = Closed
    BY <2>5, ScreensAfter
  <2>7. /\ draft' \in [Drafts -> Stored] /\ \A e \in Drafts : Kept(draft'[e])
        /\ \A e \in Drafts : /\ draft'[e].payload = draft[e].payload
                             /\ draft'[e].saved = draft[e].saved
    BY <2>2, <2>4 DEF DeskInv, DeskTypeOK
  <2>8. ASSUME NEW w \in Reviewers
        PROVE  Backed(w)'
    <3>1. SUFFICES ASSUME NEW e, NEW whom, screen'[w].waits = "commit",
                             whom = screen'[w].choice, whom # None, e = screen'[w].target
                   PROVE  Said(w, e, whom)'
      BY DEF Backed
    <3>2. screen'[w] = screen[w]
      BY <2>5, <2>6, <3>1 DEF Closed
    <3>3. e \in Drafts /\ Said(w, e, whom)
      BY <3>1, <3>2 DEF DeskInv, Sound, Desk, Backed
    <3> QED
      BY <2>7, <3>3, SaidStays
  <2>9. DeskTypeOK'
    BY <2>2, <2>3, <2>6, <2>7 DEF DeskInv, DeskTypeOK
  <2>10. BoxesHaveGrounds'
    BY <2>2, <2>3, <2>6 DEF DeskInv, BoxesHaveGrounds, Sound
  <2>11. NothingInvalidFiled'
    BY <2>2, <2>3 DEF DeskInv, NothingInvalidFiled
  <2>12. NobodyFusedUnasked'
    <3>1. a.is = Who(a.payload) \/
          \E q \in asked' : /\ q.draft = a.draft /\ q.by = a.by /\ q.is = a.is
                            /\ q.who = Who(a.payload) \/ a.saved # a.by
      BY <2>3 DEF Said
    <3> QED
      BY <2>2, <3>1 DEF DeskInv, NobodyFusedUnasked
  <2> QED
    BY <2>6, <2>7, <2>8, <2>9, <2>10, <2>11, <2>12 DEF DeskInv
<1> QED
  BY <1>2, <1>3

\* The commit of a draft: refused, stopped to ask, or filed.
LEMMA CommitStep ==
  ASSUME DeskInv, NEW v \in Reviewers, NEW answered \in BOOLEAN, Commit(v, answered)
  PROVE  DeskInv'
<1>1. PICK d, choice : d = screen[v].target /\ choice = screen[v].choice
  OBVIOUS
<1>2. /\ Sound(screen[v]) /\ d \in Drafts /\ choice \in Principals \cup {None}
      /\ choice # None => Said(v, d, choice)
  BY <1>1 DEF DeskInv, Sound, Desk, Backed, Commit
<1>3. PICK issues, offer : issues = Validated(d) /\ offer = Candidates(Who(draft[d].payload))
  OBVIOUS
<1>4. issues \in SUBSET Fields /\ offer \in SUBSET Principals
  BY <1>3 DEF Validated, Errors, Candidates, DeskInv, DeskTypeOK
<1>5. PICK who : who = IF Person(d, choice) = None THEN Who(draft[d].payload) ELSE Person(d, choice)
  OBVIOUS
<1>6. \/ \E s : /\ s \in {Idle(screen[v]), Refused(screen[v], issues),
                          [Idle(screen[v]) EXCEPT !.offer = offer]}
                /\ Shows(v, s)
                /\ UNCHANGED <<reading, draft, register, filed>>
      \/ Validated(d) = {} /\ File(v, d, who, answered)
  BY <1>1, <1>3, <1>5 DEF Commit
<1>7. UNCHANGED <<asked, spare>>
  BY DEF Commit
<1>8. CASE \E s : /\ s \in {Idle(screen[v]), Refused(screen[v], issues),
                            [Idle(screen[v]) EXCEPT !.offer = offer]}
                  /\ Shows(v, s)
                  /\ UNCHANGED <<reading, draft, register, filed>>
  <2>1. PICK s : /\ s \in {Idle(screen[v]), Refused(screen[v], issues),
                           [Idle(screen[v]) EXCEPT !.offer = offer]}
                 /\ Shows(v, s)
                 /\ UNCHANGED <<reading, draft, register, filed>>
    BY <1>8
  <2>2. Settled(screen[v], s) /\ s.waits = "none"
    <3>1. CASE s = Idle(screen[v])
      BY <1>2, <3>1, IdleIsSettled
    <3>2. CASE s = Refused(screen[v], issues)
      BY <1>2, <1>4, <3>2, RefusedIsSettled
    <3>3. CASE s = [Idle(screen[v]) EXCEPT !.offer = offer]
      BY <1>2, <1>4, <3>3, AskedIsSettled
    <3> QED
      BY <2>1, <3>1, <3>2, <3>3
  <2> QED
    BY <1>7, <2>1, <2>2, AnsweredStep
<1>9. CASE Validated(d) = {} /\ File(v, d, who, answered)
  <2>1. /\ who \in Principals
        /\ who = Who(draft[d].payload) \/ (choice # None /\ who = choice)
        /\ Shaped(draft[d].payload) /\ Errors(draft[d].payload) = {}
    BY <1>2, <1>5, <1>9, PersonIsNamedOrChosen
  <2> QED
    BY <1>2, <1>7, <1>9, <2>1, FileStep
<1> QED
  BY <1>6, <1>8, <1>9

\* A draft is rejected.
LEMMA RejectStep ==
  ASSUME DeskInv, NEW d \in Drafts, Reject(d)
  PROVE  DeskInv'
<1>1. PICK r : r = [draft[d] EXCEPT !.status = "rejected"]
  OBVIOUS
<1>2. /\ r \in Stored /\ Kept(r) /\ r.payload = draft[d].payload /\ r.saved = draft[d].saved
  <2>1. draft[d] \in Stored /\ Kept(draft[d])
    BY DEF DeskInv, DeskTypeOK
  <2> QED
    BY <1>1, <2>1 DEF Stored, Kept
<1>3. /\ draft' = [draft EXCEPT ![d] = r]
      /\ UNCHANGED <<screen, reading, register, filed, asked, spare>>
  BY <1>1 DEF Reject
<1>4. /\ draft' \in [Drafts -> Stored] /\ \A e \in Drafts : Kept(draft'[e])
      /\ \A e \in Drafts : draft'[e].payload = draft[e].payload /\ draft'[e].saved = draft[e].saved
  BY <1>2, <1>3 DEF DeskInv, DeskTypeOK
<1>5. ASSUME NEW w \in Reviewers
      PROVE  Sound(screen'[w]) /\ Backed(w)'
  <2>1. Sound(screen[w]) /\ Backed(w)
    BY DEF DeskInv
  <2>2. screen[w].waits = "commit" => screen[w].target \in Drafts
    BY <2>1 DEF Sound, Desk
  <2> QED
    BY <1>3, <1>4, <2>1, <2>2 DEF Backed, Said
<1>6. DeskTypeOK'
  BY <1>3, <1>4 DEF DeskInv, DeskTypeOK
<1>7. BoxesHaveGrounds' /\ NothingInvalidFiled' /\ NobodyFusedUnasked'
  BY <1>3 DEF DeskInv, BoxesHaveGrounds, NothingInvalidFiled, NobodyFusedUnasked
<1> QED
  BY <1>4, <1>5, <1>6, <1>7 DEF DeskInv

\* The queue as it is found satisfies the invariant.
LEMMA DeskStarts == DeskInit => DeskInv
<1> SUFFICES ASSUME DeskInit
             PROVE  DeskInv
  OBVIOUS
<1>1. NoDraft \in Stored /\ Kept(NoDraft)
  BY EmptyIsPayload DEF NoDraft, Stored, Kept
<1>2. ASSUME NEW p \in Imported, NEW r \in Queueing(p)
      PROVE  r \in Stored /\ Kept(r)
  <2>1. p \in Payload /\ AsPrinted(p) /\ FALSE \in BOOLEAN
    BY EnteredAssumption DEF AsPrinted
  <2>2. register \subseteq Principals
    BY ReviewAssumption DEF DeskInit, Principals
  <2>3. Row(p, FALSE, None) \in Stored /\ Kept(Row(p, FALSE, None)) /\ Row(p, FALSE, None).payload = p
    BY <2>1, <2>2, RowIsKept DEF Row
  <2>4. PICK m \in {None, Exact(Who(p))} : r = [Row(p, FALSE, None) EXCEPT !.matched = m]
    BY <1>2 DEF Queueing
  <2>5. m \in Principals \cup {None} /\ m \in {None, Who(p)}
    BY <2>2, <2>4 DEF Exact
  <2> QED
    BY <2>3, <2>4, <2>5 DEF Stored, Kept
<1>3. draft \in [Drafts -> Stored] /\ \A d \in Drafts : Kept(draft[d])
  BY <1>1, <1>2 DEF DeskInit
<1>4. Closed \in Desk /\ \A v \in Reviewers : Sound(screen[v]) /\ Backed(v)
  BY ClosedIsSound DEF DeskInit, Sound, Backed, Closed
<1>5. DeskTypeOK
  BY <1>3, <1>4, ReviewAssumption DEF DeskInit, DeskTypeOK, Principals
<1>6. BoxesHaveGrounds /\ NothingInvalidFiled /\ NobodyFusedUnasked
  BY <1>4 DEF DeskInit, BoxesHaveGrounds, NothingInvalidFiled, NobodyFusedUnasked, Sound
<1> QED
  BY <1>3, <1>4, <1>5, <1>6 DEF DeskInv

\* Every step keeps it.
LEMMA DeskSteps == DeskInv /\ [DeskNext]_deskVars => DeskInv'
<1> SUFFICES ASSUME DeskInv, [DeskNext]_deskVars
             PROVE  DeskInv'
  OBVIOUS
<1>1. ASSUME NEW v \in Reviewers, NEW d \in Drafts, OpenDraft(v, d)
      PROVE  DeskInv'
  BY <1>1, OpeningStep
<1>2. ASSUME NEW v \in Reviewers, OpenNew(v) \/ Leave(v)
      PROVE  DeskInv'
  BY <1>2, OpeningStep
<1>3. ASSUME NEW v \in Reviewers, Edit(v)
      PROVE  DeskInv'
  BY <1>3, TypingStep, TickingStep, VersionStep DEF Edit
<1>4. ASSUME NEW v \in Reviewers, Read(v)
      PROVE  DeskInv'
  BY <1>4, ReadingStep
<1>5. ASSUME NEW v \in Reviewers, Upload(v) \/ UploadAnswered(v) \/ UploadFails(v)
      PROVE  DeskInv'
  BY <1>5, ScanStep
<1>6. ASSUME NEW v \in Reviewers, Lost(v)
      PROVE  DeskInv'
  BY <1>6, LostStep
<1>7. ASSUME NEW v \in Reviewers, NEW choice \in Principals \cup {None}, NEW forced \in BOOLEAN,
             Click(v, choice, forced)
      PROVE  DeskInv'
  BY <1>7, ClickStep
<1>8. ASSUME NEW v \in Reviewers, NEW answered \in BOOLEAN, Answer(v, answered)
      PROVE  DeskInv'
  BY <1>8, SaveStep, CommitStep DEF Answer
<1>9. ASSUME NEW d \in Drafts, Reject(d)
      PROVE  DeskInv'
  BY <1>9, RejectStep
<1>10. CASE UNCHANGED deskVars
  BY <1>10 DEF deskVars, DeskInv, DeskTypeOK, BoxesHaveGrounds, NothingInvalidFiled,
               NobodyFusedUnasked, Backed, Said
<1> QED
  BY <1>1, <1>2, <1>3, <1>4, <1>5, <1>6, <1>7, <1>8, <1>9, <1>10 DEF DeskNext

\* The invariant of the reviewer's screen: whatever reviewers type, tick, choose and
\* save, in whatever order readings and answers come.
THEOREM DeskHolds == DeskSpec => []DeskInv
<1>1. DeskInit => DeskInv
  BY DeskStarts
<1>2. DeskInv /\ [DeskNext]_deskVars => DeskInv'
  BY DeskSteps
<1> QED
  BY <1>1, <1>2, PTL DEF DeskSpec

\* What the desk's run checks of what is filed and shown, for any number of
\* reviewers, drafts, versions and people, and whatever the queue held.
THEOREM DeskTypeCorrect == DeskSpec => []DeskTypeOK
BY DeskHolds, PTL DEF DeskInv

\* A form in the register has no error that a reviewer would have had to fix:
\* commitDraft looks at what is in the row, not at what was on some screen.
THEOREM FiledFormsAreValid == DeskSpec => []NothingInvalidFiled
BY DeskHolds, PTL DEF DeskInv

\* A form is filed with the person it names, or with one whom the reviewer who
\* commits it said that person to be on this draft: with the name and contact point
\* it is filed with before them, but for a draft another screen saved in between.
THEOREM FusedOnlyWhenAsked == DeskSpec => []NobodyFusedUnasked
BY DeskHolds, PTL DEF DeskInv

\* Boxes are those printed or queued, and ticks on a screen have grounds.
THEOREM TicksHaveGrounds == DeskSpec => []BoxesHaveGrounds
BY DeskHolds, PTL DEF DeskInv

-----------------------------------------------------------------------------
(* What a reviewer typed                                                   *)

\* The text of a screen stands where the reviewer wrote it.
Stands(s, t) ==
  /\ "name" \in s.mine /\ s.now.name # "blank" => t.now.name = s.now.name
  /\ "contact" \in s.mine /\ s.now.contact # "none" => t.now.contact = s.now.contact
  /\ "signed" \in s.mine /\ s.now.signed \in {"past", "future"} => t.now.signed = s.now.signed

\* No answer of a save or a commit touches what is shown.
LEMMA AnswersLeaveNow ==
  ASSUME NEW s \in Desk, NEW issues, NEW offer, NEW d
  PROVE  /\ Idle(s).now = s.now /\ Refused(s, issues).now = s.now
         /\ [Idle(s) EXCEPT !.offer = offer].now = s.now
         /\ Onward(s, d).now = s.now
<1>1. Idle(s).now = s.now
  BY DEF Idle, Desk
<1>2. Refused(s, issues).now = s.now /\ Refused(s, Errors(s.sent)).now = s.now
  BY DEF Refused, Idle, Desk
<1>3. [Idle(s) EXCEPT !.offer = offer].now = s.now
  BY DEF Idle, Desk
<1>4. Onward(s, d).now = s.now
  BY <1>2 DEF Onward, Desk
<1> QED
  BY <1>1, <1>2, <1>3, <1>4

\* What a screen in use comes to show without a touch of its reviewer stands.
LEMMA TypingStandsStep ==
  ASSUME DeskInv, [DeskNext]_deskVars, NEW v \in Reviewers,
         screen[v].open, screen'[v].open, spare'.edits = spare.edits
  PROVE  Stands(screen[v], screen'[v])
<1>1. screen \in [Reviewers -> Desk] /\ spare \in [edits : Nat, uploads : Nat, saves : Nat]
  BY DEF DeskInv, DeskTypeOK
<1>2. ~ Use("edits")
  BY <1>1 DEF Use
<1>3. ASSUME screen'[v].now = screen[v].now
      PROVE  Stands(screen[v], screen'[v])
  BY <1>3 DEF Stands
<1>4. CASE screen'[v] = screen[v]
  BY <1>3, <1>4
<1>5. ASSUME NEW u \in Reviewers, NEW s, Shows(u, s), u # v
      PROVE  Stands(screen[v], screen'[v])
  BY <1>1, <1>4, <1>5 DEF Shows
<1>7. ~ Closed.open
  BY DEF Closed
<1>7a. ASSUME NEW s, Shows(v, s)
       PROVE  screen'[v] = s
  BY <1>1, <1>7, <1>7a DEF Shows
<1>6. ASSUME NEW s, Shows(v, s), s.now = screen[v].now
      PROVE  Stands(screen[v], screen'[v])
  BY <1>3, <1>6, <1>7a
<1>8. ASSUME NEW u \in Reviewers, NEW d \in Drafts, OpenDraft(u, d)
      PROVE  Stands(screen[v], screen'[v])
  BY <1>5, <1>7, <1>8 DEF OpenDraft
<1>9. ASSUME NEW u \in Reviewers, OpenNew(u) \/ Leave(u)
      PROVE  Stands(screen[v], screen'[v])
  <2>1. CASE u # v
    BY <1>5, <1>9, <2>1 DEF OpenNew, Leave
  <2>2. CASE u = v
    <3>1. Leave(v)
      BY <1>7, <1>9, <2>2 DEF OpenNew
    <3>2. screen'[v] = Left(screen[v])
      BY <1>7a, <3>1 DEF Leave
    <3>3. ~ Left(screen[v]).open
      BY <1>1, <1>7 DEF Left, Desk
    <3> QED
      BY <3>2, <3>3
  <2> QED
    BY <2>1, <2>2
<1>10. ASSUME NEW u \in Reviewers, Edit(u)
       PROVE  FALSE
  BY <1>2, <1>10 DEF Edit, TypeName, TypeContact, EnterDate, Toggle, SelectNotice
<1>11. ASSUME NEW u \in Reviewers, Read(u)
       PROVE  Stands(screen[v], screen'[v])
  <2>1. CASE UNCHANGED screen
    BY <1>4, <2>1
  <2>2. CASE ~ UNCHANGED screen
    <3>1. PICK n \in reading[u] :
            \E read \in [IF n = None THEN {} ELSE Printed[n] -> Readings],
               name \in (Legible \cap Names) \cup {None},
               contact \in (Legible \cap Contacts) \cup {None}, signed \in {"past", None} :
              ReadArrives(u, n, read, name, contact, signed)
      BY <1>11, <2>2 DEF Read, ReadFails
    <3>2. PICK read \in [IF n = None THEN {} ELSE Printed[n] -> Readings],
               name \in (Legible \cap Names) \cup {None},
               contact \in (Legible \cap Contacts) \cup {None}, signed \in {"past", None} :
            ReadArrives(u, n, read, name, contact, signed)
      BY <3>1
    <3> DEFINE ground == screen[u].ground \cup {p \in DOMAIN read : read[p] = "ticked"}
    <3>3. Shows(u, [screen[u] EXCEPT !.now = Prefilled(screen[u].now, read, name, contact, signed),
                                     !.ground = ground])
      BY <2>2, <3>2 DEF ReadArrives
    <3> HIDE DEF ground
    <3>4. CASE u # v
      BY <1>5, <3>3, <3>4
    <3>5. CASE u = v
      <4>1. screen'[v].now = Prefilled(screen[v].now, read, name, contact, signed)
        <5>1. PICK p, s : /\ p = Prefilled(screen[v].now, read, name, contact, signed)
                          /\ s = [screen[v] EXCEPT !.now = p, !.ground = ground]
          OBVIOUS
        <5>2. Shows(v, s) /\ s.now = p
          BY <1>1, <3>3, <3>5, <5>1 DEF Desk
        <5> QED
          BY <1>7a, <5>1, <5>2
      <4>2. screen[v].now \in Payload /\ AsPrinted(screen[v].now)
        BY DEF DeskInv, Sound, Desk
      <4>3. PICK q : q = Prefilled(screen[v].now, read, name, contact, signed)
        OBVIOUS
      <4>4. /\ screen[v].now.name # "blank" => q.name = screen[v].now.name
            /\ screen[v].now.contact # "none" => q.contact = screen[v].now.contact
            /\ screen[v].now.signed \in {"past", "future"} => q.signed = screen[v].now.signed
        <5>1. PICK p : p = screen[v].now
          OBVIOUS
        <5>2. p \in Payload /\ AsPrinted(p) /\ q = Prefilled(p, read, name, contact, signed)
          BY <4>2, <4>3, <5>1
        <5>3. /\ p.name # "blank" => q.name = p.name
              /\ p.contact # "none" => q.contact = p.contact
              /\ p.signed \in {"past", "future"} => q.signed = p.signed
          BY <5>2, PrefilledIsPrinted
        <5> QED
          BY <5>1, <5>3
      <4> QED
        BY <4>1, <4>3, <4>4 DEF Stands
    <3> QED
      BY <3>4, <3>5
  <2> QED
    BY <2>1, <2>2
<1>12. ASSUME NEW u \in Reviewers, Upload(u) \/ UploadAnswered(u) \/ UploadFails(u)
       PROVE  Stands(screen[v], screen'[v])
  <2>1. PICK s : /\ Shows(u, s)
                 /\ \/ s = [screen[u] EXCEPT !.waits = "upload", !.sent = screen[u].now]
                    \/ s = [screen[u] EXCEPT !.scan = TRUE, !.waits = "none", !.sent = EmptyPayload]
                    \/ s = [screen[u] EXCEPT !.waits = "none", !.sent = EmptyPayload]
    BY <1>12 DEF Upload, UploadAnswered, UploadFails
  <2>2. s.now = screen[u].now
    <3>1. screen[u] \in Desk
      BY <1>1
    <3>2. \A w \in Desk : [w EXCEPT !.waits = "upload", !.sent = w.now].now = w.now
      BY DEF Desk
    <3>3. \A w \in Desk :
            [w EXCEPT !.scan = TRUE, !.waits = "none", !.sent = EmptyPayload].now = w.now
      BY DEF Desk
    <3>4. \A w \in Desk : [w EXCEPT !.waits = "none", !.sent = EmptyPayload].now = w.now
      BY DEF Desk
    <3> QED
      BY <2>1, <3>1, <3>2, <3>3, <3>4
  <2> QED
    BY <1>5, <1>6, <2>1, <2>2
<1>13. ASSUME NEW u \in Reviewers, Lost(u)
       PROVE  Stands(screen[v], screen'[v])
  <2>1. Shows(u, Idle(screen[u])) /\ Idle(screen[u]).now = screen[u].now
    BY <1>1, <1>13, AnswersLeaveNow DEF Lost
  <2> QED
    BY <1>5, <1>6, <2>1
<1>14. ASSUME NEW u \in Reviewers, NEW choice \in Principals \cup {None}, NEW forced \in BOOLEAN,
              Click(u, choice, forced)
       PROVE  Stands(screen[v], screen'[v])
  <2>1. PICK s : s = [screen[u] EXCEPT !.waits = "save", !.sent = screen[u].now, !.offer = {},
                                       !.choice = choice, !.forced = forced]
    OBVIOUS
  <2>2. Shows(u, s)
    BY <1>14, <2>1 DEF Click
  <2>3. s.now = screen[u].now
    BY <1>1, <2>1 DEF Desk
  <2> QED
    BY <1>5, <1>6, <2>2, <2>3
<1>15. ASSUME NEW u \in Reviewers, NEW answered \in BOOLEAN, Answer(u, answered)
       PROVE  Stands(screen[v], screen'[v])
  <2>1. PICK s : Shows(u, s) /\ (s.now = screen[u].now \/ ~ s.open)
    <3>1. CASE PatchDraft(u, answered)
      <4>1. Shows(u, Idle(screen[u])) \/ Shows(u, Onward(screen[u], screen[u].draft))
        BY <3>1 DEF PatchDraft
      <4> QED
        BY <1>1, <4>1, AnswersLeaveNow
    <3>2. ASSUME NEW d \in Drafts, CreateDraft(u, d, answered)
          PROVE  \E s : Shows(u, s) /\ (s.now = screen[u].now \/ ~ s.open)
      <4>1. \/ Shows(u, Idle(screen[u])) \/ Shows(u, Onward(screen[u], d))
            \/ Shows(u, Refused(screen[u], {}))
        BY <3>2 DEF CreateDraft
      <4> QED
        BY <1>1, <4>1, AnswersLeaveNow
    <3>3. CASE Commit(u, answered)
      <4> DEFINE d == screen[u].target
      <4>1. \/ Shows(u, Idle(screen[u])) \/ Shows(u, Refused(screen[u], Validated(d)))
            \/ Shows(u, [Idle(screen[u]) EXCEPT !.offer = Candidates(Who(draft[d].payload))])
            \/ Shows(u, Closed)
        BY <3>3 DEF Commit, File
      <4> HIDE DEF d
      <4>2. PICK issues, offer : issues = Validated(d) /\ offer = Candidates(Who(draft[d].payload))
        OBVIOUS
      <4>3. /\ Idle(screen[u]).now = screen[u].now
            /\ Refused(screen[u], issues).now = screen[u].now
            /\ [Idle(screen[u]) EXCEPT !.offer = offer].now = screen[u].now
        BY <1>1, AnswersLeaveNow
      <4> QED
        BY <1>7, <4>1, <4>2, <4>3
    <3> QED
      BY <1>15, <3>1, <3>2, <3>3 DEF Answer
  <2>2. CASE u # v
    BY <1>5, <2>1, <2>2
  <2>3. CASE u = v
    <3>1. screen'[v] = s
      BY <1>7a, <2>1, <2>3
    <3> QED
      BY <1>3, <2>1, <2>3, <3>1
  <2> QED
    BY <2>2, <2>3
<1>16. ASSUME NEW d \in Drafts, Reject(d)
       PROVE  Stands(screen[v], screen'[v])
  BY <1>4, <1>16 DEF Reject
<1>17. CASE UNCHANGED deskVars
  BY <1>4, <1>17 DEF deskVars
<1> QED
  BY <1>8, <1>9, <1>10, <1>11, <1>12, <1>13, <1>14, <1>15, <1>16, <1>17 DEF DeskNext

\* What a reviewer has typed changes by their hand only: no reading of a scan, no
\* answer and no other reviewer touches it.
THEOREM OwnWordsStand == DeskSpec => TypingStands
<1>1. DeskInv /\ [DeskNext]_deskVars =>
        [\A v \in Reviewers :
           LET s == screen[v]
               t == screen'[v]
           IN  s.open /\ t.open /\ spare'.edits = spare.edits =>
                 /\ "name" \in s.mine /\ s.now.name # "blank" => t.now.name = s.now.name
                 /\ "contact" \in s.mine /\ s.now.contact # "none" => t.now.contact = s.now.contact
                 /\ "signed" \in s.mine /\ s.now.signed \in {"past", "future"}
                      => t.now.signed = s.now.signed]_deskVars
  BY TypingStandsStep DEF Stands
<1> QED
  BY <1>1, DeskHolds, PTL DEF DeskSpec, TypingStands
================================================================================
