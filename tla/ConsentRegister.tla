--------------------------- MODULE ConsentRegister ---------------------------
(***************************************************************************)
(* The consent register: paper forms waiting for review (intake_draft),    *)
(* the append-only evidence of each committed form (consent_artifact), the *)
(* current answer per person and purpose (consent_record), identities      *)
(* folded into one another (data_principal.merged_into_id), withdrawals    *)
(* (audit_log) and the tasks that tell other systems to stop               *)
(* (cessation_task).                                                       *)
(*                                                                         *)
(* One action is one database transaction, run alone: this module says     *)
(* what the transactions do, RegisterTransactions says what happens when   *)
(* their statements interleave.                                            *)
(*                                                                         *)
(* A data_principal row is identified with the contact point and name      *)
(* printed on the form that created it: the unique indexes of migration    *)
(* 001 allow one row per (contact point, name), merged or not.  A second   *)
(* contact point learned from a later form is not modelled here.           *)
(***************************************************************************)
EXTENDS ConsentRules, MergeChains

CONSTANTS
  Systems,        \* downstream systems with is_active set
  Papers,         \* the forms that may be transcribed
  Similar,        \* pairs of identities sharing a contact point, names alike
  MaxMergeDepth   \* longest merged_into_id chain that is followed

ASSUME RegisterAssumption ==
  /\ MaxMergeDepth \in Nat
  /\ Papers \subseteq Form
  /\ \A f \in Papers : Asked(f) # {} /\ f.granted \cap f.declined = {}
  /\ Similar \subseteq Persons \X Persons

VARIABLES
  today,        \* the date in the register's own time zone
  known,        \* rows of data_principal
  mergedInto,   \* data_principal.merged_into_id
  draft,        \* intake_draft: status, payload, matched_principal_id
  artifact,     \* consent_artifact with its items, by the draft it came from
  record,       \* consent_record by person and purpose
  withdrawals,  \* audit_log rows for a consent that was withdrawn
  folded,       \* audit_log of merges: the rows whose records ended up here
  tasks         \* cessation_task

vars == <<today, known, mergedInto, draft, artifact, record,
          withdrawals, folded, tasks>>

NoDraft == [status |-> "none", form |-> None, matched |-> None]

Draft == [status : {"needs_review", "committed", "rejected"},
          form : Papers, matched : Persons \cup {None}]

NoArtifact == [person |-> None, form |-> None]

Artifact == [person : Persons, form : Papers]

Withdrawal == [person : Persons, purpose : Purposes, on : Day]

\* decidedOn is completed_at, or the day a hold was placed.
Task == [person : Persons, purpose : Purposes, system : Systems,
         raisedOn : Day, status : {"open", "on_hold", "completed"},
         decidedOn : DayOrNull]

TypeOK ==
  /\ today \in Day
  /\ known \subseteq Persons
  /\ mergedInto \in [Persons -> Persons \cup {None}]
  /\ draft \in [Drafts -> Draft \cup {NoDraft}]
  /\ artifact \in [Drafts -> Artifact \cup {NoArtifact}]
  /\ record \in [Persons -> [Purposes -> Record]]
  /\ withdrawals \subseteq Withdrawal
  /\ folded \in [Persons -> SUBSET Persons]
  /\ tasks \subseteq Task

Init ==
  /\ today = 0
  /\ known = {}
  /\ mergedInto = [p \in Persons |-> None]
  /\ draft = [d \in Drafts |-> NoDraft]
  /\ artifact = [d \in Drafts |-> NoArtifact]
  /\ record = [p \in Persons |-> [u \in Purposes |-> NoRecord]]
  /\ withdrawals = {}
  /\ folded = [p \in Persons |-> {p}]
  /\ tasks = {}

-----------------------------------------------------------------------------
(* Identity                                                                *)

Chain(p) == ChainFrom(p, mergedInto, MaxMergeDepth, None)

\* The surviving identity of p, None if there is no such person or the chain
\* does not end within the depth that is followed.
Resolve(p) ==
  LET ends == {q \in known : mergedInto[q] = None /\ p \in known /\ q \in Chain(p)}
  IN  IF ends = {} THEN None ELSE CHOOSE q \in ends : TRUE

\* Matching never considers a merged row.
Live(p) == p \in known /\ mergedInto[p] = None

ExactMatch(f) == IF Live(f.subject) THEN f.subject ELSE None

Candidates(f) == {p \in Persons : Live(p) /\ <<f.subject, p>> \in Similar}

\* Whom a form is filed under: the reviewer's choice or the match frozen on the
\* draft, followed through the chain; else the exact match; else a new row,
\* which the unique index refuses when the identity is known but merged away.
FiledUnder(chosen, f, forceNew, who) ==
  \/ /\ chosen # None
     /\ who = Resolve(chosen)
  \/ /\ chosen = None
     /\ \/ Live(f.subject)
        \/ f.subject \notin known /\ (forceNew \/ Candidates(f) = {})
     /\ who = f.subject

\* The same form, already on file for this person.
AlreadyRecorded(who, f) ==
  \E d \in Drafts : artifact[d] = [person |-> who, form |-> f]

-----------------------------------------------------------------------------
(* Cessation                                                               *)

\* Mutant of HasOpenTask: the unique index is not restricted to open tasks.
HasAnyTask(who, u, s) ==
  \E t \in tasks : t.person = who /\ t.purpose = u /\ t.system = s

HasOpenTask(who, u, s) ==
  \E t \in tasks : /\ t.person = who /\ t.purpose = u /\ t.system = s
                   /\ t.status = "open"

NewTask(who, u, s) ==
  [person |-> who, purpose |-> u, system |-> s, raisedOn |-> today,
   status |-> "open", decidedOn |-> NoDay]

\* One task per active system and purpose withdrawn, unless one is still open.
Raised(who, stopped) ==
  {NewTask(who, k[1], k[2]) :
     k \in {k \in stopped \X Systems : ~ HasOpenTask(who, k[1], k[2])}}

-----------------------------------------------------------------------------
(* The actions                                                             *)

\* Midnight in the register's time zone.
NextDay ==
  /\ today < MaxDay
  /\ today' = today + 1
  /\ UNCHANGED <<known, mergedInto, draft, artifact, record,
                 withdrawals, folded, tasks>>

\* A form is transcribed, scanned or taken at the kiosk: the exact match found
\* now is frozen on the draft.
CreateDraft(d, f) ==
  /\ draft[d].status = "none"
  /\ draft' = [draft EXCEPT ![d] =
                 [status |-> "needs_review", form |-> f, matched |-> ExactMatch(f)]]
  /\ UNCHANGED <<today, known, mergedInto, artifact, record,
                 withdrawals, folded, tasks>>

\* A row of a CSV becomes a draft nobody has been matched to.
ImportDraft(d, f) ==
  /\ draft[d].status = "none"
  /\ draft' = [draft EXCEPT ![d] =
                 [status |-> "needs_review", form |-> f, matched |-> None]]
  /\ UNCHANGED <<today, known, mergedInto, artifact, record,
                 withdrawals, folded, tasks>>

\* A reviewer's corrections, which look for the exact match again.
EditDraft(d, f) ==
  /\ draft[d].status = "needs_review"
  /\ draft' = [draft EXCEPT ![d].form = f, ![d].matched = ExactMatch(f)]
  /\ UNCHANGED <<today, known, mergedInto, artifact, record,
                 withdrawals, folded, tasks>>

RejectDraft(d) ==
  /\ draft[d].status = "needs_review"
  /\ draft' = [draft EXCEPT ![d].status = "rejected"]
  /\ UNCHANGED <<today, known, mergedInto, artifact, record,
                 withdrawals, folded, tasks>>

\* commitDraft: the only writer of artifacts.
Commit(d, confirm, forceNew) ==
  LET f      == draft[d].form
      chosen == IF confirm # None THEN confirm ELSE draft[d].matched
  IN  /\ draft[d].status = "needs_review"
      /\ f.collectedOn <= today
      /\ \E who \in Persons :
           /\ FiledUnder(chosen, f, forceNew, who)
           /\ ~ AlreadyRecorded(who, f)
           /\ known' = known \cup {who}
           /\ artifact' = [artifact EXCEPT ![d] = [person |-> who, form |-> f]]
           /\ record' = [record EXCEPT ![who] =
                           [u \in Purposes |-> Projected(d, f, record[who][u], u)]]
           /\ draft' = [draft EXCEPT ![d].status = "committed", ![d].matched = who]
      /\ UNCHANGED <<today, mergedInto, withdrawals, folded, tasks>>

\* A person signed in as p withdraws the purposes in asked.  Only an active
\* consent changes; the others are answered and left alone.
Withdraw(p, asked) ==
  LET who     == Resolve(p)
      stopped == {u \in asked : record[who][u].status = "active"}
  IN  /\ who # None
      /\ record' = [record EXCEPT ![who] =
                      [u \in Purposes |->
                         IF u \in stopped
                         THEN [record[who][u] EXCEPT !.status = "withdrawn",
                                                     !.withdrawnOn = today]
                         ELSE record[who][u]]]
      /\ withdrawals' = withdrawals \cup
           {[person |-> who, purpose |-> u, on |-> today] : u \in stopped}
      /\ tasks' = tasks \cup Raised(who, stopped)
      /\ UNCHANGED <<today, known, mergedInto, draft, artifact, folded>>

\* Mutant of Merge: no check that the survivor does not resolve to the absorbed.
MergeUnchecked(a, s, early) ==
  /\ a # s /\ {a, s} \subseteq known
  /\ mergedInto[a] = None
  /\ mergedInto' = [mergedInto EXCEPT ![a] = s]
  /\ record' = [record EXCEPT
       ![a] = [u \in Purposes |-> NoRecord],
       ![s] = [u \in Purposes |->
                 Reconciled(record[s][u], record[a][u], u \in early)]]
  /\ folded' = [folded EXCEPT ![a] = {}, ![s] = folded[s] \cup folded[a]]
  /\ UNCHANGED <<today, known, draft, artifact, withdrawals, tasks>>

\* A DPO folds row a into row s.  Every record of a ends up under s, the one
\* that loses is deleted; artifacts and tasks stay where they were.  Only the
\* absorbed row must be unmerged; early holds the purposes whose withdrawal
\* under a came first on a day both sides withdrew.
Merge(a, s, early) ==
  /\ a # s /\ {a, s} \subseteq known
  /\ mergedInto[a] = None
  /\ Resolve(s) \notin {None, a}
  /\ mergedInto' = [mergedInto EXCEPT ![a] = s]
  /\ record' = [record EXCEPT
       ![a] = [u \in Purposes |-> NoRecord],
       ![s] = [u \in Purposes |->
                 Reconciled(record[s][u], record[a][u], u \in early)]]
  /\ folded' = [folded EXCEPT ![a] = {}, ![s] = folded[s] \cup folded[a]]
  /\ UNCHANGED <<today, known, draft, artifact, withdrawals, tasks>>

\* The DPO records that a system has stopped.
CompleteTask(t) ==
  /\ t.status # "completed"
  /\ tasks' = (tasks \ {t}) \cup
                {[t EXCEPT !.status = "completed", !.decidedOn = today]}
  /\ UNCHANGED <<today, known, mergedInto, draft, artifact, record,
                 withdrawals, folded>>

\* Mutant of HoldTask: a status the table's CHECK does not know.
HoldTaskAs(t) ==
  /\ t.status = "open"
  /\ tasks' = (tasks \ {t}) \cup
                {[t EXCEPT !.status = "held", !.decidedOn = today]}
  /\ UNCHANGED <<today, known, mergedInto, draft, artifact, record,
                 withdrawals, folded>>

\* The DPO claims the statutory carve-out for one system.
HoldTask(t) ==
  /\ t.status = "open"
  /\ tasks' = (tasks \ {t}) \cup
                {[t EXCEPT !.status = "on_hold", !.decidedOn = today]}
  /\ UNCHANGED <<today, known, mergedInto, draft, artifact, record,
                 withdrawals, folded>>

Next ==
  \/ NextDay
  \/ \E d \in Drafts, f \in Papers :
       CreateDraft(d, f) \/ ImportDraft(d, f) \/ EditDraft(d, f)
  \/ \E d \in Drafts : RejectDraft(d)
  \/ \E d \in Drafts, confirm \in known \cup {None}, forceNew \in BOOLEAN :
       Commit(d, confirm, forceNew)
  \/ \E p \in known, asked \in (SUBSET Purposes) \ {{}} : Withdraw(p, asked)
  \/ \E a, s \in known, early \in SUBSET Purposes : Merge(a, s, early)
  \/ \E t \in tasks : CompleteTask(t) \/ HoldTask(t)

Spec == Init /\ [][Next]_vars

-----------------------------------------------------------------------------
(* Safety                                                                  *)

\* The withdrawals on file, for purpose u, of anybody folded into row p.
StopsOf(p, u) == {w \in withdrawals : w.person \in folded[p] /\ w.purpose = u}

\* Every consent record can be produced on paper: its source artifact is of a
\* person folded into this row, answers this purpose, gave the answer the
\* record stands for, and carries the date the record shows (source_artifact_id
\* and consent_given_on through commitDraft's update and merge's copy).
RecordsExplained ==
  \A p \in Persons, u \in Purposes :
    LET r == record[p][u]
        e == artifact[r.source]
    IN  r.status # "none" =>
          /\ r.source \in Drafts
          /\ e.person \in folded[p]
          /\ u \in (IF r.status = "declined" THEN e.form.declined ELSE e.form.granted)
          /\ r.givenOn = e.form.collectedOn

\* A withdrawn record, and no other, carries a withdrawal date, and nobody
\* withdrew a consent before signing it: no merge pairs one side's withdrawal
\* with the other side's later signature.
StoppedAfterSigned ==
  \A p \in Persons, u \in Purposes :
    LET r == record[p][u]
    IN  /\ r.givenOn <= today /\ r.withdrawnOn <= today
        /\ (r.status = "withdrawn") <=> (r.withdrawnOn # NoDay)
        /\ r.status = "withdrawn" => r.givenOn <= r.withdrawnOn

\* For a row nobody was folded into, consent is active only on paper signed
\* after every withdrawal the person ever made for the purpose, whatever order
\* the forms were committed in.
UnmergedNeverRevived ==
  \A p \in Persons, u \in Purposes :
    folded[p] = {p} /\ record[p][u].status = "active" =>
      \A w \in StopsOf(p, u) : w.on < record[p][u].givenOn

\* For any row, merged or not: once somebody folded into it withdrew, consent
\* is active only on paper signed after one of those withdrawals, and no merge
\* brings back a consent that is older than all of them.
FirstStopHolds ==
  \A p \in Persons, u \in Purposes :
    record[p][u].status = "active" /\ StopsOf(p, u) # {} =>
      \E w \in StopsOf(p, u) : w.on < record[p][u].givenOn

\* No later signature is lost: a dated form filed under an unmerged row is
\* either no later than the record it was projected on, or withheld by a
\* withdrawal on or after its date.
LatestSignatureStands ==
  \A p \in Persons, u \in Purposes, d \in Drafts :
    LET f == artifact[d].form
        r == record[p][u]
    IN  folded[p] = {p} /\ artifact[d].person = p /\ u \in Asked(f) =>
          \/ f.collectedOn <= r.givenOn
          \/ r.status = "withdrawn" /\ f.collectedOn <= r.withdrawnOn

\* A withdrawal that stands has reached the queue of every active system: a
\* task for the person, or for an identity folded into them, is open or was
\* decided on no earlier than the withdrawal.
StoppingIsOwed ==
  \A p \in Persons, u \in Purposes, s \in Systems :
    record[p][u].status = "withdrawn" =>
      \E t \in tasks :
        /\ t.person \in folded[p] /\ t.purpose = u /\ t.system = s
        /\ t.status = "open" \/ t.decidedOn >= record[p][u].withdrawnOn

\* The same form is not on file twice under one row.
OneArtifactPerForm ==
  \A d, e \in Drafts :
    artifact[d] # NoArtifact /\ artifact[d] = artifact[e] => d = e

\* A draft is committed once, and what was committed is what it still says:
\* no edit, rejection or second commit comes after.
DraftIsItsArtifact ==
  \A d \in Drafts :
    IF draft[d].status = "committed"
    THEN artifact[d] = [person |-> draft[d].matched, form |-> draft[d].form]
    ELSE artifact[d] = NoArtifact

\* Nobody signs in to nothing: whatever was merged into what, the chain of every
\* identity ends in one that is not merged (the cycle check of a merge).
EveryoneResolves == \A p \in known : Resolve(p) # None

\* A standing withdrawal ends only in a form signed on a later day; a merge
\* carries it to the survivor and may only date it earlier.
WithdrawalStands ==
  [][\A p \in Persons, u \in Purposes :
       LET was == record[p][u]
           now == record'[p][u]
           Stands(r) == r.status = "withdrawn" /\ r.withdrawnOn <= was.withdrawnOn
       IN  was.status = "withdrawn" =>
             \/ Stands(now)
             \/ now.givenOn > was.withdrawnOn
             \/ /\ now = NoRecord /\ mergedInto[p] # mergedInto'[p]
                /\ Stands(record'[mergedInto'[p]][u])
    ]_vars

\* The register implements the promise made to the systems that consult it.
Promise == INSTANCE ConsentPromise WITH
  filed     <- {artifact[d] : d \in Drafts} \ {NoArtifact},
  allowed   <- [p \in Persons |-> [u \in Purposes |-> record[p][u].status = "active"]],
  stoppedOn <- [p \in Persons |-> [u \in Purposes |-> record[p][u].withdrawnOn]]

\* README invariants 5 and 6: deny by default, and a withdrawal that stands on a
\* record ends only in a form that is put on file and signed on a later day.
KeepsPromise == Promise!Spec
=============================================================================
