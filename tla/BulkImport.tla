------------------------------ MODULE BulkImport ------------------------------
(***************************************************************************)
(* A spreadsheet of forms: upload, mapping of its columns, the report, and *)
(* the commit of its clean rows, beside a reviewer who works the same rows *)
(* from the queue.  Answers to the import screen may be lost and the       *)
(* server may stop.  commitDraft is one transaction here, and matches      *)
(* people who were never merged; what a form adds to the contact points of *)
(* the person it is filed under makes no other identity of theirs.         *)
(***************************************************************************)
EXTENDS Integers, FiniteSets, Sequences, SequencesExt

CONSTANTS
  Purposes,   \* the active catalogue
  Persons,    \* identities: a contact point and a normalised name
  Similar,    \* pairs of identities close enough to be one person
  Known,      \* identities on the register before the import
  Rows,       \* row numbers of the spreadsheet
  Sheets,     \* spreadsheets that may be uploaded
  Mappings,   \* what the operator may say the columns hold
  Readings,   \* what a reviewer may make of a row
  MaxEdits,   \* bound on the rows a reviewer edits
  MapCalls, CommitCalls,  \* requests the screen may send
  MaxCalls,   \* bound on how many of them it sends
  None

VARIABLES
  sheet,   \* the uploaded file, an intake_batch row with it
  status,  \* intake_batch.status
  draft,   \* intake_draft rows of the batch: one per row and mapping
  filed,   \* consent_artifact: [draft, form, by, under]
  people,  \* how each identity came onto the register
  screen,  \* the stage the screen shows, the request it awaits, rows ready
  call     \* progress of each request

vars == <<sheet, status, draft, filed, people, screen, call>>

\* A row says who signed (None when no contact point can be dialled), a date
\* and, per tick-box column, an answer.
Row == [who : Persons \cup {None}, date : {"blank", "past", "future", "ambiguous"},
        ticks : [Purposes -> {"yes", "no", "unclear"}]]

Mapping == [dated : BOOLEAN, columns : SUBSET Purposes]

Form == [who : Persons \cup {None}, date : {"none", "past", "future"},
         granted : SUBSET Purposes, declined : SUBSET Purposes]

ASSUME BulkAssumption ==
  /\ {MaxEdits, MaxCalls} \subseteq Nat
  /\ Rows \subseteq Nat /\ IsFiniteSet(Rows) /\ IsFiniteSet(MapCalls)
  /\ Known \subseteq Persons /\ None \notin Persons \cup MapCalls \cup CommitCalls
  /\ \A p \in Persons : <<p, p>> \notin Similar
  /\ \A s \in Sheets : DOMAIN s \subseteq Rows /\ \A r \in DOMAIN s : s[r] \in Row
  /\ Mappings \subseteq Mapping /\ Readings \subseteq Form

NoForm  == [who |-> None, date |-> "none", granted |-> {}, declined |-> {}]
NoDraft == [status |-> "none", form |-> NoForm, blocked |-> FALSE, saved |-> FALSE]

Ids   == MapCalls \X Rows
Calls == MapCalls \cup CommitCalls

Quiet == [stage |-> "idle", mapping |-> [dated |-> FALSE, columns |-> {}],
          ready |-> {}, todo |-> {}, skipped |-> {}, open |-> 0]

Draft    == [status : {"none", "needs_review", "committed", "rejected"},
             form : Form, blocked : BOOLEAN, saved : BOOLEAN]
Artifact == [draft : Ids, form : Form, by : {"batch", "hand"}, under : Persons]
Screen   == [stage : {"upload", "map", "report", "finished"},
             awaits : Calls \cup {None}, clean : Nat]
Progress == [stage : {"idle", "insert", "loop", "settle", "answer", "ended", "lost"},
             mapping : Mapping, ready : SUBSET Ids, todo : SUBSET Ids,
             skipped : SUBSET Ids, open : Nat]

TypeOK ==
  /\ status \in {"none", "mapping", "validated", "partially_committed", "committed"}
  /\ DOMAIN sheet \subseteq Rows /\ \A r \in DOMAIN sheet : sheet[r] \in Row
  /\ draft \in [Ids -> Draft]
  /\ filed \subseteq Artifact
  /\ people \in [Persons -> {"unknown", "before", "batch", "hand"}]
  /\ screen \in Screen
  /\ call \in [Calls -> Progress]

Init ==
  /\ sheet = <<>> /\ status = "none"
  /\ draft = [i \in Ids |-> NoDraft]
  /\ filed = {}
  /\ people = [p \in Persons |-> IF p \in Known THEN "before" ELSE "unknown"]
  /\ screen = [stage |-> "upload", awaits |-> None, clean |-> 0]
  /\ call = [c \in Calls |-> Quiet]

-----------------------------------------------------------------------------
(* From a row to a draft                                                   *)

DateRead(row, m) ==
  IF m.dated /\ row.date \in {"past", "future"} THEN row.date ELSE "none"

Ticked(row, m, answer) == {u \in m.columns : row.ticks[u] = answer}

\* What is made of a row: a cell that says neither yes nor no answers nothing.
FormOfRow(row, m) ==
  [who |-> row.who, date |-> DateRead(row, m),
   granted |-> Ticked(row, m, "yes"), declined |-> Ticked(row, m, "no")]

\* What only the spreadsheet can show: a date of no known order, a tick-box of
\* no known meaning.
Unreadable(row, m) ==
  (m.dated /\ row.date = "ambiguous") \/ Ticked(row, m, "unclear") # {}

\* An error of the schema or of validateDraft.
Invalid(f) == f.who = None \/ f.date = "future" \/ f.granted \cup f.declined = {}

\* Mutant of NewRow: the errors found in the cells are not kept.
NewRowAsParsed(row, m) ==
  [status |-> "needs_review", form |-> FormOfRow(row, m),
   blocked |-> Invalid(FormOfRow(row, m)), saved |-> FALSE]

NewRow(row, m) ==
  [status |-> "needs_review", form |-> FormOfRow(row, m),
   blocked |-> Invalid(FormOfRow(row, m)) \/ Unreadable(row, m), saved |-> FALSE]

\* Every row that is not blank becomes a draft, broken or not.
DraftsOf(c, m) ==
  [i \in Ids |-> IF i[1] = c /\ i[2] \in DOMAIN sheet
                 THEN NewRow(sheet[i[2]], m) ELSE draft[i]]

Open == {i \in Ids : draft[i].status = "needs_review"}

-----------------------------------------------------------------------------
(* commitDraft                                                             *)

Twins(p) == {q \in Persons : people[q] # "unknown" /\ {<<p, q>>, <<q, p>>} \cap Similar # {}}

\* Whether this form is on file for p.
OnFile(f, p) == \E a \in filed : a.form = f /\ a.under = p

\* Whom draft i is filed under: a person the reviewer names, or the one it matches.
Owner(i, named) == IF named # None THEN named ELSE draft[i].form.who

\* Mutant of Committable: newcomers pass the duplicate guard.
CommittableAnyway(i, named, forceNew) ==
  LET f == draft[i].form
  IN  i \in Open /\ ~ Invalid(f) /\ ~ OnFile(f, Owner(i, named))

\* Whether commitDraft files draft i, or refuses: no longer open, not valid, no such
\* person, a possible duplicate, already recorded for this person.
Committable(i, named, forceNew) ==
  LET f == draft[i].form
  IN  /\ i \in Open /\ ~ Invalid(f)
      /\ people[Owner(i, named)] # "unknown" \/ (named = None /\ (forceNew \/ Twins(f.who) = {}))
      /\ ~ OnFile(f, Owner(i, named))

File(i, named, by) ==
  LET f == draft[i].form
      owner == Owner(i, named)
  IN  /\ draft' = [draft EXCEPT ![i].status = "committed"]
      /\ filed' = filed \cup {[draft |-> i, form |-> f, by |-> by, under |-> owner]}
      /\ people' = [people EXCEPT ![owner] = IF @ = "unknown" THEN by ELSE @]

-----------------------------------------------------------------------------
(* The screen and the requests it sends                                    *)

At(c, s) == call' = [call EXCEPT ![c].stage = s]

MoreCalls == Cardinality({c \in Calls : call[c] # Quiet}) < MaxCalls

\* POST /batches keeps the file as evidence and starts the batch; a file with
\* no row is refused.
Upload(s) ==
  /\ screen.stage = "upload"
  /\ IF DOMAIN s = {} THEN UNCHANGED <<sheet, status, screen>>
     ELSE /\ sheet' = s /\ status' = "mapping"
          /\ screen' = [screen EXCEPT !.stage = "map"]
  /\ UNCHANGED <<draft, filed, people, call>>

\* The route reads the status of the batch, outside the transaction to come.
SendMapping(c, m) ==
  /\ screen.stage = "map" /\ screen.awaits = None /\ call[c] = Quiet /\ MoreCalls
  /\ screen' = [screen EXCEPT !.awaits = c]
  /\ call' = [call EXCEPT ![c].stage = IF status = "mapping" THEN "insert" ELSE "answer",
                          ![c].mapping = m]
  /\ UNCHANGED <<sheet, status, draft, filed, people>>

\* buildDrafts, one transaction.
BuildDrafts(c) ==
  /\ call[c].stage = "insert"
  /\ draft' = DraftsOf(c, call[c].mapping)
  /\ status' = "validated"
  /\ At(c, "answer")
  /\ UNCHANGED <<sheet, filed, people, screen>>

Made(c) == {i \in Ids : i[1] = c /\ draft[i].status # "none"}

Clean(c) == {i \in Made(c) : ~ NewRow(sheet[i[2]], call[c].mapping).blocked}

\* The report; a refusal leaves the screen at the mapping.
AnswerMapping(c) ==
  /\ c \in MapCalls /\ call[c].stage = "answer"
  /\ At(c, "ended")
  /\ screen' = IF screen.awaits # c THEN screen
               ELSE IF Made(c) = {} THEN [screen EXCEPT !.awaits = None]
               ELSE [stage |-> "report", awaits |-> None, clean |-> Cardinality(Clean(c))]
  /\ UNCHANGED <<sheet, status, draft, filed, people>>

\* The open rows on which the report found no error.
Ready == {i \in Open : ~ draft[i].blocked}

SendCommit(c) ==
  /\ screen.stage = "report" /\ screen.awaits = None /\ screen.clean > 0
  /\ call[c] = Quiet /\ MoreCalls
  /\ screen' = [screen EXCEPT !.awaits = c]
  /\ call' = [call EXCEPT ![c].stage = "loop", ![c].ready = Ready, ![c].todo = Ready]
  /\ UNCHANGED <<sheet, status, draft, filed, people>>

\* Rows go in the order of the spreadsheet.
First(ids) == {i \in ids : \A j \in ids : i[2] <= j[2]}

\* Mutant of CommitRow: a row that is refused is passed over in silence.
CommitRowQuietly(c, i) ==
  /\ call[c].stage = "loop" /\ i \in First(call[c].todo)
  /\ IF Committable(i, None, FALSE) THEN File(i, None, "batch") ELSE UNCHANGED <<draft, filed, people>>
  /\ call' = [call EXCEPT ![c].todo = @ \ {i}]
  /\ UNCHANGED <<sheet, status, screen>>

\* A transaction of its own for each row; a refusal is noted and the loop goes on.
CommitRow(c, i) ==
  /\ call[c].stage = "loop" /\ i \in First(call[c].todo)
  /\ IF Committable(i, None, FALSE) THEN File(i, None, "batch") ELSE UNCHANGED <<draft, filed, people>>
  /\ call' = [call EXCEPT ![c].todo = @ \ {i},
                          ![c].skipped = IF Committable(i, None, FALSE) THEN @ ELSE @ \cup {i}]
  /\ UNCHANGED <<sheet, status, screen>>

CountOpen(c) ==
  /\ call[c].stage = "loop" /\ call[c].todo = {}
  /\ call' = [call EXCEPT ![c].stage = "settle", ![c].open = Cardinality(Open)]
  /\ UNCHANGED <<sheet, status, draft, filed, people, screen>>

SettleStatus(c) ==
  /\ call[c].stage = "settle"
  /\ status' = IF call[c].open = 0 THEN "committed" ELSE "partially_committed"
  /\ At(c, "answer")
  /\ UNCHANGED <<sheet, draft, filed, people, screen>>

AnswerCommit(c) ==
  /\ c \in CommitCalls /\ call[c].stage = "answer"
  /\ At(c, "ended")
  /\ screen' = IF screen.awaits # c THEN screen
               ELSE [screen EXCEPT !.stage = "finished", !.awaits = None]
  /\ UNCHANGED <<sheet, status, draft, filed, people>>

\* The connection fails before the answer: the buttons work again, and the
\* request goes on.
LoseAnswer ==
  /\ screen.awaits # None
  /\ screen' = [screen EXCEPT !.awaits = None]
  /\ UNCHANGED <<sheet, status, draft, filed, people, call>>

\* The server stops in the middle of a request; what has committed stays.
Stop(c) ==
  /\ call[c].stage \in {"insert", "loop", "settle", "answer"}
  /\ At(c, "lost")
  /\ screen' = IF screen.awaits = c THEN [screen EXCEPT !.awaits = None] ELSE screen
  /\ UNCHANGED <<sheet, status, draft, filed, people>>

-----------------------------------------------------------------------------
(* The reviewer                                                            *)

\* PATCH: the payload and its validation are replaced; what the import had
\* found is not looked for again.
Save(i, f) ==
  /\ i \in Open /\ f.granted \cup f.declined # {}
  /\ Cardinality({j \in Ids : draft[j].saved} \cup {i}) <= MaxEdits
  /\ draft' = [draft EXCEPT ![i].form = f, ![i].blocked = Invalid(f), ![i].saved = TRUE]
  /\ UNCHANGED <<sheet, status, filed, people, screen, call>>

\* named: confirmPrincipalId.
CommitByHand(i, named, forceNew) ==
  /\ Committable(i, named, forceNew)
  /\ File(i, named, "hand")
  /\ UNCHANGED <<sheet, status, screen, call>>

Reject(i) ==
  /\ i \in Open
  /\ draft' = [draft EXCEPT ![i].status = "rejected"]
  /\ UNCHANGED <<sheet, status, filed, people, screen, call>>

-----------------------------------------------------------------------------
Serve(c) ==
  \/ BuildDrafts(c) \/ AnswerMapping(c)
  \/ CountOpen(c) \/ SettleStatus(c) \/ AnswerCommit(c)
  \/ \E i \in Ids : CommitRow(c, i)

Operate ==
  \/ \E s \in Sheets : Upload(s)
  \/ \E c \in MapCalls, m \in Mappings : SendMapping(c, m)
  \/ \E c \in CommitCalls : SendCommit(c)

Review == \E i \in Open :
  \/ \E f \in Readings \cup {draft[i].form} : Save(i, f)
  \/ \E named \in Persons \cup {None}, forceNew \in BOOLEAN : CommitByHand(i, named, forceNew)
  \/ Reject(i)

Next ==
  \/ Operate \/ Review \/ LoseAnswer
  \/ \E c \in Calls : Serve(c) \/ Stop(c)

Spec == Init /\ [][Next]_vars

-----------------------------------------------------------------------------
(* Properties                                                              *)

\* Of a row nobody edited, the batch files what the spreadsheet says and files
\* it only if every mapped cell could be read: no ambiguous date goes in as no
\* date, no unclear tick-box as no answer (commitBatch's filter).
BatchNeverGuesses ==
  \A a \in filed :
    a.by = "batch" /\ ~ draft[a.draft].saved =>
      LET row == sheet[a.draft[2]]
          m   == call[a.draft[1]].mapping
      IN  /\ m.dated => a.form.date = (IF row.date = "blank" THEN "none" ELSE row.date)
          /\ \A u \in m.columns : row.ticks[u] = (IF u \in a.form.granted THEN "yes" ELSE "no")
          /\ a.form.granted \cup a.form.declined = m.columns

\* An import never makes two people of one: of two similar identities that came
\* onto the register, one was there before or was put there by hand.
TwinsNeedAPerson ==
  \A p, q \in Persons :
    {<<p, q>>, <<q, p>>} \cap Similar # {} /\ people[p] = "batch" =>
      people[q] \in {"unknown", "hand"}

\* When a commit has answered, every row that was ready when it began has been filed,
\* was taken by a reviewer or by another commit, or is named among the skipped.
ReadyRowsSettle ==
  \A c \in CommitCalls :
    call[c].stage \in {"settle", "answer", "ended"} =>
      call[c].ready \cap Open \subseteq call[c].skipped
===============================================================================
