--------------------------- MODULE BulkImportProofs ---------------------------
(***************************************************************************)
(* What an import files, for any spreadsheets, mappings and reviewers:     *)
(* theorems about BulkImport.                                              *)
(***************************************************************************)
EXTENDS BulkImport, FiniteSetTheorems, TLAPS

-----------------------------------------------------------------------------
(* The invariant                                                           *)

\* A draft is what its row says under the mapping of the call that made it,
\* until somebody saves it.
DraftsFollowSheet ==
  \A i \in Ids :
    draft[i].status # "none" =>
      /\ call[i[1]].stage \notin {"idle", "insert"}
      /\ i[2] \in DOMAIN sheet
      /\ \/ draft[i].saved
         \/ /\ draft[i].form = FormOfRow(sheet[i[2]], call[i[1]].mapping)
            /\ draft[i].blocked = NewRow(sheet[i[2]], call[i[1]].mapping).blocked

\* Nothing is asked of the server before there is a sheet.
NothingBeforeUpload ==
  screen.stage = "upload" => \A c \in Calls : call[c].stage = "idle"

\* What a commit takes up was clean when it began, and is dirty again only by a
\* reviewer's hand.
ReadyWereClean ==
  \A c \in Calls, i \in Ids :
    i \in call[c].ready \cup call[c].todo =>
      draft[i].status # "none" /\ (draft[i].saved \/ ~ draft[i].blocked)

\* What is on file is what the draft says, for good.
FiledAsDrafted ==
  \A a \in filed :
    /\ draft[a.draft].status = "committed" /\ a.form = draft[a.draft].form
    /\ a.by = "batch" => draft[a.draft].saved \/ ~ draft[a.draft].blocked

\* Whatever of its rows is open a commit has yet to reach or has skipped.
Settling ==
  \A c \in Calls :
    /\ call[c].stage = "insert" => call[c].ready = {}
    /\ call[c].stage = "loop" => call[c].ready \cap Open \subseteq call[c].todo \cup call[c].skipped
    /\ call[c].stage \in {"settle", "answer", "ended"} => call[c].ready \cap Open \subseteq call[c].skipped

BulkInv ==
  /\ TypeOK /\ DraftsFollowSheet /\ NothingBeforeUpload /\ ReadyWereClean
  /\ FiledAsDrafted /\ Settling /\ TwinsNeedAPerson

-----------------------------------------------------------------------------
(* Types                                                                   *)

\* What a row makes is a form.
LEMMA RowsMakeForms ==
  ASSUME NEW row \in Row, NEW m \in Mapping
  PROVE  FormOfRow(row, m) \in Form /\ NewRow(row, m) \in Draft
<1>1. FormOfRow(row, m) \in Form
  BY DEF Row, Mapping, Form, FormOfRow, DateRead, Ticked
<1>2. (Invalid(FormOfRow(row, m)) \/ Unreadable(row, m)) \in BOOLEAN
  OBVIOUS
<1> QED
  BY <1>1, <1>2 DEF NewRow, Draft

\* There are finitely many drafts.
LEMMA DraftsAreFinite ==
  \A S \in SUBSET Ids : IsFiniteSet(S) /\ Cardinality(S) \in Nat
<1>1. IsFiniteSet(Ids)
  BY BulkAssumption, FS_Product DEF Ids
<1> QED
  BY <1>1, FS_Subset, FS_CardinalityType

\* The progress of a call, one field at a time.
LEMMA ProgressFields ==
  ASSUME NEW r \in Progress
  PROVE  /\ \A s \in {"insert", "loop", "settle", "answer", "ended", "lost"} :
              [r EXCEPT !.stage = s] \in Progress
         /\ \A m \in Mapping : [r EXCEPT !.mapping = m] \in Progress
         /\ \A S \in SUBSET Ids : /\ [r EXCEPT !.ready = S] \in Progress
                                  /\ [r EXCEPT !.todo = S] \in Progress
                                  /\ [r EXCEPT !.skipped = S] \in Progress
         /\ \A n \in Nat : [r EXCEPT !.open = n] \in Progress
         /\ r.ready \in SUBSET Ids /\ r.todo \in SUBSET Ids /\ r.skipped \in SUBSET Ids
         /\ r.mapping \in Mapping
BY DEF Progress

\* What the screen shows, one field at a time.
LEMMA ScreenFields ==
  ASSUME NEW r \in Screen
  PROVE  /\ \A s \in {"map", "finished"} : [r EXCEPT !.stage = s] \in Screen
         /\ \A c \in Calls \cup {None} : [r EXCEPT !.awaits = c] \in Screen
         /\ \A n \in Nat : [stage |-> "report", awaits |-> None, clean |-> n] \in Screen
BY DEF Screen

\* A draft, one field at a time.
LEMMA DraftFields ==
  ASSUME NEW r \in Draft
  PROVE  /\ \A s \in {"committed", "rejected"} : [r EXCEPT !.status = s] \in Draft
         /\ \A f \in Form, b \in BOOLEAN :
              [r EXCEPT !.form = f, !.blocked = b, !.saved = TRUE] \in Draft
         /\ r.form \in Form
BY DEF Draft

\* Only somebody with a name is filed, under somebody.
LEMMA FiledHaveNames ==
  ASSUME TypeOK, NEW i, NEW named \in Persons \cup {None}, NEW forceNew,
         Committable(i, named, forceNew)
  PROVE  /\ i \in Ids /\ draft[i].status = "needs_review"
         /\ draft[i].form \in Form /\ draft[i].form.who \in Persons
         /\ Owner(i, named) \in Persons
BY DEF Committable, Open, TypeOK, Draft, Form, Invalid, Owner

\* Filing a draft leaves drafts, artifacts and people of their types.
LEMMA FilingKeepsTypes ==
  ASSUME TypeOK, NEW i, NEW named \in Persons \cup {None}, NEW forceNew,
         Committable(i, named, forceNew), NEW by \in {"batch", "hand"}, File(i, named, by)
  PROVE  /\ draft' \in [Ids -> Draft]
         /\ filed' \subseteq Artifact
         /\ people' \in [Persons -> {"unknown", "before", "batch", "hand"}]
<1>1. /\ i \in Ids /\ draft[i] \in Draft /\ draft \in [Ids -> Draft]
      /\ draft[i].form \in Form /\ Owner(i, named) \in Persons
  BY FiledHaveNames DEF TypeOK
<1>2. draft' \in [Ids -> Draft]
  <2>1. draft' = [draft EXCEPT ![i] = [draft[i] EXCEPT !.status = "committed"]]
    BY DEF File
  <2> QED
    BY <1>1, <2>1, DraftFields
<1>3. filed' = filed \cup {[draft |-> i, form |-> draft[i].form, by |-> by,
                            under |-> Owner(i, named)]}
  BY DEF File
<1>4. people' \in [Persons -> {"unknown", "before", "batch", "hand"}]
  BY <1>1 DEF File, TypeOK
<1> QED
  BY <1>1, <1>2, <1>3, <1>4 DEF TypeOK, Artifact

\* Before the upload nothing has been made, so the invariant holds.
LEMMA BulkStarts == Init => BulkInv
<1> SUFFICES ASSUME Init
             PROVE  BulkInv
  OBVIOUS
<1>1. NoDraft \in Draft /\ NoDraft.status = "none"
  BY DEF NoDraft, NoForm, Form, Draft
<1>2. Quiet \in Progress /\ Quiet.stage = "idle" /\ Quiet.ready = {} /\ Quiet.todo = {}
  BY DEF Quiet, Mapping, Progress
<1>3. /\ \A i \in Ids : draft[i] = NoDraft
      /\ \A c \in Calls : call[c] = Quiet
      /\ filed = {}
  BY DEF Init
<1>4. TypeOK
  <2>1. draft \in [Ids -> Draft] /\ call \in [Calls -> Progress]
    BY <1>1, <1>2 DEF Init
  <2>2. screen \in Screen
    BY DEF Init, Screen
  <2> QED
    BY <2>1, <2>2 DEF Init, TypeOK
<1>5. TwinsNeedAPerson
  BY DEF Init, TwinsNeedAPerson
<1>6. DraftsFollowSheet /\ NothingBeforeUpload /\ ReadyWereClean
  BY <1>1, <1>2, <1>3 DEF DraftsFollowSheet, NothingBeforeUpload, ReadyWereClean
<1>7. FiledAsDrafted /\ Settling
  BY <1>1, <1>2, <1>3 DEF FiledAsDrafted, Settling
<1> QED
  BY <1>4, <1>5, <1>6, <1>7 DEF BulkInv

\* Every request, and every hand of the reviewer, keeps the types.
LEMMA TypesStand == TypeOK /\ [Next]_vars => TypeOK'
<1> USE DEF TypeOK
<1> SUFFICES ASSUME TypeOK, [Next]_vars
             PROVE  TypeOK'
  OBVIOUS
<1>a. ASSUME NEW c \in Calls, NEW r \in Progress, call' = [call EXCEPT ![c] = r]
      PROVE  call' \in [Calls -> Progress]
  BY <1>a
<1>b. ASSUME NEW c \in Calls, NEW s \in {"insert", "loop", "settle", "answer", "ended", "lost"}, At(c, s)
      PROVE  call' \in [Calls -> Progress]
  <2>1. call' = [call EXCEPT ![c] = [call[c] EXCEPT !.stage = s]] /\ call[c] \in Progress
    BY <1>b DEF At
  <2> QED
    BY <1>a, <2>1, ProgressFields
<1>1. ASSUME NEW s \in Sheets, Upload(s)
      PROVE  TypeOK'
  <2>1. screen' \in Screen
    BY <1>1, ScreenFields DEF Upload
  <2> QED
    BY <1>1, <2>1, BulkAssumption DEF Upload
<1>2. ASSUME NEW c \in MapCalls, NEW m \in Mappings, SendMapping(c, m)
      PROVE  TypeOK'
  <2> DEFINE s == IF status = "mapping" THEN "insert" ELSE "answer"
             r == [call[c] EXCEPT !.stage = s]
  <2>1. m \in Mapping /\ c \in Calls /\ s \in {"insert", "answer"}
    BY BulkAssumption DEF Calls
  <2>2. call' = [call EXCEPT ![c] = [r EXCEPT !.mapping = m]]
    BY <1>2 DEF SendMapping
  <2> HIDE DEF s
  <2>3. r \in Progress
    BY <2>1, ProgressFields
  <2> HIDE DEF r
  <2>4. call' \in [Calls -> Progress]
    BY <1>a, <2>1, <2>2, <2>3, ProgressFields
  <2>5. screen' \in Screen
    BY <1>2, <2>1, ScreenFields DEF SendMapping
  <2> QED
    BY <1>2, <2>4, <2>5 DEF SendMapping
<1>3. ASSUME NEW c \in CommitCalls, SendCommit(c)
      PROVE  TypeOK'
  <2> DEFINE r == [call[c] EXCEPT !.stage = "loop"]
             q == [r EXCEPT !.ready = Ready]
  <2>1. Ready \in SUBSET Ids /\ c \in Calls
    BY DEF Ready, Open, Calls
  <2>2. call' = [call EXCEPT ![c] = [q EXCEPT !.todo = Ready]]
    BY <1>3 DEF SendCommit
  <2>3. r \in Progress
    BY <2>1, ProgressFields
  <2> HIDE DEF r
  <2>4. q \in Progress
    BY <2>1, <2>3, ProgressFields
  <2> HIDE DEF q
  <2>5. call' \in [Calls -> Progress]
    BY <1>a, <2>1, <2>2, <2>4, ProgressFields
  <2>6. screen' \in Screen
    BY <1>3, <2>1, ScreenFields DEF SendCommit
  <2> QED
    BY <1>3, <2>5, <2>6 DEF SendCommit
<1>4. ASSUME NEW c \in Calls, BuildDrafts(c)
      PROVE  TypeOK'
  <2>1. \A i \in Ids : i[2] \in DOMAIN sheet => NewRow(sheet[i[2]], call[c].mapping) \in Draft
    BY RowsMakeForms, ProgressFields
  <2>2. draft' \in [Ids -> Draft]
    BY <1>4, <2>1 DEF BuildDrafts, DraftsOf
  <2>3. call' \in [Calls -> Progress]
    BY <1>4, <1>b DEF BuildDrafts
  <2> QED
    BY <1>4, <2>2, <2>3 DEF BuildDrafts
<1>5. ASSUME NEW c \in Calls, AnswerMapping(c) \/ AnswerCommit(c)
      PROVE  TypeOK'
  <2>1. Cardinality(Clean(c)) \in Nat
    BY DraftsAreFinite DEF Clean, Made
  <2>2. screen' \in Screen
    <3> DEFINE n == Cardinality(Clean(c))
               r == [screen EXCEPT !.stage = "finished"]
    <3>1. \/ screen' = screen
          \/ screen' = [screen EXCEPT !.awaits = None]
          \/ screen' = [stage |-> "report", awaits |-> None, clean |-> n]
          \/ screen' = [r EXCEPT !.awaits = None]
      BY <1>5 DEF AnswerMapping, AnswerCommit
    <3>2. n \in Nat /\ r \in Screen
      BY <2>1, ScreenFields
    <3>3. screen \in Screen /\ None \in Calls \cup {None}
      OBVIOUS
    <3>4. [screen EXCEPT !.awaits = None] \in Screen
      BY <3>3, ScreenFields
    <3>5. [r EXCEPT !.awaits = None] \in Screen
      <4> HIDE DEF r
      <4> QED
        BY <3>2, <3>3, ScreenFields
    <3>6. [stage |-> "report", awaits |-> None, clean |-> n] \in Screen
      <4> HIDE DEF n
      <4> QED
        BY <3>2, <3>3, ScreenFields
    <3> QED
      BY <3>1, <3>3, <3>4, <3>5, <3>6
  <2>3. call' \in [Calls -> Progress]
    BY <1>5, <1>b DEF AnswerMapping, AnswerCommit
  <2> QED
    BY <1>5, <2>2, <2>3 DEF AnswerMapping, AnswerCommit
<1>6. ASSUME NEW c \in Calls, NEW i \in Ids, CommitRow(c, i)
      PROVE  TypeOK'
  <2> DEFINE r == [call[c] EXCEPT !.todo = call[c].todo \ {i}]
  <2>1. call[c] \in Progress /\ r \in Progress
    BY ProgressFields
  <2>2. UNCHANGED <<sheet, status, screen>>
    BY <1>6 DEF CommitRow
  <2>3. CASE Committable(i, None, FALSE)
    <3>1. File(i, None, "batch")
      BY <1>6, <2>3 DEF CommitRow
    <3>2. call' = [call EXCEPT ![c] = [r EXCEPT !.skipped = call[c].skipped]]
      BY <1>6, <2>3 DEF CommitRow
    <3> HIDE DEF r
    <3>3. call' \in [Calls -> Progress]
      BY <1>a, <2>1, <3>2, ProgressFields
    <3> QED
      BY <2>2, <2>3, <3>1, <3>3, FilingKeepsTypes
  <2>4. CASE ~ Committable(i, None, FALSE)
    <3>1. UNCHANGED <<draft, filed, people>>
      BY <1>6, <2>4 DEF CommitRow
    <3>2. call' = [call EXCEPT ![c] = [r EXCEPT !.skipped = call[c].skipped \cup {i}]]
      BY <1>6, <2>4 DEF CommitRow
    <3> HIDE DEF r
    <3>3. call' \in [Calls -> Progress]
      BY <1>a, <2>1, <3>2, ProgressFields
    <3> QED
      BY <2>2, <3>1, <3>3
  <2> QED
    BY <2>3, <2>4
<1>7. ASSUME NEW c \in Calls, CountOpen(c)
      PROVE  TypeOK'
  <2> DEFINE r == [call[c] EXCEPT !.stage = "settle"]
             n == Cardinality(Open)
  <2>1. n \in Nat /\ r \in Progress
    BY DraftsAreFinite, ProgressFields DEF Open
  <2>2. call' = [call EXCEPT ![c] = [r EXCEPT !.open = n]]
    BY <1>7 DEF CountOpen
  <2> HIDE DEF r, n
  <2>3. call' \in [Calls -> Progress]
    BY <1>a, <2>1, <2>2, ProgressFields
  <2> QED
    BY <1>7, <2>3 DEF CountOpen
<1>8. ASSUME NEW c \in Calls, SettleStatus(c) \/ Stop(c)
      PROVE  TypeOK'
  <2>1. call' \in [Calls -> Progress]
    BY <1>8, <1>b DEF SettleStatus, Stop
  <2>2. screen' \in Screen
    <3>1. screen' = screen \/ screen' = [screen EXCEPT !.awaits = None]
      BY <1>8 DEF SettleStatus, Stop
    <3>2. screen \in Screen /\ None \in Calls \cup {None}
      OBVIOUS
    <3>3. [screen EXCEPT !.awaits = None] \in Screen
      BY <3>2, ScreenFields
    <3> QED
      BY <3>1, <3>2, <3>3
  <2>3. status' \in {status, "committed", "partially_committed"}
    BY <1>8 DEF SettleStatus, Stop
  <2>4. UNCHANGED <<sheet, draft, filed, people>>
    BY <1>8 DEF SettleStatus, Stop
  <2>5. DOMAIN sheet' \subseteq Rows /\ \A r \in DOMAIN sheet' : sheet'[r] \in Row
    BY <2>4
  <2> QED
    BY <2>1, <2>2, <2>3, <2>4, <2>5
<1>9. CASE LoseAnswer
  BY <1>9, ScreenFields DEF LoseAnswer
<1>10. ASSUME NEW i \in Open, NEW f \in Readings \cup {draft[i].form}, Save(i, f)
       PROVE  TypeOK'
  <2>1. f \in Form /\ Invalid(f) \in BOOLEAN /\ i \in Ids /\ draft[i] \in Draft
    BY BulkAssumption, DraftFields DEF Invalid, Open
  <2>2. draft' = [draft EXCEPT ![i] =
                    [draft[i] EXCEPT !.form = f, !.blocked = Invalid(f), !.saved = TRUE]]
    BY <1>10 DEF Save
  <2>3. draft' \in [Ids -> Draft]
    BY <2>1, <2>2, DraftFields
  <2> QED
    BY <1>10, <2>3 DEF Save
<1>11. ASSUME NEW i \in Open, NEW named \in Persons \cup {None}, NEW forceNew \in BOOLEAN,
            CommitByHand(i, named, forceNew)
       PROVE  TypeOK'
  BY <1>11, FilingKeepsTypes DEF CommitByHand
<1>12. ASSUME NEW i \in Open, Reject(i)
       PROVE  TypeOK'
  <2>1. draft' = [draft EXCEPT ![i] = [draft[i] EXCEPT !.status = "rejected"]]
    BY <1>12 DEF Reject
  <2>2. draft' \in [Ids -> Draft]
    BY <2>1, DraftFields DEF Open
  <2> QED
    BY <1>12, <2>2 DEF Reject
<1>13. CASE UNCHANGED vars
  BY <1>13 DEF vars
<1> QED
  BY <1>1, <1>2, <1>3, <1>4, <1>5, <1>6, <1>7, <1>8, <1>9, <1>10, <1>11, <1>12, <1>13
     DEF Next, Operate, Review, Serve

-----------------------------------------------------------------------------
(* What a step may do                                                      *)

\* A draft is made once, is saved or decided while it is open, and is left
\* alone otherwise.
DraftMoves(i) ==
  \/ draft'[i] = draft[i]
  \/ /\ draft[i].status = "needs_review" /\ draft'[i].status \in {"committed", "rejected"}
     /\ draft'[i].form = draft[i].form /\ draft'[i].blocked = draft[i].blocked
     /\ draft'[i].saved = draft[i].saved
  \/ /\ draft[i].status = "needs_review" /\ draft'[i].status = "needs_review"
     /\ draft'[i].saved
  \/ /\ call[i[1]].stage = "insert" /\ i[2] \in DOMAIN sheet
     /\ draft'[i] = NewRow(sheet[i[2]], call[i[1]].mapping)
     /\ call'[i[1]].stage = "answer"

\* A decision on an open draft.
LEMMA DecidingMoves ==
  ASSUME TypeOK, NEW i \in Ids, NEW j \in Ids, NEW s \in {"committed", "rejected"},
         draft[j].status = "needs_review", draft' = [draft EXCEPT ![j].status = s]
  PROVE  DraftMoves(i) /\ draft'[j].status = s
<1>1. draft[j] \in Draft /\ draft \in [Ids -> Draft]
  BY DEF TypeOK
<1>2. /\ draft'[j].status = s /\ draft'[j].form = draft[j].form
      /\ draft'[j].blocked = draft[j].blocked /\ draft'[j].saved = draft[j].saved
  BY <1>1 DEF Draft
<1>3. i # j => draft'[i] = draft[i]
  BY <1>1
<1> QED
  BY <1>2, <1>3 DEF DraftMoves

\* Nothing else ever happens to a draft.
LEMMA DraftSteps ==
  ASSUME TypeOK, [Next]_vars, NEW i \in Ids
  PROVE  DraftMoves(i)
<1>1. ASSUME draft' = draft PROVE DraftMoves(i)
  BY <1>1 DEF DraftMoves
<1>2. ASSUME NEW j, NEW named \in Persons \cup {None}, NEW forceNew, NEW by,
             Committable(j, named, forceNew), File(j, named, by)
      PROVE  DraftMoves(i)
  BY <1>2, FiledHaveNames, DecidingMoves DEF File
<1>3. ASSUME NEW c \in Calls, BuildDrafts(c) PROVE DraftMoves(i)
  <2>1. draft' = DraftsOf(c, call[c].mapping) /\ call[c].stage = "insert"
    BY <1>3 DEF BuildDrafts
  <2>2. call'[c].stage = "answer"
    BY <1>3 DEF BuildDrafts, At, TypeOK, Progress
  <2>3. CASE i[1] = c /\ i[2] \in DOMAIN sheet
    BY <2>1, <2>2, <2>3 DEF DraftsOf, DraftMoves
  <2>4. CASE ~ (i[1] = c /\ i[2] \in DOMAIN sheet)
    <3>1. draft'[i] = draft[i]
      BY <2>1, <2>4 DEF DraftsOf
    <3> QED
      BY <3>1 DEF DraftMoves
  <2> QED
    BY <2>3, <2>4
<1>4. ASSUME NEW c \in Calls, NEW j \in Ids, CommitRow(c, j) PROVE DraftMoves(i)
  BY <1>1, <1>2, <1>4 DEF CommitRow
<1>5. ASSUME NEW j \in Open, NEW f, Save(j, f) PROVE DraftMoves(i)
  <2>1. j \in Ids /\ draft[j].status = "needs_review" /\ draft[j] \in Draft /\ draft \in [Ids -> Draft]
    BY DEF Open, TypeOK
  <2>2. draft' = [draft EXCEPT ![j] =
                    [draft[j] EXCEPT !.form = f, !.blocked = Invalid(f), !.saved = TRUE]]
    BY <1>5 DEF Save
  <2>3. draft'[j].status = "needs_review" /\ draft'[j].saved
    BY <2>1, <2>2 DEF Draft
  <2>4. i # j => draft'[i] = draft[i]
    BY <2>1, <2>2
  <2> QED
    BY <2>1, <2>3, <2>4 DEF DraftMoves
<1>6. ASSUME NEW j \in Open, Reject(j) PROVE DraftMoves(i)
  BY <1>6, DecidingMoves DEF Reject, Open
<1>7. ASSUME NEW j \in Open, NEW named \in Persons \cup {None}, NEW forceNew,
             CommitByHand(j, named, forceNew)
      PROVE  DraftMoves(i)
  BY <1>2, <1>7 DEF CommitByHand
<1>8. CASE Operate
  BY <1>1, <1>8 DEF Operate, Upload, SendMapping, SendCommit
<1>9. ASSUME NEW c \in Calls, Serve(c) \/ Stop(c) PROVE DraftMoves(i)
  BY <1>1, <1>3, <1>4, <1>9 DEF Serve, Stop, AnswerMapping, CountOpen, SettleStatus, AnswerCommit
<1>10. CASE Review
  BY <1>5, <1>6, <1>7, <1>10 DEF Review
<1>11. CASE LoseAnswer \/ UNCHANGED vars
  BY <1>1, <1>11 DEF LoseAnswer, vars
<1> QED
  BY <1>8, <1>9, <1>10, <1>11 DEF Next

\* A call starts from nothing, goes through its stages, and never changes its
\* mapping or what it took up.
Goes(c, froms, to) ==
  /\ call[c].stage \in froms /\ call'[c].stage = to
  /\ call'[c].mapping = call[c].mapping /\ call'[c].ready = call[c].ready
  /\ call'[c].todo = call[c].todo /\ call'[c].skipped = call[c].skipped

Reaches(c, i) ==
  /\ call[c].stage = "loop" /\ call'[c].stage = "loop" /\ i \in call[c].todo
  /\ call'[c].mapping = call[c].mapping /\ call'[c].ready = call[c].ready
  /\ call'[c].todo = call[c].todo \ {i}
  /\ \/ Committable(i, None, FALSE) /\ File(i, None, "batch") /\ call'[c].skipped = call[c].skipped
     \/ draft' = draft /\ call'[c].skipped = call[c].skipped \cup {i}

CallMoves(c) ==
  \/ call'[c] = call[c]
  \/ /\ call[c].stage = "idle" /\ screen.stage = "map"
     /\ call'[c].stage \in {"insert", "answer"}
     /\ call'[c].ready = {} /\ call'[c].todo = {} /\ call'[c].skipped = {}
  \/ /\ call[c].stage = "idle" /\ screen.stage = "report" /\ call'[c].stage = "loop"
     /\ call'[c].ready = Ready /\ call'[c].todo = Ready /\ draft' = draft
  \/ \E i \in Ids : Reaches(c, i)
  \/ call[c].todo = {} /\ Goes(c, {"loop"}, "settle")
  \/ Goes(c, {"insert", "settle"}, "answer")
  \/ Goes(c, {"answer"}, "ended")
  \/ Goes(c, {"insert", "loop", "settle", "answer"}, "lost")

\* A call that only changes its stage.
LEMMA Going ==
  ASSUME TypeOK, NEW c \in Calls, NEW d \in Calls, NEW s, At(d, s)
  PROVE  /\ c # d => call'[c] = call[c]
         /\ call'[d].stage = s /\ call'[d].mapping = call[d].mapping
         /\ call'[d].ready = call[d].ready /\ call'[d].todo = call[d].todo
         /\ call'[d].skipped = call[d].skipped
BY DEF At, TypeOK, Progress

\* Nothing else ever happens to a call.
LEMMA CallSteps ==
  ASSUME TypeOK, [Next]_vars, NEW c \in Calls
  PROVE  CallMoves(c)
<1>a. call[c] \in Progress /\ call \in [Calls -> Progress]
  BY DEF TypeOK
<1>1. ASSUME call' = call PROVE CallMoves(c)
  BY <1>1 DEF CallMoves
<1>2. ASSUME NEW d \in MapCalls, NEW m, SendMapping(d, m) PROVE CallMoves(c)
  <2> DEFINE s == IF status = "mapping" THEN "insert" ELSE "answer"
  <2>1. s \in {"insert", "answer"} /\ d \in Calls /\ call[d] \in Progress
    BY <1>a DEF Calls
  <2>2. call' = [call EXCEPT ![d].stage = s, ![d].mapping = m] /\ call[d] = Quiet
        /\ screen.stage = "map"
    BY <1>2 DEF SendMapping
  <2> HIDE DEF s
  <2>3. c # d => call'[c] = call[c]
    BY <2>2, <1>a
  <2>4. /\ call'[d].stage = s /\ call'[d].ready = call[d].ready
        /\ call'[d].todo = call[d].todo /\ call'[d].skipped = call[d].skipped
    BY <2>1, <2>2, <1>a DEF Progress
  <2>5. /\ call[d].stage = "idle" /\ call[d].ready = {} /\ call[d].todo = {}
        /\ call[d].skipped = {}
    BY <2>2 DEF Quiet
  <2>6. CASE c = d
    BY <2>1, <2>2, <2>3, <2>4, <2>5, <2>6 DEF CallMoves
  <2> QED
    BY <2>3, <2>6 DEF CallMoves
<1>3. ASSUME NEW d \in CommitCalls, SendCommit(d) PROVE CallMoves(c)
  <2>1. d \in Calls /\ call[d] \in Progress
    BY <1>a DEF Calls
  <2>2. call' = [call EXCEPT ![d].stage = "loop", ![d].ready = Ready, ![d].todo = Ready]
        /\ call[d] = Quiet /\ screen.stage = "report" /\ draft' = draft
    BY <1>3 DEF SendCommit
  <2>3. c # d => call'[c] = call[c]
    BY <2>2, <1>a
  <2>4. call'[d].stage = "loop" /\ call'[d].ready = Ready /\ call'[d].todo = Ready
    BY <2>1, <2>2, <1>a DEF Progress
  <2>5. /\ call[d].stage = "idle" /\ call[d].ready = {} /\ call[d].todo = {}
        /\ call[d].skipped = {}
    BY <2>2 DEF Quiet
  <2>6. CASE c = d
    BY <2>2, <2>3, <2>4, <2>5, <2>6 DEF CallMoves
  <2> QED
    BY <2>3, <2>6 DEF CallMoves
<1>4. ASSUME NEW d \in Calls, BuildDrafts(d) \/ SettleStatus(d) PROVE CallMoves(c)
  <2>1. At(d, "answer") /\ call[d].stage \in {"insert", "settle"}
    BY <1>4 DEF BuildDrafts, SettleStatus
  <2> QED
    BY <2>1, Going DEF CallMoves, Goes
<1>5. ASSUME NEW d \in Calls, AnswerMapping(d) \/ AnswerCommit(d) PROVE CallMoves(c)
  <2>1. At(d, "ended") /\ call[d].stage = "answer"
    BY <1>5 DEF AnswerMapping, AnswerCommit
  <2> QED
    BY <2>1, Going DEF CallMoves, Goes
<1>6. ASSUME NEW d \in Calls, Stop(d) PROVE CallMoves(c)
  <2>1. At(d, "lost") /\ call[d].stage \in {"insert", "loop", "settle", "answer"}
    BY <1>6 DEF Stop
  <2> QED
    BY <2>1, Going DEF CallMoves, Goes
<1>7. ASSUME NEW d \in Calls, CountOpen(d) PROVE CallMoves(c)
  <2>1. /\ call[d].stage = "loop" /\ call[d].todo = {} /\ call[d] \in Progress
        /\ call' = [call EXCEPT ![d].stage = "settle", ![d].open = Cardinality(Open)]
    BY <1>7, <1>a DEF CountOpen
  <2>2. c # d => call'[c] = call[c]
    BY <2>1, <1>a
  <2>3. /\ call'[d].stage = "settle" /\ call'[d].mapping = call[d].mapping
        /\ call'[d].ready = call[d].ready /\ call'[d].todo = call[d].todo
        /\ call'[d].skipped = call[d].skipped
    BY <2>1, <1>a DEF Progress
  <2> QED
    BY <2>1, <2>2, <2>3 DEF CallMoves, Goes
<1>8. ASSUME NEW d \in Calls, NEW i \in Ids, CommitRow(d, i) PROVE CallMoves(c)
  <2> DEFINE S == IF Committable(i, None, FALSE) THEN call[d].skipped ELSE call[d].skipped \cup {i}
  <2>1. /\ call[d].stage = "loop" /\ i \in call[d].todo /\ call[d] \in Progress
        /\ IF Committable(i, None, FALSE) THEN File(i, None, "batch") ELSE UNCHANGED <<draft, filed, people>>
    BY <1>8, <1>a DEF CommitRow, First
  <2>2. call' = [call EXCEPT ![d].todo = call[d].todo \ {i}, ![d].skipped = S]
    BY <1>8, <1>a DEF CommitRow
  <2>3. S = call[d].skipped \/ S = call[d].skipped \cup {i}
    OBVIOUS
  <2>4. Committable(i, None, FALSE) => S = call[d].skipped
    OBVIOUS
  <2>5. ~ Committable(i, None, FALSE) => S = call[d].skipped \cup {i}
    OBVIOUS
  <2> HIDE DEF S
  <2>6. c # d => call'[c] = call[c]
    BY <2>2, <1>a
  <2>7. /\ call'[d].stage = call[d].stage /\ call'[d].mapping = call[d].mapping
        /\ call'[d].ready = call[d].ready /\ call'[d].todo = call[d].todo \ {i}
        /\ call'[d].skipped = S
    BY <2>1, <2>2, <1>a DEF Progress
  <2>8. Reaches(d, i)
    BY <2>1, <2>4, <2>5, <2>7 DEF Reaches
  <2> QED
    BY <2>6, <2>8 DEF CallMoves
<1>9. CASE Review \/ LoseAnswer \/ UNCHANGED vars
  <2>1. call' = call
    BY <1>9 DEF Review, LoseAnswer, Save, CommitByHand, Reject, vars
  <2> QED
    BY <2>1, <1>1
<1>10. CASE Operate
  BY <1>10, <1>1, <1>2, <1>3 DEF Operate, Upload
<1>11. ASSUME NEW d \in Calls, Serve(d) PROVE CallMoves(c)
  BY <1>11, <1>4, <1>5, <1>7, <1>8 DEF Serve
<1> QED
  BY <1>6, <1>9, <1>10, <1>11 DEF Next
\* The register changes only when a draft is filed: by the batch, for a row a
\* call has taken up, or by hand.
Filing ==
  \E i \in Ids, by \in {"batch", "hand"}, named \in Persons \cup {None}, forceNew \in BOOLEAN :
    /\ Committable(i, named, forceNew) /\ File(i, named, by)
    /\ by = "batch" => named = None /\ ~ forceNew /\ \E c \in Calls : i \in call[c].todo

\* Nothing but filing touches the register.
LEMMA FilingSteps ==
  ASSUME TypeOK, [Next]_vars
  PROVE  (filed' = filed /\ people' = people) \/ Filing
<1>1. ASSUME NEW c \in Calls, NEW i \in Ids, CommitRow(c, i)
      PROVE  (filed' = filed /\ people' = people) \/ Filing
  <2>1. i \in call[c].todo
    BY <1>1 DEF CommitRow, First
  <2> QED
    BY <1>1, <2>1 DEF CommitRow, Filing
<1>2. ASSUME NEW i \in Open, NEW named \in Persons \cup {None}, NEW forceNew \in BOOLEAN,
            CommitByHand(i, named, forceNew)
      PROVE  Filing
  BY <1>2 DEF CommitByHand, Filing, Open
<1>3. CASE Review
  BY <1>2, <1>3 DEF Review, Save, Reject
<1>4. CASE Operate \/ LoseAnswer \/ UNCHANGED vars
  BY <1>4 DEF Operate, Upload, SendMapping, SendCommit, LoseAnswer, vars
<1>5. ASSUME NEW c \in Calls, Serve(c) \/ Stop(c)
      PROVE  (filed' = filed /\ people' = people) \/ Filing
  BY <1>1, <1>5 DEF Serve, Stop, BuildDrafts, AnswerMapping, CountOpen, SettleStatus, AnswerCommit
<1> QED
  BY <1>3, <1>4, <1>5 DEF Next

\* The sheet is fixed once the screen has left the upload, and the screen does
\* not return to it.
LEMMA SheetSteps ==
  ASSUME TypeOK, [Next]_vars
  PROVE  /\ sheet' = sheet \/ screen.stage = "upload"
         /\ screen'.stage = "upload" => screen.stage = "upload"
<1>1. ASSUME NEW s \in Sheets, Upload(s)
      PROVE  screen.stage = "upload"
  BY <1>1 DEF Upload
<1>2. CASE ~ \E s \in Sheets : Upload(s)
  <2>1. sheet' = sheet
    BY <1>2 DEF Next, Operate, SendMapping, SendCommit, Review, Save, CommitByHand, Reject,
                LoseAnswer, Serve, Stop, BuildDrafts, AnswerMapping, CountOpen, SettleStatus,
                AnswerCommit, CommitRow, vars
  <2>2. screen'.stage \in {screen.stage, "report", "finished"}
    <3>1. screen \in Screen
      BY DEF TypeOK
    <3>2. ASSUME \E x : screen' = [screen EXCEPT !.awaits = x]
          PROVE  screen'.stage = screen.stage
      BY <3>1, <3>2 DEF Screen
    <3>3. ASSUME NEW c \in Calls, AnswerMapping(c) \/ AnswerCommit(c)
          PROVE  screen'.stage \in {screen.stage, "report", "finished"}
      <4>1. \/ screen' = screen
            \/ screen' = [screen EXCEPT !.awaits = None]
            \/ screen'.stage = "report"
            \/ screen' = [screen EXCEPT !.stage = "finished", !.awaits = None]
        BY <3>3 DEF AnswerMapping, AnswerCommit
      <4> QED
        BY <3>1, <3>2, <4>1 DEF Screen
    <3>4. CASE Operate
      BY <1>2, <3>2, <3>4 DEF Operate, SendMapping, SendCommit
    <3>5. CASE Review \/ UNCHANGED vars
      BY <3>5 DEF Review, Save, CommitByHand, Reject, vars
    <3>6. CASE LoseAnswer
      BY <3>2, <3>6 DEF LoseAnswer
    <3>7. ASSUME NEW c \in Calls, Stop(c) PROVE screen'.stage = screen.stage
      <4>1. screen' = screen \/ screen' = [screen EXCEPT !.awaits = None]
        BY <3>7 DEF Stop
      <4> QED
        BY <3>2, <4>1
    <3>8. ASSUME NEW c \in Calls, Serve(c)
          PROVE  screen'.stage \in {screen.stage, "report", "finished"}
      BY <3>3, <3>8 DEF Serve, BuildDrafts, CountOpen, SettleStatus, CommitRow
    <3> QED
      BY <3>4, <3>5, <3>6, <3>7, <3>8 DEF Next
  <2> QED
    BY <2>1, <2>2
<1> QED
  BY <1>1, <1>2

-----------------------------------------------------------------------------
(* Each part of the invariant stands                                       *)

\* A draft goes on following its row: the sheet and the mapping it was made
\* under are fixed by then.
LEMMA FollowingStands ==
  ASSUME TypeOK, DraftsFollowSheet, NothingBeforeUpload, [Next]_vars
  PROVE  DraftsFollowSheet'
<1> SUFFICES ASSUME NEW i \in Ids, draft'[i].status # "none"
             PROVE  /\ call'[i[1]].stage \notin {"idle", "insert"}
                    /\ i[2] \in DOMAIN sheet'
                    /\ \/ draft'[i].saved
                       \/ /\ draft'[i].form = FormOfRow(sheet'[i[2]], call'[i[1]].mapping)
                          /\ draft'[i].blocked = NewRow(sheet'[i[2]], call'[i[1]].mapping).blocked
  BY DEF DraftsFollowSheet
<1>1. i[1] \in Calls /\ CallMoves(i[1])
  BY CallSteps DEF Ids, Calls
<1>2. CASE draft[i].status # "none"
  <2>1. /\ call[i[1]].stage \notin {"idle", "insert"}
        /\ i[2] \in DOMAIN sheet
        /\ \/ draft[i].saved
           \/ /\ draft[i].form = FormOfRow(sheet[i[2]], call[i[1]].mapping)
              /\ draft[i].blocked = NewRow(sheet[i[2]], call[i[1]].mapping).blocked
    BY <1>2 DEF DraftsFollowSheet
  <2>2. sheet' = sheet
    BY <1>1, <2>1, SheetSteps DEF NothingBeforeUpload
  <2>3. call'[i[1]].mapping = call[i[1]].mapping /\ call'[i[1]].stage \notin {"idle", "insert"}
    BY <1>1, <2>1 DEF CallMoves, Reaches, Goes
  <2>4. \/ draft'[i].saved
        \/ /\ draft'[i].saved = draft[i].saved /\ draft'[i].form = draft[i].form
           /\ draft'[i].blocked = draft[i].blocked
    BY <2>1, DraftSteps DEF DraftMoves
  <2> QED
    BY <2>1, <2>2, <2>3, <2>4
<1>3. CASE draft[i].status = "none"
  <2>1. /\ call[i[1]].stage = "insert" /\ i[2] \in DOMAIN sheet
        /\ draft'[i] = NewRow(sheet[i[2]], call[i[1]].mapping)
        /\ call'[i[1]].stage = "answer"
    BY <1>3, DraftSteps DEF DraftMoves
  <2>2. sheet' = sheet
    BY <1>1, <2>1, SheetSteps DEF NothingBeforeUpload
  <2>3. call'[i[1]].mapping = call[i[1]].mapping
    BY <1>1, <2>1 DEF CallMoves, Reaches, Goes
  <2> QED
    BY <2>1, <2>2, <2>3 DEF NewRow
<1> QED
  BY <1>2, <1>3

\* The server stays unasked until the upload.
LEMMA WaitingStands ==
  ASSUME TypeOK, NothingBeforeUpload, [Next]_vars
  PROVE  NothingBeforeUpload'
<1> SUFFICES ASSUME screen'.stage = "upload", NEW c \in Calls
             PROVE  call'[c].stage = "idle"
  BY DEF NothingBeforeUpload
<1>1. screen.stage = "upload" /\ call[c].stage = "idle"
  BY SheetSteps DEF NothingBeforeUpload
<1> QED
  BY <1>1, CallSteps DEF CallMoves, Reaches, Goes

\* A draft that was made stays made, and gets errors only by being saved.
LEMMA MadeStaysMade ==
  ASSUME TypeOK, DraftsFollowSheet, [Next]_vars, NEW i \in Ids, draft[i].status # "none"
  PROVE  /\ draft'[i].status # "none"
         /\ draft'[i].saved \/ (draft'[i].saved = draft[i].saved /\ draft'[i].blocked = draft[i].blocked)
         /\ draft'[i].status = "needs_review" => draft[i].status = "needs_review"
         /\ draft[i].status = "committed" => draft'[i] = draft[i]
<1>1. call[i[1]].stage # "insert"
  BY DEF DraftsFollowSheet
<1> QED
  BY <1>1, DraftSteps DEF DraftMoves

\* What a commit has taken up stays clean unless it is saved.
LEMMA CleanlinessStands ==
  ASSUME TypeOK, DraftsFollowSheet, ReadyWereClean, [Next]_vars
  PROVE  ReadyWereClean'
<1> SUFFICES ASSUME NEW c \in Calls, NEW i \in Ids, i \in call'[c].ready \cup call'[c].todo
             PROVE  draft'[i].status # "none" /\ (draft'[i].saved \/ ~ draft'[i].blocked)
  BY DEF ReadyWereClean
<1>1. CASE i \in call[c].ready \cup call[c].todo
  BY <1>1, MadeStaysMade DEF ReadyWereClean
<1>2. CASE i \notin call[c].ready \cup call[c].todo
  <2>1. i \in Ready /\ draft' = draft
    BY <1>2, CallSteps DEF CallMoves, Reaches, Goes
  <2> QED
    BY <2>1 DEF Ready, Open
<1> QED
  BY <1>1, <1>2

\* What filing does to the drafts.
LEMMA FilingDecides ==
  ASSUME TypeOK, NEW i, NEW named \in Persons \cup {None}, NEW forceNew, NEW by,
         Committable(i, named, forceNew), File(i, named, by)
  PROVE  /\ i \in Ids /\ draft[i].status = "needs_review"
         /\ draft'[i].status = "committed" /\ draft'[i].form = draft[i].form
         /\ draft'[i].blocked = draft[i].blocked /\ draft'[i].saved = draft[i].saved
<1>1. i \in Ids /\ draft[i] \in Draft /\ draft \in [Ids -> Draft]
  BY FiledHaveNames DEF TypeOK
<1> QED
  BY <1>1, FiledHaveNames DEF File, Draft

\* A filed draft is never changed again.
LEMMA FiledStands ==
  ASSUME TypeOK, DraftsFollowSheet, ReadyWereClean, FiledAsDrafted, [Next]_vars
  PROVE  FiledAsDrafted'
<1> SUFFICES ASSUME NEW a \in filed'
             PROVE  /\ draft'[a.draft].status = "committed" /\ a.form = draft'[a.draft].form
                    /\ a.by = "batch" => draft'[a.draft].saved \/ ~ draft'[a.draft].blocked
  BY DEF FiledAsDrafted
<1>1. CASE a \in filed
  <2>1. a.draft \in Ids
    BY <1>1 DEF TypeOK, Artifact
  <2>2. draft[a.draft].status = "committed"
    BY <1>1 DEF FiledAsDrafted
  <2>3. draft'[a.draft] = draft[a.draft]
    BY <2>1, <2>2, MadeStaysMade
  <2> QED
    BY <1>1, <2>3 DEF FiledAsDrafted
<1>2. CASE a \notin filed
  <2>1. PICK i \in Ids, by \in {"batch", "hand"}, named \in Persons \cup {None}, forceNew \in BOOLEAN :
          /\ Committable(i, named, forceNew) /\ File(i, named, by)
          /\ by = "batch" => \E c \in Calls : i \in call[c].todo
    BY <1>2, FilingSteps DEF Filing
  <2>2. a = [draft |-> i, form |-> draft[i].form, by |-> by, under |-> Owner(i, named)]
    BY <1>2, <2>1 DEF File
  <2>3. by = "batch" => draft[i].saved \/ ~ draft[i].blocked
    BY <2>1 DEF ReadyWereClean
  <2> QED
    BY <2>1, <2>2, <2>3, FilingDecides
<1> QED
  BY <1>1, <1>2

\* A row leaves the loop filed or skipped, and no other row of it opens.
LEMMA SettlingStands ==
  ASSUME TypeOK, DraftsFollowSheet, ReadyWereClean, Settling, [Next]_vars
  PROVE  Settling'
<1> SUFFICES ASSUME NEW c \in Calls
             PROVE  /\ call'[c].stage = "insert" => call'[c].ready = {}
                    /\ call'[c].stage = "loop" =>
                         call'[c].ready \cap Open' \subseteq call'[c].todo \cup call'[c].skipped
                    /\ call'[c].stage \in {"settle", "answer", "ended"} =>
                         call'[c].ready \cap Open' \subseteq call'[c].skipped
  BY DEF Settling
<1>1. CallMoves(c)
  BY CallSteps
<1>2. call'[c].stage = "insert" => call'[c].ready = {}
  BY <1>1 DEF Settling, CallMoves, Reaches, Goes
<1>3. ASSUME NEW i \in Ids, i \in call'[c].ready, draft'[i].status = "needs_review"
      PROVE  /\ call'[c].stage = "loop" => i \in call'[c].todo \cup call'[c].skipped
             /\ call'[c].stage \in {"settle", "answer", "ended"} => i \in call'[c].skipped
  <2>1. CASE i \in call[c].ready /\ call[c].stage # "idle"
    <3>a. call[c].stage # "insert" /\ call'[c].stage # "insert"
      BY <1>1, <1>3, <2>1 DEF Settling, CallMoves, Reaches, Goes
    <3>1. draft[i].status = "needs_review" /\ i \in Open
      BY <1>3, <2>1, <3>a, MadeStaysMade DEF ReadyWereClean, Open
    <3>2. /\ call[c].stage = "loop" => i \in call[c].todo \cup call[c].skipped
          /\ call[c].stage \in {"settle", "answer", "ended"} => i \in call[c].skipped
      BY <1>3, <2>1, <3>1 DEF Settling
    <3>3. ASSUME NEW j \in Ids, Reaches(c, j)
          PROVE  call'[c].stage = "loop" /\ i \in call'[c].todo \cup call'[c].skipped
      <4>1. CASE Committable(j, None, FALSE) /\ File(j, None, "batch")
        <5>1. i # j
          BY <1>3, <4>1, FilingDecides
        <5> QED
          BY <3>2, <3>3, <5>1 DEF Reaches
      <4>2. CASE ~ (Committable(j, None, FALSE) /\ File(j, None, "batch"))
        BY <3>2, <3>3, <4>2 DEF Reaches
      <4> QED
        BY <4>1, <4>2
    <3>4. CASE call'[c] = call[c]
      BY <3>2, <3>4
    <3>5. CASE Goes(c, {"insert", "settle"}, "answer")
      BY <3>2, <3>5, <3>a DEF Goes
    <3>6. CASE Goes(c, {"answer"}, "ended") \/ Goes(c, {"insert", "loop", "settle", "answer"}, "lost")
      BY <3>2, <3>6 DEF Goes
    <3>7. CASE call[c].todo = {} /\ Goes(c, {"loop"}, "settle")
      BY <3>2, <3>7 DEF Goes
    <3> QED
      BY <1>1, <2>1, <3>a, <3>3, <3>4, <3>5, <3>6, <3>7 DEF CallMoves
  <2>2. CASE ~ (i \in call[c].ready /\ call[c].stage # "idle")
    BY <1>1, <1>3, <2>2 DEF CallMoves, Reaches, Goes
  <2> QED
    BY <2>1, <2>2
<1> QED
  BY <1>2, <1>3 DEF Open

\* Two identities are similar whichever is named first, and none to itself.
LEMMA TwinsAreMutual ==
  ASSUME NEW p \in Persons, NEW q \in Persons, {<<p, q>>, <<q, p>>} \cap Similar # {}
  PROVE  p # q /\ {<<q, p>>, <<p, q>>} \cap Similar # {}
BY BulkAssumption

\* The batch brings in a newcomer only if none of its twins is known.
LEMMA TwinsStand ==
  ASSUME TypeOK, TwinsNeedAPerson, [Next]_vars
  PROVE  TwinsNeedAPerson'
<1> SUFFICES ASSUME NEW p \in Persons, NEW q \in Persons,
                    {<<p, q>>, <<q, p>>} \cap Similar # {}, people'[p] = "batch"
             PROVE  people'[q] \in {"unknown", "hand"}
  BY DEF TwinsNeedAPerson
<1>1. CASE people' = people
  BY <1>1 DEF TwinsNeedAPerson
<1>2. ASSUME NEW i \in Ids, NEW by \in {"batch", "hand"}, NEW named \in Persons \cup {None},
             NEW forceNew \in BOOLEAN, Committable(i, named, forceNew), File(i, named, by),
             by = "batch" => named = None /\ ~ forceNew
      PROVE  people'[q] \in {"unknown", "hand"}
  <2> DEFINE w == Owner(i, named)
  <2>1. w \in Persons /\ people \in [Persons -> {"unknown", "before", "batch", "hand"}]
    BY <1>2, FiledHaveNames DEF TypeOK
  <2>2. people' = [people EXCEPT ![w] = IF people[w] = "unknown" THEN by ELSE people[w]]
    BY <1>2, <2>1 DEF File
  <2>3. by = "batch" => people[w] # "unknown" \/ Twins(w) = {}
    BY <1>2 DEF Committable, Owner
  <2>4. CASE people[w] # "unknown"
    BY <2>1, <2>2, <2>4, <1>1
  <2>5. CASE people[w] = "unknown" /\ by = "hand"
    <3>1. p # w /\ people[p] = "batch"
      BY <2>1, <2>2, <2>5
    <3>2. people[q] \in {"unknown", "hand"}
      BY <3>1 DEF TwinsNeedAPerson
    <3> QED
      BY <2>1, <2>2, <2>5, <3>2
  <2>6. CASE people[w] = "unknown" /\ by = "batch"
    <3>1. \A z \in Persons : {<<w, z>>, <<z, w>>} \cap Similar # {} => people[z] = "unknown"
      BY <1>2, <2>3, <2>6 DEF Twins
    <3>2. CASE p = w
      BY <2>1, <2>2, <3>1, <3>2, TwinsAreMutual
    <3>3. CASE p # w
      <4>1. people[p] = "batch"
        BY <2>1, <2>2, <3>3
      <4>2. q # w
        BY <3>1, <4>1, TwinsAreMutual
      <4> QED
        BY <2>1, <2>2, <4>1, <4>2 DEF TwinsNeedAPerson
    <3> QED
      BY <3>2, <3>3
  <2> QED
    BY <1>2, <2>4, <2>5, <2>6
<1> QED
  BY <1>1, <1>2, FilingSteps DEF Filing

-----------------------------------------------------------------------------
(* Theorems                                                                *)

\* The invariant holds of every import, whatever is uploaded, mapped, edited,
\* lost or stopped.
THEOREM BulkHolds == Spec => []BulkInv
<1>1. BulkInv /\ [Next]_vars => BulkInv'
  BY TypesStand, FollowingStands, WaitingStands, CleanlinessStands, FiledStands,
     SettlingStands, TwinsStand DEF BulkInv
<1> QED
  BY <1>1, BulkStarts, PTL DEF Spec

\* Every state of an import is of the declared types.
THEOREM TypeCorrect == Spec => []TypeOK
<1>1. BulkInv => TypeOK
  BY DEF BulkInv
<1> QED
  BY <1>1, BulkHolds, PTL

\* A row without errors says, cell by cell, what its form says.
LEMMA CleanRowsAreRead ==
  ASSUME NEW row \in Row, NEW m \in Mapping, ~ NewRow(row, m).blocked
  PROVE  LET f == FormOfRow(row, m)
         IN  /\ m.dated => f.date = (IF row.date = "blank" THEN "none" ELSE row.date)
             /\ \A u \in m.columns : row.ticks[u] = (IF u \in f.granted THEN "yes" ELSE "no")
             /\ f.granted \cup f.declined = m.columns
<1> DEFINE f == FormOfRow(row, m)
<1>1. ~ Unreadable(row, m)
  BY DEF NewRow
<1>2. /\ f.date = DateRead(row, m) /\ f.granted = Ticked(row, m, "yes")
      /\ f.declined = Ticked(row, m, "no")
  BY DEF FormOfRow
<1>3. row.date \in {"blank", "past", "future", "ambiguous"}
      /\ \A u \in m.columns : row.ticks[u] \in {"yes", "no", "unclear"}
  BY DEF Row, Mapping
<1>4. \A u \in m.columns : row.ticks[u] \in {"yes", "no"}
  BY <1>1, <1>3 DEF Unreadable, Ticked
<1>5. m.dated => f.date = (IF row.date = "blank" THEN "none" ELSE row.date)
  BY <1>1, <1>2, <1>3 DEF Unreadable, DateRead
<1>6. \A u \in m.columns : u \in f.granted <=> row.ticks[u] = "yes"
  BY <1>2 DEF Ticked
<1>7. f.granted \cup f.declined = m.columns
  BY <1>2, <1>4 DEF Ticked
<1> QED
  BY <1>4, <1>5, <1>6, <1>7

\* Of a row nobody edited, the batch files what the spreadsheet says, and only
\* if every mapped cell could be read (commitBatch): for any catalogue, sheets
\* and mappings.
THEOREM ImportNeverGuesses == Spec => []BatchNeverGuesses
<1>1. BulkInv => BatchNeverGuesses
  <2> SUFFICES ASSUME BulkInv, NEW a \in filed, a.by = "batch", ~ draft[a.draft].saved
               PROVE  LET row == sheet[a.draft[2]]
                          m   == call[a.draft[1]].mapping
                      IN  /\ m.dated => a.form.date = (IF row.date = "blank" THEN "none" ELSE row.date)
                          /\ \A u \in m.columns : row.ticks[u] = (IF u \in a.form.granted THEN "yes" ELSE "no")
                          /\ a.form.granted \cup a.form.declined = m.columns
    BY DEF BatchNeverGuesses
  <2> DEFINE i == a.draft
             row == sheet[i[2]]
             m == call[i[1]].mapping
  <2>1. i \in Ids /\ i[1] \in Calls
    BY DEF BulkInv, TypeOK, Artifact, Ids, Calls
  <2>2. draft[i].status = "committed" /\ a.form = draft[i].form /\ ~ draft[i].blocked
    BY DEF BulkInv, FiledAsDrafted
  <2>3. /\ i[2] \in DOMAIN sheet /\ draft[i].form = FormOfRow(row, m)
        /\ draft[i].blocked = NewRow(row, m).blocked
    BY <2>1, <2>2 DEF BulkInv, DraftsFollowSheet
  <2>4. row \in Row /\ m \in Mapping
    BY <2>1, <2>3, ProgressFields DEF BulkInv, TypeOK
  <2>5. a.form = FormOfRow(row, m) /\ ~ NewRow(row, m).blocked
    BY <2>2, <2>3
  <2> HIDE DEF row, m
  <2>6. /\ m.dated => a.form.date = (IF row.date = "blank" THEN "none" ELSE row.date)
        /\ \A u \in m.columns : row.ticks[u] = (IF u \in a.form.granted THEN "yes" ELSE "no")
        /\ a.form.granted \cup a.form.declined = m.columns
    BY <2>4, <2>5, CleanRowsAreRead
  <2> QED
    BY <2>6 DEF row, m
<1> QED
  BY <1>1, BulkHolds, PTL

\* An import on its own never makes two people of one: of two similar identities
\* the second needs a reviewer (commitDraft's duplicate guard).
THEOREM ImportNeverSplitsTwins == Spec => []TwinsNeedAPerson
<1>1. BulkInv => TwinsNeedAPerson
  BY DEF BulkInv
<1> QED
  BY <1>1, BulkHolds, PTL

\* When a commit has answered, whatever was ready and is still open is named
\* among the skipped (commitBatch's loop), whoever worked the queue meanwhile.
THEOREM ImportAccountsForRows == Spec => []ReadyRowsSettle
<1>1. BulkInv => ReadyRowsSettle
  <2>1. ASSUME Settling, NEW c \in CommitCalls, call[c].stage \in {"settle", "answer", "ended"}
        PROVE  call[c].ready \cap Open \subseteq call[c].skipped
    <3>1. c \in Calls
      BY DEF Calls
    <3> QED
      BY <2>1, <3>1 DEF Settling
  <2> QED
    BY <2>1 DEF BulkInv, ReadyRowsSettle
<1> QED
  BY <1>1, BulkHolds, PTL
================================================================================
