------------------------ MODULE ConsentRegisterProofs ------------------------
(***************************************************************************)
(* Theorems about ConsentRegister, for every set of people, purposes,      *)
(* drafts, systems and papers and every bound on the calendar.             *)
(***************************************************************************)
EXTENDS ConsentRegister, MergeChainsProofs, TLAPS

\* resolvePrincipalId returns nobody or a row that is not merged.
LEMMA ResolveIsLive ==
  ASSUME NEW p, Resolve(p) # None
  PROVE  Live(Resolve(p))
<1> DEFINE ends == {q \in known : mergedInto[q] = None /\ p \in known /\ q \in Chain(p)}
<1>1. Resolve(p) = IF ends = {} THEN None ELSE CHOOSE q \in ends : TRUE
  BY DEF Resolve
<1>2. ends # {}
  BY <1>1
<1>3. Resolve(p) \in ends
  BY <1>1, <1>2
<1> QED
  BY <1>3 DEF Live

\* And a row the chain reaches.
LEMMA ResolveReaches ==
  ASSUME NEW p, Resolve(p) # None
  PROVE  Resolve(p) \in Chain(p)
BY DEF Resolve

\* A form is filed under a row that is not merged, or creates its own row.
LEMMA FiledUnderLiveOrNew ==
  ASSUME NEW chosen, NEW f, NEW forceNew, NEW who, None \notin Persons,
         who \in Persons, FiledUnder(chosen, f, forceNew, who)
  PROVE  Live(who) \/ who \notin known
BY ResolveIsLive DEF FiledUnder

-----------------------------------------------------------------------------
(* Type correctness                                                        *)

\* The projection of a form onto a record is a record.
LEMMA ProjectedType ==
  ASSUME TypeOK, NEW d \in Drafts, NEW f \in Papers, NEW r \in Record, NEW u \in Purposes
  PROVE  Projected(d, f, r, u) \in Record
BY RegisterAssumption, RulesAssumption DEF Projected, Answered, Record, Form, DayOrNull, Day, NoDay

\* A merge keeps one of the two records as it is.
LEMMA ReconciledType ==
  ASSUME NEW r \in Record, NEW q \in Record, NEW first
  PROVE  Reconciled(r, q, first) \in {r, q}
BY DEF Reconciled

\* An exact match is a person or nobody.
LEMMA ExactMatchType ==
  ASSUME TypeOK, NEW f
  PROVE  ExactMatch(f) \in Persons \cup {None}
BY DEF ExactMatch, Live, TypeOK

\* A draft under review holds a form.
LEMMA ReviewedDraft ==
  ASSUME TypeOK, NEW d \in Drafts, draft[d].status = "needs_review"
  PROVE  draft[d] \in Draft
BY DEF TypeOK, NoDraft

\* The tasks a stop raises are tasks.
LEMMA RaisedType ==
  ASSUME TypeOK, NEW who \in Persons, NEW stopped \in SUBSET Purposes
  PROVE  Raised(who, stopped) \subseteq Task
BY DEF TypeOK, Raised, NewTask, Task, DayOrNull

\* The state after any step is well typed.
LEMMA TypeStep == TypeOK /\ [Next]_vars => TypeOK'
<1> SUFFICES ASSUME TypeOK, [Next]_vars PROVE TypeOK'
  OBVIOUS
<1> USE RegisterAssumption, RulesAssumption
<1>1. CASE NextDay
  BY <1>1 DEF NextDay, TypeOK, Day
<1>2. ASSUME NEW d \in Drafts, NEW f \in Papers, CreateDraft(d, f)
      PROVE  TypeOK'
  BY <1>2, ExactMatchType DEF CreateDraft, TypeOK, Draft
<1>3. ASSUME NEW d \in Drafts, NEW f \in Papers, ImportDraft(d, f)
      PROVE  TypeOK'
  BY <1>3 DEF ImportDraft, TypeOK, Draft
<1>4. ASSUME NEW d \in Drafts, NEW f \in Papers, EditDraft(d, f)
      PROVE  TypeOK'
  <2>1. draft[d] \in Draft /\ ExactMatch(f) \in Persons \cup {None}
    BY <1>4, ReviewedDraft, ExactMatchType DEF EditDraft
  <2>2. [draft[d] EXCEPT !.form = f, !.matched = ExactMatch(f)] \in Draft
    BY <2>1 DEF Draft
  <2>3. draft' = [draft EXCEPT ![d] = [draft[d] EXCEPT !.form = f, !.matched = ExactMatch(f)]]
    BY <1>4 DEF EditDraft
  <2> QED
    BY <1>4, <2>2, <2>3 DEF EditDraft, TypeOK
<1>5. ASSUME NEW d \in Drafts, RejectDraft(d)
      PROVE  TypeOK'
  BY <1>5, ReviewedDraft DEF RejectDraft, TypeOK, Draft
<1>6. ASSUME NEW d \in Drafts, NEW confirm, NEW forceNew, Commit(d, confirm, forceNew)
      PROVE  TypeOK'
  <2> DEFINE f == draft[d].form
  <2>1. draft[d] \in Draft /\ f \in Papers
    BY <1>6, ReviewedDraft DEF Commit, Draft
  <2>2. PICK who \in Persons :
          /\ known' = known \cup {who}
          /\ artifact' = [artifact EXCEPT ![d] = [person |-> who, form |-> f]]
          /\ record' = [record EXCEPT ![who] =
                          [u \in Purposes |-> Projected(d, f, record[who][u], u)]]
          /\ draft' = [draft EXCEPT ![d].status = "committed", ![d].matched = who]
    BY <1>6 DEF Commit
  <2>3. UNCHANGED <<today, mergedInto, withdrawals, folded, tasks>>
    BY <1>6 DEF Commit
  <2>4. draft' \in [Drafts -> Draft \cup {NoDraft}]
    BY <2>1, <2>2 DEF TypeOK, Draft
  <2>5. artifact' \in [Drafts -> Artifact \cup {NoArtifact}]
    BY <2>1, <2>2 DEF TypeOK, Artifact
  <2>6. record' \in [Persons -> [Purposes -> Record]]
    <3>1. [u \in Purposes |-> Projected(d, f, record[who][u], u)] \in [Purposes -> Record]
      BY <2>1, ProjectedType DEF TypeOK
    <3> QED
      BY <2>2, <3>1 DEF TypeOK
  <2> QED
    BY <2>2, <2>3, <2>4, <2>5, <2>6 DEF TypeOK
<1>7. ASSUME NEW p \in known, NEW asked \in SUBSET Purposes, Withdraw(p, asked)
      PROVE  TypeOK'
  <2> DEFINE who     == Resolve(p)
             stopped == {u \in asked : record[who][u].status = "active"}
             after   == [u \in Purposes |->
                           IF u \in stopped
                           THEN [record[who][u] EXCEPT !.status = "withdrawn",
                                                       !.withdrawnOn = today]
                           ELSE record[who][u]]
  <2>1. who \in Persons
    BY <1>7, ResolveIsLive DEF Withdraw, Live, TypeOK
  <2>2. after \in [Purposes -> Record]
    <3>1. ASSUME NEW u \in Purposes PROVE after[u] \in Record
      <4>1. record[who][u] \in Record /\ today \in DayOrNull
        BY <2>1 DEF TypeOK, DayOrNull
      <4> QED
        BY <4>1 DEF Record
    <3> QED
      BY <3>1
  <2>3. record' \in [Persons -> [Purposes -> Record]]
    BY <1>7, <2>1, <2>2 DEF Withdraw, TypeOK
  <2>4. withdrawals' \subseteq Withdrawal
    <3>1. \A u \in stopped : [person |-> who, purpose |-> u, on |-> today] \in Withdrawal
      BY <2>1 DEF TypeOK, Withdrawal
    <3>2. withdrawals' = withdrawals \cup {[person |-> who, purpose |-> u, on |-> today] : u \in stopped}
      BY <1>7 DEF Withdraw
    <3>3. withdrawals \subseteq Withdrawal
      BY DEF TypeOK
    <3> HIDE DEF stopped, who
    <3> QED
      BY <3>1, <3>2, <3>3
  <2>5. tasks' \subseteq Task
    BY <1>7, <2>1, RaisedType DEF Withdraw, TypeOK
  <2> QED
    BY <1>7, <2>3, <2>4, <2>5 DEF Withdraw, TypeOK
<1>8. ASSUME NEW a \in known, NEW s \in known, NEW early, Merge(a, s, early)
      PROVE  TypeOK'
  <2>1. a \in Persons /\ s \in Persons
    BY DEF TypeOK
  <2>2. [u \in Purposes |-> Reconciled(record[s][u], record[a][u], u \in early)]
          \in [Purposes -> Record]
    BY <2>1, ReconciledType DEF TypeOK
  <2>3. record' \in [Persons -> [Purposes -> Record]]
    BY <1>8, <2>1, <2>2 DEF Merge, TypeOK, NoRecord, Record, DayOrNull
  <2>4. folded' \in [Persons -> SUBSET Persons]
    BY <1>8, <2>1 DEF Merge, TypeOK
  <2> QED
    BY <1>8, <2>1, <2>3, <2>4 DEF Merge, TypeOK
<1>9. ASSUME NEW t \in tasks, CompleteTask(t) \/ HoldTask(t)
      PROVE  TypeOK'
  BY <1>9 DEF CompleteTask, HoldTask, TypeOK, Task, DayOrNull
<1>10. CASE UNCHANGED vars
  BY <1>10 DEF vars, TypeOK
<1> QED
  BY <1>1, <1>2, <1>3, <1>4, <1>5, <1>6, <1>7, <1>8, <1>9, <1>10 DEF Next

\* Every reachable state is well typed: the bounds of the calendar, the shape
\* of drafts, artifacts, records, withdrawals and tasks.
THEOREM TypeCorrect == Spec => []TypeOK
<1>1. Init => TypeOK
  BY RegisterAssumption, RulesAssumption
  DEF Init, TypeOK, Day, DayOrNull, NoRecord, Record
<1> QED
  BY <1>1, TypeStep, PTL DEF Spec

-----------------------------------------------------------------------------
(* The action property of withdrawals                                      *)

\* What WithdrawalStands asks of one step, for one person and purpose.
StandsOver(p, u, r) ==
  r.status = "withdrawn" /\ r.withdrawnOn <= record[p][u].withdrawnOn

StopKept(p, u) ==
  record[p][u].status = "withdrawn" =>
    \/ StandsOver(p, u, record'[p][u])
    \/ record'[p][u].givenOn > record[p][u].withdrawnOn
    \/ /\ record'[p][u] = NoRecord /\ mergedInto[p] # mergedInto'[p]
       /\ StandsOver(p, u, record'[mergedInto'[p]][u])

\* A step that leaves the records alone leaves the withdrawals alone.
LEMMA UntouchedStopKept ==
  ASSUME TypeOK, UNCHANGED record, NEW p \in Persons, NEW u \in Purposes
  PROVE  StopKept(p, u)
<1>1. record[p][u] \in Record
  BY DEF TypeOK
<1> QED
  BY <1>1 DEF StopKept, StandsOver, Record, DayOrNull, Day, NoDay

\* Only a later form replaces a withdrawn record.
LEMMA CommitKeepsStop ==
  ASSUME TypeOK, NEW d \in Drafts, NEW confirm, NEW forceNew,
         Commit(d, confirm, forceNew), NEW p \in Persons, NEW u \in Purposes
  PROVE  StopKept(p, u)
<1> USE RegisterAssumption, RulesAssumption
<1> DEFINE f == draft[d].form
<1>1. f \in Form
  BY ReviewedDraft DEF Commit, Draft
<1>2. PICK who \in Persons :
        record' = [record EXCEPT ![who] =
                     [v \in Purposes |-> Projected(d, f, record[who][v], v)]]
  BY DEF Commit
<1>3. record[p][u] \in Record
  BY DEF TypeOK
<1>4. record'[p][u] = IF p = who THEN Projected(d, f, record[p][u], u) ELSE record[p][u]
  BY <1>2 DEF TypeOK
<1>5. CASE record'[p][u] = record[p][u]
  BY <1>3, <1>5 DEF StopKept, StandsOver, Record, DayOrNull, Day, NoDay
<1>6. CASE record'[p][u] # record[p][u] /\ record[p][u].status = "withdrawn"
  <2>1. WinsOver(f, record[p][u]) /\ record'[p][u] = Answered(d, f, u)
    BY <1>4, <1>6 DEF Projected
  <2>2. record[p][u].withdrawnOn < f.collectedOn
    BY <2>1, <1>6 DEF WinsOver
  <2> QED
    BY <1>1, <1>3, <2>1, <2>2 DEF StopKept, Answered, Record, Form, DayOrNull, Day, NoDay
<1> QED
  BY <1>5, <1>6 DEF StopKept

\* A merge carries a withdrawal to the survivor, where it may be dated earlier.
LEMMA MergeKeepsStop ==
  ASSUME TypeOK, NEW a \in known, NEW s \in known, NEW early,
         Merge(a, s, early), NEW p \in Persons, NEW u \in Purposes
  PROVE  StopKept(p, u)
<1> DEFINE kept == Reconciled(record[s][u], record[a][u], u \in early)
<1>1. a \in Persons /\ s \in Persons /\ a # s
  BY DEF TypeOK, Merge
<1>2. /\ record[p][u] \in Record /\ record[a][u] \in Record /\ record[s][u] \in Record
  BY <1>1 DEF TypeOK
<1>3. /\ record'[a][u] = NoRecord
      /\ record'[s][u] = kept
      /\ p \notin {a, s} => record'[p][u] = record[p][u]
  BY <1>1 DEF Merge, TypeOK
<1>4. ASSUME NEW r \in {record[a][u], record[s][u]}, r.status = "withdrawn"
      PROVE  kept.status = "withdrawn" /\ kept.withdrawnOn <= r.withdrawnOn
  BY <1>2, <1>4 DEF Reconciled, AbsorbedWins, Record, DayOrNull, Day, NoDay
<1>5. CASE p = a
  <2>1. mergedInto[a] = None /\ mergedInto'[a] = s /\ s # None
    BY <1>1, RegisterAssumption, RulesAssumption DEF Merge, TypeOK
  <2> QED
    BY <1>3, <1>4, <1>5, <2>1 DEF StopKept, StandsOver
<1>6. CASE p = s
  BY <1>3, <1>4, <1>6 DEF StopKept, StandsOver
<1>7. CASE p \notin {a, s}
  BY <1>2, <1>3, <1>7 DEF StopKept, StandsOver, Record, DayOrNull, Day, NoDay
<1> QED
  BY <1>5, <1>6, <1>7

\* A second withdrawal leaves the first one as it is.
LEMMA WithdrawKeepsStop ==
  ASSUME TypeOK, NEW q, NEW asked \in SUBSET Purposes, Withdraw(q, asked),
         NEW p \in Persons, NEW u \in Purposes
  PROVE  StopKept(p, u)
<1>1. Resolve(q) \in Persons
  BY ResolveIsLive DEF Withdraw, Live, TypeOK
<1>2. record[p][u].status = "withdrawn" => record'[p][u] = record[p][u]
  BY <1>1 DEF Withdraw, TypeOK
<1>3. record[p][u] \in Record
  BY DEF TypeOK
<1> QED
  BY <1>2, <1>3 DEF StopKept, StandsOver, Record, DayOrNull, Day, NoDay

\* A withdrawal ends only in a form signed on a later day, or moves to the
\* survivor of a merge: commitDraft, withdrawPurposes and mergePrincipals,
\* for any number of people and forms.
THEOREM WithdrawalsStand == Spec => WithdrawalStands
<1>1. ASSUME TypeOK, [Next]_vars, NEW p \in Persons, NEW u \in Purposes
      PROVE  StopKept(p, u)
  <2>1. ASSUME NextDay \/ UNCHANGED vars
        PROVE  StopKept(p, u)
    BY <1>1, <2>1, UntouchedStopKept DEF NextDay, vars
  <2>2. ASSUME NEW d \in Drafts, NEW f \in Papers,
               CreateDraft(d, f) \/ ImportDraft(d, f) \/ EditDraft(d, f)
        PROVE  StopKept(p, u)
    BY <1>1, <2>2, UntouchedStopKept DEF CreateDraft, ImportDraft, EditDraft
  <2>3. ASSUME NEW d \in Drafts, RejectDraft(d)
        PROVE  StopKept(p, u)
    BY <1>1, <2>3, UntouchedStopKept DEF RejectDraft
  <2>4. ASSUME NEW t \in tasks, CompleteTask(t) \/ HoldTask(t)
        PROVE  StopKept(p, u)
    BY <1>1, <2>4, UntouchedStopKept DEF CompleteTask, HoldTask
  <2> QED
    BY <1>1, <2>1, <2>2, <2>3, <2>4, CommitKeepsStop, MergeKeepsStop,
       WithdrawKeepsStop DEF Next
<1>2. TypeOK /\ [Next]_vars =>
        [\A p \in Persons, u \in Purposes :
           LET was == record[p][u]
               now == record'[p][u]
               Stands(r) == r.status = "withdrawn" /\ r.withdrawnOn <= was.withdrawnOn
           IN  was.status = "withdrawn" =>
                 \/ Stands(now)
                 \/ now.givenOn > was.withdrawnOn
                 \/ /\ now = NoRecord /\ mergedInto[p] # mergedInto'[p]
                    /\ Stands(record'[mergedInto'[p]][u])]_vars
  BY <1>1 DEF StopKept, StandsOver
<1> QED
  BY <1>2, TypeCorrect, PTL DEF Spec, WithdrawalStands

-----------------------------------------------------------------------------
(* Paper, dates and drafts                                                *)

\* What a commit does, with the person it files the form under named.
CommittedFor(d, who) ==
  /\ who \in Persons
  /\ draft[d] \in Draft /\ draft[d].status = "needs_review"
  /\ draft[d].form.collectedOn <= today
  /\ Live(who) \/ who \notin known
  /\ ~ AlreadyRecorded(who, draft[d].form)
  /\ known' = known \cup {who}
  /\ artifact' = [artifact EXCEPT ![d] = [person |-> who, form |-> draft[d].form]]
  /\ record' = [record EXCEPT ![who] =
                  [u \in Purposes |-> Projected(d, draft[d].form, record[who][u], u)]]
  /\ draft' = [draft EXCEPT ![d].status = "committed", ![d].matched = who]
  /\ UNCHANGED <<today, mergedInto, withdrawals, folded, tasks>>

\* A commit that goes through has found, confirmed or made a person.
LEMMA CommitNames ==
  ASSUME TypeOK, NEW d \in Drafts, NEW confirm, NEW forceNew, Commit(d, confirm, forceNew)
  PROVE  \E who \in Persons : CommittedFor(d, who)
<1> DEFINE chosen == IF confirm # None THEN confirm ELSE draft[d].matched
<1>1. draft[d] \in Draft /\ draft[d].status = "needs_review"
  BY ReviewedDraft DEF Commit
<1>2. PICK who \in Persons :
        /\ FiledUnder(chosen, draft[d].form, forceNew, who)
        /\ ~ AlreadyRecorded(who, draft[d].form)
        /\ known' = known \cup {who}
        /\ artifact' = [artifact EXCEPT ![d] = [person |-> who, form |-> draft[d].form]]
        /\ record' = [record EXCEPT ![who] =
                        [u \in Purposes |-> Projected(d, draft[d].form, record[who][u], u)]]
        /\ draft' = [draft EXCEPT ![d].status = "committed", ![d].matched = who]
  BY DEF Commit
<1>3. Live(who) \/ who \notin known
  BY <1>2, FiledUnderLiveOrNew, RulesAssumption
<1>4. CommittedFor(d, who)
  BY <1>1, <1>2, <1>3 DEF CommittedFor, Commit
<1> QED
  BY <1>4

\* What a withdrawal does to one record of the person it resolves to.
LEMMA WithdrawRecords ==
  ASSUME TypeOK, NEW q, NEW asked \in SUBSET Purposes, Withdraw(q, asked)
  PROVE  /\ Resolve(q) \in Persons /\ Live(Resolve(q))
         /\ \A p \in Persons, u \in Purposes :
              record'[p][u] =
                IF p = Resolve(q) /\ u \in asked /\ record[p][u].status = "active"
                THEN [record[p][u] EXCEPT !.status = "withdrawn", !.withdrawnOn = today]
                ELSE record[p][u]
<1>1. Resolve(q) \in Persons /\ Live(Resolve(q))
  BY ResolveIsLive DEF Withdraw, Live, TypeOK
<1> QED
  BY <1>1 DEF Withdraw, TypeOK

\* What a merge does to the records.
LEMMA MergeRecords ==
  ASSUME TypeOK, NEW a \in known, NEW s \in known, NEW early, Merge(a, s, early)
  PROVE  /\ a \in Persons /\ s \in Persons /\ a # s
         /\ mergedInto[a] = None
         /\ mergedInto' = [mergedInto EXCEPT ![a] = s]
         /\ folded' = [folded EXCEPT ![a] = {}, ![s] = folded[s] \cup folded[a]]
         /\ UNCHANGED <<today, known, draft, artifact, withdrawals, tasks>>
         /\ \A u \in Purposes :
              /\ record'[a][u] = NoRecord
              /\ record'[s][u] = Reconciled(record[s][u], record[a][u], u \in early)
              /\ record'[s][u] \in {record[s][u], record[a][u]}
         /\ \A p \in Persons \ {a, s} : record'[p] = record[p]
BY DEF Merge, TypeOK, Reconciled

\* The record of a person and purpose after a commit.
LEMMA CommitRecords ==
  ASSUME TypeOK, NEW d \in Drafts, NEW who, CommittedFor(d, who),
         NEW p \in Persons, NEW u \in Purposes
  PROVE  record'[p][u] = IF p = who /\ u \in Asked(draft[d].form)
                                    /\ WinsOver(draft[d].form, record[p][u])
                         THEN Answered(d, draft[d].form, u) ELSE record[p][u]
BY DEF CommittedFor, TypeOK, Projected

\* The steps that touch neither records, nor artifacts, nor the audit log.
Quiet ==
  /\ UNCHANGED <<known, mergedInto, artifact, record, withdrawals, folded>>
  /\ \/ today' = today + 1 /\ UNCHANGED <<draft, tasks>>
     \/ UNCHANGED <<today, tasks>>
     \/ UNCHANGED <<today, draft>>

\* A step is a commit, a withdrawal, a merge, or quiet.
LEMMA StepCases ==
  ASSUME TypeOK, [Next]_vars
  PROVE  \/ \E d \in Drafts, who \in Persons : CommittedFor(d, who)
         \/ \E q \in known, asked \in SUBSET Purposes : Withdraw(q, asked)
         \/ \E a, s \in known, early \in SUBSET Purposes : Merge(a, s, early)
         \/ Quiet
<1>1. CASE NextDay \/ UNCHANGED vars
  BY <1>1 DEF NextDay, vars, Quiet
<1>2. ASSUME NEW d \in Drafts, NEW f \in Papers,
             CreateDraft(d, f) \/ ImportDraft(d, f) \/ EditDraft(d, f)
      PROVE  Quiet
  BY <1>2 DEF CreateDraft, ImportDraft, EditDraft, Quiet
<1>3. ASSUME NEW d \in Drafts, RejectDraft(d)
      PROVE  Quiet
  BY <1>3 DEF RejectDraft, Quiet
<1>4. ASSUME NEW t \in tasks, CompleteTask(t) \/ HoldTask(t)
      PROVE  Quiet
  BY <1>4 DEF CompleteTask, HoldTask, Quiet
<1>5. ASSUME NEW d \in Drafts, NEW confirm \in known \cup {None}, NEW forceNew \in BOOLEAN,
             Commit(d, confirm, forceNew)
      PROVE  \E who \in Persons : CommittedFor(d, who)
  BY <1>5, CommitNames
<1> QED
  BY <1>1, <1>2, <1>3, <1>4, <1>5 DEF Next

-----------------------------------------------------------------------------
(* Dates                                                                   *)

\* What StoppedAfterSigned says of one record, on day t.
Dated(r, t) ==
  /\ r.givenOn <= t /\ r.withdrawnOn <= t
  /\ (r.status = "withdrawn") <=> (r.withdrawnOn # NoDay)
  /\ r.status = "withdrawn" => r.givenOn <= r.withdrawnOn

\* The property on dates, record by record.
LEMMA DatedRecords ==
  StoppedAfterSigned <=> \A p \in Persons, u \in Purposes : Dated(record[p][u], today)
BY DEF StoppedAfterSigned, Dated

\* Paper that is filed keeps a record dated.
LEMMA DatedPaper ==
  ASSUME NEW t \in Day, NEW d, NEW u, NEW f \in Form, f.collectedOn <= t
  PROVE  Dated(Answered(d, f, u), t)
BY RulesAssumption DEF Dated, Answered, Form, DayOrNull, Day, NoDay

\* So do the days that pass, a merge and a withdrawal.
LEMMA DatedKept ==
  ASSUME NEW t \in Day, NEW r \in Record, Dated(r, t)
  PROVE  /\ Dated(r, t + 1) /\ Dated(NoRecord, t)
         /\ Dated([r EXCEPT !.status = "withdrawn", !.withdrawnOn = t], t)
BY RulesAssumption DEF Dated, NoRecord, Record, DayOrNull, Day, NoDay

\* No step dates a stop before its signature or after today.
LEMMA DatesStep == TypeOK /\ StoppedAfterSigned /\ [Next]_vars => StoppedAfterSigned'
<1> SUFFICES ASSUME TypeOK, StoppedAfterSigned, [Next]_vars
             PROVE  \A p \in Persons, u \in Purposes : Dated(record'[p][u], today')
  BY DEF StoppedAfterSigned, Dated
<1> SUFFICES ASSUME NEW p \in Persons, NEW u \in Purposes
             PROVE  Dated(record'[p][u], today')
  OBVIOUS
<1>1. /\ today \in Day
      /\ \A q \in Persons : record[q][u] \in Record /\ Dated(record[q][u], today)
  BY DatedRecords DEF TypeOK
<1>2. CASE \E d \in Drafts, who \in Persons : CommittedFor(d, who)
  <2>1. PICK d \in Drafts, who \in Persons : CommittedFor(d, who)
    BY <1>2
  <2>2. /\ draft[d].form.collectedOn <= today /\ draft[d].form \in Form
        /\ today' = today
    BY <2>1, RegisterAssumption DEF CommittedFor, Draft
  <2>3. \/ record'[p][u] = record[p][u]
        \/ record'[p][u] = Answered(d, draft[d].form, u)
    BY <2>1, CommitRecords
  <2> QED
    BY <1>1, <2>2, <2>3, DatedPaper
<1>3. CASE \E q \in known, asked \in SUBSET Purposes : Withdraw(q, asked)
  <2>1. PICK q \in known, asked \in SUBSET Purposes : Withdraw(q, asked)
    BY <1>3
  <2>2. today' = today
    BY <2>1 DEF Withdraw
  <2>3. \/ record'[p][u] = record[p][u]
        \/ record'[p][u] = [record[p][u] EXCEPT !.status = "withdrawn", !.withdrawnOn = today]
    BY <2>1, WithdrawRecords
  <2> QED
    BY <1>1, <2>2, <2>3, DatedKept
<1>4. CASE \E a, s \in known, early \in SUBSET Purposes : Merge(a, s, early)
  <2>1. PICK a \in known, s \in known, early \in SUBSET Purposes : Merge(a, s, early)
    BY <1>4
  <2>2. /\ a \in Persons /\ today' = today
        /\ record'[p][u] \in {record[p][u], record[a][u], NoRecord}
    BY <2>1, MergeRecords
  <2> QED
    BY <1>1, <2>2, DatedKept
<1>5. CASE Quiet
  BY <1>1, <1>5, DatedKept DEF Quiet
<1> QED
  BY <1>2, <1>3, <1>4, <1>5, StepCases

\* A withdrawn record, and no other, has a withdrawal date, which is not before
\* the signature and not in the future: commitDraft resets it, withdrawPurposes
\* sets it, mergePrincipals copies it together with the date of the paper.
THEOREM DatesHold == Spec => []StoppedAfterSigned
<1>1. Init => StoppedAfterSigned
  BY DEF Init, StoppedAfterSigned, NoRecord, NoDay
<1> QED
  BY <1>1, DatesStep, TypeCorrect, PTL DEF Spec

-----------------------------------------------------------------------------
(* Paper                                                                   *)

\* A committed draft and its artifact never part.
LEMMA DraftsStep == TypeOK /\ DraftIsItsArtifact /\ [Next]_vars => DraftIsItsArtifact'
<1> SUFFICES ASSUME TypeOK, DraftIsItsArtifact, [Next]_vars PROVE DraftIsItsArtifact'
  OBVIOUS
<1>1. CASE NextDay \/ UNCHANGED vars
  BY <1>1 DEF NextDay, vars, DraftIsItsArtifact
<1>2. ASSUME NEW d \in Drafts, NEW f \in Papers,
             CreateDraft(d, f) \/ ImportDraft(d, f) \/ EditDraft(d, f)
      PROVE  DraftIsItsArtifact'
  <2>1. /\ draft[d].status # "committed" /\ draft'[d].status # "committed"
        /\ artifact' = artifact
        /\ \A e \in Drafts \ {d} : draft'[e] = draft[e]
    <3>1. CASE CreateDraft(d, f) \/ ImportDraft(d, f)
      BY <3>1 DEF CreateDraft, ImportDraft, TypeOK
    <3>2. CASE EditDraft(d, f)
      BY <3>2, ReviewedDraft DEF EditDraft, TypeOK, Draft
    <3> QED
      BY <1>2, <3>1, <3>2
  <2> QED
    BY <2>1 DEF DraftIsItsArtifact
<1>3. ASSUME NEW d \in Drafts, RejectDraft(d)
      PROVE  DraftIsItsArtifact'
  <2>1. /\ draft[d].status # "committed" /\ draft'[d].status # "committed"
        /\ artifact' = artifact
        /\ \A e \in Drafts \ {d} : draft'[e] = draft[e]
    BY <1>3, ReviewedDraft DEF RejectDraft, TypeOK, Draft
  <2> QED
    BY <2>1 DEF DraftIsItsArtifact
<1>4. ASSUME NEW d \in Drafts, NEW confirm \in known \cup {None}, NEW forceNew \in BOOLEAN,
             Commit(d, confirm, forceNew)
      PROVE  DraftIsItsArtifact'
  <2>1. PICK who \in Persons : CommittedFor(d, who)
    BY <1>4, CommitNames
  <2>2. /\ draft'[d].form = draft[d].form /\ draft'[d].matched = who
        /\ artifact'[d] = [person |-> who, form |-> draft[d].form]
        /\ \A e \in Drafts \ {d} : draft'[e] = draft[e] /\ artifact'[e] = artifact[e]
    BY <2>1 DEF CommittedFor, TypeOK, Draft
  <2>3. draft'[d].status = "committed"
    BY <2>1 DEF CommittedFor, TypeOK, Draft
  <2> QED
    BY <2>2, <2>3 DEF DraftIsItsArtifact
<1>5. ASSUME NEW q \in known, NEW asked \in SUBSET Purposes, Withdraw(q, asked)
      PROVE  DraftIsItsArtifact'
  BY <1>5 DEF Withdraw, DraftIsItsArtifact
<1>6. ASSUME NEW a \in known, NEW s \in known, NEW early \in SUBSET Purposes, Merge(a, s, early)
      PROVE  DraftIsItsArtifact'
  BY <1>6 DEF Merge, DraftIsItsArtifact
<1>7. ASSUME NEW t \in tasks, CompleteTask(t) \/ HoldTask(t)
      PROVE  DraftIsItsArtifact'
  BY <1>7 DEF CompleteTask, HoldTask, DraftIsItsArtifact
<1> QED
  BY <1>1, <1>2, <1>3, <1>4, <1>5, <1>6, <1>7 DEF Next

\* A draft is committed once and says for ever what its artifact says: the
\* status guards of the draft routes and of commitDraft's first and last
\* statements.
THEOREM DraftsHold == Spec => []DraftIsItsArtifact
<1>1. Init => DraftIsItsArtifact
  BY DEF Init, DraftIsItsArtifact, NoDraft
<1> QED
  BY <1>1, DraftsStep, TypeCorrect, PTL DEF Spec

\* An identity that has not been merged is folded into its own row and into no
\* other; one that is not known has not been merged.
FoldedRight ==
  /\ \A p \in Persons : mergedInto[p] = None => p \in folded[p]
  /\ \A p, q \in Persons : mergedInto[p] = None /\ p \in folded[q] => p = q
  /\ \A p \in Persons \ known : mergedInto[p] = None

\* Where a row was folded follows the merges, step by step.
LEMMA FoldedStep == TypeOK /\ FoldedRight /\ [Next]_vars => FoldedRight'
<1> SUFFICES ASSUME TypeOK, FoldedRight, [Next]_vars PROVE FoldedRight'
  OBVIOUS
<1>1. CASE \E d \in Drafts, who \in Persons : CommittedFor(d, who)
  BY <1>1 DEF CommittedFor, FoldedRight
<1>2. CASE \E q \in known, asked \in SUBSET Purposes : Withdraw(q, asked)
  BY <1>2 DEF Withdraw, FoldedRight
<1>3. CASE \E a, s \in known, early \in SUBSET Purposes : Merge(a, s, early)
  <2>1. PICK a \in known, s \in known, early \in SUBSET Purposes : Merge(a, s, early)
    BY <1>3
  <2>2. /\ a \in Persons /\ s \in Persons /\ a # s /\ mergedInto[a] = None
        /\ mergedInto' = [mergedInto EXCEPT ![a] = s]
        /\ folded' = [folded EXCEPT ![a] = {}, ![s] = folded[s] \cup folded[a]]
        /\ known' = known
    BY <2>1, MergeRecords
  <2>3. s # None
    BY <2>2, RulesAssumption
  <2>4. /\ folded'[a] = {} /\ folded'[s] = folded[s] \cup folded[a]
        /\ \A q \in Persons \ {a, s} : folded'[q] = folded[q]
        /\ mergedInto'[a] = s
        /\ \A q \in Persons \ {a} : mergedInto'[q] = mergedInto[q]
    BY <2>2 DEF TypeOK
  <2>5. ASSUME NEW p \in Persons, mergedInto'[p] = None
        PROVE  p # a /\ mergedInto[p] = None /\ p \in folded'[p]
    BY <2>3, <2>4, <2>5 DEF FoldedRight
  <2>6. ASSUME NEW p \in Persons, NEW q \in Persons, mergedInto'[p] = None, p \in folded'[q]
        PROVE  p = q
    <3>1. p # a /\ mergedInto[p] = None
      BY <2>5, <2>6
    <3>2. p \in folded[q] \/ (q = s /\ p \in folded[a])
      BY <2>4, <2>6
    <3> QED
      BY <2>2, <3>1, <3>2 DEF FoldedRight
  <2>7. \A p \in Persons \ known' : mergedInto'[p] = None
    BY <2>2, <2>4 DEF FoldedRight
  <2> QED
    BY <2>5, <2>6, <2>7 DEF FoldedRight
<1>4. CASE Quiet
  BY <1>4 DEF Quiet, FoldedRight
<1> QED
  BY <1>1, <1>2, <1>3, <1>4, StepCases

\* A person row is always folded onto the row its records went to.
LEMMA FoldedHolds == Spec => []FoldedRight
<1>1. Init => FoldedRight
  BY DEF Init, FoldedRight
<1> QED
  BY <1>1, FoldedStep, TypeCorrect, PTL DEF Spec

\* The paper behind record r of row p, for purpose u.
Explained(p, u, r) ==
  r.status # "none" =>
    /\ r.source \in Drafts
    /\ artifact[r.source].person \in folded[p]
    /\ u \in (IF r.status = "declined" THEN artifact[r.source].form.declined
                                       ELSE artifact[r.source].form.granted)
    /\ r.givenOn = artifact[r.source].form.collectedOn

\* The property on papers, record by record.
LEMMA ExplainedRecords ==
  RecordsExplained <=> \A p \in Persons, u \in Purposes : Explained(p, u, record[p][u])
BY DEF RecordsExplained, Explained

\* Every step leaves behind each record a paper or the act that stopped it.
LEMMA ExplainedStep ==
  TypeOK /\ DraftIsItsArtifact /\ FoldedRight /\ RecordsExplained /\ [Next]_vars
    => RecordsExplained'
<1> SUFFICES ASSUME TypeOK, DraftIsItsArtifact, FoldedRight, RecordsExplained, [Next]_vars,
                    NEW p \in Persons, NEW u \in Purposes
             PROVE  Explained(p, u, record[p][u])'
  BY DEF RecordsExplained, Explained
<1>1. \A q \in Persons : Explained(q, u, record[q][u])
  BY ExplainedRecords
<1>2. CASE \E d \in Drafts, who \in Persons : CommittedFor(d, who)
  <2>1. PICK d \in Drafts, who \in Persons : CommittedFor(d, who)
    BY <1>2
  <2> DEFINE f == draft[d].form
  <2>2. artifact[d].person \notin Persons
    <3>1. draft[d].status = "needs_review"
      BY <2>1 DEF CommittedFor
    <3>2. artifact[d] = NoArtifact
      BY <3>1 DEF DraftIsItsArtifact
    <3> QED
      BY <3>2, RulesAssumption DEF NoArtifact
  <2>3. /\ artifact'[d] = [person |-> who, form |-> f]
        /\ \A e \in Drafts \ {d} : artifact'[e] = artifact[e]
        /\ folded' = folded /\ folded[p] \subseteq Persons
    BY <2>1 DEF CommittedFor, TypeOK
  <2>4. Explained(p, u, record[p][u])'
    <3>1. CASE record'[p][u] = record[p][u]
      BY <1>1, <2>2, <2>3, <3>1 DEF Explained
    <3>2. CASE record'[p][u] # record[p][u]
      <4>1. /\ p = who /\ u \in Asked(f)
            /\ record'[p][u] = Answered(d, f, u)
        BY <2>1, <3>2, CommitRecords
      <4>2. who \in folded[who]
        BY <2>1 DEF CommittedFor, Live, FoldedRight
      <4> QED
        BY <2>3, <4>1, <4>2 DEF Explained, Answered, Asked
    <3> QED
      BY <3>1, <3>2
  <2> QED
    BY <2>4
<1>3. CASE \E q \in known, asked \in SUBSET Purposes : Withdraw(q, asked)
  <2>1. PICK q \in known, asked \in SUBSET Purposes : Withdraw(q, asked)
    BY <1>3
  <2>2. artifact' = artifact /\ folded' = folded
    BY <2>1 DEF Withdraw
  <2>3. record[p][u] \in Record
    BY DEF TypeOK
  <2>4. \/ record'[p][u] = record[p][u]
        \/ /\ record[p][u].status = "active"
           /\ record'[p][u] = [record[p][u] EXCEPT !.status = "withdrawn",
                                                   !.withdrawnOn = today]
    BY <2>1, WithdrawRecords
  <2>5. /\ record'[p][u].source = record[p][u].source
        /\ record'[p][u].givenOn = record[p][u].givenOn
        /\ \/ record'[p][u].status = record[p][u].status
           \/ record[p][u].status = "active" /\ record'[p][u].status = "withdrawn"
    BY <2>3, <2>4 DEF Record
  <2> QED
    BY <1>1, <2>2, <2>5 DEF Explained
<1>4. CASE \E a, s \in known, early \in SUBSET Purposes : Merge(a, s, early)
  <2>1. PICK a \in known, s \in known, early \in SUBSET Purposes : Merge(a, s, early)
    BY <1>4
  <2>2. /\ a \in Persons /\ s \in Persons /\ a # s
        /\ artifact' = artifact
        /\ folded'[s] = folded[s] \cup folded[a]
        /\ \A q \in Persons \ {a, s} : folded'[q] = folded[q]
    BY <2>1, MergeRecords DEF TypeOK
  <2>3. /\ record'[a][u] = NoRecord
        /\ record'[s][u] \in {record[s][u], record[a][u]}
        /\ p \notin {a, s} => record'[p][u] = record[p][u]
    BY <2>1, MergeRecords
  <2> QED
    BY <1>1, <2>2, <2>3 DEF Explained, NoRecord
<1>5. CASE Quiet
  BY <1>1, <1>5 DEF Quiet, Explained
<1> QED
  BY <1>2, <1>3, <1>4, <1>5, StepCases

\* Every record can be produced on paper: a form of somebody folded into its
\* row, that gave this answer on this date, through every commit, withdrawal
\* and chain of merges.
THEOREM PaperBehindRecords == Spec => []RecordsExplained
<1>1. Init => RecordsExplained
  BY DEF Init, RecordsExplained, NoRecord
<1> QED
  BY <1>1, ExplainedStep, TypeCorrect, DraftsHold, FoldedHolds, PTL DEF Spec

\* No step files the same form a second time for a person.
LEMMA OneArtifactStep == TypeOK /\ OneArtifactPerForm /\ [Next]_vars => OneArtifactPerForm'
<1> SUFFICES ASSUME TypeOK, OneArtifactPerForm, [Next]_vars PROVE OneArtifactPerForm'
  OBVIOUS
<1>1. CASE \E d \in Drafts, who \in Persons : CommittedFor(d, who)
  <2>1. PICK d \in Drafts, who \in Persons : CommittedFor(d, who)
    BY <1>1
  <2>2. \A e \in Drafts : artifact[e] # [person |-> who, form |-> draft[d].form]
    BY <2>1 DEF CommittedFor, AlreadyRecorded
  <2>3. /\ artifact'[d] = [person |-> who, form |-> draft[d].form]
        /\ \A e \in Drafts \ {d} : artifact'[e] = artifact[e]
    BY <2>1 DEF CommittedFor, TypeOK
  <2> QED
    BY <2>2, <2>3 DEF OneArtifactPerForm
<1>2. CASE artifact' = artifact
  BY <1>2 DEF OneArtifactPerForm
<1> QED
  BY <1>1, <1>2, StepCases DEF Withdraw, Merge, Quiet

\* The same form is on file once under one row, commits running one at a time.
THEOREM OneArtifactHolds == Spec => []OneArtifactPerForm
<1>1. Init => OneArtifactPerForm
  BY DEF Init, OneArtifactPerForm
<1> QED
  BY <1>1, OneArtifactStep, TypeCorrect, PTL DEF Spec

-----------------------------------------------------------------------------
(* Every merged row leads to a living one                                  *)

\* Only rows on file are merged, and into rows on file, so a chain of merges
\* never leaves the register; and no merge closes a cycle.
MergesSound ==
  /\ \A p \in Persons :
       mergedInto[p] # None => p \in known /\ mergedInto[p] \in known
  /\ Acyclic(mergedInto, Persons)

\* No merge closes a cycle: its survivor resolves past the absorbed row.
LEMMA MergesSoundStep == TypeOK /\ MergesSound /\ [Next]_vars => MergesSound'
<1> SUFFICES ASSUME TypeOK, MergesSound, [Next]_vars PROVE MergesSound'
  OBVIOUS
<1>1. CASE \E d \in Drafts, who \in Persons : CommittedFor(d, who)
  BY <1>1 DEF CommittedFor, MergesSound, Acyclic
<1>2. CASE \E q \in known, asked \in SUBSET Purposes : Withdraw(q, asked)
  BY <1>2 DEF Withdraw, MergesSound, Acyclic
<1>3. CASE Quiet
  BY <1>3 DEF Quiet, MergesSound, Acyclic
<1>4. ASSUME NEW a \in known, NEW s \in known, NEW early, Merge(a, s, early)
      PROVE  MergesSound'
  <2>1. /\ a \in Persons /\ s \in Persons /\ a # s
        /\ mergedInto[a] = None
        /\ mergedInto' = [mergedInto EXCEPT ![a] = s]
        /\ known' = known
    BY <1>4, MergeRecords
  <2>2. mergedInto \in [Persons -> Persons \cup {None}]
    BY DEF TypeOK
  <2>3. /\ mergedInto'[a] = s
        /\ \A p \in Persons : p # a => mergedInto'[p] = mergedInto[p]
    BY <2>1, <2>2
  <2>4. \A p \in Persons :
          mergedInto'[p] # None => p \in known' /\ mergedInto'[p] \in known'
    BY <2>1, <2>3 DEF MergesSound
  <2>5. ASSUME NEW S \in SUBSET Persons, S # {}, \A q \in S : mergedInto'[q] \in S
        PROVE  FALSE
    <3>1. a \in S
      BY <2>3, <2>5 DEF MergesSound, Acyclic
    <3>2. s \in S /\ \A q \in S : mergedInto[q] \in S \cup {None}
      BY <2>1, <2>3, <2>5, <3>1
    <3>3. Chain(s) \subseteq S
      BY <3>2, ChainStays, RegisterAssumption DEF Chain
    <3>4. /\ Resolve(s) \in Chain(s) /\ Resolve(s) # a
          /\ Resolve(s) \in known /\ mergedInto[Resolve(s)] = None
      BY <1>4, ResolveIsLive, ResolveReaches DEF Merge, Live
    <3>5. mergedInto'[Resolve(s)] = None /\ Resolve(s) \in S
      BY <2>3, <3>3, <3>4 DEF TypeOK
    <3>6. None \in S
      BY <2>5, <3>5
    <3> QED
      BY <3>6, RulesAssumption
  <2> QED
    BY <2>4, <2>5 DEF MergesSound, Acyclic
<1> QED
  BY <1>1, <1>2, <1>3, <1>4, StepCases

\* However many merges there were and in whatever order, no row is merged into
\* itself through others: mergePrincipals' check that the survivor does not
\* resolve to the absorbed row is enough, though it looks at one row only.
THEOREM NoMergeCycle == Spec => []MergesSound
<1>1. Init => MergesSound
  BY RulesAssumption DEF Init, MergesSound, Acyclic
<1> QED
  BY <1>1, TypeCorrect, MergesSoundStep, PTL DEF Spec

\* The rows merged into another.
MergedRows == {p \in Persons : mergedInto[p] # None}

\* A step merges at most one row more.
LEMMA MergedRowsFinite == TypeOK /\ IsFiniteSet(MergedRows) /\ [Next]_vars => IsFiniteSet(MergedRows)'
<1> SUFFICES ASSUME TypeOK, IsFiniteSet(MergedRows), [Next]_vars
             PROVE  IsFiniteSet(MergedRows')
  OBVIOUS
<1>1. CASE UNCHANGED mergedInto
  BY <1>1 DEF MergedRows
<1>2. ASSUME NEW a \in known, NEW s \in known, NEW early, Merge(a, s, early)
      PROVE  IsFiniteSet(MergedRows')
  <2>1. MergedRows' \subseteq MergedRows \cup {a}
    BY <1>2, MergeRecords DEF MergedRows, TypeOK
  <2> QED
    BY <2>1, FS_AddElement, FS_Subset
<1> QED
  BY <1>1, <1>2, StepCases DEF CommittedFor, Withdraw, Quiet

\* Where there were no more merges than the depth a chain is followed to, the
\* chain of every identity ends in a row that is not merged.
LEMMA ShallowChainsEnd ==
  ASSUME TypeOK, MergesSound, IsFiniteSet(MergedRows),
         Cardinality(MergedRows) <= MaxMergeDepth
  PROVE  EveryoneResolves
<1> SUFFICES ASSUME NEW p \in known PROVE Resolve(p) # None
  BY DEF EveryoneResolves
<1>1. p \in Persons /\ mergedInto \in [Persons -> Persons \cup {None}]
  BY DEF TypeOK
<1>2. PICK q \in Chain(p) : q \in Persons /\ mergedInto[q] = None
  BY <1>1, ChainEnds, RegisterAssumption DEF MergedRows, MergesSound, Chain
<1>3. \A r \in known : mergedInto[r] \in known \cup {None}
  BY DEF MergesSound, TypeOK
<1>4. q \in known
  BY <1>2, <1>3, ChainStays, RegisterAssumption DEF Chain
<1>5. \A r \in known : r # None
  BY RulesAssumption DEF TypeOK
<1> QED
  BY <1>2, <1>4, <1>5 DEF Resolve

\* Nobody signs in to nothing while there were at most MaxMergeDepth merges:
\* resolvePrincipalId's limit is the only thing that can leave an identity
\* without a surviving row.
THEOREM EveryoneResolvesWhileShallow ==
  Spec => [](Cardinality(MergedRows) <= MaxMergeDepth => EveryoneResolves)
<1>1. Init => IsFiniteSet(MergedRows)
  <2>1. Init => MergedRows = {}
    BY DEF Init, MergedRows
  <2> QED
    BY <2>1, FS_EmptySet
<1>2. TypeOK /\ MergesSound /\ IsFiniteSet(MergedRows) =>
        (Cardinality(MergedRows) <= MaxMergeDepth => EveryoneResolves)
  BY ShallowChainsEnd
<1> QED
  BY <1>1, <1>2, TypeCorrect, NoMergeCycle, MergedRowsFinite, PTL DEF Spec

-----------------------------------------------------------------------------
(* What becomes of a withdrawal: the consents it ends, and the systems      *)
(* that are told.                                                          *)

\* What record r of a row says of the withdrawals w made by anybody folded into
\* it: a withdrawn record is no earlier than one of them, any other was signed
\* after one of them if there are any, and where there is no record there were
\* none.
Follows(r, stops) ==
  /\ r.status = "none" => stops = {}
  /\ r.status = "withdrawn" => \E w \in stops : w.on <= r.withdrawnOn
  /\ r.status \in {"active", "declined"} /\ stops # {} =>
       \E w \in stops : w.on < r.givenOn

\* The inductive invariant behind FirstStopHolds.
RecordsFollowStops ==
  \A p \in Persons, u \in Purposes : Follows(record[p][u], StopsOf(p, u))

\* What is shown inductively gives the property.
LEMMA FollowsImplies == RecordsFollowStops => FirstStopHolds
BY DEF RecordsFollowStops, Follows, FirstStopHolds

\* A form that wins over a record follows the withdrawals the record follows.
LEMMA WinnerFollows ==
  ASSUME NEW r \in Record, NEW f \in Form, NEW d, NEW u, NEW stops \in SUBSET Withdrawal,
         Follows(r, stops), WinsOver(f, r)
  PROVE  Follows(Answered(d, f, u), stops)
<1> USE RulesAssumption DEF Record, Form, DayOrNull, Day, NoDay
<1>1. \A w \in stops : w.on \in Int
  BY DEF Withdrawal
<1>2. ASSUME stops # {}
      PROVE  \E w \in stops : w.on < f.collectedOn
  BY <1>1, <1>2 DEF Follows, WinsOver
<1> QED
  BY <1>2 DEF Follows, Answered

\* The record a merge keeps follows the withdrawals of both.
LEMMA ReconciledFollows ==
  ASSUME NEW r \in Record, NEW q \in Record, NEW first \in BOOLEAN,
         NEW stopsOfR \in SUBSET Withdrawal, NEW stopsOfQ \in SUBSET Withdrawal,
         Follows(r, stopsOfR), Follows(q, stopsOfQ)
  PROVE  Follows(Reconciled(r, q, first), stopsOfR \cup stopsOfQ)
<1> DEFINE kept == Reconciled(r, q, first)
           both == stopsOfR \cup stopsOfQ
<1> USE RulesAssumption DEF Record, DayOrNull, Day, NoDay
<1>1. \A w \in both : w.on \in Int
  BY DEF Withdrawal
<1>2. CASE r.status = "none" /\ q.status # "none"
  <2>1. kept = q
    BY <1>2 DEF Reconciled
  <2>2. stopsOfR = {}
    BY <1>2 DEF Follows
  <2>3. both = stopsOfQ
    BY <2>2
  <2> QED
    BY <2>1, <2>3
<1>3. CASE q.status = "none"
  <2>1. kept = r
    BY <1>3 DEF Reconciled
  <2>2. stopsOfQ = {}
    BY <1>3 DEF Follows
  <2>3. both = stopsOfR
    BY <2>2
  <2> QED
    BY <2>1, <2>3
<1>4. CASE r.status # "none" /\ q.status # "none"
  <2>1. kept \in {r, q} /\ kept.status # "none"
    BY <1>4 DEF Reconciled
  <2>2. CASE kept.status = "withdrawn"
    <3>1. \E w \in both : w.on <= kept.withdrawnOn
      BY <2>1, <2>2 DEF Follows
    <3> QED
      BY <2>2, <3>1 DEF Follows
  <2>3. CASE kept.status # "withdrawn"
    <3>1. /\ r.status \in {"active", "declined"} /\ q.status \in {"active", "declined"}
          /\ r.givenOn <= kept.givenOn /\ q.givenOn <= kept.givenOn
      BY <1>4, <2>3 DEF Reconciled, AbsorbedWins
    <3>2. ASSUME both # {} PROVE \E w \in both : w.on < kept.givenOn
      BY <1>1, <2>1, <3>1, <3>2 DEF Follows
    <3> QED
      BY <2>1, <2>3, <3>2 DEF Follows
  <2> QED
    BY <2>2, <2>3
<1> QED
  BY <1>2, <1>3, <1>4

\* The rows a withdrawal is on file under: only that of the person it resolves
\* to, and there each consent it found active is withdrawn today.
LEMMA WithdrawStops ==
  ASSUME TypeOK, FoldedRight, NEW q \in known, NEW asked \in SUBSET Purposes,
         Withdraw(q, asked), NEW p \in Persons, NEW u \in Purposes
  PROVE  \/ record'[p][u] = record[p][u] /\ StopsOf(p, u)' = StopsOf(p, u)
         \/ /\ record'[p][u] = [record[p][u] EXCEPT !.status = "withdrawn",
                                                    !.withdrawnOn = today]
            /\ [person |-> p, purpose |-> u, on |-> today] \in StopsOf(p, u)'
<1> DEFINE who     == Resolve(q)
           stopped == {k \in asked : record[who][k].status = "active"}
           new     == {[person |-> who, purpose |-> k, on |-> today] : k \in stopped}
<1>1. /\ who \in Persons /\ mergedInto[who] = None
      /\ withdrawals' = withdrawals \cup new
      /\ folded' = folded
  BY WithdrawRecords DEF Withdraw, Live
<1>2. who \in folded[who] /\ (who \in folded[p] => p = who)
  BY <1>1 DEF FoldedRight
<1>3. \A w \in new : w.person = who /\ w.purpose \in stopped
  OBVIOUS
<1>4. record'[p][u] =
        IF p = who /\ u \in stopped
        THEN [record[p][u] EXCEPT !.status = "withdrawn", !.withdrawnOn = today]
        ELSE record[p][u]
  <2>1. \A x \in Persons, k \in Purposes :
          record'[x][k] =
            IF x = who /\ k \in asked /\ record[x][k].status = "active"
            THEN [record[x][k] EXCEPT !.status = "withdrawn", !.withdrawnOn = today]
            ELSE record[x][k]
    BY WithdrawRecords
  <2>2. CASE p = who
    BY <2>1, <2>2
  <2>3. CASE p # who
    BY <2>1, <2>3
  <2> QED
    BY <2>2, <2>3
<1>5. CASE p = who /\ u \in stopped
  <2>1. record'[p][u] = [record[p][u] EXCEPT !.status = "withdrawn", !.withdrawnOn = today]
    BY <1>5, <1>4
  <2>2. [person |-> p, purpose |-> u, on |-> today] \in new
    BY <1>5
  <2>3. [person |-> p, purpose |-> u, on |-> today] \in StopsOf(p, u)'
    BY <1>1, <1>2, <1>5, <2>2 DEF StopsOf
  <2> QED
    BY <2>1, <2>3
<1>6. CASE ~ (p = who /\ u \in stopped)
  <2>1. record'[p][u] = record[p][u]
    BY <1>6, <1>4
  <2>2. \A w \in new : ~ (w.person \in folded[p] /\ w.purpose = u)
    BY <1>2, <1>3, <1>6
  <2>3. StopsOf(p, u)' = StopsOf(p, u)
    BY <1>1, <2>2 DEF StopsOf
  <2> QED
    BY <2>1, <2>3
<1> QED
  BY <1>5, <1>6

\* The rows a merge moves withdrawals between.
LEMMA MergeStops ==
  ASSUME TypeOK, NEW a \in known, NEW s \in known, NEW early, Merge(a, s, early),
         NEW u \in Purposes
  PROVE  /\ StopsOf(a, u)' = {}
         /\ StopsOf(s, u)' = StopsOf(s, u) \cup StopsOf(a, u)
         /\ \A p \in Persons \ {a, s} : StopsOf(p, u)' = StopsOf(p, u)
<1>1. /\ a \in Persons /\ s \in Persons /\ a # s /\ withdrawals' = withdrawals
      /\ folded' = [folded EXCEPT ![a] = {}, ![s] = folded[s] \cup folded[a]]
  BY MergeRecords
<1>2. /\ folded'[a] = {} /\ folded'[s] = folded[s] \cup folded[a]
      /\ \A p \in Persons \ {a, s} : folded'[p] = folded[p]
  BY <1>1 DEF TypeOK
<1> QED
  BY <1>1, <1>2 DEF StopsOf

\* A record goes on following the first stop of its people.
LEMMA FollowStep ==
  TypeOK /\ FoldedRight /\ RecordsFollowStops /\ [Next]_vars => RecordsFollowStops'
<1> SUFFICES ASSUME TypeOK, FoldedRight, RecordsFollowStops, [Next]_vars,
                    NEW p \in Persons, NEW u \in Purposes
             PROVE  Follows(record'[p][u], StopsOf(p, u)')
  BY DEF RecordsFollowStops
<1>1. \A q \in Persons : /\ record[q][u] \in Record
                          /\ StopsOf(q, u) \in SUBSET Withdrawal
                          /\ Follows(record[q][u], StopsOf(q, u))
  BY DEF TypeOK, StopsOf, RecordsFollowStops
<1>2. CASE \E d \in Drafts, who \in Persons : CommittedFor(d, who)
  <2>1. PICK d \in Drafts, who \in Persons : CommittedFor(d, who)
    BY <1>2
  <2>2. draft[d].form \in Form
    BY <2>1, RegisterAssumption DEF CommittedFor, Draft
  <2>3. StopsOf(p, u)' = StopsOf(p, u)
    BY <2>1 DEF CommittedFor, StopsOf
  <2>4. \/ record'[p][u] = record[p][u]
        \/ /\ record'[p][u] = Answered(d, draft[d].form, u)
           /\ WinsOver(draft[d].form, record[p][u])
    BY <2>1, CommitRecords
  <2> QED
    BY <1>1, <2>2, <2>3, <2>4, WinnerFollows
<1>3. CASE \E q \in known, asked \in SUBSET Purposes : Withdraw(q, asked)
  <2>1. PICK q \in known, asked \in SUBSET Purposes : Withdraw(q, asked)
    BY <1>3
  <2>2. CASE record'[p][u] = record[p][u] /\ StopsOf(p, u)' = StopsOf(p, u)
    BY <1>1, <2>2
  <2>3. CASE /\ record'[p][u] = [record[p][u] EXCEPT !.status = "withdrawn",
                                                     !.withdrawnOn = today]
             /\ [person |-> p, purpose |-> u, on |-> today] \in StopsOf(p, u)'
    <3>1. record'[p][u].status = "withdrawn" /\ record'[p][u].withdrawnOn = today
      BY <1>1, <2>3 DEF Record
    <3>2. today <= today
      BY RulesAssumption DEF TypeOK, Day
    <3> QED
      BY <2>3, <3>1, <3>2 DEF Follows
  <2> QED
    BY <2>1, <2>2, <2>3, WithdrawStops
<1>4. CASE \E a, s \in known, early \in SUBSET Purposes : Merge(a, s, early)
  <2>1. PICK a \in known, s \in known, early \in SUBSET Purposes : Merge(a, s, early)
    BY <1>4
  <2>2. /\ a \in Persons /\ s \in Persons /\ a # s
        /\ record'[a][u] = NoRecord
        /\ record'[s][u] = Reconciled(record[s][u], record[a][u], u \in early)
        /\ p \notin {a, s} => record'[p][u] = record[p][u]
    BY <2>1, MergeRecords
  <2>3. /\ StopsOf(a, u)' = {}
        /\ StopsOf(s, u)' = StopsOf(s, u) \cup StopsOf(a, u)
        /\ p \notin {a, s} => StopsOf(p, u)' = StopsOf(p, u)
    BY <2>1, MergeStops
  <2>4. CASE p = a
    BY <2>2, <2>3, <2>4 DEF Follows, NoRecord
  <2>5. CASE p = s
    <3> DEFINE kept == Reconciled(record[s][u], record[a][u], u \in early)
    <3>1. (u \in early) \in BOOLEAN
      OBVIOUS
    <3>2. Follows(kept, StopsOf(s, u) \cup StopsOf(a, u))
      BY <1>1, <2>2, <3>1, ReconciledFollows
    <3>3. record'[p][u] = kept /\ StopsOf(p, u)' = StopsOf(s, u) \cup StopsOf(a, u)
      BY <2>2, <2>3, <2>5
    <3> HIDE DEF kept
    <3> QED
      BY <3>2, <3>3
  <2>6. CASE p \notin {a, s}
    BY <1>1, <2>2, <2>3, <2>6
  <2> QED
    BY <2>4, <2>5, <2>6
<1>5. CASE Quiet
  BY <1>1, <1>5 DEF Quiet, StopsOf
<1> QED
  BY <1>2, <1>3, <1>4, <1>5, StepCases

\* Once anybody folded into a row withdrew, its consent is active only on paper
\* signed after one of those withdrawals: the date comparison of commitDraft and
\* absorbedWins together, through any number of commits and merges.
THEOREM FirstStopsHold == Spec => []FirstStopHolds
<1>1. Init => RecordsFollowStops
  BY DEF Init, RecordsFollowStops, Follows, NoRecord, StopsOf
<1> QED
  BY <1>1, FollowStep, FollowsImplies, TypeCorrect, FoldedHolds, PTL DEF Spec

-----------------------------------------------------------------------------
(* The systems that are told                                               *)

\* Task t tells system s to stop using purpose u for one of the people in whom,
\* and is open or was decided on no earlier than day d.
Owes(t, whom, u, s, d) ==
  /\ t.person \in whom /\ t.purpose = u /\ t.system = s
  /\ t.status = "open" \/ t.decidedOn >= d

\* A withdrawal leaves an open task with every system, new or not.
LEMMA WithdrawOwes ==
  ASSUME TypeOK, NEW who, NEW stopped, NEW u \in stopped, NEW s \in Systems,
         tasks' = tasks \cup Raised(who, stopped)
  PROVE  \E t \in tasks' : /\ t.person = who /\ t.purpose = u /\ t.system = s
                           /\ t.status = "open"
<1>1. CASE HasOpenTask(who, u, s)
  BY <1>1 DEF HasOpenTask
<1>2. CASE ~ HasOpenTask(who, u, s)
  <2>1. <<u, s>> \in {k \in stopped \X Systems : ~ HasOpenTask(who, k[1], k[2])}
    BY <1>2
  <2>2. NewTask(who, u, s) \in Raised(who, stopped)
    BY <2>1 DEF Raised
  <2> QED
    BY <2>2 DEF NewTask
<1> QED
  BY <1>1, <1>2

\* A decision of the DPO, taken today, leaves what a task owes as it was.
LEMMA DecisionOwes ==
  ASSUME TypeOK, NEW t \in tasks, CompleteTask(t) \/ HoldTask(t),
         NEW whom, NEW u, NEW s, NEW d \in DayOrNull, d <= today,
         \E x \in tasks : Owes(x, whom, u, s, d)
  PROVE  \E x \in tasks' : Owes(x, whom, u, s, d)
<1>1. PICK x \in tasks : Owes(x, whom, u, s, d)
  OBVIOUS
<1>2. PICK y \in Task :
        /\ tasks' = (tasks \ {t}) \cup {y}
        /\ y.person = t.person /\ y.purpose = t.purpose /\ y.system = t.system
        /\ y.decidedOn = today
  <2>1. t \in Task /\ today \in DayOrNull
    BY DEF TypeOK, DayOrNull
  <2>2. CASE CompleteTask(t)
    <3> DEFINE y == [t EXCEPT !.status = "completed", !.decidedOn = today]
    <3>1. /\ y \in Task /\ y.person = t.person /\ y.purpose = t.purpose
          /\ y.system = t.system /\ y.decidedOn = today
      BY <2>1 DEF Task
    <3> QED
      BY <2>2, <3>1 DEF CompleteTask
  <2>3. CASE HoldTask(t)
    <3> DEFINE y == [t EXCEPT !.status = "on_hold", !.decidedOn = today]
    <3>1. /\ y \in Task /\ y.person = t.person /\ y.purpose = t.purpose
          /\ y.system = t.system /\ y.decidedOn = today
      BY <2>1 DEF Task
    <3> QED
      BY <2>3, <3>1 DEF HoldTask
  <2> QED
    BY <2>2, <2>3
<1>3. CASE x = t
  <2>1. Owes(y, whom, u, s, d)
    BY <1>1, <1>2, <1>3, RulesAssumption DEF Owes, TypeOK, DayOrNull, Day, NoDay
  <2> QED
    BY <1>2, <2>1
<1>4. CASE x # t
  BY <1>1, <1>2, <1>4
<1> QED
  BY <1>3, <1>4

\* The property on tasks, record by record.
LEMMA OwedRecords ==
  StoppingIsOwed <=>
    \A p \in Persons, u \in Purposes, s \in Systems :
      record[p][u].status = "withdrawn" =>
        \E t \in tasks : Owes(t, folded[p], u, s, record[p][u].withdrawnOn)
BY DEF StoppingIsOwed, Owes

\* The steps that take no decision on a task leave every one of them queued.
LEMMA TasksStay ==
  ASSUME TypeOK, [Next]_vars
  PROVE  \/ tasks \subseteq tasks'
         \/ /\ \E t \in tasks : CompleteTask(t) \/ HoldTask(t)
            /\ UNCHANGED <<today, record, folded>>
<1>1. CASE \E t \in tasks : CompleteTask(t) \/ HoldTask(t)
  BY <1>1 DEF CompleteTask, HoldTask
<1>2. CASE \E p \in known, asked \in (SUBSET Purposes) \ {{}} : Withdraw(p, asked)
  BY <1>2 DEF Withdraw
<1>3. ASSUME NEW d \in Drafts, NEW f \in Papers,
             CreateDraft(d, f) \/ ImportDraft(d, f) \/ EditDraft(d, f)
      PROVE  tasks' = tasks
  BY <1>3 DEF CreateDraft, ImportDraft, EditDraft
<1>4. ASSUME NEW d \in Drafts, RejectDraft(d)
      PROVE  tasks' = tasks
  BY <1>4 DEF RejectDraft
<1>5. ASSUME NEW d \in Drafts, NEW confirm, NEW forceNew, Commit(d, confirm, forceNew)
      PROVE  tasks' = tasks
  BY <1>5 DEF Commit
<1>6. ASSUME NEW a, NEW s, NEW early, Merge(a, s, early)
      PROVE  tasks' = tasks
  BY <1>6 DEF Merge
<1>7. CASE NextDay \/ UNCHANGED vars
  BY <1>7 DEF NextDay, vars
<1> QED
  BY <1>1, <1>2, <1>3, <1>4, <1>5, <1>6, <1>7 DEF Next

\* Every stop raises its tasks, and a merge hands them to the survivor.
LEMMA OwedStep ==
  TypeOK /\ FoldedRight /\ StoppedAfterSigned /\ StoppingIsOwed /\ [Next]_vars
    => StoppingIsOwed'
<1> SUFFICES ASSUME TypeOK, FoldedRight, StoppedAfterSigned, StoppingIsOwed, [Next]_vars,
                    NEW p \in Persons, NEW u \in Purposes, NEW s \in Systems,
                    record'[p][u].status = "withdrawn"
             PROVE  \E t \in tasks' : Owes(t, folded'[p], u, s, record'[p][u].withdrawnOn)
  BY DEF StoppingIsOwed, Owes
<1>1. \A q \in Persons :
        /\ record[q][u] \in Record /\ record[q][u].withdrawnOn <= today
        /\ record[q][u].status = "withdrawn" =>
             \E t \in tasks : Owes(t, folded[q], u, s, record[q][u].withdrawnOn)
  BY OwedRecords DEF TypeOK, StoppedAfterSigned
\* A record that was on file stays owed where the tasks stay and its row is
\* folded into this one.
<1>2. ASSUME tasks \subseteq tasks', NEW q \in Persons, record'[p][u] = record[q][u],
             folded[q] \subseteq folded'[p]
      PROVE  \E t \in tasks' : Owes(t, folded'[p], u, s, record'[p][u].withdrawnOn)
  <2>1. PICK t \in tasks : Owes(t, folded[q], u, s, record[q][u].withdrawnOn)
    BY <1>1, <1>2
  <2> QED
    BY <1>2, <2>1 DEF Owes
<1>3. CASE \E t \in tasks : (CompleteTask(t) \/ HoldTask(t))
                         /\ UNCHANGED <<today, record, folded>>
  <2>1. PICK t \in tasks : (CompleteTask(t) \/ HoldTask(t))
                         /\ UNCHANGED <<today, record, folded>>
    BY <1>3
  <2>2. record[p][u].withdrawnOn \in DayOrNull
    BY <1>1 DEF Record
  <2>3. \E x \in tasks' : Owes(x, folded[p], u, s, record[p][u].withdrawnOn)
    BY <1>1, <2>1, <2>2, DecisionOwes
  <2> QED
    BY <2>1, <2>3 DEF Owes
<1>4. ASSUME tasks \subseteq tasks', NEW d \in Drafts, NEW who \in Persons,
             CommittedFor(d, who)
      PROVE  \E t \in tasks' : Owes(t, folded'[p], u, s, record'[p][u].withdrawnOn)
  <2>1. Answered(d, draft[d].form, u).status # "withdrawn"
    BY DEF Answered
  <2>2. record'[p][u] = record[p][u]
    BY <1>4, <2>1, CommitRecords
  <2>3. folded' = folded
    BY <1>4 DEF CommittedFor
  <2> QED
    BY <1>2, <1>4, <2>2, <2>3
<1>5. ASSUME tasks \subseteq tasks', NEW q \in known, NEW asked \in SUBSET Purposes,
             Withdraw(q, asked)
      PROVE  \E t \in tasks' : Owes(t, folded'[p], u, s, record'[p][u].withdrawnOn)
  <2> DEFINE who     == Resolve(q)
             stopped == {k \in asked : record[who][k].status = "active"}
  <2>1. /\ who \in Persons /\ mergedInto[who] = None /\ folded' = folded
        /\ tasks' = tasks \cup Raised(who, stopped)
    BY <1>5, WithdrawRecords DEF Withdraw, Live
  <2>2. CASE p = who /\ u \in stopped
    <3>1. who \in folded'[p]
      BY <2>1, <2>2 DEF FoldedRight
    <3>2. \E t \in tasks' : /\ t.person = who /\ t.purpose = u /\ t.system = s
                            /\ t.status = "open"
      BY <2>1, <2>2, WithdrawOwes
    <3> QED
      BY <3>1, <3>2 DEF Owes
  <2>3. CASE ~ (p = who /\ u \in stopped)
    <3>1. record'[p][u] =
            IF p = who /\ u \in asked /\ record[p][u].status = "active"
            THEN [record[p][u] EXCEPT !.status = "withdrawn", !.withdrawnOn = today]
            ELSE record[p][u]
      BY <1>5, WithdrawRecords
    <3>2. record'[p][u] = record[p][u]
      BY <2>3, <3>1
    <3> QED
      BY <1>2, <1>5, <2>1, <3>2
  <2> QED
    BY <2>2, <2>3
<1>6. ASSUME tasks \subseteq tasks', NEW a \in known, NEW z \in known,
             NEW early \in SUBSET Purposes, Merge(a, z, early)
      PROVE  \E t \in tasks' : Owes(t, folded'[p], u, s, record'[p][u].withdrawnOn)
  <2>1. /\ a \in Persons /\ z \in Persons /\ a # z
        /\ folded' = [folded EXCEPT ![a] = {}, ![z] = folded[z] \cup folded[a]]
        /\ record'[a][u] = NoRecord
        /\ record'[z][u] \in {record[z][u], record[a][u]}
        /\ p \notin {a, z} => record'[p][u] = record[p][u]
    BY <1>6, MergeRecords
  <2>2. /\ folded'[z] = folded[z] \cup folded[a]
        /\ p \notin {a, z} => folded'[p] = folded[p]
    BY <2>1 DEF TypeOK
  <2>3. p # a
    BY <2>1 DEF NoRecord
  <2>4. \E r \in Persons : record'[p][u] = record[r][u] /\ folded[r] \subseteq folded'[p]
    BY <2>1, <2>2, <2>3
  <2> QED
    BY <1>2, <1>6, <2>4
<1>7. ASSUME tasks \subseteq tasks', Quiet
      PROVE  \E t \in tasks' : Owes(t, folded'[p], u, s, record'[p][u].withdrawnOn)
  BY <1>2, <1>7 DEF Quiet
<1> QED
  BY <1>3, <1>4, <1>5, <1>6, <1>7, StepCases, TasksStay

\* A withdrawal that stands is in the queue of every active system, or was
\* answered there no earlier than it was made: what createCessationTasks
\* inserts next to the withdrawal survives every merge of the person and every
\* decision of the DPO.
THEOREM SystemsAreTold == Spec => []StoppingIsOwed
<1>1. Init => StoppingIsOwed
  BY DEF Init, StoppingIsOwed, NoRecord
<1> QED
  BY <1>1, OwedStep, TypeCorrect, FoldedHolds, DatesHold, PTL DEF Spec

-----------------------------------------------------------------------------
(* Rows nobody was folded into                                             *)

\* Nobody was folded into row p, nor p into another.
Unmerged(p) == folded[p] = {p}

\* A merge leaves neither of its rows unmerged.
LEMMA MergeUnmerged ==
  ASSUME TypeOK, FoldedRight, NEW a \in known, NEW s \in known, NEW early,
         Merge(a, s, early), NEW p \in Persons, Unmerged(p)'
  PROVE  p \notin {a, s} /\ Unmerged(p)
<1>1. /\ a \in Persons /\ s \in Persons /\ a # s /\ mergedInto[a] = None
      /\ folded' = [folded EXCEPT ![a] = {}, ![s] = folded[s] \cup folded[a]]
  BY MergeRecords
<1>2. /\ folded'[a] = {} /\ folded'[s] = folded[s] \cup folded[a]
      /\ p \notin {a, s} => folded'[p] = folded[p]
  BY <1>1 DEF TypeOK
<1>3. a \in folded[a]
  BY <1>1 DEF FoldedRight
<1> QED
  BY <1>1, <1>2, <1>3 DEF Unmerged

-----------------------------------------------------------------------------
(* Withdrawals                                                             *)

\* What record r of an unmerged row says of all the withdrawals on file for it.
FollowsAll(r, stops) ==
  /\ r.status = "none" => stops = {}
  /\ r.status = "withdrawn" => \A w \in stops : w.on <= r.withdrawnOn
  /\ r.status \in {"active", "declined"} => \A w \in stops : w.on < r.givenOn

\* The inductive invariant behind UnmergedNeverRevived.
UnmergedFollow ==
  /\ \A w \in withdrawals : w.on <= today
  /\ \A p \in Persons, u \in Purposes :
       Unmerged(p) => FollowsAll(record[p][u], StopsOf(p, u))

\* What is shown inductively gives the property.
LEMMA UnmergedImplies == UnmergedFollow => UnmergedNeverRevived
BY DEF UnmergedFollow, FollowsAll, Unmerged, UnmergedNeverRevived

\* A form that wins over a record is later than every withdrawal before it.
LEMMA WinnerFollowsAll ==
  ASSUME NEW r \in Record, NEW f \in Form, NEW d, NEW u, NEW stops \in SUBSET Withdrawal,
         FollowsAll(r, stops), WinsOver(f, r)
  PROVE  FollowsAll(Answered(d, f, u), stops)
<1> USE RulesAssumption DEF Record, Form, DayOrNull, Day, NoDay
<1>1. \A w \in stops : w.on \in 0 .. MaxDay
  BY DEF Withdrawal
<1>2. ASSUME NEW w \in stops
      PROVE  w.on < f.collectedOn
  BY <1>1 DEF FollowsAll, WinsOver
<1> QED
  BY <1>2 DEF FollowsAll, Answered

\* Without a merge behind it no stopped record becomes active.
LEMMA UnmergedStep ==
  TypeOK /\ FoldedRight /\ UnmergedFollow /\ [Next]_vars => UnmergedFollow'
<1> SUFFICES ASSUME TypeOK, FoldedRight, UnmergedFollow, [Next]_vars
             PROVE  UnmergedFollow'
  OBVIOUS
<1>1. /\ today \in Day
      /\ \A w \in withdrawals : w \in Withdrawal /\ w.on <= today
      /\ \A p \in Persons, u \in Purposes :
           /\ record[p][u] \in Record /\ StopsOf(p, u) \in SUBSET Withdrawal
           /\ Unmerged(p) => FollowsAll(record[p][u], StopsOf(p, u))
  BY DEF TypeOK, StopsOf, UnmergedFollow
<1>2. \A w \in withdrawals' : w.on <= today'
  <2>1. CASE \E q \in known, asked \in SUBSET Purposes : Withdraw(q, asked)
    <3>1. PICK q \in known, asked \in SUBSET Purposes : Withdraw(q, asked)
      BY <2>1
    <3> DEFINE stopped == {k \in asked : record[Resolve(q)][k].status = "active"}
               new     == {[person |-> Resolve(q), purpose |-> k, on |-> today] : k \in stopped}
    <3>2. today' = today /\ withdrawals' = withdrawals \cup new
      BY <3>1 DEF Withdraw
    <3>3. \A w \in new : w.on = today
      OBVIOUS
    <3>4. today <= today
      BY <1>1, RulesAssumption DEF Day
    <3> HIDE DEF new
    <3> QED
      BY <1>1, <3>2, <3>3, <3>4
  <2>2. CASE withdrawals' = withdrawals /\ today' = today
    BY <1>1, <2>2
  <2>3. CASE Quiet
    BY <1>1, <2>3, RulesAssumption DEF Quiet, Withdrawal, Day
  <2> QED
    BY <2>1, <2>2, <2>3, StepCases DEF CommittedFor, Merge
<1>3. ASSUME NEW p \in Persons, NEW u \in Purposes, Unmerged(p)'
      PROVE  FollowsAll(record'[p][u], StopsOf(p, u)')
  <2>1. CASE \E d \in Drafts, who \in Persons : CommittedFor(d, who)
    <3>1. PICK d \in Drafts, who \in Persons : CommittedFor(d, who)
      BY <2>1
    <3>2. /\ draft[d].form \in Form /\ Unmerged(p)
          /\ StopsOf(p, u)' = StopsOf(p, u)
      BY <1>3, <3>1, RegisterAssumption DEF CommittedFor, Draft, StopsOf, Unmerged
    <3>3. \/ record'[p][u] = record[p][u]
          \/ /\ record'[p][u] = Answered(d, draft[d].form, u)
             /\ WinsOver(draft[d].form, record[p][u])
      BY <3>1, CommitRecords
    <3> QED
      BY <1>1, <3>2, <3>3, WinnerFollowsAll
  <2>2. CASE \E q \in known, asked \in SUBSET Purposes : Withdraw(q, asked)
    <3>1. PICK q \in known, asked \in SUBSET Purposes : Withdraw(q, asked)
      BY <2>2
    <3>2. Unmerged(p) /\ today' = today
      BY <1>3, <3>1 DEF Withdraw, Unmerged
    <3>3. CASE record'[p][u] = record[p][u] /\ StopsOf(p, u)' = StopsOf(p, u)
      BY <1>1, <3>2, <3>3
    <3>4. CASE record'[p][u] = [record[p][u] EXCEPT !.status = "withdrawn",
                                                    !.withdrawnOn = today]
      <4>1. record'[p][u].status = "withdrawn" /\ record'[p][u].withdrawnOn = today
        BY <1>1, <3>4 DEF Record
      <4>2. \A w \in StopsOf(p, u)' : w.on <= today
        BY <1>2, <3>2 DEF StopsOf
      <4> QED
        BY <4>1, <4>2 DEF FollowsAll
    <3> QED
      BY <3>1, <3>3, <3>4, WithdrawStops
  <2>3. CASE \E a, s \in known, early \in SUBSET Purposes : Merge(a, s, early)
    <3>1. PICK a \in known, s \in known, early \in SUBSET Purposes : Merge(a, s, early)
      BY <2>3
    <3>2. p \notin {a, s} /\ Unmerged(p)
      BY <1>3, <3>1, MergeUnmerged
    <3>3. record'[p][u] = record[p][u] /\ StopsOf(p, u)' = StopsOf(p, u)
      BY <3>1, <3>2, MergeRecords, MergeStops
    <3> QED
      BY <1>1, <3>2, <3>3
  <2>4. CASE Quiet
    BY <1>1, <1>3, <2>4 DEF Quiet, Unmerged, StopsOf
  <2> QED
    BY <2>1, <2>2, <2>3, <2>4, StepCases
<1> QED
  BY <1>2, <1>3 DEF UnmergedFollow

\* For a person nobody was folded into, consent is active only on paper signed
\* after every withdrawal they ever made for the purpose, in whatever order the
\* forms were committed and however often they withdrew.
THEOREM NeverRevived == Spec => []UnmergedNeverRevived
<1>1. Init => UnmergedFollow
  BY DEF Init, UnmergedFollow, FollowsAll, NoRecord, StopsOf
<1> QED
  BY <1>1, UnmergedStep, UnmergedImplies, TypeCorrect, FoldedHolds, PTL DEF Spec

-----------------------------------------------------------------------------
(* Signatures                                                              *)

\* A form dated c is not later than record r, or r is a withdrawal that
\* withholds it.
Covers(r, c) ==
  /\ r.status # "none"
  /\ \/ c <= r.givenOn
     \/ r.status = "withdrawn" /\ c <= r.withdrawnOn

\* The inductive invariant behind LatestSignatureStands.
PaperCovered ==
  \A p \in Persons, u \in Purposes, d \in Drafts :
    Unmerged(p) /\ artifact[d].person = p /\ u \in Asked(artifact[d].form) =>
      Covers(record[p][u], artifact[d].form.collectedOn)

\* What is shown inductively gives the property.
LEMMA CoveredImplies == PaperCovered => LatestSignatureStands
BY DEF PaperCovered, Covers, Unmerged, LatestSignatureStands

\* What a record covers it covers after a form is projected on it, together
\* with that form.
LEMMA ProjectedCovers ==
  ASSUME NEW r \in Record, NEW f \in Form, NEW d, NEW u \in Asked(f)
  PROVE  LET q == Projected(d, f, r, u)
         IN  /\ Covers(q, f.collectedOn)
             /\ \A c \in DayOrNull : Covers(r, c) => Covers(q, c)
<1> USE RulesAssumption DEF Record, Form, DayOrNull, Day, NoDay
<1>1. CASE WinsOver(f, r)
  <2>1. Projected(d, f, r, u) = Answered(d, f, u)
    BY <1>1 DEF Projected
  <2> QED
    BY <1>1, <2>1 DEF Answered, Covers, WinsOver
<1>2. CASE ~ WinsOver(f, r)
  <2>1. Projected(d, f, r, u) = r
    BY <1>2 DEF Projected
  <2> QED
    BY <1>2, <2>1 DEF Covers, WinsOver
<1> QED
  BY <1>1, <1>2

\* An active record is covered by the latest paper that answers for it.
LEMMA CoveredStep ==
  TypeOK /\ FoldedRight /\ PaperCovered /\ [Next]_vars => PaperCovered'
<1> SUFFICES ASSUME TypeOK, FoldedRight, PaperCovered, [Next]_vars,
                    NEW p \in Persons, NEW u \in Purposes, NEW d \in Drafts, Unmerged(p)',
                    artifact'[d].person = p, u \in Asked(artifact'[d].form)
             PROVE  Covers(record'[p][u], artifact'[d].form.collectedOn)
  BY DEF PaperCovered
<1>1. record[p][u] \in Record
  BY DEF TypeOK
\* Where the paper and the rows folded together are what they were, so is what
\* the record covers.
<1>2. ASSUME Unmerged(p), artifact'[d] = artifact[d]
      PROVE  /\ Covers(record[p][u], artifact[d].form.collectedOn)
             /\ artifact[d].form.collectedOn \in DayOrNull
  <2>1. artifact[d] \in Artifact
    BY <1>2, RulesAssumption DEF TypeOK, NoArtifact
  <2> QED
    BY <1>2, <2>1, RegisterAssumption DEF PaperCovered, Artifact, Form
<1>3. CASE \E e \in Drafts, who \in Persons : CommittedFor(e, who)
  <2>1. PICK e \in Drafts, who \in Persons : CommittedFor(e, who)
    BY <1>3
  <2> DEFINE f == draft[e].form
  <2>2. /\ f \in Form /\ Unmerged(p)
        /\ artifact'[e] = [person |-> who, form |-> f]
        /\ d # e => artifact'[d] = artifact[d]
    BY <2>1, RegisterAssumption DEF CommittedFor, Draft, TypeOK, Unmerged
  <2>3. record'[p][u] = IF p = who THEN Projected(e, f, record[p][u], u) ELSE record[p][u]
    BY <2>1 DEF CommittedFor, TypeOK
  <2> HIDE DEF f
  <2>4. CASE d = e
    <3>1. p = who /\ u \in Asked(f) /\ artifact'[d].form = f
      BY <2>2, <2>4
    <3> QED
      BY <1>1, <2>2, <2>3, <3>1, ProjectedCovers
  <2>5. CASE d # e
    <3>1. CASE p = who /\ u \in Asked(f)
      BY <1>1, <1>2, <2>2, <2>3, <2>5, <3>1, ProjectedCovers
    <3>2. CASE ~ (p = who /\ u \in Asked(f))
      <4>1. record'[p][u] = record[p][u]
        BY <2>3, <3>2 DEF Projected
      <4> QED
        BY <1>2, <2>2, <2>5, <4>1
    <3> QED
      BY <3>1, <3>2
  <2> QED
    BY <2>4, <2>5
<1>4. CASE \E q \in known, asked \in SUBSET Purposes : Withdraw(q, asked)
  <2>1. PICK q \in known, asked \in SUBSET Purposes : Withdraw(q, asked)
    BY <1>4
  <2>2. Unmerged(p) /\ artifact' = artifact
    BY <2>1 DEF Withdraw, Unmerged
  <2>3. \/ record'[p][u] = record[p][u]
        \/ /\ record[p][u].status = "active"
           /\ record'[p][u] = [record[p][u] EXCEPT !.status = "withdrawn",
                                                   !.withdrawnOn = today]
    BY <2>1, WithdrawRecords
  <2>4. CASE record'[p][u] = record[p][u]
    BY <1>2, <2>2, <2>4
  <2>5. CASE record'[p][u] # record[p][u]
    <3>1. /\ record[p][u].status = "active" /\ record'[p][u].status = "withdrawn"
          /\ record'[p][u].givenOn = record[p][u].givenOn
      BY <1>1, <2>3, <2>5 DEF Record
    <3> QED
      BY <1>2, <2>2, <3>1 DEF Covers
  <2> QED
    BY <2>4, <2>5
<1>5. CASE \E a, s \in known, early \in SUBSET Purposes : Merge(a, s, early)
  <2>1. PICK a \in known, s \in known, early \in SUBSET Purposes : Merge(a, s, early)
    BY <1>5
  <2>2. p \notin {a, s} /\ Unmerged(p)
    BY <2>1, MergeUnmerged
  <2>3. record'[p][u] = record[p][u] /\ artifact' = artifact
    BY <2>1, <2>2, MergeRecords
  <2> QED
    BY <1>2, <2>2, <2>3
<1>6. CASE Quiet
  BY <1>2, <1>6 DEF Quiet, Unmerged
<1> QED
  BY <1>3, <1>4, <1>5, <1>6, StepCases

\* No signature is lost to the order of commits: the record of an unmerged row
\* is no earlier than any dated form filed under it, unless a withdrawal on or
\* after that form's date stands.
THEOREM SignaturesStand == Spec => []LatestSignatureStands
<1>1. Init => PaperCovered
  BY RulesAssumption DEF Init, PaperCovered, NoArtifact
<1> QED
  BY <1>1, CoveredStep, CoveredImplies, TypeCorrect, FoldedHolds, PTL DEF Spec

-----------------------------------------------------------------------------
(* The abstract promise                                                    *)

\* The refinement mapping.
Filed     == {artifact[d] : d \in Drafts} \ {NoArtifact}
Allowed   == [p \in Persons |-> [u \in Purposes |-> record[p][u].status = "active"]]
StoppedOn == [p \in Persons |-> [u \in Purposes |-> record[p][u].withdrawnOn]]

\* The record of a row carries a day exactly while it is withdrawn.
LEMMA StoppedMeansWithdrawn ==
  ASSUME StoppedAfterSigned, NEW p \in Persons, NEW u \in Purposes
  PROVE  /\ StoppedOn[p][u] = record[p][u].withdrawnOn
         /\ StoppedOn[p][u] # NoDay <=> record[p][u].status = "withdrawn"
BY DEF StoppedAfterSigned, StoppedOn

\* The record a form asks for: active where granted, and with no stop.
LEMMA AnsweredFields ==
  ASSUME NEW d, NEW f, NEW u
  PROVE  /\ (Answered(d, f, u).status = "active") <=> (u \in f.granted)
         /\ Answered(d, f, u).withdrawnOn = NoDay
BY DEF Answered

\* A commit puts its form on file for a person it was not on file for.
LEMMA CommitFiles ==
  ASSUME TypeOK, DraftIsItsArtifact, NEW d \in Drafts, NEW who, CommittedFor(d, who)
  PROVE  /\ [person |-> who, form |-> draft[d].form] \notin Filed
         /\ Filed' = Filed \cup {[person |-> who, form |-> draft[d].form]}
<1>1. PICK e : e = [person |-> who, form |-> draft[d].form]
  OBVIOUS
<1>2. e.person = who /\ who \in Persons
  BY <1>1 DEF CommittedFor
<1>3. e # NoArtifact
  BY <1>2, RulesAssumption DEF NoArtifact
<1>4. /\ artifact[d] = NoArtifact
      /\ \A c \in Drafts : artifact[c] # e
  BY <1>1 DEF CommittedFor, DraftIsItsArtifact, AlreadyRecorded
<1>5. /\ artifact'[d] = e
      /\ \A c \in Drafts \ {d} : artifact'[c] = artifact[c]
  BY <1>1 DEF CommittedFor, TypeOK
<1>6. e \notin Filed
  BY <1>4 DEF Filed
<1>7. Filed' = Filed \cup {e}
  BY <1>3, <1>4, <1>5 DEF Filed
<1> QED
  BY <1>1, <1>6, <1>7

\* A commit signs for the purposes whose records the form wins over.
LEMMA CommitSigns ==
  ASSUME TypeOK, StoppedAfterSigned, DraftIsItsArtifact, NEW d \in Drafts, NEW who, CommittedFor(d, who)
  PROVE  Promise!Next
<1> DEFINE f       == draft[d].form
           settled == {u \in Asked(f) : WinsOver(f, record[who][u])}
<1>1. /\ who \in Persons /\ f \in Form /\ f.collectedOn <= today
      /\ f.granted \in SUBSET Purposes /\ f.collectedOn \in Day \cup {NoDay}
      /\ today' = today
  BY RegisterAssumption DEF CommittedFor, Draft, Form, DayOrNull
<1>2. settled \in SUBSET Purposes
  BY <1>1 DEF Asked, Form
<1>3. ASSUME NEW u \in settled, StoppedOn[who][u] # NoDay
      PROVE  StoppedOn[who][u] < f.collectedOn
  BY <1>1, <1>2, <1>3, StoppedMeansWithdrawn, RulesAssumption
     DEF WinsOver, Record, Form, DayOrNull, Day, NoDay
<1>4. ASSUME NEW p \in Persons, NEW u \in Purposes
      PROVE  record'[p][u] = IF p = who /\ u \in settled THEN Answered(d, f, u)
                                                         ELSE record[p][u]
  BY CommitRecords
<1> HIDE DEF settled, f
<1>5. Allowed' = [Allowed EXCEPT ![who] =
        [u \in Purposes |-> IF u \in settled THEN u \in f.granted ELSE Allowed[who][u]]]
  <2>1. ASSUME NEW p \in Persons \ {who}
        PROVE  Allowed'[p] = Allowed[p]
    BY <1>4, <2>1 DEF Allowed
  <2>2. Allowed'[who] =
          [u \in Purposes |-> IF u \in settled THEN u \in f.granted ELSE Allowed[who][u]]
    <3>1. ASSUME NEW u \in Purposes
          PROVE  (record'[who][u].status = "active") <=>
                   (IF u \in settled THEN u \in f.granted ELSE record[who][u].status = "active")
      <4>1. CASE u \in settled
        <5>1. record'[who][u] = Answered(d, f, u)
          BY <1>1, <1>4, <4>1
        <5> QED
          BY <4>1, <5>1, AnsweredFields
      <4>2. CASE u \notin settled
        BY <1>1, <1>4, <4>2
      <4> QED
        BY <4>1, <4>2
    <3>2. ASSUME NEW u \in Purposes
          PROVE  (record'[who][u].status = "active") =
                   (IF u \in settled THEN u \in f.granted ELSE Allowed[who][u])
      BY <1>1, <3>1 DEF Allowed
    <3>3. Allowed'[who] = [u \in Purposes |-> record'[who][u].status = "active"]
      BY <1>1 DEF Allowed
    <3> QED
      BY <3>2, <3>3, Zenon
  <2> QED
    BY <1>1, <2>1, <2>2 DEF Allowed
<1>6. StoppedOn' = [StoppedOn EXCEPT ![who] =
        [u \in Purposes |-> IF u \in settled THEN NoDay ELSE StoppedOn[who][u]]]
  <2>1. ASSUME NEW p \in Persons, NEW u \in Purposes
        PROVE  record'[p][u].withdrawnOn = IF p = who /\ u \in settled THEN NoDay
                                                      ELSE record[p][u].withdrawnOn
    <3>1. CASE p = who /\ u \in settled
      BY <1>4, <3>1, AnsweredFields
    <3>2. CASE ~ (p = who /\ u \in settled)
      BY <1>4, <3>2
    <3> QED
      BY <3>1, <3>2
  <2> QED
    BY <1>1, <2>1 DEF StoppedOn
\* The names given to the values of this state are rigid, as the promise's are.
<1>7. PICK chosen \in SUBSET Purposes, e \in [person : Persons, form : Papers] :
        chosen = settled /\ e = [person |-> who, form |-> f]
  <2>1. [person |-> who, form |-> f] \in [person : Persons, form : Papers]
    BY <1>1 DEF CommittedFor, Draft, f
  <2> QED
    BY <1>2, <2>1
<1>8. e.person = who /\ e.form = f /\ e \notin Filed /\ Filed' = Filed \cup {e}
  BY <1>7, CommitFiles DEF f
<1>9. settled \subseteq f.granted \cup f.declined
  BY DEF settled, Asked
<1>10. Promise!Sign(e, chosen)
  BY <1>1, <1>3, <1>5, <1>6, <1>7, <1>8, <1>9
     DEF Promise!Sign, Promise!Entry, Filed, Allowed, StoppedOn, NoDay, Promise!NoDay
<1>11. e \in Filed' \ Filed
  BY <1>8
<1> QED
  BY <1>1, <1>10, <1>11 DEF Promise!Next, Filed

\* A withdrawal stops the purposes it found active.
LEMMA WithdrawStopsPromise ==
  ASSUME TypeOK, NEW q \in known, NEW asked \in SUBSET Purposes, Withdraw(q, asked)
  PROVE  Promise!Next
<1>1. PICK who \in Persons, stopped \in SUBSET Purposes :
        /\ who = Resolve(q)
        /\ stopped = {u \in asked : record[who][u].status = "active"}
        /\ today' = today
  BY WithdrawRecords DEF Withdraw
<1>2. ASSUME NEW p \in Persons, NEW u \in Purposes
      PROVE  IF p = who /\ u \in stopped
             THEN /\ record'[p][u].status = "withdrawn"
                  /\ record'[p][u].withdrawnOn = today
             ELSE record'[p][u] = record[p][u]
  <2>1. record'[p][u] =
          IF p = Resolve(q) /\ u \in asked /\ record[p][u].status = "active"
          THEN [record[p][u] EXCEPT !.status = "withdrawn", !.withdrawnOn = today]
          ELSE record[p][u]
    BY WithdrawRecords
  <2>2. record[p][u] \in Record
    BY DEF TypeOK
  <2> QED
    BY <1>1, <2>1, <2>2 DEF Record
<1>3. \A u \in stopped : Allowed[who][u]
  BY <1>1 DEF Allowed
<1>4. Allowed' = [Allowed EXCEPT ![who] =
        [u \in Purposes |-> Allowed[who][u] /\ u \notin stopped]]
  <2>1. ASSUME NEW p \in Persons \ {who}
        PROVE  Allowed'[p] = Allowed[p]
    BY <1>2, <2>1 DEF Allowed
  <2>2. Allowed'[who] = [u \in Purposes |-> Allowed[who][u] /\ u \notin stopped]
    <3>1. ASSUME NEW u \in Purposes
          PROVE  (record'[who][u].status = "active") =
                   (Allowed[who][u] /\ u \notin stopped)
      BY <1>2 DEF Allowed
    <3>2. Allowed'[who] = [u \in Purposes |-> record'[who][u].status = "active"]
      BY DEF Allowed
    <3> QED
      BY <3>1, <3>2, Zenon
  <2> QED
    BY <2>1, <2>2 DEF Allowed
<1>5. StoppedOn' = [StoppedOn EXCEPT ![who] =
        [u \in Purposes |-> IF u \in stopped THEN today ELSE StoppedOn[who][u]]]
  <2>1. ASSUME NEW p \in Persons \ {who}
        PROVE  StoppedOn'[p] = StoppedOn[p]
    BY <1>2, <2>1 DEF StoppedOn
  <2>2. StoppedOn'[who] = [u \in Purposes |-> IF u \in stopped THEN today ELSE StoppedOn[who][u]]
    <3>1. ASSUME NEW u \in Purposes
          PROVE  record'[who][u].withdrawnOn = IF u \in stopped THEN today ELSE StoppedOn[who][u]
      BY <1>2 DEF StoppedOn
    <3>2. StoppedOn'[who] = [u \in Purposes |-> record'[who][u].withdrawnOn]
      BY DEF StoppedOn
    <3> QED
      BY <3>1, <3>2, Zenon
  <2> QED
    BY <2>1, <2>2 DEF StoppedOn
<1>6. Filed' = Filed
  BY DEF Withdraw, Filed
<1>7. Promise!Stop(who, stopped)
  BY <1>1, <1>3, <1>4, <1>5, <1>6 DEF Promise!Stop, Filed, Allowed, StoppedOn
<1> QED
  BY <1>7 DEF Promise!Next

\* A merge takes one of the two answers for each purpose, and a withdrawal if
\* there is one.
LEMMA MergeFuses ==
  ASSUME TypeOK, StoppedAfterSigned, NEW a \in known, NEW s \in known, NEW early,
         Merge(a, s, early)
  PROVE  Promise!Next
<1>1. PICK absorbed \in SUBSET Purposes :
        absorbed = {u \in Purposes :
                      /\ record[a][u].status # "none"
                      /\ \/ record[s][u].status = "none"
                         \/ AbsorbedWins(record[s][u], record[a][u], u \in early)}
  OBVIOUS
<1>2. /\ a \in Persons /\ s \in Persons /\ a # s /\ today' = today
      /\ \A u \in Purposes :
           /\ record'[a][u] = NoRecord
           /\ record'[s][u] = record[IF u \in absorbed THEN a ELSE s][u]
      /\ \A p \in Persons \ {a, s} : record'[p] = record[p]
  BY <1>1, MergeRecords DEF Reconciled
<1>3. \A u \in Purposes :
        \/ StoppedOn[a][u] = NoDay /\ StoppedOn[s][u] = NoDay
        \/ StoppedOn[IF u \in absorbed THEN a ELSE s][u] # NoDay
  BY <1>1, <1>2, StoppedMeansWithdrawn DEF AbsorbedWins
<1>4. Allowed' = [Allowed EXCEPT
        ![a] = [u \in Purposes |-> FALSE],
        ![s] = [u \in Purposes |-> Allowed[IF u \in absorbed THEN a ELSE s][u]]]
  <2>1. ASSUME NEW p \in Persons \ {a, s}
        PROVE  Allowed'[p] = Allowed[p]
    BY <1>2, <2>1 DEF Allowed
  <2>2. Allowed'[a] = [u \in Purposes |-> FALSE]
    <3>1. ASSUME NEW u \in Purposes
          PROVE  (record'[a][u].status = "active") = FALSE
      BY <1>2 DEF NoRecord
    <3>2. Allowed'[a] = [u \in Purposes |-> record'[a][u].status = "active"]
      BY <1>2 DEF Allowed
    <3> QED
      BY <3>1, <3>2, Zenon
  <2>3. Allowed'[s] = [u \in Purposes |-> Allowed[IF u \in absorbed THEN a ELSE s][u]]
    <3>1. ASSUME NEW u \in Purposes
          PROVE  (record'[s][u].status = "active") =
                   Allowed[IF u \in absorbed THEN a ELSE s][u]
      BY <1>2 DEF Allowed
    <3>2. Allowed'[s] = [u \in Purposes |-> record'[s][u].status = "active"]
      BY <1>2 DEF Allowed
    <3> QED
      BY <3>1, <3>2, Zenon
  <2> QED
    BY <1>2, <2>1, <2>2, <2>3 DEF Allowed
<1>5. StoppedOn' = [StoppedOn EXCEPT
        ![a] = [u \in Purposes |-> NoDay],
        ![s] = [u \in Purposes |-> StoppedOn[IF u \in absorbed THEN a ELSE s][u]]]
  <2>1. ASSUME NEW p \in Persons \ {a, s}
        PROVE  StoppedOn'[p] = StoppedOn[p]
    BY <1>2, <2>1 DEF StoppedOn
  <2>2. StoppedOn'[a] = [u \in Purposes |-> NoDay]
    <3>1. \A u \in Purposes : record'[a][u].withdrawnOn = NoDay
      BY <1>2 DEF NoRecord
    <3> QED
      BY <1>2, <3>1 DEF StoppedOn
  <2>3. StoppedOn'[s] = [u \in Purposes |-> StoppedOn[IF u \in absorbed THEN a ELSE s][u]]
    <3>1. \A u \in Purposes :
            record'[s][u].withdrawnOn = StoppedOn[IF u \in absorbed THEN a ELSE s][u]
      BY <1>2 DEF StoppedOn
    <3> QED
      BY <1>2, <3>1 DEF StoppedOn
  <2> QED
    BY <1>2, <2>1, <2>2, <2>3 DEF StoppedOn
<1>6. Filed' = Filed
  BY DEF Merge, Filed
<1>7. Promise!Fuse(a, s, absorbed)
  BY <1>2, <1>3, <1>4, <1>5, <1>6
     DEF Promise!Fuse, Filed, Allowed, StoppedOn, NoDay, Promise!NoDay
<1> QED
  BY <1>2, <1>7 DEF Promise!Next

\* Every step of the register is a step of the promise, or none.
LEMMA PromiseStep ==
  TypeOK /\ TypeOK' /\ StoppedAfterSigned /\ DraftIsItsArtifact /\ [Next]_vars
    => [Promise!Next]_(Promise!vars)
<1> SUFFICES ASSUME TypeOK, TypeOK', StoppedAfterSigned, DraftIsItsArtifact, [Next]_vars
             PROVE  Promise!Next \/ UNCHANGED Promise!vars
  OBVIOUS
<1>1. CASE Quiet
  <2>1. UNCHANGED <<Filed, Allowed, StoppedOn>>
    BY <1>1 DEF Quiet, Filed, Allowed, StoppedOn
  <2>2. CASE today' = today
    BY <2>1, <2>2 DEF Promise!vars, Filed, Allowed, StoppedOn
  <2>3. CASE today' = today + 1
    <3>1. today' \in Promise!Day /\ today' > today
      BY <2>3, RulesAssumption DEF TypeOK, Day, Promise!Day
    <3>2. Promise!NextDay
      BY <2>1, <3>1 DEF Promise!NextDay, Filed, Allowed, StoppedOn
    <3> QED
      BY <3>2 DEF Promise!Next
  <2> QED
    BY <1>1, <2>2, <2>3 DEF Quiet
<1> QED
  BY <1>1, StepCases, CommitSigns, WithdrawStopsPromise, MergeFuses

\* The register implements the promise: every transaction, run alone, is for
\* the system that asks "may I?" a signature, a withdrawal, two people becoming
\* one, a new day, or nothing.
THEOREM RegisterKeepsPromise == Spec => KeepsPromise
<1>1. Init => Promise!Init
  <2> SUFFICES ASSUME Init PROVE Promise!Init
    OBVIOUS
  <2>1. \A p \in Persons, u \in Purposes :
          (record[p][u].status = "active") = FALSE /\ record[p][u].withdrawnOn = Promise!NoDay
    BY DEF Init, NoRecord, NoDay, Promise!NoDay
  <2>2. Allowed = [p \in Persons |-> [u \in Purposes |-> FALSE]]
    BY <2>1, Zenon DEF Allowed
  <2>3. StoppedOn = [p \in Persons |-> [u \in Purposes |-> Promise!NoDay]]
    BY <2>1, Zenon DEF StoppedOn
  <2>4. Filed = {}
    BY DEF Init, Filed
  <2> QED
    BY <2>2, <2>3, <2>4 DEF Init, Promise!Init, Filed, Allowed, StoppedOn
<1>2. TypeOK /\ TypeOK' /\ StoppedAfterSigned /\ DraftIsItsArtifact /\ [Next]_vars
        => [Promise!Next]_(Promise!vars)
  BY PromiseStep
<1> QED
  BY <1>1, <1>2, TypeCorrect, DatesHold, DraftsHold, PTL DEF Spec, KeepsPromise, Promise!Spec
===============================================================================
