---------------------- MODULE RegisterTransactionsProofs ----------------------
(***************************************************************************)
(* What the row locks achieve, for any requests in flight: theorems about  *)
(* RegisterTransactions.                                                   *)
(***************************************************************************)
EXTENDS RegisterTransactions, MergeChainsProofs, TLAPS

-----------------------------------------------------------------------------
(* The invariant                                                           *)

\* The rows a transaction has yet to lock.
Left(t) == Range(todo[t])

RecordsOf(p) == {RecordRow(p, u) : u \in Purposes}

\* A row is locked by one transaction, or shared by some.
LocksExclude ==
  \A t, o \in Txns : t # o => exclusive[t] \cap (exclusive[o] \cup shared[o]) = {}

\* A commit locks its draft, perhaps its person, and the records the form asks
\* for in the order of the purposes; what it has written is the form projected
\* on what is committed.
Projecting(t) ==
  LET d == request[t].draft
      w == who[t]
  IN  /\ exclusive[t] \subseteq {DraftRow(d), PersonRow(w)} \cup RecordsOf(w)
      /\ Left(t) \subseteq RecordsOf(w)
      /\ \A u \in Purposes :
           u \in Asked(FormOf(t)) <=> RecordRow(w, u) \in exclusive[t] \cup Left(t)
      /\ \A u \in Purposes :
           RecordRow(w, u) \in exclusive[t] =>
             /\ view[t][w][u] = Projected(d, FormOf(t), record[w][u], u)
             /\ \A i \in DOMAIN todo[t] : PurposeId[u] < PurposeId[todo[t][i][3]]
      /\ \A i, j \in DOMAIN todo[t] :
           i < j => PurposeId[todo[t][i][3]] < PurposeId[todo[t][j][3]]

CommitFits(t) ==
  LET d == request[t].draft
      w == who[t]
  IN  /\ pc[t] \in {"draft", "resolve", "person", "insert", "check", "artifact", "project", "ended"}
      /\ pc[t] = "draft" => todo[t] = <<DraftRow(d)>> /\ exclusive[t] = {}
      /\ pc[t] \notin {"draft", "ended"} => DraftRow(d) \in exclusive[t] /\ DraftReviewable(d)
      /\ pc[t] \in {"resolve", "person", "insert"} => exclusive[t] = {DraftRow(d)}
      /\ pc[t] \in {"resolve", "check"} => todo[t] = <<>>
      /\ pc[t] = "person" => todo[t] = <<PersonRow(w)>> /\ w \in known
      /\ pc[t] = "insert" => todo[t] = <<PersonRow(FormOf(t).subject)>> /\ Chosen(t) = None
      /\ pc[t] = "artifact" => todo[t] = <<PersonRow(w)>>
      /\ pc[t] \in {"check", "artifact"} => exclusive[t] \subseteq {DraftRow(d), PersonRow(w)}
      /\ pc[t] \in {"check", "artifact", "project"} =>
           \/ w \in known
           \/ w = FormOf(t).subject /\ Chosen(t) = None /\ PersonRow(w) \in exclusive[t]
      /\ shared[t] = IF pc[t] = "project" THEN {PersonRow(w)} ELSE {}
      /\ pc[t] = "project" => Projecting(t)

\* A withdrawal locks the records it found, and stops those that are active.
WithdrawFits(t) ==
  LET w == who[t]
  IN  /\ pc[t] \in {"token", "stop", "tasks", "ended"}
      /\ shared[t] = {}
      /\ pc[t] = "token" => todo[t] = <<>> /\ exclusive[t] = {}
      /\ pc[t] = "stop" => Left(t) \subseteq RecordsOf(w)
      /\ pc[t] = "tasks" => todo[t] = <<PersonRow(w)>>
      /\ pc[t] \in {"stop", "tasks"} =>
           /\ w \in known
           /\ exclusive[t] \subseteq RecordsOf(w)
           /\ \A u \in Purposes :
                RecordRow(w, u) \in exclusive[t] =>
                  /\ record[w][u] # NoRecord
                  /\ view[t][w][u] = IF record[w][u].status = "active"
                                     THEN Stopped(record[w][u]) ELSE record[w][u]

\* A merge holds both people, whose chains nobody else can change, and has seen
\* every record of theirs that it has locked.
MergeFits(t) ==
  LET a == request[t].absorbed
      s == request[t].survivor
      Seen(p) == \A u \in Purposes : record[p][u] # NoRecord => RecordRow(p, u) \in exclusive[t]
      Found(p) == \A u \in Purposes :
                    record[p][u] # NoRecord => RecordRow(p, u) \in exclusive[t] \cup Left(t)
  IN  /\ pc[t] \in {"people", "absorbed", "survivor", "ended"}
      /\ shared[t] = {}
      /\ pc[t] = "people" =>
           exclusive[t] \cup Left(t) = {PersonRow(a), PersonRow(s)} /\ view[t] = Blank
      /\ pc[t] \in {"absorbed", "survivor"} =>
           /\ mergedInto[a] = None
           /\ {PersonRow(a), PersonRow(s)} \subseteq exclusive[t]
           /\ exclusive[t] \subseteq {PersonRow(a), PersonRow(s)} \cup RecordsOf(a) \cup RecordsOf(s)
           /\ \A p \in {a, s}, u \in Purposes :
                view[t][p][u] = IF RecordRow(p, u) \in exclusive[t] THEN record[p][u] ELSE NoRecord
      /\ pc[t] = "absorbed" => Left(t) \subseteq RecordsOf(a) /\ Found(a)
      /\ pc[t] = "survivor" => Left(t) \subseteq RecordsOf(s) /\ Seen(a) /\ Found(s)

Fits(t) ==
  /\ result[t] = "running" <=> pc[t] # "ended"
  /\ pc[t] = "ended" => todo[t] = <<>> /\ exclusive[t] = {} /\ shared[t] = {}
  /\ request[t].op = "commit" => CommitFits(t)
  /\ request[t].op = "withdraw" => WithdrawFits(t)
  /\ request[t].op = "merge" => MergeFits(t)

\* The people of the forms on file stay; a draft under review is one that
\* waited, and whoever filed it has been told so.
FiledStays ==
  /\ {Filed[d].person : d \in DOMAIN Filed} \subseteq known
  /\ \A d \in Drafts : DraftReviewable(d) => d \in DOMAIN Waiting /\ draft[d] = Waiting[d]
  /\ \A t \in Txns :
       request[t].op = "commit" /\ result[t] = "done" =>
         /\ ~ DraftReviewable(request[t].draft)
         /\ artifact[request[t].draft].person = who[t]

TransactionsInv ==
  TypeOK /\ LocksExclude /\ (\A t \in Txns : Fits(t)) /\ FiledStays /\ AcknowledgedOnce

\* All that is withdrawn was withdrawn today, so no form wins over it; a live
\* identity is folded into itself alone; and what was stopped for somebody
\* folded into a live identity is withdrawn there.
StopsStand ==
  /\ \A p \in Persons, u \in Purposes :
       record[p][u].status = "withdrawn" => record[p][u].withdrawnOn = Today
  /\ \A p, q \in Persons : q \in folded[p] /\ mergedInto[q] = None => p = q
  /\ \A p \in Persons \ known : folded[p] = {p}
  /\ \A w \in withdrawals : w.person \in known
  /\ \A w \in withdrawals, p \in known :
       mergedInto[p] = None /\ w.person \in folded[p] /\ ~ Stranded(w.person, w.purpose) =>
         record[p][w.purpose].status = "withdrawn"

Overtaken ==
  \E t \in Txns :
    /\ result[t] = "running" /\ result'[t] = "done"
    /\ \/ request[t].op = "commit" /\ Register!AlreadyRecorded(who[t], FormOf(t))
       \/ /\ request[t].op = "merge"
          /\ Register!Resolve(request[t].survivor) \in {None, request[t].absorbed}

-----------------------------------------------------------------------------
(* Rows and sequences                                                      *)

\* Rows of different kinds, or of different things, differ.
LEMMA RowsDiffer ==
  /\ \A d, e : DraftRow(d) = DraftRow(e) => d = e
  /\ \A p, q : PersonRow(p) = PersonRow(q) => p = q
  /\ \A p, q, u, x : RecordRow(p, u) = RecordRow(q, x) => p = q /\ u = x
  /\ \A d, p, u : /\ DraftRow(d) # PersonRow(p) /\ DraftRow(d) # RecordRow(p, u)
                  /\ PersonRow(d) # RecordRow(p, u)
  /\ \A p, u : RecordRow(p, u)[2] = p /\ RecordRow(p, u)[3] = u
  /\ \A p : PersonRow(p)[2] = p
BY DEF DraftRow, PersonRow, RecordRow

\* The rows that are locked are rows.
LEMMA RowTypes ==
  /\ \A d \in Drafts : DraftRow(d) \in Rows
  /\ \A p \in Persons : PersonRow(p) \in Rows
  /\ \A p \in Persons, u \in Purposes : RecordRow(p, u) \in Rows
BY DEF Rows

\* Short queues of rows are queues of rows.
LEMMA RowSeqs ==
  <<>> \in Seq(Rows) /\ \A p \in Persons : <<PersonRow(p)>> \in Seq(Rows)
<1>1. \A row \in Rows : <<row>> \in Seq(Rows)
  OBVIOUS
<1> QED
  BY <1>1, RowTypes

\* What one of the orderings of a finite set lists.
LEMMA Listed ==
  ASSUME NEW S, IsFiniteSet(S), NEW s \in SetToSeqs(S)
  PROVE  s \in Seq(S) /\ Range(s) = S
<1>1. /\ Cardinality(S) \in Nat /\ s \in [1 .. Cardinality(S) -> S]
      /\ \A i, j \in 1 .. Cardinality(S) : i # j => s[i] # s[j]
  BY FS_CardinalityType DEF SetToSeqs
<1>2. s \in Injection(1 .. Cardinality(S), S)
  BY <1>1 DEF Injection, IsInjective
<1>3. Cardinality(1 .. Cardinality(S)) = Cardinality(S)
  BY <1>1, FS_Interval
<1>4. s \in Surjection(1 .. Cardinality(S), S)
  BY <1>2, <1>3, FS_Injection
<1> QED
  BY <1>1, <1>4 DEF Surjection, Range

\* What is left once the first row is locked.
LEMMA Popped ==
  ASSUME NEW R, NEW s \in Seq(R), s # <<>>
  PROVE  /\ Tail(s) \in Seq(R) /\ Head(s) \in R /\ Head(s) = s[1] /\ 1 \in DOMAIN s
         /\ Range(s) = {Head(s)} \cup Range(Tail(s))
         /\ \A i \in DOMAIN Tail(s) : i \in Nat \ {0} /\ i + 1 \in DOMAIN s /\ Tail(s)[i] = s[i + 1]
<1>1. /\ Tail(s) \in Seq(R) /\ Head(s) \in R /\ Head(s) = s[1] /\ 1 \in DOMAIN s
      /\ DOMAIN s = 1 .. Len(s) /\ Len(s) \in Nat
      /\ DOMAIN Tail(s) = 1 .. Len(s) - 1
      /\ \A i \in 1 .. Len(s) - 1 : Tail(s)[i] = s[i + 1]
  OBVIOUS
<1>2. \A i \in DOMAIN s : i = 1 \/ (i - 1 \in DOMAIN Tail(s) /\ s[i] = Tail(s)[i - 1])
  BY <1>1
<1>3. \A i \in DOMAIN Tail(s) : i \in Nat \ {0} /\ i + 1 \in DOMAIN s /\ Tail(s)[i] = s[i + 1]
  BY <1>1
<1> QED
  BY <1>1, <1>2, <1>3 DEF Range

\* What a queue of no row or of one row holds.
LEMMA ShortRanges ==
  Range(<<>>) = {} /\ \A r : Range(<<r>>) = {r} /\ Head(<<r>>) = r /\ Tail(<<r>>) = <<>> /\ <<r>> # <<>>
BY DEF Range

-----------------------------------------------------------------------------
(* One transaction moves                                                   *)

Moves(t) == Step(t) \/ DeadlockAbort(t) \/ ConnectionLost(t)

\* A transaction that another's step leaves where it was.
Still(o) ==
  /\ pc'[o] = pc[o] /\ todo'[o] = todo[o] /\ who'[o] = who[o] /\ view'[o] = view[o]
  /\ exclusive'[o] = exclusive[o] /\ shared'[o] = shared[o] /\ result'[o] = result[o]

Placed ==
  /\ DOMAIN pc = Txns /\ DOMAIN todo = Txns /\ DOMAIN who = Txns /\ DOMAIN view = Txns
  /\ DOMAIN exclusive = Txns /\ DOMAIN shared = Txns /\ DOMAIN result = Txns
  /\ pc = [t \in Txns |-> pc[t]] /\ todo = [t \in Txns |-> todo[t]]
  /\ who = [t \in Txns |-> who[t]] /\ view = [t \in Txns |-> view[t]]
  /\ exclusive = [t \in Txns |-> exclusive[t]] /\ shared = [t \in Txns |-> shared[t]]
  /\ result = [t \in Txns |-> result[t]]

\* A typed state has every transaction at a statement.
LEMMA TypesPlaced ==
  ASSUME TypeOK
  PROVE  Placed
BY DEF TypeOK, Placed

\* COMMIT and ROLLBACK.
LEMMA Ends ==
  ASSUME Placed, NEW t \in Txns, NEW answer, Ended(t, answer)
  PROVE  /\ pc'[t] = "ended" /\ todo'[t] = <<>> /\ who'[t] = who[t] /\ view'[t] = Blank
         /\ exclusive'[t] = {} /\ shared'[t] = {} /\ result'[t] = answer
         /\ request' = request
         /\ \A o \in Txns \ {t} : Still(o)
BY DEF Ended, GoTo, Placed, Still

\* Going to a statement moves one transaction alone.
LEMMA GoesTo ==
  ASSUME Placed, NEW t \in Txns, NEW s, NEW rows, GoTo(t, s, rows)
  PROVE  /\ pc'[t] = s /\ todo'[t] = rows
         /\ \A o \in Txns \ {t} : pc'[o] = pc[o] /\ todo'[o] = todo[o]
BY DEF GoTo, Placed

\* A lock is added to those of one transaction alone.
LEMMA Locks ==
  ASSUME Placed, NEW t \in Txns, Lock(t)
  PROVE  /\ exclusive'[t] = exclusive[t] \cup {Head(todo[t])}
         /\ \A o \in Txns \ {t} : exclusive'[o] = exclusive[o]
BY DEF Lock, Placed

\* A step of one transaction leaves the others where they are.
LEMMA OthersKeep ==
  ASSUME TypeOK, NEW t \in Txns, Moves(t)
  PROVE  request' = request /\ \A o \in Txns \ {t} : Still(o)
<1> USE TypesPlaced
<1>1. ASSUME NEW answer, Ended(t, answer)
      PROVE  request' = request /\ \A o \in Txns \ {t} : Still(o)
  BY <1>1, Ends
<1>2. CASE DeadlockAbort(t) \/ ConnectionLost(t)
  BY <1>1, <1>2 DEF DeadlockAbort, ConnectionLost, RolledBack
<1>3. CASE LockDraft(t) \/ LockPerson(t) \/ InsertPerson(t)
  <2>1. CASE LockDraft(t)
    BY <1>1, <2>1, GoesTo, Locks DEF LockDraft, RolledBack, Still
  <2>2. CASE LockPerson(t)
    BY <2>2, GoesTo, Locks DEF LockPerson, Still
  <2>3. CASE InsertPerson(t)
    BY <1>1, <2>3, GoesTo, Locks DEF InsertPerson, RolledBack, Still, Placed
  <2> QED
    BY <1>3, <2>1, <2>2, <2>3
<1>4. CASE ResolvePerson(t)
  BY <1>1, <1>4, GoesTo DEF ResolvePerson, RolledBack, Still, Placed, locks
<1>5. CASE CheckOnFile(t) \/ InsertArtifact(t)
  BY <1>1, <1>5, GoesTo DEF CheckOnFile, InsertArtifact, RolledBack, Still, Placed, locks
<1>6. CASE Project(t) \/ StopOne(t)
  BY <1>6, GoesTo, Locks DEF Project, StopOne, Still, Placed
<1>10. CASE LockRecord(t) \/ LockPeople(t)
  BY <1>10, GoesTo, Locks DEF LockRecord, LockPeople, Still, Placed
<1>7. CASE CommitCloses(t) \/ WithdrawEndsLoop(t) \/ WithdrawCloses(t)
  BY <1>1, <1>7, GoesTo DEF CommitCloses, WithdrawEndsLoop, WithdrawCloses, RolledBack, Still, locks
<1>8. CASE Authenticate(t) \/ CheckMerge(t) \/ ReadSurvivor(t)
  BY <1>1, <1>8, GoesTo DEF Authenticate, CheckMerge, ReadSurvivor, RolledBack, Still, Placed, locks
<1>9. CASE \E early \in SUBSET Purposes : MergeCloses(t, early)
  BY <1>1, <1>9 DEF MergeCloses
<1> QED
  BY <1>2, <1>3, <1>4, <1>5, <1>6, <1>7, <1>8, <1>9, <1>10 DEF Moves, Step, CommitStep, WithdrawStep, MergeStep

-----------------------------------------------------------------------------
(* Exclusion                                                               *)

\* A row that can be locked is held by nobody else.
LEMMA Unblocked ==
  ASSUME NEW t \in Txns, NEW s, At(t, s), ~ Passes(t, Head(todo[t]))
  PROVE  \A o \in Txns \ {t} : /\ Head(todo[t]) \notin exclusive[o]
                               /\ ~ Sharing(t) => Head(todo[t]) \notin shared[o]
BY DEF At, Blockers

\* What a step may lock, and of whom that row is free.
LEMMA LockGranted ==
  ASSUME TypeOK, NEW t \in Txns, Fits(t), Moves(t)
  PROVE  \/ exclusive'[t] \subseteq exclusive[t] /\ shared'[t] \subseteq shared[t]
         \/ /\ exclusive'[t] = exclusive[t] \cup {Head(todo[t])} /\ shared'[t] = shared[t]
            /\ \A o \in Txns \ {t} : Head(todo[t]) \notin exclusive[o] \cup shared[o]
         \/ /\ exclusive'[t] = exclusive[t] /\ shared'[t] = shared[t] \cup {Head(todo[t])}
            /\ \A o \in Txns \ {t} : Head(todo[t]) \notin exclusive[o]
<1> USE TypesPlaced
<1>1. ASSUME NEW answer, Ended(t, answer)
      PROVE  exclusive'[t] \subseteq exclusive[t] /\ shared'[t] \subseteq shared[t]
  BY <1>1, Ends
<1>2. ASSUME NEW s, At(t, s), Lock(t), shared' = shared, s \notin {"stop", "insert", "artifact", "tasks"}
      PROVE  /\ exclusive'[t] = exclusive[t] \cup {Head(todo[t])} /\ shared'[t] = shared[t]
             /\ \A o \in Txns \ {t} : Head(todo[t]) \notin exclusive[o] \cup shared[o]
  BY <1>2, Unblocked, Locks DEF At, Passes, Sharing
<1>3. CASE DeadlockAbort(t) \/ ConnectionLost(t)
  BY <1>1, <1>3 DEF DeadlockAbort, ConnectionLost, RolledBack
<1>4. CASE LockDraft(t)
  BY <1>1, <1>2, <1>4 DEF LockDraft, RolledBack
<1>5. CASE LockPerson(t) \/ Project(t)
  BY <1>2, <1>5 DEF LockPerson, Project
<1>6. CASE LockRecord(t) \/ LockPeople(t)
  BY <1>2, <1>6 DEF LockRecord, LockPeople
<1>7. CASE InsertPerson(t)
  <2>1. CASE \E answer : Ended(t, answer)
    BY <1>1, <2>1
  <2>2. CASE exclusive' = exclusive /\ shared' = shared
    BY <2>2
  <2>3. CASE FormOf(t).subject \notin known /\ Lock(t) /\ shared' = shared
    <3>1. At(t, "insert") /\ Head(todo[t]) = PersonRow(FormOf(t).subject)
      <4>1. At(t, "insert")
        BY <1>7 DEF InsertPerson
      <4>2. CommitFits(t)
        BY <4>1, TransactionsAssumption DEF At, Fits, CommitFits, WithdrawFits, MergeFits, TypeOK
      <4> QED
        BY <4>1, <4>2, ShortRanges DEF At, CommitFits
    <3>2. ~ Passes(t, Head(todo[t])) /\ ~ Sharing(t)
      BY <2>3, <3>1, RowsDiffer DEF Passes, At, Sharing
    <3> QED
      BY <2>3, <3>1, <3>2, Unblocked, Locks
  <2> QED
    BY <1>7, <2>1, <2>2, <2>3 DEF InsertPerson, RolledBack
<1>8. CASE InsertArtifact(t)
  <2>1. At(t, "artifact") /\ exclusive' = exclusive /\ shared'[t] = shared[t] \cup {Head(todo[t])}
    BY <1>8 DEF InsertArtifact, Placed
  <2>2. ~ Passes(t, Head(todo[t]))
    BY <2>1 DEF Passes, At
  <2> QED
    BY <2>1, <2>2, Unblocked
<1>9. CASE StopOne(t)
  <2>1. CASE exclusive' = exclusive /\ shared' = shared
    BY <2>1
  <2>2. CASE record[who[t]][Head(todo[t])[3]] # NoRecord /\ Lock(t) /\ shared' = shared
    <3>1. At(t, "stop") /\ Head(todo[t]) \in RecordsOf(who[t])
      <4>1. At(t, "stop") /\ todo[t] \in Seq(Rows) /\ todo[t] # <<>>
        BY <1>9 DEF StopOne, At, TypeOK
      <4>2. Head(todo[t]) \in Left(t)
        BY <4>1, Popped DEF Left
      <4>3. WithdrawFits(t)
        BY <4>1, TransactionsAssumption DEF At, Fits, CommitFits, WithdrawFits, MergeFits, TypeOK
      <4> QED
        BY <4>1, <4>2, <4>3 DEF At, WithdrawFits
    <3>2. ~ Passes(t, Head(todo[t])) /\ ~ Sharing(t)
      BY <2>2, <3>1, RowsDiffer DEF Passes, At, Sharing, RecordsOf
    <3> QED
      BY <2>2, <3>1, <3>2, Unblocked, Locks
  <2> QED
    BY <1>9, <2>1, <2>2 DEF StopOne
<1>10. CASE ResolvePerson(t) \/ Authenticate(t) \/ ReadSurvivor(t)
  BY <1>1, <1>10 DEF ResolvePerson, Authenticate, ReadSurvivor, RolledBack, locks
<1>11. CASE CheckOnFile(t) \/ CommitCloses(t) \/ WithdrawEndsLoop(t) \/ WithdrawCloses(t) \/ CheckMerge(t)
  BY <1>1, <1>11 DEF CheckOnFile, CommitCloses, WithdrawEndsLoop, WithdrawCloses, CheckMerge,
                     RolledBack, locks
<1>12. CASE \E early \in SUBSET Purposes : MergeCloses(t, early)
  BY <1>1, <1>12 DEF MergeCloses
<1> QED
  BY <1>3, <1>4, <1>5, <1>6, <1>7, <1>8, <1>9, <1>10, <1>11, <1>12
     DEF Moves, Step, CommitStep, WithdrawStep, MergeStep

\* No two transactions come to hold the same row.
LEMMA LocksStep ==
  ASSUME TypeOK, LocksExclude, NEW t \in Txns, Fits(t), Moves(t)
  PROVE  LocksExclude'
<1>1. \A o \in Txns \ {t} : exclusive'[o] = exclusive[o] /\ shared'[o] = shared[o]
  BY OthersKeep DEF Still
<1> QED
  BY <1>1, LockGranted DEF LocksExclude

-----------------------------------------------------------------------------
(* What a transaction that commits has done                                *)

\* The statement a transaction is at tells what it was asked.
LEMMA PcTells ==
  ASSUME TypeOK, NEW t \in Txns, Fits(t)
  PROVE  /\ pc[t] \in {"draft", "resolve", "person", "insert", "check", "artifact", "project"} =>
              request[t].op = "commit" /\ CommitFits(t)
         /\ pc[t] \in {"token", "stop", "tasks"} => request[t].op = "withdraw" /\ WithdrawFits(t)
         /\ pc[t] \in {"people", "absorbed", "survivor"} => request[t].op = "merge" /\ MergeFits(t)
<1>1. request[t].op \in {"commit", "withdraw", "merge"}
  BY TransactionsAssumption DEF TypeOK
<1> QED
  BY <1>1 DEF Fits, CommitFits, WithdrawFits, MergeFits

\* What the requests name exists.
LEMMA RequestTypes ==
  ASSUME TypeOK, FiledStays, NEW t \in Txns
  PROVE  /\ request[t].op = "commit" => request[t].draft \in Drafts
         /\ request[t].op = "withdraw" => request[t].purposes \in Seq(Purposes)
         /\ request[t].op = "merge" =>
              /\ request[t].absorbed # request[t].survivor
              /\ request[t].absorbed \in known /\ request[t].survivor \in known
BY TransactionsAssumption DEF TypeOK, FiledStays

\* The register and its transactions go by the same rules.
LEMMA SameRules ==
  /\ Register!Day = Day /\ Register!Record = Record /\ Register!NoRecord = NoRecord
  /\ Register!Form = Form
  /\ \A f : Register!Asked(f) = Asked(f)
  /\ \A d, f, r, u : Register!Projected(d, f, r, u) = Projected(d, f, r, u)
  /\ \A s, a : /\ Register!Reconciled(s, a, TRUE) = Reconciled(s, a, TRUE)
               /\ Register!Reconciled(s, a, FALSE) = Reconciled(s, a, FALSE)
<1>1. Register!Day = Day /\ Register!DayOrNull = DayOrNull /\ Register!NoDay = NoDay
  BY DEF Register!Day, Day, Register!DayOrNull, DayOrNull, Register!NoDay, NoDay
<1>2. Register!Record = Record /\ Register!NoRecord = NoRecord /\ Register!Form = Form
  BY <1>1 DEF Register!Record, Record, Register!NoRecord, NoRecord, Register!Form, Form
<1>3. \A f : Register!Asked(f) = Asked(f)
  BY DEF Register!Asked, Asked
<1>4. \A d, f, r, u : Register!Projected(d, f, r, u) = Projected(d, f, r, u)
  BY <1>1, <1>3 DEF Register!Projected, Projected, Register!WinsOver, WinsOver,
                    Register!Answered, Answered
<1>5. \A s, a : /\ Register!Reconciled(s, a, TRUE) = Reconciled(s, a, TRUE)
               /\ Register!Reconciled(s, a, FALSE) = Reconciled(s, a, FALSE)
  BY <1>1 DEF Register!Reconciled, Reconciled, Register!AbsorbedWins, AbsorbedWins
<1> QED
  BY <1>1, <1>2, <1>3, <1>4, <1>5

\* The register, taken apart.
LEMMA KnownTypes ==
  ASSUME TypeOK
  PROVE  /\ known \subseteq Persons
         /\ \A p \in Persons : record[p] \in [Purposes -> Record]
         /\ \A p \in Persons, u \in Purposes : record[p][u] \in Record
         /\ record = [p \in Persons |-> record[p]]
         /\ \A p \in Persons : record[p] = [u \in Purposes |-> record[p][u]]
<1>1. known \subseteq Persons
  BY DEF TypeOK, Register!TypeOK
<1>2. record \in [Persons -> [Purposes -> Record]]
  BY SameRules DEF TypeOK, Register!TypeOK
<1> QED
  BY <1>1, <1>2

\* The form of a reviewable draft.
LEMMA FormTypes ==
  ASSUME TypeOK, FiledStays, NEW d \in Drafts, DraftReviewable(d)
  PROVE  /\ draft[d].form \in Papers /\ draft[d].form \in Form
         /\ draft[d].form.collectedOn \in DayOrNull /\ draft[d].form.collectedOn <= Today
         /\ draft[d].form.subject \in Persons
         /\ Asked(draft[d].form) \subseteq Purposes
BY TransactionsAssumption DEF FiledStays, Form, Asked

\* A commit files the form under its person, and projects it on every record
\* as it is then.
LEMMA CommitEffect ==
  ASSUME TypeOK, FiledStays, NEW t \in Txns, Fits(t), CommitCloses(t)
  PROVE  LET d == request[t].draft
             w == who[t]
         IN  /\ request[t].op = "commit" /\ d \in Drafts /\ w \in Persons
             /\ DraftReviewable(d) /\ DraftRow(d) \in exclusive[t]
             /\ known' = known \cup {w}
             /\ artifact' = [artifact EXCEPT ![d] = [person |-> w, form |-> FormOf(t)]]
             /\ draft' = [draft EXCEPT ![d].status = "committed", ![d].matched = w]
             /\ UNCHANGED <<mergedInto, withdrawals, folded, tasks>>
             /\ record' = [record EXCEPT ![w] =
                             [u \in Purposes |-> Projected(d, FormOf(t), record[w][u], u)]]
             /\ \A u \in Purposes :
                  RecordRow(w, u) \notin exclusive[t] => record'[w][u] = record[w][u]
             /\ shared[t] = {PersonRow(w)}
             /\ Ended(t, "done")
<1> DEFINE d == request[t].draft
           w == who[t]
           f == FormOf(t)
           after == [u \in Purposes |-> Projected(d, f, record[w][u], u)]
<1>1. pc[t] = "project" /\ todo[t] = <<>>
  BY DEF CommitCloses, Past
<1>2. request[t].op = "commit" /\ CommitFits(t) /\ Projecting(t)
  BY <1>1, PcTells DEF CommitFits
<1>3. d \in Drafts /\ DraftReviewable(d) /\ DraftRow(d) \in exclusive[t]
  BY <1>1, <1>2, RequestTypes DEF CommitFits
<1>4. w \in Persons
  BY <1>1, <1>2, <1>3, KnownTypes, FormTypes DEF CommitFits, FormOf
<1>5. Left(t) = {}
  BY <1>1, ShortRanges DEF Left
<1>6. \A u \in Purposes : RecordRow(w, u) \in exclusive[t] <=> u \in Asked(f)
  BY <1>2, <1>5 DEF Projecting
<1>7. \A p \in Persons, u \in Purposes : RecordRow(p, u) \in exclusive[t] => p = w
  BY <1>2, RowsDiffer DEF Projecting, RecordsOf
<1>8. \A u \in Purposes :
        Projected(d, f, record[w][u], u) =
          IF RecordRow(w, u) \in exclusive[t] THEN view[t][w][u] ELSE record[w][u]
  BY <1>2, <1>6 DEF Projecting, Projected
<1>9. record' = Written(t)
  BY <1>3 DEF CommitCloses
<1>10. Written(t) = [record EXCEPT ![w] = after]
  <2>1. \A p \in Persons : p # w => [u \in Purposes |->
           IF RecordRow(p, u) \in exclusive[t] THEN view[t][p][u] ELSE record[p][u]] = record[p]
    BY <1>7, KnownTypes
  <2>2. [u \in Purposes |->
           IF RecordRow(w, u) \in exclusive[t] THEN view[t][w][u] ELSE record[w][u]] = after
    BY <1>8
  <2> HIDE DEF after, w
  <2> QED
    BY <1>4, <2>1, <2>2, KnownTypes DEF Written
<1>11. \A u \in Purposes : RecordRow(w, u) \notin exclusive[t] => record'[w][u] = record[w][u]
  BY <1>4, <1>9 DEF Written
<1> QED
  BY <1>1, <1>2, <1>3, <1>4, <1>9, <1>10, <1>11 DEF CommitCloses, CommitFits

\* A withdrawal stops what it found active, which is still active.
LEMMA WithdrawEffect ==
  ASSUME TypeOK, FiledStays, NEW t \in Txns, Fits(t), pc[t] \in {"stop", "tasks"}
  PROVE  LET w == who[t]
         IN  /\ request[t].op = "withdraw" /\ w \in known /\ w \in Persons
             /\ Changed(t) = {u \in Purposes : /\ RecordRow(w, u) \in exclusive[t]
                                               /\ record[w][u].status = "active"}
             /\ Written(t) = [record EXCEPT ![w] =
                                [u \in Purposes |-> IF u \in Changed(t) THEN Stopped(record[w][u])
                                                    ELSE record[w][u]]]
             /\ \A p \in Persons, u \in Purposes :
                  RecordRow(p, u) \in exclusive[t] => p = w /\ record[p][u] # NoRecord
<1> DEFINE w == who[t]
           after == [u \in Purposes |-> IF u \in Changed(t) THEN Stopped(record[w][u])
                                        ELSE record[w][u]]
<1>1. request[t].op = "withdraw" /\ WithdrawFits(t)
  BY PcTells
<1>2. w \in known /\ w \in Persons
  BY <1>1, KnownTypes DEF WithdrawFits
<1>3. \A u \in Purposes :
        RecordRow(w, u) \in exclusive[t] =>
          /\ record[w][u] # NoRecord
          /\ view[t][w][u] = IF record[w][u].status = "active"
                             THEN Stopped(record[w][u]) ELSE record[w][u]
  BY <1>1 DEF WithdrawFits
<1>4. \A u \in Purposes : Stopped(record[w][u]).status = "withdrawn"
  BY <1>2, KnownTypes DEF Stopped, Record
<1>5. Changed(t) = {u \in Purposes : /\ RecordRow(w, u) \in exclusive[t]
                                     /\ record[w][u].status = "active"}
  BY <1>3, <1>4 DEF Changed
<1>6. \A p \in Persons, u \in Purposes : RecordRow(p, u) \in exclusive[t] => p = w
  BY <1>1, RowsDiffer DEF WithdrawFits, RecordsOf
<1>7. Written(t) = [record EXCEPT ![w] = after]
  <2>1. \A p \in Persons : p # w => [u \in Purposes |->
           IF RecordRow(p, u) \in exclusive[t] THEN view[t][p][u] ELSE record[p][u]] = record[p]
    BY <1>6, KnownTypes
  <2>2. [u \in Purposes |->
           IF RecordRow(w, u) \in exclusive[t] THEN view[t][w][u] ELSE record[w][u]] = after
    BY <1>3, <1>5
  <2> HIDE DEF after, w
  <2> QED
    BY <1>2, <2>1, <2>2, KnownTypes DEF Written
<1> QED
  BY <1>1, <1>2, <1>3, <1>5, <1>6, <1>7

\* A merge reconciles the records of both people as they are then.
LEMMA MergeEffect ==
  ASSUME TypeOK, FiledStays, NEW t \in Txns, Fits(t), NEW early, MergeCloses(t, early)
  PROVE  LET a == request[t].absorbed
             s == request[t].survivor
         IN  /\ request[t].op = "merge" /\ a # s /\ a \in known /\ s \in known
             /\ a \in Persons /\ s \in Persons /\ mergedInto[a] = None
             /\ {PersonRow(a), PersonRow(s)} \subseteq exclusive[t]
             /\ mergedInto' = [mergedInto EXCEPT ![a] = s]
             /\ record' = [record EXCEPT
                  ![a] = [u \in Purposes |-> NoRecord],
                  ![s] = [u \in Purposes |-> Reconciled(record[s][u], record[a][u], u \in early)]]
             /\ folded' = [folded EXCEPT ![a] = {}, ![s] = folded[s] \cup folded[a]]
             /\ UNCHANGED <<known, draft, artifact, withdrawals, tasks>>
             /\ \A p \in {a, s}, u \in Purposes :
                  record[p][u] # NoRecord => RecordRow(p, u) \in exclusive[t]
             /\ Ended(t, "done")
<1> DEFINE a == request[t].absorbed
           s == request[t].survivor
<1>1. pc[t] = "survivor" /\ todo[t] = <<>>
  BY DEF MergeCloses, Past
<1>2. request[t].op = "merge" /\ MergeFits(t)
  BY <1>1, PcTells
<1>3. a # s /\ a \in known /\ s \in known /\ a \in Persons /\ s \in Persons
  BY <1>2, RequestTypes, KnownTypes
<1>4. Left(t) = {}
  BY <1>1, ShortRanges DEF Left
<1>5. \A p \in {a, s}, u \in Purposes : record[p][u] # NoRecord => RecordRow(p, u) \in exclusive[t]
  BY <1>1, <1>2, <1>4 DEF MergeFits
<1>6. \A p \in {a, s}, u \in Purposes : view[t][p][u] = record[p][u]
  BY <1>1, <1>2, <1>5 DEF MergeFits
<1>7. mergedInto[a] = None /\ {PersonRow(a), PersonRow(s)} \subseteq exclusive[t]
  BY <1>1, <1>2 DEF MergeFits
<1>8. [u \in Purposes |-> Reconciled(view[t][s][u], view[t][a][u], u \in early)]
        = [u \in Purposes |-> Reconciled(record[s][u], record[a][u], u \in early)]
  BY <1>6
<1>9. record' = [record EXCEPT
        ![a] = [u \in Purposes |-> NoRecord],
        ![s] = [u \in Purposes |-> Reconciled(view[t][s][u], view[t][a][u], u \in early)]]
  BY DEF MergeCloses
<1> QED
  BY <1>2, <1>3, <1>5, <1>7, <1>8, <1>9 DEF MergeCloses

-----------------------------------------------------------------------------
(* What a lock protects                                                    *)

\* Nothing is written but by a transaction that commits.
LEMMA OnlyCommitsWrite ==
  ASSUME NEW t \in Txns, Moves(t)
  PROVE  \/ UNCHANGED database
         \/ CommitCloses(t)
         \/ pc[t] = "tasks" /\ WithdrawCloses(t)
         \/ \E early \in SUBSET Purposes : MergeCloses(t, early)
BY DEF Moves, Step, CommitStep, WithdrawStep, MergeStep, DeadlockAbort, ConnectionLost, RolledBack,
       LockDraft, ResolvePerson, LockPerson, InsertPerson, CheckOnFile, InsertArtifact, Project,
       Authenticate, StopOne, WithdrawEndsLoop, WithdrawCloses, LockPeople, CheckMerge, LockRecord,
       ReadSurvivor, At

\* What t has locked no other transaction changes, and nobody gives a record to
\* a person who is locked.
Undisturbed(t) ==
  /\ known \subseteq known'
  /\ \A d \in Drafts : DraftRow(d) \in exclusive[t] => draft'[d] = draft[d]
  /\ \A p \in Persons :
       PersonRow(p) \in exclusive[t] =>
         /\ mergedInto'[p] = mergedInto[p]
         /\ \A u \in Purposes : record[p][u] = NoRecord => record'[p][u] = NoRecord
  /\ \A p \in Persons, u \in Purposes :
       RecordRow(p, u) \in exclusive[t] => record'[p][u] = record[p][u]

\* What a merge writes no other transaction has read under a lock.
LEMMA MergeDisturbsNobody ==
  ASSUME TypeOK, LocksExclude, \A t \in Txns : Fits(t), FiledStays,
         NEW t \in Txns, NEW o \in Txns \ {t},
         NEW early, MergeCloses(o, early)
  PROVE  Undisturbed(t)
<1> DEFINE a == request[o].absorbed
           s == request[o].survivor
<1>1. /\ a # s /\ a \in Persons /\ s \in Persons
      /\ {PersonRow(a), PersonRow(s)} \subseteq exclusive[o]
      /\ mergedInto' = [mergedInto EXCEPT ![a] = s]
      /\ record' = [record EXCEPT
           ![a] = [u \in Purposes |-> NoRecord],
           ![s] = [u \in Purposes |-> Reconciled(record[s][u], record[a][u], u \in early)]]
      /\ UNCHANGED <<known, draft>>
      /\ \A p \in {a, s}, u \in Purposes :
           record[p][u] # NoRecord => RecordRow(p, u) \in exclusive[o]
  BY MergeEffect
<1>2. \A p \in {a, s} : PersonRow(p) \notin exclusive[t] \cup shared[t]
  BY <1>1 DEF LocksExclude
<1>3. \A p \in {a, s}, u \in Purposes : RecordRow(p, u) \notin exclusive[t]
  <2> SUFFICES ASSUME NEW p \in {a, s}, NEW u \in Purposes, RecordRow(p, u) \in exclusive[t]
               PROVE  FALSE
    OBVIOUS
  <2>1. Fits(t) /\ request[t].op \in {"commit", "withdraw", "merge"}
    BY TransactionsAssumption DEF TypeOK
  <2>2. CASE request[t].op = "commit"
    <3>1. CommitFits(t) /\ (pc[t] = "ended" => exclusive[t] = {})
      BY <2>1, <2>2 DEF Fits
    <3>2. pc[t] = "project"
      BY <3>1, RowsDiffer DEF CommitFits
    <3>3. Projecting(t) /\ shared[t] = {PersonRow(who[t])}
      BY <3>1, <3>2 DEF CommitFits
    <3>4. RecordRow(p, u) \in RecordsOf(who[t])
      BY <3>3, RowsDiffer DEF Projecting
    <3>5. p = who[t]
      BY <3>4, RowsDiffer DEF RecordsOf
    <3> QED
      BY <1>2, <3>3, <3>5
  <2>3. CASE request[t].op = "withdraw"
    <3>1. WithdrawFits(t) /\ (pc[t] = "ended" => exclusive[t] = {})
      BY <2>1, <2>3 DEF Fits
    <3>2. pc[t] \in {"stop", "tasks"}
      BY <3>1 DEF WithdrawFits
    <3>3. p = who[t]
      BY <3>1, <3>2, RowsDiffer DEF WithdrawFits, RecordsOf
    <3>4. record[p][u] # NoRecord
      BY <3>1, <3>2, <3>3 DEF WithdrawFits
    <3> QED
      BY <1>1, <3>4 DEF LocksExclude
  <2>4. CASE request[t].op = "merge"
    <3>1. MergeFits(t) /\ (pc[t] = "ended" => exclusive[t] = {})
      BY <2>1, <2>4 DEF Fits
    <3>2. pc[t] \in {"absorbed", "survivor"}
      BY <3>1, RowsDiffer DEF MergeFits
    <3> DEFINE b == request[t].absorbed
               r == request[t].survivor
    <3>3. /\ {PersonRow(b), PersonRow(r)} \subseteq exclusive[t]
          /\ exclusive[t] \subseteq {PersonRow(b), PersonRow(r)} \cup RecordsOf(b) \cup RecordsOf(r)
      BY <3>1, <3>2 DEF MergeFits
    <3>4. RecordRow(p, u) \in RecordsOf(b) \cup RecordsOf(r)
      BY <3>3, RowsDiffer
    <3>5. p = b \/ p = r
      BY <3>4, RowsDiffer DEF RecordsOf
    <3> QED
      BY <1>2, <3>3, <3>5
  <2> QED
    BY <2>1, <2>2, <2>3, <2>4
<1>4. \A p \in Persons \ {a, s} : mergedInto'[p] = mergedInto[p] /\ record'[p] = record[p]
  <2> HIDE DEF a, s
  <2>1. DOMAIN mergedInto = Persons /\ DOMAIN record = Persons
    BY DEF TypeOK, Register!TypeOK
  <2>2. \A p \in Persons \ {a, s} : mergedInto'[p] = mergedInto[p]
    BY <1>1, <2>1
  <2>3. \A p \in Persons \ {a, s} : record'[p] = record[p]
    BY <1>1, <2>1
  <2> QED
    BY <2>2, <2>3
<1> QED
  BY <1>1, <1>2, <1>3, <1>4 DEF Undisturbed

\* What a commit writes no other transaction has read under a lock.
LEMMA CommitDisturbsNobody ==
  ASSUME TypeOK, LocksExclude, \A t \in Txns : Fits(t), FiledStays,
         NEW t \in Txns, NEW o \in Txns \ {t}, CommitCloses(o)
  PROVE  Undisturbed(t)
<1> DEFINE d == request[o].draft
           w == who[o]
<1>1. /\ d \in Drafts /\ w \in Persons /\ DraftRow(d) \in exclusive[o]
      /\ known' = known \cup {w} /\ UNCHANGED mergedInto
      /\ draft' = [draft EXCEPT ![d].status = "committed", ![d].matched = w]
      /\ record' = [record EXCEPT ![w] =
                      [u \in Purposes |-> Projected(d, FormOf(o), record[w][u], u)]]
      /\ \A u \in Purposes : RecordRow(w, u) \notin exclusive[o] => record'[w][u] = record[w][u]
      /\ shared[o] = {PersonRow(w)}
  BY CommitEffect
<1>2. DraftRow(d) \notin exclusive[t] /\ PersonRow(w) \notin exclusive[t]
  BY <1>1 DEF LocksExclude
<1>3. \A e \in Drafts : e # d => draft'[e] = draft[e]
  BY <1>1 DEF TypeOK, Register!TypeOK
<1>4. \A p \in Persons \ {w} : record'[p] = record[p]
  BY <1>1
<1>5. \A u \in Purposes : RecordRow(w, u) \in exclusive[t] => record'[w][u] = record[w][u]
  BY <1>1 DEF LocksExclude
<1> QED
  BY <1>1, <1>2, <1>3, <1>4, <1>5 DEF Undisturbed

\* What a withdrawal writes no other transaction has read under a lock.
LEMMA WithdrawalDisturbsNobody ==
  ASSUME TypeOK, LocksExclude, \A t \in Txns : Fits(t), FiledStays,
         NEW t \in Txns, NEW o \in Txns \ {t}, pc[o] = "tasks", WithdrawCloses(o)
  PROVE  Undisturbed(t)
<1> DEFINE w == who[o]
<1>1. /\ w \in Persons
      /\ Changed(o) = {u \in Purposes : /\ RecordRow(w, u) \in exclusive[o]
                                        /\ record[w][u].status = "active"}
      /\ record' = [record EXCEPT ![w] =
                      [u \in Purposes |-> IF u \in Changed(o) THEN Stopped(record[w][u])
                                          ELSE record[w][u]]]
      /\ UNCHANGED <<known, mergedInto, draft>>
  BY WithdrawEffect DEF WithdrawCloses
<1>2. \A p \in Persons \ {w} : record'[p] = record[p]
  BY <1>1
<1>3. \A u \in Purposes :
        /\ record'[w][u] = IF u \in Changed(o) THEN Stopped(record[w][u]) ELSE record[w][u]
        /\ record[w][u] = NoRecord => u \notin Changed(o)
  <2>1. \A u \in Purposes :
          record'[w][u] = IF u \in Changed(o) THEN Stopped(record[w][u]) ELSE record[w][u]
    BY <1>1, KnownTypes
  <2> QED
    BY <1>1, <2>1 DEF NoRecord
<1>4. \A u \in Purposes : RecordRow(w, u) \in exclusive[t] => u \notin Changed(o)
  BY <1>1 DEF LocksExclude
<1> QED
  BY <1>1, <1>2, <1>3, <1>4 DEF Undisturbed

\* Locks keep what a transaction has read from every other.
LEMMA NobodyDisturbed ==
  ASSUME TypeOK, LocksExclude, \A t \in Txns : Fits(t), FiledStays,
         NEW t \in Txns, NEW o \in Txns \ {t}, Moves(o)
  PROVE  Undisturbed(t)
<1>1. CASE UNCHANGED database
  BY <1>1 DEF database, Undisturbed
<1> QED
  BY <1>1, OnlyCommitsWrite, MergeDisturbsNobody, CommitDisturbsNobody, WithdrawalDisturbsNobody

\* So what is known of t stays true while others work.
LEMMA FitsStays ==
  ASSUME TypeOK, FiledStays, NEW t \in Txns, Fits(t), Still(t), Undisturbed(t), request' = request
  PROVE  Fits(t)'
<1> USE DEF Still
<1> DEFINE d == request[t].draft
           w == who[t]
<1>1. request[t].op \in {"commit", "withdraw", "merge"}
  BY TransactionsAssumption DEF TypeOK
<1>2. CASE request[t].op = "commit" /\ pc[t] \notin {"draft", "ended"}
  <2>1. CommitFits(t) /\ d \in Drafts /\ DraftRow(d) \in exclusive[t]
    BY <1>2, RequestTypes DEF Fits, CommitFits
  <2>2. draft'[d] = draft[d] /\ FormOf(t)' = FormOf(t) /\ Chosen(t)' = Chosen(t)
    BY <2>1 DEF Undisturbed, FormOf, Chosen
  <2>3. Projecting(t) /\ w \in Persons => Projecting(t)'
    BY <2>2 DEF Projecting, Undisturbed, Left, RecordsOf
  <2>4. pc[t] = "project" => w \in Persons
    BY <2>1, KnownTypes, FormTypes DEF CommitFits, FormOf
  <2>5. known \subseteq known'
    BY DEF Undisturbed
  <2>6. CommitFits(t)'
    BY <1>2, <2>1, <2>2, <2>3, <2>4, <2>5 DEF CommitFits, DraftReviewable
  <2> QED
    BY <1>2, <2>6 DEF Fits
<1>3. CASE request[t].op = "commit" /\ pc[t] \in {"draft", "ended"}
  BY <1>3 DEF Fits, CommitFits
<1>4. CASE request[t].op = "withdraw"
  <2>1. WithdrawFits(t)
    BY <1>4 DEF Fits
  <2>2. pc[t] \in {"stop", "tasks"} => w \in Persons
    BY <2>1, KnownTypes DEF WithdrawFits
  <2>3. WithdrawFits(t)'
    BY <2>1, <2>2 DEF WithdrawFits, Undisturbed, Left, RecordsOf
  <2> QED
    BY <1>4, <2>3 DEF Fits
<1>5. CASE request[t].op = "merge"
  <2> DEFINE a == request[t].absorbed
             s == request[t].survivor
  <2>1. MergeFits(t) /\ a \in Persons /\ s \in Persons
    BY <1>5, RequestTypes, KnownTypes DEF Fits
  <2>2. CASE pc[t] \in {"absorbed", "survivor"}
    <3>1. /\ mergedInto[a] = None
          /\ {PersonRow(a), PersonRow(s)} \subseteq exclusive[t]
          /\ exclusive[t] \subseteq {PersonRow(a), PersonRow(s)} \cup RecordsOf(a) \cup RecordsOf(s)
          /\ \A p \in {a, s}, u \in Purposes :
               view[t][p][u] = IF RecordRow(p, u) \in exclusive[t] THEN record[p][u] ELSE NoRecord
      BY <2>1, <2>2 DEF MergeFits
    <3>2. /\ mergedInto'[a] = None
          /\ \A p \in {a, s}, u \in Purposes :
               /\ record[p][u] = NoRecord => record'[p][u] = NoRecord
               /\ RecordRow(p, u) \in exclusive[t] => record'[p][u] = record[p][u]
      BY <2>1, <3>1 DEF Undisturbed
    <3>3. /\ pc[t] = "absorbed" =>
               /\ Left(t) \subseteq RecordsOf(a)
               /\ \A u \in Purposes :
                    record[a][u] # NoRecord => RecordRow(a, u) \in exclusive[t] \cup Left(t)
          /\ pc[t] = "survivor" =>
               /\ Left(t) \subseteq RecordsOf(s)
               /\ \A u \in Purposes : record[a][u] # NoRecord => RecordRow(a, u) \in exclusive[t]
               /\ \A u \in Purposes :
                    record[s][u] # NoRecord => RecordRow(s, u) \in exclusive[t] \cup Left(t)
      BY <2>1 DEF MergeFits
    <3>4. MergeFits(t)'
      BY <2>1, <2>2, <3>1, <3>2, <3>3 DEF MergeFits, Left, RecordsOf
    <3> QED
      BY <1>5, <2>2, <3>4 DEF Fits
  <2>3. CASE pc[t] \notin {"absorbed", "survivor"}
    <3>1. MergeFits(t)'
      BY <2>1, <2>3 DEF MergeFits, Left
    <3> QED
      BY <1>5, <3>1 DEF Fits
  <2> QED
    BY <2>2, <2>3
<1> QED
  BY <1>1, <1>2, <1>3, <1>4, <1>5

-----------------------------------------------------------------------------
(* A transaction's own steps                                               *)

\* What TypeOK says of t.
Typed(t) ==
  /\ pc[t] \in {"draft", "resolve", "person", "insert", "check", "artifact", "project",
                "token", "stop", "tasks", "people", "absorbed", "survivor", "ended"}
  /\ todo[t] \in Seq(Rows)
  /\ who[t] \in Persons \cup {None}
  /\ view[t] \in [Persons -> [Purposes -> Record]]
  /\ exclusive[t] \in SUBSET Rows
  /\ shared[t] \in SUBSET Rows
  /\ result[t] \in {"running", "done", "refused", "deadlock", "lost"}

Suits(t) == Typed(t) /\ Fits(t)

\* A typed state is typed for each transaction.
LEMMA TypedNow ==
  ASSUME TypeOK, NEW t \in Txns
  PROVE  Typed(t)
BY DEF TypeOK, Typed

\* Once it has ended, it holds nothing.
LEMMA EndedSuits ==
  ASSUME TypeOK, NEW t \in Txns, NEW answer \in {"done", "refused", "deadlock", "lost"},
         Ended(t, answer)
  PROVE  Suits(t)'
<1>1. /\ pc'[t] = "ended" /\ todo'[t] = <<>> /\ who'[t] = who[t] /\ view'[t] = Blank
      /\ exclusive'[t] = {} /\ shared'[t] = {} /\ result'[t] = answer
      /\ request' = request
  BY Ends, TypesPlaced
<1>2. Blank \in [Persons -> [Purposes -> Record]]
  <2>1. NoRecord \in Record
    BY DEF NoRecord, Record, DayOrNull
  <2> QED
    BY <2>1 DEF Blank
<1>3. Typed(t)'
  BY <1>1, <1>2, TypedNow DEF Typed
<1>4. Fits(t)'
  BY <1>1 DEF Fits, CommitFits, WithdrawFits, MergeFits
<1> QED
  BY <1>3, <1>4 DEF Suits

\* After locking its draft a commit suits its statement.
LEMMA LockDraftSuits ==
  ASSUME TypeOK, FiledStays, NEW t \in Txns, Fits(t), LockDraft(t)
  PROVE  Suits(t)'
<1> DEFINE d == request[t].draft
<1>1. pc[t] = "draft" /\ request[t].op = "commit" /\ CommitFits(t)
  BY PcTells DEF LockDraft, At
<1>2. todo[t] = <<DraftRow(d)>> /\ exclusive[t] = {} /\ shared[t] = {} /\ d \in Drafts
  BY <1>1, RequestTypes DEF CommitFits
<1>3. CASE RolledBack(t, "refused")
  BY <1>3, EndedSuits DEF RolledBack
<1>4. CASE ~ RolledBack(t, "refused")
  <2>1. /\ DraftReviewable(d) /\ Lock(t) /\ GoTo(t, "resolve", <<>>)
        /\ UNCHANGED <<database, request, who, view, shared, result>>
    BY <1>4 DEF LockDraft
  <2>2. /\ pc'[t] = "resolve" /\ todo'[t] = <<>> /\ exclusive'[t] = {DraftRow(d)}
        /\ shared'[t] = {} /\ who'[t] = who[t] /\ view'[t] = view[t] /\ result'[t] = result[t]
        /\ request' = request /\ draft' = draft
    BY <1>2, <2>1, GoesTo, Locks, ShortRanges, TypesPlaced DEF database
  <2>3. Typed(t)'
    BY <1>2, <2>2, TypedNow, RowTypes DEF Typed
  <2>4. CommitFits(t)'
    BY <2>1, <2>2 DEF CommitFits, DraftReviewable
  <2>5. Fits(t)'
    BY <1>1, <2>2, <2>4 DEF Fits
  <2> QED
    BY <2>3, <2>5 DEF Suits
<1> QED
  BY <1>3, <1>4

\* Whoever resolves, resolves to an unmerged row of the register.
LEMMA ResolveInKnown ==
  ASSUME NEW p, Register!Resolve(p) # None
  PROVE  Register!Resolve(p) \in known /\ mergedInto[Register!Resolve(p)] = None
BY DEF Register!Resolve

\* After resolving its person a commit suits its statement.
LEMMA ResolvePersonSuits ==
  ASSUME TypeOK, FiledStays, NEW t \in Txns, Fits(t), ResolvePerson(t)
  PROVE  Suits(t)'
<1> DEFINE d == request[t].draft
           f == FormOf(t)
<1>1. pc[t] = "resolve" /\ request[t].op = "commit" /\ CommitFits(t)
  BY PcTells DEF ResolvePerson, Past
<1>2. /\ exclusive[t] = {DraftRow(d)} /\ shared[t] = {} /\ d \in Drafts /\ DraftReviewable(d)
      /\ result[t] = "running"
  BY <1>1, RequestTypes DEF CommitFits, Fits
<1>3. f.subject \in Persons
  BY <1>2, FormTypes DEF FormOf
<1>4. CASE RolledBack(t, "refused")
  BY <1>4, EndedSuits DEF RolledBack
<1>5. ASSUME NEW p, NEW s, NEW rows,
             who' = [who EXCEPT ![t] = p], GoTo(t, s, rows),
             UNCHANGED <<database, request, view, locks, result>>,
             \/ s = "person" /\ rows = <<PersonRow(p)>> /\ p \in known
             \/ s = "check" /\ rows = <<>> /\ p \in known
             \/ s = "insert" /\ rows = <<PersonRow(f.subject)>> /\ p = None /\ Chosen(t) = None
      PROVE  Suits(t)'
  <2>1. /\ pc'[t] = s /\ todo'[t] = rows /\ exclusive'[t] = {DraftRow(d)}
        /\ shared'[t] = {} /\ who'[t] = p /\ view'[t] = view[t] /\ result'[t] = "running"
        /\ request' = request /\ draft' = draft /\ known' = known
    BY <1>2, <1>5, GoesTo, TypesPlaced DEF database, locks, Placed
  <2>2. p \in Persons \cup {None} /\ rows \in Seq(Rows)
    <3>1. p \in Persons \cup {None}
      BY <1>5, KnownTypes
    <3>3. rows \in Seq(Rows)
      BY <1>3, <1>5, RowSeqs, KnownTypes
    <3> QED
      BY <3>1, <3>3
  <2>3. Typed(t)'
    BY <1>2, <1>5, <2>1, <2>2, TypedNow DEF Typed, locks
  <2>4. FormOf(t)' = f /\ Chosen(t)' = Chosen(t)
    BY <2>1 DEF FormOf, Chosen
  <2>5. CommitFits(t)'
    BY <1>2, <1>5, <2>1, <2>4 DEF CommitFits, DraftReviewable
  <2>6. Fits(t)'
    BY <1>1, <1>5, <2>1, <2>5 DEF Fits
  <2> QED
    BY <2>3, <2>6 DEF Suits
<1>6. CASE Chosen(t) # None
  BY <1>4, <1>5, <1>6, ResolveInKnown DEF ResolvePerson
<1>7. CASE Chosen(t) = None /\ Register!Live(f.subject)
  BY <1>5, <1>7 DEF ResolvePerson, Register!Live
<1>8. CASE Chosen(t) = None /\ ~ Register!Live(f.subject)
  BY <1>4, <1>5, <1>8 DEF ResolvePerson
<1> QED
  BY <1>6, <1>7, <1>8

\* After locking its person a commit suits its statement.
LEMMA LockPersonSuits ==
  ASSUME TypeOK, FiledStays, NEW t \in Txns, Fits(t), LockPerson(t)
  PROVE  Suits(t)'
<1> DEFINE d == request[t].draft
           w == who[t]
<1>1. pc[t] = "person" /\ request[t].op = "commit" /\ CommitFits(t)
  BY PcTells DEF LockPerson, At
<1>2. /\ exclusive[t] = {DraftRow(d)} /\ shared[t] = {} /\ d \in Drafts /\ DraftReviewable(d)
      /\ result[t] = "running" /\ todo[t] = <<PersonRow(w)>> /\ w \in known
  BY <1>1, RequestTypes DEF CommitFits, Fits
<1>3. /\ pc'[t] = "check" /\ todo'[t] = <<>> /\ exclusive'[t] = {DraftRow(d), PersonRow(w)}
      /\ shared'[t] = {} /\ who'[t] = w /\ view'[t] = view[t] /\ result'[t] = "running"
      /\ request' = request /\ draft' = draft /\ known' = known
  BY <1>2, GoesTo, Locks, ShortRanges, TypesPlaced DEF LockPerson, database
<1>4. Typed(t)'
  BY <1>2, <1>3, TypedNow, RowTypes, KnownTypes DEF Typed
<1>5. CommitFits(t)'
  BY <1>2, <1>3 DEF CommitFits, DraftReviewable
<1>6. Fits(t)'
  BY <1>1, <1>3, <1>5 DEF Fits
<1> QED
  BY <1>4, <1>6 DEF Suits

\* After inserting its person a commit suits its statement.
LEMMA InsertPersonSuits ==
  ASSUME TypeOK, FiledStays, NEW t \in Txns, Fits(t), InsertPerson(t)
  PROVE  Suits(t)'
<1> DEFINE d == request[t].draft
           p == FormOf(t).subject
<1>1. pc[t] = "insert" /\ request[t].op = "commit" /\ CommitFits(t)
  BY PcTells DEF InsertPerson, At
<1>2. /\ exclusive[t] = {DraftRow(d)} /\ shared[t] = {} /\ d \in Drafts /\ DraftReviewable(d)
      /\ result[t] = "running" /\ todo[t] = <<PersonRow(p)>> /\ Chosen(t) = None
  BY <1>1, RequestTypes DEF CommitFits, Fits
<1>3. p \in Persons
  BY <1>2, FormTypes DEF FormOf
<1>4. CASE RolledBack(t, "refused")
  BY <1>4, EndedSuits DEF RolledBack
<1>5. CASE ~ RolledBack(t, "refused")
  <2>1. /\ who' = [who EXCEPT ![t] = p] /\ GoTo(t, "check", <<>>)
        /\ IF p \in known THEN UNCHANGED exclusive ELSE Lock(t)
        /\ UNCHANGED <<database, request, view, shared, result>>
    BY <1>5 DEF InsertPerson
  <2>2. /\ pc'[t] = "check" /\ todo'[t] = <<>> /\ who'[t] = p
        /\ shared'[t] = {} /\ view'[t] = view[t] /\ result'[t] = "running"
        /\ request' = request /\ draft' = draft /\ known' = known
    BY <1>2, <2>1, GoesTo, TypesPlaced DEF database, Placed
  <2>3. /\ exclusive'[t] \subseteq {DraftRow(d), PersonRow(p)} /\ DraftRow(d) \in exclusive'[t]
        /\ p \in known \/ PersonRow(p) \in exclusive'[t]
    BY <1>2, <2>1, Locks, ShortRanges, TypesPlaced
  <2>4. Typed(t)'
    BY <1>2, <1>3, <2>2, <2>3, TypedNow, RowTypes DEF Typed
  <2>5. FormOf(t)' = FormOf(t) /\ Chosen(t)' = Chosen(t)
    BY <2>2 DEF FormOf, Chosen
  <2>6. CommitFits(t)'
    BY <1>2, <2>2, <2>3, <2>5 DEF CommitFits, DraftReviewable
  <2>7. Fits(t)'
    BY <1>1, <2>2, <2>6 DEF Fits
  <2> QED
    BY <2>4, <2>7 DEF Suits
<1> QED
  BY <1>4, <1>5

\* After looking for the form on file a commit suits its statement.
LEMMA CheckOnFileSuits ==
  ASSUME TypeOK, FiledStays, NEW t \in Txns, Fits(t), CheckOnFile(t)
  PROVE  Suits(t)'
<1> DEFINE d == request[t].draft
           w == who[t]
<1>1. pc[t] = "check" /\ request[t].op = "commit" /\ CommitFits(t)
  BY PcTells DEF CheckOnFile, Past
<1>2. /\ exclusive[t] \subseteq {DraftRow(d), PersonRow(w)} /\ DraftRow(d) \in exclusive[t]
      /\ shared[t] = {} /\ d \in Drafts /\ DraftReviewable(d) /\ result[t] = "running"
      /\ w \in known \/ (w = FormOf(t).subject /\ Chosen(t) = None /\ PersonRow(w) \in exclusive[t])
  BY <1>1, RequestTypes DEF CommitFits, Fits
<1>3. w \in Persons
  BY <1>2, FormTypes, KnownTypes DEF FormOf
<1>4. CASE RolledBack(t, "refused")
  BY <1>4, EndedSuits DEF RolledBack
<1>5. CASE ~ RolledBack(t, "refused")
  <2>1. /\ pc'[t] = "artifact" /\ todo'[t] = <<PersonRow(w)>> /\ who'[t] = w
        /\ exclusive'[t] = exclusive[t]
        /\ shared'[t] = {} /\ view'[t] = view[t] /\ result'[t] = "running"
        /\ request' = request /\ draft' = draft /\ known' = known
    BY <1>2, <1>5, GoesTo, TypesPlaced DEF CheckOnFile, database, locks
  <2>2. Typed(t)'
    BY <1>3, <2>1, TypedNow, RowTypes DEF Typed
  <2>3. FormOf(t)' = FormOf(t) /\ Chosen(t)' = Chosen(t)
    BY <2>1 DEF FormOf, Chosen
  <2>4. CommitFits(t)'
    BY <1>2, <2>1, <2>3 DEF CommitFits, DraftReviewable
  <2>5. Fits(t)'
    BY <1>1, <2>1, <2>4 DEF Fits
  <2> QED
    BY <2>2, <2>5 DEF Suits
<1> QED
  BY <1>4, <1>5

\* The rows of the records a loop goes through.
LEMMA RowsOf ==
  ASSUME NEW p \in Persons, NEW s \in Seq(Purposes)
  PROVE  LET rows == [i \in DOMAIN s |-> RecordRow(p, s[i])]
         IN  /\ rows \in Seq(Rows) /\ DOMAIN rows = DOMAIN s
             /\ Range(rows) = {RecordRow(p, u) : u \in Range(s)}
             /\ \A i \in DOMAIN s : rows[i][3] = s[i]
<1> DEFINE rows == [i \in DOMAIN s |-> RecordRow(p, s[i])]
<1>1. \A i \in DOMAIN s : s[i] \in Purposes
  OBVIOUS
<1>2. DOMAIN rows = DOMAIN s /\ DOMAIN s = 1 .. Len(s) /\ Len(s) \in Nat
  OBVIOUS
<1>3. rows \in [1 .. Len(s) -> Rows]
  BY <1>1, <1>2, RowTypes
<1>4. rows \in Seq(Rows)
  BY <1>2, <1>3
<1>5. \A i \in DOMAIN s : rows[i] = RecordRow(p, s[i])
  OBVIOUS
<1>6. Range(rows) = {RecordRow(p, u) : u \in Range(s)}
  BY <1>2, <1>5 DEF Range
<1> QED
  BY <1>2, <1>4, <1>5, <1>6, RowsDiffer

\* A projection goes through the purposes of the form by ascending identifier.
LEMMA ProjectionOrder ==
  ASSUME NEW f, Asked(f) \subseteq Purposes, NEW order \in ProjectionOrders(f)
  PROVE  /\ order \in Seq(Purposes) /\ Range(order) = Asked(f)
         /\ \A i, j \in DOMAIN order : i < j => PurposeId[order[i]] < PurposeId[order[j]]
<1>1. IsFiniteSet(Asked(f)) /\ order \in SetToSeqs(Asked(f))
  BY TransactionsAssumption, FS_Subset DEF ProjectionOrders
<1>2. order \in Seq(Asked(f)) /\ Range(order) = Asked(f)
  BY <1>1, Listed
<1> HIDE DEF Asked
<1>3. order \in Seq(Purposes)
  BY <1>2
<1> QED
  BY <1>2, <1>3 DEF ProjectionOrders

\* After inserting its artifact a commit suits its statement.
LEMMA InsertArtifactSuits ==
  ASSUME TypeOK, FiledStays, NEW t \in Txns, Fits(t), InsertArtifact(t)
  PROVE  Suits(t)'
<1> DEFINE d == request[t].draft
           w == who[t]
           f == FormOf(t)
<1>1. pc[t] = "artifact" /\ request[t].op = "commit" /\ CommitFits(t)
  BY PcTells DEF InsertArtifact, At
<1>2. /\ exclusive[t] \subseteq {DraftRow(d), PersonRow(w)} /\ DraftRow(d) \in exclusive[t]
      /\ shared[t] = {} /\ d \in Drafts /\ DraftReviewable(d) /\ result[t] = "running"
      /\ w \in known \/ (w = f.subject /\ Chosen(t) = None /\ PersonRow(w) \in exclusive[t])
      /\ todo[t] = <<PersonRow(w)>>
  BY <1>1, RequestTypes DEF CommitFits, Fits
<1>3. w \in Persons /\ Asked(f) \subseteq Purposes
  BY <1>2, FormTypes, KnownTypes DEF FormOf
<1>4. PICK order \in ProjectionOrders(f) :
        GoTo(t, "project", [i \in DOMAIN order |-> RecordRow(w, order[i])])
  BY DEF InsertArtifact
<1> DEFINE rows == [i \in DOMAIN order |-> RecordRow(w, order[i])]
<1>5. /\ order \in Seq(Purposes) /\ Range(order) = Asked(f)
      /\ \A i, j \in DOMAIN order : i < j => PurposeId[order[i]] < PurposeId[order[j]]
  BY <1>3, <1>4, ProjectionOrder
<1>6. /\ rows \in Seq(Rows) /\ DOMAIN rows = DOMAIN order
      /\ Range(rows) = {RecordRow(w, u) : u \in Asked(f)}
      /\ \A i \in DOMAIN order : rows[i][3] = order[i]
  BY <1>3, <1>5, RowsOf
<1>7. /\ pc'[t] = "project" /\ todo'[t] = rows /\ who'[t] = w
      /\ exclusive'[t] = exclusive[t] /\ shared'[t] = {PersonRow(w)}
      /\ view'[t] = view[t] /\ result'[t] = "running"
      /\ request' = request /\ draft' = draft /\ known' = known /\ record' = record
  BY <1>2, <1>4, GoesTo, ShortRanges, TypesPlaced DEF InsertArtifact, database, Placed
<1> HIDE DEF rows
<1>8. Typed(t)'
  BY <1>3, <1>6, <1>7, TypedNow, RowTypes DEF Typed
<1>9. FormOf(t)' = f /\ Chosen(t)' = Chosen(t)
  BY <1>7 DEF FormOf, Chosen
<1>10. Left(t)' = {RecordRow(w, u) : u \in Asked(f)}
  BY <1>6, <1>7 DEF Left
<1>11. \A u \in Purposes : RecordRow(w, u) \notin exclusive[t]
  BY <1>2, RowsDiffer
<1>12. \A u \in Purposes : u \in Asked(f) <=> RecordRow(w, u) \in exclusive'[t] \cup Left(t)'
  BY <1>7, <1>10, <1>11, RowsDiffer
<1>13. \A i, j \in DOMAIN rows : i < j => PurposeId[rows[i][3]] < PurposeId[rows[j][3]]
  BY <1>5, <1>6
<1>14. Left(t)' \subseteq RecordsOf(w)
  BY <1>3, <1>10 DEF RecordsOf
<1>15. Projecting(t)'
  BY <1>2, <1>7, <1>9, <1>11, <1>12, <1>13, <1>14 DEF Projecting, RecordsOf
<1>16. CommitFits(t)'
  BY <1>2, <1>7, <1>9, <1>15 DEF CommitFits, DraftReviewable
<1>17. Fits(t)'
  BY <1>1, <1>7, <1>16 DEF Fits
<1> QED
  BY <1>8, <1>17 DEF Suits

\* What a form, or a stop, makes of a record is a record.
LEMMA WrittenTypes ==
  ASSUME NEW d \in Drafts, NEW f \in Form, NEW r \in Record, NEW u, Today \in Day
  PROVE  /\ Projected(d, f, r, u) \in Record
         /\ Stopped(r) \in Record
BY DEF Projected, Answered, Record, Form, DayOrNull, Stopped

\* After projecting a purpose a commit suits its statement.
LEMMA ProjectSuits ==
  ASSUME TypeOK, FiledStays, NEW t \in Txns, Fits(t), Project(t)
  PROVE  Suits(t)'
<1> DEFINE d == request[t].draft
           w == who[t]
           f == FormOf(t)
           u == Head(todo[t])[3]
           now == Projected(d, f, record[w][u], u)
<1>1. pc[t] = "project" /\ todo[t] # <<>> /\ request[t].op = "commit" /\ CommitFits(t)
  BY PcTells DEF Project, At
<1>2. /\ shared[t] = {PersonRow(w)} /\ d \in Drafts /\ DraftReviewable(d)
      /\ DraftRow(d) \in exclusive[t] /\ result[t] = "running"
      /\ w \in known \/ (w = f.subject /\ Chosen(t) = None /\ PersonRow(w) \in exclusive[t])
      /\ Projecting(t)
  BY <1>1, RequestTypes DEF CommitFits, Fits
<1>3. w \in Persons /\ f \in Form /\ Today \in Day
  BY <1>2, FormTypes, KnownTypes, TransactionsAssumption DEF FormOf
<1>4. todo[t] \in Seq(Rows)
  BY TypedNow DEF Typed
<1>5. /\ Tail(todo[t]) \in Seq(Rows) /\ Head(todo[t]) = todo[t][1] /\ 1 \in DOMAIN todo[t]
      /\ Left(t) = {Head(todo[t])} \cup Range(Tail(todo[t]))
      /\ \A i \in DOMAIN Tail(todo[t]) :
           i \in Nat \ {0} /\ i + 1 \in DOMAIN todo[t] /\ Tail(todo[t])[i] = todo[t][i + 1]
  BY <1>1, <1>4, Popped DEF Left
<1>6. u \in Purposes /\ Head(todo[t]) = RecordRow(w, u)
  <2>1. Head(todo[t]) \in RecordsOf(w)
    BY <1>2, <1>5 DEF Projecting
  <2> QED
    BY <2>1, RowsDiffer DEF RecordsOf
<1>7. /\ pc'[t] = "project" /\ todo'[t] = Tail(todo[t]) /\ who'[t] = w
      /\ exclusive'[t] = exclusive[t] \cup {RecordRow(w, u)} /\ shared'[t] = shared[t]
      /\ view'[t] = [view[t] EXCEPT ![w][u] = now] /\ result'[t] = "running"
      /\ request' = request /\ draft' = draft /\ known' = known /\ record' = record
  <2>1. /\ Lock(t) /\ view' = [view EXCEPT ![t][w][u] = now] /\ GoTo(t, "project", Tail(todo[t]))
        /\ UNCHANGED <<database, request, who, shared, result>>
    BY DEF Project
  <2> HIDE DEF now, u
  <2>2. view'[t] = [view[t] EXCEPT ![w][u] = now]
    BY <2>1, TypesPlaced DEF Placed
  <2>3. draft' = draft /\ known' = known /\ record' = record
    BY <2>1 DEF database
  <2> QED
    BY <1>2, <1>6, <2>1, <2>2, <2>3, GoesTo, Locks, TypesPlaced
<1>8. now \in Record
  BY <1>2, <1>3, <1>6, KnownTypes, WrittenTypes
<1> HIDE DEF now, u
<1>9. /\ view[t] \in [Persons -> [Purposes -> Record]]
      /\ view'[t] \in [Persons -> [Purposes -> Record]]
      /\ view'[t][w][u] = now
      /\ \A x \in Purposes : x # u => view'[t][w][x] = view[t][w][x]
  <2>1. view[t] \in [Persons -> [Purposes -> Record]]
    BY TypedNow DEF Typed
  <2> QED
    BY <2>1, <1>3, <1>6, <1>7, <1>8
<1>10. Typed(t)'
  BY <1>3, <1>5, <1>6, <1>7, <1>9, TypedNow, RowTypes DEF Typed
<1>11. FormOf(t)' = f /\ Chosen(t)' = Chosen(t)
  BY <1>7 DEF FormOf, Chosen
<1>12. Left(t)' = Range(Tail(todo[t])) /\ Left(t) = {RecordRow(w, u)} \cup Left(t)'
  BY <1>5, <1>6, <1>7 DEF Left
<1>13. \A i \in DOMAIN Tail(todo[t]) :
         /\ PurposeId[u] < PurposeId[Tail(todo[t])[i][3]]
         /\ \A x \in Purposes : RecordRow(w, x) \in exclusive[t] =>
              PurposeId[x] < PurposeId[Tail(todo[t])[i][3]]
  <2> SUFFICES ASSUME NEW i \in DOMAIN Tail(todo[t])
               PROVE  /\ PurposeId[u] < PurposeId[todo[t][i + 1][3]]
                      /\ \A x \in Purposes : RecordRow(w, x) \in exclusive[t] =>
                           PurposeId[x] < PurposeId[todo[t][i + 1][3]]
    BY <1>5
  <2>1. 1 \in DOMAIN todo[t] /\ i + 1 \in DOMAIN todo[t] /\ 1 < i + 1
    BY <1>5
  <2>2. u = todo[t][1][3]
    BY <1>5 DEF u
  <2> QED
    BY <1>2, <2>1, <2>2 DEF Projecting
<1>14. \A i, j \in DOMAIN Tail(todo[t]) :
         i < j => PurposeId[Tail(todo[t])[i][3]] < PurposeId[Tail(todo[t])[j][3]]
  <2> SUFFICES ASSUME NEW i \in DOMAIN Tail(todo[t]), NEW j \in DOMAIN Tail(todo[t]), i < j
               PROVE  PurposeId[todo[t][i + 1][3]] < PurposeId[todo[t][j + 1][3]]
    BY <1>5
  <2>1. i + 1 \in DOMAIN todo[t] /\ j + 1 \in DOMAIN todo[t] /\ i + 1 < j + 1
    BY <1>5
  <2> QED
    BY <1>2, <2>1 DEF Projecting
<1>15. \A x \in Purposes : RecordRow(w, x) \in exclusive'[t] =>
         /\ view'[t][w][x] = Projected(d, f, record[w][x], x)
         /\ \A i \in DOMAIN Tail(todo[t]) : PurposeId[x] < PurposeId[Tail(todo[t])[i][3]]
  <2> SUFFICES ASSUME NEW x \in Purposes, RecordRow(w, x) \in exclusive'[t]
               PROVE  /\ view'[t][w][x] = Projected(d, f, record[w][x], x)
                      /\ \A i \in DOMAIN Tail(todo[t]) : PurposeId[x] < PurposeId[Tail(todo[t])[i][3]]
    OBVIOUS
  <2>1. CASE x = u
    BY <2>1, <1>9, <1>13 DEF now
  <2>2. CASE x # u
    <3>1. RecordRow(w, x) \in exclusive[t]
      BY <2>2, <1>7, RowsDiffer
    <3>2. view[t][w][x] = Projected(d, f, record[w][x], x)
      BY <3>1, <1>2 DEF Projecting
    <3> QED
      BY <2>2, <3>1, <3>2, <1>9, <1>13
  <2> QED
    BY <2>1, <2>2
<1>16. Projecting(t)'
  <2>1. exclusive'[t] \subseteq {DraftRow(d), PersonRow(w)} \cup RecordsOf(w)
    BY <1>2, <1>6, <1>7 DEF Projecting, RecordsOf
  <2>2. Left(t)' \subseteq RecordsOf(w)
    BY <1>2, <1>12 DEF Projecting
  <2>3. \A x \in Purposes : x \in Asked(f) <=> RecordRow(w, x) \in exclusive'[t] \cup Left(t)'
    BY <1>2, <1>7, <1>12 DEF Projecting
  <2> QED
    BY <1>7, <1>11, <1>14, <1>15, <2>1, <2>2, <2>3 DEF Projecting, RecordsOf
<1>17. CommitFits(t)'
  BY <1>2, <1>7, <1>11, <1>16 DEF CommitFits, DraftReviewable
<1>18. Fits(t)'
  BY <1>1, <1>7, <1>17 DEF Fits
<1> QED
  BY <1>10, <1>18 DEF Suits

\* After resolving the session a withdrawal suits its statement.
LEMMA AuthenticateSuits ==
  ASSUME TypeOK, FiledStays, NEW t \in Txns, Fits(t), Authenticate(t)
  PROVE  Suits(t)'
<1> DEFINE p == Register!Resolve(request[t].person)
           asked == request[t].purposes
           rows == [i \in DOMAIN asked |-> RecordRow(p, asked[i])]
<1>1. pc[t] = "token" /\ request[t].op = "withdraw" /\ WithdrawFits(t)
  BY PcTells DEF Authenticate, Past
<1>2. exclusive[t] = {} /\ shared[t] = {} /\ result[t] = "running"
  BY <1>1 DEF WithdrawFits, Fits
<1>3. CASE RolledBack(t, "refused")
  BY <1>3, EndedSuits DEF RolledBack
<1>4. CASE ~ RolledBack(t, "refused")
  <2>1. /\ p # None /\ who' = [who EXCEPT ![t] = p] /\ GoTo(t, "stop", rows)
        /\ UNCHANGED <<database, request, view, locks, result>>
    BY <1>4 DEF Authenticate
  <2>2. p \in known /\ p \in Persons
    BY <2>1, ResolveInKnown, KnownTypes
  <2>3. rows \in Seq(Rows) /\ Range(rows) = {RecordRow(p, u) : u \in Range(asked)}
        /\ Range(asked) \subseteq Purposes
    <3>1. asked \in Seq(Purposes)
      BY <1>1, RequestTypes
    <3>2. Range(asked) \subseteq Purposes
      BY <3>1 DEF Range
    <3> QED
      BY <2>2, <3>1, <3>2, RowsOf
  <2> HIDE DEF rows, p
  <2>4. /\ pc'[t] = "stop" /\ todo'[t] = rows /\ who'[t] = p
        /\ exclusive'[t] = {} /\ shared'[t] = {} /\ view'[t] = view[t] /\ result'[t] = "running"
        /\ request' = request /\ known' = known
    BY <1>2, <2>1, GoesTo, TypesPlaced DEF database, locks, Placed
  <2>5. Typed(t)'
    BY <2>2, <2>3, <2>4, TypedNow DEF Typed
  <2>6. WithdrawFits(t)'
    BY <2>2, <2>3, <2>4 DEF WithdrawFits, Left, RecordsOf
  <2>7. Fits(t)'
    BY <1>1, <2>4, <2>6 DEF Fits
  <2> QED
    BY <2>5, <2>7 DEF Suits
<1> QED
  BY <1>3, <1>4

\* After stopping a purpose a withdrawal suits its statement.
LEMMA StopOneSuits ==
  ASSUME TypeOK, FiledStays, NEW t \in Txns, Fits(t), StopOne(t)
  PROVE  Suits(t)'
<1> DEFINE w == who[t]
           u == Head(todo[t])[3]
           r == record[w][u]
           now == IF r.status = "active" THEN Stopped(r) ELSE r
<1>1. pc[t] = "stop" /\ todo[t] # <<>> /\ request[t].op = "withdraw" /\ WithdrawFits(t)
  BY PcTells DEF StopOne, At
<1>2. /\ shared[t] = {} /\ result[t] = "running" /\ w \in known
      /\ exclusive[t] \subseteq RecordsOf(w) /\ Left(t) \subseteq RecordsOf(w)
      /\ \A x \in Purposes :
           RecordRow(w, x) \in exclusive[t] =>
             /\ record[w][x] # NoRecord
             /\ view[t][w][x] = IF record[w][x].status = "active"
                                THEN Stopped(record[w][x]) ELSE record[w][x]
  BY <1>1 DEF WithdrawFits, Fits
<1>3. w \in Persons /\ Today \in Day
  BY <1>2, KnownTypes, TransactionsAssumption
<1>4. todo[t] \in Seq(Rows) /\ view[t] \in [Persons -> [Purposes -> Record]]
  BY TypedNow DEF Typed
<1>5. Tail(todo[t]) \in Seq(Rows) /\ Left(t) = {Head(todo[t])} \cup Range(Tail(todo[t]))
  BY <1>1, <1>4, Popped DEF Left
<1>6. u \in Purposes /\ Head(todo[t]) = RecordRow(w, u)
  <2>1. Head(todo[t]) \in RecordsOf(w)
    BY <1>2, <1>5
  <2> QED
    BY <2>1, RowsDiffer DEF RecordsOf
<1>7. now \in Record
  <2>1. r \in Record
    BY <1>3, <1>6, KnownTypes
  <2> HIDE DEF r
  <2> QED
    BY <2>1, <1>3 DEF Stopped, Record, DayOrNull
<1>8. /\ pc'[t] = "stop" /\ todo'[t] = Tail(todo[t]) /\ who'[t] = w
      /\ shared'[t] = {} /\ result'[t] = "running"
      /\ request' = request /\ known' = known /\ record' = record
  BY <1>2, GoesTo, TypesPlaced DEF StopOne, database
<1>9. Left(t)' \subseteq RecordsOf(w)
  BY <1>2, <1>5, <1>8 DEF Left
<1>10. CASE r = NoRecord
  <2>1. exclusive'[t] = exclusive[t] /\ view'[t] = view[t]
    BY <1>10 DEF StopOne
  <2>2. Typed(t)'
    BY <1>5, <1>8, <2>1, TypedNow DEF Typed
  <2>3. WithdrawFits(t)'
    BY <1>2, <1>8, <1>9, <2>1 DEF WithdrawFits, RecordsOf
  <2>4. Fits(t)'
    BY <1>1, <1>8, <2>3 DEF Fits
  <2> QED
    BY <2>2, <2>4 DEF Suits
<1>11. CASE r # NoRecord
  <2>1. Lock(t) /\ view' = [view EXCEPT ![t][w][u] = now]
    BY <1>11 DEF StopOne
  <2>2. exclusive'[t] = exclusive[t] \cup {RecordRow(w, u)}
    BY <1>6, <2>1, Locks, TypesPlaced
  <2> HIDE DEF now, u
  <2>3. view'[t] = [view[t] EXCEPT ![w][u] = now]
    BY <2>1, TypesPlaced DEF Placed
  <2>4. /\ view'[t] \in [Persons -> [Purposes -> Record]] /\ view'[t][w][u] = now
        /\ \A x \in Purposes : x # u => view'[t][w][x] = view[t][w][x]
    BY <1>3, <1>4, <1>6, <1>7, <2>3
  <2>5. Typed(t)'
    BY <1>3, <1>5, <1>6, <1>8, <2>2, <2>4, TypedNow, RowTypes DEF Typed
  <2>6. \A x \in Purposes :
          RecordRow(w, x) \in exclusive'[t] =>
             /\ record[w][x] # NoRecord
             /\ view'[t][w][x] = IF record[w][x].status = "active"
                                 THEN Stopped(record[w][x]) ELSE record[w][x]
    BY <1>2, <1>11, <2>2, <2>4, RowsDiffer DEF now
  <2>7. exclusive'[t] \subseteq RecordsOf(w)
    BY <1>2, <1>6, <2>2 DEF RecordsOf
  <2>8. WithdrawFits(t)'
    BY <1>2, <1>8, <1>9, <2>6, <2>7 DEF WithdrawFits, RecordsOf
  <2>9. Fits(t)'
    BY <1>1, <1>8, <2>8 DEF Fits
  <2> QED
    BY <2>5, <2>9 DEF Suits
<1> QED
  BY <1>10, <1>11

\* After its last purpose a withdrawal suits its statement.
LEMMA WithdrawEndsLoopSuits ==
  ASSUME TypeOK, FiledStays, NEW t \in Txns, Fits(t), WithdrawEndsLoop(t)
  PROVE  Suits(t)'
<1> DEFINE w == who[t]
<1>1. pc[t] = "stop" /\ request[t].op = "withdraw" /\ WithdrawFits(t)
  BY PcTells DEF WithdrawEndsLoop, Past
<1>2. shared[t] = {} /\ result[t] = "running" /\ w \in known /\ w \in Persons
  BY <1>1, KnownTypes DEF WithdrawFits, Fits
<1>3. CASE Ended(t, "done")
  BY <1>3, EndedSuits
<1>4. CASE ~ Ended(t, "done")
  <2>1. /\ pc'[t] = "tasks" /\ todo'[t] = <<PersonRow(w)>> /\ who'[t] = w
        /\ exclusive'[t] = exclusive[t] /\ shared'[t] = {} /\ view'[t] = view[t]
        /\ result'[t] = "running" /\ request' = request /\ known' = known /\ record' = record
    BY <1>2, <1>4, GoesTo, TypesPlaced DEF WithdrawEndsLoop, database, locks
  <2>2. Typed(t)'
    BY <1>2, <2>1, TypedNow, RowSeqs DEF Typed
  <2>3. WithdrawFits(t)'
    BY <1>1, <2>1 DEF WithdrawFits, RecordsOf
  <2>4. Fits(t)'
    BY <1>1, <2>1, <2>3 DEF Fits
  <2> QED
    BY <2>2, <2>4 DEF Suits
<1> QED
  BY <1>3, <1>4

\* After locking its two people a merge suits its statement.
LEMMA LockPeopleSuits ==
  ASSUME TypeOK, FiledStays, NEW t \in Txns, Fits(t), LockPeople(t)
  PROVE  Suits(t)'
<1>1. pc[t] = "people" /\ todo[t] # <<>> /\ request[t].op = "merge" /\ MergeFits(t)
  BY PcTells DEF LockPeople, At
<1>2. shared[t] = {} /\ result[t] = "running"
  BY <1>1 DEF MergeFits, Fits
<1>3. todo[t] \in Seq(Rows)
  BY TypedNow DEF Typed
<1>4. /\ Tail(todo[t]) \in Seq(Rows) /\ Head(todo[t]) \in Rows
      /\ Left(t) = {Head(todo[t])} \cup Range(Tail(todo[t]))
  BY <1>1, <1>3, Popped DEF Left
<1>5. /\ pc'[t] = "people" /\ todo'[t] = Tail(todo[t]) /\ who'[t] = who[t]
      /\ exclusive'[t] = exclusive[t] \cup {Head(todo[t])} /\ shared'[t] = {}
      /\ view'[t] = view[t] /\ result'[t] = "running" /\ request' = request
  BY <1>2, GoesTo, Locks, TypesPlaced DEF LockPeople
<1>6. Typed(t)'
  BY <1>4, <1>5, TypedNow DEF Typed
<1>7. exclusive'[t] \cup Left(t)' = exclusive[t] \cup Left(t)
  BY <1>4, <1>5 DEF Left
<1>8. MergeFits(t)'
  BY <1>1, <1>5, <1>7 DEF MergeFits
<1>9. Fits(t)'
  BY <1>1, <1>5, <1>8 DEF Fits
<1> QED
  BY <1>6, <1>9 DEF Suits

\* What a scan of the records of p returns.
LEMMA Scanned ==
  ASSUME NEW p \in Persons, NEW rows \in Scans(p)
  PROVE  /\ rows \in Seq(Rows)
         /\ Range(rows) = {RecordRow(p, u) : u \in {u \in Purposes : record[p][u] # NoRecord}}
<1> DEFINE S == {RecordRow(p, u) : u \in {u \in Purposes : record[p][u] # NoRecord}}
<1>1. IsFiniteSet({u \in Purposes : record[p][u] # NoRecord})
  BY TransactionsAssumption, FS_Subset
<1>2. IsFiniteSet(S)
  <2> DEFINE T == {u \in Purposes : record[p][u] # NoRecord}
             f == [u \in T |-> RecordRow(p, u)]
  <2>1. f \in Surjection(T, S)
    BY DEF Surjection
  <2> QED
    BY <1>1, <2>1, FS_Surjection
<1>3. rows \in Seq(S) /\ Range(rows) = S
  BY <1>2, Listed DEF Scans
<1>4. S \subseteq Rows
  BY RowTypes
<1> QED
  BY <1>3, <1>4

\* After its checks a merge suits its statement.
LEMMA CheckMergeSuits ==
  ASSUME TypeOK, FiledStays, NEW t \in Txns, Fits(t), CheckMerge(t)
  PROVE  Suits(t)'
<1> DEFINE a == request[t].absorbed
           s == request[t].survivor
<1>1. pc[t] = "people" /\ todo[t] = <<>> /\ request[t].op = "merge" /\ MergeFits(t)
  BY PcTells DEF CheckMerge, Past
<1>2. /\ shared[t] = {} /\ result[t] = "running" /\ view[t] = Blank
      /\ exclusive[t] = {PersonRow(a), PersonRow(s)}
  BY <1>1, ShortRanges DEF MergeFits, Fits, Left
<1>3. a \in Persons /\ s \in Persons
  BY <1>1, RequestTypes, KnownTypes
<1>4. CASE RolledBack(t, "refused")
  BY <1>4, EndedSuits DEF RolledBack
<1>5. CASE ~ RolledBack(t, "refused")
  <2>1. PICK rows \in Scans(a) : GoTo(t, "absorbed", rows)
    BY <1>5 DEF CheckMerge
  <2>2. mergedInto[a] = None /\ UNCHANGED <<database, request, who, view, locks, result>>
    BY <1>5 DEF CheckMerge
  <2>3. /\ rows \in Seq(Rows)
        /\ Range(rows) = {RecordRow(a, u) : u \in {u \in Purposes : record[a][u] # NoRecord}}
    BY <1>3, <2>1, Scanned
  <2>4. /\ pc'[t] = "absorbed" /\ todo'[t] = rows /\ who'[t] = who[t]
        /\ exclusive'[t] = {PersonRow(a), PersonRow(s)} /\ shared'[t] = {}
        /\ view'[t] = Blank /\ view'[t] = view[t]
        /\ result'[t] = "running" /\ request' = request
        /\ record' = record /\ mergedInto' = mergedInto
    BY <1>2, <2>1, <2>2, GoesTo, TypesPlaced DEF database, locks
  <2>5. Typed(t)'
    BY <1>3, <2>3, <2>4, TypedNow, RowTypes DEF Typed
  <2>6. \A p \in {a, s}, u \in Purposes :
          RecordRow(p, u) \notin exclusive'[t] /\ view'[t][p][u] = NoRecord
    BY <1>3, <2>4, RowsDiffer DEF Blank
  <2>7. /\ Left(t)' \subseteq RecordsOf(a)
        /\ \A u \in Purposes : record[a][u] # NoRecord => RecordRow(a, u) \in Left(t)'
    BY <2>3, <2>4 DEF Left, RecordsOf
  <2>8. MergeFits(t)'
    BY <2>2, <2>4, <2>6, <2>7 DEF MergeFits, RecordsOf
  <2>9. Fits(t)'
    BY <1>1, <2>4, <2>8 DEF Fits
  <2> QED
    BY <2>5, <2>9 DEF Suits
<1> QED
  BY <1>4, <1>5

\* After reading the survivor a merge suits its statement.
LEMMA ReadSurvivorSuits ==
  ASSUME TypeOK, FiledStays, NEW t \in Txns, Fits(t), ReadSurvivor(t)
  PROVE  Suits(t)'
<1> DEFINE a == request[t].absorbed
           s == request[t].survivor
<1>1. pc[t] = "absorbed" /\ todo[t] = <<>> /\ request[t].op = "merge" /\ MergeFits(t)
  BY PcTells DEF ReadSurvivor, Past
<1>2. a \in Persons /\ s \in Persons /\ result[t] = "running"
  BY <1>1, RequestTypes, KnownTypes DEF Fits
<1>3. Left(t) = {}
  BY <1>1, ShortRanges DEF Left
<1>4. PICK rows \in Scans(s) : GoTo(t, "survivor", rows)
  BY DEF ReadSurvivor
<1>5. /\ rows \in Seq(Rows)
      /\ Range(rows) = {RecordRow(s, u) : u \in {u \in Purposes : record[s][u] # NoRecord}}
  BY <1>2, <1>4, Scanned
<1>6. /\ pc'[t] = "survivor" /\ todo'[t] = rows /\ who'[t] = who[t]
      /\ exclusive'[t] = exclusive[t] /\ shared'[t] = shared[t] /\ view'[t] = view[t]
      /\ result'[t] = "running" /\ request' = request
      /\ record' = record /\ mergedInto' = mergedInto
  BY <1>2, <1>4, GoesTo, TypesPlaced DEF ReadSurvivor, database, locks
<1>7. Typed(t)'
  BY <1>5, <1>6, TypedNow DEF Typed
<1>8. /\ Left(t)' \subseteq RecordsOf(s)
      /\ \A u \in Purposes : record[s][u] # NoRecord => RecordRow(s, u) \in Left(t)'
  BY <1>5, <1>6 DEF Left, RecordsOf
<1>9. \A u \in Purposes : record[a][u] # NoRecord => RecordRow(a, u) \in exclusive[t]
  BY <1>1, <1>3 DEF MergeFits
<1>10. MergeFits(t)'
  BY <1>1, <1>6, <1>8, <1>9 DEF MergeFits, RecordsOf
<1>11. Fits(t)'
  BY <1>1, <1>6, <1>10 DEF Fits
<1> QED
  BY <1>7, <1>11 DEF Suits

\* After locking a record a merge suits its statement.
LEMMA LockRecordSuits ==
  ASSUME TypeOK, FiledStays, NEW t \in Txns, Fits(t), LockRecord(t)
  PROVE  Suits(t)'
<1> DEFINE a == request[t].absorbed
           s == request[t].survivor
           p == Head(todo[t])[2]
           u == Head(todo[t])[3]
<1>1. pc[t] \in {"absorbed", "survivor"} /\ todo[t] # <<>> /\ request[t].op = "merge" /\ MergeFits(t)
  BY PcTells DEF LockRecord, At
<1>2. a \in Persons /\ s \in Persons /\ result[t] = "running"
  BY <1>1, RequestTypes, KnownTypes DEF Fits
<1>3. todo[t] \in Seq(Rows) /\ view[t] \in [Persons -> [Purposes -> Record]]
  BY TypedNow DEF Typed
<1>4. Tail(todo[t]) \in Seq(Rows) /\ Left(t) = {Head(todo[t])} \cup Range(Tail(todo[t]))
  BY <1>1, <1>3, Popped DEF Left
<1>5. /\ shared[t] = {} /\ mergedInto[a] = None
      /\ {PersonRow(a), PersonRow(s)} \subseteq exclusive[t]
      /\ exclusive[t] \subseteq {PersonRow(a), PersonRow(s)} \cup RecordsOf(a) \cup RecordsOf(s)
      /\ \A q \in {a, s}, x \in Purposes :
           view[t][q][x] = IF RecordRow(q, x) \in exclusive[t] THEN record[q][x] ELSE NoRecord
      /\ pc[t] = "absorbed" =>
           /\ Left(t) \subseteq RecordsOf(a)
           /\ \A x \in Purposes :
                record[a][x] # NoRecord => RecordRow(a, x) \in exclusive[t] \cup Left(t)
      /\ pc[t] = "survivor" =>
           /\ Left(t) \subseteq RecordsOf(s)
           /\ \A x \in Purposes : record[a][x] # NoRecord => RecordRow(a, x) \in exclusive[t]
           /\ \A x \in Purposes :
                record[s][x] # NoRecord => RecordRow(s, x) \in exclusive[t] \cup Left(t)
  BY <1>1 DEF MergeFits
<1>6. p \in {a, s} /\ u \in Purposes /\ Head(todo[t]) = RecordRow(p, u)
  <2>1. Head(todo[t]) \in RecordsOf(a) \cup RecordsOf(s)
    BY <1>1, <1>4, <1>5
  <2> QED
    BY <2>1, RowsDiffer DEF RecordsOf
<1>7. /\ pc'[t] = pc[t] /\ todo'[t] = Tail(todo[t]) /\ who'[t] = who[t]
      /\ exclusive'[t] = exclusive[t] \cup {RecordRow(p, u)} /\ shared'[t] = {}
      /\ view'[t] = [view[t] EXCEPT ![p][u] = record[p][u]] /\ result'[t] = "running"
      /\ request' = request /\ record' = record /\ mergedInto' = mergedInto
  <2>1. /\ Lock(t) /\ view' = [view EXCEPT ![t][p][u] = record[p][u]]
        /\ GoTo(t, pc[t], Tail(todo[t]))
        /\ UNCHANGED <<database, request, who, shared, result>>
    BY DEF LockRecord
  <2> HIDE DEF p, u
  <2>2. view'[t] = [view[t] EXCEPT ![p][u] = record[p][u]]
    BY <2>1, TypesPlaced DEF Placed
  <2>3. record' = record /\ mergedInto' = mergedInto
    BY <2>1 DEF database
  <2> QED
    BY <1>2, <1>5, <1>6, <2>1, <2>2, <2>3, GoesTo, Locks, TypesPlaced
<1> HIDE DEF p, u
<1>8. /\ view'[t] \in [Persons -> [Purposes -> Record]] /\ view'[t][p][u] = record[p][u]
      /\ \A q \in Persons, x \in Purposes :
           q # p \/ x # u => view'[t][q][x] = view[t][q][x]
  <2>1. record[p][u] \in Record /\ p \in Persons
    BY <1>2, <1>6, KnownTypes
  <2> QED
    BY <1>3, <1>6, <1>7, <2>1
<1>9. Typed(t)'
  BY <1>2, <1>4, <1>6, <1>7, <1>8, TypedNow, RowTypes DEF Typed
<1>10. \A q \in {a, s}, x \in Purposes :
         view'[t][q][x] = IF RecordRow(q, x) \in exclusive'[t] THEN record[q][x] ELSE NoRecord
  <2> SUFFICES ASSUME NEW q \in {a, s}, NEW x \in Purposes
               PROVE  view'[t][q][x] = IF RecordRow(q, x) \in exclusive'[t]
                                       THEN record[q][x] ELSE NoRecord
    OBVIOUS
  <2>1. CASE q = p /\ x = u
    BY <2>1, <1>7, <1>8
  <2>2. CASE q # p \/ x # u
    <3>1. RecordRow(q, x) \in exclusive'[t] <=> RecordRow(q, x) \in exclusive[t]
      BY <2>2, <1>7, RowsDiffer
    <3> QED
      BY <2>2, <3>1, <1>2, <1>5, <1>8
  <2> QED
    BY <2>1, <2>2
<1>11. /\ exclusive[t] \cup Left(t) = exclusive'[t] \cup Left(t)'
       /\ Left(t)' \subseteq Left(t) /\ exclusive[t] \subseteq exclusive'[t]
  BY <1>4, <1>6, <1>7 DEF Left
<1>12. exclusive'[t] \subseteq {PersonRow(a), PersonRow(s)} \cup RecordsOf(a) \cup RecordsOf(s)
  BY <1>5, <1>6, <1>7 DEF RecordsOf
<1>13. MergeFits(t)'
  <2>1. pc[t] = "absorbed" =>
          /\ Left(t)' \subseteq RecordsOf(a)
          /\ \A x \in Purposes :
               record[a][x] # NoRecord => RecordRow(a, x) \in exclusive'[t] \cup Left(t)'
    BY <1>5, <1>11
  <2>2. pc[t] = "survivor" =>
          /\ Left(t)' \subseteq RecordsOf(s)
          /\ \A x \in Purposes : record[a][x] # NoRecord => RecordRow(a, x) \in exclusive'[t]
          /\ \A x \in Purposes :
               record[s][x] # NoRecord => RecordRow(s, x) \in exclusive'[t] \cup Left(t)'
    BY <1>5, <1>11
  <2>3. {PersonRow(a), PersonRow(s)} \subseteq exclusive'[t]
    BY <1>5, <1>11
  <2> QED
    BY <1>1, <1>5, <1>7, <1>10, <1>12, <2>1, <2>2, <2>3 DEF MergeFits, RecordsOf
<1>14. Fits(t)'
  BY <1>1, <1>7, <1>13 DEF Fits
<1> QED
  BY <1>9, <1>14 DEF Suits

\* Whatever t does, it is where its statement says it should be.
LEMMA OwnStepSuits ==
  ASSUME TypeOK, FiledStays, NEW t \in Txns, Fits(t), Moves(t)
  PROVE  Suits(t)'
<1>1. CASE DeadlockAbort(t) \/ ConnectionLost(t)
  BY <1>1, EndedSuits DEF DeadlockAbort, ConnectionLost, RolledBack
<1>2. CASE CommitCloses(t)
  BY <1>2, EndedSuits DEF CommitCloses, RolledBack
<1>3. CASE WithdrawCloses(t)
  BY <1>3, EndedSuits DEF WithdrawCloses
<1>4. CASE \E early \in SUBSET Purposes : MergeCloses(t, early)
  BY <1>4, EndedSuits DEF MergeCloses
<1> QED
  BY <1>1, <1>2, <1>3, <1>4, LockDraftSuits, ResolvePersonSuits, LockPersonSuits,
     InsertPersonSuits, CheckOnFileSuits, InsertArtifactSuits, ProjectSuits,
     AuthenticateSuits, StopOneSuits, WithdrawEndsLoopSuits, LockPeopleSuits,
     CheckMergeSuits, LockRecordSuits, ReadSurvivorSuits
     DEF Moves, Step, CommitStep, WithdrawStep, MergeStep

-----------------------------------------------------------------------------
(* Types                                                                   *)

\* Every step leaves each transaction at a statement.
LEMMA PlacedStays ==
  ASSUME Placed, NEW t \in Txns, Moves(t)
  PROVE  Placed'
<1> USE DEF Placed
<1>1. ASSUME NEW answer, Ended(t, answer)
      PROVE  Placed'
  BY <1>1 DEF Ended, GoTo
<1>2. ASSUME NEW s, NEW rows, GoTo(t, s, rows)
      PROVE  /\ DOMAIN pc' = Txns /\ pc' = [o \in Txns |-> pc'[o]]
             /\ DOMAIN todo' = Txns /\ todo' = [o \in Txns |-> todo'[o]]
  BY <1>2 DEF GoTo
<1>3. ASSUME Lock(t)
      PROVE  DOMAIN exclusive' = Txns /\ exclusive' = [o \in Txns |-> exclusive'[o]]
  BY <1>3 DEF Lock
<1>4. CASE DeadlockAbort(t) \/ ConnectionLost(t)
  BY <1>1, <1>4 DEF DeadlockAbort, ConnectionLost, RolledBack
<1>5. CASE LockDraft(t)
  BY <1>1, <1>2, <1>3, <1>5 DEF LockDraft, RolledBack
<1>6. CASE LockPerson(t) \/ LockPeople(t)
  BY <1>2, <1>3, <1>6 DEF LockPerson, LockPeople
<1>7. CASE InsertPerson(t)
  BY <1>1, <1>2, <1>3, <1>7 DEF InsertPerson, RolledBack
<1>8. CASE ResolvePerson(t)
  BY <1>1, <1>2, <1>8 DEF ResolvePerson, RolledBack, locks
<1>9. CASE CheckOnFile(t)
  BY <1>1, <1>2, <1>9 DEF CheckOnFile, RolledBack, locks
<1>10. CASE InsertArtifact(t)
  BY <1>2, <1>10 DEF InsertArtifact
<1>11. CASE Project(t)
  BY <1>2, <1>3, <1>11 DEF Project
<1>12. CASE StopOne(t)
  BY <1>2, <1>3, <1>12 DEF StopOne
<1>13. CASE LockRecord(t)
  BY <1>2, <1>3, <1>13 DEF LockRecord
<1>14. CASE CommitCloses(t) \/ WithdrawEndsLoop(t) \/ WithdrawCloses(t)
  BY <1>1, <1>2, <1>14 DEF CommitCloses, WithdrawEndsLoop, WithdrawCloses, RolledBack, locks
<1>15. CASE Authenticate(t) \/ CheckMerge(t) \/ ReadSurvivor(t)
  BY <1>1, <1>2, <1>15 DEF Authenticate, CheckMerge, ReadSurvivor, RolledBack, locks
<1>16. CASE \E early \in SUBSET Purposes : MergeCloses(t, early)
  BY <1>1, <1>16 DEF MergeCloses
<1> QED
  BY <1>4, <1>5, <1>6, <1>7, <1>8, <1>9, <1>10, <1>11, <1>12, <1>13, <1>14, <1>15, <1>16
     DEF Moves, Step, CommitStep, WithdrawStep, MergeStep

\* What the database may hold.
DatabaseOK ==
  /\ known \subseteq Persons
  /\ mergedInto \in [Persons -> Persons \cup {None}]
  /\ draft \in [Drafts -> Register!Draft \cup {Register!NoDraft}]
  /\ artifact \in [Drafts -> [person : Persons, form : Papers] \cup {Register!NoArtifact}]
  /\ record \in [Persons -> [Purposes -> Record]]
  /\ withdrawals \subseteq [person : Persons, purpose : Purposes, on : Day]
  /\ folded \in [Persons -> SUBSET Persons]
  /\ tasks \subseteq Register!Task

\* The types of the database are those of the register.
LEMMA DatabaseTypes == Register!TypeOK <=> DatabaseOK
BY SameRules, TransactionsAssumption
   DEF Register!TypeOK, DatabaseOK, Register!Artifact, Register!Withdrawal

\* What a commit writes is typed.
LEMMA CommitKeepsTypes ==
  ASSUME TypeOK, FiledStays, NEW t \in Txns, Fits(t), CommitCloses(t)
  PROVE  DatabaseOK'
<1> DEFINE d == request[t].draft
           w == who[t]
           f == FormOf(t)
           after == [u \in Purposes |-> Projected(d, f, record[w][u], u)]
<1>1. /\ d \in Drafts /\ w \in Persons /\ DraftReviewable(d)
      /\ known' = known \cup {w}
      /\ artifact' = [artifact EXCEPT ![d] = [person |-> w, form |-> f]]
      /\ draft' = [draft EXCEPT ![d].status = "committed", ![d].matched = w]
      /\ UNCHANGED <<mergedInto, withdrawals, folded, tasks>>
      /\ record' = [record EXCEPT ![w] = after]
  BY CommitEffect
<1>2. DatabaseOK
  BY DatabaseTypes DEF TypeOK
<1>3. f \in Papers /\ f \in Form
  BY <1>1, FormTypes DEF FormOf
<1>4. draft[d] \in Register!Draft
  BY <1>1, <1>2 DEF DatabaseOK, DraftReviewable, Register!NoDraft
<1>5. after \in [Purposes -> Record]
  BY <1>1, <1>3, KnownTypes, WrittenTypes, TransactionsAssumption
<1> HIDE DEF d, w, f, after
<1>6. draft' \in [Drafts -> Register!Draft \cup {Register!NoDraft}]
  <2>1. [draft[d] EXCEPT !.status = "committed", !.matched = w] \in Register!Draft
    BY <1>1, <1>4 DEF Register!Draft
  <2>2. draft' = [draft EXCEPT ![d] = [draft[d] EXCEPT !.status = "committed", !.matched = w]]
    BY <1>1, <1>2 DEF DatabaseOK
  <2> HIDE DEF Register!Draft
  <2> QED
    BY <1>2, <2>1, <2>2 DEF DatabaseOK
<1>7. artifact' \in [Drafts -> [person : Persons, form : Papers] \cup {Register!NoArtifact}]
  <2>1. [person |-> w, form |-> f] \in [person : Persons, form : Papers]
    BY <1>1, <1>3
  <2> QED
    BY <1>1, <1>2, <2>1 DEF DatabaseOK
<1>8. record' \in [Persons -> [Purposes -> Record]]
  BY <1>1, <1>2, <1>5 DEF DatabaseOK
<1> QED
  BY <1>1, <1>2, <1>6, <1>7, <1>8 DEF DatabaseOK

\* What a withdrawal writes is typed.
LEMMA WithdrawalKeepsTypes ==
  ASSUME TypeOK, FiledStays, NEW t \in Txns, Fits(t), pc[t] = "tasks", WithdrawCloses(t)
  PROVE  DatabaseOK'
<1> DEFINE w == who[t]
           after == [u \in Purposes |-> IF u \in Changed(t) THEN Stopped(record[w][u])
                                        ELSE record[w][u]]
<1>1. w \in Persons /\ Changed(t) \subseteq Purposes /\ Written(t) = [record EXCEPT ![w] = after]
  BY WithdrawEffect
<1>2. DatabaseOK
  BY DatabaseTypes DEF TypeOK
<1>3. /\ record' = [record EXCEPT ![w] = after]
      /\ withdrawals' = withdrawals \cup
           {[person |-> w, purpose |-> u, on |-> Today] : u \in Changed(t)}
      /\ tasks' = tasks \cup Register!Raised(w, Changed(t))
      /\ UNCHANGED <<known, mergedInto, draft, artifact, folded>>
  BY <1>1 DEF WithdrawCloses
<1>4. after \in [Purposes -> Record]
  <2>1. Today \in Day
    BY TransactionsAssumption
  <2>2. \A r \in Record : Stopped(r) \in Record
    BY <2>1 DEF Stopped, Record, DayOrNull
  <2> QED
    BY <1>1, <2>2, KnownTypes
<1>5. Register!Raised(w, Changed(t)) \subseteq Register!Task
  <2>1. Today \in Register!Day
    BY SameRules, TransactionsAssumption
  <2>2. \A k \in Changed(t) \X Systems : Register!NewTask(w, k[1], k[2]) \in Register!Task
    BY <1>1, <2>1 DEF Register!NewTask, Register!Task, Register!DayOrNull, Register!NoDay
  <2> QED
    BY <2>2 DEF Register!Raised
<1>6. withdrawals' \subseteq [person : Persons, purpose : Purposes, on : Day]
  BY <1>1, <1>2, <1>3, TransactionsAssumption DEF DatabaseOK
<1>7. record' \in [Persons -> [Purposes -> Record]]
  <2> HIDE DEF after
  <2> QED
    BY <1>1, <1>2, <1>3, <1>4 DEF DatabaseOK
<1> QED
  BY <1>2, <1>3, <1>5, <1>6, <1>7 DEF DatabaseOK

\* What a merge writes is typed.
LEMMA MergeKeepsTypes ==
  ASSUME TypeOK, FiledStays, NEW t \in Txns, Fits(t), NEW early, MergeCloses(t, early)
  PROVE  DatabaseOK'
<1> DEFINE a == request[t].absorbed
           s == request[t].survivor
           after == [u \in Purposes |-> Reconciled(record[s][u], record[a][u], u \in early)]
           none == [u \in Purposes |-> NoRecord]
<1>1. /\ a # s /\ a \in Persons /\ s \in Persons
      /\ mergedInto' = [mergedInto EXCEPT ![a] = s]
      /\ record' = [record EXCEPT ![a] = none, ![s] = after]
      /\ folded' = [folded EXCEPT ![a] = {}, ![s] = folded[s] \cup folded[a]]
      /\ UNCHANGED <<known, draft, artifact, withdrawals, tasks>>
  BY MergeEffect
<1>2. DatabaseOK
  BY DatabaseTypes DEF TypeOK
<1>3. none \in [Purposes -> Record]
  <2>1. NoRecord \in Record
    BY DEF NoRecord, Record, DayOrNull
  <2> QED
    BY <2>1
<1>4. after \in [Purposes -> Record]
  <2>1. \A q \in Persons, u \in Purposes : record[q][u] \in Record
    BY KnownTypes
  <2> QED
    BY <1>1, <2>1 DEF Reconciled
<1> HIDE DEF a, s, after, none
<1>5. record' \in [Persons -> [Purposes -> Record]]
  BY <1>1, <1>2, <1>3, <1>4 DEF DatabaseOK
<1>6. mergedInto' \in [Persons -> Persons \cup {None}] /\ folded' \in [Persons -> SUBSET Persons]
  BY <1>1, <1>2 DEF DatabaseOK
<1> QED
  BY <1>1, <1>2, <1>5, <1>6 DEF DatabaseOK

\* Every step keeps the types.
LEMMA TypesStep ==
  ASSUME TypeOK, FiledStays, \A t \in Txns : Fits(t), NEW t \in Txns, Moves(t)
  PROVE  TypeOK'
<1>1. DatabaseOK'
  <2>1. CASE UNCHANGED database
    <3>1. DatabaseOK
      BY DatabaseTypes DEF TypeOK
    <3> QED
      BY <2>1, <3>1 DEF DatabaseOK, database
  <2> QED
    BY <2>1, OnlyCommitsWrite, CommitKeepsTypes, WithdrawalKeepsTypes, MergeKeepsTypes
<1>2. Placed' /\ request' = request
  BY PlacedStays, TypesPlaced, OthersKeep
<1>3. \A o \in Txns : Typed(o)'
  <2>1. Typed(t)'
    BY OwnStepSuits DEF Suits
  <2>2. ASSUME NEW o \in Txns \ {t}
        PROVE  Typed(o)'
    <3>1. Still(o) /\ Typed(o)
      BY OthersKeep, TypedNow
    <3> QED
      BY <3>1 DEF Typed, Still
  <2> QED
    BY <2>1, <2>2
<1>4. Register!TypeOK'
  BY <1>1, DatabaseTypes, PTL
<1>5. request \in Workloads
  BY DEF TypeOK
<1> QED
  BY <1>2, <1>3, <1>4, <1>5 DEF TypeOK, Typed, Placed

-----------------------------------------------------------------------------
(* Answers                                                                 *)

\* Whoever is told "done" has just closed.
LEMMA DoneMeansClosed ==
  ASSUME TypeOK, NEW t \in Txns, Fits(t), Moves(t), request[t].op = "commit",
         result'[t] = "done", result[t] # "done"
  PROVE  CommitCloses(t)
<1>1. ASSUME RolledBack(t, "refused") \/ RolledBack(t, "deadlock") \/ RolledBack(t, "lost")
      PROVE  FALSE
  BY <1>1, Ends, TypesPlaced DEF RolledBack
<1>2. CASE DeadlockAbort(t) \/ ConnectionLost(t)
  BY <1>1, <1>2 DEF DeadlockAbort, ConnectionLost
<1>3. CASE LockDraft(t) \/ ResolvePerson(t) \/ LockPerson(t) \/ InsertPerson(t)
           \/ CheckOnFile(t) \/ InsertArtifact(t) \/ Project(t)
  BY <1>1, <1>3 DEF LockDraft, ResolvePerson, LockPerson, InsertPerson, CheckOnFile,
                    InsertArtifact, Project
<1>4. pc[t] \notin {"token", "stop", "tasks", "people", "absorbed", "survivor"}
  BY PcTells
<1> QED
  BY <1>2, <1>3, <1>4
     DEF Moves, Step, CommitStep, WithdrawStep, MergeStep, Authenticate, StopOne, WithdrawEndsLoop,
         WithdrawCloses, LockPeople, CheckMerge, LockRecord, ReadSurvivor, MergeCloses, At, Past

\* A draft that was filed or rejected is never touched again.
LEMMA DraftsStand ==
  ASSUME TypeOK, FiledStays, \A o \in Txns : Fits(o), NEW t \in Txns, Moves(t)
  PROVE  /\ known \subseteq known'
         /\ \A d \in Drafts : DraftReviewable(d)' => DraftReviewable(d)
         /\ \A d \in Drafts : ~ DraftReviewable(d) \/ DraftReviewable(d)' =>
              draft'[d] = draft[d] /\ artifact'[d] = artifact[d]
<1>1. CASE UNCHANGED database
  BY <1>1 DEF database, DraftReviewable
<1>2. CASE CommitCloses(t)
  <2> DEFINE d == request[t].draft
  <2>1. /\ d \in Drafts /\ DraftReviewable(d) /\ known' = known \cup {who[t]}
        /\ artifact' = [artifact EXCEPT ![d] = [person |-> who[t], form |-> FormOf(t)]]
        /\ draft' = [draft EXCEPT ![d].status = "committed", ![d].matched = who[t]]
    BY <1>2, CommitEffect
  <2>2. draft[d] \in Register!Draft
    BY <2>1 DEF TypeOK, Register!TypeOK, Register!NoDraft, DraftReviewable
  <2>3. DOMAIN draft = Drafts /\ DOMAIN artifact = Drafts
    BY DEF TypeOK, Register!TypeOK
  <2> HIDE DEF d
  <2>4. draft'[d].status = "committed"
    BY <2>1, <2>2, <2>3 DEF Register!Draft
  <2>5. \A e \in Drafts \ {d} : draft'[e] = draft[e] /\ artifact'[e] = artifact[e]
    BY <2>1, <2>3
  <2> QED
    BY <2>1, <2>4, <2>5 DEF DraftReviewable
<1>3. CASE WithdrawCloses(t)
  BY <1>3 DEF WithdrawCloses, DraftReviewable
<1>4. CASE \E early \in SUBSET Purposes : MergeCloses(t, early)
  BY <1>4 DEF MergeCloses, DraftReviewable
<1> QED
  BY <1>1, <1>2, <1>3, <1>4, OnlyCommitsWrite

\* What was acknowledged is in the database once, and stays.
LEMMA AnswersStep ==
  ASSUME TypeOK, FiledStays, AcknowledgedOnce, \A o \in Txns : Fits(o), NEW t \in Txns, Moves(t)
  PROVE  FiledStays' /\ AcknowledgedOnce'
<1>1. request' = request /\ \A o \in Txns \ {t} : Still(o)
  BY OthersKeep
<1>2. /\ known \subseteq known'
      /\ \A d \in Drafts : DraftReviewable(d)' => DraftReviewable(d)
      /\ \A d \in Drafts : ~ DraftReviewable(d) \/ DraftReviewable(d)' =>
           draft'[d] = draft[d] /\ artifact'[d] = artifact[d]
  BY DraftsStand
<1>3. \A o \in Txns : request[o].op = "commit" => request[o].draft \in Drafts
  BY RequestTypes
<1>4. \A o \in Txns : result[o] = "done" => who'[o] = who[o] /\ result'[o] = "done"
  <2>1. result[t] # "done"
    <3>1. CASE CommitStep(t)
      BY <3>1 DEF CommitStep, LockDraft, ResolvePerson, LockPerson, InsertPerson, CheckOnFile,
                  InsertArtifact, Project, CommitCloses, At, Past, Fits
    <3>2. CASE WithdrawStep(t)
      BY <3>2 DEF WithdrawStep, Authenticate, StopOne, WithdrawEndsLoop, WithdrawCloses, At, Past, Fits
    <3>3. CASE MergeStep(t)
      BY <3>3 DEF MergeStep, LockPeople, CheckMerge, LockRecord, ReadSurvivor, MergeCloses, At, Past, Fits
    <3> QED
      BY <3>1, <3>2, <3>3 DEF Moves, Step, DeadlockAbort, ConnectionLost
  <2> QED
    BY <1>1, <2>1 DEF Still
<1>5. \A o \in Txns : request[o].op = "commit" /\ result[o] = "done" =>
        /\ ~ DraftReviewable(request[o].draft)' /\ artifact'[request[o].draft].person = who'[o]
  <2> SUFFICES ASSUME NEW o \in Txns, request[o].op = "commit", result[o] = "done"
               PROVE  /\ ~ DraftReviewable(request[o].draft)'
                      /\ artifact'[request[o].draft].person = who'[o]
    BY <1>1
  <2>1. request[o].draft \in Drafts /\ ~ DraftReviewable(request[o].draft)
        /\ artifact[request[o].draft].person = who[o]
    BY <1>3 DEF FiledStays
  <2> QED
    BY <1>1, <1>2, <1>4, <2>1 DEF DraftReviewable
<1>6. CASE request[t].op = "commit" /\ result'[t] = "done" /\ result[t] # "done"
  <2> DEFINE d == request[t].draft
  <2>1. CommitCloses(t)
    BY <1>6, DoneMeansClosed
  <2>2. /\ d \in Drafts /\ DraftReviewable(d) /\ who'[t] = who[t]
        /\ artifact' = [artifact EXCEPT ![d] = [person |-> who[t], form |-> FormOf(t)]]
        /\ draft' = [draft EXCEPT ![d].status = "committed", ![d].matched = who[t]]
    BY <2>1, CommitEffect, Ends, TypesPlaced
  <2>3. draft[d] \in Register!Draft /\ DOMAIN draft = Drafts /\ DOMAIN artifact = Drafts
    BY <2>2 DEF TypeOK, Register!TypeOK, Register!NoDraft, DraftReviewable
  <2> HIDE DEF d
  <2>4. draft'[d].status = "committed" /\ artifact'[d].person = who'[t]
    BY <2>2, <2>3 DEF Register!Draft
  <2>5. \A o \in Txns \ {t} : request[o].op = "commit" /\ request[o].draft = d => result'[o] # "done"
    BY <1>1, <2>2 DEF FiledStays, Still
  <2>6. \A o \in Txns \ {t} : result'[o] = result[o] /\ who'[o] = who[o]
    BY <1>1 DEF Still
  <2>8. FiledStays'
    <3>1. \A e \in Drafts : DraftReviewable(e)' =>
            e \in DOMAIN Waiting /\ draft'[e] = Waiting[e]
      BY <1>2 DEF FiledStays
    <3>2. \A o \in Txns : request[o].op = "commit" /\ result'[o] = "done" =>
            /\ ~ (draft'[request[o].draft].status = "needs_review")
            /\ artifact'[request[o].draft].person = who'[o]
      <4>1. draft'[request[t].draft].status # "needs_review"
            /\ artifact'[request[t].draft].person = who'[t]
        BY <2>4 DEF d
      <4>2. \A o \in Txns \ {t} : request[o].op = "commit" /\ result[o] = "done" =>
              /\ draft'[request[o].draft].status # "needs_review"
              /\ artifact'[request[o].draft].person = who'[o]
        BY <1>1, <1>5 DEF DraftReviewable
      <4> QED
        BY <2>6, <4>1, <4>2
    <3> QED
      BY <1>1, <1>2, <3>1, <3>2 DEF FiledStays, DraftReviewable
  <2>9. AcknowledgedOnce'
    BY <1>1, <1>5, <2>4, <2>5, <2>6 DEF AcknowledgedOnce, d
  <2> QED
    BY <2>8, <2>9
<1>7. CASE ~ (request[t].op = "commit" /\ result'[t] = "done" /\ result[t] # "done")
  <2>1. \A o \in Txns : request[o].op = "commit" /\ result'[o] = "done" => result[o] = "done"
    BY <1>1, <1>7 DEF Still
  <2>2. FiledStays'
    BY <1>1, <1>2, <1>5, <2>1 DEF FiledStays
  <2>3. AcknowledgedOnce'
    BY <1>1, <1>5, <2>1 DEF AcknowledgedOnce
  <2> QED
    BY <2>2, <2>3
<1> QED
  BY <1>6, <1>7

-----------------------------------------------------------------------------
(* The invariant holds                                                     *)

\* Before any request the invariant holds.
LEMMA TransactionsStart ==
  ASSUME Init
  PROVE  TransactionsInv
<1>1. NoRecord \in Record /\ Blank \in [Persons -> [Purposes -> Record]]
  <2>1. NoRecord \in Record
    BY DEF NoRecord, Record, DayOrNull
  <2> QED
    BY <2>1 DEF Blank
<1>2. request \in Workloads
  BY DEF Init
<1>3. \A t \in Txns :
        \/ request[t].op = "commit" /\ request[t].draft \in Drafts
        \/ request[t].op = "withdraw"
        \/ /\ request[t].op = "merge"
           /\ request[t].absorbed \in Persons /\ request[t].survivor \in Persons
  BY <1>2, TransactionsAssumption
<1>4. \A t \in Txns :
        /\ todo[t] \in Seq(Rows)
        /\ request[t].op = "commit" => todo[t] = <<DraftRow(request[t].draft)>>
        /\ request[t].op = "withdraw" => todo[t] = <<>>
        /\ request[t].op = "merge" =>
             Left(t) = {PersonRow(request[t].absorbed), PersonRow(request[t].survivor)}
  <2> SUFFICES ASSUME NEW t \in Txns
               PROVE  /\ todo[t] \in Seq(Rows)
                      /\ request[t].op = "commit" => todo[t] = <<DraftRow(request[t].draft)>>
                      /\ request[t].op = "withdraw" => todo[t] = <<>>
                      /\ request[t].op = "merge" =>
                           Left(t) = {PersonRow(request[t].absorbed), PersonRow(request[t].survivor)}
    OBVIOUS
  <2>1. todo[t] \in Opening(request[t])
    BY DEF Init
  <2>2. CASE request[t].op = "commit"
    <3>1. todo[t] = <<DraftRow(request[t].draft)>>
      BY <2>1, <2>2 DEF Opening
    <3> QED
      BY <1>3, <2>2, <3>1, RowTypes
  <2>3. CASE request[t].op = "withdraw"
    BY <2>1, <2>3, RowSeqs DEF Opening
  <2>4. CASE request[t].op = "merge"
    <3> DEFINE S == {PersonRow(request[t].absorbed), PersonRow(request[t].survivor)}
    <3>1. todo[t] \in SetToSeqs(S)
      BY <2>1, <2>4 DEF Opening
    <3>2. IsFiniteSet(S)
      <4> DEFINE A == PersonRow(request[t].absorbed)
                 B == PersonRow(request[t].survivor)
      <4>1. IsFiniteSet({} \cup {A})
        BY FS_EmptySet, FS_AddElement
      <4>2. IsFiniteSet(({} \cup {A}) \cup {B})
        BY <4>1, FS_AddElement
      <4>3. S = ({} \cup {A}) \cup {B}
        OBVIOUS
      <4> QED
        BY <4>2, <4>3
    <3>3. todo[t] \in Seq(S) /\ Left(t) = S
      BY <3>1, <3>2, Listed DEF Left
    <3>4. S \subseteq Rows
      BY <1>3, <2>4, RowTypes
    <3> QED
      BY <2>4, <3>3, <3>4
  <2> QED
    BY <1>3, <2>2, <2>3, <2>4
<1> DEFINE Opens(t) == CASE request[t].op = "commit"   -> "draft"
                         [] request[t].op = "withdraw" -> "token"
                         [] request[t].op = "merge"    -> "people"
<1>5. \A t \in Txns :
        /\ request[t].op = "commit" => pc[t] = "draft"
        /\ request[t].op = "withdraw" => pc[t] = "token"
        /\ request[t].op = "merge" => pc[t] = "people"
  <2>1. \A t \in Txns : pc[t] = Opens(t)
    BY DEF Init
  <2>2. \A t :
          /\ request[t].op = "commit" => Opens(t) = "draft"
          /\ request[t].op = "withdraw" => Opens(t) = "token"
          /\ request[t].op = "merge" => Opens(t) = "people"
    OBVIOUS
  <2> HIDE DEF Opens
  <2> QED
    BY <2>1, <2>2
<1>13. pc = [t \in Txns |-> Opens(t)]
  BY DEF Init
<1> HIDE DEF Opens
<1>14. DOMAIN pc = Txns /\ pc = [t \in Txns |-> pc[t]]
  BY <1>13
<1>6. todo = [t \in Txns |-> todo[t]]
  BY DEF Init
<1>7. \A t \in Txns : /\ who[t] = None /\ view[t] = Blank /\ exclusive[t] = {} /\ shared[t] = {}
                      /\ result[t] = "running"
  BY DEF Init
<1>8. \A t \in Txns : Fits(t)
  <2> SUFFICES ASSUME NEW t \in Txns
               PROVE  Fits(t)
    OBVIOUS
  <2>0. /\ who[t] = None /\ view[t] = Blank /\ exclusive[t] = {} /\ shared[t] = {}
        /\ result[t] = "running"
    BY <1>7
  <2>1. CASE request[t].op = "commit"
    <3>1. pc[t] = "draft" /\ todo[t] = <<DraftRow(request[t].draft)>>
      BY <2>1, <1>4, <1>5
    <3>2. CommitFits(t)
      BY <2>0, <3>1 DEF CommitFits
    <3> QED
      BY <2>0, <2>1, <3>1, <3>2 DEF Fits
  <2>2. CASE request[t].op = "withdraw"
    <3>1. pc[t] = "token" /\ todo[t] = <<>>
      BY <2>2, <1>4, <1>5
    <3>2. WithdrawFits(t)
      BY <2>0, <3>1 DEF WithdrawFits
    <3> QED
      BY <2>0, <2>2, <3>1, <3>2 DEF Fits
  <2>3. CASE request[t].op = "merge"
    <3>1. /\ pc[t] = "people"
          /\ Left(t) = {PersonRow(request[t].absorbed), PersonRow(request[t].survivor)}
      BY <2>3, <1>4, <1>5
    <3>2. MergeFits(t)
      BY <2>0, <3>1 DEF MergeFits
    <3> QED
      BY <2>0, <2>3, <3>1, <3>2 DEF Fits
  <2> QED
    BY <1>3, <2>1, <2>2, <2>3
<1>9. DatabaseOK
  <2>1. known \subseteq Persons
    BY TransactionsAssumption DEF Init
  <2>2. mergedInto \in [Persons -> Persons \cup {None}]
    BY DEF Init
  <2>3. artifact \in [Drafts -> [person : Persons, form : Papers] \cup {Register!NoArtifact}]
    BY TransactionsAssumption DEF Init
  <2>4. draft \in [Drafts -> Register!Draft \cup {Register!NoDraft}]
    <3>1. \A d \in DOMAIN Filed :
            [status |-> "committed", form |-> Filed[d].form, matched |-> Filed[d].person]
              \in Register!Draft
      BY TransactionsAssumption DEF Register!Draft
    <3>2. \A d \in DOMAIN Waiting : Waiting[d] \in Register!Draft
      BY TransactionsAssumption DEF Register!Draft
    <3> QED
      BY <3>1, <3>2 DEF Init
  <2>5. record \in [Persons -> [Purposes -> Record]]
    <3> DEFINE Of(p, u) == {d \in DOMAIN Filed : Filed[d].person = p /\ u \in Asked(Filed[d].form)}
               First(p, u) == CHOOSE d \in Of(p, u) : TRUE
    <3>1. record = [p \in Persons |-> [u \in Purposes |->
             IF Of(p, u) = {} THEN NoRecord
             ELSE Answered(First(p, u), Filed[First(p, u)].form, u)]]
      BY DEF Init
    <3>2. \A d \in DOMAIN Filed, u \in Purposes : Answered(d, Filed[d].form, u) \in Record
      BY TransactionsAssumption DEF Answered, Record, Form, DayOrNull
    <3>3. \A p, u : Of(p, u) # {} => First(p, u) \in DOMAIN Filed
      OBVIOUS
    <3> HIDE DEF First, Of
    <3> QED
      BY <1>1, <3>1, <3>2, <3>3
  <2>6. folded \in [Persons -> SUBSET Persons] /\ withdrawals = {} /\ tasks = {}
    BY DEF Init
  <2> QED
    BY <2>1, <2>2, <2>3, <2>4, <2>5, <2>6 DEF DatabaseOK
<1>10. TypeOK
  <2>1. /\ who \in [Txns -> Persons \cup {None}]
        /\ view \in [Txns -> [Persons -> [Purposes -> Record]]]
        /\ exclusive \in [Txns -> SUBSET Rows]
        /\ shared \in [Txns -> SUBSET Rows]
        /\ result \in [Txns -> {"running", "done", "refused", "deadlock", "lost"}]
    BY <1>1 DEF Init
  <2>2. todo \in [Txns -> Seq(Rows)]
    BY <1>4, <1>6
  <2>3. \A t \in Txns : pc[t] \in {"draft", "token", "people"}
    <3> SUFFICES ASSUME NEW t \in Txns
                 PROVE  pc[t] \in {"draft", "token", "people"}
      OBVIOUS
    <3>1. request[t].op \in {"commit", "withdraw", "merge"}
      BY <1>3
    <3> QED
      BY <1>5, <3>1
  <2> QED
    BY <1>2, <1>14, <1>9, <2>1, <2>2, <2>3, DatabaseTypes DEF TypeOK
<1>11. LocksExclude /\ AcknowledgedOnce
  BY <1>7 DEF LocksExclude, AcknowledgedOnce
<1>12. FiledStays
  <2>1. \A d \in Drafts : DraftReviewable(d) => d \in DOMAIN Waiting /\ draft[d] = Waiting[d]
    BY DEF Init, DraftReviewable, Register!NoDraft
  <2> QED
    BY <1>7, <2>1 DEF FiledStays, Init
<1> QED
  BY <1>8, <1>10, <1>11, <1>12 DEF TransactionsInv

\* A step of one transaction keeps it.
LEMMA TransactionsMove ==
  ASSUME TransactionsInv, NEW t \in Txns, Moves(t)
  PROVE  TransactionsInv'
<1> USE DEF TransactionsInv
<1>1. TypeOK'
  BY TypesStep
<1>2. LocksExclude'
  BY LocksStep
<1>3. FiledStays' /\ AcknowledgedOnce'
  BY AnswersStep
<1>4. ASSUME NEW o \in Txns
      PROVE  Fits(o)'
  <2>1. CASE o = t
    BY <2>1, OwnStepSuits DEF Suits
  <2>2. CASE o # t
    <3>1. Undisturbed(o) /\ Still(o) /\ request' = request
      BY <2>2, NobodyDisturbed, OthersKeep
    <3> QED
      BY <3>1, FitsStays
  <2> QED
    BY <2>1, <2>2
<1> QED
  BY <1>1, <1>2, <1>3, <1>4

\* Nothing changes when nothing happens.
LEMMA TransactionsStutter ==
  ASSUME TransactionsInv, UNCHANGED vars
  PROVE  TransactionsInv'
<1> USE DEF TransactionsInv, vars, database, locks
<1>1. TypeOK'
  <2>1. DatabaseOK'
    BY DatabaseTypes DEF TypeOK, DatabaseOK
  <2>2. Register!TypeOK'
    BY <2>1, DatabaseTypes, PTL
  <2> QED
    BY <2>2 DEF TypeOK
<1>2. LocksExclude' /\ FiledStays' /\ AcknowledgedOnce'
  BY DEF LocksExclude, FiledStays, AcknowledgedOnce, DraftReviewable
<1>3. \A t \in Txns : Fits(t)'
  <2> SUFFICES ASSUME NEW t \in Txns
               PROVE  Fits(t)'
    OBVIOUS
  <2>1. Still(t) /\ Undisturbed(t)
    BY DEF Still, Undisturbed
  <2> QED
    BY <2>1, FitsStays
<1> QED
  BY <1>1, <1>2, <1>3

\* Every step is a step of one transaction.
LEMMA Steps ==
  ASSUME [Next]_vars
  PROVE  UNCHANGED vars \/ \E t \in Txns : Moves(t)
BY DEF Next, Moves

\* The invariant of the locks holds whatever requests are served at once: what a
\* transaction has read under a lock is still so at its next statement (intake.ts,
\* rights.ts, merge.ts).
THEOREM TransactionsHold == Spec => []TransactionsInv
<1>1. Init => TransactionsInv
  BY TransactionsStart
<1>2. TransactionsInv /\ [Next]_vars => TransactionsInv'
  BY TransactionsMove, TransactionsStutter, Steps
<1> QED
  BY <1>1, <1>2, PTL DEF Spec

\* Every state of the transactions is of the declared types.
THEOREM TypeCorrect == Spec => []TypeOK
<1>1. TransactionsInv => TypeOK
  BY DEF TransactionsInv
<1> QED
  BY <1>1, TransactionsHold, PTL

\* A draft submitted twice is acknowledged once.
THEOREM AcknowledgedOnceHolds == Spec => []AcknowledgedOnce
<1>1. TransactionsInv => AcknowledgedOnce
  BY DEF TransactionsInv
<1> QED
  BY <1>1, TransactionsHold, PTL

-----------------------------------------------------------------------------
(* Commits never wait for each other in a circle                           *)

Spreads(f, t, n) ==
  f = [i \in 0 .. n |-> IF i = 0 THEN Blockers(t)
                        ELSE f[i - 1] \cup UNION {Blockers(o) : o \in f[i - 1]}]

\* Those a transaction waits for, and those they wait for, at any distance.
LEMMA SpreadExists ==
  ASSUME NEW t
  PROVE  \A n \in Nat : \E f : Spreads(f, t, n)
<1> DEFINE S == {n \in Nat : \E f : Spreads(f, t, n)}
<1>1. 0 \in S
  <2>1. Spreads([i \in 0 .. 0 |-> Blockers(t)], t, 0)
    BY DEF Spreads
  <2> QED
    BY <2>1
<1>2. ASSUME NEW n \in Nat, n \in S
      PROVE  n + 1 \in S
  <2>1. PICK f : Spreads(f, t, n)
    BY <1>2
  <2> DEFINE g == [i \in 0 .. n + 1 |->
                     IF i = n + 1 THEN f[n] \cup UNION {Blockers(o) : o \in f[n]} ELSE f[i]]
             h == [i \in 0 .. n + 1 |->
                     IF i = 0 THEN Blockers(t)
                     ELSE g[i - 1] \cup UNION {Blockers(o) : o \in g[i - 1]}]
  <2>2. ASSUME NEW i \in 0 .. n + 1
        PROVE  g[i] = h[i]
    <3>1. CASE i = 0
      BY <3>1, <2>1 DEF Spreads
    <3>2. CASE i \in 1 .. n
      <4>1. g[i] = f[i] /\ g[i - 1] = f[i - 1] /\ i \in 0 .. n
        BY <3>2
      <4>2. f[i] = f[i - 1] \cup UNION {Blockers(o) : o \in f[i - 1]}
        <5>1. i # 0 /\ i \in 0 .. n
          BY <3>2
        <5> HIDE DEF g, h, S
        <5> QED
          BY <2>1, <5>1 DEF Spreads
      <4>3. h[i] = g[i - 1] \cup UNION {Blockers(o) : o \in g[i - 1]}
        BY <3>2
      <4> HIDE DEF g, h
      <4> QED
        BY <4>1, <4>2, <4>3
    <3>3. CASE i = n + 1
      <4>1. g[i - 1] = f[n]
        BY <3>3
      <4> QED
        BY <3>3, <4>1
    <3> QED
      BY <3>1, <3>2, <3>3
  <2>3. g = h
    BY <2>2
  <2>4. Spreads(g, t, n + 1)
    BY <2>3 DEF Spreads
  <2> QED
    BY <2>4
<1> QED
  BY <1>1, <1>2, NatSet

\* Whoever waits is found in any set that nobody in it waits outside of.
LEMMA WaitsInside ==
  ASSUME NEW t, NEW S, Blockers(t) \subseteq S, \A o \in S : Blockers(o) \subseteq S
  PROVE  WaitsFor(t) \subseteq S
<1> DEFINE n == Cardinality(Txns)
           f == CHOOSE f : Spreads(f, t, n)
<1>1. n \in Nat
  BY TransactionsAssumption, FS_CardinalityType
<1>2. Spreads(f, t, n)
  BY <1>1, SpreadExists
<1>3. WaitsFor(t) = f[n]
  BY DEF WaitsFor, Spreads
<1> HIDE DEF n, f
<1>4. /\ f[0] = Blockers(t)
      /\ \A i \in 1 .. n : f[i] = f[i - 1] \cup UNION {Blockers(o) : o \in f[i - 1]}
  BY <1>1, <1>2 DEF Spreads
<1> DEFINE N == {i \in Nat : i <= n => f[i] \subseteq S}
<1>5. 0 \in N
  BY <1>4
<1>6. ASSUME NEW i \in Nat, i \in N
      PROVE  i + 1 \in N
  <2>1. CASE i + 1 <= n
    <3>1. i + 1 \in 1 .. n /\ (i + 1) - 1 = i /\ i <= n
      BY <1>1, <2>1
    <3>2. f[i + 1] = f[i] \cup UNION {Blockers(o) : o \in f[i]}
      BY <1>4, <3>1
    <3> QED
      BY <1>6, <3>1, <3>2
  <2> QED
    BY <2>1
<1>7. Nat \subseteq N
  BY <1>5, <1>6, NatSet
<1> QED
  BY <1>1, <1>3, <1>7

\* The place of a statement in the order in which a commit takes its locks: the
\* draft, the person, the foreign key, the records.
Rank(t) == CASE pc[t] = "draft" -> 0
             [] pc[t] \in {"person", "insert"} -> 1
             [] pc[t] = "artifact" -> 2
             [] pc[t] = "project" -> 3
             [] OTHER -> 4

\* o waits further down that order than t.
Beyond(o, t) ==
  \/ Rank(t) < Rank(o)
  \/ /\ pc[o] = "project" /\ pc[t] = "project"
     /\ PurposeId[Head(todo[t])[3]] < PurposeId[Head(todo[o])[3]]

\* To have got further in the order of locks is a strict order.
LEMMA BeyondIsAnOrder ==
  ASSUME TypeOK, NEW s \in Txns, NEW t \in Txns, NEW o \in Txns,
         \A q \in {s, t, o} : pc[q] = "project" => Head(todo[q])[3] \in Purposes
  PROVE  /\ ~ Beyond(t, t)
         /\ Beyond(o, t) /\ Beyond(t, s) => Beyond(o, s)
<1>1. PurposeId \in [Purposes -> Int]
  BY TransactionsAssumption
<1>2. \A q \in {s, t, o} : pc[q] = "project" => PurposeId[Head(todo[q])[3]] \in Int
  BY <1>1
<1>3. \A q \in {s, t, o} : Rank(q) \in 0 .. 4 /\ (pc[q] = "project" <=> Rank(q) = 3)
  BY DEF Rank
<1> QED
  BY <1>2, <1>3 DEF Beyond

\* Whoever a commit waits for is further down, or waits for nobody.
LEMMA BlockersAreBeyond ==
  ASSUME TransactionsInv, \A t \in Txns : request[t].op = "commit",
         NEW t \in Txns, NEW o \in Blockers(t)
  PROVE  o \in Txns /\ (Blockers(o) = {} \/ Beyond(o, t))
<1> DEFINE row == Head(todo[t])
<1>1. /\ o \in Txns /\ o # t /\ todo[t] # <<>>
      /\ row \in exclusive[o] \/ (~ Sharing(t) /\ row \in shared[o])
  BY DEF Blockers
<1>2. CommitFits(t) /\ CommitFits(o)
  BY <1>1 DEF TransactionsInv, Fits
<1>3. /\ pc[t] = "ended" => todo[t] = <<>>
      /\ pc[o] = "ended" => exclusive[o] = {} /\ shared[o] = {}
  BY <1>1 DEF TransactionsInv, Fits
<1>4. Blockers(o) # {} => todo[o] # <<>>
  BY DEF Blockers
<1>5. SUFFICES ASSUME Blockers(o) # {}
               PROVE  Beyond(o, t)
  BY <1>1
<1>6. /\ pc[o] \notin {"ended", "resolve", "check", "draft"}
      /\ pc[t] \in {"draft", "person", "insert", "artifact", "project"}
  BY <1>1, <1>2, <1>3, <1>4, <1>5 DEF CommitFits
<1>7. pc[o] \in {"person", "insert", "artifact", "project"}
  BY <1>2, <1>6 DEF CommitFits
<1>8. CASE pc[t] = "draft"
  BY <1>7, <1>8 DEF Beyond, Rank
<1>9. CASE pc[t] \in {"person", "insert"}
  <2>1. \E p : row = PersonRow(p)
    BY <1>2, <1>9, ShortRanges DEF CommitFits
  <2>2. pc[o] \in {"artifact", "project"}
    BY <1>1, <1>2, <1>7, <2>1, RowsDiffer DEF CommitFits
  <2> QED
    BY <1>9, <2>2 DEF Beyond, Rank
<1>10. CASE pc[t] = "artifact"
  <2>1. row = PersonRow(who[t]) /\ row \in exclusive[o]
    BY <1>1, <1>2, <1>10, ShortRanges DEF CommitFits, Sharing
  <2>2. pc[o] # "artifact"
    <3> SUFFICES ASSUME pc[o] = "artifact"
                 PROVE  FALSE
      OBVIOUS
    <3>0. todo[o] = <<PersonRow(who[o])>> /\ exclusive[o] \subseteq {DraftRow(request[o].draft), PersonRow(who[o])}
      BY <1>2 DEF CommitFits
    <3>1. Head(todo[o]) = PersonRow(who[o]) /\ who[o] = who[t]
      BY <2>1, <3>0, ShortRanges, RowsDiffer
    <3>2. PICK q \in Txns \ {o} : Head(todo[o]) \in exclusive[q]
      BY <1>5 DEF Blockers, Sharing
    <3>3. LocksExclude
      BY DEF TransactionsInv
    <3> QED
      BY <1>1, <2>1, <3>1, <3>2, <3>3 DEF LocksExclude
  <2>3. pc[o] = "project"
    BY <1>2, <1>7, <2>1, <2>2, RowsDiffer DEF CommitFits
  <2> QED
    BY <1>10, <2>3 DEF Beyond, Rank
<1>11. CASE pc[t] = "project"
  <2>1. todo[t] \in Seq(Rows) /\ todo[o] \in Seq(Rows)
    BY <1>1 DEF TransactionsInv, TypeOK
  <2>2. row \in Left(t) /\ Head(todo[o]) \in Left(o) /\ Head(todo[o]) = todo[o][1] /\ 1 \in DOMAIN todo[o]
    BY <1>1, <1>4, <1>5, <2>1, Popped DEF Left
  <2>3. PICK u \in Purposes : row = RecordRow(who[t], u)
    BY <1>2, <1>11, <2>2 DEF CommitFits, Projecting, RecordsOf
  <2>4. row \in exclusive[o]
    BY <1>1, <1>2, <2>3, RowsDiffer DEF CommitFits
  <2>5. pc[o] = "project"
    BY <1>2, <1>7, <2>3, <2>4, RowsDiffer DEF CommitFits
  <2>6. Projecting(o)
    BY <1>2, <2>5 DEF CommitFits
  <2>7. row = RecordRow(who[o], u)
    BY <2>3, <2>4, <2>6, RowsDiffer DEF Projecting, RecordsOf
  <2>8. PurposeId[u] < PurposeId[todo[o][1][3]]
    BY <2>2, <2>4, <2>6, <2>7 DEF Projecting
  <2> QED
    BY <1>11, <2>2, <2>3, <2>5, <2>8, RowsDiffer DEF Beyond
<1> QED
  BY <1>6, <1>8, <1>9, <1>10, <1>11

\* Commits, which take their locks in purpose id order, never deadlock among
\* themselves, however many there are and whatever the forms ask for.
THEOREM CommitsNeverDeadlockHolds == Spec => []CommitsNeverDeadlock
<1>1. ASSUME TransactionsInv
      PROVE  CommitsNeverDeadlock
  <2> SUFFICES ASSUME \A t \in Txns : request[t].op = "commit", NEW t \in Txns
               PROVE  t \notin WaitsFor(t)
    BY DEF CommitsNeverDeadlock
  <2>1. \A q \in Txns : pc[q] = "project" /\ todo[q] # <<>> => Head(todo[q])[3] \in Purposes
    <3> SUFFICES ASSUME NEW q \in Txns, pc[q] = "project", todo[q] # <<>>
                 PROVE  Head(todo[q])[3] \in Purposes
      OBVIOUS
    <3>1. Projecting(q) /\ todo[q] \in Seq(Rows)
      BY <1>1 DEF TransactionsInv, Fits, CommitFits, TypeOK
    <3>2. Head(todo[q]) \in RecordsOf(who[q])
      BY <3>1, Popped DEF Left, Projecting
    <3> QED
      BY <3>2, RowsDiffer DEF RecordsOf
  <2>2. \A q \in Txns : Blockers(q) # {} => todo[q] # <<>>
    BY DEF Blockers
  <2> DEFINE S == {o \in Txns : Blockers(t) # {} /\ (Blockers(o) = {} \/ Beyond(o, t))}
  <2>3. Blockers(t) \subseteq S
    BY <1>1, BlockersAreBeyond
  <2>4. \A o \in S : Blockers(o) \subseteq S
    <3> SUFFICES ASSUME NEW o \in S, NEW q \in Blockers(o)
                 PROVE  q \in S
      OBVIOUS
    <3>1. q \in Txns /\ (Blockers(q) = {} \/ Beyond(q, o))
      BY <1>1, BlockersAreBeyond
    <3>2. CASE Blockers(q) = {}
      BY <3>1, <3>2
    <3>3. CASE Blockers(q) # {} /\ Beyond(q, o)
      <4>1. Beyond(o, t) /\ Blockers(t) # {} /\ Blockers(o) # {}
        OBVIOUS
      <4>2. \A r \in {t, o, q} : pc[r] = "project" => Head(todo[r])[3] \in Purposes
        BY <2>1, <2>2, <3>1, <3>3, <4>1
      <4>3. Beyond(q, t)
        BY <1>1, <3>1, <3>3, <4>1, <4>2, BeyondIsAnOrder DEF TransactionsInv
      <4> QED
        BY <3>1, <4>1, <4>3
    <3> QED
      BY <3>1, <3>2, <3>3
  <2>5. t \notin S
    <3> SUFFICES ASSUME Blockers(t) # {}
                 PROVE  ~ Beyond(t, t)
      OBVIOUS
    <3>1. pc[t] = "project" => Head(todo[t])[3] \in Purposes
      BY <2>1, <2>2
    <3> QED
      BY <1>1, <3>1, BeyondIsAnOrder DEF TransactionsInv
  <2> HIDE DEF S
  <2> QED
    BY <2>3, <2>4, <2>5, WaitsInside
<1> QED
  BY <1>1, TransactionsHold, PTL

-----------------------------------------------------------------------------
(* One transaction at a time                                               *)

\* The chains of the register are the chains walked here.
LEMMA SameChains ==
  \A p, into, n, none : Register!ChainFrom(p, into, n, none) = ChainFrom(p, into, n, none)
BY DEF Register!ChainFrom, ChainFrom

\* A live identity is its own.
LEMMA ResolvesToItself ==
  ASSUME NEW p \in known, mergedInto[p] = None
  PROVE  Register!Resolve(p) = p
<1>1. MaxMergeDepth \in Nat
  BY TransactionsAssumption
<1>2. p \in Register!Chain(p) /\ Register!Chain(p) \subseteq {p}
  <2> DEFINE S == {p}
  <2>1. p \in S /\ \A q \in S : mergedInto[q] \in S \cup {None}
    OBVIOUS
  <2> HIDE DEF S
  <2>2. /\ p \in ChainFrom(p, mergedInto, MaxMergeDepth, None)
        /\ ChainFrom(p, mergedInto, MaxMergeDepth, None) \subseteq S
    BY <1>1, <2>1, ChainStays
  <2>3. Register!Chain(p) = ChainFrom(p, mergedInto, MaxMergeDepth, None)
    BY SameChains DEF Register!Chain
  <2> QED
    BY <2>2, <2>3 DEF S
<1>3. {q \in known : mergedInto[q] = None /\ p \in known /\ q \in Register!Chain(p)} = {p}
  BY <1>2
<1> QED
  BY <1>3 DEF Register!Resolve

\* A commit ends with the effect of one commit of the register.
LEMMA CommitIsSerial ==
  ASSUME TypeOK, FiledStays, NEW t \in Txns, Fits(t), CommitCloses(t)
  PROVE  \/ ActsOnAbsorbed \/ Register!Next
         \/ Register!AlreadyRecorded(who[t], FormOf(t)) /\ Overtaken
<1> DEFINE d == request[t].draft
           w == who[t]
           f == FormOf(t)
<1>1. /\ request[t].op = "commit" /\ d \in Drafts /\ w \in Persons
      /\ DraftReviewable(d)
      /\ known' = known \cup {w}
      /\ artifact' = [artifact EXCEPT ![d] = [person |-> w, form |-> f]]
      /\ draft' = [draft EXCEPT ![d].status = "committed", ![d].matched = w]
      /\ UNCHANGED <<mergedInto, withdrawals, folded, tasks>>
      /\ record' = [record EXCEPT ![w] = [u \in Purposes |-> Projected(d, f, record[w][u], u)]]
      /\ Ended(t, "done")
  BY CommitEffect
<1>2. pc[t] = "project" /\ result[t] = "running" /\ CommitFits(t)
  BY <1>1 DEF CommitCloses, Past, Fits
<1>3. result'[t] = "done" /\ w # None
  BY <1>1, Ends, TypesPlaced, RulesAssumption
<1>4. f.collectedOn <= Today /\ draft[d].form = f
  BY <1>1, FormTypes DEF FormOf
<1>5. [u \in Purposes |-> Register!Projected(d, f, record[w][u], u)]
        = [u \in Purposes |-> Projected(d, f, record[w][u], u)]
  BY SameRules
<1>6. CASE mergedInto[w] # None
  BY <1>2, <1>3, <1>6 DEF ActsOnAbsorbed
<1>7. CASE Register!AlreadyRecorded(w, f)
  BY <1>1, <1>2, <1>3, <1>7 DEF Overtaken
<1>8. ASSUME mergedInto[w] = None, ~ Register!AlreadyRecorded(w, f),
             NEW confirm \in known \cup {None}, NEW forceNew \in BOOLEAN,
             Register!FiledUnder(IF confirm # None THEN confirm ELSE draft[d].matched, f, forceNew, w)
      PROVE  Register!Next
  <2>1. Register!Commit(d, confirm, forceNew)
    BY <1>1, <1>4, <1>5, <1>8 DEF Register!Commit, DraftReviewable
  <2> QED
    BY <1>1, <2>1 DEF Register!Next
<1>9. CASE mergedInto[w] = None /\ ~ Register!AlreadyRecorded(w, f) /\ w \in known
  <2>1. Register!FiledUnder(w, f, FALSE, w)
    BY <1>3, <1>9, ResolvesToItself DEF Register!FiledUnder
  <2> QED
    BY <1>3, <1>8, <1>9, <2>1
<1>10. CASE mergedInto[w] = None /\ ~ Register!AlreadyRecorded(w, f) /\ w \notin known
  <2>1. w = f.subject /\ Chosen(t) = None
    BY <1>2, <1>10 DEF CommitFits
  <2>2. draft[d].matched = None
    BY <2>1 DEF Chosen
  <2>3. Register!FiledUnder(None, f, TRUE, w)
    BY <1>10, <2>1 DEF Register!FiledUnder
  <2> QED
    BY <1>8, <1>10, <2>2, <2>3
<1> QED
  BY <1>6, <1>7, <1>9, <1>10

\* A withdrawal ends with the effect of one withdrawal of the register.
LEMMA WithdrawalIsSerial ==
  ASSUME TypeOK, FiledStays, NEW t \in Txns, Fits(t), pc[t] = "tasks", WithdrawCloses(t)
  PROVE  UNCHANGED database \/ ActsOnAbsorbed \/ Register!Next
<1> DEFINE w == who[t]
<1>1. /\ w \in known /\ w \in Persons
      /\ Changed(t) = {u \in Purposes : /\ RecordRow(w, u) \in exclusive[t]
                                        /\ record[w][u].status = "active"}
      /\ record' = [record EXCEPT ![w] =
                       [u \in Purposes |-> IF u \in Changed(t) THEN Stopped(record[w][u])
                                           ELSE record[w][u]]]
  BY WithdrawEffect DEF WithdrawCloses
<1>2. /\ withdrawals' = withdrawals \cup
           {[person |-> w, purpose |-> u, on |-> Today] : u \in Changed(t)}
      /\ tasks' = tasks \cup Register!Raised(w, Changed(t))
      /\ UNCHANGED <<known, mergedInto, draft, artifact, folded>>
      /\ Ended(t, "done")
  BY DEF WithdrawCloses
<1>3. result[t] = "running" /\ result'[t] = "done" /\ w # None
  BY <1>1, <1>2, Ends, TypesPlaced, RulesAssumption DEF Fits
<1>4. CASE mergedInto[w] # None
  BY <1>3, <1>4 DEF ActsOnAbsorbed
<1>5. CASE Changed(t) = {}
  <2>1. record' = record
    <3>1. [u \in Purposes |-> IF u \in Changed(t) THEN Stopped(record[w][u])
                              ELSE record[w][u]] = record[w]
      BY <1>1, <1>5, KnownTypes
    <3> QED
      BY <1>1, <3>1, KnownTypes
  <2>2. Register!Raised(w, {}) = {}
    BY DEF Register!Raised
  <2> QED
    BY <1>2, <1>5, <2>1, <2>2 DEF database
<1>6. CASE mergedInto[w] = None /\ Changed(t) # {}
  <2>1. Register!Resolve(w) = w
    BY <1>1, <1>6, ResolvesToItself
  <2>2. {u \in Changed(t) : record[w][u].status = "active"} = Changed(t)
    BY <1>1
  <2>3. [u \in Purposes |-> IF u \in Changed(t) THEN Stopped(record[w][u]) ELSE record[w][u]]
          = [u \in Purposes |->
               IF u \in Changed(t)
               THEN [record[w][u] EXCEPT !.status = "withdrawn", !.withdrawnOn = Today]
               ELSE record[w][u]]
    BY DEF Stopped
  <2> HIDE DEF w
  <2>4. Register!Withdraw(w, Changed(t))
    <3>1. record' = [record EXCEPT ![w] =
             [u \in Purposes |->
               IF u \in Changed(t)
               THEN [record[w][u] EXCEPT !.status = "withdrawn", !.withdrawnOn = Today]
               ELSE record[w][u]]]
      BY <1>1, <2>3
    <3> QED
      BY <1>2, <1>3, <2>1, <2>2, <3>1 DEF Register!Withdraw
  <2>5. Changed(t) \in (SUBSET Purposes) \ {{}}
    <3>1. Changed(t) \subseteq Purposes
      BY DEF Changed
    <3> QED
      BY <1>6, <3>1
  <2> QED
    BY <1>1, <2>4, <2>5 DEF Register!Next
<1> QED
  BY <1>4, <1>5, <1>6

\* A merge ends with the effect of one merge of the register.
LEMMA MergeIsSerial ==
  ASSUME TypeOK, FiledStays, NEW t \in Txns, Fits(t),
         NEW early \in SUBSET Purposes, MergeCloses(t, early)
  PROVE  \/ Register!Next
         \/ Register!Resolve(request[t].survivor) \in {None, request[t].absorbed} /\ Overtaken
<1> DEFINE a == request[t].absorbed
           s == request[t].survivor
<1>1. /\ request[t].op = "merge" /\ a # s /\ a \in known /\ s \in known /\ mergedInto[a] = None
      /\ mergedInto' = [mergedInto EXCEPT ![a] = s]
      /\ record' = [record EXCEPT
           ![a] = [u \in Purposes |-> NoRecord],
           ![s] = [u \in Purposes |-> Reconciled(record[s][u], record[a][u], u \in early)]]
      /\ folded' = [folded EXCEPT ![a] = {}, ![s] = folded[s] \cup folded[a]]
      /\ UNCHANGED <<known, draft, artifact, withdrawals, tasks>>
      /\ Ended(t, "done")
  BY MergeEffect
<1>2. result[t] = "running" /\ result'[t] = "done"
  BY <1>1, Ends, TypesPlaced DEF MergeCloses, Past, Fits
<1>3. CASE Register!Resolve(s) \in {None, a}
  BY <1>1, <1>2, <1>3 DEF Overtaken
<1>4. CASE Register!Resolve(s) \notin {None, a}
  <2>1. [u \in Purposes |-> Register!Reconciled(record[s][u], record[a][u], u \in early)]
          = [u \in Purposes |-> Reconciled(record[s][u], record[a][u], u \in early)]
    <3>1. \A u \in Purposes : Register!Reconciled(record[s][u], record[a][u], u \in early)
                                = Reconciled(record[s][u], record[a][u], u \in early)
      <4> SUFFICES ASSUME NEW u \in Purposes
                   PROVE  Register!Reconciled(record[s][u], record[a][u], u \in early)
                                = Reconciled(record[s][u], record[a][u], u \in early)
        OBVIOUS
      <4>1. Register!NoDay = NoDay
        BY DEF Register!NoDay, NoDay
      <4> QED
        BY <4>1 DEF Register!Reconciled, Reconciled, Register!AbsorbedWins, AbsorbedWins
    <3> QED
      BY <3>1
  <2>2. [u \in Purposes |-> Register!NoRecord] = [u \in Purposes |-> NoRecord]
    BY SameRules
  <2> HIDE DEF a, s
  <2>3. Register!Merge(a, s, early)
    BY <1>1, <1>4, <2>1, <2>2 DEF Register!Merge
  <2> QED
    BY <1>1, <2>3 DEF Register!Next
<1> QED
  BY <1>3, <1>4

\* What a commit or a merge checked at its turn may no longer be so when it
\* closes: the form has been filed by another draft, or the chains of two merges
\* now meet.  These are the only two ways, with the person merged away under a
\* commit or a withdrawal, in which a step is not one the register takes alone.
THEOREM SerialButOvertaken == Spec => [][ActsOnAbsorbed \/ Overtaken \/ Register!Next]_database
<1>1. ASSUME TransactionsInv, [Next]_vars
      PROVE  [ActsOnAbsorbed \/ Overtaken \/ Register!Next]_database
  <2>1. CASE UNCHANGED vars
    BY <2>1 DEF vars
  <2>2. ASSUME NEW t \in Txns, Moves(t)
        PROVE  UNCHANGED database \/ ActsOnAbsorbed \/ Overtaken \/ Register!Next
    <3>1. TypeOK /\ FiledStays /\ Fits(t)
      BY <1>1 DEF TransactionsInv
    <3> QED
      BY <2>2, <3>1, OnlyCommitsWrite, CommitIsSerial, WithdrawalIsSerial, MergeIsSerial
  <2> QED
    BY <1>1, <2>1, <2>2, Steps
<1> QED
  BY <1>1, TransactionsHold, PTL DEF Spec

-----------------------------------------------------------------------------
(* What was stopped stays stopped                                          *)

\* Before any request the stops stand.
LEMMA StopsStart ==
  ASSUME Init
  PROVE  StopsStand
<1>1. /\ withdrawals = {} /\ folded = [p \in Persons |-> {p}]
      /\ mergedInto = [p \in Persons |-> None]
  BY DEF Init
<1>2. \A p \in Persons, u \in Purposes : record[p][u].status # "withdrawn"
  <2> DEFINE Of(p, u) == {d \in DOMAIN Filed : Filed[d].person = p /\ u \in Asked(Filed[d].form)}
             First(p, u) == CHOOSE d \in Of(p, u) : TRUE
  <2>1. record = [p \in Persons |-> [u \in Purposes |->
           IF Of(p, u) = {} THEN NoRecord
           ELSE Answered(First(p, u), Filed[First(p, u)].form, u)]]
    BY DEF Init
  <2>2. \A d, f, u : Answered(d, f, u).status # "withdrawn" /\ NoRecord.status # "withdrawn"
    BY DEF Answered, NoRecord
  <2> HIDE DEF Of, First
  <2> QED
    BY <2>1, <2>2
<1> QED
  BY <1>1, <1>2 DEF StopsStand

\* A form dated today at the latest never replaces what was withdrawn today,
\* and no form takes a record away.
LEMMA FormsYield ==
  ASSUME NEW d \in Drafts, NEW f \in Form, f.collectedOn <= Today, NEW r \in Record, NEW u
  PROVE  /\ Projected(d, f, r, u).status = "withdrawn" => Projected(d, f, r, u) = r
         /\ r.status = "withdrawn" /\ r.withdrawnOn = Today => Projected(d, f, r, u) = r
         /\ r # NoRecord => Projected(d, f, r, u) # NoRecord
<1>1. Answered(d, f, u).status \in {"active", "declined"}
  BY DEF Answered
<1>2. ASSUME r.status = "withdrawn", r.withdrawnOn = Today
      PROVE  ~ WinsOver(f, r)
  BY <1>2, TransactionsAssumption DEF WinsOver, Form, DayOrNull, Day, NoDay
<1> QED
  BY <1>1, <1>2 DEF Projected, NoRecord

\* A commit leaves every stop standing.
LEMMA CommitKeepsStops ==
  ASSUME TransactionsInv, StopsStand, NEW t \in Txns, CommitCloses(t)
  PROVE  StopsStand'
<1> DEFINE d == request[t].draft
           c == who[t]
           f == FormOf(t)
<1>1. /\ d \in Drafts /\ c \in Persons /\ DraftReviewable(d)
      /\ known' = known \cup {c}
      /\ UNCHANGED <<mergedInto, withdrawals, folded, tasks>>
      /\ record' = [record EXCEPT ![c] = [u \in Purposes |-> Projected(d, f, record[c][u], u)]]
  BY CommitEffect DEF TransactionsInv
<1>2. f \in Form /\ f.collectedOn <= Today
  BY <1>1, FormTypes DEF FormOf, TransactionsInv
<1>3. \A p \in Persons, u \in Purposes : record[p][u] \in Record
  BY KnownTypes DEF TransactionsInv
<1>4. record \in [Persons -> [Purposes -> Record]]
  BY KnownTypes DEF TransactionsInv
<1> HIDE DEF d, c, f
<1>5. \A p \in Persons, u \in Purposes :
        record'[p][u] = IF p = c THEN Projected(d, f, record[p][u], u) ELSE record[p][u]
  BY <1>1, <1>4
<1>6. \A p \in Persons, u \in Purposes :
        /\ record'[p][u].status = "withdrawn" => record'[p][u] = record[p][u]
        /\ record[p][u].status = "withdrawn" /\ record[p][u].withdrawnOn = Today =>
             record'[p][u] = record[p][u]
        /\ record[p][u] # NoRecord => record'[p][u] # NoRecord
  BY <1>1, <1>2, <1>3, <1>5, FormsYield
<1>7. \A w \in withdrawals : w.person \in known /\ w.person \in Persons /\ w.purpose \in Purposes
  BY DEF StopsStand, TransactionsInv, TypeOK, Register!TypeOK, Register!Withdrawal
<1>8. \A w \in withdrawals, p \in known' :
        mergedInto[p] = None /\ w.person \in folded[p] /\ ~ Stranded(w.person, w.purpose)' =>
          record'[p][w.purpose].status = "withdrawn"
  <2> SUFFICES ASSUME NEW w \in withdrawals, NEW p \in known',
                      mergedInto[p] = None, w.person \in folded[p],
                      ~ Stranded(w.person, w.purpose)'
               PROVE  record'[p][w.purpose].status = "withdrawn"
    OBVIOUS
  <2>1. p \in known
    BY <1>1, <1>7 DEF StopsStand
  <2>2. p \in Persons
    BY <2>1, KnownTypes DEF TransactionsInv
  <2>3. ~ Stranded(w.person, w.purpose)
    BY <1>1, <1>6, <1>7 DEF Stranded
  <2>4. record[p][w.purpose].status = "withdrawn"
    BY <2>1, <2>3 DEF StopsStand
  <2>5. record[p][w.purpose].withdrawnOn = Today
    BY <1>7, <2>2, <2>4 DEF StopsStand
  <2> QED
    BY <1>6, <1>7, <2>2, <2>4, <2>5
<1>9. \A p \in Persons, u \in Purposes :
        record'[p][u].status = "withdrawn" => record'[p][u].withdrawnOn = Today
  BY <1>6 DEF StopsStand
<1>10. \A w \in withdrawals' : w.person \in known'
  BY <1>1 DEF StopsStand
<1> QED
  BY <1>1, <1>8, <1>9, <1>10 DEF StopsStand

\* A withdrawal leaves every stop standing and adds its own.
LEMMA WithdrawalKeepsStops ==
  ASSUME TransactionsInv, StopsStand, NEW t \in Txns, pc[t] = "tasks", WithdrawCloses(t)
  PROVE  StopsStand'
<1> DEFINE c == who[t]
<1>1. /\ c \in known /\ c \in Persons
      /\ \A u \in Purposes : u \in Changed(t) => record[c][u].status = "active"
      /\ Changed(t) \subseteq Purposes
      /\ record' = [record EXCEPT ![c] =
                       [u \in Purposes |-> IF u \in Changed(t) THEN Stopped(record[c][u])
                                           ELSE record[c][u]]]
  BY WithdrawEffect DEF WithdrawCloses, TransactionsInv
<1>2. /\ withdrawals' = withdrawals \cup
           {[person |-> c, purpose |-> u, on |-> Today] : u \in Changed(t)}
      /\ UNCHANGED <<known, mergedInto, draft, artifact, folded>>
  BY DEF WithdrawCloses
<1>3. record \in [Persons -> [Purposes -> Record]]
  BY KnownTypes DEF TransactionsInv
<1> HIDE DEF c
<1>4. \A p \in Persons, u \in Purposes :
        record'[p][u] = IF p = c /\ u \in Changed(t) THEN Stopped(record[p][u]) ELSE record[p][u]
  BY <1>1, <1>3
<1>5. \A r \in Record : Stopped(r).status = "withdrawn" /\ Stopped(r).withdrawnOn = Today
  BY DEF Stopped, Record
<1>6. \A p \in Persons, u \in Purposes :
        /\ p = c /\ u \in Changed(t) =>
             record'[p][u].status = "withdrawn" /\ record'[p][u].withdrawnOn = Today
        /\ ~ (p = c /\ u \in Changed(t)) => record'[p][u] = record[p][u]
        /\ record[p][u].status = "withdrawn" => record'[p][u].status = "withdrawn"
        /\ record[p][u] # NoRecord => record'[p][u] # NoRecord
        /\ record[p][u] = NoRecord => record'[p][u] = NoRecord
  <2>1. \A r \in Record : Stopped(r) # NoRecord
    BY <1>5 DEF NoRecord
  <2>2. NoRecord.status # "active"
    BY DEF NoRecord
  <2> QED
    BY <1>1, <1>3, <1>4, <1>5, <2>1, <2>2
<1>7. \A w \in withdrawals : w.person \in known /\ w.person \in Persons /\ w.purpose \in Purposes
  BY DEF StopsStand, TransactionsInv, TypeOK, Register!TypeOK, Register!Withdrawal
<1>8. \A w \in withdrawals', p \in known :
        mergedInto[p] = None /\ w.person \in folded[p] /\ ~ Stranded(w.person, w.purpose)' =>
          record'[p][w.purpose].status = "withdrawn"
  <2> SUFFICES ASSUME NEW w \in withdrawals', NEW p \in known,
                      mergedInto[p] = None, w.person \in folded[p],
                      ~ Stranded(w.person, w.purpose)'
               PROVE  record'[p][w.purpose].status = "withdrawn"
    OBVIOUS
  <2>1. p \in Persons
    BY KnownTypes DEF TransactionsInv
  <2>2. CASE w \in withdrawals
    <3>1. ~ Stranded(w.person, w.purpose)
      BY <1>2, <1>6, <1>7, <2>2 DEF Stranded
    <3>2. record[p][w.purpose].status = "withdrawn"
      BY <2>2, <3>1 DEF StopsStand
    <3> QED
      BY <1>6, <1>7, <2>1, <2>2, <3>2
  <2>3. CASE \E u \in Changed(t) : w = [person |-> c, purpose |-> u, on |-> Today]
    <3>1. w.person = c /\ w.purpose \in Changed(t) /\ w.purpose \in Purposes
      BY <1>1, <2>3
    <3>2. record'[c][w.purpose] # NoRecord
      <4>1. record'[c][w.purpose].status = "withdrawn"
        BY <1>1, <1>6, <3>1
      <4> QED
        BY <4>1 DEF NoRecord
    <3>3. mergedInto[c] = None
      BY <1>2, <3>1, <3>2 DEF Stranded
    <3>4. p = c
      BY <1>1, <2>1, <3>1, <3>3 DEF StopsStand
    <3> QED
      BY <1>1, <1>6, <3>1, <3>4
  <2> QED
    BY <1>2, <2>2, <2>3
<1>9. \A p \in Persons, u \in Purposes :
        record'[p][u].status = "withdrawn" => record'[p][u].withdrawnOn = Today
  BY <1>6 DEF StopsStand
<1>10. \A w \in withdrawals' : w.person \in known'
  BY <1>1, <1>2 DEF StopsStand
<1> QED
  BY <1>2, <1>8, <1>9, <1>10 DEF StopsStand

\* A merge carries the stops of both people.
LEMMA MergeKeepsStops ==
  ASSUME TransactionsInv, StopsStand, NEW t \in Txns, NEW early, MergeCloses(t, early)
  PROVE  StopsStand'
<1> DEFINE a == request[t].absorbed
           s == request[t].survivor
<1>1. /\ a # s /\ a \in known /\ s \in known /\ a \in Persons /\ s \in Persons
      /\ mergedInto[a] = None
      /\ mergedInto' = [mergedInto EXCEPT ![a] = s]
      /\ record' = [record EXCEPT
           ![a] = [u \in Purposes |-> NoRecord],
           ![s] = [u \in Purposes |-> Reconciled(record[s][u], record[a][u], u \in early)]]
      /\ folded' = [folded EXCEPT ![a] = {}, ![s] = folded[s] \cup folded[a]]
      /\ UNCHANGED <<known, draft, artifact, withdrawals, tasks>>
  BY MergeEffect DEF TransactionsInv
<1>2. /\ record \in [Persons -> [Purposes -> Record]]
      /\ mergedInto \in [Persons -> Persons \cup {None}]
      /\ folded \in [Persons -> SUBSET Persons]
  BY KnownTypes DEF TransactionsInv, TypeOK, Register!TypeOK
<1> HIDE DEF a, s
<1>3. \A p \in Persons :
        /\ mergedInto'[p] = IF p = a THEN s ELSE mergedInto[p]
        /\ folded'[p] = IF p = a THEN {} ELSE IF p = s THEN folded[s] \cup folded[a] ELSE folded[p]
  <2>1. \A p \in Persons : mergedInto'[p] = IF p = a THEN s ELSE mergedInto[p]
    BY <1>1, <1>2
  <2>2. \A p \in Persons :
          folded'[p] = IF p = a THEN {} ELSE IF p = s THEN folded[s] \cup folded[a] ELSE folded[p]
    BY <1>1, <1>2
  <2> QED
    BY <2>1, <2>2
<1>4. /\ \A p \in Persons : p # a /\ p # s => record'[p] = record[p]
      /\ \A u \in Purposes : record'[a][u] = NoRecord
      /\ \A u \in Purposes : record'[s][u] = record[s][u] \/ record'[s][u] = record[a][u]
      /\ \A u \in Purposes : record[s][u].status = "withdrawn" \/ record[a][u].status = "withdrawn" =>
           record'[s][u].status = "withdrawn"
      /\ \A u \in Purposes : record'[s][u] = NoRecord => record[s][u] = NoRecord
  <2>1. \A p \in Persons : p # a /\ p # s => record'[p] = record[p]
    BY <1>1, <1>2
  <2>2. \A u \in Purposes :
          /\ record'[a][u] = NoRecord
          /\ record'[s][u] = Reconciled(record[s][u], record[a][u], u \in early)
    BY <1>1, <1>2
  <2>3. ASSUME NEW x, NEW y, NEW z
        PROVE  /\ Reconciled(x, y, z) = x \/ Reconciled(x, y, z) = y
               /\ x.status = "withdrawn" \/ y.status = "withdrawn" =>
                    Reconciled(x, y, z).status = "withdrawn"
               /\ Reconciled(x, y, z) = NoRecord => x = NoRecord
    BY DEF Reconciled, AbsorbedWins, NoRecord
  <2> QED
    BY <2>1, <2>2, <2>3
<1>5. \A p, q \in Persons : q \in folded'[p] /\ mergedInto'[q] = None => p = q
  <2> SUFFICES ASSUME NEW p \in Persons, NEW q \in Persons, q \in folded'[p], mergedInto'[q] = None
               PROVE  p = q
    OBVIOUS
  <2>1. p # a /\ q # a /\ mergedInto[q] = None
    <3>1. s # None
      BY <1>1, RulesAssumption
    <3>2. p # a
      BY <1>3
    <3>3. q # a
      BY <1>3, <3>1
    <3> QED
      BY <1>3, <3>2, <3>3
  <2>2. CASE q \in folded[p]
    BY <2>1, <2>2 DEF StopsStand
  <2>3. CASE p = s /\ q \in folded[a]
    BY <1>1, <2>1, <2>3 DEF StopsStand
  <2> QED
    BY <1>3, <2>1, <2>2, <2>3
<1>6. \A w \in withdrawals : w.person \in known /\ w.person \in Persons /\ w.purpose \in Purposes
  BY DEF StopsStand, TransactionsInv, TypeOK, Register!TypeOK, Register!Withdrawal
<1>7. \A w \in withdrawals, p \in known :
        mergedInto'[p] = None /\ w.person \in folded'[p] /\ ~ Stranded(w.person, w.purpose)' =>
          record'[p][w.purpose].status = "withdrawn"
  <2> SUFFICES ASSUME NEW w \in withdrawals, NEW p \in known,
                      mergedInto'[p] = None, w.person \in folded'[p],
                      ~ Stranded(w.person, w.purpose)'
               PROVE  record'[p][w.purpose].status = "withdrawn"
    OBVIOUS
  <2> DEFINE q == w.person
             u == w.purpose
  <2>1. p \in Persons /\ q \in Persons /\ u \in Purposes
    BY <1>6, KnownTypes DEF TransactionsInv
  <2>2. p # a /\ mergedInto[p] = None
    BY <1>1, <1>3, <2>1, RulesAssumption
  <2>3. ~ Stranded(q, u)
    <3>1. CASE q = a
      BY <1>1, <3>1 DEF Stranded
    <3>2. CASE q = s
      BY <1>1, <1>3, <1>4, <2>1, <3>2 DEF Stranded
    <3>3. CASE q # a /\ q # s
      BY <1>3, <1>4, <2>1, <3>3 DEF Stranded
    <3> QED
      BY <3>1, <3>2, <3>3
  <2>4. CASE p # s
    <3>1. q \in folded[p]
      BY <1>3, <2>1, <2>2, <2>4
    <3>2. record[p][u].status = "withdrawn"
      BY <2>2, <2>3, <3>1 DEF StopsStand
    <3> QED
      BY <1>4, <2>1, <2>2, <2>4, <3>2
  <2>5. CASE p = s /\ q \in folded[s]
    <3>1. record[s][u].status = "withdrawn"
      BY <1>1, <2>2, <2>3, <2>5 DEF StopsStand
    <3> QED
      BY <1>4, <2>1, <2>5, <3>1
  <2>6. CASE p = s /\ q \in folded[a]
    <3>1. record[a][u].status = "withdrawn"
      BY <1>1, <2>3, <2>6 DEF StopsStand
    <3> QED
      BY <1>4, <2>1, <2>6, <3>1
  <2> QED
    BY <1>3, <2>1, <2>2, <2>4, <2>5, <2>6
<1>8. \A p \in Persons, u \in Purposes :
        record'[p][u].status = "withdrawn" => record'[p][u].withdrawnOn = Today
  <2> SUFFICES ASSUME NEW p \in Persons, NEW u \in Purposes, record'[p][u].status = "withdrawn"
               PROVE  record'[p][u].withdrawnOn = Today
    OBVIOUS
  <2>1. p # a
    BY <1>4 DEF NoRecord
  <2>2. \/ record'[p][u] = record[p][u]
        \/ record'[p][u] = record[a][u]
    BY <1>4, <2>1
  <2> QED
    BY <1>1, <2>2 DEF StopsStand
<1>9. \A p \in Persons \ known : folded'[p] = {p}
  BY <1>1, <1>3 DEF StopsStand
<1>10. \A w \in withdrawals : w.person \in known
  BY <1>6
<1> QED
  BY <1>1, <1>5, <1>7, <1>8, <1>9, <1>10 DEF StopsStand

\* Whatever the interleaving of commits, withdrawals and merges, no identity
\* that is live has an active consent that somebody folded into it has withdrawn.
THEOREM LiveConsentFollowsStopsHolds == Spec => []LiveConsentFollowsStops
<1>1. Init => StopsStand
  BY StopsStart
<1>2. ASSUME TransactionsInv, StopsStand, [Next]_vars
      PROVE  StopsStand'
  <2>1. CASE UNCHANGED database
    BY <1>2, <2>1 DEF database, StopsStand, Stranded
  <2>2. CASE ~ UNCHANGED database
    <3>1. PICK t \in Txns : Moves(t)
      BY <1>2, <2>2, Steps DEF vars
    <3> QED
      BY <1>2, <2>2, <3>1, OnlyCommitsWrite, CommitKeepsStops, WithdrawalKeepsStops, MergeKeepsStops
  <2> QED
    BY <2>1, <2>2
<1>3. StopsStand => LiveConsentFollowsStops
  BY DEF StopsStand, LiveConsentFollowsStops
<1> QED
  BY <1>1, <1>2, <1>3, TransactionsHold, PTL DEF Spec
================================================================================
