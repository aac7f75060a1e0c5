------------------------- MODULE RegisterTransactions -------------------------
(***************************************************************************)
(* The statements of commitDraft, withdrawPurposes and mergePrincipals,    *)
(* interleaved.  Every request runs on its own connection at READ          *)
(* COMMITTED: a statement sees what has committed when it starts, writes   *)
(* stay private until COMMIT, and row locks are all that orders them.      *)
(*                                                                         *)
(* PostgreSQL is external and modelled by its documented rules.  FOR       *)
(* UPDATE, and an uncommitted insert, exclude everybody; the foreign-key   *)
(* check of an insert takes FOR KEY SHARE on the person, which only FOR    *)
(* UPDATE excludes; a lock is released at the end of the transaction; a    *)
(* cycle of waits ends with one of them aborted.                           *)
(***************************************************************************)
EXTENDS ConsentRules, Sequences, SequencesExt

CONSTANTS
  Systems, Papers, Similar, MaxMergeDepth,  \* as in ConsentRegister
  Txns,          \* requests in flight
  PurposeId,     \* the ids of the purposes, which are compared
  Workloads,     \* what the requests in flight may ask for
  Filed,         \* drafts committed before, with the artifact of each
  Waiting,       \* drafts under review
  Today          \* the day on which all of this happens

ASSUME TransactionsAssumption ==
  /\ Today \in Day /\ MaxMergeDepth \in Nat
  /\ IsFiniteSet(Txns) /\ IsFiniteSet(Purposes)
  /\ PurposeId \in [Purposes -> Int] /\ IsInjective(PurposeId)
  /\ Papers \subseteq Form
  /\ DOMAIN Filed \subseteq Drafts /\ DOMAIN Waiting \subseteq Drafts
  /\ \A d \in DOMAIN Filed : Filed[d] \in [person : Persons, form : Papers]
  /\ \A d \in DOMAIN Waiting :
       /\ Waiting[d] \in [status : {"needs_review"}, form : Papers,
                          matched : Persons \cup {None}]
       /\ Waiting[d].form.collectedOn <= Today
  /\ \A q \in Workloads, t \in Txns :
       \/ q[t].op = "commit" /\ q[t].draft \in Drafts /\ q[t].confirm \in Persons \cup {None}
       \/ q[t].op = "withdraw" /\ q[t].person \in Persons /\ q[t].purposes \in Seq(Purposes)
       \/ /\ q[t].op = "merge" /\ q[t].absorbed # q[t].survivor
          /\ {q[t].absorbed, q[t].survivor} \subseteq {Filed[d].person : d \in DOMAIN Filed}

VARIABLES
  known, mergedInto, draft, artifact, record, withdrawals, folded, tasks,
  request,    \* what each transaction was asked
  pc,         \* the statement it runs next
  todo,       \* the rows that statement, or loop of statements, has yet to lock
  who,        \* the person it acts on, once resolved
  view,       \* the records it has locked, with its own writes
  exclusive,  \* rows locked FOR UPDATE or inserted
  shared,     \* rows locked FOR KEY SHARE
  result      \* the answer to the caller

database == <<known, mergedInto, draft, artifact, record, withdrawals, folded, tasks>>
locks    == <<exclusive, shared>>
vars     == <<database, request, pc, todo, who, view, locks, result>>

\* What each transaction does when it is alone.
Register == INSTANCE ConsentRegister WITH today <- Today

DraftRow(d)     == <<"draft", d>>
PersonRow(p)    == <<"person", p>>
RecordRow(p, u) == <<"record", p, u>>

Rows == {DraftRow(d) : d \in Drafts} \cup {PersonRow(p) : p \in Persons}
          \cup {RecordRow(p, u) : p \in Persons, u \in Purposes}

Blank == [p \in Persons |-> [u \in Purposes |-> NoRecord]]

TypeOK ==
  /\ Register!TypeOK
  /\ pc \in [Txns -> {"draft", "resolve", "person", "insert", "check", "artifact",
                      "project", "token", "stop", "tasks", "people", "absorbed",
                      "survivor", "ended"}]
  /\ request \in Workloads
  /\ todo \in [Txns -> Seq(Rows)]
  /\ who \in [Txns -> Persons \cup {None}]
  /\ view \in [Txns -> [Persons -> [Purposes -> Record]]]
  /\ exclusive \in [Txns -> SUBSET Rows]
  /\ shared \in [Txns -> SUBSET Rows]
  /\ result \in [Txns -> {"running", "done", "refused", "deadlock", "lost"}]

\* The rows of the person a request starts with; a merge locks its two in
\* whatever order the scan returns them.
Opening(r) ==
  CASE r.op = "commit"   -> {<<DraftRow(r.draft)>>}
    [] r.op = "withdraw" -> {<<>>}
    [] r.op = "merge"    -> SetToSeqs({PersonRow(r.absorbed), PersonRow(r.survivor)})

\* Every record was projected from the one form filed for its person.
Init ==
  /\ known = {Filed[d].person : d \in DOMAIN Filed}
  /\ mergedInto = [p \in Persons |-> None]
  /\ artifact = [d \in Drafts |-> IF d \in DOMAIN Filed THEN Filed[d] ELSE Register!NoArtifact]
  /\ draft = [d \in Drafts |->
                IF d \in DOMAIN Filed
                THEN [status |-> "committed", form |-> Filed[d].form, matched |-> Filed[d].person]
                ELSE IF d \in DOMAIN Waiting THEN Waiting[d] ELSE Register!NoDraft]
  /\ record = [p \in Persons |-> [u \in Purposes |->
       LET of == {d \in DOMAIN Filed : Filed[d].person = p /\ u \in Asked(Filed[d].form)}
       IN  IF of = {} THEN NoRecord
           ELSE LET d == CHOOSE d \in of : TRUE IN Answered(d, Filed[d].form, u)]]
  /\ withdrawals = {} /\ tasks = {}
  /\ folded = [p \in Persons |-> {p}]
  /\ request \in Workloads
  /\ pc = [t \in Txns |-> CASE request[t].op = "commit"   -> "draft"
                            [] request[t].op = "withdraw" -> "token"
                            [] request[t].op = "merge"    -> "people"]
  /\ todo \in {s \in [Txns -> UNION {Opening(request[t]) : t \in Txns}] :
                 \A t \in Txns : s[t] \in Opening(request[t])}
  /\ who = [t \in Txns |-> None]
  /\ view = [t \in Txns |-> Blank]
  /\ exclusive = [t \in Txns |-> {}]
  /\ shared = [t \in Txns |-> {}]
  /\ result = [t \in Txns |-> "running"]

-----------------------------------------------------------------------------
(* Locks                                                                   *)

\* A foreign-key check.
Sharing(t) == pc[t] \in {"artifact", "tasks"}

\* A row no committed state holds is not found, and not waited for, by a
\* select; an insert waits only for another insert.
Passes(t, row) ==
  \/ pc[t] = "stop" /\ record[row[2]][row[3]] = NoRecord
  \/ pc[t] = "insert" /\ row[2] \in known

\* The transactions t waits for.
Blockers(t) ==
  IF todo[t] = <<>> \/ Passes(t, Head(todo[t])) THEN {}
  ELSE {o \in Txns \ {t} : \/ Head(todo[t]) \in exclusive[o]
                           \/ ~ Sharing(t) /\ Head(todo[t]) \in shared[o]}

\* t is at statement s, which has a row to lock and need not wait for it.
At(t, s) == pc[t] = s /\ todo[t] # <<>> /\ Blockers(t) = {}

\* t is at statement s, with every row locked.
Past(t, s) == pc[t] = s /\ todo[t] = <<>>

Lock(t) == exclusive' = [exclusive EXCEPT ![t] = @ \cup {Head(todo[t])}]

GoTo(t, s, rows) ==
  /\ pc' = [pc EXCEPT ![t] = s]
  /\ todo' = [todo EXCEPT ![t] = rows]

\* Mutant of Ended: the connection goes back to the pool with the transaction
\* open, and its locks with it.
EndedHolding(t, answer) ==
  /\ result' = [result EXCEPT ![t] = answer]
  /\ GoTo(t, "ended", <<>>)
  /\ view' = [view EXCEPT ![t] = Blank]
  /\ UNCHANGED <<request, who, locks>>

\* COMMIT or ROLLBACK, and the answer.
Ended(t, answer) ==
  /\ result' = [result EXCEPT ![t] = answer]
  /\ GoTo(t, "ended", <<>>)
  /\ view' = [view EXCEPT ![t] = Blank]
  /\ exclusive' = [exclusive EXCEPT ![t] = {}]
  /\ shared' = [shared EXCEPT ![t] = {}]
  /\ UNCHANGED <<request, who>>

\* withTransaction rolls back on any throw.
RolledBack(t, answer) == Ended(t, answer) /\ UNCHANGED database

\* record with what t wrote.
Written(t) ==
  [p \in Persons |-> [u \in Purposes |->
     IF RecordRow(p, u) \in exclusive[t] THEN view[t][p][u] ELSE record[p][u]]]

-----------------------------------------------------------------------------
(* commitDraft                                                             *)

FormOf(t) == draft[request[t].draft].form

Chosen(t) == IF request[t].confirm # None THEN request[t].confirm
             ELSE draft[request[t].draft].matched

\* Mutant of DraftReviewable: neither status check of commitDraft is there.
AnyDraft(d) == TRUE

\* Asked when the draft is locked, and by the update that closes it.
DraftReviewable(d) == draft[d].status = "needs_review"

LockDraft(t) ==
  /\ At(t, "draft")
  /\ IF DraftReviewable(request[t].draft)
     THEN /\ Lock(t)
          /\ GoTo(t, "resolve", <<>>)
          /\ UNCHANGED <<database, request, who, view, shared, result>>
     ELSE RolledBack(t, "refused")

\* The reviewer's choice is resolved first and locked by the next statement;
\* an exact match is never locked.
ResolvePerson(t) ==
  LET f == FormOf(t)
      Found(p, s, rows) ==
        /\ who' = [who EXCEPT ![t] = p]
        /\ GoTo(t, s, rows)
        /\ UNCHANGED <<database, request, view, locks, result>>
  IN  /\ Past(t, "resolve")
      /\ \/ /\ Chosen(t) # None
            /\ LET p == Register!Resolve(Chosen(t))
               IN  IF p = None THEN RolledBack(t, "refused")
                   ELSE Found(p, "person", <<PersonRow(p)>>)
         \/ /\ Chosen(t) = None /\ Register!Live(f.subject)
            /\ Found(f.subject, "check", <<>>)
         \/ /\ Chosen(t) = None /\ ~ Register!Live(f.subject)
            /\ Register!Candidates(f) = {} \/ request[t].forceNew
            /\ Found(None, "insert", <<PersonRow(f.subject)>>)
         \/ /\ Chosen(t) = None /\ ~ Register!Live(f.subject)
            /\ Register!Candidates(f) # {} /\ ~ request[t].forceNew
            /\ RolledBack(t, "refused")

\* SELECT id ... FOR UPDATE, which does not ask for merged_into_id again.
LockPerson(t) ==
  /\ At(t, "person")
  /\ Lock(t)
  /\ GoTo(t, "check", <<>>)
  /\ UNCHANGED <<database, request, who, view, shared, result>>

\* ON CONFLICT DO NOTHING: after a conflict the match is looked for once more.
InsertPerson(t) ==
  LET p == FormOf(t).subject
  IN  /\ At(t, "insert")
      /\ IF p \in known /\ ~ Register!Live(p)
         THEN RolledBack(t, "refused")
         ELSE /\ who' = [who EXCEPT ![t] = p]
              /\ IF p \in known THEN UNCHANGED exclusive ELSE Lock(t)
              /\ GoTo(t, "check", <<>>)
              /\ UNCHANGED <<database, request, view, shared, result>>

CheckOnFile(t) ==
  /\ Past(t, "check")
  /\ IF Register!AlreadyRecorded(who[t], FormOf(t))
     THEN RolledBack(t, "refused")
     ELSE /\ GoTo(t, "artifact", <<PersonRow(who[t])>>)
          /\ UNCHANGED <<database, request, who, view, locks, result>>

\* Mutant of ProjectionOrders: in the order in which the form lists its boxes.
AsListed(f) == SetToSeqs(Asked(f))

\* Locks are taken in purpose id order.
ProjectionOrders(f) ==
  {order \in SetToSeqs(Asked(f)) :
     \A i, j \in DOMAIN order : i < j => PurposeId[order[i]] < PurposeId[order[j]]}

\* The artifact and its items; the foreign key locks the person.
InsertArtifact(t) ==
  /\ At(t, "artifact")
  /\ shared' = [shared EXCEPT ![t] = @ \cup {Head(todo[t])}]
  /\ \E order \in ProjectionOrders(FormOf(t)) :
       GoTo(t, "project", [i \in DOMAIN order |-> RecordRow(who[t], order[i])])
  /\ UNCHANGED <<database, request, who, view, exclusive, result>>

\* Mutant of Project: the row that was read before is written after the wait.
ProjectUnlocked(t) ==
  LET u == Head(todo[t])[3]
  IN  /\ pc[t] = "project" /\ todo[t] # <<>>
      /\ Lock(t)
      /\ view' = [view EXCEPT ![t][who[t]][u] =
                    Projected(request[t].draft, FormOf(t), record[who[t]][u], u)]
      /\ GoTo(t, "project", Tail(todo[t]))
      /\ UNCHANGED <<database, request, who, shared, result>>

\* One purpose: insert, or lock the row that is there and apply the rules.
Project(t) ==
  LET u == Head(todo[t])[3]
  IN  /\ At(t, "project")
      /\ Lock(t)
      /\ view' = [view EXCEPT ![t][who[t]][u] =
                    Projected(request[t].draft, FormOf(t), record[who[t]][u], u)]
      /\ GoTo(t, "project", Tail(todo[t]))
      /\ UNCHANGED <<database, request, who, shared, result>>

CommitCloses(t) ==
  LET d == request[t].draft
  IN  /\ Past(t, "project")
      /\ IF DraftReviewable(d)
         THEN /\ known' = known \cup {who[t]}
              /\ artifact' = [artifact EXCEPT ![d] = [person |-> who[t], form |-> FormOf(t)]]
              /\ record' = Written(t)
              /\ draft' = [draft EXCEPT ![d].status = "committed", ![d].matched = who[t]]
              /\ UNCHANGED <<mergedInto, withdrawals, folded, tasks>>
              /\ Ended(t, "done")
         ELSE RolledBack(t, "refused")

-----------------------------------------------------------------------------
(* withdrawPurposes                                                        *)

\* requirePrincipal follows the merge chain on the pool, before BEGIN.
Authenticate(t) ==
  LET p == Register!Resolve(request[t].person)
      asked == request[t].purposes
  IN  /\ Past(t, "token")
      /\ IF p = None THEN RolledBack(t, "refused")
         ELSE /\ who' = [who EXCEPT ![t] = p]
              /\ GoTo(t, "stop", [i \in DOMAIN asked |-> RecordRow(p, asked[i])])
              /\ UNCHANGED <<database, request, view, locks, result>>

Stopped(r) == [r EXCEPT !.status = "withdrawn", !.withdrawnOn = Today]

\* One purpose, in the caller's order: nothing to find, or the row is locked
\* and an active consent withdrawn.
StopOne(t) ==
  LET u == Head(todo[t])[3]
      r == record[who[t]][u]
  IN  /\ At(t, "stop")
      /\ IF r = NoRecord THEN UNCHANGED <<exclusive, view>>
         ELSE /\ Lock(t)
              /\ view' = [view EXCEPT ![t][who[t]][u] =
                            IF r.status = "active" THEN Stopped(r) ELSE r]
      /\ GoTo(t, "stop", Tail(todo[t]))
      /\ UNCHANGED <<database, request, who, shared, result>>

Changed(t) ==
  {u \in Purposes : /\ RecordRow(who[t], u) \in exclusive[t]
                    /\ view[t][who[t]][u] # record[who[t]][u]}

\* Tasks are inserted only for purposes that changed; their foreign key locks
\* the person.
WithdrawEndsLoop(t) ==
  /\ Past(t, "stop")
  /\ IF Changed(t) = {} THEN Ended(t, "done") /\ UNCHANGED database
     ELSE /\ GoTo(t, "tasks", <<PersonRow(who[t])>>)
          /\ UNCHANGED <<database, request, who, view, locks, result>>

WithdrawCloses(t) ==
  /\ At(t, "tasks")
  /\ record' = Written(t)
  /\ withdrawals' = withdrawals \cup
       {[person |-> who[t], purpose |-> u, on |-> Today] : u \in Changed(t)}
  /\ tasks' = tasks \cup Register!Raised(who[t], Changed(t))
  /\ UNCHANGED <<known, mergedInto, draft, artifact, folded>>
  /\ Ended(t, "done")

-----------------------------------------------------------------------------
(* mergePrincipals                                                         *)

\* The orders in which a scan may return, and lock, the records of p.
Scans(p) == SetToSeqs({RecordRow(p, u) : u \in {u \in Purposes : record[p][u] # NoRecord}})

LockPeople(t) ==
  /\ At(t, "people")
  /\ Lock(t)
  /\ GoTo(t, "people", Tail(todo[t]))
  /\ UNCHANGED <<database, request, who, view, shared, result>>

CheckMerge(t) ==
  LET a == request[t].absorbed
      s == request[t].survivor
  IN  /\ Past(t, "people")
      /\ IF mergedInto[a] # None \/ Register!Resolve(s) \in {None, a}
         THEN RolledBack(t, "refused")
         ELSE /\ \E rows \in Scans(a) : GoTo(t, "absorbed", rows)
              /\ UNCHANGED <<database, request, who, view, locks, result>>

LockRecord(t) ==
  LET row == Head(todo[t])
  IN  /\ At(t, "absorbed") \/ At(t, "survivor")
      /\ Lock(t)
      /\ view' = [view EXCEPT ![t][row[2]][row[3]] = record[row[2]][row[3]]]
      /\ GoTo(t, pc[t], Tail(todo[t]))
      /\ UNCHANGED <<database, request, who, shared, result>>

ReadSurvivor(t) ==
  /\ Past(t, "absorbed")
  /\ \E rows \in Scans(request[t].survivor) : GoTo(t, "survivor", rows)
  /\ UNCHANGED <<database, request, who, view, locks, result>>

\* early: as in ConsentRegister's Merge.
MergeCloses(t, early) ==
  LET a == request[t].absorbed
      s == request[t].survivor
  IN  /\ Past(t, "survivor")
      /\ mergedInto' = [mergedInto EXCEPT ![a] = s]
      /\ record' = [record EXCEPT
           ![a] = [u \in Purposes |-> NoRecord],
           ![s] = [u \in Purposes |->
                     Reconciled(view[t][s][u], view[t][a][u], u \in early)]]
      /\ folded' = [folded EXCEPT ![a] = {}, ![s] = folded[s] \cup folded[a]]
      /\ UNCHANGED <<known, draft, artifact, withdrawals, tasks>>
      /\ Ended(t, "done")

-----------------------------------------------------------------------------
(* The server                                                              *)

\* Everybody t waits for, directly or not.
WaitsFor(t) ==
  LET reach[n \in 0 .. Cardinality(Txns)] ==
        IF n = 0 THEN Blockers(t)
        ELSE reach[n - 1] \cup UNION {Blockers(o) : o \in reach[n - 1]}
  IN  reach[Cardinality(Txns)]

\* PostgreSQL breaks a cycle: 40P01.
DeadlockAbort(t) ==
  /\ result[t] = "running"
  /\ t \in WaitsFor(t)
  /\ RolledBack(t, "deadlock")

\* The connection breaks, or the process dies: the server rolls back.
ConnectionLost(t) ==
  /\ result[t] = "running"
  /\ RolledBack(t, "lost")

CommitStep(t) ==
  \/ LockDraft(t) \/ ResolvePerson(t) \/ LockPerson(t) \/ InsertPerson(t)
  \/ CheckOnFile(t) \/ InsertArtifact(t) \/ Project(t) \/ CommitCloses(t)

WithdrawStep(t) ==
  Authenticate(t) \/ StopOne(t) \/ WithdrawEndsLoop(t) \/ WithdrawCloses(t)

MergeStep(t) ==
  \/ LockPeople(t) \/ CheckMerge(t) \/ LockRecord(t) \/ ReadSurvivor(t)
  \/ \E early \in SUBSET Purposes : MergeCloses(t, early)

Step(t) == CommitStep(t) \/ WithdrawStep(t) \/ MergeStep(t)

Next == \E t \in Txns : Step(t) \/ DeadlockAbort(t) \/ ConnectionLost(t)

Spec == Init /\ [][Next]_vars

\* A statement that can run is run, and deadlock_timeout expires.  A connection
\* need not ever be lost.
FairSpec ==
  Spec /\ \A t \in Txns : WF_vars(Step(t)) /\ WF_vars(DeadlockAbort(t))

-----------------------------------------------------------------------------
(* What the locks achieve                                                  *)

\* The person a transaction resolved was merged away before it closes.
ActsOnAbsorbed ==
  \E t \in Txns : /\ result[t] = "running" /\ result'[t] = "done"
                  /\ who[t] # None /\ mergedInto[who[t]] # None

\* No form waits twice, and two merges in flight have a person in common: what
\* a request checks without a lock (that the form is not on file, where the
\* survivor's chain ends) no other then changes behind its back.
Apart ==
  /\ \A d, e \in DOMAIN Waiting : Waiting[d].form = Waiting[e].form => d = e
  /\ \A q \in Workloads, t, o \in Txns :
       q[t].op = "merge" /\ q[o].op = "merge" =>
         {q[t].absorbed, q[t].survivor} \cap {q[o].absorbed, q[o].survivor} # {}

\* Whatever the interleaving, a transaction that commits does what it would
\* have done alone at that moment, and one that does not leaves no trace.  The
\* one exception is named: a person resolved and not locked may be merged away
\* (commitDraft's exact match, requirePrincipal before the withdrawal).
SerialEffect == [][ActsOnAbsorbed \/ Register!Next]_database

\* A record on a row that has been folded into another.
Stranded(p, u) == mergedInto[p] # None /\ record[p][u] # NoRecord

\* No identity that is still live has an active consent for a purpose somebody
\* folded into it withdrew on the day all this happens: no commit that raced
\* the withdrawal, and no merge, brings it back.  What a commit left on a row after
\* it was folded away, and a withdrawal stopped there, is not the survivor's.
LiveConsentFollowsStops ==
  \A w \in withdrawals, p \in known :
    mergedInto[p] = None /\ w.person \in folded[p] /\ ~ Stranded(w.person, w.purpose) =>
      record[p][w.purpose].status # "active"

\* A draft submitted twice is acknowledged once, to the request whose form is
\* on file.
AcknowledgedOnce ==
  \A t, o \in Txns :
    request[t].op = "commit" /\ result[t] = "done" =>
      /\ artifact[request[t].draft].person = who[t]
      /\ o # t /\ request[o].op = "commit" /\ request[o].draft = request[t].draft =>
           result[o] # "done"

\* Commits, which take their locks in purpose id order, never close a cycle of
\* waits among themselves.
CommitsNeverDeadlock ==
  (\A t \in Txns : request[t].op = "commit") => \A t \in Txns : t \notin WaitsFor(t)

\* Every request is answered.
EveryRequestEnds == \A t \in Txns : <>(result[t] # "running")
===============================================================================
