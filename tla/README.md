# A formal model of the offline consent register

This directory holds TLA+ specifications of the consent register in this
repository: a Next.js application over PostgreSQL that turns signed paper into
consent records, lets people withdraw through a public portal, and lets a Data
Protection Officer (DPO) merge duplicate people and work the queue of systems
that have to stop. The specifications are translated from the TypeScript and
SQL; a comment or a README of the repository is quoted only as a claim to test.

`PROJECT.json` ties every definition to the lines it models, every property to
a run, and every passing property to a mutation of the model that breaks it.

## 1. Inventory

### Parts, state, operations

| part | code | state | operations | modules |
|---|---|---|---|---|
| Intake drafts | `api/staff/drafts/**` | `intake_draft` | create, edit, reject | `ConsentRegister`, `ReviewDesk`, `BulkImport` |
| Commit | `lib/intake.ts` | `data_principal`, `consent_artifact`, `consent_record`, the draft | `commitDraft`, `matchPrincipal`, `validateDraft` | `ConsentRules`, `ConsentRegister`, `RegisterTransactions` |
| Withdrawal | `lib/withdrawal.ts` | `consent_record`, `audit_log` | `withdrawPurposes` | the same, `WithdrawScreen` |
| Merge | `lib/merge.ts`, `lib/principal.ts` | `data_principal.merged_into_id`, `consent_record` | `mergePrincipals`, `resolvePrincipalId` | the same, `MergeChains` |
| Cessation | `lib/cessation.ts` | `cessation_task` | `raiseCessationTasks`, `completeTask`, `holdTask` | `ConsentRegister`, `DpoDesk` |
| Transactions | `lib/db.ts` | connections and locks | `withTransaction` | `RegisterTransactions` |
| One-time codes | `lib/otp.ts`, `api/portal/otp/**` | `otp_challenge`, `otp_failed` entries | `requestOtp`, `verifyOtp`, `claimPrincipal` | `PortalOtp` |
| Sessions | `lib/auth.ts`, `api/staff/auth/**` | cookies, tokens, revocation cutoffs, login failures | sign, verify, `requireStaff`, `requirePrincipal` | `Sessions` |
| Bulk import | `lib/bulk.ts`, `api/staff/batches/**`, `import-client.tsx` | `intake_batch`, drafts | upload, map, commit batch | `BulkImport` |
| Evidence | `lib/evidence.ts`, `api/staff/evidence/**`, `documents-client.tsx`, `scripts/extract-batch.mjs` | `evidence_object`, files | store, read, destroy, draft from | `EvidenceStore` |
| Lookup requests | `lib/lookup.ts`, `lookup-resolve.tsx` | `principal_lookup_request` | submit, resolve, reject | `DpoDesk` |
| Notices | `lib/notices.ts`, `queue-action.tsx` | delivery entries in `audit_log` | queue, deliver | `DpoDesk` |
| Person screen | `lib/register.ts`, `principals/[id]/page.tsx` | view entries in `audit_log` | `chainMembers`, `recordPrincipalView` | `DpoDesk` |
| Reviewer screen | `draft-form.tsx` | what is typed, ticked, under way | save, commit, attach, prefill | `ReviewDesk` |
| Kiosk | `kiosk-client.tsx`, `signature-pad.tsx` | the form on the tablet, its clock | fill, sign, send, reset | `Kiosk` |
| Withdrawal screen | `withdraw-client.tsx` | step, challenge, token, list, selection | one request for each click | `WithdrawScreen` |
| Audit log | `lib/audit.ts` | `audit_log` | append | as far as state is derived from it |
| Extraction | `lib/extraction.ts` | none of its own | propose field values | its answers, in `ReviewDesk` and `EvidenceStore` |
| Duplicates, catalogue, training export, document payloads, scripts, `ml/` | the rest | reference data | reads, migrations | section 7 |

### How the parts interact

Everything meets in PostgreSQL. A form of any source becomes a draft; a reviewer
edits, rejects or commits it. `commitDraft` is the only writer of artifacts. It
resolves the person, files the artifact and projects the answers onto the
person's consent records. A person signs in with a one-time code, which yields a
token for one identity; each portal request follows the merge chain of that
identity *before* its transaction begins. A withdrawal changes records and
raises cessation tasks in one transaction. A merge moves the absorbed person's
records under the survivor and leaves artifacts, tasks and audit entries where
they were, so every other read has to follow `merged_into_id`.

The screens hold state of their own between requests, and nothing on the server
locks for them. What a reviewer, a DPO or a person at home decides, they decide
on what was loaded some time ago.

### What is hard, and what makes each part correct

* **Order of paper and order of commits differ.** Forms are digitised years late
  and in any order; a withdrawal is an instant, a form a civil date that may be
  missing. Correct: the record is what the latest paper says, and no form that
  cannot be shown to follow a withdrawal revives it.
* **Merges rewrite history for one half of it.** Records are reconciled per
  purpose while paper and tasks stay behind. Correct: every record can still be
  produced on paper, a withdrawal is never lost, every identity ends somewhere.
* **READ COMMITTED.** Each operation is several statements; only row locks order
  them, and some reads take none. Correct: every transaction that commits does
  what it would have done alone, every other leaves nothing, all of them end.
* **Autocommit sequences.** Codes, sign-ins, evidence and limits use no
  transaction: any two calls interleave between statements. Correct: one token
  per code, no more guesses than the cap and what is in flight, no file without
  a row.
* **Time on tokens.** A token knows the second it was minted in, a cutoff an
  instant. Correct: revocation reaches every token minted before it and none
  minted in a later second, through any merge.
* **Screens.** Answers arrive late, in another order or never; two people use one
  tablet, two reviewers one draft. Correct: what is filed is what a person saw
  and said, and what is shown belongs to whoever is looking.

`PROJECT.json` lists the hazards with the line each bites at.

## 2. Plan

| # | module | models | state |
|---|---|---|---|
| 1 | `ConsentRules` | the two decision rules: projection, reconciliation | done |
| 2 | `ConsentRegister`, `MergeChains` | the register, one transaction per action | done |
| 3 | `ConsentPromise` | what the register promises to those who ask it; refined by 2 | done |
| 4 | `RegisterClaims` | a documented statement that 2 violates | done |
| 5 | `MergeChainsProofs`, `ConsentRegisterProofs` | theorems about 2, and that it implements 3 | done |
| 6 | `RegisterTransactions`, `RegisterTransactionsProofs` | commit, withdrawal and merge by the statement, over PostgreSQL's locks; refines 2 | done |
| 7 | `PortalOtp`, `PublicProofs` | one-time codes by the statement | done |
| 8 | `Sessions`, `SessionsProofs` | sign-in, tokens, cutoffs and the merge chain | done |
| 9 | `BulkImport`, `BulkImportProofs` | batches, mapping, the batch commit, the screen that drives it | done |
| 10 | `EvidenceStore`, `DeskProofs` | rows and files, reuse, destruction, crashes, access | done |
| 11 | `DpoDesk`, `DpoDeskProofs` | lookup requests, cessation queue, owed notices, with pages that go stale | done |
| 12 | `ReviewDesk`, `DeskProofs` | the reviewer's screen over the draft routes | done |
| 13 | `Kiosk`, `WithdrawScreen`, `PublicScreens`, `PublicProofs` | the two public screens | done |
| 14 | `ContactPoints` | rows reached by phone and by e-mail, contact points learned later, their unique indexes | planned |
| 15 | `Validation` | phone and date normalisation against reference definitions | planned |

Every invariant and action property of the passing runs is a theorem (section
5), but for `SerialEffect`, of which a form that names every exception is
proved, and `EveryoneResolves`, which is proved as long as chains are short. The
theorems still worth stating belong to the two planned modules: that no two
unmerged rows share a contact point and a name, and that normalising twice
changes nothing.

Each run asks one question of one module or composition; where several could be
asked of one instance, one run asks them.

## 3. The modules

### ConsentRules, MergeChains and ConsentRegister

The state is the database, table by table:

| variable | table or column |
|---|---|
| `known`, `mergedInto` | `data_principal`, its `merged_into_id` |
| `draft` | `intake_draft`: status, payload, `matched_principal_id` |
| `artifact` | `consent_artifact` with its items, by the draft it came from |
| `record` | `consent_record` by person and purpose; status `none` is no row |
| `withdrawals`, `folded` | what `audit_log` says of withdrawals and of merges |
| `tasks` | `cessation_task` |
| `today` | the date in `APP_TIMEZONE` |

Each action is one transaction: `CreateDraft` (manual, scan, kiosk),
`ImportDraft` (CSV), `EditDraft`, `RejectDraft`, `Commit` (`commitDraft` with the
reviewer's `confirmPrincipalId` and `forceNew`), `Withdraw`, `Merge`,
`CompleteTask`, `HoldTask`, and `NextDay`. `ConsentRules` holds the decisions
two of them share with other modules: `WinsOver` and `Projected` say when a form
replaces a record, `AbsorbedWins` and `Reconciled` which of two records a merge
keeps. `MergeChains` is the walk along `merged_into_id`, for all modules that
follow it.

Abstractions. A person is the contact point and name printed on the form: the
unique indexes of migration 001 keep one row per pair, merged or not, so a
person is known once. A contact point learned from a later form
(`intake.ts:447-492`) is not modelled. `Form` holds what the payload hash and
the projection tell apart; `Papers` are forms `validateDraft` accepts except for
the date, which is compared with `today` at commit. Withdrawals are dated by the
day, as every comparison with a form dates them; a merge of two withdrawals made
on one day compares instants, which the parameter `early` of `Merge` leaves
open. Tasks are compared without their id. Every downstream system is active.

`withdrawals` and `folded` are never read by an action; they are the audit log,
and the properties compare the records with them.

### ConsentPromise

What a system that consults `consent_record` is promised, with no drafts,
records, order between forms or merge rules: which forms are on file and for whom
(`filed`), whether processing is allowed, and the day of the withdrawal that
stands. `Sign` puts one form on file and settles some of the purposes it answers
the way it answers them, and none that its person stopped on the date of that
form or later; what is undated lifts nothing. `ConsentRegister` implements it
with `filed` as the artifacts, `allowed` as `status = "active"` and `stoppedOn`
as the withdrawal date (`KeepsPromise`).

### RegisterTransactions

`commitDraft`, `withdrawPurposes` with the resolution of its caller, and
`mergePrincipals`, one action per statement or per row of a loop of statements.
Writes stay in `view` until the transaction closes; `exclusive` and `shared` are
its locks. The initial states are registers in which some drafts have been
committed; `request` is what is in flight. `PurposeId` is the order of the
purposes' identifiers, in which `commitDraft` projects.

PostgreSQL is external, modelled by what READ COMMITTED documents: a statement
sees what has committed, `FOR UPDATE` and uncommitted inserts exclude, the
foreign-key check of an insert takes `FOR KEY SHARE` on the person, a cycle of
waits ends with one of them aborted, a lost connection is rolled back.
`WHERE ... FOR UPDATE` over several rows (`LockPeople`, `Scans`) may lock them in
any order, because no statement asks for one.

Statements that write rows only the transaction itself can see (artifact items,
audit entries) are part of the action before them. Creating, editing and
rejecting drafts are single statements and are not in flight here.

### PortalOtp

One destination, one client address, and the statements of `requestOtp`,
`verifyOtp`, `claimPrincipal` and their routes, each committing by itself. A
challenge is named after the request that issued it. `clock` is in units in
which a code lives one, and the two windows of the rate limits are longer.
`MergeHolders` is a merge seen from here. `Crash` ends a call between any two
statements. `CountSent` and `InsertChallenge` are one SQL statement in two
steps, because its count sees only what had committed when it began. The
destination that leads to nobody, and the id that was never issued, are
included: no row is written for them and no verification succeeds.

### Sessions

`account` is `staff_user`, `failures` the `staff_login_failed` entries, `cutoff`
and `mergedInto` columns of `data_principal`, `tokens` what has been signed,
`login` and `visit` the progress of a sign-in and of a request with a portal
token. A sign-in is four statements (`Submit` counts the failures, `Compare`
reads the account, then `FailLogin` or `SignIn`); `requirePrincipal` is
`Present`, `FollowChain`, `CheckSurvivor`; `requireStaff` is one read and is the
operator `Admits`. A token keeps the second it was issued in, and for the
properties the tick (`mintedAt`); `barred` notes whom revocation kept out when a
request arrived. Roles, closures and cutoffs change by SQL at the console
(external). Signing, hashing and constant-time comparison are left out. In one
behaviour either people sign in or the portal is at work: they share the clock.

### BulkImport

`sheet` and `status` are the `intake_batch` and its file, `draft` the rows it
made (one per row and mapping), `filed` the artifacts, `people` how each
identity came onto the register, `screen` the state of `import-client.tsx`,
`call` the requests it has sent. A mapping inserts all its rows in one
transaction (`BuildDrafts`); a commit is `SendCommit`, a `CommitRow` per ready
row, each with a transaction of its own, `CountOpen`, `SettleStatus`,
`AnswerCommit`; answers may be lost and the server may `Stop` anywhere between.
A reviewer saves, commits and rejects the same rows. The cells of a row are
what `buildDrafts` distinguishes: blank, valid, future or ambiguous dates, and
boxes that read as yes, no or neither. A reviewer may commit a row for any person
on file (`named`, the route's `confirmPrincipalId`); an artifact is `under` a
person, and only that person's artifacts are asked whether the form is there
(`OnFile`, `intake.ts:538`). `commitDraft` is one transaction, and nobody is
merged.

### EvidenceStore

`row` is `evidence_object`, `disk` the file under `EVIDENCE_DIR` (`part` while it
is being written). `putEvidence` is `Look`, `InsertRow`, `OpenFile`,
`WriteFile`, or `FailFile` and `Undo`; `Crash` ends it anywhere. `Begin` is the
loop of `documents-client.tsx`, which takes one document after another, and
`Extract` the request it sends for each, which fails only on an object that is
gone, where a service is configured. `ListScans`, `DraftScan` and
`DraftOfNothing` are `extract-batch.mjs`. `MarkDestroyed` and `Unlink` are
`destroyEvidence`. `Open` and `Serve` are the route that gives out the bytes;
`Digitise`, `WithdrawAll` and `Merge` are what the register does to the people a
scan is about: `record` is the status of each person under each purpose, so that
the route's `bool_and` (`Narrowed`) is asked of all of them, declined ones
included. `known` and `gone` note what an upload could have found on file.
`plan` says which documents are attached, by which screens, and whose forms they
may be.

### DpoDesk

`item` is a row of the queue at work (lookup request, cessation task or
artifact), `arrivals` the order the queue lists in, `trail` the audit log,
`page` what each DPO was last shown. Decisions are taken from a page
(`i \in page[d].rows`) and guarded by the row. `InsertRequest` and `FileRequest`
are one transaction in two steps, because the count in the `INSERT` sees only
what has committed. `LoadNotices` shows a page of those who are owed a notice.
`ViewPerson` is the person's screen: the paper (`Paper`) of everybody folded into
them, and an entry that somebody looked. Who that is (`Members`) is the walk
*down* of `chainMembers`, level by level along the links that point at a row
(`FoldedBelow` of `MergeChains`), with a depth of its own; who somebody resolves
to is the walk up (`ChainFrom`), as everywhere. One
queue is at work in a behaviour, since the three share people and audit log and
nothing else; only notices read merges.

### ReviewDesk

`screen` is the state of `draft-form.tsx` for each reviewer: the payload on it,
what is awaited, the issues shown, the people offered; `reading` the
extractions under way, by the form version they were asked for; `draft`,
`register` and `filed` the tables behind it. `Click` begins to save; `PatchDraft` or
`CreateDraft` answer it, and the screen goes `Onward` to `Commit`, a second
request. Readings arrive (`ReadArrives`) or fail whenever they do, `Lost` is an
answer that does not come. Who leaves the page leaves a save or commit under way
behind (`Left`), and it goes on to its end. `mine` and `ground` note what the
reviewer did and why a box is ticked; `asked` notes whom a reviewer confirmed, on
which draft and for which name, and `saved` which screen a draft was last saved
from. Name and contact point are fields of their own, each of which a reading
fills by itself; a contact point may be missing or not normalise; a date is past,
future, missing, or `undecided`: a precision without a date. `mapped` is FALSE for
boxes outside the catalogue or there twice. What waits in the queue at first
(`Queueing`) came from a tablet, matched with whoever was on file, or from an
import, matched with nobody. An imported draft may name a form version that does
not print its boxes: the version is chosen once for the batch
(`import-client.tsx:189`) and the boxes are the columns that were mapped
(`bulk.ts:124`). `AsPrinted` says so, and one row of the run is such a draft.

### Kiosk, WithdrawScreen and PublicScreens

`Kiosk`: what is on the tablet is represented by who put it there. `Moment` is
the passing of time with all timers of the page: the idle clock, which every
touch restarts, and each `setTimeout` behind "Thank you", which nothing cancels.
`StepUp` and `WalkAway` are people, who come to whatever the tablet shows: who
finds a form open is shown it and may go on with it. `quiet` and `company` note
how long the open form has not been touched, and who has stood at it since it was
begun. A form under way is answered whenever it is.

`WithdrawScreen`: each click is a request (`requests`), served and answered
separately, answers in any order or not at all. A request with a token first has
its caller resolved (`ResolveCaller`) and is then served for whom that was.
`Others` is what others do to the register meanwhile (a form granted, a
withdrawal elsewhere, a merge), between the two as well. The
portal is taken from `PortalOtp` as it answers one visitor: the last code sent
works, once. `stops` remembers the withdrawals recorded.

`PublicScreens` composes them; they share only the server, so in a behaviour
(`at`) one of the two is used.

Every module with a state, but for the abstract `ConsentPromise`, has a type
invariant: a listed property of the run `register`, and for all of them a theorem
of section 5. `RegisterClaims` adds no state to the module it extends.

## 4. The runs

| run | instance | distinct states | question |
|---|---|---|---|
| `register` | 3 people, two of them alike, 1 purpose, 3 drafts, 1 system, 3 days, 7 forms | 842,042 | does any order of commits, withdrawals, chains of merges and tasks break a record? |
| `racing_requests` | three requests in flight: commits of one draft, of one person's forms and of newcomers; merges beside withdrawals by either identity and forms of the survivor | 42,845 | do the locks make statements transactions, does a withdrawal survive what runs beside it, does everyone get an answer? |
| `portal_otp` | 2 requests, 3 verifications, 2 attempts, 2 people | 1,144,763 | one code, one token, few guesses? |
| `sessions` | 3 sign-ins from 2 browsers on one account or through one address; 3 people, 1 portal request, 3 ticks of half a second | 376,516 | does revocation reach what it should, and nothing else? |
| `bulk_import` | 2 rows that are alike or hard to read, or of two people alike, or none; 3 requests: mapped twice and committed once, or mapped once and committed twice; a reviewer who edits once | 4,141,929 | does the batch file anything it guessed, make anybody twice, or pass a row over? |
| `evidence_store` | 2 documents with the same bytes, by one screen or two, or of two kinds; 1 document and 2 people; 1 purpose, 1 batch, 1 opening | 401,706 | do row and file stay together whatever fails? |
| `dpo_desk` | 3 rows, 3 people, 2 DPOs, a page of 1 row, limits of 1, 2 days | 819,077 | do stale pages, limits and merges leave queue and log right? |
| `review_desk` | 2 reviewers, 1 draft in the queue and 1 new, 3 names of which 2 are alike, 2 form versions, 2 edits; 3 saves, or a scan and 1 save | 1,799,860 | is what is filed valid, and of the right person, and do late readings spoil what a reviewer did? |
| `public_screens` | 2 visitors at a tablet; or 2 identities behind one contact point, 2 purposes, 5 requests, 2 at once | 2,089,286 | are people kept apart, and are they told what is so? |
| `claim_resurrection`, `review_locked`, `review_outranked` | smallest that shows it | - | section 6 |

### What each property says

The register:

* `RecordsExplained`: every record points at paper of somebody folded into its
  row, which gave that answer on that date. It relates record, artifact and
  merge history and is what a copy in a merge can break.
* `StoppedAfterSigned`: withdrawal dates exist exactly on withdrawn records and
  never precede the signature, although merges mix columns of two rows.
* `UnmergedNeverRevived`, `FirstStopHolds`: how far README invariant 6 holds.
  For a row nobody was merged into, active consent is later than *every*
  withdrawal; once there are merges, it is only later than *one* of them.
* `LatestSignatureStands`: no later signature is lost in a row nobody was merged
  into, unless a withdrawal withholds it.
* `StoppingIsOwed`: a standing withdrawal has an open task, or one decided no
  earlier, for every system, under an identity folded into the row.
* `EveryoneResolves`: the check in `mergePrincipals` excludes cycles of any
  length. In this run no chain can be longer than it is followed for; what
  happens to one that is, section 6 says.
* `WithdrawalStands`: a step ends a withdrawal only by a later form, or moves it
  to the survivor.
* `KeepsPromise`: the register implements `ConsentPromise`. A commit is the signing
  of the form it files: a form lifts no withdrawal that was made on its own date
  or later, on whatever day it is committed.

Requests in flight:

* `SerialEffect`: every close of a transaction is a step of `ConsentRegister`, so
  everything above carries over. One exception is named in the formula: a person
  resolved and not locked may be merged away before the close. It is a property
  of workloads that are `Apart`, as those of the run are: no form waits in two
  drafts, and merges in flight have a person in common. What else may happen is
  in sections 5 and 6.
* `AcknowledgedOnce`, `CommitsNeverDeadlock`: what the closing update and the lock
  order in `commitDraft` are there for, according to their comments.
* `LiveConsentFollowsStops`: after any interleaving no live identity has an
  active consent that one of its own withdrew that day. Records that such an
  exception left on an absorbed row, and withdrawals there, are not counted.
* `EveryRequestEnds`: under the fairness below, every request is answered.

Access:

* `OneTokenPerChallenge`, `AttemptsBounded`, `TokensEarned`: the three promises
  of the portal's sign-in.
* `RevocationIsExact`: a staff token is let in only if it was minted after the
  cutoff of its account, which is open and ranks high enough *now*; and one
  minted in a later second than the cutoff is let in.
* `FailuresBounded`: an e-mail or an address fails `MAX_FAILURES` times in the
  window, and once more for every other browser at work: the count and the write
  are two statements.
* `PortalRevocationHolds`: a portal token falls with the revocation of its own
  subject and of the identity it is let in as, whatever is merged while the
  request runs.

Import, evidence, queues:

* `BatchNeverGuesses`: a row nobody edited is filed by the batch as the
  spreadsheet has it, and only if every mapped cell could be read.
* `TwinsNeedAPerson`: of two people alike who came onto the register by one
  import, a person put one there.
* `ReadyRowsSettle`: when a commit answers, every row it was to commit is filed,
  taken by a reviewer or by another commit, or named among the skipped.
* `FilesAreIndexed`: no whole file lies on disk that no row knows of.
* `UploadsShareBytes`: what an upload is answered with is of its bytes and was not
  destroyed before, and its file is whole until it is destroyed, if the upload
  that made it went through; bytes on file when it began are not stored again.
  When that upload broke off, the file may be missing (section 6).
* `EveryDocumentEnds`: every document of a folder ends as read or failed.
* `TrailTellsTheStory`: row and log agree on who decided what, in which order,
  however many DPOs had the page open.
* `FilingsBounded`: the daily limit of an address, and the common one when no
  address is known, hold up to what is in flight.
* `DebtStands`: a notice stops being owed by a delivery or a merge only.
* `PaperFollowsSurvivor`: whoever resolves to a person is among the people whose
  paper that person's screen shows, and nobody who resolves to somebody else is.
  The one is found by walking up the chain, the other by a query of its own that
  walks down it.

Screens:

* `NothingInvalidFiled`: what is filed has no error a reviewer had to fix, although
  save and commit are two requests and somebody else may save in between.
* `NobodyFusedUnasked`: a form is filed with the person it names, or with one that
  the reviewer who commits it confirmed, on that draft and with the very name that
  is filed before them. The formula excepts a draft that another screen saved
  between their save and their commit (section 6).
* `BoxesHaveGrounds`: boxes are those of the form version chosen, or those an
  import queued, and one stands ticked for a reason, in whatever order readings
  arrive.
* `TypingStands`: a late reading does not change what was typed.
* `PeopleKeptApart`: what a form carries, open or received, was entered by those
  who stood at that very form and by nobody of an earlier one, whatever is
  cleared, answered or sent late; and no form stays open that nobody has touched
  for the idle limit. Within that limit whoever walks up is at the form they find
  (section 6).
* `LeftAloneClears`: a tablet that its visitor leaves comes to hold nothing of
  anybody, unless somebody walks up before that.
* `ConfirmationIsTrue`: what the portal confirms as withdrawn was withdrawn, of
  that person or somebody folded into them.

### Bounds

`MaxDay` and `MaxClock` bound the calendar: three days give before, same day and
after for two events and one between them; in `Sessions` a second has two ticks,
so that a cutoff falls before, within and after the second of a token. In
`DpoDesk` two days let a day's count run out. `MaxMergeDepth` (`ResolveDepth`,
`MemberDepth`) is `MAX_MERGE_DEPTH`, 16 in the code; in the runs it is no shorter
than the longest chain their people can form. `MaxAttempts`, `Sends`,
`SendsPerIp`, `VerifiesPerIp`, `MaxFailures`, `PerAddress`, `Unaddressed` and
`PageSize` are limits of the code, scaled to be reached. `Ttl`, `Window`, `Hour`
keep the order of 5 minutes, 15 minutes and an hour and let a code expire.
`IdleLimit` and `ThanksLimit` keep the order of 90 and 6 seconds. `MaxTokens`,
`MaxTrail`, `MaxForms`, `MaxEdits`, `MaxCalls`, `MaxAtOnce`, `MaxOutside`,
`InFlight` and the `Bounds` of `ReviewDesk` (edits, uploads and saves) cap what
people may do; each allows at least the two events whose order matters. `Bounds`
is a set, of which a behaviour has one: either many saves or a scan. Three drafts
allow two forms around a withdrawal and one for another identity. Three requests
in flight are enough for every pair that conflicts and for a third that meets them
half way. Draft names, calls, desks and reviewers are interchangeable, which the
symmetry sets say; no run with a liveness property uses one.

Deadlock checking is off in all runs: papers, days and requests run out, and a
register with nothing to do is not an error.

### Fairness

`RegisterTransactions` assumes weak fairness of each request's own next
statement, and of PostgreSQL's abort of a cycle. The first holds because a
statement that need not wait runs, each request having a connection of its own;
the second is `deadlock_timeout`. Nothing is assumed of `ConnectionLost`.
`EvidenceStore` assumes that an upload that is under way goes on (`Put`): the
loop of the screen and the calls of the server wait for nobody; nothing is
assumed of crashes, of destruction, or of the batch. `Kiosk` assumes that time
passes (`Moment`), and nothing of the people. No other module has liveness
properties: whether a reviewer reviews or a DPO completes a task is up to people.

## 5. Proofs

TLAPS checks the theorems below for every value of the constants: every set of
people, purposes, drafts, systems, papers, documents, spreadsheets, calls and
browsers, every bound on the calendar and on the merge depth, every relation of
likeness. They rest on the assumptions each module states of its constants,
which TLC evaluates in that module's run:

* `RulesAssumption`, `RegisterAssumption`: the calendar is a natural number of
  days; `None` is neither a person nor a draft; papers are forms that answer
  something and answer nothing twice, which `validateDraft` enforces.
* `TransactionsAssumption`: requests in flight and purposes are finitely many; what
  has been filed and what waits are forms as the register accepts them; a merge
  names two different people (`merge.ts:122`) that are on file; identifiers tell
  the purposes apart.
* `OtpAssumption`, `SessionsAssumption`: the limits are positive naturals, in the
  code's order; people and browsers are finitely many, since a bound counts them.
* `EvidenceAssumption`, `BulkAssumption`: the markers of absence are not among the
  things; rows and calls are finitely many; nobody is like themselves.
* `ReviewAssumption`, `EnteredAssumption`: a name is not one of the words for a
  missing one; what reviewers enter and what an import queued are payloads, which
  grant nothing they do not list (`bulk.ts:124`).
* `KioskAssumption`, `ScreenAssumption`: nobody is not a visitor and null not an
  identity, timers are positive, and the identities are finitely many, since the
  chain that is walked is as deep as they are many.
* `DeskAssumption`: limits are positive, and the walk down a chain of merges goes at
  least as deep as the walk up (both are 16 links in the code).

| module | theorem | says |
|---|---|---|
| `ConsentRegisterProofs` | `TypeCorrect` | `[]TypeOK` |
| | `WithdrawalsStand` | `WithdrawalStands`, an action property |
| | `DatesHold` | `[]StoppedAfterSigned` |
| | `DraftsHold` | a draft says for ever what was committed |
| | `PaperBehindRecords` | `[]RecordsExplained` |
| | `OneArtifactHolds` | one artifact per form and row, with commits one at a time |
| | `NoMergeCycle` | no chain of merges returns to where it was, whatever its length |
| | `EveryoneResolvesWhileShallow` | `EveryoneResolves` in every state in which no more rows are merged than a chain is followed for |
| | `FirstStopsHold`, `NeverRevived`, `SignaturesStand` | `[]FirstStopHolds`, `[]UnmergedNeverRevived`, `[]LatestSignatureStands` |
| | `SystemsAreTold` | `[]StoppingIsOwed` |
| | `RegisterKeepsPromise` | `KeepsPromise`, the refinement |
| `RegisterTransactionsProofs` | `TransactionsHold`, `TypeCorrect` | the invariant of the locks, and the types |
| | `AcknowledgedOnceHolds`, `CommitsNeverDeadlockHolds`, `LiveConsentFollowsStopsHolds` | the three invariants of the run |
| | `SerialButOvertaken` | every close is a step of the register, acts on an absorbed row, or is `Overtaken` in one of two named ways |
| `PublicProofs` | `TypeCorrect`, `AttemptsAreBounded`, `OneToken`, `TokensAreEarned` | of `PortalOtp`: the types and the three invariants of the run |
| | `PublicTypeCorrect`, `FormsAreKeptApart`, `ConfirmationsAreTrue` | of the public screens: the types, `[]PeopleKeptApart`, `[]ConfirmationIsTrue` |
| `SessionsProofs` | `TypeCorrect`, `RevocationExact`, `PortalRevocation`, `FailuresAreBounded` | the same |
| `DeskProofs` | `TypeCorrect`, `FilesAreIndexedHolds`, `UploadsShareBytesHolds` | of `EvidenceStore`: the types and the two invariants of the run |
| | `DeskHolds`, `DeskTypeCorrect` | of `ReviewDesk`: the invariant of the screen, and the types |
| | `FiledFormsAreValid`, `FusedOnlyWhenAsked`, `TicksHaveGrounds` | the three invariants of its runs |
| | `OwnWordsStand` | `TypingStands`, an action property |
| `BulkImportProofs` | `BulkHolds`, `TypeCorrect`, `ImportNeverGuesses`, `ImportNeverSplitsTwins`, `ImportAccountsForRows` | the invariant of an import, its types, and the three invariants of the runs |
| `DpoDeskProofs` | `DeskHolds`, `TypeCorrect` | the invariant of the queues, and the types |
| | `RowsAndLogAgree`, `FilingsStayBounded`, `PaperFollows` | the three invariants of the run |
| | `DebtsStand` | `DebtStands`, an action property |

### The register

`StepCases` divides a step into a commit with a named person, a withdrawal, a
merge, and the steps that leave records, paper and audit log alone;
`CommitRecords`, `WithdrawRecords`, `MergeRecords` say what each does to one
record. Every theorem is then an invariant with one case for each.

* `FoldedRight` carries the merges: an identity that is not merged is folded into
  its own row and into no other. A withdrawal is filed under a row that is not
  merged (`ResolveIsLive`), so it touches the withdrawals of that row only, and a
  merge moves those of the absorbed row to the survivor (`WithdrawStops`,
  `MergeStops`).
* `StoppedAfterSigned`, `DraftIsItsArtifact`, `OneArtifactPerForm` are inductive
  with `TypeOK`; `RecordsExplained` needs `FoldedRight`, and
  `DraftIsItsArtifact` for the draft that is about to be filed. The second and
  third are lemmas for the others first, and are proved only.
* `FirstStopHolds` is not inductive: it says nothing of declined and withdrawn
  records, and a declined one that forgot a withdrawal would let an old form in.
  `RecordsFollowStops` says for each status what the record remembers; a form
  that wins keeps it (`WinnerFollows`) and so does a merge (`ReconciledFollows`).
* `UnmergedFollow` and `PaperCovered` are its counterparts for rows nobody was
  folded into, where all withdrawals and all forms are remembered; a merge leaves
  neither of its rows such (`MergeUnmerged`).
* `StoppingIsOwed` needs `StoppedAfterSigned`: a task decided today was decided no
  earlier than any withdrawal on file.
* `EveryoneResolves` is not a fact about the guard of one merge: it follows from
  the absence of cycles (`MergesSound`), and from the chain being followed far
  enough. `MergeChainsProofs` has what a walk along `merged_into_id` does: it
  stays at the end once it got there (`ChainStays`), and without a cycle it gets
  there within as many links as there are merged rows (`ChainEnds`). A walk of
  `n + 1` links is one of `n` and one more; the induction this takes is `NatSet`,
  which has a set in the place of the predicate.
* The refinement maps a commit to `Sign` of the artifact it files, for the purposes
  whose records that form wins over, a withdrawal to `Stop`, a merge to `Fuse` with
  the purposes where the absorbed record is kept, midnight to `NextDay`, and the
  rest to stuttering.
  That the form signed is one the step adds to those on file needs
  `DraftIsItsArtifact`: a draft that is still open has no artifact.

### Requests in flight

`TransactionsInv` says, for the statement each transaction is at, what it holds a
lock on, what it has read under those locks and what it has yet to do (`Fits`);
that two transactions never hold one row exclusively (`LocksExclude`); and what
the rest of the database owes to the requests (`FiledStays`, `AcknowledgedOnce`).
A step of a transaction brings it to a statement that suits it (the `...Suits`
lemmas), and leaves every other one undisturbed (`NobodyDisturbed`), because
what it writes it has locked. From there:

* `CommitsNeverDeadlock`: a transaction that waits is further in the order of
  locks (draft, person, record by purpose) than any it waits for (`Beyond`), and
  no chain of waits leads back.
* `SerialButOvertaken`: at the close the views written under lock are those the
  register's own `Commit`, `Withdraw` or `Merge` computes. Two things are read
  without a lock that lasts. Whether the form is on file is read before the
  artifact is inserted, and the row at the end of the survivor's chain is not one
  of the two that are locked. `Overtaken` says which transactions close although a
  second look would have stopped them; section 6 tells of both. `SerialEffect`
  leaves `Overtaken` out, since the workloads of its run are `Apart`, which is
  assumed of them (`WorkloadsApart` in `MCRegisterTransactions`) and of nothing
  else.
* `LiveConsentFollowsStops` holds for any requests in flight. It rests on the fact
  that a withdrawal and a commit or merge that touches its record lock it one
  after the other, and that all of it happens on one day, which a form cannot be
  later than.

### Codes, sessions, evidence, import, queues

* `PortalOtp`: a verification claims its attempt before it compares, so every
  comparison made or under way was counted on the row (`AllCounted`).
  `HistorySound` keeps a challenge to the people found for it, and
  by `MintSound` at most one call is between taking a challenge and signing.
* `Sessions`: `LoginsSound`, `TokensSound` and `VisitsSound` say what a sign-in
  or request has read so far; `Tallied` counts failures in the window together
  with the sign-ins that passed the count and have yet to write, of which a
  browser has one.
* `EvidenceStore`: the row precedes the file and an undo precedes a whole file
  (`RowsComeFirst`); answers and copies on file are of documents past their
  insert (`AnswersAreWritten`, `CopiesAreNeeded`); a file that is being written is
  taken away by a destruction only, and one whose upload went through is whole
  until it is destroyed (`FilesAreKept`), since nobody undoes it any more.
* `BulkImport`: a draft is what its row says under the mapping of the call that
  made it until a reviewer saves it (`DraftsFollowSheet`); what a commit takes up
  was clean then and is dirty again only by a reviewer's hand (`ReadyWereClean`);
  nothing filed changes (`FiledAsDrafted`); and what is open of a commit's rows
  it has yet to reach or has skipped (`Settling`). `DraftSteps`, `CallSteps`,
  `FilingSteps` and `SheetSteps` list what a step may do to each variable.
* `DpoDesk`: a row goes only where its queue takes it and is held by nobody before
  a hold (`RowsKeepToQueue`), the list has rows that committed (`ListedAreRows`),
  and what was filed today and what is under way are bounded together
  (`FilingRoom`), since neither bound survives a step alone. An entry about another
  row is `Quiet` for this one. The log is compared by the positions of the entries
  about a row (`Decisions`), so that nothing recursive is in the way.
  `PaperFollowsSurvivor` compares two walks that are defined apart: that the levels
  below a person hold whoever climbs to them, and that who is found below climbs
  to nobody else, is proved by induction over the links, in `MergeChainsProofs`
  (`UpIsDown`, `DownEndsUp`).

### Screens

* `ReviewDesk` (`DeskInv`): a screen is `Sound` if the payload on it and the one it
  has sent are `AsPrinted`, its ticks are among those with grounds, and it waits
  for a commit of some draft only. It is `Backed` if, of a commit under way that
  says whose form it is, that reviewer has said so on this draft (`Said`), of the
  name that is in it, unless another screen saved it since. A draft is `Kept` if
  its payload is `AsPrinted` and it is matched with nobody or with the person it
  names. What is filed was computed from a row that was validated again
  (`Validated`), so `NothingInvalidFiled` needs nothing of the screen;
  `NobodyFusedUnasked` needs `Kept` where nobody chose and `Backed` where somebody
  did, and that what was said stays said whatever others save (`SaidStays`). The
  attempt to prove `BoxesHaveGrounds` showed that the model had left out an
  imported draft whose version does not print its boxes; it is in the model now,
  and in the formula.
* `TypingStands` compares a screen with itself one step later. Only `Prefilled`
  changes what is on a screen without a hand on it, and it fills blanks
  (`PrefilledIsPrinted`); all else leaves the text, opens or leaves the screen, or
  is typing.
* `Kiosk` (`KioskInv`): the welcome stands on an empty tablet, so a form begins with
  nothing of anybody. While it is open, all that is on it is of its company, to
  which whoever stands at the tablet belongs, and the idle clock has run exactly
  as long as nobody touched it (`FormSound`, `HeldBy`). What is sent is copied at
  the touch together with its company (`OfThose`). That suffices although a reset
  comes at any moment and an answer shows "Thank you" over another form: both end
  the form that is open, and neither opens one.
* `WithdrawScreen` (`ScreenInv`): `Survivor` is a walk, and a merge moves where it
  ends. The invariant has the ends themselves: a map `r` from identities to
  unmerged ones that follows the links (`Roots`), of which there is one as long as
  no links form a cycle (`SurvivorIn`, by `ChainStays` and `ChainEnds`). A merge
  of `a` into `s` composes `r` with the step from `a` to `s` (`Led`), and what had
  one root has one root (`TruthLed`). Rows that read withdrawn have a withdrawal
  of an identity with that root behind them, and rows are of unmerged identities
  (`Backed`), so an outcome is true when it is computed (`ServeWithdrawStep`), also
  of a caller who was resolved before a merge (`ResolveStep`), and stays so while
  it travels.

Each of these invariants was checked by TLC on the run of its module before it
was proved.

### What is only model-checked

Liveness (`EveryRequestEnds`, `EveryDocumentEnds`, `LeftAloneClears`) is beyond
this prover, which has no rule for fairness over `ENABLED`. Every other property
of a passing run is a theorem, but for `SerialEffect`, which excludes the races
that `SerialButOvertaken` has, and `EveryoneResolves`, which is proved for states
with no more merges than `MaxMergeDepth` and is false beyond.

## 6. Where the code and its comments disagree

Each run named here checks one documented statement and ends in a counterexample.

* `claim_resurrection`. README invariant 6 (`README.md:100`): no form resurrects
  a consent withdrawn after it was signed. Two rows of one person each have an
  active consent; one is withdrawn on day 0, the other on day 2. The merge keeps
  the earlier of the two withdrawals (`merge.ts:83`), so a form dated day 1,
  committed afterwards, wins although the person withdrew on day 2.
* `review_locked`. `draft-form.tsx:311`: "Fix the errors below before
  committing." A queued draft opens with the errors its import found; the button
  is disabled while there are any (`704`), the list is made anew only by saving,
  and only that button saves. A draft that is corrected on the screen cannot be
  committed from it.
* `review_outranked`. `draft-form.tsx:205`: a reviewer's own keystrokes outrank
  what a model proposed. That is so for text; a confident reading of a box
  replaces what the reviewer had ticked meanwhile (`239`).

Met while modelling, and not kept as runs. The models have these behaviours, and
where a property had to make room for one, its formula says so.

Register and requests in flight:

* `principal.ts:27`: null "if there is no such person or the chain does not
  terminate". The walk ends after 16 links (`24`, `43`), and a merge does not ask
  how long the chain is that it makes. The first of a chain of 17 links resolves to
  nobody, although the chain ends at a living row: a portal token for that
  person is refused and a form matched to them cannot be committed.
* `intake.ts:522`: "Has this exact form already been recorded for this person?",
  and "Refusing is the safe direction". The question (`536`) takes no lock, and
  `payload_hash` has no unique index: two commits of two drafts with one form both
  ask before either has inserted, and the person has the form twice, which cannot
  be tidied away. A form filed under a row that is then merged can be filed again
  under the survivor (`538`).
* `merge.ts:137`: the survivor must not resolve back through the absorbed record,
  "or the chain becomes a cycle and resolvePrincipalId returns nobody". A merge
  locks its two people (`126`) and reads the rows behind the survivor without a
  lock (`139`), so it does not see a merge that is about to extend that chain. B has
  been folded into C and D into A; merges of A into B and of C into D at once share
  no row, each finds that its survivor's chain ends elsewhere, and together they
  close a circle. Whoever is in it resolves to nobody from then on: their consents,
  and forms filed for them, are reachable by no read. `NoMergeCycle` proves that
  it takes merges at once.
* `withdrawal.ts:12`: each purpose withdrawn raises a task for each active system.
  A merge that overwrites the survivor's active record with the absorbed
  withdrawal (`merge.ts:89`) raises none for the survivor; the tasks there are
  name the absorbed identity.
* `principal.ts:13`: not following the chain would strand consents behind a dead
  identity. `mergePrincipals` requires only that the survivor does not resolve
  to the absorbed person (`merge.ts:139`), so a person can be folded into one
  already merged, and the records land on a row that no read resolves to.
* `intake.ts:396`: filing under an absorbed identity is the bug the resolution in
  `commitDraft` is there to fix. A commit resolves the person (`402`), a merge of
  that person commits, and the form is filed under the row just absorbed.
* `auth.ts:228`: `requirePrincipal` resolves before the withdrawal's transaction
  begins. A withdrawal that a merge overtakes is answered as if it had found
  nothing.
* `intake.ts:413`: two newcomers alike are not put to the reviewer as possible
  duplicates when their forms are committed at once.
* `intake.ts:425` and `436`: an exact match looks at unmerged rows, the unique
  index at all of them. A form whose printed identity was merged away, in a draft
  nobody was matched to, cannot be committed without naming the person.
* `withdrawal.ts:10`: a repeated request is not an error. Two requests that name
  two purposes in opposite orders wait for each other (`50`), and PostgreSQL fails
  one of them.
* `withdrawal.ts:15`: every branch writes an audit entry; the one for a declined
  record does not (`88`).
* `cessation.ts:60`: a withdrawal while an earlier task is still open raises no new
  one; `StoppingIsOwed` states what does hold. `cessation.ts:85` shows the one
  who held a task as the one who decided it, also after somebody else completed
  it.

Codes and sessions:

* `otp.ts:162`: two simultaneous requests cannot both pass the send limit. Under
  READ COMMITTED the count in the `INSERT` does not see the other insert, and
  both pass. `lookup.ts:90` relies on the same.
* `otp.ts:154`: retiring the older codes and inserting the new one are two
  statements, and two requests can leave two live codes for one destination.
* `auth.ts:233`: the cutoffs read are those of the token's subject and of the
  survivor. That of an identity between the two in the chain is not.

Evidence and import:

* `evidence.ts:99`: "The same bytes are the same file", and one whose bytes are gone
  is not reused (`107`). Row first, so that no file is without one: a crash after
  it, or a write that fails with an undo that fails, leaves a live row without its
  file, or with part of it. The next upload of those bytes finds the row (`109`), is
  answered with it, and writes nothing: the screen shows the scan as stored, and
  it is nowhere. The same holds of two uploads at once, when the first undoes
  itself after the second was answered.
* `evidence/[id]/route.ts:11` and `docs/PRD.md:215` (SEC-6): once a person has
  withdrawn everything, only a DPO may open their scan. The route asks whether
  *all* records are withdrawn (`35-39`), and a withdrawal leaves a declined record
  declined (`withdrawal.ts:88-91`). Whoever ever declined a purpose is never
  narrowed. Nor is whoever was merged: the route asks for the records of the
  artifact's own person, who has none then.
* `evidence.ts`: a row destroyed keeps its bytes if the unlink fails; nothing calls
  `destroyEvidence`, and nothing sets `extraction_processed_at`. Two uploads of
  the same bytes at once are both stored.
* `extract-batch.mjs` drafts from every kind of evidence, and twice if two run at
  once; it records a box it could not read as not ticked (`194-201`), a
  difference `consent.ts:171-175` insists on.
* `bulk.ts:233`: a row with an ambiguous date is kept back. A reviewer's save
  replaces the errors of the import by those of `validateDraft`, which does not
  know them, and the next commit of the batch files the form undated.
* `batches/[id]/map/route.ts:23`: two mappings at once make every row twice; the
  answer to one that is lost leaves a batch the screen cannot commit.
* `bulk.ts:298`: `held` subtracts rows skipped from rows open by then, and may be
  wrong or negative. Artifacts of a batch carry no `evidence_id`, although the
  file is kept for them (`batches/route.ts:10-12`).

Queues and screens:

* `intake.ts:233`: a close name "is never merged automatically, because fusing two
  real people leaks one person's consent state into the other's record". Two
  reviewers have one draft open. One is asked whether Aasha is the Asha on file,
  says so, and their screen saves. Before its commit arrives the other, who reads
  the name as Ravi, saves. The commit takes the first reviewer's
  `confirmPrincipalId` for what the draft holds by then (`393`), and Ravi's form is
  filed under Asha, of whom nobody said that.
* `notices.ts:48`: a merge ends the debt of the absorbed person, and the survivor
  does not inherit it; one delivery settles all later forms as well (`49`).
* `queue-action.tsx:75`: the Enter key does not ask whether a request is under way;
  a notice may be recorded as delivered twice. After a 409 the stale row stays.
  A task on hold has no action on the page.
* `lookup-resolve.tsx:27`: merged records are filtered out of the search; one
  merged between the search and the answer is still recorded.
* `register.ts:262`: the entry of a view is written by one conditional statement
  because two renders would pass a separate check; they pass this one as well.
* `draft-form.tsx`: a save of a new entry whose answer is lost makes another draft
  at each click; the person confirmed is sent with whatever is on the screen by then,
  and the route takes any `confirmPrincipalId`; readings for an old
  form version still fill text; an update sends no OCR tokens (`102-105`).
* `signature-pad.tsx:116`: null if nothing was drawn. Turning the tablet blanks
  the canvas and leaves `hasInk` set, and a blank image is sent.
* `kiosk-client.tsx:27-30`: the idle clock is there so that nobody reads the form of
  the one before. It needs ninety seconds; until then whoever walks up is shown
  the open form, and every touch of theirs keeps it open. They may go on with it
  and sign, and then the form that is sent has the details of one person and the
  signature of another. `PeopleKeptApart` says what holds instead.
* `kiosk-client.tsx:142`: the reset after "Thank you" is not cancelled by the next
  person's touch, and clears what they have entered. An answer that is lost and
  a second click make two drafts.
* `withdraw-client.tsx:460`: Enter sends a second request for a code while one is
  under way; the screen may end with the challenge that was superseded. A
  selection outlives the list it was made on. A lost answer shows nothing.

## 7. What is not modelled

* A second contact point learned from a later form (`intake.ts:447-492`), and
  people who are reached by phone and by e-mail: planned with `ContactPoints`.
* The normalisation of names, phones and dates, character by character: planned
  with `Validation`. A form is a person, a date before, today or missing, and
  its boxes; `ReviewDesk` and `BulkImport` have the errors that stop a commit.
* Creating, editing and rejecting drafts beside a transaction in flight: each is
  one guarded statement, and `ConsentRegister` has them as actions of their own.
* The schema's triggers that keep `audit_log` append-only; entries that no state
  is derived from and no property compares.
* Equal answers and equal time for destinations that are known and not
  (`settleAfter`).
* Duplicate scoring and search: queries by similarity, which the relations
  `Similar` and `Close` stand for. The merge they lead to is modelled.
* The form catalogue and the seed: reference data, the constants `Purposes`,
  `Notices` and `Printed`.
* `document-payload.ts`, the training export, the dashboard and the other pages:
  what other parts keep, laid out. The tables of migrations 016 and 017 have no
  code that writes them.
* The extraction service under `ml/`: image processing over floating-point
  coordinates, without state. What it may answer is in `ReviewDesk`.
* `import-folder.mjs`, `migrate.mjs`, `reset-db.mjs`, environment checks: tools run
  by hand. `import-folder.mjs` writes the file before the row, the opposite of
  `evidence.ts`.
