------------------------------- MODULE ReviewDesk -------------------------------
(***************************************************************************)
(* The screen on which a form becomes a record: draft-form.tsx, over the   *)
(* routes that create, save and commit a draft.                            *)
(*                                                                         *)
(* Several reviewers have it open, on a draft of the queue or on a new     *)
(* entry; who has two pages open counts as two.  It saves and then         *)
(* commits, in two requests, which go on when the page is left; readings   *)
(* of the scan arrive when they arrive; nothing on it is locked while it   *)
(* waits.                                                                  *)
(***************************************************************************)
EXTENDS Integers, FiniteSets

CONSTANTS
  Reviewers,    \* staff with the screen open
  Drafts,       \* ids of intake_draft
  Queued,       \* the drafts that are in the queue to begin with
  Imported,     \* what they may hold: payloads, of any version with any boxes
  Names,        \* as written on forms
  Contacts,     \* numbers and addresses that can be reached
  Close,        \* pairs of names alike enough on one contact point to stop for
  OnFile,       \* the people in the register to begin with
  Notices,      \* form versions
  Purposes,
  Printed,      \* the purposes printed on each form version
  Legible,      \* names and contact points a scan can be read to say
  Dates,        \* what is entered for a date
  Bounds,       \* how much of what may be done: edits, what reviewers type, tick and
                \* choose; uploads, the scans attached; saves, the clicks that save
  None          \* null

ASSUME ReviewAssumption ==
  /\ Queued \subseteq Drafts /\ Legible \subseteq Names \cup Contacts
  /\ OnFile \subseteq Names \X Contacts /\ Close \subseteq Names \X Names
  /\ Printed \in [Notices -> (SUBSET Purposes) \ {{}}]
  /\ Bounds \subseteq [edits : Nat, uploads : Nat, saves : Nat]
  /\ None \notin Drafts \cup Notices \cup Reviewers \cup Names \cup Contacts \cup (Names \X Contacts)
  /\ "blank" \notin Names /\ Contacts \cap {"none", "bad"} = {}

VARIABLES
  screen,   \* what each reviewer has in front of them
  reading,  \* the calls of each screen to the extraction service: form versions
  draft,    \* intake_draft
  register, \* data_principal, by name and contact point
  filed,    \* consent_artifact
  asked,    \* who was confirmed to be whom, on which draft, by whom
  spare     \* what is left of the bounds

deskVars == <<screen, reading, draft, register, filed, asked, spare>>

\* A person; a form may name nobody, give no contact point or one that does not
\* normalise.
Principals == Names \X Contacts
Written    == Names \cup {"blank"}
Reached    == Contacts \cup {"none", "bad"}

\* future is a date after today, undecided a precision without a date.
Signed == {"undated", "undecided", "past", "future"}

Fields == {"name", "contact", "signed", "items"}

\* mapped: every item is of the catalogue, and none is there twice.
Payload == [name : Written, contact : Reached, signed : Signed, notice : Notices \cup {None},
            items : SUBSET Purposes, granted : SUBSET Purposes, mapped : BOOLEAN]

EmptyPayload == [name |-> "blank", contact |-> "none", signed |-> "undated", notice |-> None,
                 items |-> {}, granted |-> {}, mapped |-> TRUE]

Who(p) == <<p.name, p.contact>>

ASSUME EnteredAssumption ==
  Dates \subseteq Signed /\ Imported \subseteq {p \in Payload : p.granted \subseteq p.items}

\* draftPayloadSchema.
Shaped(p) == p.name # "blank" /\ p.items # {}

\* validateDraft: the fields with a blocking error.
Errors(p) ==
  {f \in Fields : \/ f = "name" /\ p.name = "blank"
                  \/ f = "contact" /\ p.contact \notin Contacts
                  \/ f = "signed" /\ p.signed \in {"future", "undecided"}
                  \/ f = "items" /\ (p.items = {} \/ ~ p.mapped)}

\* matchPrincipal.
Exact(who)      == IF who \in register THEN who ELSE None
Candidates(who) ==
  IF who \in register THEN {}
  ELSE {n \in register : n[2] = who[2] /\ <<who[1], n[1]>> \in Close}

Closed == [open |-> FALSE, draft |-> None, now |-> EmptyPayload, scan |-> FALSE,
           issues |-> {}, offer |-> {}, waits |-> "none", sent |-> EmptyPayload,
           target |-> None, choice |-> None, forced |-> FALSE, mine |-> {}, ground |-> {}]

NoDraft == [status |-> "none", payload |-> EmptyPayload, scan |-> FALSE,
            issues |-> {}, matched |-> None, saved |-> None]

\* A row as the routes write it: validated, and matched with who is on file now.
\* Which screen saved it last is on record for the properties only.
Row(p, scan, by) == [status |-> "needs_review", payload |-> p, scan |-> scan,
                     issues |-> Errors(p), matched |-> Exact(Who(p)), saved |-> by]

\* As the queue may hold it: the tablet's drafts are matched, those of an import not.
Queueing(p) == {[Row(p, FALSE, None) EXCEPT !.matched = m] : m \in {None, Exact(Who(p))}}

DeskInit ==
  /\ register = OnFile
  /\ screen = [v \in Reviewers |-> Closed]
  /\ reading = [v \in Reviewers |-> {}]
  /\ draft \in [Drafts -> {NoDraft} \cup UNION {Queueing(p) : p \in Imported}]
  /\ {d \in Drafts : draft[d] # NoDraft} = Queued
  /\ filed = {}
  /\ asked = {}
  /\ spare \in Bounds

-----------------------------------------------------------------------------
(* Opening, and filling in by hand                                         *)

\* Of a page that was left nothing stays but what it is waiting for.
Shows(v, s) ==
  screen' = [screen EXCEPT ![v] = IF s.open \/ s.waits # "none" THEN s ELSE Closed]

Use(kind) ==
  /\ spare[kind] > 0
  /\ spare' = [spare EXCEPT ![kind] = @ - 1]

\* A draft of the queue; one whose payload does not parse cannot be opened.
OpenDraft(v, d) ==
  /\ screen[v] = Closed
  /\ draft[d].status = "needs_review" /\ Shaped(draft[d].payload)
  /\ Shows(v, [Closed EXCEPT !.open = TRUE, !.draft = d, !.now = draft[d].payload,
                             !.scan = draft[d].scan, !.issues = draft[d].issues,
                             !.ground = draft[d].payload.granted])
  /\ UNCHANGED <<reading, draft, register, filed, asked, spare>>

OpenNew(v) ==
  /\ screen[v] = Closed
  /\ Shows(v, [Closed EXCEPT !.open = TRUE])
  /\ UNCHANGED <<reading, draft, register, filed, asked, spare>>

\* A save goes on to its commit without the page; an upload or a reading under way
\* reaches nobody.
Left(s) ==
  IF s.waits \in {"save", "commit"}
  THEN [s EXCEPT !.open = FALSE, !.now = EmptyPayload, !.mine = {}, !.ground = {}]
  ELSE Closed

Leave(v) ==
  /\ screen[v].open
  /\ Shows(v, Left(screen[v]))
  /\ reading' = [reading EXCEPT ![v] = {}]
  /\ UNCHANGED <<draft, register, filed, asked, spare>>

TypeName(v, name) ==
  /\ screen[v].open /\ screen[v].now.name # name
  /\ Use("edits")
  /\ Shows(v, [screen[v] EXCEPT !.now.name = name, !.mine = @ \cup {"name"}])
  /\ UNCHANGED <<reading, draft, register, filed, asked>>

TypeContact(v, contact) ==
  /\ screen[v].open /\ screen[v].now.contact # contact
  /\ Use("edits")
  /\ Shows(v, [screen[v] EXCEPT !.now.contact = contact, !.mine = @ \cup {"contact"}])
  /\ UNCHANGED <<reading, draft, register, filed, asked>>

\* The date, or how exact it is: a precision can be chosen before there is a date.
EnterDate(v, signed) ==
  /\ screen[v].open /\ screen[v].now.signed # signed
  /\ signed = "undecided" => screen[v].now.signed = "undated"
  /\ Use("edits")
  /\ Shows(v, [screen[v] EXCEPT !.now.signed = signed, !.mine = @ \cup {"signed"}])
  /\ UNCHANGED <<reading, draft, register, filed, asked>>

Toggle(v, p) ==
  LET s == screen[v]
      granted == IF p \in s.now.granted THEN s.now.granted \ {p} ELSE s.now.granted \cup {p}
  IN  /\ s.open /\ p \in s.now.items
      /\ Use("edits")
      /\ Shows(v, [s EXCEPT !.now.granted = granted, !.ground = @ \cup {p}, !.mine = @ \cup {p}])
      /\ UNCHANGED <<reading, draft, register, filed, asked>>

\* The items of the version chosen, with the ticks they had.
ItemsOf(n, p) ==
  [p EXCEPT !.notice = n, !.items = Printed[n], !.granted = @ \cap Printed[n], !.mapped = TRUE]

\* With a scan on the screen it is read against the version chosen.
SelectNotice(v, n) ==
  LET s == screen[v]
  IN  /\ s.open /\ s.now.notice # n
      /\ Use("edits")
      /\ Shows(v, [s EXCEPT !.now = IF n = None THEN [@ EXCEPT !.notice = None] ELSE ItemsOf(n, @),
                            !.mine = IF n = None THEN @ ELSE @ \ (Purposes \ Printed[n])])
      /\ reading' = IF n # None /\ s.scan THEN [reading EXCEPT ![v] = @ \cup {n}] ELSE reading
      /\ UNCHANGED <<draft, register, filed, asked>>

-----------------------------------------------------------------------------
(* The scan                                                                *)

\* Offered until there is one; meanwhile the form version can change.
Upload(v) ==
  /\ screen[v].open /\ ~ screen[v].scan /\ screen[v].waits = "none"
  /\ Use("uploads")
  /\ Shows(v, [screen[v] EXCEPT !.waits = "upload", !.sent = screen[v].now])
  /\ UNCHANGED <<reading, draft, register, filed, asked>>

\* It is read against the version chosen when the upload began.
UploadAnswered(v) ==
  LET s == screen[v]
  IN  /\ s.waits = "upload"
      /\ Shows(v, [s EXCEPT !.scan = TRUE, !.waits = "none", !.sent = EmptyPayload])
      /\ reading' = [reading EXCEPT ![v] = @ \cup {s.sent.notice}]
      /\ UNCHANGED <<draft, register, filed, asked, spare>>

UploadFails(v) ==
  /\ screen[v].waits = "upload"
  /\ Shows(v, [screen[v] EXCEPT !.waits = "none", !.sent = EmptyPayload])
  /\ UNCHANGED <<reading, draft, register, filed, asked, spare>>

\* What the service makes of one tick-box: found ticked or empty with confidence,
\* found without, or not found.
Readings == {"ticked", "empty", "unsure", "missing"}

\* Mutant of Confident: whatever was found pre-fills.
ConfidentEnough(read) == {p \in DOMAIN read : read[p] # "missing"}

Confident(read) == {p \in DOMAIN read : read[p] \in {"ticked", "empty"}}

Ticked(read) == {p \in DOMAIN read : read[p] \in {"ticked", "unsure"}}

\* Mutant of Prefilled: what was read replaces what is there.
PrefilledOver(p, read, name, contact, signed) ==
  [p EXCEPT !.name = IF name # None THEN name ELSE @,
            !.contact = IF contact # None THEN contact ELSE @,
            !.signed = IF signed # None THEN signed ELSE @,
            !.granted = (@ \ Confident(read)) \cup (p.items \cap Confident(read) \cap Ticked(read))]

\* Text goes where there is none, each field by itself; a confident reading of a box
\* goes over it.
Prefilled(p, read, name, contact, signed) ==
  [p EXCEPT !.name = IF @ = "blank" /\ name # None THEN name ELSE @,
            !.contact = IF @ = "none" /\ contact # None THEN contact ELSE @,
            !.signed = IF @ \in {"undated", "undecided"} /\ signed # None THEN signed ELSE @,
            !.granted = (@ \ Confident(read)) \cup (p.items \cap Confident(read) \cap Ticked(read))]

\* A reading arrives, of text that was read with confidence or not at all; a date
\* in the future counts as not read.  With no form version there were no labels
\* to look for, and with no tick-box read the text is not used either.
ReadArrives(v, n, read, name, contact, signed) ==
  LET s == screen[v]
  IN  /\ n \in reading[v]
      /\ reading' = [reading EXCEPT ![v] = @ \ {n}]
      /\ IF n # None
         THEN Shows(v, [s EXCEPT !.now = Prefilled(@, read, name, contact, signed),
                                 !.ground = @ \cup {p \in DOMAIN read : read[p] = "ticked"}])
         ELSE UNCHANGED screen
      /\ UNCHANGED <<draft, register, filed, asked, spare>>

\* The service is slow, down or not configured.
ReadFails(v, n) ==
  /\ n \in reading[v]
  /\ reading' = [reading EXCEPT ![v] = @ \ {n}]
  /\ UNCHANGED <<screen, draft, register, filed, asked, spare>>

-----------------------------------------------------------------------------
(* Saving and committing                                                   *)

\* Commit, or one of the buttons that answer "is this someone on file?".
Click(v, choice, forced) ==
  LET s == screen[v]
  IN  /\ s.open /\ s.waits = "none"
      /\ \/ choice = None /\ ~ forced /\ s.issues = {}
         \/ choice \in s.offer /\ ~ forced
         \/ choice = None /\ forced /\ s.offer # {}
      /\ Use("saves")
      /\ Shows(v, [s EXCEPT !.waits = "save", !.sent = s.now, !.offer = {},
                            !.choice = choice, !.forced = forced])
      /\ UNCHANGED <<reading, draft, register, filed, asked>>

Idle(s) == [s EXCEPT !.waits = "none", !.sent = EmptyPayload, !.target = None,
                     !.choice = None, !.forced = FALSE]

Refused(s, issues) == [Idle(s) EXCEPT !.issues = issues]

\* After a save: on to the commit of that draft, or back with the errors.
Onward(s, d) ==
  IF Errors(s.sent) = {}
  THEN [s EXCEPT !.waits = "commit", !.sent = EmptyPayload, !.target = d, !.issues = {}]
  ELSE Refused(s, Errors(s.sent))

Reviewable(d) == draft[d].status = "needs_review"

\* Whom the reviewer says the form just saved to be of, if they say.
Confirms(v, d) ==
  asked' = asked \cup {[draft |-> d, by |-> v, who |-> Who(screen[v].sent), is |-> q] :
                         q \in {screen[v].choice} \ {None}}

\* PATCH: a draft still in the queue takes the payload, keeps a scan it has, and
\* is matched anew.
PatchDraft(v, answered) ==
  LET s    == screen[v]
      d    == s.draft
      kept == Shaped(s.sent) /\ Reviewable(d)
  IN  /\ s.waits = "save" /\ d # None
      /\ IF kept THEN /\ draft' = [draft EXCEPT ![d] = Row(s.sent, s.scan \/ @.scan, v)]
                      /\ Confirms(v, d)
                 ELSE UNCHANGED <<draft, asked>>
      /\ Shows(v, IF answered /\ kept THEN Onward(s, d) ELSE Idle(s))
      /\ UNCHANGED <<reading, register, filed, spare>>

\* POST: a new entry makes a draft at every click, for the screen does not keep
\* the id of the one it made.
CreateDraft(v, d, answered) ==
  LET s == screen[v]
  IN  /\ s.waits = "save" /\ s.draft = None
      /\ draft[d].status = "none"
      /\ IF Shaped(s.sent)
         THEN /\ draft' = [draft EXCEPT ![d] = Row(s.sent, s.scan, v)]
              /\ Confirms(v, d)
              /\ Shows(v, IF answered THEN Onward(s, d) ELSE Idle(s))
         ELSE /\ UNCHANGED <<draft, asked>>
              /\ Shows(v, IF answered THEN Refused(s, {}) ELSE Idle(s))
      /\ UNCHANGED <<reading, register, filed, spare>>

\* Mutant of Validated: the save has validated it already.
ValidatedBefore(d) == {}

\* commitDraft validates what is in the row now.
Validated(d) == Errors(draft[d].payload)

\* Mutant of Person: the one candidate is the person.
PersonLikely(d, choice) ==
  LET who == Who(draft[d].payload)
  IN  IF choice # None THEN choice
      ELSE IF Candidates(who) # {} THEN CHOOSE n \in Candidates(who) : TRUE ELSE Exact(who)

\* Whose form it is, if that is decided: by the reviewer, by the match kept on the
\* draft, or by an exact match now.
Person(d, choice) ==
  IF choice # None THEN choice
  ELSE IF draft[d].matched # None THEN draft[d].matched
  ELSE Exact(Who(draft[d].payload))

File(v, d, who, answered) ==
  LET form == [payload |-> draft[d].payload, scan |-> draft[d].scan, is |-> who]
  IN  IF form \in {[payload |-> a.payload, scan |-> a.scan, is |-> a.is] : a \in filed}
      THEN /\ UNCHANGED <<reading, draft, register, filed>>
           /\ Shows(v, Idle(screen[v]))
      ELSE /\ filed' = filed \cup {[draft |-> d, by |-> v, payload |-> form.payload,
                                      scan |-> form.scan, is |-> form.is,
                                      saved |-> draft[d].saved]}
           /\ register' = register \cup {who}
           /\ draft' = [draft EXCEPT ![d].status = "committed"]
           /\ Shows(v, IF answered THEN Closed ELSE Idle(screen[v]))
           /\ reading' = IF answered THEN [reading EXCEPT ![v] = {}] ELSE reading

\* The commit answers with a refusal and why, or files the form.
Commit(v, answered) ==
  LET s    == screen[v]
      d    == s.target
      who  == Person(d, s.choice)
      new  == Who(draft[d].payload)
      open == Reviewable(d) /\ Validated(d) = {}
      stop == who = None /\ Candidates(new) # {} /\ ~ s.forced
      Refuse(t) == /\ Shows(v, IF answered THEN t ELSE Idle(s))
                   /\ UNCHANGED <<reading, draft, register, filed>>
  IN  /\ s.waits = "commit"
      /\ \/ ~ Reviewable(d) /\ Refuse(Idle(s))
         \/ Reviewable(d) /\ Validated(d) # {} /\ Refuse(Refused(s, Validated(d)))
         \/ open /\ stop /\ Refuse([Idle(s) EXCEPT !.offer = Candidates(new)])
         \/ open /\ ~ stop /\ File(v, d, IF who = None THEN new ELSE who, answered)
      /\ UNCHANGED <<asked, spare>>

\* A request that never reached the server.
Lost(v) ==
  /\ screen[v].waits \in {"save", "commit"}
  /\ Shows(v, Idle(screen[v]))
  /\ UNCHANGED <<reading, draft, register, filed, asked, spare>>

\* The route that rejects a draft.
Reject(d) ==
  /\ draft[d].status = "needs_review"
  /\ draft' = [draft EXCEPT ![d].status = "rejected"]
  /\ UNCHANGED <<screen, reading, register, filed, asked, spare>>

-----------------------------------------------------------------------------
Edit(v) ==
  \/ \E name \in Written : TypeName(v, name)
  \/ \E contact \in Reached : TypeContact(v, contact)
  \/ \E signed \in Dates : EnterDate(v, signed)
  \/ \E p \in Purposes : Toggle(v, p)
  \/ \E n \in Notices \cup {None} : SelectNotice(v, n)

Read(v) ==
  \E n \in reading[v] :
    \/ ReadFails(v, n)
    \/ \E read \in [IF n = None THEN {} ELSE Printed[n] -> Readings],
          name \in (Legible \cap Names) \cup {None},
          contact \in (Legible \cap Contacts) \cup {None}, signed \in {"past", None} :
         ReadArrives(v, n, read, name, contact, signed)

Answer(v, answered) ==
  \/ PatchDraft(v, answered) \/ Commit(v, answered)
  \/ \E d \in Drafts : CreateDraft(v, d, answered)

DeskNext ==
  \/ \E v \in Reviewers, d \in Drafts : OpenDraft(v, d)
  \/ \E v \in Reviewers : OpenNew(v) \/ Leave(v) \/ Edit(v) \/ Read(v)
  \/ \E v \in Reviewers : Upload(v) \/ UploadAnswered(v) \/ UploadFails(v) \/ Lost(v)
  \/ \E v \in Reviewers, choice \in Principals \cup {None}, forced \in BOOLEAN : Click(v, choice, forced)
  \/ \E v \in Reviewers, answered \in BOOLEAN : Answer(v, answered)
  \/ \E d \in Drafts : Reject(d)

DeskSpec == DeskInit /\ [][DeskNext]_deskVars

-----------------------------------------------------------------------------
(* Properties                                                              *)

Desk == [open : BOOLEAN, draft : Drafts \cup {None}, now : Payload, scan : BOOLEAN,
         issues : SUBSET Fields, offer : SUBSET Principals,
         waits : {"none", "upload", "save", "commit"}, sent : Payload,
         target : Drafts \cup {None}, choice : Principals \cup {None}, forced : BOOLEAN,
         mine : SUBSET (Purposes \cup {"name", "contact", "signed"}), ground : SUBSET Purposes]

Stored == [status : {"none", "needs_review", "committed", "rejected"}, payload : Payload,
           scan : BOOLEAN, issues : SUBSET Fields, matched : Principals \cup {None},
           saved : Reviewers \cup {None}]

Filing == [draft : Drafts, by : Reviewers, payload : Payload, scan : BOOLEAN, is : Principals,
           saved : Reviewers \cup {None}]

Answers == [draft : Drafts, by : Reviewers, who : Written \X Reached, is : Principals]

DeskTypeOK ==
  /\ screen \in [Reviewers -> Desk]
  /\ reading \in [Reviewers -> SUBSET (Notices \cup {None})]
  /\ draft \in [Drafts -> Stored]
  /\ register \subseteq Principals
  /\ filed \subseteq Filing
  /\ asked \subseteq Answers
  /\ spare \in [edits : Nat, uploads : Nat, saves : Nat]

\* A form in the register has no error a reviewer would have had to fix, whoever
\* else saved the same draft between a reviewer's save and their commit.
NothingInvalidFiled == \A a \in filed : Shaped(a.payload) /\ Errors(a.payload) = {}

\* A form is filed with the person it names, or with somebody whom the reviewer who
\* commits it, asked on that draft, said this person to be, with the name and contact
\* point that are filed before them; but for a draft that another screen saved
\* between that reviewer's save and their commit.
NobodyFusedUnasked ==
  \A a \in filed :
    a.is = Who(a.payload) \/
    \E q \in asked :
      /\ q.draft = a.draft /\ q.by = a.by /\ q.is = a.is
      /\ q.who = Who(a.payload) \/ a.saved # a.by

\* The boxes are those the form version prints, or those the draft was queued with.
AsPrinted(p) ==
  /\ p.granted \subseteq p.items
  /\ \/ p.notice = None \/ p.items = Printed[p.notice]
     \/ \E q \in Imported : q.notice = p.notice /\ q.items = p.items

\* Every box shown or filed is one the form version printed, whatever versions the
\* reviewer went through and in whatever order their readings came, unless the
\* draft was queued with that version and those boxes; and a box on the screen
\* stands ticked because a reviewer ticked it, a reading was sure of it or the
\* draft came with it.
BoxesHaveGrounds ==
  /\ \A v \in Reviewers :
       AsPrinted(screen[v].now) /\ screen[v].now.granted \subseteq screen[v].ground
  /\ \A a \in filed : AsPrinted(a.payload)

\* What a reviewer has typed changes by their hand only.
TypingStands ==
  [][\A v \in Reviewers :
       LET s == screen[v]
           t == screen'[v]
       IN  s.open /\ t.open /\ spare'.edits = spare.edits =>
             /\ "name" \in s.mine /\ s.now.name # "blank" => t.now.name = s.now.name
             /\ "contact" \in s.mine /\ s.now.contact # "none" => t.now.contact = s.now.contact
             /\ "signed" \in s.mine /\ s.now.signed \in {"past", "future"}
                  => t.now.signed = s.now.signed]_deskVars

-----------------------------------------------------------------------------
(* Statements the code makes that it does not keep                         *)

\* src/components/draft-form.tsx: "The reviewer's own keystrokes outrank anything
\* a model proposed, and a scan that lands after they have started typing must
\* not undo it."
ReviewerOutranksScan ==
  [][\A v \in Reviewers :
       screen[v].open /\ screen'[v].open /\ spare'.edits = spare.edits =>
         screen[v].mine \cap screen[v].now.granted
           = screen[v].mine \cap screen'[v].now.granted]_deskVars

\* src/components/draft-form.tsx: "Fix the errors below before committing."
FixingUnlocks ==
  \A v \in Reviewers :
    screen[v].open /\ screen[v].waits = "none" /\ Errors(screen[v].now) = {}
      => screen[v].issues = {}
===============================================================================
