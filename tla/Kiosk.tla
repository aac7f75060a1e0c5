--------------------------------- MODULE Kiosk ---------------------------------
(***************************************************************************)
(* The tablet on the counter (kiosk-client.tsx, signature-pad.tsx): people *)
(* come and go, the form of the last one clears itself, and a form that is *)
(* being sent is answered when it is answered.                             *)
(*                                                                         *)
(* What is on the tablet is represented by who put it there.  Time passes  *)
(* in units of which IdleLimit make the ninety seconds.                    *)
(***************************************************************************)
EXTENDS Naturals, FiniteSets

CONSTANTS
  Visitors,
  NoOne,
  IdleLimit,    \* IDLE_MS
  ThanksLimit,  \* how long "Thank you" stays
  MaxForms      \* bound on the forms sent

ASSUME KioskAssumption ==
  /\ NoOne \notin Visitors
  /\ {IdleLimit, ThanksLimit} \subseteq Nat \ {0} /\ MaxForms \in Nat

VARIABLES
  atTablet,   \* who stands in front of it
  stage,
  entered,    \* who entered the details and the choices
  ink,        \* whose signature the canvas carries
  inked,      \* hasInk: what the screen believes of the canvas
  idle,       \* time since the last touch
  resets,     \* resets that "Thank you" has scheduled, by the time left
  sending,    \* the form under way: its parts, and how far it is
  received,   \* drafts the server has
  quiet,      \* history: how long the open form has not been touched
  company     \* history: who has stood at the open form since it was begun

history   == <<quiet, company>>
kioskVars == <<atTablet, stage, entered, ink, inked, idle, resets, sending, received, history>>

Someone == Visitors \cup {NoOne}
Parts   == {"details", "choices"}
Blank   == [part \in Parts |-> NoOne]

NoForm == [parts |-> Blank, ink |-> NoOne, of |-> {}, at |-> "none"]

KioskTypeOK ==
  /\ atTablet \in Someone
  /\ stage \in {"setup", "welcome", "details", "consent", "sign", "done"}
  /\ entered \in [Parts -> Someone] /\ ink \in Someone /\ inked \in BOOLEAN
  /\ idle \in 0 .. IdleLimit /\ resets \subseteq 1 .. ThanksLimit
  /\ sending \in [parts : [Parts -> Someone], ink : Someone, of : SUBSET Visitors,
                 at : {"none", "evidence", "draft"}]
  /\ received \subseteq [parts : [Parts -> Someone], ink : Someone, of : SUBSET Visitors]
  /\ quiet \in 0 .. IdleLimit /\ company \subseteq Visitors

KioskInit ==
  /\ atTablet = NoOne
  /\ stage = "setup"
  /\ entered = Blank /\ ink = NoOne /\ inked = FALSE
  /\ idle = 0
  /\ resets = {}
  /\ sending = NoForm
  /\ received = {}
  /\ quiet = 0 /\ company = {}

-----------------------------------------------------------------------------
(* The tablet itself                                                       *)

\* Mutant of Armed: nothing is left to clear once the choices are made.
ArmedBeforeSigning == stage \in {"details", "consent"}

\* The idle timer runs while somebody's data is on the screen.
Armed == stage \in {"details", "consent", "sign"}

\* Mutant of Wiped: the choices stay.
WipedDetails == entered' = [entered EXCEPT !["details"] = NoOne]

Wiped == entered' = Blank

\* A form is open on the tablet.
Filling == stage \in {"details", "consent", "sign"}

\* No form is open any more.
FormEnds == quiet' = 0 /\ company' = {}

Reset ==
  /\ Wiped
  /\ ink' = NoOne /\ inked' = FALSE
  /\ stage' = "welcome" /\ idle' = 0
  /\ FormEnds

\* A moment passes: what is due is done.  Each "Thank you" clears the tablet in
\* its own time, whatever the tablet has come to show by then.
Moment ==
  /\ resets' = {t - 1 : t \in resets \ {1}}
  /\ \/ /\ 1 \in resets \/ (Armed /\ idle + 1 >= IdleLimit)
        /\ Reset
     \/ /\ 1 \notin resets /\ ~ (Armed /\ idle + 1 >= IdleLimit)
        /\ idle' = IF Armed THEN idle + 1 ELSE 0
        /\ quiet' = IF Filling /\ quiet < IdleLimit THEN quiet + 1 ELSE quiet
        /\ UNCHANGED <<stage, entered, ink, inked, company>>
  /\ UNCHANGED <<atTablet, sending, received>>

\* A change of the window's size redraws the canvas white and tells nobody.
Rotate ==
  /\ stage = "sign"
  /\ ink' = NoOne
  /\ UNCHANGED <<atTablet, stage, entered, inked, idle, resets, sending, received, history>>

-----------------------------------------------------------------------------
(* People                                                                  *)

\* Staff choose the form on the counter and hand the tablet over.
HandOver ==
  /\ stage = "setup"
  /\ stage' = "welcome"
  /\ UNCHANGED <<atTablet, entered, ink, inked, idle, resets, sending, received, history>>

\* Somebody steps up, to whatever the tablet shows: who finds a form open is shown
\* it, and may go on with it.
StepUp(v) ==
  /\ atTablet = NoOne
  /\ atTablet' = v
  /\ company' = IF Filling THEN company \cup {v} ELSE company
  /\ UNCHANGED <<stage, entered, ink, inked, idle, resets, sending, received, quiet>>

\* And walks away, at any point of the form.
WalkAway ==
  /\ atTablet # NoOne
  /\ atTablet' = NoOne
  /\ UNCHANGED <<stage, entered, ink, inked, idle, resets, sending, received, history>>

Touch(from) == atTablet # NoOne /\ stage = from /\ idle' = 0 /\ quiet' = 0

Begin ==
  /\ Touch("welcome")
  /\ stage' = "details"
  /\ company' = {atTablet}
  /\ UNCHANGED <<atTablet, entered, ink, inked, resets, sending, received>>

\* A touch of the open form that changes nothing keeps it open.
Tap ==
  /\ Filling /\ Touch(stage)
  /\ UNCHANGED <<atTablet, stage, entered, ink, inked, resets, sending, received, company>>

Enter(part) ==
  /\ Touch(IF part = "details" THEN "details" ELSE "consent")
  /\ entered' = [entered EXCEPT ![part] = atTablet]
  /\ UNCHANGED <<atTablet, stage, ink, inked, resets, sending, received, company>>

\* On to the choices, with details; on to the signature, with or without choices,
\* and with a canvas of its own.
Forward ==
  /\ \/ Touch("details") /\ entered["details"] # NoOne /\ stage' = "consent"
     \/ Touch("consent") /\ stage' = "sign"
  /\ UNCHANGED <<atTablet, entered, ink, inked, resets, sending, received, company>>

\* The first stroke is what the screen is told of.
Draw ==
  /\ Touch("sign")
  /\ ink' = atTablet /\ inked' = TRUE
  /\ UNCHANGED <<atTablet, stage, entered, resets, sending, received, company>>

ClearInk ==
  /\ Touch("sign")
  /\ ink' = NoOne /\ inked' = FALSE
  /\ UNCHANGED <<atTablet, stage, entered, resets, sending, received, company>>

\* submit: what is sent is what was there at the touch; the signature goes first.
Finish ==
  /\ Touch("sign") /\ inked /\ sending.at = "none"
  /\ Cardinality(received) < MaxForms
  /\ sending' = [parts |-> entered, ink |-> ink, of |-> company, at |-> "evidence"]
  /\ UNCHANGED <<atTablet, stage, entered, ink, inked, resets, received, company>>

HandBack ==
  /\ Touch("done") /\ Reset
  /\ UNCHANGED <<atTablet, resets, sending, received>>

-----------------------------------------------------------------------------
(* A form under way                                                        *)

SignatureSaved ==
  /\ sending.at = "evidence"
  /\ sending' = [sending EXCEPT !.at = "draft"]
  /\ UNCHANGED <<atTablet, stage, entered, ink, inked, idle, resets, received, history>>

Received ==
  received' = received \cup {[parts |-> sending.parts, ink |-> sending.ink, of |-> sending.of]}

\* "Thank you", on whatever the tablet shows by now.
DraftSaved ==
  /\ sending.at = "draft"
  /\ Received
  /\ sending' = NoForm
  /\ stage' = "done" /\ idle' = 0
  /\ resets' = resets \cup {ThanksLimit}
  /\ FormEnds
  /\ UNCHANGED <<atTablet, entered, ink, inked>>

\* Refused, or lost; a draft whose answer is lost has been made.
SendFails ==
  /\ sending.at # "none"
  /\ sending' = NoForm
  /\ UNCHANGED received \/ (sending.at = "draft" /\ Received)
  /\ UNCHANGED <<atTablet, stage, entered, ink, inked, idle, resets, history>>

-----------------------------------------------------------------------------
KioskNext ==
  \/ Moment \/ Rotate \/ HandOver \/ WalkAway
  \/ \E v \in Visitors : StepUp(v)
  \/ \E part \in Parts : Enter(part)
  \/ Begin \/ Tap \/ Forward \/ Draw \/ ClearInk \/ Finish \/ HandBack
  \/ SignatureSaved \/ DraftSaved \/ SendFails

\* The browser's timers run.
KioskSpec == KioskInit /\ [][KioskNext]_kioskVars /\ WF_kioskVars(Moment)

-----------------------------------------------------------------------------
(* Properties                                                              *)

Shown == {entered[part] : part \in Parts} \cup {ink}

\* Forms are kept apart: what an open form shows, and what a form the server has
\* carries, is of those who stood at that very form, whoever walked away in the
\* middle of theirs and whatever was answered or cleared late; and a form that
\* nobody touched for the idle limit is not open, so that who walks up later is
\* not shown it.
PeopleKeptApart ==
  /\ Filling => Shown \subseteq company \cup {NoOne} /\ quiet < IdleLimit
  /\ \A f \in received :
       {f.parts[part] : part \in Parts} \cup {f.ink} \subseteq f.of \cup {NoOne}

\* A tablet left alone comes to hold nothing of anybody, unless somebody walks up.
LeftAloneClears ==
  atTablet = NoOne ~> (Shown = {NoOne} \/ atTablet # NoOne)
===============================================================================
