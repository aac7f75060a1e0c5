----------------------------- MODULE WithdrawScreen -----------------------------
(***************************************************************************)
(* The screen on which a person withdraws (withdraw-client.tsx), over the  *)
(* routes of the portal.  Each click is a request of its own; answers come *)
(* in any order, or not at all, and meanwhile others commit forms for the  *)
(* person, stop things for them, and merge them.                           *)
(*                                                                         *)
(* The portal is that of PortalOtp, taken as it answers one visitor: the   *)
(* last code sent is the one that works, once.                             *)
(***************************************************************************)
EXTENDS Integers, FiniteSets, MergeChains

CONSTANTS
  Identities,   \* identities the destination is printed on
  Purposes,
  Declined,     \* what they declined on paper, by person and purpose
  MaxCalls,     \* bound on the requests the screen sends
  MaxAtOnce,    \* bound on those under way at once
  MaxOutside,   \* bound on what others do to the register
  Nothing       \* null

ASSUME ScreenAssumption ==
  /\ {MaxCalls, MaxAtOnce, MaxOutside} \subseteq Nat
  /\ IsFiniteSet(Identities) /\ Nothing \notin Identities
  /\ Declined \subseteq Identities \X Purposes

VARIABLES
  \* the register and the portal
  into,        \* merged_into_id
  status,      \* consent_record.status, by person and purpose
  code,        \* the challenge that can be redeemed, for whom, and whether it was verified
  stops,       \* withdrawals recorded
  outside,     \* what others have done
  \* the screen
  step, challengeId, matches, token, list, selected, busy, outcomes,
  requests,    \* those under way
  sent         \* how many requests there have been

register   == <<into, status, code, stops, outside>>
screenVars == <<step, challengeId, matches, token, list, selected, busy, outcomes, requests, sent>>
withdrawVars == <<register, screenVars>>

Standing  == {"none", "active", "declined", "withdrawn"}
Numbers   == 1 .. MaxCalls
NoList    == [of |-> Nothing, rows |-> [u \in Purposes |-> "none"]]
NoCode    == [id |-> 0, matched |-> {}, verified |-> FALSE]
NoOutcome == [of |-> Nothing, told |-> [u \in Purposes |-> "none"]]

Survivor(p) == CHOOSE q \in ChainFrom(p, into, Cardinality(Identities), Nothing) : into[q] = Nothing

WithdrawInit ==
  /\ into = [p \in Identities |-> Nothing]
  /\ status = [p \in Identities |->
                 [u \in Purposes |-> IF <<p, u>> \in Declined THEN "declined" ELSE "active"]]
  /\ code = NoCode
  /\ stops = {}
  /\ outside = 0
  /\ step = "contact" /\ challengeId = 0 /\ matches = {} /\ token = Nothing
  /\ list = NoList /\ selected = {} /\ busy = FALSE /\ outcomes = NoOutcome
  /\ requests = {} /\ sent = 0

-----------------------------------------------------------------------------
(* Others at the register                                                  *)

Meanwhile == outside < MaxOutside /\ outside' = outside + 1

\* A new form grants what was stopped or declined.
GrantAgain(p, u) ==
  /\ Meanwhile
  /\ into[p] = Nothing /\ status[p][u] # "active"
  /\ status' = [status EXCEPT ![p][u] = "active"]
  /\ UNCHANGED <<into, code, stops, screenVars>>

StopOtherwise(p, u) ==
  /\ Meanwhile
  /\ into[p] = Nothing /\ status[p][u] = "active"
  /\ status' = [status EXCEPT ![p][u] = "withdrawn"]
  /\ stops' = stops \cup {<<p, u>>}
  /\ UNCHANGED <<into, code, screenVars>>

\* The survivor keeps its own row or takes that of the other, as their dates decide;
\* the other is left with none.
MergeInto(a, s) ==
  /\ Meanwhile
  /\ a # s /\ into[a] = Nothing /\ into[s] = Nothing
  /\ into' = [into EXCEPT ![a] = s]
  /\ \E kept \in [Purposes -> {a, s}] :
       /\ \A u \in Purposes : status[kept[u]][u] # "none"
       /\ status' = [status EXCEPT ![s] = [u \in Purposes |-> status[kept[u]][u]],
                                   ![a] = [u \in Purposes |-> "none"]]
  /\ UNCHANGED <<code, stops, screenVars>>

-----------------------------------------------------------------------------
(* Clicks                                                                  *)

Fresh(kind) == [n |-> sent + 1, kind |-> kind, challenge |-> 0, right |-> FALSE,
                person |-> Nothing, caller |-> Nothing, purposes |-> {}, served |-> FALSE,
                got |-> [ok |-> FALSE, people |-> {}, list |-> NoList, outcomes |-> NoOutcome]]

Send(c) ==
  /\ sent < MaxCalls /\ Cardinality(requests) < MaxAtOnce
  /\ requests' = requests \cup {c}
  /\ sent' = sent + 1
  /\ busy' = TRUE

\* The button waits for the screen to be idle; the Enter key does not.
RequestCode ==
  /\ step = "contact" \/ (step = "code" /\ ~ busy)
  /\ Send(Fresh("request"))
  /\ UNCHANGED <<register, step, challengeId, matches, token, list, selected, outcomes>>

Back ==
  /\ step = "code"
  /\ step' = "contact"
  /\ UNCHANGED <<register, challengeId, matches, token, list, selected, busy, outcomes, requests, sent>>

\* The code that came with the challenge the screen holds, or another.
SubmitCode(right) ==
  /\ step = "code" /\ ~ busy
  /\ Send([Fresh("verify") EXCEPT !.challenge = challengeId, !.right = right])
  /\ UNCHANGED <<register, step, challengeId, matches, token, list, selected, outcomes>>

ChoosePerson(p) ==
  /\ step = "choose" /\ ~ busy /\ p \in matches
  /\ Send([Fresh("select") EXCEPT !.challenge = challengeId, !.person = p])
  /\ UNCHANGED <<register, step, challengeId, matches, token, list, selected, outcomes>>

\* What is active on the list can be ticked, and unticked.
TickPurpose(u) ==
  /\ step = "consents" /\ list.rows[u] = "active"
  /\ selected' = (selected \ {u}) \cup ({u} \ selected)
  /\ UNCHANGED <<register, step, challengeId, matches, token, list, busy, outcomes, requests, sent>>

Withdraw ==
  /\ step = "consents" /\ ~ busy /\ selected # {} /\ token # Nothing
  /\ \E u \in Purposes : list.rows[u] = "active"
  /\ Send([Fresh("withdraw") EXCEPT !.person = token, !.purposes = selected])
  /\ UNCHANGED <<register, step, challengeId, matches, token, list, selected, outcomes>>

-----------------------------------------------------------------------------
(* The routes                                                              *)

Served(c, got) == requests' = (requests \ {c}) \cup {[c EXCEPT !.served = TRUE, !.got = got]}

Is(c, kind) == c \in requests /\ c.kind = kind /\ ~ c.served

\* otp/request: supersedes what was sent before.
ServeRequest(c) ==
  /\ Is(c, "request")
  /\ code' = [id |-> c.n, matched |-> {p \in Identities : into[p] = Nothing}, verified |-> FALSE]
  /\ Served(c, [c.got EXCEPT !.ok = TRUE])
  /\ UNCHANGED <<into, status, stops, outside, step, challengeId, matches, token, list, selected,
                 busy, outcomes, sent>>

\* otp/verify.
ServeVerify(c) ==
  LET right  == c.right /\ c.challenge = code.id
      single == Cardinality(code.matched) = 1
  IN  /\ Is(c, "verify")
      /\ code' = IF ~ right THEN code
                 ELSE IF single THEN NoCode ELSE [code EXCEPT !.verified = TRUE]
      /\ Served(c, [c.got EXCEPT !.ok = right, !.people = IF right THEN code.matched ELSE {}])
      /\ UNCHANGED <<into, status, stops, outside, step, challengeId, matches, token, list,
                     selected, busy, outcomes, sent>>

\* otp/select.
ServeSelect(c) ==
  LET right == c.challenge = code.id /\ code.verified /\ c.person \in code.matched
  IN  /\ Is(c, "select")
      /\ code' = IF right THEN NoCode ELSE code
      /\ Served(c, [c.got EXCEPT !.ok = right, !.people = IF right THEN {c.person} ELSE {}])
      /\ UNCHANGED <<into, status, stops, outside, step, challengeId, matches, token, list,
                     selected, busy, outcomes, sent>>

\* requirePrincipal: a token stands for whoever its person has been merged into, as
\* the chain is when it is followed.
ResolveCaller(c) ==
  /\ Is(c, "load") \/ Is(c, "withdraw")
  /\ c.caller = Nothing
  /\ requests' = (requests \ {c}) \cup {[c EXCEPT !.caller = Survivor(c.person)]}
  /\ UNCHANGED <<register, step, challengeId, matches, token, list, selected, busy, outcomes,
                 sent>>

\* consents, of the caller.
ServeLoad(c) ==
  /\ Is(c, "load") /\ c.caller # Nothing
  /\ LET p == c.caller
     IN  Served(c, [c.got EXCEPT !.ok = TRUE, !.list = [of |-> p, rows |-> status[p]]])
  /\ UNCHANGED <<register, step, challengeId, matches, token, list, selected, busy, outcomes,
                 sent>>

\* withdrawPurposes, for the caller, who may have been merged since: one outcome for
\* each purpose that was asked for.
Outcome(row) ==
  CASE row = "active" -> "changed" [] row = "withdrawn" -> "already"
    [] row = "declined" -> "declined" [] row = "none" -> "not_found"

ServeWithdraw(c) ==
  LET p    == c.caller
      acts == {u \in c.purposes : status[p][u] = "active"}
  IN  /\ Is(c, "withdraw") /\ c.caller # Nothing
      /\ status' = [status EXCEPT ![p] = [u \in Purposes |-> IF u \in acts THEN "withdrawn" ELSE @[u]]]
      /\ stops' = stops \cup {<<p, u>> : u \in acts}
      /\ Served(c, [c.got EXCEPT !.ok = TRUE,
           !.outcomes = [of |-> p, told |->
             [u \in Purposes |-> IF u \in c.purposes THEN Outcome(status[p][u]) ELSE "none"]]])
      /\ UNCHANGED <<into, code, outside, step, challengeId, matches, token, list, selected,
                     busy, outcomes, sent>>

-----------------------------------------------------------------------------
(* Answers                                                                 *)

Answered(c, kind) == c \in requests /\ c.kind = kind /\ c.served /\ c.got.ok

\* finally: whatever else is under way.
Idle(c) == busy' = FALSE

Settled(c) == requests' = requests \ {c} /\ Idle(c)

CodeSent(c) ==
  /\ Answered(c, "request")
  /\ Settled(c)
  /\ challengeId' = c.n /\ step' = "code"
  /\ UNCHANGED <<register, matches, token, list, selected, outcomes, sent>>

\* Several hold the contact point: which is it?
MustChoose(c) ==
  /\ Answered(c, "verify") /\ Cardinality(c.got.people) > 1
  /\ Settled(c)
  /\ matches' = c.got.people /\ step' = "choose"
  /\ UNCHANGED <<register, challengeId, token, list, selected, outcomes, sent>>

\* With a token the consents are asked for; the wait goes on.
TokenGiven(c) ==
  /\ Answered(c, "verify") \/ Answered(c, "select")
  /\ Cardinality(c.got.people) = 1
  /\ sent < MaxCalls
  /\ \E p \in c.got.people :
       requests' = (requests \ {c}) \cup {[Fresh("load") EXCEPT !.person = p]}
  /\ sent' = sent + 1
  /\ UNCHANGED <<register, step, challengeId, matches, token, list, selected, busy, outcomes>>

ConsentsLoaded(c) ==
  /\ Answered(c, "load")
  /\ Settled(c)
  /\ token' = c.person /\ list' = c.got.list /\ step' = "consents"
  /\ UNCHANGED <<register, challengeId, matches, selected, outcomes, sent>>

\* Mutant of Told: the confirmation takes a 200 for a withdrawal.
ToldAsAsked(c) ==
  [c.got.outcomes EXCEPT !.told = [u \in Purposes |-> IF u \in c.purposes THEN "changed" ELSE "none"]]

Told(c) == c.got.outcomes

Withdrawn(c) ==
  /\ Answered(c, "withdraw")
  /\ Settled(c)
  /\ outcomes' = Told(c) /\ step' = "done"
  /\ UNCHANGED <<register, challengeId, matches, token, list, selected, sent>>

\* An error is shown, or the request or its answer is lost; the screen stays where
\* it is.
Fails(c) ==
  /\ c \in requests
  /\ Settled(c)
  /\ UNCHANGED <<register, step, challengeId, matches, token, list, selected, outcomes, sent>>

-----------------------------------------------------------------------------
Others ==
  \/ \E p \in Identities, u \in Purposes : GrantAgain(p, u) \/ StopOtherwise(p, u)
  \/ \E a, s \in Identities : MergeInto(a, s)

Click ==
  \/ RequestCode \/ Back \/ Withdraw
  \/ \E right \in BOOLEAN : SubmitCode(right)
  \/ \E p \in Identities : ChoosePerson(p)
  \/ \E u \in Purposes : TickPurpose(u)

Serve ==
  \E c \in requests :
    \/ ServeRequest(c) \/ ServeVerify(c) \/ ServeSelect(c)
    \/ ResolveCaller(c) \/ ServeLoad(c) \/ ServeWithdraw(c)

Answer ==
  \E c \in requests :
    CodeSent(c) \/ MustChoose(c) \/ TokenGiven(c) \/ ConsentsLoaded(c) \/ Withdrawn(c) \/ Fails(c)

WithdrawNext == Others \/ Click \/ Serve \/ Answer

WithdrawSpec == WithdrawInit /\ [][WithdrawNext]_withdrawVars

-----------------------------------------------------------------------------
(* Properties                                                              *)

\* Types, and the shape of the screen: a list is shown with the token that asked
\* for it, and a request is under way only once it was sent.
WithdrawTypeOK ==
  /\ into \in [Identities -> Identities \cup {Nothing}]
  /\ status \in [Identities -> [Purposes -> Standing]]
  /\ code \in [id : 0 .. MaxCalls, matched : SUBSET Identities, verified : BOOLEAN]
  /\ stops \subseteq Identities \X Purposes /\ outside \in 0 .. MaxOutside
  /\ step \in {"contact", "code", "choose", "consents", "done"}
  /\ challengeId \in 0 .. MaxCalls /\ matches \subseteq Identities
  /\ token \in Identities \cup {Nothing}
  /\ list \in [of : Identities \cup {Nothing}, rows : [Purposes -> Standing]]
  /\ selected \subseteq Purposes /\ busy \in BOOLEAN
  /\ {c.n : c \in requests} \subseteq 1 .. sent /\ sent \in 0 .. MaxCalls
  /\ step \in {"consents", "done"} => token # Nothing

\* What the confirmation calls withdrawn has been: a withdrawal is recorded, of
\* the person it was asked for or of one since folded into them, whoever merged
\* or stopped what between the list, the click and the answer.
ConfirmationIsTrue ==
  step = "done" =>
    \A u \in Purposes : outcomes.told[u] \in {"changed", "already"} =>
      \E q \in Identities : <<q, u>> \in stops /\ Survivor(q) = Survivor(outcomes.of)
===============================================================================
