------------------------------- MODULE Sessions -------------------------------
(***************************************************************************)
(* Who is let in: signing in with a password and its limit on failures,    *)
(* requireStaff for a staff cookie, requirePrincipal for a portal token    *)
(* with the merge chain it follows.                                        *)
(*                                                                         *)
(* Time runs in ticks; a token says when it was issued in whole seconds.   *)
(* Accounts and cutoffs are changed by SQL at the console: nothing in the  *)
(* program writes them.                                                    *)
(***************************************************************************)
EXTENDS Integers, FiniteSets, MergeChains

CONSTANTS
  Staff,          \* accounts; an email names one, or none if it is not of Staff
  Logins,         \* submissions of the sign-in form
  Browsers,       \* where they come from
  Plans,          \* the attempt each submission makes: email, browser, address
  MaxFailures,    \* MAX_FAILURES
  Window,         \* WINDOW_MINUTES, in ticks
  People,         \* rows of data_principal
  Visits,         \* requests with a portal token
  MaxMergeDepth,
  TicksPerSecond,
  StaffTtl, PrincipalTtl,  \* in seconds
  MaxClock,       \* bound on the clock
  MaxTokens,      \* bound on the portal tokens signed
  NoIp,           \* ip_address IS NULL: the proxy is not trusted
  None            \* SQL NULL, for an id

ASSUME SessionsAssumption ==
  /\ {MaxFailures, TicksPerSecond, StaffTtl, PrincipalTtl} \subseteq Nat \ {0}
  /\ MaxClock \in Nat /\ MaxMergeDepth \in Nat /\ Window \in Nat
  /\ None \notin People
  /\ IsFiniteSet(Browsers)
  /\ \A q \in Plans, l \in Logins : q[l] # None => q[l].browser \in Browsers

VARIABLES
  now,
  plan,        \* one of Plans; none of them when it is the portal that is at work
  account,     \* staff_user: role, is_active, tokens_valid_from
  login,       \* progress of each sign-in
  failures,    \* audit_log rows staff_login_failed
  cutoff,      \* data_principal.portal_tokens_valid_from
  mergedInto,  \* data_principal.merged_into_id
  tokens,      \* what has been signed
  visit        \* progress of each portal request

signing == <<account, login, failures>>
portal  == <<cutoff, mergedInto, visit>>
vars    == <<now, plan, signing, portal, tokens>>

Clock == 0 .. MaxClock
Never == -1

NoAttempt == [l \in Logins |-> None]

Roles == {"operator", "dpo", "admin"}
Rank  == [r \in Roles |-> CASE r = "operator" -> 0 [] r = "dpo" -> 1 [] r = "admin" -> 2]

RoleAtLeast(role, minimum) == Rank[role] >= Rank[minimum]

\* mintedAt is the tick in which iat falls: the code knows iat only.
Token == [class : {"staff"}, sub : Staff, role : Roles, iat : Clock, mintedAt : Clock]
           \cup [class : {"principal"}, sub : People, iat : Clock, mintedAt : Clock]

NoToken == [class |-> "none"]
Idle    == [stage |-> "idle", token |-> NoToken, as |-> None, barred |-> {}]

TypeOK ==
  /\ now \in Clock /\ plan \in Plans
  /\ account \in [Staff -> [role : Roles, active : BOOLEAN, cutoff : Clock \cup {Never}]]
  /\ login \in [Logins -> [stage : {"idle", "compare", "fail", "sign", "ended"},
                           role : Roles \cup {None}]]
  /\ \A f \in failures : f.login \in Logins /\ f.at \in Clock
  /\ cutoff \in [People -> Clock \cup {Never}]
  /\ mergedInto \in [People -> People \cup {None}]
  /\ tokens \subseteq Token
  /\ visit \in [Visits ->
       [stage : {"idle", "resolve", "survivor", "admitted", "refused"},
        token : Token \cup {NoToken}, as : People \cup {None}, barred : SUBSET People]]

Init ==
  /\ now = 0
  /\ plan \in Plans
  /\ account \in [Staff -> [role : {"dpo"}, active : {TRUE}, cutoff : {Never}]]
  /\ login = [l \in Logins |-> [stage |-> "idle", role |-> None]]
  /\ failures = {}
  /\ cutoff = [p \in People |-> Never]
  /\ mergedInto = [p \in People |-> None]
  /\ tokens = {}
  /\ visit = [v \in Visits |-> Idle]

Tick ==
  /\ now < MaxClock
  /\ now' = now + 1
  /\ UNCHANGED <<plan, signing, portal, tokens>>

-----------------------------------------------------------------------------
(* Tokens                                                                  *)

Second(t) == t \div TicksPerSecond

Fresh(t, ttl) == Second(now) < t.iat + ttl

\* Mutant of RevokedBy: a token of the cutoff's own instant is let in.
RevokedBefore(iat, c) == c # Never /\ iat * TicksPerSecond < c

\* A tie within the second counts as revoked.
RevokedBy(iat, c) == c # Never /\ iat * TicksPerSecond <= c

-----------------------------------------------------------------------------
(* Staff                                                                   *)

Deactivate(s) ==
  /\ account[s].active
  /\ account' = [account EXCEPT ![s].active = FALSE]
  /\ UNCHANGED <<now, plan, login, failures, portal, tokens>>

ChangeRole(s, r) ==
  /\ account[s].role # r
  /\ account' = [account EXCEPT ![s].role = r]
  /\ UNCHANGED <<now, plan, login, failures, portal, tokens>>

RevokeStaff(s) ==
  /\ account' = [account EXCEPT ![s].cutoff = now]
  /\ UNCHANGED <<now, plan, login, failures, portal, tokens>>

\* Mutant of Alike: failures are counted by email alone.
SameEmail(l, m) == plan[l].email = plan[m].email

\* The failures that count against an attempt: its email's, and its address's.
Alike(l, m) ==
  \/ plan[l].email = plan[m].email
  \/ plan[l].ip # NoIp /\ plan[l].ip = plan[m].ip

Recent(l) == {f \in failures : f.at > now - Window /\ Alike(l, f.login)}

At(l, s, role) == login' = [login EXCEPT ![l] = [stage |-> s, role |-> role]]

\* The form is disabled while an answer is awaited; the limit is asked first.
Submit(l) ==
  /\ plan[l] # None /\ login[l].stage = "idle"
  /\ \A m \in Logins :
       m # l /\ plan[m] # None /\ plan[m].browser = plan[l].browser
         => login[m].stage \in {"idle", "ended"}
  /\ At(l, IF Cardinality(Recent(l)) >= MaxFailures THEN "ended" ELSE "compare", None)
  /\ UNCHANGED <<now, plan, account, failures, portal, tokens>>

\* One read of the account and a comparison; an unknown email is hashed as well.
Compare(l, right) ==
  LET s == plan[l].email
  IN  /\ login[l].stage = "compare"
      /\ IF s \in Staff /\ right /\ account[s].active
         THEN At(l, "sign", account[s].role)
         ELSE At(l, "fail", None)
      /\ UNCHANGED <<now, plan, account, failures, portal, tokens>>

FailLogin(l) ==
  /\ login[l].stage = "fail"
  /\ failures' = failures \cup {[login |-> l, at |-> now]}
  /\ At(l, "ended", None)
  /\ UNCHANGED <<now, plan, account, portal, tokens>>

\* The cookie leaves with the answer, whatever becomes of last_login_at and the
\* audit entry.
SignIn(l) ==
  /\ login[l].stage = "sign"
  /\ tokens' = tokens \cup {[class |-> "staff", sub |-> plan[l].email,
                             role |-> login[l].role, iat |-> Second(now), mintedAt |-> now]}
  /\ At(l, "ended", None)
  /\ UNCHANGED <<now, plan, account, failures, portal>>

\* Signing out forgets the cookie; a copy of it would go on working.
SignOut(t) ==
  /\ t \in tokens /\ t.class = "staff"
  /\ tokens' = tokens \ {t}
  /\ UNCHANGED <<now, plan, signing, portal>>

\* The role in the database wins over the role in the token.
StaffRole(t) == account[t.sub].role

\* requireStaff(minimum): one read, on every request.
Admits(t, minimum) ==
  /\ t.class = "staff" /\ Fresh(t, StaffTtl)
  /\ account[t.sub].active
  /\ ~ RevokedBy(t.iat, account[t.sub].cutoff)
  /\ RoleAtLeast(StaffRole(t), minimum)

-----------------------------------------------------------------------------
(* The portal                                                              *)

Resolve(p) ==
  LET ends == {q \in ChainFrom(p, mergedInto, MaxMergeDepth, None) : mergedInto[q] = None}
  IN  IF ends = {} THEN None ELSE CHOOSE q \in ends : TRUE

\* The guards of mergePrincipals.
MayFold(a, s) == a # s /\ mergedInto[a] = None /\ Resolve(s) \notin {None, a}

Fold(a, s) ==
  /\ MayFold(a, s)
  /\ mergedInto' = [mergedInto EXCEPT ![a] = s]
  /\ UNCHANGED <<now, plan, signing, cutoff, visit, tokens>>

RevokePerson(p) ==
  /\ cutoff' = [cutoff EXCEPT ![p] = now]
  /\ UNCHANGED <<now, plan, signing, mergedInto, visit, tokens>>

\* signPrincipalToken, at the end of a verification or a selection.
IssueToken(p) ==
  /\ Cardinality(tokens) < MaxTokens
  /\ tokens' = tokens \cup {[class |-> "principal", sub |-> p, iat |-> Second(now), mintedAt |-> now]}
  /\ UNCHANGED <<now, plan, signing, portal>>

Barred(t) == {p \in People : cutoff[p] # Never /\ t.mintedAt <= cutoff[p]}

\* requirePrincipal, first statement: the token and its own row.  barred notes
\* whom revocation kept out when the request arrived.
Present(v, t) ==
  /\ visit[v] = Idle
  /\ visit' = [visit EXCEPT ![v] =
       [stage  |-> IF /\ t.class = "principal" /\ Fresh(t, PrincipalTtl)
                      /\ ~ RevokedBy(t.iat, cutoff[t.sub]) THEN "resolve" ELSE "refused",
        token  |-> t, as |-> None, barred |-> Barred(t)]]
  /\ UNCHANGED <<now, plan, signing, cutoff, mergedInto, tokens>>

\* Second statement: the surviving identity.
FollowChain(v) ==
  LET t   == visit[v].token
      end == Resolve(t.sub)
  IN  /\ visit[v].stage = "resolve"
      /\ visit' = [visit EXCEPT ![v].as = end, ![v].stage =
           IF end = None THEN "refused" ELSE IF end = t.sub THEN "admitted" ELSE "survivor"]
      /\ UNCHANGED <<now, plan, signing, cutoff, mergedInto, tokens>>

\* Mutant of SurvivorCutoff: the survivor's cutoff is not read.
OwnCutoff(v) == cutoff[visit[v].token.sub]

SurvivorCutoff(v) == cutoff[visit[v].as]

\* Third: the survivor's own cutoff applies too.
CheckSurvivor(v) ==
  /\ visit[v].stage = "survivor"
  /\ visit' = [visit EXCEPT ![v].stage =
       IF RevokedBy(visit[v].token.iat, SurvivorCutoff(v)) THEN "refused" ELSE "admitted"]
  /\ UNCHANGED <<now, plan, signing, cutoff, mergedInto, tokens>>

-----------------------------------------------------------------------------
StaffStep ==
  \/ \E s \in Staff : Deactivate(s) \/ RevokeStaff(s) \/ \E r \in Roles : ChangeRole(s, r)
  \/ \E l \in Logins : Submit(l) \/ FailLogin(l) \/ SignIn(l)
                         \/ \E right \in BOOLEAN : Compare(l, right)
  \/ \E t \in tokens : SignOut(t)

PortalStep ==
  \/ \E a, s \in People : Fold(a, s)
  \/ \E p \in People : RevokePerson(p) \/ IssueToken(p)
  \/ \E v \in Visits : FollowChain(v) \/ CheckSurvivor(v) \/ \E t \in tokens : Present(v, t)

Next == Tick \/ (plan # NoAttempt /\ StaffStep) \/ (plan = NoAttempt /\ PortalStep)

Spec == Init /\ [][Next]_vars

-----------------------------------------------------------------------------
(* Properties                                                              *)

StaffTokens == {t \in tokens : t.class = "staff"}

\* Revocation is exact, although a token only says in which second it was minted:
\* a session minted no later than the cutoff of its account is not let in, nor is
\* one whose account was closed or lowered since; whoever signs in again in a
\* later second is.
RevocationIsExact ==
  \A t \in StaffTokens :
    LET s == account[t.sub]
    IN  /\ \A minimum \in Roles :
             Admits(t, minimum) =>
               t.mintedAt > s.cutoff /\ s.active /\ RoleAtLeast(s.role, minimum)
        /\ s.active /\ Fresh(t, StaffTtl)
             /\ (s.cutoff = Never \/ Second(t.mintedAt) > Second(s.cutoff))
             => Admits(t, s.role)

FailuresOf(ls) == {f \in failures : f.at > now - Window /\ f.login \in ls}

Attempts == {l \in Logins : plan[l] # None}

\* However attempts interleave, an email or an address fails MAX_FAILURES times
\* in the window, and at most once more for every other browser at work.
FailuresBounded ==
  \A l \in Attempts :
    LET bound == MaxFailures + Cardinality(Browsers) - 1
    IN  /\ Cardinality(FailuresOf({m \in Attempts : plan[m].email = plan[l].email})) <= bound
        /\ plan[l].ip # NoIp =>
             Cardinality(FailuresOf({m \in Attempts : plan[m].ip = plan[l].ip})) <= bound

\* A token minted before its own subject was revoked, or the identity that it is
\* let in as, stays out, whatever is merged while the request runs.
PortalRevocationHolds ==
  \A v \in Visits :
    visit[v].stage = "admitted" =>
      visit[v].token.sub \notin visit[v].barred /\ visit[v].as \notin visit[v].barred

===============================================================================
