---------------------------- MODULE SessionsProofs ----------------------------
(***************************************************************************)
(* Revocation is exact and failures are bounded: theorems about Sessions   *)
(* for any accounts, browsers, people, lifetimes and limits.               *)
(***************************************************************************)
EXTENDS Sessions, MergeChainsProofs, FiniteSetTheorems, TLAPS

-----------------------------------------------------------------------------
(* Seconds                                                                 *)

\* A window starts at or before the instant it counts, and is left after it.
LEMMA DivBounds ==
  ASSUME NEW t \in Nat, NEW n \in Nat \ {0}
  PROVE  t \div n \in Nat /\ (t \div n) * n <= t /\ t < (t \div n) * n + n
OBVIOUS

\* An instant of a window lies before the start of any later window.
LEMMA LaterProduct ==
  ASSUME NEW i \in Nat, NEW j \in Nat, NEW c \in Nat, NEW n \in Nat \ {0},
         j > i, c < i * n + n
  PROVE  j * n > c
<1>1. j >= i + 1
  OBVIOUS
<1>2. j * n >= (i + 1) * n
  BY <1>1
<1>3. (i + 1) * n = i * n + n
  OBVIOUS
<1> QED
  BY <1>2, <1>3

\* The second of a tick begins no later than the tick.
LEMMA SecondOf ==
  ASSUME NEW t \in Clock
  PROVE  /\ Second(t) \in Clock
         /\ Second(t) * TicksPerSecond <= t
         /\ t < Second(t) * TicksPerSecond + TicksPerSecond
<1>1. t \in Nat /\ TicksPerSecond \in Nat \ {0} /\ MaxClock \in Nat
  BY SessionsAssumption DEF Clock
<1>2. /\ Second(t) \in Nat /\ Second(t) * TicksPerSecond <= t
      /\ t < Second(t) * TicksPerSecond + TicksPerSecond
  BY <1>1, DivBounds DEF Second
<1>3. Second(t) <= Second(t) * TicksPerSecond
  BY <1>1, <1>2
<1> QED
  BY <1>1, <1>2, <1>3 DEF Clock

\* A token minted no later than a cutoff is revoked by it, and one minted in a
\* later second is not.
LEMMA CutoffIsExact ==
  ASSUME NEW m \in Clock, NEW c \in Clock
  PROVE  /\ m <= c => RevokedBy(Second(m), c)
         /\ Second(m) > Second(c) => ~ RevokedBy(Second(m), c)
<1>1. m \in Nat /\ c \in Nat /\ TicksPerSecond \in Nat \ {0}
  BY SessionsAssumption DEF Clock
<1>2. /\ Second(m) \in Nat /\ Second(m) * TicksPerSecond <= m
      /\ Second(c) \in Nat /\ c < Second(c) * TicksPerSecond + TicksPerSecond
  BY SecondOf DEF Clock
<1>3. Second(m) * TicksPerSecond \in Nat
  BY <1>1, <1>2
<1>4. m <= c => RevokedBy(Second(m), c)
  BY <1>1, <1>2, <1>3 DEF RevokedBy, Never
<1>5. Second(m) > Second(c) => Second(m) * TicksPerSecond > c
  BY <1>1, <1>2, LaterProduct
<1> QED
  BY <1>1, <1>3, <1>4, <1>5 DEF RevokedBy

-----------------------------------------------------------------------------
(* Type correctness                                                        *)

Pending(l) == login[l].stage \in {"compare", "fail", "sign"}

\* Sign-ins under way are attempts that were planned, one to a browser, and one
\* that is about to succeed is of an account.
LoginsSound ==
  /\ \A l \in Logins :
       /\ Pending(l) => plan[l] # None
       /\ login[l].stage = "sign" => login[l].role \in Roles /\ plan[l].email \in Staff
  /\ \A l, m \in Logins :
       Pending(l) /\ Pending(m) /\ plan[l].browser = plan[m].browser => l = m

\* A token tells the second it was minted in, and nothing is minted in the
\* future.
Dated(t) == t \in Token /\ t.iat = Second(t.mintedAt) /\ t.mintedAt <= now

TokensSound == \A t \in tokens : Dated(t)

\* A request past its first statement carries a person's token; whom revocation
\* kept out when it arrived it still keeps out, and the subject is not of them,
\* nor is the survivor it has been let in as.
VisitSound(v) ==
  visit[v].stage \notin {"idle", "refused"} =>
    /\ Dated(visit[v].token) /\ visit[v].token.class = "principal"
    /\ visit[v].token.sub \notin visit[v].barred
    /\ visit[v].barred \subseteq Barred(visit[v].token)
    /\ visit[v].stage = "admitted" => visit[v].as \notin visit[v].barred

VisitsSound ==
  /\ \A p \in People : cutoff[p] <= now
  /\ \A v \in Visits : VisitSound(v)

\* A person resolves to a person or to nobody.
LEMMA ResolveType ==
  ASSUME TypeOK, NEW p \in People
  PROVE  Resolve(p) \in People \cup {None}
<1>1. ChainFrom(p, mergedInto, MaxMergeDepth, None) \subseteq People
  BY ChainStays, SessionsAssumption DEF TypeOK
<1> QED
  <2> DEFINE ends == {q \in ChainFrom(p, mergedInto, MaxMergeDepth, None) : mergedInto[q] = None}
  <2>1. Resolve(p) = IF ends = {} THEN None ELSE CHOOSE q \in ends : TRUE
    BY DEF Resolve
  <2>2. ends \subseteq People
    BY <1>1
  <2> QED
    BY <2>1, <2>2

\* What staff do keeps the types.
LEMMA StaffTypes ==
  ASSUME TypeOK, LoginsSound, StaffStep
  PROVE  TypeOK'
<1> USE SessionsAssumption DEF signing, portal, At
<1>1. ASSUME NEW s \in Staff, Deactivate(s) \/ RevokeStaff(s) \/ \E r \in Roles : ChangeRole(s, r)
      PROVE  TypeOK'
  <2> DEFINE Row == [role : Roles, active : BOOLEAN, cutoff : Clock \cup {Never}]
  <2>1. account[s] \in Row /\ now \in Clock
    BY DEF TypeOK
  <2>2. \A r \in Roles : [account[s] EXCEPT !.role = r] \in Row
    BY <2>1
  <2>3. [account[s] EXCEPT !.active = FALSE] \in Row /\ [account[s] EXCEPT !.cutoff = now] \in Row
    BY <2>1
  <2>4. \E row \in Row : account' = [account EXCEPT ![s] = row]
    BY <1>1, <2>2, <2>3 DEF Deactivate, RevokeStaff, ChangeRole
  <2>5. account' \in [Staff -> Row]
    BY <2>4 DEF TypeOK
  <2> QED
    BY <1>1, <2>5 DEF Deactivate, RevokeStaff, ChangeRole, TypeOK
<1>2. ASSUME NEW l \in Logins, Submit(l)
      PROVE  TypeOK'
  BY <1>2 DEF Submit, TypeOK
<1>3. ASSUME NEW l \in Logins, FailLogin(l)
      PROVE  TypeOK'
  BY <1>3 DEF FailLogin, TypeOK
<1>4. ASSUME NEW l \in Logins, SignIn(l)
      PROVE  TypeOK'
  <2>1. [class |-> "staff", sub |-> plan[l].email, role |-> login[l].role,
         iat |-> Second(now), mintedAt |-> now] \in Token
    <3>1. /\ plan[l].email \in Staff /\ login[l].role \in Roles
          /\ now \in Clock /\ Second(now) \in Clock
      BY <1>4, SecondOf DEF SignIn, LoginsSound, TypeOK
    <3> QED
      BY <3>1 DEF Token
  <2> QED
    <3>1. tokens' \subseteq Token
      BY <1>4, <2>1 DEF SignIn, TypeOK
    <3>2. login' \in [Logins -> [stage : {"idle", "compare", "fail", "sign", "ended"},
                                 role : Roles \cup {None}]]
      BY <1>4 DEF SignIn, TypeOK
    <3> QED
      BY <1>4, <3>1, <3>2 DEF SignIn, TypeOK
<1>5. ASSUME NEW l \in Logins, NEW right \in BOOLEAN, Compare(l, right)
      PROVE  TypeOK'
  BY <1>5 DEF Compare, TypeOK
<1>6. ASSUME NEW t \in tokens, SignOut(t)
      PROVE  TypeOK'
  BY <1>6 DEF SignOut, TypeOK
<1> QED
  BY <1>1, <1>2, <1>3, <1>4, <1>5, <1>6 DEF StaffStep

\* What the portal does keeps the types.
LEMMA PortalTypes ==
  ASSUME TypeOK, VisitsSound, PortalStep
  PROVE  TypeOK'
<1> USE SessionsAssumption DEF signing, portal
<1>1. ASSUME NEW a \in People, NEW s \in People, Fold(a, s)
      PROVE  TypeOK'
  BY <1>1 DEF Fold, TypeOK
<1>2. ASSUME NEW p \in People, RevokePerson(p)
      PROVE  TypeOK'
  BY <1>2 DEF RevokePerson, TypeOK
<1>3. ASSUME NEW p \in People, IssueToken(p)
      PROVE  TypeOK'
  <2>1. [class |-> "principal", sub |-> p, iat |-> Second(now), mintedAt |-> now] \in Token
    BY SecondOf DEF TypeOK, Token
  <2> QED
    BY <1>3, <2>1 DEF IssueToken, TypeOK
<1>4. ASSUME NEW v \in Visits, FollowChain(v)
      PROVE  TypeOK'
  <2>1. visit[v].token \in Token /\ visit[v].token.class = "principal"
    BY <1>4 DEF FollowChain, VisitsSound, VisitSound, Dated
  <2>2. Resolve(visit[v].token.sub) \in People \cup {None}
    BY <2>1, ResolveType DEF Token
  <2> QED
    BY <1>4, <2>2 DEF FollowChain, TypeOK
<1>5. ASSUME NEW v \in Visits, CheckSurvivor(v)
      PROVE  TypeOK'
  <2> DEFINE s == IF RevokedBy(visit[v].token.iat, SurvivorCutoff(v)) THEN "refused" ELSE "admitted"
  <2>1. visit' = [visit EXCEPT ![v].stage = s] /\ s \in {"admitted", "refused"}
    BY <1>5 DEF CheckSurvivor
  <2> HIDE DEF s
  <2>2. visit' \in [Visits ->
          [stage : {"idle", "resolve", "survivor", "admitted", "refused"},
           token : Token \cup {NoToken}, as : People \cup {None}, barred : SUBSET People]]
    BY <2>1 DEF TypeOK
  <2> QED
    BY <1>5, <2>2 DEF CheckSurvivor, TypeOK
<1>6. ASSUME NEW v \in Visits, NEW t \in tokens, Present(v, t)
      PROVE  TypeOK'
  BY <1>6 DEF Present, Barred, TypeOK
<1> QED
  BY <1>1, <1>2, <1>3, <1>4, <1>5, <1>6 DEF PortalStep

\* Every step keeps the types.
LEMMA TypeStep ==
  ASSUME TypeOK, LoginsSound, VisitsSound, [Next]_vars
  PROVE  TypeOK'
<1>1. CASE Tick \/ UNCHANGED vars
  BY <1>1, SessionsAssumption DEF Tick, vars, signing, portal, TypeOK, Clock
<1> QED
  BY <1>1, StaffTypes, PortalTypes DEF Next

\* What a login in progress has read stays true while it is under way.
LEMMA LoginsStep ==
  ASSUME TypeOK, LoginsSound, [Next]_vars
  PROVE  LoginsSound'
<1> USE DEF signing, portal
<1>1. CASE UNCHANGED <<plan, login>>
  BY <1>1 DEF LoginsSound, Pending
<1>2. ASSUME NEW l \in Logins, Submit(l)
      PROVE  LoginsSound'
  <2>1. /\ plan[l] # None /\ plan' = plan
        /\ \A m \in Logins : m # l => login'[m] = login[m]
        /\ login'[l].stage \in {"ended", "compare"}
    BY <1>2 DEF Submit, At, TypeOK
  <2>2. \A m \in Logins : m # l /\ Pending(m) => plan[m].browser # plan[l].browser
    BY <1>2 DEF Submit, LoginsSound, Pending
  <2> QED
    BY <2>1, <2>2 DEF LoginsSound, Pending
<1>3. ASSUME NEW l \in Logins, NEW right \in BOOLEAN, FailLogin(l) \/ SignIn(l) \/ Compare(l, right)
      PROVE  LoginsSound'
  <2>1. /\ Pending(l) /\ plan' = plan
        /\ \A m \in Logins : m # l => login'[m] = login[m]
    BY <1>3 DEF FailLogin, SignIn, Compare, At, Pending, TypeOK
  <2>2. login'[l].stage = "sign" => login'[l].role \in Roles /\ plan[l].email \in Staff
    BY <1>3 DEF FailLogin, SignIn, Compare, At, TypeOK
  <2> QED
    BY <2>1, <2>2 DEF LoginsSound, Pending
<1>4. CASE Tick \/ PortalStep \/ UNCHANGED vars
  BY <1>1, <1>4 DEF Tick, PortalStep, Fold, RevokePerson, IssueToken, FollowChain,
                    CheckSurvivor, Present, vars
<1>5. CASE StaffStep
  BY <1>1, <1>2, <1>3, <1>5 DEF StaffStep, Deactivate, RevokeStaff, ChangeRole, SignOut
<1> QED
  BY <1>4, <1>5 DEF Next

\* Staff sign in, or people visit: neither moves the clock or the other's state.
LEMMA Frames ==
  ASSUME [Next]_vars
  PROVE  \/ Tick \/ UNCHANGED vars
         \/ StaffStep /\ UNCHANGED <<now, plan, portal>>
         \/ PortalStep /\ UNCHANGED <<now, plan, signing>>
<1>1. StaffStep => UNCHANGED <<now, plan, portal>>
  BY DEF StaffStep, Deactivate, RevokeStaff, ChangeRole, Submit, FailLogin, SignIn, Compare,
         SignOut, portal
<1>2. PortalStep => UNCHANGED <<now, plan, signing>>
  BY DEF PortalStep, Fold, RevokePerson, IssueToken, FollowChain, CheckSurvivor, Present, signing
<1> QED
  BY <1>1, <1>2 DEF Next

\* The token a sign-in, or a visit to the portal, is given.
LEMMA NewTokens ==
  ASSUME TypeOK, LoginsSound, [Next]_vars
  PROVE  \A t \in tokens' \ tokens : now' = now /\ Dated(t)
<1>1. ASSUME NEW l \in Logins, SignIn(l)
      PROVE  \A t \in tokens' \ tokens : Dated(t)
  <2> DEFINE t == [class |-> "staff", sub |-> plan[l].email, role |-> login[l].role,
                   iat |-> Second(now), mintedAt |-> now]
  <2>1. /\ plan[l].email \in Staff /\ login[l].role \in Roles
        /\ now \in Clock /\ Second(now) \in Clock
    BY <1>1, SecondOf DEF SignIn, LoginsSound, TypeOK
  <2>2. Dated(t)
    BY <2>1 DEF Dated, Token, Clock
  <2>3. tokens' = tokens \cup {t}
    BY <1>1 DEF SignIn
  <2> QED
    BY <2>2, <2>3
<1>2. ASSUME NEW p \in People, IssueToken(p)
      PROVE  \A t \in tokens' \ tokens : Dated(t)
  <2> DEFINE t == [class |-> "principal", sub |-> p, iat |-> Second(now), mintedAt |-> now]
  <2>1. now \in Clock /\ Second(now) \in Clock
    BY SecondOf DEF TypeOK
  <2>2. Dated(t)
    BY <2>1 DEF Dated, Token, Clock
  <2>3. tokens' = tokens \cup {t}
    BY <1>2 DEF IssueToken
  <2> QED
    BY <2>2, <2>3
<1>3. CASE StaffStep /\ UNCHANGED <<now, plan, portal>>
  BY <1>1, <1>3 DEF StaffStep, Deactivate, RevokeStaff, ChangeRole, Submit, FailLogin, Compare,
                    SignOut
<1>4. CASE PortalStep /\ UNCHANGED <<now, plan, signing>>
  BY <1>2, <1>4 DEF PortalStep, Fold, RevokePerson, FollowChain, CheckSurvivor, Present
<1> QED
  BY <1>3, <1>4, Frames DEF Tick, vars

\* Time only moves on.
LEMMA NowGrows ==
  ASSUME TypeOK, [Next]_vars
  PROVE  now \in Nat /\ now' \in Nat /\ now <= now'
BY Frames, SessionsAssumption DEF Tick, vars, TypeOK, Clock

\* A token issued in the past stays so.
LEMMA DatedStays ==
  ASSUME TypeOK, [Next]_vars, NEW t, Dated(t)
  PROVE  Dated(t)'
BY NowGrows DEF Dated, Token, Clock

\* A token goes on naming an account, an epoch that was, and its time.
LEMMA TokensStep ==
  ASSUME TypeOK, LoginsSound, TokensSound, [Next]_vars
  PROVE  TokensSound'
BY NewTokens, DatedStays DEF TokensSound

\* A person's cutoff is the time it was set at, and only moves on.
LEMMA CutoffsGrow ==
  ASSUME TypeOK, VisitsSound, [Next]_vars, NEW p \in People
  PROVE  /\ cutoff[p] <= now /\ cutoff'[p] <= now'
         /\ cutoff[p] <= cutoff'[p] /\ (cutoff'[p] = Never => cutoff[p] = Never)
<1>1. now \in Nat /\ now' \in Nat /\ now <= now'
  BY NowGrows
<1>2. cutoff[p] \in Clock \cup {Never} /\ cutoff[p] <= now
  BY DEF TypeOK, VisitsSound
<1>3. CASE UNCHANGED cutoff
  BY <1>1, <1>2, <1>3 DEF Clock, Never
<1>4. ASSUME NEW q \in People, RevokePerson(q)
      PROVE  cutoff'[p] \in {cutoff[p], now}
  BY <1>4 DEF RevokePerson, TypeOK
<1>5. (\E q \in People : RevokePerson(q)) \/ UNCHANGED cutoff
  BY Frames DEF Tick, vars, portal, PortalStep, Fold, IssueToken, FollowChain,
                CheckSurvivor, Present
<1> QED
  BY <1>1, <1>2, <1>3, <1>4, <1>5 DEF Clock, Never

\* Whom revocation keeps out it goes on keeping out.
LEMMA BarredGrows ==
  ASSUME TypeOK, LoginsSound, VisitsSound, [Next]_vars, NEW t, Dated(t)
  PROVE  Barred(t) \subseteq Barred(t)'
<1>1. t.mintedAt \in Int
  BY DEF Dated, Token, Clock
<1>2. \A p \in People : cutoff[p] \in Int /\ cutoff'[p] \in Int
  BY TypeStep DEF TypeOK, Clock, Never
<1> QED
  BY <1>1, <1>2, CutoffsGrow DEF Barred

\* A token is refused where the person is one whom revocation keeps out.
LEMMA BarredIsRevoked ==
  ASSUME TypeOK, NEW t, Dated(t), NEW p \in People, ~ RevokedBy(t.iat, cutoff[p])
  PROVE  p \notin Barred(t)
<1>1. t.mintedAt \in Clock /\ t.iat = Second(t.mintedAt)
  BY DEF Dated, Token
<1>2. CASE cutoff[p] = Never
  BY <1>2 DEF Barred
<1>3. CASE cutoff[p] \in Clock
  BY <1>1, <1>3, CutoffIsExact DEF Barred
<1> QED
  BY <1>2, <1>3 DEF TypeOK

\* What a visit has resolved it still may answer for.
LEMMA VisitsStep ==
  ASSUME TypeOK, LoginsSound, TokensSound, VisitsSound, [Next]_vars
  PROVE  VisitsSound'
<1>1. ASSUME NEW v \in Visits, visit'[v] = visit[v]
      PROVE  VisitSound(v)'
  BY <1>1, BarredGrows, DatedStays DEF VisitsSound, VisitSound
<1>2. ASSUME NEW v \in Visits, NEW t \in tokens, Present(v, t)
      PROVE  VisitSound(v)'
  <2>1. /\ visit'[v].token = t /\ visit'[v].barred = Barred(t)
        /\ visit'[v].stage \in {"resolve", "refused"}
        /\ visit'[v].stage = "resolve" =>
             t.class = "principal" /\ ~ RevokedBy(t.iat, cutoff[t.sub])
    BY <1>2 DEF Present, TypeOK
  <2>2. Dated(t) /\ Dated(t)' /\ Barred(t) \subseteq Barred(t)'
    BY BarredGrows, DatedStays DEF TokensSound
  <2>3. t.class = "principal" => t.sub \in People
    BY <2>2 DEF Dated, Token
  <2> QED
    BY <2>1, <2>2, <2>3, BarredIsRevoked DEF VisitSound
<1>3. ASSUME NEW v \in Visits, FollowChain(v)
      PROVE  VisitSound(v)'
  <2>1. PICK t : t = visit[v].token
    OBVIOUS
  <2>2. /\ visit[v].stage = "resolve" /\ VisitSound(v)
        /\ visit'[v].token = t /\ visit'[v].barred = visit[v].barred
        /\ visit'[v].stage \in {"refused", "survivor", "admitted"}
        /\ visit'[v].stage = "admitted" => visit'[v].as = t.sub
    BY <1>3, <2>1 DEF FollowChain, TypeOK, VisitsSound
  <2>3. Dated(t)' /\ Barred(t) \subseteq Barred(t)'
    BY <2>1, <2>2, BarredGrows, DatedStays DEF VisitSound
  <2> QED
    BY <2>1, <2>2, <2>3 DEF VisitSound
<1>4. ASSUME NEW v \in Visits, CheckSurvivor(v)
      PROVE  VisitSound(v)'
  <2>1. PICK t : t = visit[v].token
    OBVIOUS
  <2>2. /\ visit[v].stage = "survivor" /\ VisitSound(v)
        /\ visit'[v].token = t /\ visit'[v].barred = visit[v].barred
        /\ visit'[v].as = visit[v].as
        /\ visit'[v].stage \in {"refused", "admitted"}
        /\ visit'[v].stage = "admitted" => ~ RevokedBy(t.iat, cutoff[visit[v].as])
    BY <1>4, <2>1 DEF CheckSurvivor, SurvivorCutoff, TypeOK, VisitsSound
  <2>3. Dated(t) /\ Dated(t)' /\ Barred(t) \subseteq Barred(t)'
    BY <2>1, <2>2, BarredGrows, DatedStays DEF VisitSound
  <2>4. visit'[v].stage = "admitted" => visit[v].as \notin visit[v].barred
    <3>1. visit[v].barred \subseteq Barred(t) /\ visit[v].barred \subseteq People
      BY <2>1, <2>2 DEF VisitSound, TypeOK
    <3> QED
      BY <2>2, <2>3, <3>1, BarredIsRevoked
  <2> QED
    BY <2>1, <2>2, <2>3, <2>4 DEF VisitSound
<1>5. ASSUME NEW v \in Visits,
             FollowChain(v) \/ CheckSurvivor(v) \/ \E t \in tokens : Present(v, t)
      PROVE  VisitsSound'
  <2>1. \A w \in Visits : w # v => visit'[w] = visit[w]
    BY <1>5 DEF FollowChain, CheckSurvivor, Present, TypeOK
  <2> QED
    BY <1>1, <1>2, <1>3, <1>4, <1>5, <2>1, CutoffsGrow DEF VisitsSound
<1>6. CASE UNCHANGED visit
  BY <1>1, <1>6, CutoffsGrow DEF VisitsSound
<1> QED
  BY <1>5, <1>6, Frames DEF Tick, vars, portal, PortalStep, Fold, RevokePerson, IssueToken

SessionsInv == TypeOK /\ LoginsSound /\ TokensSound /\ VisitsSound

\* The invariant of the sessions always holds.
LEMMA Invariant == Spec => []SessionsInv
<1>1. Init => SessionsInv
  <2> SUFFICES ASSUME Init PROVE SessionsInv
    OBVIOUS
  <2>1. TypeOK
    <3>1. account \in [Staff -> [role : Roles, active : BOOLEAN, cutoff : Clock \cup {Never}]]
      BY DEF Init, Roles
    <3>2. Idle \in [stage : {"idle", "resolve", "survivor", "admitted", "refused"},
                    token : Token \cup {NoToken}, as : People \cup {None}, barred : SUBSET People]
      BY DEF Idle
    <3>3. now \in Clock
      BY SessionsAssumption DEF Init, Clock
    <3> QED
      BY <3>1, <3>2, <3>3 DEF Init, TypeOK
  <2>2. LoginsSound /\ TokensSound
    BY DEF Init, LoginsSound, Pending, TokensSound
  <2>3. VisitsSound
    BY DEF Init, VisitsSound, VisitSound, Idle, Never
  <2> QED
    BY <2>1, <2>2, <2>3 DEF SessionsInv
<1>2. SessionsInv /\ [Next]_vars => SessionsInv'
  BY TypeStep, LoginsStep, TokensStep, VisitsStep DEF SessionsInv
<1> QED
  BY <1>1, <1>2, PTL DEF Spec

\* Every reachable state is well typed.
THEOREM TypeCorrect == Spec => []TypeOK
BY Invariant, PTL DEF SessionsInv

-----------------------------------------------------------------------------
(* Revocation                                                              *)

\* A cookie says only in which second it was made, and yet no cookie as old as
\* its account's cutoff is let in, and every one of a later second is: the tie
\* that requireStaff counts as revoked is decided on the right side.
THEOREM RevocationExact == Spec => []RevocationIsExact
<1> SUFFICES ASSUME SessionsInv PROVE RevocationIsExact
  BY Invariant, PTL
<1> SUFFICES ASSUME NEW t \in StaffTokens
             PROVE  LET s == account[t.sub]
                    IN  /\ \A minimum \in Roles :
                             Admits(t, minimum) =>
                               t.mintedAt > s.cutoff /\ s.active /\ RoleAtLeast(s.role, minimum)
                        /\ s.active /\ Fresh(t, StaffTtl)
                             /\ (s.cutoff = Never \/ Second(t.mintedAt) > Second(s.cutoff))
                             => Admits(t, s.role)
  BY DEF RevocationIsExact
<1> DEFINE s == account[t.sub]
<1>1. t \in Token /\ t.class = "staff" /\ t.iat = Second(t.mintedAt)
  BY DEF StaffTokens, SessionsInv, TokensSound, Dated
<1>2. t.sub \in Staff /\ t.mintedAt \in Clock
  BY <1>1 DEF Token
<1>3. s.cutoff \in Clock \cup {Never} /\ s.role \in Roles
  BY <1>2 DEF SessionsInv, TypeOK
<1>4. ~ RevokedBy(t.iat, s.cutoff) => t.mintedAt > s.cutoff
  BY <1>1, <1>2, <1>3, CutoffIsExact DEF Never, Clock
<1>5. s.cutoff = Never \/ Second(t.mintedAt) > Second(s.cutoff) => ~ RevokedBy(t.iat, s.cutoff)
  BY <1>1, <1>2, <1>3, CutoffIsExact DEF RevokedBy
<1>6. RoleAtLeast(s.role, s.role)
  BY <1>3 DEF RoleAtLeast, Rank, Roles
<1>7. \A minimum \in Roles :
        Admits(t, minimum) =>
          t.mintedAt > s.cutoff /\ s.active /\ RoleAtLeast(s.role, minimum)
  BY <1>4 DEF Admits, StaffRole
<1>8. s.active /\ Fresh(t, StaffTtl) /\ (s.cutoff = Never \/ Second(t.mintedAt) > Second(s.cutoff))
        => Admits(t, s.role)
  BY <1>1, <1>5, <1>6 DEF Admits, StaffRole
<1> QED
  BY <1>7, <1>8

\* Nobody whom a revocation kept out when a request arrived is admitted by it,
\* whatever is merged or revoked between its three statements.
THEOREM PortalRevocation == Spec => []PortalRevocationHolds
<1>1. SessionsInv => PortalRevocationHolds
  BY DEF SessionsInv, VisitsSound, VisitSound, PortalRevocationHolds
<1> QED
  BY <1>1, Invariant, PTL

-----------------------------------------------------------------------------
(* Failed sign-ins                                                         *)

\* The attempts of ls that are under way.
Working(ls) == {l \in ls : Pending(l)}

\* Attempts that count against one another.
AllAlike(ls) == ls \subseteq Attempts /\ \A l, m \in ls : Alike(l, m)

\* Those that failed within the window and those that still may.
Tally(ls) ==
  Cardinality(FailuresOf(ls)) + Cardinality(Working(ls))
    <= MaxFailures + Cardinality(Browsers) - 1

Tallied == IsFiniteSet(failures) /\ \A ls \in SUBSET Logins : AllAlike(ls) => Tally(ls)

\* One attempt is under way in a browser.
LEMMA OnePerBrowser ==
  ASSUME plan \in Plans, LoginsSound, NEW ls \in SUBSET Logins
  PROVE  /\ IsFiniteSet(Working(ls))
         /\ Cardinality(Working(ls)) <= Cardinality(Browsers)
<1> DEFINE f == [l \in Working(ls) |-> plan[l].browser]
<1>1. f \in [Working(ls) -> Browsers]
  BY SessionsAssumption DEF Working, LoginsSound
<1>2. \A l, m \in Working(ls) : f[l] = f[m] => l = m
  BY DEF Working, LoginsSound
<1>3. f \in Injection(Working(ls), Browsers)
  BY <1>1, <1>2 DEF Injection, IsInjective
<1> QED
  BY <1>3, FS_Injection, SessionsAssumption

\* The failures in the window are finitely many where all of them are.
LEMMA FailuresFinite ==
  ASSUME IsFiniteSet(failures), NEW ls
  PROVE  IsFiniteSet(FailuresOf(ls))
BY FS_Subset DEF FailuresOf

\* A step that starts no attempt of ls and records no failure of its own leaves
\* the tally no higher.
LEMMA TallyShrinks ==
  ASSUME IsFiniteSet(failures), plan \in Plans, LoginsSound, NEW ls \in SUBSET Logins, Tally(ls),
         FailuresOf(ls)' \subseteq FailuresOf(ls), Working(ls)' \subseteq Working(ls)
  PROVE  Tally(ls)'
<1>1. /\ IsFiniteSet(FailuresOf(ls)) /\ IsFiniteSet(Working(ls))
  BY FailuresFinite, OnePerBrowser
<1>2. /\ Cardinality(FailuresOf(ls)') <= Cardinality(FailuresOf(ls))
      /\ Cardinality(Working(ls)') <= Cardinality(Working(ls))
      /\ Cardinality(FailuresOf(ls)') \in Nat /\ Cardinality(FailuresOf(ls)) \in Nat
      /\ Cardinality(Working(ls)') \in Nat /\ Cardinality(Working(ls)) \in Nat
  BY <1>1, FS_Subset, FS_CardinalityType
<1>3. Cardinality(Browsers) \in Nat /\ MaxFailures \in Nat
  BY FS_CardinalityType, SessionsAssumption
<1>4. Cardinality(FailuresOf(ls)) + Cardinality(Working(ls))
        <= MaxFailures + Cardinality(Browsers) - 1
  BY DEF Tally
<1>5. Cardinality(FailuresOf(ls)') + Cardinality(Working(ls)')
        <= MaxFailures + Cardinality(Browsers) - 1
  BY <1>2, <1>3, <1>4
<1> QED
  BY <1>5 DEF Tally

\* An attempt starts where fewer than MAX_FAILURES count against it, and then
\* every browser may be at work.
LEMMA TallySubmits ==
  ASSUME TypeOK, LoginsSound, LoginsSound', plan' = plan, IsFiniteSet(failures),
         NEW ls \in SUBSET Logins, AllAlike(ls), NEW l \in ls, Submit(l),
         login'[l].stage = "compare"
  PROVE  Tally(ls)'
<1>1. Cardinality(Recent(l)) < MaxFailures
  <2>1. Cardinality(Recent(l)) >= MaxFailures => login'[l].stage = "ended"
    BY DEF Submit, At, TypeOK
  <2>2. IsFiniteSet(Recent(l))
    BY FS_Subset DEF Recent
  <2> QED
    BY <2>1, <2>2, FS_CardinalityType, SessionsAssumption
<1>2. FailuresOf(ls)' \subseteq Recent(l) /\ IsFiniteSet(Recent(l))
  BY FS_Subset DEF FailuresOf, Recent, AllAlike, Submit
<1>3. /\ Cardinality(FailuresOf(ls)') <= Cardinality(Recent(l))
      /\ Cardinality(FailuresOf(ls)') \in Nat /\ Cardinality(Recent(l)) \in Nat
  BY <1>2, FS_Subset, FS_CardinalityType
<1>4. /\ IsFiniteSet(Working(ls)') /\ Cardinality(Working(ls)') <= Cardinality(Browsers)
  <2>1. plan' \in Plans
    BY DEF TypeOK
  <2>2. ASSUME plan' \in Plans, LoginsSound'
        PROVE  IsFiniteSet(Working(ls)') /\ Cardinality(Working(ls)') <= Cardinality(Browsers)
    <3> DEFINE f == [m \in Working(ls)' |-> plan'[m].browser]
    <3>1. f \in [Working(ls)' -> Browsers]
      BY <2>2, SessionsAssumption DEF Working, LoginsSound
    <3>2. \A m, n \in Working(ls)' : f[m] = f[n] => m = n
      BY <2>2 DEF Working, LoginsSound
    <3>3. f \in Injection(Working(ls)', Browsers)
      BY <3>1, <3>2 DEF Injection, IsInjective
    <3> QED
      BY <3>3, FS_Injection, SessionsAssumption
  <2> QED
    BY <2>1, <2>2
<1>5. /\ Cardinality(Working(ls)') \in Nat /\ Cardinality(Browsers) \in Nat /\ MaxFailures \in Nat
  BY <1>4, FS_CardinalityType, SessionsAssumption
<1>6. Cardinality(FailuresOf(ls)') + Cardinality(Working(ls)')
        <= MaxFailures + Cardinality(Browsers) - 1
  BY <1>1, <1>3, <1>4, <1>5
<1> QED
  BY <1>6 DEF Tally

\* A failure recorded is an attempt over.
LEMMA TallyFails ==
  ASSUME TypeOK, LoginsSound, IsFiniteSet(failures), NEW ls \in SUBSET Logins, Tally(ls),
         NEW l \in ls, FailLogin(l)
  PROVE  Tally(ls)'
<1> DEFINE f == [login |-> l, at |-> now]
<1>1. FailuresOf(ls)' \subseteq FailuresOf(ls) \cup {f}
  BY DEF FailuresOf, FailLogin
<1>2. l \in Working(ls) /\ Working(ls)' \subseteq Working(ls) \ {l}
  BY DEF Working, Pending, FailLogin, At, TypeOK
<1>3. IsFiniteSet(FailuresOf(ls)) /\ IsFiniteSet(Working(ls))
  BY FailuresFinite, OnePerBrowser DEF TypeOK
<1>4. /\ Cardinality(FailuresOf(ls)) \in Nat
      /\ Cardinality(FailuresOf(ls)') \in Nat
      /\ Cardinality(FailuresOf(ls)') <= Cardinality(FailuresOf(ls)) + 1
  <2>1. /\ IsFiniteSet(FailuresOf(ls) \cup {f})
        /\ Cardinality(FailuresOf(ls)) \in Nat
        /\ Cardinality(FailuresOf(ls) \cup {f}) <= Cardinality(FailuresOf(ls)) + 1
    <3>1. /\ IsFiniteSet(FailuresOf(ls) \cup {f})
          /\ Cardinality(FailuresOf(ls) \cup {f}) =
               IF f \in FailuresOf(ls) THEN Cardinality(FailuresOf(ls))
                                      ELSE Cardinality(FailuresOf(ls)) + 1
      BY <1>3, FS_AddElement
    <3>2. Cardinality(FailuresOf(ls)) \in Nat
      BY <1>3, FS_CardinalityType
    <3> QED
      BY <3>1, <3>2
  <2> QED
    BY <1>1, <2>1, FS_Subset, FS_CardinalityType
<1>5. /\ Cardinality(Working(ls)) \in Nat
      /\ Cardinality(Working(ls)') \in Nat
      /\ Cardinality(Working(ls)') + 1 <= Cardinality(Working(ls))
  <2>1. /\ IsFiniteSet(Working(ls) \ {l})
        /\ Cardinality(Working(ls)) \in Nat
        /\ Cardinality(Working(ls) \ {l}) = Cardinality(Working(ls)) - 1
    BY <1>2, <1>3, FS_RemoveElement, FS_CardinalityType
  <2>2. /\ Cardinality(Working(ls)') <= Cardinality(Working(ls) \ {l})
        /\ Cardinality(Working(ls)') \in Nat
    BY <1>2, <2>1, FS_Subset, FS_CardinalityType
  <2> QED
    BY <2>1, <2>2
<1>6. Cardinality(Browsers) \in Nat /\ MaxFailures \in Nat
  BY FS_CardinalityType, SessionsAssumption
<1>7. Cardinality(FailuresOf(ls)) + Cardinality(Working(ls))
        <= MaxFailures + Cardinality(Browsers) - 1
  BY DEF Tally
<1>8. Cardinality(FailuresOf(ls)') + Cardinality(Working(ls)')
        <= MaxFailures + Cardinality(Browsers) - 1
  BY <1>4, <1>5, <1>6, <1>7
<1> QED
  BY <1>8 DEF Tally

\* The tally of sign-ins that are alike stays below its limit.
LEMMA TalliedStep ==
  ASSUME SessionsInv, SessionsInv', Tallied, [Next]_vars
  PROVE  Tallied'
<1> USE DEF SessionsInv
<1>1. plan \in Plans /\ plan' = plan
  BY Frames DEF TypeOK, Tick, vars
<1>2. IsFiniteSet(failures')
  <2>1. failures' = failures \/ \E l \in Logins : failures' = failures \cup {[login |-> l, at |-> now]}
    BY Frames DEF Tick, vars, signing, StaffStep, Deactivate, RevokeStaff, ChangeRole, Submit,
                  FailLogin, SignIn, Compare, SignOut
  <2> QED
    BY <2>1, FS_AddElement DEF Tallied
<1>3. SUFFICES ASSUME NEW ls \in SUBSET Logins, AllAlike(ls)
               PROVE  Tally(ls)'
  BY <1>1, <1>2 DEF Tallied, AllAlike, Attempts, Alike
<1>4. Tally(ls) /\ IsFiniteSet(failures)
  BY <1>3 DEF Tallied
<1>5. CASE failures' = failures /\ Working(ls)' \subseteq Working(ls)
  <2>1. \A f \in failures : f.at \in Nat
    BY SessionsAssumption DEF TypeOK, Clock
  <2>2. now \in Nat /\ now' \in Nat /\ now <= now' /\ Window \in Nat
    BY NowGrows, SessionsAssumption
  <2>3. FailuresOf(ls)' \subseteq FailuresOf(ls)
    BY <1>5, <2>1, <2>2 DEF FailuresOf
  <2> QED
    BY <1>1, <1>4, <1>5, <2>3, TallyShrinks
<1>6. ASSUME NEW l \in Logins, Submit(l)
      PROVE  Tally(ls)'
  <2>1. /\ failures' = failures
        /\ \A m \in Logins : m # l => login'[m] = login[m]
        /\ login'[l].stage \in {"ended", "compare"}
    BY <1>6 DEF Submit, At, TypeOK
  <2>2. CASE l \in ls /\ login'[l].stage = "compare"
    BY <1>1, <1>3, <1>4, <1>6, <2>2, TallySubmits
  <2>3. CASE l \notin ls \/ login'[l].stage = "ended"
    BY <1>5, <2>1, <2>3 DEF Working, Pending
  <2> QED
    BY <2>1, <2>2, <2>3
<1>7. ASSUME NEW l \in Logins, FailLogin(l)
      PROVE  Tally(ls)'
  <2>1. CASE l \in ls
    BY <1>3, <1>4, <1>7, <2>1, TallyFails
  <2>2. CASE l \notin ls
    <3>1. Working(ls)' \subseteq Working(ls)
      BY <1>7, <2>2 DEF FailLogin, At, Working, Pending, TypeOK
    <3>2. FailuresOf(ls)' \subseteq FailuresOf(ls)
      BY <1>7, <2>2 DEF FailLogin, FailuresOf
    <3> QED
      BY <1>1, <1>4, <3>1, <3>2, TallyShrinks
  <2> QED
    BY <2>1, <2>2
<1>8. ASSUME NEW l \in Logins, NEW right \in BOOLEAN, SignIn(l) \/ Compare(l, right)
      PROVE  Tally(ls)'
  <2>1. failures' = failures /\ Working(ls)' \subseteq Working(ls)
    BY <1>8 DEF SignIn, Compare, At, Working, Pending, TypeOK
  <2> QED
    BY <1>5, <2>1
<1>9. CASE failures' = failures /\ login' = login
  BY <1>5, <1>9 DEF Working, Pending
<1> QED
  BY <1>6, <1>7, <1>8, <1>9, Frames
     DEF Tick, vars, signing, StaffStep, Deactivate, RevokeStaff, ChangeRole, SignOut

\* Nothing has failed, and nobody is at work.
LEMMA TalliedInit ==
  ASSUME Init
  PROVE  Tallied
<1>1. failures = {} /\ \A ls \in SUBSET Logins : FailuresOf(ls) = {} /\ Working(ls) = {}
  BY DEF Init, FailuresOf, Working, Pending
<1>2. /\ Cardinality({}) = 0 /\ IsFiniteSet({})
      /\ Cardinality(Browsers) \in Nat /\ MaxFailures \in Nat \ {0}
  BY FS_EmptySet, FS_CardinalityType, SessionsAssumption
<1> QED
  BY <1>1, <1>2 DEF Tallied, Tally

\* The limit is asked before the failure it bounds is recorded, so attempts that
\* are under way together may all pass it.  For any number of attempts, however
\* they interleave, an email or an address fails MAX_FAILURES times in the
\* window and at most once more for every other browser.
THEOREM FailuresAreBounded == Spec => []FailuresBounded
<1>1. Spec => []Tallied
  <2>1. SessionsInv /\ SessionsInv' /\ Tallied /\ [Next]_vars => Tallied'
    BY TalliedStep
  <2> QED
    BY <2>1, TalliedInit, Invariant, PTL DEF Spec
<1>2. SessionsInv /\ Tallied => FailuresBounded
  <2> SUFFICES ASSUME SessionsInv, Tallied, NEW l \in Attempts
               PROVE  LET bound == MaxFailures + Cardinality(Browsers) - 1
                      IN  /\ Cardinality(FailuresOf({m \in Attempts : plan[m].email = plan[l].email}))
                               <= bound
                          /\ plan[l].ip # NoIp =>
                               Cardinality(FailuresOf({m \in Attempts : plan[m].ip = plan[l].ip}))
                                 <= bound
    BY DEF FailuresBounded
  <2> DEFINE mail == {m \in Attempts : plan[m].email = plan[l].email}
             host == {m \in Attempts : plan[m].ip = plan[l].ip}
  <2>1. /\ AllAlike(mail) /\ mail \in SUBSET Logins
        /\ host \in SUBSET Logins /\ (plan[l].ip # NoIp => AllAlike(host))
    BY DEF AllAlike, Alike, Attempts
  <2>2. \A ls \in SUBSET Logins :
          AllAlike(ls) => Cardinality(FailuresOf(ls)) <= MaxFailures + Cardinality(Browsers) - 1
    <3> SUFFICES ASSUME NEW ls \in SUBSET Logins, AllAlike(ls)
                 PROVE  Cardinality(FailuresOf(ls)) <= MaxFailures + Cardinality(Browsers) - 1
      OBVIOUS
    <3>1. IsFiniteSet(FailuresOf(ls)) /\ IsFiniteSet(Working(ls))
      BY FailuresFinite, OnePerBrowser DEF Tallied, SessionsInv, TypeOK
    <3>2. /\ Cardinality(FailuresOf(ls)) \in Nat /\ Cardinality(Working(ls)) \in Nat
          /\ Cardinality(Browsers) \in Nat /\ MaxFailures \in Nat
      BY <3>1, FS_CardinalityType, SessionsAssumption
    <3>3. Cardinality(FailuresOf(ls)) + Cardinality(Working(ls))
            <= MaxFailures + Cardinality(Browsers) - 1
      BY DEF Tallied, Tally
    <3> QED
      BY <3>2, <3>3
  <2> QED
    BY <2>1, <2>2
<1> QED
  BY <1>1, <1>2, Invariant, PTL
================================================================================
