------------------------------ MODULE PublicProofs ------------------------------
(***************************************************************************)
(* What the public is promised: theorems about the one-time codes of the   *)
(* portal (PortalOtp) and about the screens of the public, the tablet on   *)
(* the counter and the page on which consent is withdrawn (PublicScreens), *)
(* for any number of requests, verifications, visitors and identities and  *)
(* any limits, whatever the order in which calls and answers land.         *)
(***************************************************************************)
EXTENDS PortalOtp, PublicScreens, MergeChainsProofs, FiniteSetTheorems, TLAPS

-----------------------------------------------------------------------------
(* The rows of otp_challenge                                               *)

Exists(c) == challenge[c] # NoRow

\* The four things that are written to a row.
Opened(r)        == [NoRow EXCEPT !.sentAt = clock, !.matched = found[r]]
Tried(row)       == [row EXCEPT !.attempts = @ + 1]
Closed(row)      == [row EXCEPT !.consumed = TRUE]
Accepted(row, b) == [row EXCEPT !.verified = TRUE, !.consumed = b]

\* Counting an attempt changes the count alone.
LEMMA TriedRow ==
  ASSUME NEW row \in Row, row.attempts < MaxAttempts
  PROVE  /\ Tried(row) \in Row
         /\ Tried(row).attempts = row.attempts + 1 /\ Tried(row).matched = row.matched
         /\ Tried(row).verified = row.verified /\ Tried(row).consumed = row.consumed
BY OtpAssumption DEF Row, Tried

\* Closing a challenge changes nothing but that.
LEMMA ClosedRow ==
  ASSUME NEW row \in Row
  PROVE  /\ Closed(row) \in Row /\ Closed(row).consumed
         /\ Closed(row).attempts = row.attempts /\ Closed(row).matched = row.matched
         /\ Closed(row).verified = row.verified
<1>1. Closed(row) \in Row /\ Closed(row).consumed
  BY DEF Row, Closed
<1>2. Closed(row).attempts = row.attempts /\ Closed(row).matched = row.matched
  BY DEF Row, Closed
<1>3. Closed(row).verified = row.verified
  BY DEF Row, Closed
<1> QED
  BY <1>1, <1>2, <1>3

\* Accepting a code marks it verified and keeps the count.
LEMMA AcceptedRow ==
  ASSUME NEW row \in Row, NEW b \in BOOLEAN
  PROVE  /\ Accepted(row, b) \in Row /\ Accepted(row, b).verified
         /\ Accepted(row, b).consumed = b
         /\ Accepted(row, b).attempts = row.attempts /\ Accepted(row, b).matched = row.matched
<1>1. Accepted(row, b) \in Row /\ Accepted(row, b).verified
  BY DEF Row, Accepted
<1>2. Accepted(row, b).consumed = b
  BY DEF Row, Accepted
<1>3. Accepted(row, b).attempts = row.attempts /\ Accepted(row, b).matched = row.matched
  BY DEF Row, Accepted
<1> QED
  BY <1>1, <1>2, <1>3

\* A new challenge starts with no attempt and knows whom it was sent to.
LEMMA OpenedRow ==
  ASSUME TypeOK, NEW r \in Requests
  PROVE  /\ Opened(r) \in Row
         /\ Opened(r).attempts = 0 /\ Opened(r).matched = found[r]
         /\ Opened(r).verified = FALSE /\ Opened(r).consumed = FALSE
<1>1. clock \in Clock /\ found[r] \in SUBSET People /\ 0 \in 0 .. MaxAttempts
  BY OtpAssumption DEF TypeOK
<1>2. Opened(r) \in Row
  BY <1>1 DEF Opened, NoRow, Row
<1>3. Opened(r).attempts = 0 /\ Opened(r).matched = found[r]
  BY DEF Opened, NoRow
<1>4. Opened(r).verified = FALSE /\ Opened(r).consumed = FALSE
  BY DEF Opened, NoRow
<1> QED
  BY <1>2, <1>3, <1>4

\* A challenge is not the absence of one.
LEMMA RowIsNoNoRow == ASSUME NEW row \in Row PROVE row # NoRow
BY DEF Row, NoRow, Clock

-----------------------------------------------------------------------------
(* The steps, by what they do to challenges, calls and tokens              *)

\* Nothing but the clock, the register, the audit log or the progress of a
\* request changes.
Elsewhere ==
  /\ \A r \in Requests : asking[r] = "ended" => asking'[r] = "ended"
  /\ UNCHANGED <<challenge, found, checking, on, claimed, chosen, compared, tokens>>

Resolved(r) ==
  /\ asking[r] = "resolve"
  /\ found' = [found EXCEPT ![r] = holders]
  /\ \A q \in Requests : asking[q] = "ended" => asking'[q] = "ended"
  /\ UNCHANGED <<challenge, checking, on, claimed, chosen, compared, tokens>>

Superseded ==
  /\ challenge' = [c \in Requests |->
                     IF Exists(c) THEN Closed(challenge[c]) ELSE NoRow]
  /\ \A q \in Requests : asking[q] = "ended" => asking'[q] = "ended"
  /\ UNCHANGED <<found, checking, on, claimed, chosen, compared, tokens>>

Inserted(r) ==
  /\ asking[r] = "insert" /\ asking' = [asking EXCEPT ![r] = "ended"]
  /\ challenge' = [challenge EXCEPT ![r] = Opened(r)]
  /\ UNCHANGED <<found, checking, on, claimed, chosen, compared, tokens>>

\* A call begins, fails or ends without writing to a challenge.
Aside(v) ==
  /\ \E s \in {"claim", "failed", "ended"} : Check(v, s)
  /\ \E c \in Requests : on' = [on EXCEPT ![v] = c]
  /\ UNCHANGED <<challenge, asking, found, claimed, chosen, compared, tokens>>

Claimed(v) ==
  LET c == on[v]
  IN  /\ checking[v] = "claim" /\ Check(v, "compare")
      /\ challenge[c] \in Row /\ challenge[c].attempts < MaxAttempts
      /\ challenge' = [challenge EXCEPT ![c] = Tried(challenge[c])]
      /\ claimed' = [claimed EXCEPT ![v] = Tried(challenge[c])]
      /\ UNCHANGED <<asking, found, on, chosen, compared, tokens>>

Compared(v) ==
  /\ checking[v] = "compare"
  /\ \E s \in {"redeem", "exhaust", "failed"} : Check(v, s)
  /\ compared' = [compared EXCEPT ![on[v]] = @ + 1]
  /\ UNCHANGED <<challenge, asking, found, on, claimed, chosen, tokens>>

Exhausted(v) ==
  /\ checking[v] = "exhaust" /\ Check(v, "failed")
  /\ challenge' = [challenge EXCEPT ![on[v]] = Closed(challenge[on[v]])]
  /\ UNCHANGED <<asking, found, on, claimed, chosen, compared, tokens>>

\* The code is accepted; several people remain to choose from.
Verified(v) ==
  LET c == on[v]
  IN  /\ checking[v] = "redeem" /\ Check(v, "ended")
      /\ challenge[c] \in Row /\ ~ challenge[c].consumed
      /\ challenge' = [challenge EXCEPT ![c] = Accepted(challenge[c], FALSE)]
      /\ chosen' = [chosen EXCEPT ![v] = {}]
      /\ UNCHANGED <<asking, found, on, claimed, compared, tokens>>

\* The code is accepted, for the only person it can be for.
Redeemed(v) ==
  LET c == on[v]
  IN  /\ checking[v] = "redeem" /\ Check(v, "mint")
      /\ challenge[c] \in Row /\ ~ challenge[c].consumed
      /\ challenge' = [challenge EXCEPT ![c] = Accepted(challenge[c], TRUE)]
      /\ \A p, q \in claimed[v].matched : p = q
      /\ chosen' = [chosen EXCEPT ![v] = claimed[v].matched]
      /\ UNCHANGED <<asking, found, on, claimed, compared, tokens>>

Selected(v, c, p) ==
  /\ checking[v] = "idle" /\ Check(v, "mint")
  /\ challenge[c] \in Row /\ ~ challenge[c].consumed /\ challenge[c].verified
  /\ p \in challenge[c].matched
  /\ challenge' = [challenge EXCEPT ![c] = Closed(challenge[c])]
  /\ on' = [on EXCEPT ![v] = c]
  /\ chosen' = [chosen EXCEPT ![v] = {p}]
  /\ UNCHANGED <<asking, found, claimed, compared, tokens>>

Minted(v) ==
  /\ checking[v] = "mint" /\ Check(v, "ended")
  /\ tokens' = tokens \cup {[by |-> v, challenge |-> on[v], person |-> p] : p \in chosen[v]}
  /\ UNCHANGED <<challenge, asking, found, on, claimed, chosen, compared>>

\* A call that has begun is about a challenge; one that has claimed an attempt,
\* about a challenge that was issued.
Begun ==
  \A v \in Verifications :
    /\ checking[v] # "idle" => on[v] \in Requests
    /\ checking[v] \in {"compare", "exhaust", "redeem"} => Exists(on[v])

\* The step of one call.
CallStep(v) ==
  \/ Aside(v) \/ Claimed(v) \/ Compared(v) \/ Exhausted(v) \/ Verified(v) \/ Redeemed(v)
  \/ \E c \in Requests, p \in People : Selected(v, c, p)
  \/ Minted(v)

\* What a request for a code may do.
LEMMA RequestCases ==
  ASSUME TypeOK, NEW r \in Requests, RequestStep(r)
  PROVE  Elsewhere \/ Resolved(r) \/ Superseded \/ Inserted(r)
<1>1. CASE Request(r)
  BY <1>1 DEF Request, Ask, Elsewhere, TypeOK
<1>2. CASE ResolveHolders(r)
  BY <1>2 DEF ResolveHolders, Ask, Resolved, TypeOK
<1>3. CASE Supersede(r)
  BY <1>3 DEF Supersede, Ask, Superseded, Exists, Closed, TypeOK
<1>4. CASE CountSent(r)
  BY <1>4 DEF CountSent, Ask, Elsewhere, TypeOK
<1>5. CASE InsertChallenge(r)
  BY <1>5 DEF InsertChallenge, Ask, Inserted, Opened, TypeOK
<1> QED
  BY <1>1, <1>2, <1>3, <1>4, <1>5 DEF RequestStep

\* What a verification, or its crash, may do.
LEMMA VerifyCases ==
  ASSUME TypeOK, Begun, NEW v \in Verifications, VerifyStep(v) \/ Crash(v)
  PROVE  CallStep(v)
<1>1. checking[v] # "idle" => on[v] \in Requests /\ challenge[on[v]] \in Row \cup {NoRow}
  BY DEF Begun, TypeOK
<1>2. on[v] \in Requests => on = [on EXCEPT ![v] = on[v]]
  BY DEF TypeOK
<1>3. CASE ClaimAttempt(v)
  <2>1. CASE AttemptLeft(on[v])
    <3>1. checking[v] = "claim" /\ challenge[on[v]] \in Row
      BY <1>1, <1>3, <2>1 DEF ClaimAttempt, AttemptLeft, Live
    <3> QED
      BY <1>3, <2>1, <3>1 DEF ClaimAttempt, AttemptLeft, Live, Claimed, Tried, CallStep
  <2>2. CASE ~ AttemptLeft(on[v])
    <3>1. on[v] \in Requests
      BY <1>1, <1>3 DEF ClaimAttempt
    <3> QED
      BY <1>2, <1>3, <2>2, <3>1 DEF ClaimAttempt, Aside, CallStep
  <2> QED
    BY <2>1, <2>2
<1>4. ASSUME NEW right \in BOOLEAN, Compare(v, right) PROVE CallStep(v)
  BY <1>4 DEF Compare, Compared, CallStep
<1>5. CASE Exhaust(v)
  BY <1>1, <1>5 DEF Exhaust, Exhausted, Closed, CallStep, TypeOK
<1>6. CASE Redeem(v)
  <2> DEFINE c == on[v]
             single == Cardinality(claimed[v].matched) = 1
  <2>1. c \in Requests /\ checking[v] = "redeem"
    BY <1>1, <1>6 DEF Redeem
  <2>2. CASE ~ Live(c)
    BY <1>2, <1>6, <2>1, <2>2 DEF Redeem, Redeemable, Aside, CallStep
  <2>3. CASE Live(c)
    <3>1. challenge[c] \in Row /\ ~ challenge[c].consumed
      BY <1>1, <2>1, <2>3 DEF Live
    <3>2. challenge' = [challenge EXCEPT ![c] = Accepted(challenge[c], single)]
      <4>1. challenge' = [challenge EXCEPT ![c].verified = TRUE, ![c].consumed = @ \/ single]
        BY <1>6, <2>3 DEF Redeem, Redeemable
      <4>2. challenge' = [challenge EXCEPT ![c] =
              [challenge[c] EXCEPT !.verified = TRUE, !.consumed = challenge[c].consumed \/ single]]
        BY <4>1, <2>1 DEF TypeOK
      <4>3. (challenge[c].consumed \/ single) = single
        BY <3>1
      <4> QED
        BY <4>2, <4>3 DEF Accepted
    <3>3. CASE single
      <4>1. \A p, q \in claimed[v].matched : p = q
        <5>1. claimed[v].matched \subseteq People
          BY DEF TypeOK, Row, NoRow
        <5>2. IsFiniteSet(claimed[v].matched)
          BY <5>1, FS_Subset, OtpAssumption
        <5> QED
          BY <3>3, <5>2, FS_Singleton
      <4> QED
        BY <1>6, <2>1, <2>3, <3>1, <3>2, <3>3, <4>1 DEF Redeem, Redeemable, Redeemed, CallStep
    <3>4. CASE ~ single
      BY <1>6, <2>1, <2>3, <3>1, <3>2, <3>4 DEF Redeem, Redeemable, Verified, CallStep
    <3> QED
      BY <3>3, <3>4
  <2> QED
    BY <2>2, <2>3
<1>7. CASE Fail(v) \/ Crash(v)
  BY <1>1, <1>2, <1>7 DEF Fail, Crash, Aside, CallStep
<1>8. CASE Mint(v)
  BY <1>8 DEF Mint, Minted, CallStep
<1> QED
  BY <1>3, <1>4, <1>5, <1>6, <1>7, <1>8 DEF VerifyStep

\* What any step may do, in the terms of the invariants.
LEMMA StepCases ==
  ASSUME TypeOK, Begun, [Next]_vars
  PROVE  \/ Elsewhere \/ Superseded
         \/ \E r \in Requests : Resolved(r) \/ Inserted(r)
         \/ \E v \in Verifications : CallStep(v)
<1>1. CASE Tick \/ MergeHolders \/ UNCHANGED vars
  BY <1>1 DEF Tick, MergeHolders, vars, calls, Elsewhere
<1>2. ASSUME NEW v \in Verifications, NEW c \in Requests, Verify(v, c)
      PROVE  CallStep(v)
  BY <1>2 DEF Verify, Aside, CallStep
<1>3. ASSUME NEW v \in Verifications, NEW c \in Requests, NEW p \in People, Select(v, c, p)
      PROVE  CallStep(v)
  <2>1. CASE Selectable(c, p)
    BY <1>3, <2>1 DEF Select, Selectable, Live, Selected, Closed, CallStep, TypeOK
  <2>2. CASE ~ Selectable(c, p)
    BY <1>3, <2>2 DEF Select, Aside, CallStep
  <2> QED
    BY <2>1, <2>2
<1> QED
  BY <1>1, <1>2, <1>3, RequestCases, VerifyCases DEF Next

-----------------------------------------------------------------------------
(* Type correctness                                                        *)

\* The clock, the register, the requests' progress and the audit log.
LEMMA OuterTypes ==
  ASSUME TypeOK, [Next]_vars
  PROVE  /\ clock' \in Clock /\ holders' \subseteq People
         /\ asking' \in [Requests ->
              {"idle", "resolve", "supersede", "count", "insert", "ended"}]
         /\ failures' \in [Clock -> Nat]
<1>1. CASE Tick \/ MergeHolders \/ UNCHANGED vars
  BY <1>1, OtpAssumption DEF Tick, MergeHolders, vars, calls, TypeOK, Clock
<1>2. ASSUME NEW r \in Requests, RequestStep(r)
      PROVE  /\ UNCHANGED <<clock, holders, failures>>
             /\ \E s \in {"resolve", "supersede", "count", "insert", "ended"} : Ask(r, s)
  BY <1>2 DEF RequestStep, Request, ResolveHolders, Supersede, CountSent, InsertChallenge
<1>3. ASSUME NEW v \in Verifications, NEW c \in Requests, NEW p \in People,
             Verify(v, c) \/ Select(v, c, p)
      PROVE  UNCHANGED <<clock, holders, asking, failures>>
  BY <1>3 DEF Verify, Select
<1>4. ASSUME NEW v \in Verifications, VerifyStep(v) \/ Crash(v)
      PROVE  /\ UNCHANGED <<clock, holders, asking>>
             /\ \/ UNCHANGED failures
                \/ failures' = [failures EXCEPT ![clock] = @ + 1]
  BY <1>4 DEF VerifyStep, Crash, ClaimAttempt, Exhaust, Redeem, Fail, Mint, Compare
<1>5. ASSUME NEW v \in Verifications, NEW c \in Requests, Verify(v, c)
      PROVE  UNCHANGED <<clock, holders, asking, failures>>
  BY <1>5 DEF Verify
<1> QED
  BY <1>1, <1>2, <1>3, <1>4, <1>5 DEF Next, Ask, TypeOK

\* Challenges, calls and tokens.
InnerOK ==
  /\ challenge \in [Requests -> Row \cup {NoRow}]
  /\ found \in [Requests -> SUBSET People]
  /\ checking \in [Verifications ->
       {"idle", "claim", "compare", "exhaust", "redeem", "failed", "mint", "ended"}]
  /\ on \in [Verifications -> Requests \cup {Nobody}]
  /\ claimed \in [Verifications -> Row \cup {NoRow}]
  /\ chosen \in [Verifications -> SUBSET People]
  /\ compared \in [Requests -> Nat]
  /\ tokens \subseteq [by : Verifications, challenge : Requests, person : People]
  /\ Begun

\* Every step keeps the types.
LEMMA InnerTypes ==
  ASSUME TypeOK, Begun, [Next]_vars
  PROVE  InnerOK'
<1> USE RowIsNoNoRow DEF InnerOK, Begun, TypeOK, Exists
<1>1. CASE Elsewhere
  BY <1>1 DEF Elsewhere
<1>2. CASE Superseded
  <2>1. challenge' \in [Requests -> Row \cup {NoRow}]
    BY <1>2, ClosedRow DEF Superseded, Exists
  <2>2. \A c \in Requests : challenge[c] # NoRow => challenge'[c] # NoRow
    BY <1>2, ClosedRow DEF Superseded
  <2> QED
    BY <1>2, <2>1, <2>2 DEF Superseded
<1>3. ASSUME NEW r \in Requests, Resolved(r) PROVE InnerOK'
  BY <1>3 DEF Resolved
<1>4. ASSUME NEW r \in Requests, Inserted(r) PROVE InnerOK'
  BY <1>4, OpenedRow DEF Inserted
<1>5. ASSUME NEW v \in Verifications, CallStep(v) PROVE InnerOK'
  <2> USE DEF Check
  <2>1. CASE Aside(v)
    BY <2>1 DEF Aside
  <2>2. CASE Claimed(v)
    BY <2>2, TriedRow DEF Claimed
  <2>3. CASE Compared(v)
    BY <2>3 DEF Compared
  <2>4. CASE Exhausted(v)
    BY <2>4, ClosedRow DEF Exhausted
  <2>5. CASE Verified(v)
    BY <2>5, AcceptedRow DEF Verified
  <2>6. CASE Redeemed(v)
    <3>1. claimed[v].matched \subseteq People
      BY DEF Row, NoRow
    <3> QED
      BY <2>6, <3>1, AcceptedRow DEF Redeemed
  <2>7. ASSUME NEW c \in Requests, NEW p \in People, Selected(v, c, p) PROVE InnerOK'
    BY <2>7, ClosedRow DEF Selected
  <2>8. CASE Minted(v)
    BY <2>8 DEF Minted
  <2> QED
    BY <1>5, <2>1, <2>2, <2>3, <2>4, <2>5, <2>6, <2>7, <2>8 DEF CallStep
<1> QED
  BY <1>1, <1>2, <1>3, <1>4, <1>5, StepCases

\* Every step keeps the types and the progress of the calls.
LEMMA TypeStep == TypeOK /\ Begun /\ [Next]_vars => TypeOK' /\ Begun'
BY OuterTypes, InnerTypes DEF TypeOK, InnerOK

\* Every reachable state is well typed, and a call that has begun is about a
\* challenge somebody asked for.
THEOREM TypeCorrect == Spec => [](TypeOK /\ Begun)
<1>1. Init => TypeOK /\ Begun
  BY OtpAssumption DEF Init, TypeOK, Begun, Clock
<1> QED
  BY <1>1, TypeStep, PTL DEF Spec

-----------------------------------------------------------------------------
(* What a row and a call have behind them                                  *)

\* A challenge was sent to the people found for its request, which has ended;
\* a code it accepted was compared with it, and a call that claimed an attempt
\* read those people.
HistorySound ==
  /\ \A c \in Requests :
       /\ Exists(c) => asking[c] = "ended" /\ challenge[c].matched = found[c]
       /\ challenge[c].verified => compared[c] > 0
  /\ \A v \in Verifications :
       /\ checking[v] \in {"compare", "exhaust", "redeem"} => claimed[v].matched = found[on[v]]
       /\ checking[v] = "redeem" => compared[on[v]] > 0

\* A code that is accepted changes the marks of its challenge and no other row.
LEMMA AcceptedRows ==
  ASSUME TypeOK, Begun, NEW v \in Verifications, Verified(v) \/ Redeemed(v),
         NEW c \in Requests
  PROVE  /\ challenge'[c].matched = challenge[c].matched
         /\ challenge'[c].attempts = challenge[c].attempts
         /\ Exists(c)' <=> Exists(c)
         /\ challenge'[c].verified => challenge[c].verified \/ c = on[v]
         /\ c # on[v] => challenge'[c] = challenge[c]
<1>1. PICK b \in BOOLEAN :
        /\ on[v] \in Requests /\ challenge[on[v]] \in Row
        /\ challenge' = [challenge EXCEPT ![on[v]] = Accepted(challenge[on[v]], b)]
  BY DEF Verified, Redeemed, Begun
<1>2. CASE c = on[v]
  <2>1. challenge'[c] = Accepted(challenge[c], b) /\ challenge[c] \in Row
    BY <1>1, <1>2 DEF TypeOK
  <2> QED
    BY <1>2, <2>1, AcceptedRow, RowIsNoNoRow DEF Exists
<1>3. CASE c # on[v]
  BY <1>1, <1>3 DEF TypeOK, Exists
<1> QED
  BY <1>2, <1>3

\* What is remembered of the challenges stays true of them.
LEMMA HistoryStep ==
  ASSUME TypeOK, Begun, HistorySound, [Next]_vars
  PROVE  HistorySound'
<1> USE RowIsNoNoRow DEF HistorySound, Begun, TypeOK, Exists
<1>1. CASE Elsewhere
  BY <1>1 DEF Elsewhere
<1>2. CASE Superseded
  <2>1. ASSUME NEW c \in Requests
        PROVE  /\ challenge[c] # NoRow <=> challenge'[c] # NoRow
               /\ challenge'[c].matched = challenge[c].matched
               /\ challenge'[c].verified => challenge[c].verified
    BY <1>2, ClosedRow DEF Superseded
  <2> QED
    BY <1>2, <2>1 DEF Superseded
<1>3. ASSUME NEW r \in Requests, Resolved(r) PROVE HistorySound'
  BY <1>3 DEF Resolved
<1>4. ASSUME NEW r \in Requests, Inserted(r) PROVE HistorySound'
  BY <1>4, OpenedRow DEF Inserted
<1>5. ASSUME NEW v \in Verifications, CallStep(v) PROVE HistorySound'
  <2> USE DEF Check
  <2>1. CASE Aside(v)
    BY <1>5, <2>1 DEF Aside
  <2>2. CASE Claimed(v)
    BY <2>2, TriedRow DEF Claimed
  <2>3. CASE Compared(v)
    BY <2>3 DEF Compared
  <2>4. CASE Exhausted(v)
    BY <2>4, ClosedRow DEF Exhausted
  <2>5. CASE Verified(v) \/ Redeemed(v)
    <3>1. /\ UNCHANGED <<asking, found, on, claimed, compared>>
          /\ checking[v] = "redeem" /\ \E s \in {"ended", "mint"} : Check(v, s)
      BY <2>5 DEF Verified, Redeemed
    <3>2. \A c \in Requests :
            /\ Exists(c)' => asking'[c] = "ended" /\ challenge'[c].matched = found'[c]
            /\ challenge'[c].verified => compared'[c] > 0
      BY <2>5, <3>1, AcceptedRows
    <3> QED
      BY <3>1, <3>2
  <2>7. ASSUME NEW c \in Requests, NEW p \in People, Selected(v, c, p) PROVE HistorySound'
    BY <2>7, ClosedRow DEF Selected
  <2>8. CASE Minted(v)
    BY <2>8 DEF Minted
  <2> QED
    BY <1>5, <2>1, <2>2, <2>3, <2>4, <2>5, <2>7, <2>8 DEF CallStep
<1> QED
  BY <1>1, <1>2, <1>3, <1>4, <1>5, StepCases

-----------------------------------------------------------------------------
(* Attempts                                                                *)

\* The calls that have claimed an attempt at c and not yet compared its code.
Comparing(c) == {v \in Verifications : checking[v] = "compare" /\ on[v] = c}

\* Each comparison made or under way was claimed on the row.
Counted(c) ==
  /\ IsFiniteSet(Comparing(c))
  /\ compared[c] + Cardinality(Comparing(c)) <= challenge[c].attempts

AllCounted == \A c \in Requests : Counted(c)

\* A count is kept where the row's attempts, the comparisons made and those
\* under way are.
LEMMA CountKept ==
  ASSUME TypeOK, NEW c \in Requests, Counted(c),
         challenge'[c].attempts = challenge[c].attempts, compared'[c] = compared[c],
         Comparing(c)' \subseteq Comparing(c)
  PROVE  Counted(c)'
<1>1. /\ IsFiniteSet(Comparing(c)')
      /\ Cardinality(Comparing(c)') <= Cardinality(Comparing(c))
  BY FS_Subset DEF Counted
<1>2. /\ Cardinality(Comparing(c)) \in Nat /\ Cardinality(Comparing(c)') \in Nat
      /\ compared[c] \in Nat /\ challenge[c].attempts \in Nat
  BY <1>1, FS_CardinalityType DEF Counted, TypeOK, Row, NoRow
<1> QED
  BY <1>1, <1>2 DEF Counted

\* A claim counts the comparison it allows.
LEMMA ClaimCounted ==
  ASSUME TypeOK, Begun, NEW v \in Verifications, Claimed(v), Counted(on[v])
  PROVE  Counted(on[v])'
<1> DEFINE c == on[v]
<1>1. c \in Requests /\ challenge[c] \in Row /\ UNCHANGED <<on, compared>>
  BY DEF Begun, Claimed
<1>2. challenge'[c].attempts = challenge[c].attempts + 1
  BY <1>1, TriedRow DEF Claimed, TypeOK
<1>3. Comparing(c)' = Comparing(c) \cup {v} /\ v \notin Comparing(c)
  BY <1>1 DEF Claimed, Comparing, Check, TypeOK
<1>4. /\ IsFiniteSet(Comparing(c)')
      /\ Cardinality(Comparing(c)') = Cardinality(Comparing(c)) + 1
  BY <1>3, FS_AddElement DEF Counted
<1>5. /\ Cardinality(Comparing(c)) \in Nat
      /\ compared[c] \in Nat /\ challenge[c].attempts \in Nat
  BY <1>1, FS_CardinalityType DEF Counted, TypeOK, Row
<1> QED
  BY <1>1, <1>2, <1>4, <1>5 DEF Counted

\* A comparison that is made is no longer under way.
LEMMA CompareCounted ==
  ASSUME TypeOK, Begun, NEW v \in Verifications, Compared(v), Counted(on[v])
  PROVE  Counted(on[v])'
<1> DEFINE c == on[v]
<1>1. c \in Requests /\ UNCHANGED <<on, challenge>>
  BY DEF Begun, Compared
<1>2. compared'[c] = compared[c] + 1
  BY <1>1 DEF Compared, TypeOK
<1>3. Comparing(c)' = Comparing(c) \ {v} /\ v \in Comparing(c)
  BY <1>1 DEF Compared, Comparing, Check, TypeOK
<1>4. /\ IsFiniteSet(Comparing(c)')
      /\ Cardinality(Comparing(c)') = Cardinality(Comparing(c)) - 1
  BY <1>3, FS_RemoveElement DEF Counted
<1>5. /\ Cardinality(Comparing(c)) \in Nat
      /\ compared[c] \in Nat /\ challenge[c].attempts \in Nat
  BY <1>1, FS_CardinalityType DEF Counted, TypeOK, Row, NoRow
<1> QED
  BY <1>1, <1>2, <1>4, <1>5 DEF Counted

\* Every attempt is counted before its code is compared.
LEMMA CountStep ==
  ASSUME TypeOK, Begun, HistorySound, AllCounted, [Next]_vars
  PROVE  AllCounted'
<1> SUFFICES ASSUME NEW c \in Requests PROVE Counted(c)'
  BY DEF AllCounted
<1> USE DEF AllCounted
<1>1. CASE Elsewhere \/ \E r \in Requests : Resolved(r)
  BY <1>1, CountKept DEF Elsewhere, Resolved, Comparing
<1>2. CASE Superseded
  BY <1>2, CountKept, ClosedRow DEF Superseded, Comparing, Exists, TypeOK
<1>3. ASSUME NEW r \in Requests, Inserted(r) PROVE Counted(c)'
  <2>1. ASSUME r = c
        PROVE  challenge'[c].attempts = challenge[c].attempts
    <3>1. challenge[c].attempts = 0
      BY <1>3, <2>1 DEF Inserted, HistorySound, Exists, NoRow
    <3>2. challenge'[c] = Opened(c)
      BY <1>3, <2>1 DEF Inserted, TypeOK
    <3> QED
      BY <3>1, <3>2, OpenedRow
  <2>2. r # c => challenge'[c] = challenge[c]
    BY <1>3 DEF Inserted, TypeOK
  <2> QED
    BY <1>3, <2>1, <2>2, CountKept DEF Inserted, Comparing
<1>4. ASSUME NEW v \in Verifications, CallStep(v) PROVE Counted(c)'
  <2> USE DEF Check, TypeOK, Begun
  <2>1. CASE Aside(v) \/ Minted(v)
    <3>1. Comparing(c)' \subseteq Comparing(c)
      BY <2>1 DEF Aside, Minted, Comparing
    <3> QED
      BY <2>1, <3>1, CountKept DEF Aside, Minted
  <2>2. CASE Claimed(v)
    <3>1. on[v] # c => Comparing(c)' \subseteq Comparing(c) /\ challenge'[c] = challenge[c]
      BY <2>2 DEF Claimed, Comparing
    <3> QED
      BY <2>2, <3>1, CountKept, ClaimCounted DEF Claimed
  <2>3. CASE Compared(v)
    <3>1. on[v] # c => Comparing(c)' \subseteq Comparing(c) /\ compared'[c] = compared[c]
      BY <2>3 DEF Compared, Comparing
    <3> QED
      BY <2>3, <3>1, CountKept, CompareCounted DEF Compared
  <2>4. CASE \/ Exhausted(v) \/ Verified(v) \/ Redeemed(v)
             \/ \E d \in Requests, p \in People : Selected(v, d, p)
    <3>1. Comparing(c)' \subseteq Comparing(c) /\ compared' = compared
      BY <2>4 DEF Exhausted, Verified, Redeemed, Selected, Comparing
    <3>2. challenge'[c].attempts = challenge[c].attempts
      <4>1. CASE Exhausted(v)
        BY <4>1, ClosedRow DEF Exhausted, Exists
      <4>2. CASE Verified(v) \/ Redeemed(v)
        BY <4>2, AcceptedRows
      <4>3. ASSUME NEW d \in Requests, NEW p \in People, Selected(v, d, p)
            PROVE  challenge'[c].attempts = challenge[c].attempts
        BY <4>3, ClosedRow DEF Selected
      <4> QED
        BY <2>4, <4>1, <4>2, <4>3
    <3> QED
      BY <3>1, <3>2, CountKept
  <2> QED
    BY <1>4, <2>1, <2>2, <2>3, <2>4 DEF CallStep
<1> QED
  BY <1>1, <1>2, <1>3, <1>4, StepCases

\* However many codes are tried at once, no more than MAX_ATTEMPTS are ever
\* compared with a challenge: the statement that claims an attempt counts a
\* comparison before it is made.
THEOREM AttemptsAreBounded == Spec => []AttemptsBounded
<1>1. Init => HistorySound /\ AllCounted
  <2> SUFFICES ASSUME Init PROVE HistorySound /\ AllCounted
    OBVIOUS
  <2>1. HistorySound
    BY DEF Init, HistorySound, Exists, NoRow
  <2>2. \A c \in Requests : Comparing(c) = {} /\ compared[c] = 0 /\ challenge[c].attempts = 0
    BY DEF Init, Comparing, NoRow
  <2> QED
    BY <2>1, <2>2, FS_EmptySet DEF AllCounted, Counted
<1>2. TypeOK /\ AllCounted => AttemptsBounded
  <2> SUFFICES ASSUME TypeOK, NEW c \in Requests, Counted(c) PROVE compared[c] <= MaxAttempts
    BY DEF AllCounted, AttemptsBounded
  <2>1. challenge[c].attempts \in 0 .. MaxAttempts /\ compared[c] \in Nat
    BY OtpAssumption DEF TypeOK, Row, NoRow
  <2>2. Cardinality(Comparing(c)) \in Nat
    BY FS_CardinalityType DEF Counted
  <2> QED
    BY <2>1, <2>2, OtpAssumption DEF Counted
<1> QED
  BY <1>1, <1>2, TypeCorrect, HistoryStep, CountStep, PTL DEF Spec

-----------------------------------------------------------------------------
(* Tokens                                                                  *)

\* A code was accepted for c and somebody was chosen: it can do no more.
Spent(c) == challenge[c].verified /\ challenge[c].consumed

\* Whoever is about to mint a token has spent the challenge, is the only one to,
\* and comes before any token of it.
MayMint(v) ==
  /\ Spent(on[v])
  /\ chosen[v] \subseteq found[on[v]]
  /\ \A p, q \in chosen[v] : p = q
  /\ \A w \in Verifications : checking[w] = "mint" /\ on[w] = on[v] => w = v
  /\ \A t \in tokens : t.challenge # on[v]

MintSound ==
  /\ \A v \in Verifications : checking[v] = "mint" => MayMint(v)
  /\ \A t \in tokens : Spent(t.challenge) /\ t.person \in found[t.challenge]
  /\ OneTokenPerChallenge

\* A challenge that was spent stays spent.
LEMMA SpentStays ==
  ASSUME TypeOK, Begun, HistorySound, [Next]_vars, NEW c \in Requests, Spent(c)
  PROVE  Spent(c)' /\ found'[c] = found[c]
<1>1. challenge[c] \in Row /\ asking[c] = "ended"
  BY DEF TypeOK, HistorySound, Exists, Spent, NoRow
<1>2. CASE Elsewhere
  BY <1>2 DEF Elsewhere, Spent
<1>3. CASE Superseded
  BY <1>1, <1>3, ClosedRow, RowIsNoNoRow DEF Superseded, Exists, Spent
<1>4. ASSUME NEW r \in Requests, Resolved(r) \/ Inserted(r)
      PROVE  Spent(c)' /\ found'[c] = found[c]
  BY <1>1, <1>4 DEF Resolved, Inserted, Spent, TypeOK
<1>5. ASSUME NEW v \in Verifications, CallStep(v)
      PROVE  Spent(c)' /\ found'[c] = found[c]
  <2>1. found' = found
    BY <1>5 DEF CallStep, Aside, Claimed, Compared, Exhausted, Verified, Redeemed, Selected, Minted
  <2>2. CASE Aside(v) \/ Compared(v) \/ Minted(v)
    BY <2>1, <2>2 DEF Aside, Compared, Minted, Spent
  <2>3. CASE Claimed(v)
    BY <1>1, <2>1, <2>3, TriedRow DEF Claimed, Spent, TypeOK
  <2>4. CASE Exhausted(v)
    BY <1>1, <2>1, <2>4, ClosedRow DEF Exhausted, Spent, TypeOK
  <2>5. CASE Verified(v) \/ Redeemed(v)
    <3>1. c # on[v]
      BY <2>5 DEF Verified, Redeemed, Spent
    <3> QED
      BY <2>1, <2>5, <3>1, AcceptedRows DEF Spent
  <2>6. ASSUME NEW d \in Requests, NEW p \in People, Selected(v, d, p)
        PROVE  Spent(c)' /\ found'[c] = found[c]
    BY <1>1, <2>1, <2>6, ClosedRow DEF Selected, Spent, TypeOK
  <2> QED
    BY <1>5, <2>2, <2>3, <2>4, <2>5, <2>6 DEF CallStep
<1> QED
  BY <1>2, <1>3, <1>4, <1>5, StepCases

\* Nobody else begins to mint, and no token is minted.
NoMint ==
  /\ tokens' = tokens
  /\ \A w \in Verifications :
       checking'[w] = "mint" => checking[w] = "mint" /\ UNCHANGED <<on[w], chosen[w]>>

\* v begins to mint for c, whose challenge it spends.
MintBegun(v, c) ==
  /\ tokens' = tokens
  /\ ~ challenge[c].consumed /\ Spent(c)'
  /\ on'[v] = c /\ chosen'[v] \subseteq found'[c]
  /\ \A p, q \in chosen'[v] : p = q
  /\ \A w \in Verifications \ {v} :
       checking'[w] = checking[w] /\ UNCHANGED <<on[w], chosen[w]>>

\* A token is minted in two steps: the challenge is taken, then answered.
LEMMA MintCases ==
  ASSUME TypeOK, Begun, HistorySound, [Next]_vars
  PROVE  \/ NoMint
         \/ \E v \in Verifications, c \in Requests : MintBegun(v, c)
         \/ \E v \in Verifications : Minted(v)
<1> USE DEF TypeOK, Begun, Check
<1>1. CASE Elsewhere \/ Superseded \/ \E r \in Requests : Resolved(r) \/ Inserted(r)
  BY <1>1 DEF Elsewhere, Superseded, Resolved, Inserted, NoMint
<1>2. ASSUME NEW v \in Verifications,
             Aside(v) \/ Claimed(v) \/ Compared(v) \/ Exhausted(v) \/ Verified(v)
      PROVE  NoMint
  BY <1>2 DEF Aside, Claimed, Compared, Exhausted, Verified, NoMint
<1>3. ASSUME NEW v \in Verifications, Redeemed(v)
      PROVE  MintBegun(v, on[v])
  <2>1. on[v] \in Requests /\ claimed[v].matched = found[on[v]]
    BY <1>3 DEF Redeemed, HistorySound
  <2>2. challenge'[on[v]] = Accepted(challenge[on[v]], TRUE) /\ challenge[on[v]] \in Row
    BY <1>3, <2>1 DEF Redeemed
  <2>3. Spent(on[v])'
    BY <1>3, <2>2, AcceptedRow DEF Spent, Redeemed
  <2> QED
    BY <1>3, <2>1, <2>3 DEF Redeemed, MintBegun
<1>4. ASSUME NEW v \in Verifications, NEW c \in Requests, NEW p \in People, Selected(v, c, p)
      PROVE  MintBegun(v, c)
  <2>1. p \in found[c]
    BY <1>4, RowIsNoNoRow DEF Selected, HistorySound, Exists
  <2>2. challenge'[c] = Closed(challenge[c]) /\ challenge[c] \in Row
    BY <1>4 DEF Selected
  <2>3. Spent(c)'
    BY <1>4, <2>2, ClosedRow DEF Selected, Spent
  <2> QED
    BY <1>4, <2>1, <2>3 DEF Selected, MintBegun
<1>5. ASSUME NEW v \in Verifications, CallStep(v)
      PROVE  NoMint \/ (\E c \in Requests : MintBegun(v, c)) \/ Minted(v)
  <2>1. Redeemed(v) => on[v] \in Requests
    BY DEF Redeemed
  <2> QED
    BY <1>2, <1>3, <1>4, <1>5, <2>1 DEF CallStep
<1> QED
  BY <1>1, <1>5, StepCases

\* Tokens go on answering challenges taken once.
LEMMA MintStep ==
  ASSUME TypeOK, Begun, HistorySound, MintSound, [Next]_vars
  PROVE  MintSound'
<1>1. \A c \in Requests : Spent(c) => Spent(c)' /\ found'[c] = found[c]
  BY SpentStays
<1>2. /\ \A t \in tokens : t.challenge \in Requests
      /\ \A v \in Verifications : checking[v] = "mint" => on[v] \in Requests
  BY DEF TypeOK, Begun
<1>3. CASE NoMint
  BY <1>1, <1>2, <1>3 DEF NoMint, MintSound, MayMint, OneTokenPerChallenge
<1>4. ASSUME NEW v \in Verifications, NEW c \in Requests, MintBegun(v, c)
      PROVE  MintSound'
  <2>1. \A w \in Verifications : checking[w] = "mint" => on[w] # c
    BY <1>4 DEF MintBegun, MintSound, MayMint, Spent
  <2>2. \A t \in tokens : t.challenge # c
    BY <1>4 DEF MintBegun, MintSound, Spent
  <2>3. \A w \in Verifications \ {v} : checking'[w] = "mint" => MayMint(w)'
    BY <1>1, <1>2, <1>4, <2>1 DEF MintBegun, MintSound, MayMint
  <2>4. MayMint(v)'
    BY <1>4, <2>1, <2>2 DEF MintBegun, MayMint
  <2> QED
    BY <1>1, <1>2, <1>4, <2>3, <2>4 DEF MintBegun, MintSound, OneTokenPerChallenge
<1>5. ASSUME NEW v \in Verifications, Minted(v)
      PROVE  MintSound'
  <2>1. /\ checking[v] = "mint" /\ MayMint(v)
        /\ \A w \in Verifications : checking'[w] = "mint" => checking[w] = "mint" /\ w # v
        /\ UNCHANGED <<on, chosen>>
    BY <1>5 DEF Minted, Check, TypeOK, MintSound
  <2>2. \A t \in tokens' \ tokens :
          t.challenge = on[v] /\ t.person \in chosen[v] /\ t.by = v
          /\ t = [by |-> v, challenge |-> on[v], person |-> t.person]
    BY <1>5 DEF Minted
  <2>3. \A w \in Verifications : checking'[w] = "mint" => MayMint(w)'
    BY <1>1, <1>2, <2>1, <2>2 DEF MintSound, MayMint
  <2>4. \A t \in tokens' : Spent(t.challenge)' /\ t.person \in found'[t.challenge]
    BY <1>1, <1>2, <2>1, <2>2 DEF MintSound, MayMint
  <2>5. OneTokenPerChallenge'
    BY <2>1, <2>2 DEF MintSound, MayMint, OneTokenPerChallenge
  <2> QED
    BY <2>3, <2>4, <2>5 DEF MintSound
<1> QED
  BY <1>3, <1>4, <1>5, MintCases

\* What the tokens rest on always holds.
LEMMA MintInvariant == Spec => [](HistorySound /\ MintSound)
<1>1. Init => HistorySound /\ MintSound
  BY DEF Init, HistorySound, Exists, NoRow, MintSound, OneTokenPerChallenge
<1> QED
  BY <1>1, TypeCorrect, HistoryStep, MintStep, PTL DEF Spec

\* One code, one token: the update that accepts a code, and the one that takes
\* the selection, spend the challenge before a token is signed, and what is
\* spent is never accepted or selected from again.
THEOREM OneToken == Spec => []OneTokenPerChallenge
BY MintInvariant, PTL DEF MintSound

\* And the token is for somebody the code was sent to, after a right code.
THEOREM TokensAreEarned == Spec => []TokensEarned
<1>1. TypeOK /\ HistorySound /\ MintSound => TokensEarned
  <2> SUFFICES ASSUME TypeOK, HistorySound, MintSound, NEW t \in tokens
               PROVE  /\ challenge[t.challenge].verified /\ challenge[t.challenge].consumed
                      /\ t.person \in found[t.challenge]
                      /\ compared[t.challenge] > 0
    BY DEF TokensEarned
  <2>1. t.challenge \in Requests
    BY DEF TypeOK
  <2> QED
    BY <2>1 DEF HistorySound, MintSound, Spent
<1> QED
  BY <1>1, TypeCorrect, MintInvariant, PTL

-----------------------------------------------------------------------------
(* The tablet on the counter                                               *)

\* Details and choices e, and a signature i, are of people c, where anybody left any.
HeldBy(e, i, c) == e \in [Parts -> c \cup {NoOne}] /\ i \in c \cup {NoOne}

\* A form, sent or received, is of those who stood at it.
OfThose(f) == HeldBy(f.parts, f.ink, f.of)

\* An open form is of those who stood at it, and its clock has not run out.
FormSound ==
  /\ HeldBy(entered, ink, company)
  /\ atTablet # NoOne => atTablet \in company
  /\ quiet = idle /\ idle < IdleLimit

\* The inductive invariant: a form is begun on an empty tablet, is of those who
\* stood at it while it is open, and is sent as it is.
KioskInv ==
  /\ KioskTypeOK
  /\ stage \in {"setup", "welcome"} => entered = Blank /\ ink = NoOne
  /\ Filling => FormSound
  /\ OfThose(sending) /\ \A f \in received : OfThose(f)

\* An empty tablet is anybody's.
LEMMA BlankHeld == \A c : HeldBy(Blank, NoOne, c)
BY DEF HeldBy, Blank, Parts

\* Nothing under way is anybody's.
LEMMA NothingSent == OfThose(NoForm)
BY BlankHeld DEF OfThose, NoForm

\* The tablet starts empty.
LEMMA KioskBegins == KioskInit => KioskInv
<1> SUFFICES ASSUME KioskInit PROVE KioskInv
  OBVIOUS
<1> USE DEF KioskInit
<1>1. KioskTypeOK
  <2>1. Blank \in [Parts -> Someone] /\ NoOne \in Someone
    BY DEF Blank, Someone
  <2>2. NoForm \in [parts : [Parts -> Someone], ink : Someone, of : SUBSET Visitors,
                    at : {"none", "evidence", "draft"}]
    BY <2>1 DEF NoForm
  <2>3. 0 \in 0 .. IdleLimit
    BY KioskAssumption
  <2> QED
    BY <2>1, <2>2, <2>3 DEF KioskTypeOK
<1>2. ~ Filling
  BY DEF Filling
<1> QED
  BY <1>1, <1>2, NothingSent DEF KioskInv

\* Types are kept.
LEMMA KioskTypes == KioskTypeOK /\ [KioskNext]_kioskVars => KioskTypeOK'
<1> SUFFICES ASSUME KioskTypeOK, [KioskNext]_kioskVars PROVE KioskTypeOK'
  OBVIOUS
<1> DEFINE Ways == [Parts -> Someone]
           Sets == SUBSET Visitors
           SentSet == [parts : Ways, ink : Someone, of : Sets, at : {"none", "evidence", "draft"}]
           FormSet == [parts : Ways, ink : Someone, of : Sets]
           Screen(s) == s \in {"setup", "welcome", "details", "consent", "sign", "done"}
<1>1. /\ Blank \in Ways /\ NoOne \in Someone /\ NoForm \in SentSet
      /\ 0 \in 0 .. IdleLimit /\ ThanksLimit \in 1 .. ThanksLimit
  BY KioskAssumption DEF Blank, Someone, NoForm
<1>2. /\ atTablet \in Someone /\ entered \in Ways /\ ink \in Someone /\ inked \in BOOLEAN
      /\ Screen(stage) /\ idle \in 0 .. IdleLimit /\ resets \subseteq 1 .. ThanksLimit
      /\ sending \in SentSet /\ received \subseteq FormSet
      /\ quiet \in 0 .. IdleLimit /\ company \in Sets
  BY DEF KioskTypeOK
<1>3. {} \in Sets /\ \A v \in Visitors : {v} \in Sets /\ company \cup {v} \in Sets
  BY <1>2
<1>4. atTablet # NoOne => atTablet \in Visitors
  BY <1>2 DEF Someone
<1> HIDE DEF Ways, Sets, SentSet, FormSet
<1> SUFFICES
      /\ atTablet' \in Someone /\ entered' \in Ways /\ ink' \in Someone /\ inked' \in BOOLEAN
      /\ Screen(stage') /\ idle' \in 0 .. IdleLimit /\ resets' \subseteq 1 .. ThanksLimit
      /\ sending' \in SentSet /\ received' \subseteq FormSet
      /\ quiet' \in 0 .. IdleLimit /\ company' \in Sets
  BY DEF KioskTypeOK, Ways, Sets, SentSet, FormSet
<1>5. Reset => /\ entered' \in Ways /\ ink' \in Someone /\ inked' \in BOOLEAN
               /\ Screen(stage') /\ idle' \in 0 .. IdleLimit
               /\ quiet' \in 0 .. IdleLimit /\ company' \in Sets
  BY <1>1, <1>3 DEF Reset, Wiped, FormEnds
<1>6. CASE Moment
  <2>1. resets' \subseteq 1 .. ThanksLimit
    BY <1>2, <1>6, KioskAssumption DEF Moment
  <2>2. CASE Reset
    BY <1>2, <1>5, <1>6, <2>1, <2>2 DEF Moment
  <2>3. CASE ~ Reset
    <3>1. /\ ~ (Armed /\ idle + 1 >= IdleLimit) /\ idle' = IF Armed THEN idle + 1 ELSE 0
          /\ quiet' = IF Filling /\ quiet < IdleLimit THEN quiet + 1 ELSE quiet
          /\ UNCHANGED <<stage, entered, ink, inked, company, atTablet, sending, received>>
      BY <1>6, <2>3 DEF Moment
    <3>2. idle' \in 0 .. IdleLimit
      BY <1>1, <1>2, <3>1, KioskAssumption
    <3>3. quiet' \in 0 .. IdleLimit
      BY <1>2, <3>1, KioskAssumption
    <3> QED
      BY <1>2, <2>1, <3>1, <3>2, <3>3
  <2> QED
    BY <2>2, <2>3
<1>7. CASE Rotate \/ HandOver \/ WalkAway \/ Tap \/ Forward
  BY <1>1, <1>2, <1>7 DEF Rotate, HandOver, WalkAway, Tap, Forward, Touch, history
<1>8. CASE Begin
  BY <1>1, <1>2, <1>3, <1>4, <1>8 DEF Begin, Touch
<1>9. CASE \E v \in Visitors : StepUp(v)
  BY <1>2, <1>3, <1>9 DEF StepUp, Someone
<1>10. CASE \E part \in Parts : Enter(part)
  <2>1. PICK part \in Parts : Enter(part)
    BY <1>10
  <2>2. entered' \in Ways
    BY <1>2, <2>1 DEF Enter, Ways
  <2> QED
    BY <1>1, <1>2, <2>1, <2>2 DEF Enter, Touch
<1>11. CASE Draw \/ ClearInk
  BY <1>1, <1>2, <1>11 DEF Draw, ClearInk, Touch
<1>12. CASE HandBack
  BY <1>1, <1>2, <1>5, <1>12 DEF HandBack
<1>13. CASE Finish
  <2>1. sending' \in SentSet
    BY <1>2, <1>13 DEF Finish, SentSet
  <2> QED
    BY <1>1, <1>2, <1>13, <2>1 DEF Finish, Touch
<1>14. CASE SignatureSaved
  <2>1. sending' \in SentSet
    BY <1>2, <1>14 DEF SignatureSaved, SentSet
  <2> QED
    BY <1>2, <1>14, <2>1 DEF SignatureSaved, history
<1>15. Received => received' \subseteq FormSet
  BY <1>2 DEF Received, SentSet, FormSet
<1>16. CASE DraftSaved
  BY <1>1, <1>2, <1>3, <1>15, <1>16 DEF DraftSaved, FormEnds
<1>17. CASE SendFails
  BY <1>1, <1>2, <1>15, <1>17 DEF SendFails, history
<1>18. CASE UNCHANGED kioskVars
  BY <1>2, <1>18 DEF kioskVars, history
<1> QED
  BY <1>6, <1>7, <1>8, <1>9, <1>10, <1>11, <1>12, <1>13, <1>14, <1>16, <1>17, <1>18 DEF KioskNext

\* A tablet that shows the welcome is empty.
LEMMA WelcomeIsEmpty ==
  KioskInv /\ [KioskNext]_kioskVars =>
    (stage' \in {"setup", "welcome"} => entered' = Blank /\ ink' = NoOne)
<1> SUFFICES ASSUME KioskInv, [KioskNext]_kioskVars, stage' \in {"setup", "welcome"}
             PROVE  entered' = Blank /\ ink' = NoOne
  OBVIOUS
<1>1. stage \in {"setup", "welcome"} => entered = Blank /\ ink = NoOne
  BY DEF KioskInv
<1>2. CASE Moment \/ HandBack
  BY <1>1, <1>2 DEF Moment, Reset, HandBack, Wiped
<1>3. CASE Rotate \/ HandOver \/ WalkAway \/ Begin \/ Tap \/ Forward
  BY <1>1, <1>3 DEF Rotate, HandOver, WalkAway, Begin, Tap, Forward, Touch
<1>4. CASE \/ \E v \in Visitors : StepUp(v)
           \/ \E part \in Parts : Enter(part)
  BY <1>1, <1>4 DEF StepUp, Enter, Touch
<1>5. CASE Draw \/ ClearInk \/ Finish
  BY <1>1, <1>5 DEF Draw, ClearInk, Finish, Touch
<1>6. CASE SignatureSaved \/ DraftSaved \/ SendFails \/ UNCHANGED kioskVars
  BY <1>1, <1>6 DEF SignatureSaved, DraftSaved, SendFails, kioskVars
<1> QED
  BY <1>2, <1>3, <1>4, <1>5, <1>6 DEF KioskNext

\* An open form stays of those who stood at it.
LEMMA FormStaysSound == KioskInv /\ [KioskNext]_kioskVars => (Filling' => FormSound')
<1> SUFFICES ASSUME KioskInv, [KioskNext]_kioskVars, Filling'
             PROVE  FormSound'
  OBVIOUS
<1>1. /\ idle \in 0 .. IdleLimit /\ IdleLimit \in Nat \ {0}
      /\ stage \in {"setup", "welcome"} => entered = Blank /\ ink = NoOne
  BY KioskAssumption DEF KioskInv, KioskTypeOK
<1>2. Filling => FormSound
  BY DEF KioskInv
<1>3. CASE Moment
  <2>1. /\ Filling /\ UNCHANGED <<atTablet, entered, ink, company>>
        /\ ~ (Armed /\ idle + 1 >= IdleLimit) /\ idle' = IF Armed THEN idle + 1 ELSE 0
        /\ quiet' = IF Filling /\ quiet < IdleLimit THEN quiet + 1 ELSE quiet
    BY <1>3 DEF Moment, Reset, Filling
  <2>2. Armed
    BY <2>1 DEF Armed, Filling
  <2>3. quiet' = idle' /\ idle' < IdleLimit
    BY <1>1, <1>2, <2>1, <2>2 DEF FormSound
  <2> QED
    BY <1>2, <2>1, <2>3 DEF FormSound
<1>4. CASE Rotate
  <2>1. Filling /\ ink' = NoOne /\ UNCHANGED <<atTablet, entered, idle, quiet, company>>
    BY <1>4 DEF Rotate, Filling, history
  <2> QED
    BY <1>2, <2>1 DEF FormSound, HeldBy
<1>5. CASE HandOver \/ HandBack \/ DraftSaved
  BY <1>5 DEF HandOver, HandBack, Reset, DraftSaved, Filling
<1>6. CASE \E v \in Visitors : StepUp(v)
  <2>1. PICK v \in Visitors : StepUp(v)
    BY <1>6
  <2>2. /\ Filling /\ atTablet' = v /\ company' = company \cup {v}
        /\ UNCHANGED <<entered, ink, idle, quiet>>
    BY <2>1 DEF StepUp, Filling
  <2>3. HeldBy(entered, ink, company \cup {v})
    BY <1>2, <2>2 DEF FormSound, HeldBy
  <2> QED
    BY <1>2, <2>2, <2>3 DEF FormSound
<1>7. CASE WalkAway
  <2>1. Filling /\ atTablet' = NoOne /\ UNCHANGED <<entered, ink, idle, quiet, company>>
    BY <1>7 DEF WalkAway, Filling, history
  <2> QED
    BY <1>2, <2>1 DEF FormSound
<1>8. CASE Begin
  <2>1. /\ entered' = Blank /\ ink' = NoOne /\ atTablet' = atTablet /\ company' = {atTablet}
        /\ idle' = 0 /\ quiet' = 0
    BY <1>1, <1>8 DEF Begin, Touch
  <2> QED
    BY <1>1, <2>1, BlankHeld DEF FormSound
<1>9. CASE \E part \in Parts : Enter(part)
  <2>1. PICK part \in Parts : Enter(part)
    BY <1>9
  <2>2. /\ Filling /\ atTablet # NoOne /\ UNCHANGED <<atTablet, ink, company>>
        /\ entered' = [entered EXCEPT ![part] = atTablet] /\ idle' = 0 /\ quiet' = 0
    BY <2>1 DEF Enter, Touch, Filling
  <2>3. entered' \in [Parts -> company \cup {NoOne}]
    BY <1>2, <2>2 DEF FormSound, HeldBy
  <2> QED
    BY <1>1, <1>2, <2>2, <2>3 DEF FormSound, HeldBy
<1>10. CASE Draw \/ ClearInk
  <2>1. /\ Filling /\ atTablet # NoOne /\ UNCHANGED <<atTablet, entered, company>>
        /\ ink' \in {atTablet, NoOne} /\ idle' = 0 /\ quiet' = 0
    BY <1>10 DEF Draw, ClearInk, Touch, Filling
  <2> QED
    BY <1>1, <1>2, <2>1 DEF FormSound, HeldBy
<1>11. CASE Tap \/ Forward \/ Finish
  <2>1. Filling /\ UNCHANGED <<atTablet, entered, ink, company>> /\ idle' = 0 /\ quiet' = 0
    BY <1>11 DEF Tap, Forward, Finish, Touch, Filling
  <2> QED
    BY <1>1, <1>2, <2>1 DEF FormSound
<1>12. CASE SignatureSaved \/ SendFails \/ UNCHANGED kioskVars
  <2>1. Filling /\ UNCHANGED <<atTablet, entered, ink, idle, quiet, company>>
    BY <1>12 DEF SignatureSaved, SendFails, kioskVars, Filling, history
  <2> QED
    BY <1>2, <2>1 DEF FormSound
<1> QED
  BY <1>3, <1>4, <1>5, <1>6, <1>7, <1>8, <1>9, <1>10, <1>11, <1>12 DEF KioskNext

\* What is sent, and what the server has, is of those who stood at it.
LEMMA SentAsHeld ==
  KioskInv /\ [KioskNext]_kioskVars =>
    OfThose(sending') /\ \A f \in received' : OfThose(f)
<1> SUFFICES ASSUME KioskInv, [KioskNext]_kioskVars
             PROVE  OfThose(sending') /\ \A f \in received' : OfThose(f)
  OBVIOUS
<1>1. OfThose(sending) /\ \A f \in received : OfThose(f)
  BY DEF KioskInv
<1>2. Received => \A f \in received' : OfThose(f)
  <2>1. OfThose([parts |-> sending.parts, ink |-> sending.ink, of |-> sending.of])
    BY <1>1 DEF OfThose
  <2> QED
    BY <1>1, <2>1 DEF Received
<1>3. CASE Finish
  <2>1. /\ Filling /\ sending'.parts = entered /\ sending'.ink = ink /\ sending'.of = company
        /\ received' = received
    BY <1>3 DEF Finish, Touch, Filling
  <2>2. HeldBy(entered, ink, company)
    BY <2>1 DEF KioskInv, FormSound
  <2> QED
    BY <1>1, <2>1, <2>2 DEF OfThose
<1>4. CASE SignatureSaved
  <2>1. /\ sending'.parts = sending.parts /\ sending'.ink = sending.ink
        /\ sending'.of = sending.of /\ received' = received
    BY <1>4 DEF SignatureSaved, KioskInv, KioskTypeOK
  <2> QED
    BY <1>1, <2>1 DEF OfThose
<1>5. CASE DraftSaved \/ SendFails
  <2>1. sending' = NoForm /\ (received' = received \/ Received)
    BY <1>5 DEF DraftSaved, SendFails
  <2> QED
    BY <1>1, <1>2, <2>1, NothingSent
<1>6. CASE Moment \/ Rotate \/ HandOver \/ WalkAway \/ Begin \/ Tap \/ Forward \/ UNCHANGED kioskVars
  <2>1. UNCHANGED <<sending, received>>
    BY <1>6 DEF Moment, Rotate, HandOver, WalkAway, Begin, Tap, Forward, kioskVars
  <2> QED
    BY <1>1, <2>1
<1>7. CASE \/ \E v \in Visitors : StepUp(v)
           \/ \E part \in Parts : Enter(part)
           \/ Draw \/ ClearInk \/ HandBack
  <2>1. UNCHANGED <<sending, received>>
    BY <1>7 DEF StepUp, Enter, Draw, ClearInk, HandBack
  <2> QED
    BY <1>1, <2>1
<1> QED
  BY <1>3, <1>4, <1>5, <1>6, <1>7 DEF KioskNext

\* The invariant is inductive.
LEMMA KioskStep == KioskInv /\ [KioskNext]_kioskVars => KioskInv'
<1> SUFFICES ASSUME KioskInv, [KioskNext]_kioskVars PROVE KioskInv'
  OBVIOUS
<1>1. KioskTypeOK'
  BY KioskTypes DEF KioskInv
<1>2. (stage \in {"setup", "welcome"} => entered = Blank /\ ink = NoOne)'
  BY WelcomeIsEmpty
<1>3. (Filling => FormSound)'
  BY FormStaysSound
<1>4. (OfThose(sending) /\ \A f \in received : OfThose(f))'
  BY SentAsHeld
<1> QED
  BY <1>1, <1>2, <1>3, <1>4 DEF KioskInv

\* It keeps forms apart.
LEMMA KeptApart == KioskInv => PeopleKeptApart
<1> SUFFICES ASSUME KioskInv PROVE PeopleKeptApart
  OBVIOUS
<1>1. ASSUME NEW f \in received
      PROVE  {f.parts[part] : part \in Parts} \cup {f.ink} \subseteq f.of \cup {NoOne}
  BY DEF KioskInv, OfThose, HeldBy
<1>2. ASSUME Filling
      PROVE  Shown \subseteq company \cup {NoOne} /\ quiet < IdleLimit
  BY <1>2 DEF KioskInv, FormSound, HeldBy, Shown
<1> QED
  BY <1>1, <1>2 DEF PeopleKeptApart

-----------------------------------------------------------------------------
(* The screen on which consent is withdrawn                                *)

ListSet  == [of : Identities \cup {Nothing}, rows : [Purposes -> Standing]]
ToldSet  == [of : Identities \cup {Nothing},
             told : [Purposes -> {"none", "changed", "already", "declined", "not_found"}]]
GotSet   == [ok : BOOLEAN, people : SUBSET Identities, list : ListSet, outcomes : ToldSet]
CallSet  == [n : Nat, kind : {"request", "verify", "select", "load", "withdraw"},
             challenge : Nat, right : BOOLEAN, person : Identities \cup {Nothing},
             caller : Identities \cup {Nothing}, purposes : SUBSET Purposes, served : BOOLEAN, got : GotSet]

\* A request under way: it was sent, and one that needs a token was given one.
Sound(c) ==
  /\ c \in CallSet /\ c.n \in 1 .. sent
  /\ c.kind \in {"load", "withdraw"} => c.person \in Identities
  /\ c.kind = "withdraw" => token # Nothing

\* Where the chains of m end: r[p] is the unmerged identity that p leads to.
Roots(r, m) ==
  /\ r \in [Identities -> Identities]
  /\ \A p \in Identities : /\ m[r[p]] = Nothing
                           /\ m[p] = Nothing => r[p] = p
                           /\ m[p] # Nothing => r[m[p]] = r[p]

\* What an answer o calls withdrawn has been, by the withdrawals in all: of the
\* identity it names or of one with the same root.
Truth(o, r, all) ==
  \A u \in Purposes : o.told[u] \in {"changed", "already"} =>
    o.of \in Identities /\ \E q \in Identities : <<q, u>> \in all /\ r[q] = r[o.of]

\* The rows in st are of identities nobody was merged away from, and behind every
\* row that reads withdrawn there is a withdrawal, of the row's identity or of one
\* since folded into it.
Backed(st, r, all) ==
  \A p \in Identities, u \in Purposes :
    /\ st[p][u] # "none" => r[p] = p
    /\ st[p][u] = "withdrawn" => \E q \in Identities : <<q, u>> \in all /\ r[q] = p

ScreenTypes ==
  /\ WithdrawTypeOK
  /\ outcomes \in ToldSet
  /\ \A c \in requests : Sound(c)

\* The roots r bear out the register and every answer.
Borne(r) ==
  /\ Roots(r, into)
  /\ Backed(status, r, stops)
  /\ Truth(outcomes, r, stops) /\ \A c \in requests : Truth(c.got.outcomes, r, stops)

\* The inductive invariant: identities have roots, and they bear the answers out.
ScreenInv ==
  /\ ScreenTypes
  /\ Acyclic(into, Identities)
  /\ \E r \in [Identities -> Identities] : Borne(r)

\* The survivor of an identity is the root of its chain.
LEMMA SurvivorIn ==
  ASSUME NEW m \in [Identities -> Identities \cup {Nothing}], Acyclic(m, Identities),
         NEW r, Roots(r, m), NEW p \in Identities
  PROVE  (CHOOSE q \in ChainFrom(p, m, Cardinality(Identities), Nothing) : m[q] = Nothing) = r[p]
<1> DEFINE depth == Cardinality(Identities)
           chain == ChainFrom(p, m, depth, Nothing)
           M     == {q \in Identities : m[q] # Nothing}
           S     == {q \in Identities : r[q] = r[p]}
<1>1. depth \in Nat /\ IsFiniteSet(M) /\ Cardinality(M) <= depth
  <2>1. IsFiniteSet(Identities) /\ M \subseteq Identities
    BY ScreenAssumption
  <2> HIDE DEF M
  <2> QED
    BY <2>1, FS_Subset, FS_CardinalityType
<1>2. \E q \in chain : q \in Identities /\ m[q] = Nothing
  <2> HIDE DEF depth
  <2> QED
    BY <1>1, ChainEnds
<1>3. chain \subseteq S
  <2>1. p \in S /\ \A q \in S : m[q] \in S \cup {Nothing}
    BY DEF Roots
  <2> HIDE DEF S, depth
  <2> QED
    BY <1>1, <2>1, ChainStays
<1>4. \A q \in chain : m[q] = Nothing => q = r[p]
  BY <1>3 DEF Roots
<1> HIDE DEF chain, S, M
<1>5. (CHOOSE q \in chain : m[q] = Nothing) = r[p]
  BY <1>2, <1>4
<1> QED
  BY <1>5 DEF chain, depth

\* Merging an unmerged identity into another closes no cycle.
LEMMA MergeAcyclic ==
  ASSUME NEW m \in [Identities -> Identities \cup {Nothing}], Acyclic(m, Identities),
         NEW a \in Identities, NEW s \in Identities, a # s, m[s] = Nothing
  PROVE  Acyclic([m EXCEPT ![a] = s], Identities)
<1> PICK n : n = [m EXCEPT ![a] = s]
  OBVIOUS
<1>1. n[a] = s /\ \A q \in Identities : q # a => n[q] = m[q]
  OBVIOUS
<1>2. ASSUME NEW S \in SUBSET Identities, S # {}
      PROVE  \E q \in S : n[q] \notin S
  <2>1. CASE a \in S /\ s \notin S
    BY <1>1, <2>1
  <2>2. CASE s \in S
    <3>1. n[s] = Nothing /\ Nothing \notin S
      BY <1>1, ScreenAssumption
    <3> QED
      BY <2>2, <3>1
  <2>3. CASE a \notin S
    <3>1. PICK q \in S : m[q] \notin S
      BY <1>2 DEF Acyclic
    <3> QED
      BY <1>1, <2>3, <3>1
  <2> QED
    BY <2>1, <2>2, <2>3
<1>3. Acyclic(n, Identities)
  BY <1>2 DEF Acyclic
<1> QED
  BY <1>3

\* The roots after a merge: what led to the one leads to the other.
Led(r, a, s) == [p \in Identities |-> IF r[p] = a THEN s ELSE r[p]]

LEMMA MergeRoots ==
  ASSUME NEW m \in [Identities -> Identities \cup {Nothing}],
         NEW a \in Identities, NEW s \in Identities, a # s, m[a] = Nothing, m[s] = Nothing,
         NEW r, Roots(r, m)
  PROVE  Roots(Led(r, a, s), [m EXCEPT ![a] = s])
<1> PICK n : n = [m EXCEPT ![a] = s]
  OBVIOUS
<1> PICK t : t = Led(r, a, s)
  OBVIOUS
<1>1. n[a] = s /\ \A q \in Identities : q # a => n[q] = m[q]
  OBVIOUS
<1>2. /\ t \in [Identities -> Identities]
      /\ \A p \in Identities : t[p] = IF r[p] = a THEN s ELSE r[p]
  BY DEF Led, Roots
<1>3. /\ r \in [Identities -> Identities] /\ r[a] = a /\ r[s] = s
      /\ \A p \in Identities : /\ m[r[p]] = Nothing
                               /\ m[p] = Nothing => r[p] = p
                               /\ m[p] # Nothing => r[m[p]] = r[p]
  BY DEF Roots
<1>4. ASSUME NEW p \in Identities
      PROVE  /\ n[t[p]] = Nothing
             /\ n[p] = Nothing => t[p] = p
             /\ n[p] # Nothing => t[n[p]] = t[p]
  <2>1. n[t[p]] = Nothing
    BY <1>1, <1>2, <1>3
  <2>2. CASE p = a
    <3>1. n[p] # Nothing /\ t[n[p]] = s /\ t[p] = s
      BY <1>1, <1>2, <1>3, <2>2, ScreenAssumption
    <3> QED
      BY <2>1, <3>1
  <2>3. CASE p # a
    BY <1>1, <1>2, <1>3, <2>1, <2>3
  <2> QED
    BY <2>2, <2>3
<1>5. Roots(t, n)
  BY <1>2, <1>4 DEF Roots
<1> QED
  BY <1>5

\* More withdrawals make no answer untrue.
LEMMA TruthGrows ==
  ASSUME NEW o, NEW r, NEW all, NEW more, all \subseteq more, Truth(o, r, all)
  PROVE  Truth(o, r, more)
BY DEF Truth

\* Nor does a merge.
LEMMA TruthLed ==
  ASSUME NEW o, NEW r, NEW all, NEW a, NEW s, Truth(o, r, all)
  PROVE  Truth(o, Led(r, a, s), all)
BY DEF Truth, Led

\* The answers that say nothing.
LEMMA NothingTold ==
  /\ NoList \in ListSet /\ NoOutcome \in ToldSet
  /\ \A r, all : Truth(NoOutcome, r, all)
BY DEF NoList, NoOutcome, ListSet, ToldSet, Standing, Truth

\* A merge of a into s keeps the rows backed.
LEMMA MergeBacked ==
  ASSUME NEW m \in [Identities -> Identities \cup {Nothing}],
         NEW a \in Identities, NEW s \in Identities, a # s, m[a] = Nothing, m[s] = Nothing,
         NEW r, Roots(r, m), NEW all,
         NEW st \in [Identities -> [Purposes -> Standing]], Backed(st, r, all),
         NEW kept \in [Purposes -> {a, s}]
  PROVE  Backed([st EXCEPT ![s] = [u \in Purposes |-> st[kept[u]][u]],
                           ![a] = [u \in Purposes |-> "none"]], Led(r, a, s), all)
<1> PICK new : new = [st EXCEPT ![s] = [u \in Purposes |-> st[kept[u]][u]],
                                ![a] = [u \in Purposes |-> "none"]]
  OBVIOUS
<1> PICK t : t = Led(r, a, s)
  OBVIOUS
<1>1. /\ r \in [Identities -> Identities]
      /\ \A q \in Identities : t[q] = IF r[q] = a THEN s ELSE r[q]
  BY DEF Led, Roots
<1>2. ASSUME NEW p \in Identities, NEW u \in Purposes, new[p][u] # "none"
      PROVE  t[p] = p
  <2>1. p # a
    BY <1>2
  <2>2. CASE p = s
    BY <1>1, <2>1, <2>2 DEF Roots
  <2>3. CASE p # s
    <3>1. st[p][u] # "none"
      BY <1>2, <2>1, <2>3
    <3> QED
      BY <1>1, <2>1, <3>1 DEF Backed
  <2> QED
    BY <2>2, <2>3
<1>3. ASSUME NEW p \in Identities, NEW u \in Purposes, new[p][u] = "withdrawn"
      PROVE  \E q \in Identities : <<q, u>> \in all /\ t[q] = p
  <2>1. p # a
    BY <1>3
  <2>2. CASE p = s
    <3>1. st[kept[u]][u] = "withdrawn" /\ kept[u] \in {a, s}
      BY <1>3, <2>1, <2>2
    <3>2. PICK q \in Identities : <<q, u>> \in all /\ r[q] = kept[u]
      BY <3>1 DEF Backed
    <3> QED
      BY <1>1, <2>2, <3>1, <3>2
  <2>3. CASE p # s
    <3>1. st[p][u] = "withdrawn"
      BY <1>3, <2>1, <2>3
    <3>2. PICK q \in Identities : <<q, u>> \in all /\ r[q] = p
      BY <3>1 DEF Backed
    <3> QED
      BY <1>1, <2>1, <3>2
  <2> QED
    BY <2>2, <2>3
<1>4. Backed(new, t, all)
  BY <1>2, <1>3 DEF Backed
<1> QED
  BY <1>4

\* What others do to the register keeps the invariant.
LEMMA OthersStep == ScreenInv /\ Others => ScreenInv'
<1> SUFFICES ASSUME ScreenInv, Others PROVE ScreenInv'
  OBVIOUS
<1>1. PICK r \in [Identities -> Identities] : Borne(r)
  BY DEF ScreenInv
<1>2. /\ into \in [Identities -> Identities \cup {Nothing}]
      /\ status \in [Identities -> [Purposes -> Standing]]
      /\ stops \subseteq Identities \X Purposes /\ outside \in 0 .. MaxOutside
      /\ Acyclic(into, Identities) /\ MaxOutside \in Nat
  BY ScreenAssumption DEF ScreenInv, ScreenTypes, WithdrawTypeOK
<1>3. UNCHANGED <<screenVars, code>> /\ outside' \in 0 .. MaxOutside
  <2>1. UNCHANGED <<screenVars, code>> /\ Meanwhile
    BY DEF Others, GrantAgain, StopOtherwise, MergeInto
  <2> QED
    BY <1>2, <2>1 DEF Meanwhile
<1>4. ASSUME /\ into' \in [Identities -> Identities \cup {Nothing}]
             /\ status' \in [Identities -> [Purposes -> Standing]]
             /\ stops' \subseteq Identities \X Purposes
      PROVE  ScreenTypes'
  <2>1. WithdrawTypeOK'
    BY <1>3, <1>4 DEF ScreenInv, ScreenTypes, WithdrawTypeOK, screenVars
  <2>2. (outcomes \in ToldSet)' /\ (\A c \in requests : Sound(c))'
    BY <1>3 DEF ScreenInv, ScreenTypes, screenVars, Sound, ToldSet, CallSet, GotSet, ListSet
  <2> QED
    BY <2>1, <2>2 DEF ScreenTypes
<1>5. ASSUME NEW p \in Identities, NEW u \in Purposes, GrantAgain(p, u)
      PROVE  ScreenInv'
  <2>1. /\ into[p] = Nothing /\ UNCHANGED <<into, stops>>
        /\ status' = [status EXCEPT ![p][u] = "active"]
    BY <1>5 DEF GrantAgain
  <2>2. status' \in [Identities -> [Purposes -> Standing]]
    BY <1>2, <2>1 DEF Standing
  <2>3. \A q \in Identities, w \in Purposes :
          /\ status'[q][w] = "withdrawn" => status[q][w] = "withdrawn"
          /\ status'[q][w] # "none" => status[q][w] # "none" \/ q = p
    BY <1>2, <2>1
  <2>4. Backed(status', r, stops')
    <3>1. r[p] = p /\ Backed(status, r, stops)
      BY <1>1, <2>1 DEF Borne, Roots
    <3>2. ASSUME NEW q \in Identities, NEW w \in Purposes
          PROVE  /\ status'[q][w] # "none" => r[q] = q
                 /\ status'[q][w] = "withdrawn" =>
                      \E x \in Identities : <<x, w>> \in stops' /\ r[x] = q
      <4>1. status'[q][w] # "none" => r[q] = q
        BY <2>3, <3>1 DEF Backed
      <4>2. status'[q][w] = "withdrawn" =>
              \E x \in Identities : <<x, w>> \in stops /\ r[x] = q
        BY <2>3, <3>1 DEF Backed
      <4> QED
        BY <2>1, <4>1, <4>2
    <3> QED
      BY <3>2 DEF Backed
  <2>5. Borne(r)'
    BY <1>1, <1>3, <2>1, <2>4 DEF Borne, screenVars
  <2> QED
    BY <1>1, <1>2, <1>4, <2>1, <2>2, <2>5 DEF ScreenInv
<1>6. ASSUME NEW p \in Identities, NEW u \in Purposes, StopOtherwise(p, u)
      PROVE  ScreenInv'
  <2>1. /\ into[p] = Nothing /\ into' = into
        /\ status' = [status EXCEPT ![p][u] = "withdrawn"] /\ stops' = stops \cup {<<p, u>>}
    BY <1>6 DEF StopOtherwise
  <2>2. /\ status' \in [Identities -> [Purposes -> Standing]]
        /\ stops \subseteq stops' /\ stops' \subseteq Identities \X Purposes
    BY <1>2, <2>1 DEF Standing
  <2>3. Backed(status', r, stops')
    <3>1. ASSUME NEW q \in Identities, NEW w \in Purposes, status'[q][w] = "withdrawn"
          PROVE  \E x \in Identities : <<x, w>> \in stops' /\ r[x] = q
      <4>1. CASE q = p /\ w = u
        BY <1>1, <2>1, <4>1 DEF Borne, Roots
      <4>2. CASE ~ (q = p /\ w = u)
        BY <1>1, <1>2, <2>1, <3>1, <4>2 DEF Borne, Backed
      <4> QED
        BY <4>1, <4>2
    <3>2. \A q \in Identities, w \in Purposes :
            status'[q][w] # "none" => status[q][w] # "none" \/ q = p
      BY <1>2, <2>1
    <3>3. r[p] = p
      BY <1>1, <2>1 DEF Borne, Roots
    <3>4. \A q \in Identities, w \in Purposes : status'[q][w] # "none" => r[q] = q
      BY <1>1, <3>2, <3>3 DEF Borne, Backed
    <3> QED
      BY <3>1, <3>4 DEF Backed
  <2>4. \A o : Truth(o, r, stops) => Truth(o, r, stops')
    BY <2>2, TruthGrows
  <2>5. Borne(r)'
    BY <1>1, <1>3, <2>1, <2>3, <2>4 DEF Borne, screenVars
  <2> QED
    BY <1>1, <1>2, <1>4, <2>1, <2>2, <2>5 DEF ScreenInv
<1>7. ASSUME NEW a \in Identities, NEW s \in Identities, MergeInto(a, s)
      PROVE  ScreenInv'
  <2>1. /\ a # s /\ into[a] = Nothing /\ into[s] = Nothing
        /\ into' = [into EXCEPT ![a] = s] /\ stops' = stops
    BY <1>7 DEF MergeInto
  <2>2. PICK kept \in [Purposes -> {a, s}] :
          status' = [status EXCEPT ![s] = [u \in Purposes |-> status[kept[u]][u]],
                                   ![a] = [u \in Purposes |-> "none"]]
    BY <1>7 DEF MergeInto
  <2>3. /\ into' \in [Identities -> Identities \cup {Nothing}]
        /\ status' \in [Identities -> [Purposes -> Standing]]
    BY <1>2, <2>1, <2>2 DEF Standing
  <2>4. Acyclic(into', Identities)
    BY <1>2, <2>1, MergeAcyclic
  <2>5. Roots(Led(r, a, s), into')
    BY <1>1, <1>2, <2>1, MergeRoots DEF Borne
  <2>6. Backed(status', Led(r, a, s), stops')
    BY <1>1, <1>2, <2>1, <2>2, MergeBacked DEF Borne
  <2>7. \A o : Truth(o, r, stops) => Truth(o, Led(r, a, s), stops')
    BY <2>1, TruthLed
  <2>8. PICK t \in [Identities -> Identities] : t = Led(r, a, s)
    BY DEF Led
  <2>9. Borne(t)'
    BY <1>1, <1>3, <2>5, <2>6, <2>7, <2>8 DEF Borne, screenVars
  <2> QED
    BY <1>2, <1>4, <2>1, <2>3, <2>4, <2>9 DEF ScreenInv
<1> QED
  BY <1>5, <1>6, <1>7 DEF Others

\* A request that a click makes.
LEMMA FreshCall ==
  ASSUME ScreenTypes, sent < MaxCalls,
         NEW kind \in {"request", "verify", "select", "load", "withdraw"}
  PROVE  /\ Fresh(kind) \in CallSet /\ Fresh(kind).n = sent + 1 /\ Fresh(kind).kind = kind
         /\ Fresh(kind).got.outcomes = NoOutcome
         /\ sent + 1 \in Nat /\ sent + 1 \in 1 .. sent + 1 /\ sent + 1 \in 0 .. MaxCalls
<1>1. sent \in Nat /\ MaxCalls \in Nat
  BY ScreenAssumption DEF ScreenTypes, WithdrawTypeOK
<1>2. [ok |-> FALSE, people |-> {}, list |-> NoList, outcomes |-> NoOutcome] \in GotSet
  BY NothingTold DEF GotSet
<1> QED
  BY <1>1, <1>2 DEF Fresh, CallSet

\* The requests under way stay sound while one is added to them.
LEMMA SendSound ==
  ASSUME ScreenTypes, NEW c, Send(c), token' = token, c \in CallSet, c.n = sent + 1,
         c.kind \in {"load", "withdraw"} => c.person \in Identities,
         c.kind = "withdraw" => token # Nothing
  PROVE  /\ (\A d \in requests : Sound(d))'
         /\ sent' \in 0 .. MaxCalls /\ {d.n : d \in requests'} \subseteq 1 .. sent'
         /\ busy' \in BOOLEAN
<1>1. /\ sent \in Nat /\ MaxCalls \in Nat /\ sent < MaxCalls
      /\ requests' = requests \cup {c} /\ sent' = sent + 1 /\ busy' = TRUE
  BY ScreenAssumption DEF ScreenTypes, WithdrawTypeOK, Send
<1>2. ASSUME NEW d \in requests' PROVE Sound(d)' /\ d.n \in 1 .. sent'
  <2>1. CASE d = c
    BY <1>1, <2>1 DEF Sound, CallSet, GotSet, ToldSet, ListSet
  <2>2. CASE d \in requests
    <3>1. Sound(d)
      BY <2>2 DEF ScreenTypes
    <3>2. d.n \in 1 .. sent'
      BY <1>1, <3>1 DEF Sound
    <3> QED
      BY <3>1, <3>2 DEF Sound, CallSet, GotSet, ToldSet, ListSet
  <2> QED
    BY <1>1, <2>1, <2>2
<1> QED
  BY <1>1, <1>2

\* A click keeps the types.
LEMMA ClickTypes == ScreenTypes /\ Click => ScreenTypes'
<1> SUFFICES ASSUME ScreenTypes, Click PROVE ScreenTypes'
  OBVIOUS
<1>1. /\ challengeId \in Nat /\ matches \subseteq Identities /\ selected \subseteq Purposes
      /\ token \in Identities \cup {Nothing}
  BY ScreenAssumption DEF ScreenTypes, WithdrawTypeOK
<1>2. ASSUME NEW c, Send(c), c \in CallSet, c.n = sent + 1,
             c.kind \in {"load", "withdraw"} => c.person \in Identities,
             c.kind = "withdraw" => token # Nothing,
             UNCHANGED <<register, step, challengeId, matches, token, list, selected, outcomes>>
      PROVE  ScreenTypes'
  <2>1. /\ (\A d \in requests : Sound(d))'
        /\ sent' \in 0 .. MaxCalls /\ {d.n : d \in requests'} \subseteq 1 .. sent'
        /\ busy' \in BOOLEAN
    BY <1>2, SendSound
  <2>2. WithdrawTypeOK'
    BY <1>2, <2>1 DEF ScreenTypes, WithdrawTypeOK, register
  <2>3. (outcomes \in ToldSet)'
    BY <1>2 DEF ScreenTypes, ToldSet
  <2> QED
    BY <2>1, <2>2, <2>3 DEF ScreenTypes
<1>3. CASE RequestCode
  <2>1. sent < MaxCalls
    BY <1>3 DEF RequestCode, Send
  <2> QED
    BY <1>2, <1>3, <2>1, FreshCall DEF RequestCode
<1>4. ASSUME NEW right \in BOOLEAN, SubmitCode(right) PROVE ScreenTypes'
  <2>1. PICK c : c = [Fresh("verify") EXCEPT !.challenge = challengeId, !.right = right]
    OBVIOUS
  <2>2. sent < MaxCalls
    BY <1>4 DEF SubmitCode, Send
  <2>3. c \in CallSet /\ c.n = sent + 1 /\ c.kind = "verify"
    BY <1>1, <2>1, <2>2, FreshCall DEF CallSet
  <2> QED
    BY <1>2, <1>4, <2>1, <2>3 DEF SubmitCode
<1>5. ASSUME NEW p \in Identities, ChoosePerson(p) PROVE ScreenTypes'
  <2>1. PICK c : c = [Fresh("select") EXCEPT !.challenge = challengeId, !.person = p]
    OBVIOUS
  <2>2. sent < MaxCalls
    BY <1>5 DEF ChoosePerson, Send
  <2>3. c \in CallSet /\ c.n = sent + 1 /\ c.kind = "select"
    BY <1>1, <2>1, <2>2, FreshCall DEF CallSet
  <2> QED
    BY <1>2, <1>5, <2>1, <2>3 DEF ChoosePerson
<1>6. CASE Withdraw
  <2>1. PICK c : c = [Fresh("withdraw") EXCEPT !.person = token, !.purposes = selected]
    OBVIOUS
  <2>2. sent < MaxCalls /\ token # Nothing
    BY <1>6 DEF Withdraw, Send
  <2>3. c \in CallSet /\ c.n = sent + 1 /\ c.kind = "withdraw" /\ c.person = token
    BY <1>1, <2>1, <2>2, FreshCall DEF CallSet
  <2> QED
    BY <1>1, <1>2, <1>6, <2>1, <2>2, <2>3 DEF Withdraw
<1>7. ASSUME step' \in {step, "contact"}, selected' \subseteq Purposes,
             UNCHANGED <<register, challengeId, matches, token, list, busy, outcomes, requests, sent>>
      PROVE  ScreenTypes'
  <2>1. WithdrawTypeOK'
    BY <1>7 DEF ScreenTypes, WithdrawTypeOK, register
  <2>2. (outcomes \in ToldSet)' /\ (\A c \in requests : Sound(c))'
    BY <1>7 DEF ScreenTypes, Sound, ToldSet, CallSet, GotSet, ListSet
  <2> QED
    BY <2>1, <2>2 DEF ScreenTypes
<1>8. CASE Back
  BY <1>1, <1>7, <1>8 DEF Back
<1>9. ASSUME NEW u \in Purposes, TickPurpose(u) PROVE ScreenTypes'
  <2>1. selected' \subseteq Purposes
    BY <1>1, <1>9 DEF TickPurpose
  <2> QED
    BY <1>7, <1>9, <2>1 DEF TickPurpose
<1> QED
  BY <1>3, <1>4, <1>5, <1>6, <1>8, <1>9 DEF Click

\* A click keeps the invariant: what it sends has been told nothing.
LEMMA ClickStep == ScreenInv /\ Click => ScreenInv'
<1> SUFFICES ASSUME ScreenInv, Click PROVE ScreenInv'
  OBVIOUS
<1>1. PICK r \in [Identities -> Identities] : Borne(r)
  BY DEF ScreenInv
<1>2. ScreenTypes /\ ScreenTypes' /\ Acyclic(into, Identities)
  BY ClickTypes DEF ScreenInv
<1>3. UNCHANGED <<register, outcomes>>
  BY DEF Click, RequestCode, Back, SubmitCode, ChoosePerson, TickPurpose, Withdraw
<1>4. \A c \in requests' : c \in requests \/ c.got.outcomes = NoOutcome
  <2>1. ASSUME NEW c, Send(c), c.got.outcomes = NoOutcome
        PROVE  \A d \in requests' : d \in requests \/ d.got.outcomes = NoOutcome
    BY <2>1 DEF Send
  <2>2. CASE Back \/ \E u \in Purposes : TickPurpose(u)
    BY <2>2 DEF Back, TickPurpose
  <2>3. CASE RequestCode
    <3>1. Send(Fresh("request")) /\ sent < MaxCalls
      BY <2>3 DEF RequestCode, Send
    <3> QED
      BY <1>2, <2>1, <3>1, FreshCall
  <2>4. CASE Withdraw
    <3>1. PICK c : c = [Fresh("withdraw") EXCEPT !.person = token, !.purposes = selected]
      OBVIOUS
    <3>2. Send(c) /\ sent < MaxCalls
      BY <2>4, <3>1 DEF Withdraw, Send
    <3>3. c.got.outcomes = NoOutcome
      BY <1>2, <3>1, <3>2, FreshCall DEF CallSet
    <3> QED
      BY <2>1, <3>2, <3>3
  <2>5. ASSUME NEW right \in BOOLEAN, SubmitCode(right)
        PROVE  \A d \in requests' : d \in requests \/ d.got.outcomes = NoOutcome
    <3>1. PICK c : c = [Fresh("verify") EXCEPT !.challenge = challengeId, !.right = right]
      OBVIOUS
    <3>2. Send(c) /\ sent < MaxCalls
      BY <2>5, <3>1 DEF SubmitCode, Send
    <3>3. c.got.outcomes = NoOutcome
      BY <1>2, <3>1, <3>2, FreshCall DEF CallSet
    <3> QED
      BY <2>1, <3>2, <3>3
  <2>6. ASSUME NEW p \in Identities, ChoosePerson(p)
        PROVE  \A d \in requests' : d \in requests \/ d.got.outcomes = NoOutcome
    <3>1. PICK c : c = [Fresh("select") EXCEPT !.challenge = challengeId, !.person = p]
      OBVIOUS
    <3>2. Send(c) /\ sent < MaxCalls
      BY <2>6, <3>1 DEF ChoosePerson, Send
    <3>3. c.got.outcomes = NoOutcome
      BY <1>2, <3>1, <3>2, FreshCall DEF CallSet
    <3> QED
      BY <2>1, <3>2, <3>3
  <2> QED
    BY <2>2, <2>3, <2>4, <2>5, <2>6 DEF Click
<1>5. Borne(r)'
  BY <1>1, <1>3, <1>4, NothingTold DEF Borne, register
<1> QED
  BY <1>1, <1>2, <1>3, <1>5 DEF ScreenInv, register

\* An answer given to a request leaves the requests sound.
LEMMA ServedSound ==
  ASSUME ScreenTypes, NEW c \in requests, NEW got \in GotSet, Served(c, got),
         UNCHANGED <<token, sent>>
  PROVE  /\ (\A d \in requests : Sound(d))' /\ {d.n : d \in requests'} \subseteq 1 .. sent'
         /\ \A d \in requests' : d \in requests \/ d.got = got
<1> PICK e : e = [c EXCEPT !.served = TRUE, !.got = got]
  OBVIOUS
<1>1. Sound(c) /\ requests' = (requests \ {c}) \cup {e}
  BY DEF ScreenTypes, Served
<1>2. e \in CallSet /\ e.n = c.n /\ e.kind = c.kind /\ e.person = c.person /\ e.got = got
  BY <1>1 DEF Sound, CallSet
<1>3. Sound(e)
  BY <1>1, <1>2 DEF Sound
<1>4. \A d \in requests' : Sound(d)
  BY <1>1, <1>3 DEF ScreenTypes
<1>5. \A d : Sound(d) => Sound(d)' /\ d.n \in 1 .. sent'
  BY DEF Sound, CallSet, GotSet, ToldSet, ListSet
<1> QED
  BY <1>1, <1>2, <1>4, <1>5

\* What the routes answer, and what they leave of the code.
LEMMA RouteAnswers ==
  ASSUME ScreenInv, NEW c \in requests, ServeRequest(c) \/ ServeVerify(c) \/ ServeSelect(c)
  PROVE  /\ \E got \in GotSet : Served(c, got) /\ got.outcomes = c.got.outcomes
         /\ code' \in [id : 0 .. MaxCalls, matched : SUBSET Identities, verified : BOOLEAN]
         /\ UNCHANGED <<into, status, stops, outside, step, challengeId, matches, token, list,
                        selected, busy, outcomes, sent>>
<1> DEFINE Codes == [id : 0 .. MaxCalls, matched : SUBSET Identities, verified : BOOLEAN]
<1>1. /\ Sound(c) /\ c \in CallSet /\ c.got \in GotSet
      /\ code \in Codes /\ code.matched \in SUBSET Identities
      /\ c.n \in 0 .. MaxCalls /\ NoCode \in Codes
  BY ScreenAssumption DEF ScreenInv, ScreenTypes, WithdrawTypeOK, Sound, CallSet, NoCode
<1>2. CASE ServeRequest(c)
  <2>1. PICK got : got = [c.got EXCEPT !.ok = TRUE]
    OBVIOUS
  <2>2. got \in GotSet /\ got.outcomes = c.got.outcomes
    BY <1>1, <2>1 DEF GotSet
  <2>3. code' \in Codes
    BY <1>1, <1>2 DEF ServeRequest
  <2> QED
    BY <1>2, <2>1, <2>2, <2>3 DEF ServeRequest
<1>3. CASE ServeVerify(c)
  <2> DEFINE right == c.right /\ c.challenge = code.id
  <2>1. PICK got : got = [c.got EXCEPT !.ok = right,
                                       !.people = IF right THEN code.matched ELSE {}]
    OBVIOUS
  <2>2. got \in GotSet /\ got.outcomes = c.got.outcomes
    <3>1. right \in BOOLEAN
      BY <1>1 DEF CallSet
    <3>2. (IF right THEN code.matched ELSE {}) \in SUBSET Identities
      BY <1>1
    <3> HIDE DEF right
    <3> QED
      BY <1>1, <2>1, <3>1, <3>2 DEF GotSet
  <2>3. code' \in Codes
    <3>1. [code EXCEPT !.verified = TRUE] \in Codes
      BY <1>1
    <3>2. code' \in {code, NoCode, [code EXCEPT !.verified = TRUE]}
      BY <1>3 DEF ServeVerify
    <3> QED
      BY <1>1, <3>1, <3>2
  <2>4. Served(c, got)
    BY <1>3, <2>1 DEF ServeVerify
  <2> QED
    BY <1>3, <2>2, <2>3, <2>4 DEF ServeVerify
<1>4. CASE ServeSelect(c)
  <2> DEFINE right == c.challenge = code.id /\ code.verified /\ c.person \in code.matched
  <2>1. PICK got : got = [c.got EXCEPT !.ok = right, !.people = IF right THEN {c.person} ELSE {}]
    OBVIOUS
  <2>2. got \in GotSet /\ got.outcomes = c.got.outcomes
    <3>1. right \in BOOLEAN
      BY <1>1
    <3>2. (IF right THEN {c.person} ELSE {}) \in SUBSET Identities
      BY <1>1
    <3> HIDE DEF right
    <3> QED
      BY <1>1, <2>1, <3>1, <3>2 DEF GotSet
  <2>3. code' \in Codes
    BY <1>1, <1>4 DEF ServeSelect
  <2>4. Served(c, got)
    BY <1>4, <2>1 DEF ServeSelect
  <2> QED
    BY <1>4, <2>2, <2>3, <2>4 DEF ServeSelect
<1> QED
  BY <1>2, <1>3, <1>4

\* The identity whose consents are listed or withdrawn is unmerged.
LEMMA SurvivorIsRoot ==
  ASSUME ScreenInv, NEW r, Borne(r), NEW p \in Identities
  PROVE  Survivor(p) = r[p] /\ r[p] \in Identities /\ into[r[p]] = Nothing /\ r[r[p]] = r[p]
<1>1. /\ into \in [Identities -> Identities \cup {Nothing}] /\ Acyclic(into, Identities)
      /\ Roots(r, into)
  BY DEF ScreenInv, ScreenTypes, WithdrawTypeOK, Borne
<1>2. Survivor(p) = r[p]
  BY <1>1, SurvivorIn DEF Survivor
<1> QED
  BY <1>1, <1>2 DEF Roots

\* A step of the routes that changes neither the register nor what was withdrawn,
\* and tells a request no more than it was told, keeps the invariant.
LEMMA QuietServe ==
  ASSUME ScreenInv, NEW c \in requests, NEW got \in GotSet, Served(c, got),
         got.outcomes = c.got.outcomes,
         code' \in [id : 0 .. MaxCalls, matched : SUBSET Identities, verified : BOOLEAN],
         UNCHANGED <<into, status, stops, outside, step, challengeId, matches, token, list,
                     selected, busy, outcomes, sent>>
  PROVE  ScreenInv'
<1>1. PICK r \in [Identities -> Identities] : Borne(r)
  BY DEF ScreenInv
<1>2. ScreenTypes
  BY DEF ScreenInv
<1>3. /\ (\A d \in requests : Sound(d))' /\ {d.n : d \in requests'} \subseteq 1 .. sent'
      /\ \A d \in requests' : d \in requests \/ d.got = got
  BY <1>2, ServedSound
<1>4. WithdrawTypeOK'
  BY <1>2, <1>3 DEF ScreenTypes, WithdrawTypeOK
<1>5. (outcomes \in ToldSet)'
  BY <1>2 DEF ScreenTypes, ToldSet
<1>6. ScreenTypes'
  BY <1>3, <1>4, <1>5 DEF ScreenTypes
<1>7. Borne(r)'
  BY <1>1, <1>3 DEF Borne
<1> QED
  BY <1>1, <1>6, <1>7 DEF ScreenInv

\* The list of consents tells nothing of withdrawals.
LEMMA LoadStep == ASSUME ScreenInv, NEW c \in requests, ServeLoad(c) PROVE ScreenInv'
<1>1. PICK r \in [Identities -> Identities] : Borne(r)
  BY DEF ScreenInv
<1>2. /\ Sound(c) /\ c.got \in GotSet /\ c.caller \in Identities
      /\ status \in [Identities -> [Purposes -> Standing]]
      /\ code \in [id : 0 .. MaxCalls, matched : SUBSET Identities, verified : BOOLEAN]
  BY DEF ServeLoad, Is, ScreenInv, ScreenTypes, WithdrawTypeOK, Sound, CallSet
<1>3. PICK p : p = c.caller
  OBVIOUS
<1>4. p \in Identities
  BY <1>2, <1>3
<1>5. PICK got : got = [c.got EXCEPT !.ok = TRUE, !.list = [of |-> p, rows |-> status[p]]]
  OBVIOUS
<1>6. got \in GotSet /\ got.outcomes = c.got.outcomes
  <2>1. [of |-> p, rows |-> status[p]] \in ListSet
    BY <1>2, <1>4 DEF ListSet
  <2> QED
    BY <1>2, <1>5, <2>1 DEF GotSet
<1>7. Served(c, got)
  BY <1>3, <1>5 DEF ServeLoad
<1>8. UNCHANGED <<into, status, code, stops, outside, step, challengeId, matches, token, list,
                  selected, busy, outcomes, sent>>
  BY DEF ServeLoad, register
<1> QED
  BY <1>2, <1>6, <1>7, <1>8, QuietServe

\* withdrawPurposes: each outcome says what became of its purpose.
LEMMA ServeWithdrawStep ==
  ASSUME ScreenInv, NEW c \in requests, ServeWithdraw(c) PROVE ScreenInv'
<1>1. PICK r \in [Identities -> Identities] : Borne(r)
  BY DEF ScreenInv
<1>2. /\ ScreenTypes /\ Sound(c) /\ c.got \in GotSet /\ c.caller \in Identities
      /\ c.purposes \subseteq Purposes
      /\ status \in [Identities -> [Purposes -> Standing]]
      /\ stops \subseteq Identities \X Purposes
  BY DEF ServeWithdraw, Is, ScreenInv, ScreenTypes, WithdrawTypeOK, Sound, CallSet
<1>3. PICK p : p = c.caller
  OBVIOUS
<1>4. /\ p \in Identities
      /\ \A u \in Purposes : status[p][u] # "none" => r[p] = p
  BY <1>1, <1>2, <1>3 DEF Borne, Backed
<1>5. PICK acts : acts = {u \in c.purposes : status[p][u] = "active"}
  OBVIOUS
<1>6. PICK told : told = [u \in Purposes |->
                            IF u \in c.purposes THEN Outcome(status[p][u]) ELSE "none"]
  OBVIOUS
<1>7. PICK said : said = [of |-> p, told |-> told]
  OBVIOUS
<1>8. PICK got : got = [c.got EXCEPT !.ok = TRUE, !.outcomes = said]
  OBVIOUS
<1>9. /\ status' = [status EXCEPT ![p] =
                      [u \in Purposes |-> IF u \in acts THEN "withdrawn" ELSE @[u]]]
      /\ stops' = stops \cup {<<p, u>> : u \in acts}
      /\ Served(c, got)
      /\ UNCHANGED <<into, code, outside, step, challengeId, matches, token, list, selected,
                     busy, outcomes, sent>>
  BY <1>3, <1>5, <1>6, <1>7, <1>8 DEF ServeWithdraw
<1>10. said \in ToldSet /\ got \in GotSet /\ got.outcomes = said
  <2>1. told \in [Purposes -> {"none", "changed", "already", "declined", "not_found"}]
    <3>1. \A u \in Purposes : status[p][u] \in Standing
      BY <1>2, <1>4
    <3> QED
      BY <1>6, <3>1 DEF Outcome, Standing
  <2>2. said \in ToldSet
    BY <1>4, <1>7, <2>1 DEF ToldSet
  <2> QED
    BY <1>2, <1>8, <2>2 DEF GotSet
<1>11. /\ status' \in [Identities -> [Purposes -> Standing]]
       /\ stops \subseteq stops' /\ stops' \subseteq Identities \X Purposes
  <2>1. \A u \in Purposes : status[p][u] \in Standing
    BY <1>2, <1>4
  <2>2. [u \in Purposes |-> IF u \in acts THEN "withdrawn" ELSE status[p][u]]
          \in [Purposes -> Standing]
    BY <2>1 DEF Standing
  <2>3. status' \in [Identities -> [Purposes -> Standing]]
    BY <1>2, <1>4, <1>9, <2>2
  <2>4. acts \subseteq Purposes
    BY <1>2, <1>5
  <2> QED
    BY <1>2, <1>4, <1>9, <2>3, <2>4
<1>12. /\ (\A d \in requests : Sound(d))' /\ {d.n : d \in requests'} \subseteq 1 .. sent'
       /\ \A d \in requests' : d \in requests \/ d.got = got
  BY <1>2, <1>9, <1>10, ServedSound
<1>13. ScreenTypes'
  <2>1. WithdrawTypeOK'
    BY <1>2, <1>9, <1>11, <1>12 DEF ScreenTypes, WithdrawTypeOK
  <2>2. (outcomes \in ToldSet)'
    BY <1>2, <1>9 DEF ScreenTypes, ToldSet
  <2> QED
    BY <1>12, <2>1, <2>2 DEF ScreenTypes
<1>14. Backed(status', r, stops')
  <2>1. ASSUME NEW q \in Identities, NEW u \in Purposes, status'[q][u] = "withdrawn"
        PROVE  \E x \in Identities : <<x, u>> \in stops' /\ r[x] = q
    <3>1. CASE q = p /\ u \in acts
      BY <1>4, <1>5, <1>9, <3>1
    <3>2. CASE ~ (q = p /\ u \in acts)
      <4>1. status[q][u] = "withdrawn"
        BY <1>2, <1>4, <1>9, <2>1, <3>2
      <4> QED
        BY <1>1, <1>11, <4>1 DEF Borne, Backed
    <3> QED
      BY <3>1, <3>2
  <2>2. ASSUME NEW q \in Identities, NEW u \in Purposes, status'[q][u] # "none"
        PROVE  r[q] = q
    <3>1. CASE q = p /\ u \in acts
      BY <1>4, <1>5, <3>1
    <3>2. CASE ~ (q = p /\ u \in acts)
      <4>1. status[q][u] # "none"
        BY <1>2, <1>4, <1>9, <2>2, <3>2
      <4> QED
        BY <1>1, <4>1 DEF Borne, Backed
    <3> QED
      BY <3>1, <3>2
  <2> QED
    BY <2>1, <2>2 DEF Backed
<1>15. Truth(said, r, stops')
  <2>1. ASSUME NEW u \in Purposes, told[u] \in {"changed", "already"}
        PROVE  \E q \in Identities : <<q, u>> \in stops' /\ r[q] = r[p]
    <3>1. /\ u \in c.purposes /\ told[u] = Outcome(status[p][u])
          /\ status[p][u] \in Standing
      BY <1>2, <1>4, <1>6, <2>1
    <3>2. status[p][u] \in {"active", "withdrawn"}
      BY <2>1, <3>1 DEF Outcome, Standing
    <3>3. CASE status[p][u] = "active"
      BY <1>4, <1>5, <1>9, <3>1, <3>3
    <3>4. CASE status[p][u] = "withdrawn"
      <4>1. \E q \in Identities : <<q, u>> \in stops /\ r[q] = p
        BY <1>1, <1>4, <3>4 DEF Borne, Backed
      <4>2. r[p] = p
        BY <1>4, <3>4
      <4> QED
        BY <1>11, <4>1, <4>2
    <3> QED
      BY <3>2, <3>3, <3>4
  <2>2. said.of = p /\ said.told = told
    BY <1>7
  <2> QED
    BY <1>4, <2>1, <2>2 DEF Truth
<1>16. \A o : Truth(o, r, stops) => Truth(o, r, stops')
  BY <1>11, TruthGrows
<1>17. Borne(r)'
  <2>1. Roots(r, into') /\ Truth(outcomes', r, stops')
    BY <1>1, <1>9, <1>16 DEF Borne
  <2>2. \A d \in requests' : Truth(d.got.outcomes, r, stops')
    BY <1>1, <1>10, <1>12, <1>15, <1>16 DEF Borne
  <2> QED
    BY <1>14, <2>1, <2>2 DEF Borne
<1> QED
  BY <1>1, <1>9, <1>13, <1>17 DEF ScreenInv

\* Whoever is resolved, nothing is told yet.
LEMMA ResolveStep == ASSUME ScreenInv, NEW c \in requests, ResolveCaller(c) PROVE ScreenInv'
<1>1. PICK r \in [Identities -> Identities] : Borne(r)
  BY DEF ScreenInv
<1>2. PICK p : p = Survivor(c.person)
  OBVIOUS
<1>3. PICK e : e = [c EXCEPT !.caller = p]
  OBVIOUS
<1>4. /\ requests' = (requests \ {c}) \cup {e}
      /\ UNCHANGED <<register, step, challengeId, matches, token, list, selected, busy, outcomes,
                     sent>>
  BY <1>2, <1>3 DEF ResolveCaller
<1>5. ScreenTypes /\ Sound(c) /\ c.person \in Identities
  BY DEF ResolveCaller, Is, ScreenInv, ScreenTypes, Sound
<1>6. p \in Identities
  BY <1>1, <1>2, <1>5, SurvivorIsRoot
<1>7. /\ e \in CallSet /\ e.n = c.n /\ e.kind = c.kind /\ e.person = c.person /\ e.got = c.got
  BY <1>3, <1>5, <1>6 DEF Sound, CallSet
<1>8. Sound(e)
  BY <1>5, <1>7 DEF Sound
<1>9. \A d : Sound(d) => Sound(d)' /\ d.n \in 1 .. sent'
  BY <1>4 DEF Sound, CallSet, GotSet, ToldSet, ListSet
<1>10. \A d \in requests' : Sound(d)
  BY <1>4, <1>5, <1>8 DEF ScreenTypes
<1>11. WithdrawTypeOK'
  <2>1. {d.n : d \in requests'} \subseteq 1 .. sent'
    BY <1>9, <1>10
  <2> QED
    BY <1>4, <1>5, <2>1 DEF ScreenTypes, WithdrawTypeOK, register
<1>12. (outcomes \in ToldSet)'
  BY <1>4, <1>5 DEF ScreenTypes, ToldSet
<1>13. ScreenTypes'
  BY <1>9, <1>10, <1>11, <1>12 DEF ScreenTypes
<1>14. Borne(r)'
  BY <1>1, <1>4, <1>7 DEF Borne, register
<1> QED
  BY <1>1, <1>4, <1>13, <1>14 DEF ScreenInv, register

\* The routes keep the invariant.
LEMMA ServeStep == ScreenInv /\ Serve => ScreenInv'
<1> SUFFICES ASSUME ScreenInv, NEW c \in requests,
                    \/ ServeRequest(c) \/ ServeVerify(c) \/ ServeSelect(c)
                    \/ ResolveCaller(c) \/ ServeLoad(c) \/ ServeWithdraw(c)
             PROVE  ScreenInv'
  BY DEF Serve
<1>1. CASE ServeRequest(c) \/ ServeVerify(c) \/ ServeSelect(c)
  BY <1>1, RouteAnswers, QuietServe
<1> QED
  BY <1>1, ResolveStep, LoadStep, ServeWithdrawStep

\* What a request's own answer does to the screen.
LEMMA AnswerTypes ==
  ASSUME ScreenTypes, NEW c \in requests, UNCHANGED register,
         UNCHANGED <<sent, selected>>, requests' \subseteq requests, busy' \in BOOLEAN,
         step' \in {"contact", "code", "choose", "consents", "done"},
         challengeId' \in 0 .. MaxCalls, matches' \subseteq Identities,
         token' \in Identities \cup {Nothing}, token # Nothing => token' # Nothing,
         list' \in ListSet, outcomes' \in ToldSet,
         step' \in {"consents", "done"} => token' # Nothing
  PROVE  ScreenTypes'
<1>1. WithdrawTypeOK'
  BY DEF ScreenTypes, WithdrawTypeOK, register, ListSet
<1>2. (outcomes \in ToldSet)'
  BY DEF ToldSet
<1>3. \A d \in requests : Sound(d) => Sound(d)'
  BY DEF Sound, CallSet, GotSet, ToldSet, ListSet
<1>4. (\A d \in requests : Sound(d))'
  BY <1>3 DEF ScreenTypes
<1> QED
  BY <1>1, <1>2, <1>4 DEF ScreenTypes

\* An answer keeps the invariant: the screen shows what the answer says.
LEMMA AnswerStep == ScreenInv /\ Answer => ScreenInv'
<1> SUFFICES ASSUME ScreenInv, NEW c \in requests,
                    CodeSent(c) \/ MustChoose(c) \/ TokenGiven(c) \/ ConsentsLoaded(c) \/ Withdrawn(c) \/ Fails(c)
             PROVE  ScreenInv'
  BY DEF Answer
<1>1. PICK r \in [Identities -> Identities] : Borne(r)
  BY DEF ScreenInv
<1>2. ScreenTypes /\ Sound(c) /\ Acyclic(into, Identities)
  BY DEF ScreenInv, ScreenTypes
<1>3. /\ c.n \in 0 .. MaxCalls
      /\ c.got.people \in SUBSET Identities /\ c.got.list \in ListSet /\ c.got.outcomes \in ToldSet
      /\ c.kind \in {"load", "withdraw"} => c.person \in Identities
      /\ c.kind = "withdraw" => token # Nothing
  BY <1>2, ScreenAssumption DEF ScreenTypes, WithdrawTypeOK, Sound, CallSet, GotSet
<1>4. /\ step \in {"contact", "code", "choose", "consents", "done"}
      /\ challengeId \in 0 .. MaxCalls /\ matches \subseteq Identities
      /\ token \in Identities \cup {Nothing} /\ list \in ListSet /\ outcomes \in ToldSet
      /\ busy \in BOOLEAN
      /\ step \in {"consents", "done"} => token # Nothing
  BY <1>2 DEF ScreenTypes, WithdrawTypeOK, ListSet
<1>5. UNCHANGED register
  BY DEF CodeSent, MustChoose, TokenGiven, ConsentsLoaded, Withdrawn, Fails
<1>6. ASSUME ScreenTypes', Truth(outcomes', r, stops),
             \A d \in requests' : d \in requests \/ d.got.outcomes = NoOutcome
      PROVE  ScreenInv'
  <2>1. Borne(r)'
    BY <1>1, <1>5, <1>6, NothingTold DEF Borne, register
  <2> QED
    BY <1>1, <1>2, <1>5, <1>6, <2>1 DEF ScreenInv, register
<1>7. Truth(outcomes, r, stops) /\ Truth(c.got.outcomes, r, stops)
  BY <1>1 DEF Borne
<1>8. CASE CodeSent(c)
  <2>1. ScreenTypes'
    BY <1>2, <1>3, <1>4, <1>5, <1>8, AnswerTypes DEF CodeSent, Settled, Idle
  <2> QED
    BY <1>6, <1>7, <1>8, <2>1 DEF CodeSent, Settled
<1>9. CASE MustChoose(c)
  <2>1. ScreenTypes'
    BY <1>2, <1>3, <1>4, <1>5, <1>9, AnswerTypes DEF MustChoose, Settled, Idle
  <2> QED
    BY <1>6, <1>7, <1>9, <2>1 DEF MustChoose, Settled
<1>10. CASE ConsentsLoaded(c)
  <2>1. c.person \in Identities /\ c.person # Nothing
    BY <1>3, <1>10, ScreenAssumption DEF ConsentsLoaded, Answered
  <2>2. ScreenTypes'
    BY <1>2, <1>3, <1>4, <1>5, <1>10, <2>1, AnswerTypes DEF ConsentsLoaded, Settled, Idle
  <2> QED
    BY <1>6, <1>7, <1>10, <2>2 DEF ConsentsLoaded, Settled
<1>11. CASE Withdrawn(c)
  <2>1. token # Nothing
    BY <1>3, <1>11 DEF Withdrawn, Answered
  <2>2. outcomes' = c.got.outcomes
    BY <1>11 DEF Withdrawn, Told
  <2>3. ScreenTypes'
    BY <1>2, <1>3, <1>4, <1>5, <1>11, <2>1, <2>2, AnswerTypes DEF Withdrawn, Settled, Idle
  <2> QED
    BY <1>6, <1>7, <1>11, <2>2, <2>3 DEF Withdrawn, Settled
<1>12. CASE Fails(c)
  <2>1. ScreenTypes'
    BY <1>2, <1>3, <1>4, <1>5, <1>12, AnswerTypes DEF Fails, Settled, Idle
  <2> QED
    BY <1>6, <1>7, <1>12, <2>1 DEF Fails, Settled
<1>13. CASE TokenGiven(c)
  <2>1. PICK p \in c.got.people :
          requests' = (requests \ {c}) \cup {[Fresh("load") EXCEPT !.person = p]}
    BY <1>13 DEF TokenGiven
  <2>2. PICK e : e = [Fresh("load") EXCEPT !.person = p]
    OBVIOUS
  <2>3. sent < MaxCalls /\ sent' = sent + 1
    BY <1>13 DEF TokenGiven
  <2>4. /\ e \in CallSet /\ e.n = sent + 1 /\ e.kind = "load" /\ e.person \in Identities
        /\ e.got.outcomes = NoOutcome
    BY <1>2, <1>3, <2>1, <2>2, <2>3, FreshCall DEF CallSet
  <2>5. /\ UNCHANGED <<step, challengeId, matches, token, list, selected, busy, outcomes>>
        /\ sent \in Nat /\ sent' \in 0 .. MaxCalls /\ e.n \in 1 .. sent'
    BY <1>2, <1>13, <2>3, <2>4, FreshCall DEF TokenGiven, ScreenTypes, WithdrawTypeOK
  <2>6. \A d \in requests' : Sound(d)' /\ d.n \in 1 .. sent'
    <3>1. Sound(e)'
      BY <2>4, <2>5 DEF Sound, CallSet, GotSet, ToldSet, ListSet
    <3>2. ASSUME NEW d \in requests PROVE Sound(d)' /\ d.n \in 1 .. sent'
      <4>1. Sound(d)
        BY <1>2 DEF ScreenTypes
      <4>2. d.n \in 1 .. sent'
        BY <2>3, <2>5, <4>1 DEF Sound
      <4> QED
        BY <2>5, <4>1, <4>2 DEF Sound, CallSet, GotSet, ToldSet, ListSet
    <3> QED
      BY <2>1, <2>2, <2>5, <3>1, <3>2
  <2>7. WithdrawTypeOK'
    BY <1>2, <1>5, <2>5, <2>6 DEF ScreenTypes, WithdrawTypeOK, register
  <2>8. ScreenTypes'
    BY <1>4, <2>5, <2>6, <2>7 DEF ScreenTypes, ToldSet
  <2> QED
    BY <1>6, <1>7, <2>1, <2>2, <2>4, <2>5, <2>8
<1> QED
  BY <1>8, <1>9, <1>10, <1>11, <1>12, <1>13

\* Nothing is told and nothing is merged at first.
LEMMA ScreenBegins == WithdrawInit => ScreenInv
<1> SUFFICES ASSUME WithdrawInit PROVE ScreenInv
  OBVIOUS
<1> USE DEF WithdrawInit
<1>1. ScreenTypes
  <2>1. NoCode \in [id : 0 .. MaxCalls, matched : SUBSET Identities, verified : BOOLEAN]
    BY ScreenAssumption DEF NoCode
  <2>2. 0 \in 0 .. MaxCalls /\ 0 \in 0 .. MaxOutside
    BY ScreenAssumption
  <2>3. into \in [Identities -> Identities \cup {Nothing}]
    OBVIOUS
  <2>4. status \in [Identities -> [Purposes -> Standing]]
    BY DEF Standing
  <2>5. WithdrawTypeOK
    BY <2>1, <2>2, <2>3, <2>4, NothingTold DEF WithdrawTypeOK, ListSet
  <2> QED
    BY <2>5, NothingTold DEF ScreenTypes
<1>2. Acyclic(into, Identities)
  BY ScreenAssumption DEF Acyclic
<1>3. PICK r \in [Identities -> Identities] : r = [p \in Identities |-> p]
  OBVIOUS
<1>4. Roots(r, into) /\ Backed(status, r, stops)
  BY <1>3 DEF Roots, Backed
<1>5. Borne(r)
  BY <1>4, NothingTold DEF Borne
<1> QED
  BY <1>1, <1>2, <1>5 DEF ScreenInv

\* The invariant is inductive.
LEMMA ScreenStep == ScreenInv /\ [WithdrawNext]_withdrawVars => ScreenInv'
<1> SUFFICES ASSUME ScreenInv, [WithdrawNext]_withdrawVars PROVE ScreenInv'
  OBVIOUS
<1>1. CASE UNCHANGED withdrawVars
  <2>1. UNCHANGED <<into, status, code, stops, outside, step, challengeId, matches, token, list,
                    selected, busy, outcomes, requests, sent>>
    BY <1>1 DEF withdrawVars, register, screenVars
  <2>2. ScreenTypes'
    BY <2>1 DEF ScreenInv, ScreenTypes, WithdrawTypeOK, Sound, CallSet, GotSet, ToldSet, ListSet
  <2>3. PICK r \in [Identities -> Identities] : Borne(r)
    BY DEF ScreenInv
  <2>4. Borne(r)'
    BY <2>1, <2>3 DEF Borne
  <2> QED
    BY <2>1, <2>2, <2>3, <2>4 DEF ScreenInv
<1> QED
  BY <1>1, OthersStep, ClickStep, ServeStep, AnswerStep DEF WithdrawNext

\* It makes the confirmation true.
LEMMA ToldTruly == ScreenInv => ConfirmationIsTrue
<1> SUFFICES ASSUME ScreenInv, NEW u \in Purposes, outcomes.told[u] \in {"changed", "already"}
             PROVE  \E q \in Identities : <<q, u>> \in stops /\ Survivor(q) = Survivor(outcomes.of)
  BY DEF ConfirmationIsTrue
<1>1. PICK r \in [Identities -> Identities] : Borne(r)
  BY DEF ScreenInv
<1>2. PICK q \in Identities : <<q, u>> \in stops /\ r[q] = r[outcomes.of]
  BY <1>1 DEF Borne, Truth
<1>3. outcomes.of \in Identities
  BY <1>1 DEF Borne, Truth
<1> QED
  BY <1>1, <1>2, <1>3, SurvivorIsRoot

-----------------------------------------------------------------------------
(* Both screens                                                            *)

\* The screen nobody is at rests.
LEMMA PublicInvariant == PublicSpec => [](KioskInv /\ ScreenInv)
<1>1. PublicInit => KioskInv /\ ScreenInv
  BY KioskBegins, ScreenBegins DEF PublicInit
<1>2. KioskInv /\ ScreenInv /\ [PublicNext]_publicVars => (KioskInv /\ ScreenInv)'
  <2> SUFFICES ASSUME KioskInv, ScreenInv, [PublicNext]_publicVars
               PROVE  KioskInv' /\ ScreenInv'
    OBVIOUS
  <2>1. [KioskNext]_kioskVars /\ [WithdrawNext]_withdrawVars
    BY DEF PublicNext, AtCounter, AtHome, publicVars
  <2> QED
    BY <2>1, KioskStep, ScreenStep
<1> QED
  BY <1>1, <1>2, PTL DEF PublicSpec

\* The public's screens: types, on the tablet of kiosk-client.tsx and on the page
\* of withdraw-client.tsx with the routes behind it.
THEOREM PublicTypeCorrect == PublicSpec => []PublicTypeOK
<1>1. KioskInv /\ ScreenInv => PublicTypeOK
  BY DEF KioskInv, ScreenInv, ScreenTypes, PublicTypeOK
<1> QED
  BY <1>1, PublicInvariant, PTL

\* kiosk-client.tsx: what an open form shows, and what a form the server has carries,
\* is of those who stood at that very form, whoever walked up to it, whoever left it
\* in the middle and whatever was answered or cleared late; and no form is open that
\* nobody touched for the idle limit.
THEOREM FormsAreKeptApart == PublicSpec => []PeopleKeptApart
BY KeptApart, PublicInvariant, PTL

\* withdraw-client.tsx, over withdrawPurposes: what the confirmation calls withdrawn
\* has been, of the person it was asked for or of one since folded into them,
\* whoever merged or stopped what between the list, the click and the answer.
THEOREM ConfirmationsAreTrue == PublicSpec => []ConfirmationIsTrue
BY ToldTruly, PublicInvariant, PTL
================================================================================
