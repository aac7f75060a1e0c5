------------------------------- MODULE PortalOtp -------------------------------
(***************************************************************************)
(* One-time codes for the withdrawal portal: requestOtp, verifyOtp and     *)
(* claimPrincipal with the routes that call them, for one destination and  *)
(* one client address.  Each of them is a sequence of statements that      *)
(* commit one by one, so any two calls interleave between statements.      *)
(*                                                                         *)
(* A challenge is named after the request that issued it.  The code itself *)
(* is abstract: an attempt carries the right one or does not.              *)
(***************************************************************************)
EXTENDS Integers, FiniteSets

CONSTANTS
  Requests,       \* calls of requestOtp, and the challenges they issue
  Verifications,  \* calls of verifyOtp or of claimPrincipal
  People,         \* identities the destination is printed on
  MaxAttempts,    \* MAX_ATTEMPTS
  Sends,          \* SENDS_PER_DESTINATION_PER_15_MIN
  SendsPerIp,     \* SENDS_PER_IP_PER_HOUR
  VerifiesPerIp,  \* VERIFIES_PER_IP_PER_HOUR
  Ttl,            \* TTL_MINUTES
  Window,         \* the 15 minutes of Sends
  Hour,           \* the hour of SendsPerIp and VerifiesPerIp
  MaxClock        \* bound on the clock

ASSUME OtpAssumption ==
  /\ {MaxAttempts, Sends, SendsPerIp, VerifiesPerIp, Ttl, Window, Hour, MaxClock}
       \subseteq Nat \ {0}
  /\ Ttl < Window /\ Window < Hour
  /\ IsFiniteSet(People)

VARIABLES
  clock,
  holders,    \* the people the destination leads to through the merge chains
  challenge,  \* otp_challenge
  asking,     \* progress of each request
  found,      \* the people it resolved
  checking,   \* progress of each verification or selection
  on,         \* the challenge a verification is about
  claimed,    \* the row its first update returned
  chosen,     \* the person a token is about to be minted for
  failures,   \* audit_log otp_failed entries, by time
  compared,   \* how many codes were compared with each challenge's
  tokens      \* principal tokens minted

calls == <<asking, found, checking, on, claimed, chosen>>
vars  == <<clock, holders, challenge, calls, failures, compared, tokens>>

Clock == 0 .. MaxClock

NoRow == [sentAt |-> -1, matched |-> {}, attempts |-> 0,
          verified |-> FALSE, consumed |-> FALSE]

Row == [sentAt : Clock, matched : SUBSET People, attempts : 0 .. MaxAttempts,
        verified : BOOLEAN, consumed : BOOLEAN]

Nobody == {}

TypeOK ==
  /\ clock \in Clock
  /\ holders \subseteq People
  /\ challenge \in [Requests -> Row \cup {NoRow}]
  /\ asking \in [Requests -> {"idle", "resolve", "supersede", "count", "insert", "ended"}]
  /\ found \in [Requests -> SUBSET People]
  /\ checking \in [Verifications ->
       {"idle", "claim", "compare", "exhaust", "redeem", "failed", "mint", "ended"}]
  /\ on \in [Verifications -> Requests \cup {Nobody}]
  /\ claimed \in [Verifications -> Row \cup {NoRow}]
  /\ chosen \in [Verifications -> SUBSET People]
  /\ failures \in [Clock -> Nat]
  /\ compared \in [Requests -> Nat]
  /\ tokens \subseteq [by : Verifications, challenge : Requests, person : People]

Init ==
  /\ clock = 0
  /\ holders \in SUBSET People
  /\ challenge = [r \in Requests |-> NoRow]
  /\ asking = [r \in Requests |-> "idle"]
  /\ found = [r \in Requests |-> {}]
  /\ checking = [v \in Verifications |-> "idle"]
  /\ on = [v \in Verifications |-> Nobody]
  /\ claimed = [v \in Verifications |-> NoRow]
  /\ chosen = [v \in Verifications |-> {}]
  /\ failures = [t \in Clock |-> 0]
  /\ compared = [r \in Requests |-> 0]
  /\ tokens = {}

-----------------------------------------------------------------------------
(* Time, and the register                                                  *)

Tick ==
  /\ clock < MaxClock
  /\ clock' = clock + 1
  /\ UNCHANGED <<holders, challenge, calls, failures, compared, tokens>>

\* Two of the people are merged: the destination leads to the survivor alone.
MergeHolders ==
  /\ \E p \in holders : Cardinality(holders) > 1 /\ holders' = holders \ {p}
  /\ UNCHANGED <<clock, challenge, calls, failures, compared, tokens>>

-----------------------------------------------------------------------------
(* requestOtp                                                              *)

Sent(within) == {r \in Requests : challenge[r] # NoRow
                                    /\ challenge[r].sentAt > clock - within}

Ask(r, s) == asking' = [asking EXCEPT ![r] = s]

\* The per-address limit.
Request(r) ==
  /\ asking[r] = "idle"
  /\ Ask(r, IF Cardinality(Sent(Hour)) >= SendsPerIp THEN "ended" ELSE "resolve")
  /\ UNCHANGED <<clock, holders, challenge, found, checking, on, claimed, chosen,
                 failures, compared, tokens>>

\* Nothing is written for a destination that is not in the register.
ResolveHolders(r) ==
  /\ asking[r] = "resolve"
  /\ found' = [found EXCEPT ![r] = holders]
  /\ Ask(r, IF holders = {} THEN "ended" ELSE "supersede")
  /\ UNCHANGED <<clock, holders, challenge, checking, on, claimed, chosen,
                 failures, compared, tokens>>

Supersede(r) ==
  /\ asking[r] = "supersede"
  /\ challenge' = [q \in Requests |->
                     IF challenge[q] = NoRow THEN NoRow
                     ELSE [challenge[q] EXCEPT !.consumed = TRUE]]
  /\ Ask(r, "count")
  /\ UNCHANGED <<clock, holders, found, checking, on, claimed, chosen,
                 failures, compared, tokens>>

\* INSERT ... SELECT ... WHERE (SELECT count(*)) < n is one statement, but what
\* it counts is what had committed when it started.
CountSent(r) ==
  /\ asking[r] = "count"
  /\ Ask(r, IF Cardinality(Sent(Window)) < Sends THEN "insert" ELSE "ended")
  /\ UNCHANGED <<clock, holders, challenge, found, checking, on, claimed, chosen,
                 failures, compared, tokens>>

InsertChallenge(r) ==
  /\ asking[r] = "insert"
  /\ challenge' = [challenge EXCEPT ![r] =
                     [NoRow EXCEPT !.sentAt = clock, !.matched = found[r]]]
  /\ Ask(r, "ended")
  /\ UNCHANGED <<clock, holders, found, checking, on, claimed, chosen,
                 failures, compared, tokens>>

-----------------------------------------------------------------------------
(* verifyOtp and its route                                                 *)

Check(v, s) == checking' = [checking EXCEPT ![v] = s]

Live(c) ==
  challenge[c] # NoRow /\ ~ challenge[c].consumed

\* Counted from audit_log, before anything else.
Failures(span) ==
  LET sum[t \in -1 .. MaxClock] ==
        IF t = -1 THEN 0
        ELSE sum[t - 1] + (IF t <= clock /\ t > clock - span THEN failures[t] ELSE 0)
  IN  sum[MaxClock]

Verify(v, c) ==
  /\ checking[v] = "idle"
  /\ on' = [on EXCEPT ![v] = c]
  /\ Check(v, IF Failures(Hour) >= VerifiesPerIp THEN "ended" ELSE "claim")
  /\ UNCHANGED <<clock, holders, challenge, asking, found, claimed, chosen,
                 failures, compared, tokens>>

\* Mutant of AttemptLeft: the cap is left to the update that exhausts.
AnyAttempt(c) == Live(c) /\ challenge[c].sentAt + Ttl > clock

AttemptLeft(c) ==
  Live(c) /\ challenge[c].sentAt + Ttl > clock /\ challenge[c].attempts < MaxAttempts

\* One statement claims an attempt and returns the row.
ClaimAttempt(v) ==
  LET c   == on[v]
      row == [challenge[c] EXCEPT !.attempts = @ + 1]
  IN  /\ checking[v] = "claim"
      /\ IF AttemptLeft(c)
         THEN /\ challenge' = [challenge EXCEPT ![c] = row]
              /\ claimed' = [claimed EXCEPT ![v] = row]
              /\ Check(v, "compare")
         ELSE /\ UNCHANGED <<challenge, claimed>>
              /\ Check(v, "failed")
      /\ UNCHANGED <<clock, holders, asking, found, on, chosen, failures, compared, tokens>>

\* bcrypt.compare: nothing is locked while it runs.
Compare(v, right) ==
  /\ checking[v] = "compare"
  /\ compared' = [compared EXCEPT ![on[v]] = @ + 1]
  /\ Check(v, IF right THEN "redeem"
              ELSE IF claimed[v].attempts >= MaxAttempts THEN "exhaust" ELSE "failed")
  /\ UNCHANGED <<clock, holders, challenge, asking, found, on, claimed, chosen,
                 failures, tokens>>

Exhaust(v) ==
  /\ checking[v] = "exhaust"
  /\ challenge' = [challenge EXCEPT ![on[v]].consumed = TRUE]
  /\ Check(v, "failed")
  /\ UNCHANGED <<clock, holders, asking, found, on, claimed, chosen,
                 failures, compared, tokens>>

\* Mutant of Redeemable: no consumed_at IS NULL in the WHERE clause.
Issued(c) == challenge[c] # NoRow

\* The condition of the update that accepts the code; expiry is not asked again.
Redeemable(c) == Live(c)

\* One person: the challenge is closed and a token follows.  Several: it stays
\* open for the selection.
Redeem(v) ==
  LET c      == on[v]
      single == Cardinality(claimed[v].matched) = 1
  IN  /\ checking[v] = "redeem"
      /\ IF Redeemable(c)
         THEN /\ challenge' = [challenge EXCEPT ![c].verified = TRUE, ![c].consumed = @ \/ single]
              /\ chosen' = [chosen EXCEPT ![v] = IF single THEN claimed[v].matched ELSE {}]
              /\ Check(v, IF single THEN "mint" ELSE "ended")
         ELSE /\ UNCHANGED <<challenge, chosen>>
              /\ Check(v, "failed")
      /\ UNCHANGED <<clock, holders, asking, found, on, claimed, failures, compared, tokens>>

\* Every failure is answered alike and leaves an otp_failed entry.
Fail(v) ==
  /\ checking[v] = "failed"
  /\ failures' = [failures EXCEPT ![clock] = @ + 1]
  /\ Check(v, "ended")
  /\ UNCHANGED <<clock, holders, challenge, asking, found, on, claimed, chosen,
                 compared, tokens>>

-----------------------------------------------------------------------------
(* claimPrincipal and its route                                            *)

\* Mutant of Selectable: the code need not have been verified.
SelectableUnverified(c, p) ==
  Live(c) /\ challenge[c].sentAt + Ttl > clock /\ p \in challenge[c].matched

Selectable(c, p) ==
  /\ Live(c) /\ challenge[c].sentAt + Ttl > clock
  /\ challenge[c].verified
  /\ p \in challenge[c].matched

\* A failed selection is answered and leaves nothing behind.
Select(v, c, p) ==
  /\ checking[v] = "idle"
  /\ on' = [on EXCEPT ![v] = c]
  /\ IF Selectable(c, p)
     THEN /\ challenge' = [challenge EXCEPT ![c].consumed = TRUE]
          /\ chosen' = [chosen EXCEPT ![v] = {p}]
          /\ Check(v, "mint")
     ELSE /\ UNCHANGED <<challenge, chosen>>
          /\ Check(v, "ended")
  /\ UNCHANGED <<clock, holders, asking, found, claimed, failures, compared, tokens>>

\* The audit entry is written, and only then is the token signed.
Mint(v) ==
  /\ checking[v] = "mint"
  /\ tokens' = tokens \cup {[by |-> v, challenge |-> on[v], person |-> p] : p \in chosen[v]}
  /\ Check(v, "ended")
  /\ UNCHANGED <<clock, holders, challenge, asking, found, on, claimed, chosen,
                 failures, compared>>

\* The process dies between two statements of a call.
Crash(v) ==
  /\ checking[v] \notin {"idle", "ended"}
  /\ Check(v, "ended")
  /\ UNCHANGED <<clock, holders, challenge, asking, found, on, claimed, chosen,
                 failures, compared, tokens>>

RequestStep(r) ==
  \/ Request(r) \/ ResolveHolders(r) \/ Supersede(r) \/ CountSent(r) \/ InsertChallenge(r)

\* The statements of a call that has begun.
VerifyStep(v) ==
  \/ ClaimAttempt(v) \/ Exhaust(v) \/ Redeem(v) \/ Fail(v) \/ Mint(v)
  \/ \E right \in BOOLEAN : Compare(v, right)

Next ==
  \/ Tick \/ MergeHolders
  \/ \E r \in Requests : RequestStep(r)
  \/ \E v \in Verifications, c \in Requests : Verify(v, c)
  \/ \E v \in Verifications, c \in Requests, p \in People : Select(v, c, p)
  \/ \E v \in Verifications : VerifyStep(v) \/ Crash(v)

Spec == Init /\ [][Next]_vars

-----------------------------------------------------------------------------
(* Safety                                                                  *)

\* One code, one use: however many calls verify and select at once, and in
\* whatever order their statements land, a challenge yields one token.
OneTokenPerChallenge == \A s, t \in tokens : s.challenge = t.challenge => s = t

\* However many codes are tried at once, no more than MAX_ATTEMPTS are ever
\* compared with a challenge.
AttemptsBounded == \A c \in Requests : compared[c] <= MaxAttempts

\* A token is for somebody the destination led to when the code was sent, and
\* follows a verified code, whatever has been merged or sent since.
TokensEarned ==
  \A t \in tokens :
    /\ challenge[t.challenge].verified /\ challenge[t.challenge].consumed
    /\ t.person \in found[t.challenge]
    /\ compared[t.challenge] > 0
===============================================================================
