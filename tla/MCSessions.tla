------------------------------ MODULE MCSessions ------------------------------
(***************************************************************************)
(* Instances of Sessions for TLC: either people sign in, or they visit.    *)
(***************************************************************************)
EXTENDS Sessions, TLC

CONSTANTS s1, nobody, l1, l2, l3, b1, b2, ip

Attempt(email, browser, address) == [email |-> email, browser |-> browser, ip |-> address]

\* One account from two browsers whose addresses are not known, and one address
\* that goes through several emails.
OneAccount == l1 :> Attempt(s1, b1, NoIp) @@ l2 :> Attempt(s1, b1, NoIp)
                @@ l3 :> Attempt(s1, b2, NoIp)
OneAddress == l1 :> Attempt(nobody, b1, ip) @@ l2 :> Attempt(s1, b1, ip)
                @@ l3 :> Attempt(nobody, b2, ip)

MCPlans == {NoAttempt, OneAccount, OneAddress}

Identities == Permutations(People)
===============================================================================
