----------------------- MODULE MCRegisterTransactions -----------------------
(***************************************************************************)
(* Instances of RegisterTransactions for TLC: three requests in flight.    *)
(***************************************************************************)
EXTENDS RegisterTransactions, TLC

CONSTANTS p1, p2, p3, u1, u2, d0, d1, d2, d3, d4, d5, d6, t1, t2, t3

Paper(p, day, yes, no) ==
  [subject |-> p, collectedOn |-> day, granted |-> yes, declined |-> no]

Both == <<u1, u2>>

Ids == u1 :> 1 @@ u2 :> 2

\* The paper on file, and the papers under review.
Old     == Paper(p1, 0, {u1, u2}, {})
OldTwo  == Paper(p2, 0, {u2}, {u1})
Newer   == Paper(p1, 1, {u1}, {u2})
Newest  == Paper(p1, 2, {u2}, {u1})
NewerTwo == Paper(p2, 1, {u1}, {})
Another == Paper(p3, 1, {u1}, {u2})
YetAnother == Paper(p3, 1, {u2}, {u1})

AllPapers == {Old, OldTwo, Newer, Newest, NewerTwo, Another, YetAnother}

OnFile == d0 :> [person |-> p1, form |-> Old]

OnFileTwo == OnFile @@ d4 :> [person |-> p2, form |-> OldTwo]

Reviewed(f, match) == [status |-> "needs_review", form |-> f, matched |-> match]

Commit(d, confirm, new) ==
  [op |-> "commit", draft |-> d, confirm |-> confirm, forceNew |-> new]
Withdraw(p, asked) == [op |-> "withdraw", person |-> p, purposes |-> asked]
Merge(a, s)        == [op |-> "merge", absorbed |-> a, survivor |-> s]

Alone(x, y, z) == t1 :> x @@ t2 :> y @@ t3 :> z

Alike == {<<p3, p1>>, <<p1, p3>>}

\* Two forms of one person, one of another, and two of a newcomer who may be
\* mistaken for the first.
StackOfForms == d1 :> Reviewed(Newer, None) @@ d2 :> Reviewed(Newest, None)
                  @@ d3 :> Reviewed(Another, None) @@ d5 :> Reviewed(YetAnother, None)
                  @@ d6 :> Reviewed(NewerTwo, None)

\* Commits of one draft, of the forms of one person and of a newcomer's.
CommitWorkloads ==
  {Alone(Commit(d1, None, FALSE), Commit(d2, None, FALSE), Commit(d, c, new)) :
     d \in {d1, d2, d3}, c \in {None, p1, p2, p3}, new \in BOOLEAN}
  \cup {Alone(Commit(d3, None, TRUE), Commit(d, None, TRUE), Commit(d1, p1, FALSE)) :
          d \in {d3, d5}}

\* Merges and withdrawals with a form of the person who is being folded away.
RacingWorkloads ==
  {Alone(Merge(p1, p2), Withdraw(p1, asked), Commit(d1, c, FALSE)) :
          asked \in {Both, <<u2, u1>>}, c \in {None, p1, p2}}
  \cup {Alone(Merge(p2, p1), Withdraw(p2, Both), Commit(d6, c, FALSE)) : c \in {None, p1}}

\* Merges, withdrawals by either identity, and forms of the survivor's or, with
\* no merge, of the one who withdraws.
HandoverWorkloads ==
  {Alone(Merge(p1, p2), Withdraw(p, asked), other) :
     p \in {p1, p2}, asked \in {Both, <<u2, u1>>},
     other \in {Commit(d6, None, FALSE), Commit(d6, p2, FALSE),
                Withdraw(p1, <<u1>>), Merge(p2, p1)}}
  \cup {Alone(Withdraw(p1, Both), Withdraw(p1, <<u2, u1>>), Commit(d1, c, FALSE)) :
          c \in {None, p1}}

AllWorkloads == CommitWorkloads \cup RacingWorkloads \cup HandoverWorkloads

ASSUME WorkloadsApart == Apart
=============================================================================
