----------------------------- MODULE DpoDeskProofs -----------------------------
(***************************************************************************)
(* The queues of a DPO, for any people, desks, rows, limits and depths:    *)
(* theorems about DpoDesk.                                                 *)
(***************************************************************************)
EXTENDS DpoDesk, MergeChainsProofs, SequenceTheorems

-----------------------------------------------------------------------------
(* The invariant                                                           *)

\* The statuses the rows of a queue go through.
Course(q) ==
  CASE q = "lookups" -> {"none", "inserting", "open", "resolved", "rejected"}
    [] q = "tasks"   -> {"none", "open", "on_hold", "completed"}
    [] OTHER         -> {"none", "filed"}

RowsKeepToQueue ==
  \A i \in Items :
    /\ item[i].status \in Course(queue)
    /\ item[i].status \notin {"on_hold", "completed"} => item[i].heldBy = None
    /\ item[i].status = "on_hold" => item[i].heldBy # None
    /\ item[i].status \in {"none", "inserting", "open"} => item[i].person = None
    /\ item[i].status = "filed" => item[i].person # None
    /\ item[i].day <= today

\* A row is listed once it is committed.
ListedAreRows ==
  \A k \in DOMAIN arrivals : item[arrivals[k]].status \notin {"none", "inserting"}

\* What an address has filed or has under way today.
FromToday(ip) ==
  {i \in Items : item[i].status # "none" /\ item[i].day = today /\ item[i].from = ip}

\* What is under way is bounded together with what is filed: neither is alone.
FilingRoom ==
  /\ IsFiniteSet({i \in Items : item[i].status # "none"})
  /\ queue = "lookups" =>
       \A ip \in Addresses \cup {NoIp} :
         Cardinality(FromToday(ip)) <= Ceiling(ip) + InFlight - 1

DeskInv == TypeOK /\ RowsKeepToQueue /\ ListedAreRows /\ FilingRoom /\ TrailTellsTheStory

-----------------------------------------------------------------------------
(* The log                                                                 *)

\* What is written goes behind what is there.
LEMMA EntryGoesLast ==
  ASSUME TypeOK, NEW e \in Entry, trail' = Append(trail, e)
  PROVE  /\ trail' \in Seq(Entry)
         /\ Len(trail) + 1 \notin DOMAIN trail
         /\ \A k \in DOMAIN trail : k < Len(trail) + 1 /\ trail'[k] = trail[k]
         /\ DOMAIN trail' = DOMAIN trail \cup {Len(trail) + 1}
         /\ trail'[Len(trail) + 1] = e
BY DEF TypeOK

\* An entry of this kind was added to the log.
Wrote(action, d, i, p) ==
  \E e \in Entry :
    /\ trail' = Append(trail, e)
    /\ e.action = action /\ e.actor = d /\ e.on = i /\ e.person = p

\* What Written writes is an entry.
LEMMA WrittenIsEntry ==
  ASSUME TypeOK, NEW d \in Desks \cup {None}, NEW i \in Items \cup {None},
         NEW p \in Persons \cup {None},
         NEW action \in {"filed", "resolved", "rejected", "stopped", "held", "delivered", "viewed"},
         Written(action, d, i, p)
  PROVE  Wrote(action, d, i, p)
<1> DEFINE e == [action |-> action, actor |-> d, on |-> i, person |-> p, day |-> today]
<1>1. today \in Day /\ trail' = Append(trail, e)
  BY DEF TypeOK, Written
<1>2. e \in Entry
  BY <1>1 DEF Entry
<1>3. e.action = action /\ e.actor = d /\ e.on = i /\ e.person = p
  OBVIOUS
<1> QED BY <1>1, <1>2, <1>3 DEF Wrote

\* Nothing is decided of a row by an entry about another one, or by its filing.
Quiet(j) ==
  \/ UNCHANGED trail
  \/ \E e \in Entry : trail' = Append(trail, e) /\ (e.on # j \/ e.action = "filed")

\* Such an entry leaves the decisions of a row where they are.
LEMMA QuietKeepsDecisions ==
  ASSUME TypeOK, NEW j \in Items, Quiet(j)
  PROVE  /\ Decisions(j)' = Decisions(j)
         /\ \A k \in DOMAIN trail : k \in DOMAIN trail' /\ trail'[k] = trail[k]
<1>1. CASE UNCHANGED trail
  BY <1>1 DEF Decisions
<1>2. ASSUME NEW e \in Entry, trail' = Append(trail, e), e.on # j \/ e.action = "filed"
      PROVE  /\ Decisions(j)' = Decisions(j)
             /\ \A k \in DOMAIN trail : k \in DOMAIN trail' /\ trail'[k] = trail[k]
  BY <1>2, EntryGoesLast DEF Decisions
<1> QED BY <1>1, <1>2 DEF Quiet

\* A row left alone agrees with the log as it did.
LEMMA QuietKeepsAgreement ==
  ASSUME TypeOK, NEW j \in Items, Quiet(j), RowAndLogAgree(j), item'[j] = item[j]
  PROVE  RowAndLogAgree(j)'
<1>1. /\ Decisions(j)' = Decisions(j)
      /\ \A k \in DOMAIN trail : k \in DOMAIN trail' /\ trail'[k] = trail[k]
  BY QuietKeepsDecisions
<1> QED BY <1>1 DEF RowAndLogAgree, Says

\* What a row is before anything is decided of it.
Undecided == {"none", "inserting", "open", "filed"}

\* A row that stays undecided agrees with the log too.
LEMMA QuietKeepsUndecided ==
  ASSUME TypeOK, NEW j \in Items, Quiet(j), RowAndLogAgree(j),
         item[j].status \in Undecided, item'[j].status \in Undecided
  PROVE  RowAndLogAgree(j)'
<1>1. Decisions(j)' = Decisions(j)
  BY QuietKeepsDecisions
<1>2. Decisions(j) = {}
  BY DEF RowAndLogAgree, Undecided
<1> QED BY <1>1, <1>2 DEF RowAndLogAgree, Undecided

\* A decision is one more entry about its row.
LEMMA DecisionAdds ==
  ASSUME TypeOK, NEW j \in Items, NEW e \in Entry, trail' = Append(trail, e),
         e.on = j, e.action # "filed"
  PROVE  Decisions(j)' = Decisions(j) \cup {Len(trail) + 1}
BY EntryGoesLast DEF Decisions

-----------------------------------------------------------------------------
(* Types                                                                   *)

Row == [status : {"none", "inserting", "open", "resolved", "rejected",
                  "on_hold", "completed", "filed"},
        from : Addresses \cup {NoIp}, day : Day,
        person : Persons \cup {None}, heldBy : Desks \cup {None},
        doneBy : Desks \cup {None}, notice : Notices]

Rows == [Items -> Row]

\* A sequence, an element behind it and a sequence behind that.
LEMMA ElementBetween ==
  ASSUME NEW S, NEW a \in Seq(S), NEW e \in S, NEW c \in Seq(S),
         NEW w, w = a \o <<e>> \o c
  PROVE  /\ w \in Seq(S) /\ Len(w) = Len(a) + 1 + Len(c)
         /\ \A m \in 1 .. Len(w) :
              w[m] = IF m <= Len(a) THEN a[m]
                     ELSE IF m = Len(a) + 1 THEN e ELSE c[m - Len(a) - 1]
<1>0. Len(a) \in Nat /\ Len(c) \in Nat
  BY LenProperties
<1>1. <<e>> \in Seq(S) /\ Len(<<e>>) = 1 /\ <<e>>[1] = e
  OBVIOUS
<1>2. PICK h : h = a \o <<e>>
  OBVIOUS
<1>3. /\ h \in Seq(S) /\ Len(h) = Len(a) + 1
      /\ \A m \in 1 .. Len(a) + 1 : h[m] = IF m <= Len(a) THEN a[m] ELSE <<e>>[m - Len(a)]
  BY <1>1, <1>2, ConcatProperties
<1>4. w = h \o c
  BY <1>2
<1>5. /\ w \in Seq(S) /\ Len(w) = Len(h) + Len(c)
      /\ \A m \in 1 .. Len(h) + Len(c) : w[m] = IF m <= Len(h) THEN h[m] ELSE c[m - Len(h)]
  BY <1>3, <1>4, ConcatProperties
<1>6. ASSUME NEW m \in 1 .. Len(w)
      PROVE  w[m] = IF m <= Len(a) THEN a[m]
                    ELSE IF m = Len(a) + 1 THEN e ELSE c[m - Len(a) - 1]
  BY <1>0, <1>1, <1>3, <1>5
<1> QED BY <1>0, <1>3, <1>5, <1>6

\* Where what was inserted ends up.
LEMMA InsertedAt ==
  ASSUME NEW S, NEW s \in Seq(S), NEW e \in S, NEW n \in 1 .. Len(s) + 1, NEW t,
         t = InsertAt(s, n, e)
  PROVE  /\ t \in Seq(S) /\ Len(t) = Len(s) + 1
         /\ \A m \in 1 .. Len(t) :
              t[m] = IF m < n THEN s[m] ELSE IF m = n THEN e ELSE s[m - 1]
<1>1. PICK front : front = SubSeq(s, 1, n - 1)
  OBVIOUS
<1>2. PICK back : back = SubSeq(s, n, Len(s))
  OBVIOUS
<1>3. Len(s) \in Nat /\ n \in Nat /\ \A m \in 1 .. Len(s) : s[m] \in S
  BY LenProperties, ElementOfSeq
<1>4. /\ front \in Seq(S) /\ Len(front) = n - 1
      /\ \A m \in 1 .. n - 1 : front[m] = s[m]
  <2>1. \A m \in 1 .. n - 1 : s[m] \in S
    BY <1>3
  <2>2. /\ front \in Seq(S) /\ Len(front) = IF 1 <= n - 1 THEN n - 1 - 1 + 1 ELSE 0
        /\ \A m \in 1 .. n - 1 - 1 + 1 : front[m] = s[1 + m - 1]
    BY <2>1, <1>3, <1>1, SubSeqProperties
  <2> QED BY <2>2, <1>3
<1>5. /\ back \in Seq(S) /\ Len(back) = Len(s) - n + 1
      /\ \A m \in 1 .. Len(s) - n + 1 : back[m] = s[n + m - 1]
  <2>1. \A m \in n .. Len(s) : s[m] \in S
    BY <1>3
  <2>2. /\ back \in Seq(S) /\ Len(back) = IF n <= Len(s) THEN Len(s) - n + 1 ELSE 0
        /\ \A m \in 1 .. Len(s) - n + 1 : back[m] = s[n + m - 1]
    BY <2>1, <1>3, <1>2, SubSeqProperties
  <2> QED BY <2>2, <1>3
<1>6. t = front \o <<e>> \o back
  BY <1>1, <1>2 DEF InsertAt
<1>7. /\ t \in Seq(S) /\ Len(t) = Len(front) + 1 + Len(back)
      /\ \A m \in 1 .. Len(t) :
           t[m] = IF m <= Len(front) THEN front[m]
                  ELSE IF m = Len(front) + 1 THEN e ELSE back[m - Len(front) - 1]
  <2>1. front \in Seq(S) /\ back \in Seq(S)
    BY <1>4, <1>5
  <2> QED BY <2>1, <1>6, ElementBetween
<1>8. Len(t) = Len(s) + 1
  BY <1>3, <1>4, <1>5, <1>7
<1>9. ASSUME NEW m \in 1 .. Len(t)
      PROVE  t[m] = IF m < n THEN s[m] ELSE IF m = n THEN e ELSE s[m - 1]
  <2>1. CASE m <= n
    BY <2>1, <1>3, <1>4, <1>7
  <2>2. CASE m > n
    <3>1. t[m] = back[m - n] /\ m - n \in 1 .. Len(s) - n + 1
      BY <2>2, <1>3, <1>4, <1>7, <1>8
    <3>2. back[m - n] = s[n + (m - n) - 1]
      BY <3>1, <1>5
    <3> QED BY <3>1, <3>2, <2>2, <1>3
  <2> QED BY <2>1, <2>2, <1>3, <1>8
<1> QED BY <1>7, <1>8, <1>9

\* A row that is not listed can be listed anywhere, once.
LEMMA ListsNewRow ==
  ASSUME NEW a \in Seq(Items), IsInjective(a), NEW i \in Items,
         \A m \in DOMAIN a : a[m] # i, NEW n \in 1 .. Len(a) + 1
  PROVE  /\ InsertAt(a, n, i) \in Seq(Items) /\ IsInjective(InsertAt(a, n, i))
         /\ \A m \in DOMAIN InsertAt(a, n, i) :
              InsertAt(a, n, i)[m] = i \/ \E k \in DOMAIN a : InsertAt(a, n, i)[m] = a[k]
<1> DEFINE t == InsertAt(a, n, i)
<1>0. Len(a) \in Nat /\ DOMAIN a = 1 .. Len(a)
  BY LenProperties
<1>1. /\ t \in Seq(Items) /\ Len(t) = Len(a) + 1
      /\ \A m \in 1 .. Len(t) :
           t[m] = IF m < n THEN a[m] ELSE IF m = n THEN i ELSE a[m - 1]
  BY InsertedAt
<1>2. DOMAIN t = 1 .. Len(a) + 1
  BY <1>1, LenProperties
<1> HIDE DEF t
<1>3. \A m \in DOMAIN t : t[m] = i \/ \E k \in DOMAIN a : t[m] = a[k]
  <2>1. n \in DOMAIN t /\ t[n] = i
    BY <1>0, <1>1, <1>2
  <2> SUFFICES ASSUME NEW m \in DOMAIN t, m # n
               PROVE  \E k \in DOMAIN a : t[m] = a[k]
    BY <2>1
  <2>2. CASE m < n
    <3>1. m \in DOMAIN a /\ t[m] = a[m]
      BY <2>2, <1>0, <1>1, <1>2
    <3> QED BY <3>1
  <2>3. CASE m > n
    <3>1. m - 1 \in DOMAIN a /\ t[m] = a[m - 1]
      BY <2>3, <1>0, <1>1, <1>2
    <3> QED BY <3>1
  <2> QED BY <2>2, <2>3, <1>0, <1>2
<1>4. \A m, k \in DOMAIN t : t[m] = t[k] => m = k
  <2> SUFFICES ASSUME NEW m \in DOMAIN t, NEW k \in DOMAIN t, t[m] = t[k]
               PROVE  m = k
    OBVIOUS
  <2> DEFINE from(x) == IF x < n THEN x ELSE x - 1
  <2>1. \A x \in DOMAIN t : x # n => from(x) \in DOMAIN a /\ t[x] = a[from(x)]
    BY <1>0, <1>1, <1>2
  <2>2. t[n] = i /\ \A x \in DOMAIN t : x # n => t[x] # i
    BY <2>1, <1>0, <1>1, <1>2
  <2>3. CASE m = n \/ k = n
    BY <2>2, <2>3
  <2>4. CASE m # n /\ k # n
    <3>1. from(m) = from(k)
      BY <2>1, <2>4 DEF IsInjective
    <3> QED BY <3>1, <2>4, <1>0, <1>2
  <2> QED BY <2>3, <2>4
<1> QED BY <1>1, <1>3, <1>4 DEF IsInjective, t

-----------------------------------------------------------------------------
(* What a step writes                                                      *)

\* What each action that records something writes.
LEMMA StepWrites ==
  ASSUME TypeOK
  PROVE  /\ \A i \in Items : FileRequest(i) => Wrote("filed", None, i, None)
         /\ \A d \in Desks, i \in Items, p \in Persons :
              ResolveRequest(d, i, p) => Wrote("resolved", d, i, p)
         /\ \A d \in Desks, i \in Items :
              /\ RejectRequest(d, i) => Wrote("rejected", d, i, None)
              /\ CompleteTask(d, i) => Wrote("stopped", d, i, None)
              /\ HoldTask(d, i) => Wrote("held", d, i, None)
         /\ \A d \in Desks, p \in Persons :
              /\ DeliverNotice(d, p) => Wrote("delivered", d, None, p)
              /\ ViewPerson(d, p) => UNCHANGED trail \/ Wrote("viewed", d, None, p)
<1>1. \A i \in Items : FileRequest(i) => Wrote("filed", None, i, None)
  BY WrittenIsEntry DEF FileRequest
<1>2. \A d \in Desks, i \in Items, p \in Persons :
        ResolveRequest(d, i, p) => Wrote("resolved", d, i, p)
  BY WrittenIsEntry DEF ResolveRequest
<1>3. \A d \in Desks, i \in Items :
        /\ RejectRequest(d, i) => Wrote("rejected", d, i, None)
        /\ CompleteTask(d, i) => Wrote("stopped", d, i, None)
        /\ HoldTask(d, i) => Wrote("held", d, i, None)
  BY WrittenIsEntry DEF RejectRequest, CompleteTask, HoldTask
<1>4. \A d \in Desks, p \in Persons :
        /\ DeliverNotice(d, p) => Wrote("delivered", d, None, p)
        /\ ViewPerson(d, p) => UNCHANGED trail \/ Wrote("viewed", d, None, p)
  BY WrittenIsEntry DEF DeliverNotice, ViewPerson
<1> QED BY <1>1, <1>2, <1>3, <1>4

\* Every step leaves the rows, the queue, the pages and the log what TypeOK says.
LEMMA DeskTypes ==
  ASSUME DeskInv, [Next]_vars
  PROVE  TypeOK'
<1>1. /\ queue \in Queues /\ today \in Day /\ item \in Rows
      /\ arrivals \in Seq(Items) /\ IsInjective(arrivals)
      /\ mergedInto \in [Persons -> Persons \cup {None}]
      /\ page \in [Desks -> [rows : SUBSET Items, people : SUBSET Persons]]
      /\ trail \in Seq(Entry)
  BY DEF DeskInv, TypeOK, Rows, Row
<1>2. \A action, d, i, p : Wrote(action, d, i, p) => trail' \in Seq(Entry)
  BY EntryGoesLast DEF DeskInv, Wrote
<1>3. \A d \in Desks : Refreshed(d) =>
        page' \in [Desks -> [rows : SUBSET Items, people : SUBSET Persons]]
  BY <1>1 DEF Refreshed
<1>4. TypeOK
  BY DEF DeskInv
<1> DEFINE Typed ==
      /\ queue \in Queues /\ today \in Day /\ item \in Rows
      /\ arrivals \in Seq(Items) /\ IsInjective(arrivals)
      /\ mergedInto \in [Persons -> Persons \cup {None}]
      /\ page \in [Desks -> [rows : SUBSET Items, people : SUBSET Persons]]
      /\ trail \in Seq(Entry)
<1>5. Typed'
  <2>1. CASE NextDay
    BY <2>1, <1>1, DeskAssumption DEF NextDay, Day
  <2>2. ASSUME NEW a \in Persons, NEW s \in Persons, Merge(a, s)
        PROVE  Typed'
    BY <2>2, <1>1 DEF Merge
  <2>3. ASSUME NEW d \in Desks, Load(d) \/ LoadNotices(d)
        PROVE  Typed'
    <3>1. Shown \subseteq Items /\ Owed \subseteq Persons
      BY DEF Shown, Listed, Is, Owed, Unmerged
    <3> QED BY <2>3, <1>1, <3>1 DEF Load, LoadNotices, IsInjective
  <2>4. ASSUME NEW i \in Items, NEW ip \in Addresses \cup {NoIp}, InsertRequest(i, ip)
        PROVE  Typed'
    <3>1. item' \in Rows
      <4>1. item' = [item EXCEPT ![i] = [item[i] EXCEPT !.status = "inserting", !.from = ip,
                                                        !.day = today]]
        BY <2>4 DEF InsertRequest
      <4>2. item[i] \in Row
        BY <1>1 DEF Rows, Row
      <4>3. [item[i] EXCEPT !.status = "inserting", !.from = ip, !.day = today] \in Row
        BY <4>2, <1>1 DEF Row
      <4> QED BY <4>1, <4>3, <1>1 DEF Rows, Row
    <3> QED BY <2>4, <1>1, <3>1 DEF InsertRequest, IsInjective
  <2>5. ASSUME NEW i \in Items, FileRequest(i)
        PROVE  Typed'
    <3>1. \A k \in DOMAIN arrivals : arrivals[k] # i
      BY <2>5 DEF FileRequest, DeskInv, ListedAreRows
    <3>2. /\ arrivals' \in Seq(Items) /\ IsInjective(arrivals)'
      BY <2>5, <1>1, <3>1 DEF FileRequest, IsInjective
    <3>3. trail' \in Seq(Entry)
      BY <2>5, <1>2, <1>4, StepWrites
    <3>4. item' \in Rows
      <4>1. item' = [item EXCEPT ![i] = [item[i] EXCEPT !.status = "open"]]
        BY <2>5 DEF FileRequest
      <4>2. item[i] \in Row
        BY <1>1 DEF Rows
      <4>3. [item[i] EXCEPT !.status = "open"] \in Row
        BY <4>2 DEF Row
      <4> QED BY <4>1, <4>3, <1>1 DEF Rows
    <3> QED BY <2>5, <1>1, <3>2, <3>3, <3>4 DEF FileRequest
  <2>6. ASSUME NEW i \in Items, LoseRequest(i)
        PROVE  Typed'
    <3>1. NoItem \in [status : {"none"}, from : {NoIp}, day : {0}, person : {None},
                      heldBy : {None}, doneBy : {None}, notice : Notices]
      BY DEF NoItem, Notices
    <3>2. 0 \in Day
      BY DeskAssumption DEF Day
    <3> QED BY <2>6, <1>1, <3>1, <3>2 DEF LoseRequest, Rows, Row
  <2>7. ASSUME NEW i \in Items, NEW d \in Desks, NEW p \in Persons, ResolveRequest(d, i, p)
        PROVE  Typed'
    <3>1. trail' \in Seq(Entry)
      BY <2>7, <1>2, <1>4, StepWrites
    <3>2. item' \in Rows
      <4>1. item' = [item EXCEPT ![i] =
                       [item[i] EXCEPT !.status = "resolved", !.doneBy = d, !.person = p]]
        BY <2>7 DEF ResolveRequest
      <4>2. item[i] \in Row
        BY <1>1 DEF Rows
      <4>3. [item[i] EXCEPT !.status = "resolved", !.doneBy = d, !.person = p] \in Row
        BY <4>2 DEF Row
      <4> QED BY <4>1, <4>3, <1>1 DEF Rows
    <3> QED BY <2>7, <1>1, <1>3, <3>1, <3>2 DEF ResolveRequest, IsInjective
  <2>8. ASSUME NEW i \in Items, NEW d \in Desks, RejectRequest(d, i)
        PROVE  Typed'
    <3>1. trail' \in Seq(Entry)
      BY <2>8, <1>2, <1>4, StepWrites
    <3>2. item' \in Rows
      <4>1. item' = [item EXCEPT ![i] = [item[i] EXCEPT !.status = "rejected", !.doneBy = d]]
        BY <2>8 DEF RejectRequest
      <4>2. item[i] \in Row
        BY <1>1 DEF Rows
      <4>3. [item[i] EXCEPT !.status = "rejected", !.doneBy = d] \in Row
        BY <4>2 DEF Row
      <4> QED BY <4>1, <4>3, <1>1 DEF Rows
    <3> QED BY <2>8, <1>1, <1>3, <3>1, <3>2 DEF RejectRequest, IsInjective
  <2>9. ASSUME NEW i \in Items, NEW d \in Desks, CompleteTask(d, i)
        PROVE  Typed'
    <3>1. trail' \in Seq(Entry)
      BY <2>9, <1>2, <1>4, StepWrites
    <3>2. item' \in Rows
      <4>1. item' = [item EXCEPT ![i] = [item[i] EXCEPT !.status = "completed", !.doneBy = d]]
        BY <2>9 DEF CompleteTask
      <4>2. item[i] \in Row
        BY <1>1 DEF Rows
      <4>3. [item[i] EXCEPT !.status = "completed", !.doneBy = d] \in Row
        BY <4>2 DEF Row
      <4> QED BY <4>1, <4>3, <1>1 DEF Rows
    <3> QED BY <2>9, <1>1, <1>3, <3>1, <3>2 DEF CompleteTask, IsInjective
  <2>10. ASSUME NEW i \in Items, NEW d \in Desks, HoldTask(d, i)
         PROVE  Typed'
    <3>1. trail' \in Seq(Entry)
      BY <2>10, <1>2, <1>4, StepWrites
    <3>2. item' \in Rows
      <4>1. item' = [item EXCEPT ![i] = [item[i] EXCEPT !.status = "on_hold", !.heldBy = d]]
        BY <2>10 DEF HoldTask
      <4>2. item[i] \in Row
        BY <1>1 DEF Rows
      <4>3. [item[i] EXCEPT !.status = "on_hold", !.heldBy = d] \in Row
        BY <4>2 DEF Row
      <4> QED BY <4>1, <4>3, <1>1 DEF Rows
    <3> QED BY <2>10, <1>1, <1>3, <3>1, <3>2 DEF HoldTask, IsInjective
  <2>11. ASSUME NEW i \in Items, NEW k \in 1 .. Len(arrivals) + 1, RaiseTask(i, k)
         PROVE  Typed'
    <3>1. \A m \in DOMAIN arrivals : arrivals[m] # i
      BY <2>11 DEF RaiseTask, DeskInv, ListedAreRows
    <3>2. /\ arrivals' \in Seq(Items) /\ IsInjective(arrivals)'
      BY <2>11, <1>1, <3>1, ListsNewRow DEF RaiseTask, IsInjective
    <3>3. item' \in Rows
      <4>1. item' = [item EXCEPT ![i] = [item[i] EXCEPT !.status = "open"]]
        BY <2>11 DEF RaiseTask
      <4>2. item[i] \in Row
        BY <1>1 DEF Rows
      <4>3. [item[i] EXCEPT !.status = "open"] \in Row
        BY <4>2 DEF Row
      <4> QED BY <4>1, <4>3, <1>1 DEF Rows
    <3> QED BY <2>11, <1>1, <3>2, <3>3 DEF RaiseTask
  <2>12. ASSUME NEW i \in Items, NEW p \in Persons, NEW notice \in Carried,
                FileForm(i, p, notice)
         PROVE  Typed'
    <3>1. item' \in Rows
      <4>1. item' = [item EXCEPT ![i] =
                       [item[i] EXCEPT !.status = "filed", !.person = p, !.notice = notice]]
        BY <2>12 DEF FileForm
      <4>2. item[i] \in Row
        BY <1>1 DEF Rows
      <4>3. [item[i] EXCEPT !.status = "filed", !.person = p, !.notice = notice] \in Row
        BY <4>2, DeskAssumption DEF Row
      <4> QED BY <4>1, <4>3, <1>1 DEF Rows
    <3> QED BY <2>12, <1>1, <3>1 DEF FileForm, IsInjective
  <2>13. ASSUME NEW d \in Desks, NEW p \in Persons, DeliverNotice(d, p)
         PROVE  Typed'
    <3>1. trail' \in Seq(Entry)
      BY <2>13, <1>2, <1>4, StepWrites
    <3> QED BY <2>13, <1>1, <1>3, <3>1 DEF DeliverNotice
  <2>14. ASSUME NEW d \in Desks, NEW p \in Persons, ViewPerson(d, p)
         PROVE  Typed'
    <3>1. trail' \in Seq(Entry)
      BY <2>14, <1>1, <1>2, <1>4, StepWrites
    <3>2. page' \in [Desks -> [rows : SUBSET Items, people : SUBSET Persons]]
      BY <2>14, <1>1 DEF ViewPerson, Paper, Is
    <3> QED BY <2>14, <1>1, <3>1, <3>2 DEF ViewPerson
  <2>15. CASE UNCHANGED vars
    BY <2>15, <1>1 DEF vars, IsInjective
  <2> QED BY <2>1, <2>2, <2>3, <2>4, <2>5, <2>6, <2>7, <2>8, <2>9, <2>10, <2>11, <2>12,
             <2>13, <2>14, <2>15 DEF Next, Decide
<1> QED BY <1>5 DEF TypeOK, Rows, Row

-----------------------------------------------------------------------------
(* Rows and the queue                                                      *)

\* A row only goes where its queue takes it.
LEMMA RowsStep ==
  ASSUME DeskInv, [Next]_vars
  PROVE  RowsKeepToQueue'
<1>1. item \in Rows /\ today \in Nat /\ RowsKeepToQueue
  BY DeskAssumption DEF DeskInv, TypeOK, Rows, Row, Day
<1> DEFINE Keeps(j) == /\ item[j].status \in Course(queue)
                       /\ item[j].status \notin {"on_hold", "completed"} => item[j].heldBy = None
                       /\ item[j].status = "on_hold" => item[j].heldBy # None
                       /\ item[j].status \in {"none", "inserting", "open"} => item[j].person = None
                       /\ item[j].status = "filed" => item[j].person # None
                       /\ item[j].day <= today
<1> SUFFICES ASSUME NEW j \in Items
             PROVE  Keeps(j)'
  BY DEF RowsKeepToQueue
<1>2. item[j] \in Row
  BY <1>1 DEF Rows
<1>3. /\ item[j].status \in Course(queue)
      /\ item[j].status \notin {"on_hold", "completed"} => item[j].heldBy = None
      /\ item[j].status = "on_hold" => item[j].heldBy # None
      /\ item[j].status \in {"none", "inserting", "open"} => item[j].person = None
      /\ item[j].status = "filed" => item[j].person # None
      /\ item[j].day <= today /\ item[j].day \in Nat
  BY <1>1, <1>2, DeskAssumption DEF RowsKeepToQueue, Row, Day
<1>4. ASSUME item'[j] = item[j], queue' = queue, today' \in {today, today + 1}
      PROVE  Keeps(j)'
  BY <1>1, <1>3, <1>4
<1>5. CASE NextDay
  BY <1>4, <1>5 DEF NextDay
<1>6. ASSUME NEW a \in Persons, NEW s \in Persons, Merge(a, s)
      PROVE  Keeps(j)'
  <2>1. item'[j] = item[j] /\ queue' = queue /\ today' = today
    BY <1>6 DEF Merge
  <2> QED BY <2>1, <1>4
<1>7. ASSUME NEW d \in Desks, Load(d) \/ LoadNotices(d)
      PROVE  Keeps(j)'
  <2>1. item'[j] = item[j] /\ queue' = queue /\ today' = today
    BY <1>7 DEF Load, LoadNotices
  <2> QED BY <2>1, <1>4
<1>8. ASSUME NEW d \in Desks, NEW p \in Persons, DeliverNotice(d, p) \/ ViewPerson(d, p)
      PROVE  Keeps(j)'
  <2>1. item'[j] = item[j] /\ queue' = queue /\ today' = today
    BY <1>8 DEF DeliverNotice, ViewPerson
  <2> QED BY <2>1, <1>4
<1>9. ASSUME NEW i \in Items, NEW ip \in Addresses \cup {NoIp}, InsertRequest(i, ip)
      PROVE  Keeps(j)'
  <2>1. /\ queue' = queue /\ today' = today
        /\ IF i = j THEN /\ item[j].status = "none" /\ queue = "lookups"
                         /\ item'[j].status = "inserting" /\ item'[j].day = today
                         /\ item'[j].heldBy = item[j].heldBy
                         /\ item'[j].person = item[j].person
                    ELSE item'[j] = item[j]
    BY <1>9, <1>1, <1>2 DEF InsertRequest, Rows, Row
  <2> QED BY <2>1, <1>1, <1>3, <1>4 DEF Course
<1>10. ASSUME NEW i \in Items, FileRequest(i)
       PROVE  Keeps(j)'
  <2>1. /\ queue' = queue /\ today' = today
        /\ IF i = j THEN /\ item[j].status = "inserting" /\ item'[j].status = "open"
                         /\ item'[j].heldBy = item[j].heldBy /\ item'[j].day = item[j].day
                         /\ item'[j].person = item[j].person
                    ELSE item'[j] = item[j]
    BY <1>10, <1>1, <1>2 DEF FileRequest, Rows, Row
  <2> QED BY <2>1, <1>1, <1>3, <1>4 DEF Course
<1>11. ASSUME NEW i \in Items, LoseRequest(i)
       PROVE  Keeps(j)'
  <2>1. /\ queue' = queue /\ today' = today
        /\ IF i = j THEN item'[j] = NoItem ELSE item'[j] = item[j]
    BY <1>11, <1>1, <1>2 DEF LoseRequest, Rows, Row
  <2> QED BY <2>1, <1>1, <1>3, <1>4 DEF Course, NoItem
<1>12. ASSUME NEW i \in Items, NEW d \in Desks,
              RejectRequest(d, i) \/ \E p \in Persons : ResolveRequest(d, i, p)
       PROVE  Keeps(j)'
  <2>1. /\ queue' = queue /\ today' = today
        /\ IF i = j THEN /\ item[j].status = "open" /\ queue = "lookups"
                         /\ item'[j].status \in {"resolved", "rejected"}
                         /\ item'[j].heldBy = item[j].heldBy /\ item'[j].day = item[j].day
                    ELSE item'[j] = item[j]
    BY <1>12, <1>1, <1>2 DEF ResolveRequest, RejectRequest, Waiting, Rows, Row
  <2> QED BY <2>1, <1>1, <1>3, <1>4 DEF Course
<1>13. ASSUME NEW i \in Items, NEW d \in Desks, CompleteTask(d, i) \/ HoldTask(d, i)
       PROVE  Keeps(j)'
  <2>1. /\ queue' = queue /\ today' = today
        /\ IF i = j THEN /\ queue = "tasks" /\ item'[j].status \in {"completed", "on_hold"}
                         /\ item'[j].status = "on_hold" => item'[j].heldBy # None
                         /\ item'[j].day = item[j].day
                    ELSE item'[j] = item[j]
    BY <1>13, <1>1, <1>2, DeskAssumption DEF CompleteTask, HoldTask, Rows, Row
  <2> QED BY <2>1, <1>1, <1>3, <1>4 DEF Course
<1>14. ASSUME NEW i \in Items, NEW k \in 1 .. Len(arrivals) + 1, RaiseTask(i, k)
       PROVE  Keeps(j)'
  <2>1. /\ queue' = queue /\ today' = today
        /\ IF i = j THEN /\ queue = "tasks" /\ item[j].status = "none"
                         /\ item'[j].status = "open"
                         /\ item'[j].heldBy = item[j].heldBy /\ item'[j].day = item[j].day
                         /\ item'[j].person = item[j].person
                    ELSE item'[j] = item[j]
    BY <1>14, <1>1, <1>2 DEF RaiseTask, Rows, Row
  <2> QED BY <2>1, <1>1, <1>3, <1>4 DEF Course
<1>15. ASSUME NEW i \in Items, NEW p \in Persons, NEW notice \in Carried, FileForm(i, p, notice)
       PROVE  Keeps(j)'
  <2>1. /\ queue' = queue /\ today' = today
        /\ IF i = j THEN /\ queue = "notices" /\ item[j].status = "none"
                         /\ item'[j].status = "filed" /\ item'[j].person # None
                         /\ item'[j].heldBy = item[j].heldBy /\ item'[j].day = item[j].day
                    ELSE item'[j] = item[j]
    BY <1>15, <1>1, <1>2, DeskAssumption DEF FileForm, Rows, Row
  <2> QED BY <2>1, <1>1, <1>3, <1>4 DEF Course
<1>16. CASE UNCHANGED vars
  BY <1>4, <1>16 DEF vars
<1> QED BY <1>5, <1>6, <1>7, <1>8, <1>9, <1>10, <1>11, <1>12, <1>13, <1>14, <1>15, <1>16
      DEF Next, Decide

-----------------------------------------------------------------------------
\* A row is listed when it is committed, and committed for good.
LEMMA ListedStep ==
  ASSUME DeskInv, [Next]_vars
  PROVE  ListedAreRows'
<1>1. /\ item \in Rows /\ arrivals \in Seq(Items) /\ IsInjective(arrivals)
      /\ \A k \in DOMAIN arrivals : /\ arrivals[k] \in Items
                                    /\ item[arrivals[k]].status \notin {"none", "inserting"}
  <2>1. item \in Rows /\ arrivals \in Seq(Items) /\ IsInjective(arrivals) /\ ListedAreRows
    BY DEF DeskInv, TypeOK, Rows, Row
  <2>2. \A k \in DOMAIN arrivals : arrivals[k] \in Items
    BY <2>1
  <2> QED BY <2>1, <2>2 DEF ListedAreRows
<1>2. ASSUME arrivals' = arrivals,
             \A i \in Items : \/ item'[i].status = item[i].status
                              \/ item[i].status \in {"none", "inserting"}
                              \/ item'[i].status \notin {"none", "inserting"}
      PROVE  ListedAreRows'
  BY <1>1, <1>2 DEF ListedAreRows
<1>3. CASE NextDay \/ UNCHANGED vars
  BY <1>2, <1>3 DEF NextDay, vars
<1>4. ASSUME NEW a \in Persons, NEW s \in Persons, Merge(a, s)
      PROVE  ListedAreRows'
  BY <1>2, <1>4 DEF Merge
<1>5. ASSUME NEW d \in Desks, Load(d) \/ LoadNotices(d)
      PROVE  ListedAreRows'
  BY <1>2, <1>5 DEF Load, LoadNotices
<1>6. ASSUME NEW d \in Desks, NEW p \in Persons, DeliverNotice(d, p) \/ ViewPerson(d, p)
      PROVE  ListedAreRows'
  BY <1>2, <1>6 DEF DeliverNotice, ViewPerson
<1>7. ASSUME NEW i \in Items, NEW ip \in Addresses \cup {NoIp}, InsertRequest(i, ip)
      PROVE  ListedAreRows'
  <2>1. arrivals' = arrivals /\ \A j \in Items \ {i} : item'[j] = item[j]
    BY <1>1, <1>7 DEF InsertRequest, Rows
  <2>2. item[i].status = "none"
    BY <1>7 DEF InsertRequest
  <2> QED BY <1>2, <2>1, <2>2
<1>8. ASSUME NEW i \in Items, LoseRequest(i)
      PROVE  ListedAreRows'
  <2>1. arrivals' = arrivals /\ \A j \in Items \ {i} : item'[j] = item[j]
    BY <1>1, <1>8 DEF LoseRequest, Rows
  <2>2. item[i].status = "inserting"
    BY <1>8 DEF LoseRequest
  <2> QED BY <1>2, <2>1, <2>2
<1>9. ASSUME NEW i \in Items, FileRequest(i)
      PROVE  ListedAreRows'
  <2>1. /\ \A j \in Items \ {i} : item'[j] = item[j]
        /\ item'[i].status = "open"
    BY <1>1, <1>9 DEF FileRequest, Rows, Row
  <2>2. \A k \in DOMAIN arrivals' :
        arrivals'[k] = i \/ \E m \in DOMAIN arrivals : arrivals'[k] = arrivals[m]
    BY <1>1, <1>9 DEF FileRequest
  <2> QED BY <1>1, <2>1, <2>2 DEF ListedAreRows
<1>10. ASSUME NEW i \in Items, NEW n \in 1 .. Len(arrivals) + 1, RaiseTask(i, n)
       PROVE  ListedAreRows'
  <2>1. /\ \A j \in Items \ {i} : item'[j] = item[j]
        /\ item'[i].status = "open" /\ item[i].status = "none"
    BY <1>1, <1>10 DEF RaiseTask, Rows, Row
  <2>2. \A k \in DOMAIN arrivals : arrivals[k] # i
    BY <1>1, <2>1
  <2>3. \A k \in DOMAIN arrivals' :
        arrivals'[k] = i \/ \E m \in DOMAIN arrivals : arrivals'[k] = arrivals[m]
    BY <1>1, <1>10, <2>2, ListsNewRow DEF RaiseTask
  <2> QED BY <1>1, <2>1, <2>3 DEF ListedAreRows
<1>11. ASSUME NEW i \in Items, Decide(i)
       PROVE  ListedAreRows'
  <2>1. /\ arrivals' = arrivals /\ \A j \in Items \ {i} : item'[j] = item[j]
        /\ item'[i].status \notin {"none", "inserting"}
    BY <1>1, <1>11 DEF Decide, ResolveRequest, RejectRequest, CompleteTask, HoldTask, Rows, Row
  <2> QED BY <1>2, <2>1
<1>12. ASSUME NEW i \in Items, NEW p \in Persons, NEW notice \in Carried, FileForm(i, p, notice)
       PROVE  ListedAreRows'
  <2>1. /\ arrivals' = arrivals /\ \A j \in Items \ {i} : item'[j] = item[j]
        /\ item[i].status = "none"
    BY <1>1, <1>12 DEF FileForm, Rows
  <2> QED BY <1>2, <2>1
<1> QED BY <1>3, <1>4, <1>5, <1>6, <1>7, <1>8, <1>9, <1>10, <1>11, <1>12 DEF Next

-----------------------------------------------------------------------------
(* Room for requests                                                       *)

\* A set that gains at most one element gains at most one in number.
LEMMA OneMore ==
  ASSUME NEW S, IsFiniteSet(S), NEW x, NEW T, T \subseteq S \cup {x}
  PROVE  IsFiniteSet(T) /\ Cardinality(T) <= Cardinality(S) + 1
<1>1. /\ IsFiniteSet(S \cup {x}) /\ Cardinality(S) \in Nat
      /\ Cardinality(S \cup {x}) <= Cardinality(S) + 1
  <2>1. Cardinality(S) \in Nat
    BY FS_CardinalityType
  <2>2. /\ IsFiniteSet(S \cup {x})
        /\ Cardinality(S \cup {x}) = IF x \in S THEN Cardinality(S) ELSE Cardinality(S) + 1
    BY FS_AddElement
  <2> QED BY <2>1, <2>2
<1>2. /\ IsFiniteSet(T) /\ Cardinality(T) <= Cardinality(S \cup {x})
  BY <1>1, FS_Subset
<1>3. Cardinality(T) \in Nat /\ Cardinality(S \cup {x}) \in Nat
  BY <1>1, <1>2, FS_CardinalityType
<1> QED BY <1>1, <1>2, <1>3

\* When nothing new of today is counted for an address it stays within its room.
LEMMA NoMoreFilings ==
  ASSUME DeskInv, NEW ip \in Addresses \cup {NoIp}, queue = "lookups",
         FromToday(ip)' \subseteq FromToday(ip)
  PROVE  Cardinality(FromToday(ip)') <= Ceiling(ip) + InFlight - 1
<1>1. FromToday(ip) \subseteq {i \in Items : item[i].status # "none"}
  BY DEF FromToday
<1>2. IsFiniteSet(FromToday(ip)) /\ Cardinality(FromToday(ip)) <= Ceiling(ip) + InFlight - 1
  BY <1>1, FS_Subset DEF DeskInv, FilingRoom
<1>3. /\ IsFiniteSet(FromToday(ip)') /\ Cardinality(FromToday(ip)') <= Cardinality(FromToday(ip))
  BY <1>2, FS_Subset
<1>4. Cardinality(FromToday(ip)') \in Nat /\ Cardinality(FromToday(ip)) \in Nat
  BY <1>2, <1>3, FS_CardinalityType
<1>5. Ceiling(ip) \in Nat /\ InFlight \in Nat
  BY DeskAssumption DEF Ceiling
<1> QED BY <1>2, <1>3, <1>4, <1>5

\* A new request finds room beside what is under way.
LEMMA OneMoreFiling ==
  ASSUME DeskInv, NEW ip \in Addresses \cup {NoIp}, NEW i \in Items, InsertRequest(i, ip)
  PROVE  Cardinality(FromToday(ip)') <= Ceiling(ip) + InFlight - 1
<1> DEFINE known == {j \in Items : item[j].status # "none"}
<1>1. item \in Rows /\ today \in Nat /\ RowsKeepToQueue
  BY DeskAssumption DEF DeskInv, TypeOK, Rows, Row, Day
<1>2. IsFiniteSet(known) /\ Recent(ip) \subseteq known /\ Is("inserting") \subseteq known
  BY DEF DeskInv, FilingRoom, Recent, Is
<1> HIDE DEF known
<1>3. IsFiniteSet(Recent(ip)) /\ IsFiniteSet(Is("inserting"))
  BY <1>2, FS_Subset
<1>4. /\ Cardinality(Recent(ip)) \in Nat /\ Cardinality(Is("inserting")) \in Nat
      /\ Cardinality(Recent(ip)) < Ceiling(ip) /\ Cardinality(Is("inserting")) < InFlight
  BY <1>3, FS_CardinalityType DEF InsertRequest
<1>5. FromToday(ip)' \subseteq (Recent(ip) \cup Is("inserting")) \cup {i}
  <2>1. today' = today /\ \A j \in Items \ {i} : item'[j] = item[j]
    BY <1>1 DEF InsertRequest, Rows
  <2>2. \A j \in FromToday(ip)' : j = i \/ j \in Recent(ip) \cup Is("inserting")
    BY <1>1, <2>1 DEF FromToday, Recent, Is
  <2> QED BY <2>2
<1>6. /\ IsFiniteSet(Recent(ip) \cup Is("inserting"))
      /\ Cardinality(Recent(ip) \cup Is("inserting"))
           <= Cardinality(Recent(ip)) + Cardinality(Is("inserting"))
  <2>1. /\ IsFiniteSet(Recent(ip) \cup Is("inserting"))
        /\ Cardinality(Recent(ip) \cup Is("inserting"))
             = Cardinality(Recent(ip)) + Cardinality(Is("inserting"))
                 - Cardinality(Recent(ip) \cap Is("inserting"))
    BY <1>3, FS_Union
  <2>2. Cardinality(Recent(ip) \cap Is("inserting")) \in Nat
    BY <1>3, FS_Intersection, FS_CardinalityType
  <2> QED BY <2>1, <2>2, <1>4
<1>7. /\ IsFiniteSet(FromToday(ip)')
      /\ Cardinality(FromToday(ip)') <= Cardinality(Recent(ip) \cup Is("inserting")) + 1
  BY <1>5, <1>6, OneMore
<1>8. Cardinality(FromToday(ip)') \in Nat /\ Cardinality(Recent(ip) \cup Is("inserting")) \in Nat
  BY <1>6, <1>7, FS_CardinalityType
<1>9. Ceiling(ip) \in Nat /\ InFlight \in Nat
  BY DeskAssumption DEF Ceiling
<1> QED BY <1>4, <1>6, <1>7, <1>8, <1>9

-----------------------------------------------------------------------------
\* A step moves one row at most.
LEMMA OneRowAtATime ==
  ASSUME TypeOK, [Next]_vars
  PROVE  item' = item \/ \E i \in Items : \A j \in Items \ {i} : item'[j] = item[j]
<1>1. item \in Rows
  BY DEF TypeOK, Rows, Row
<1>2. CASE NextDay \/ UNCHANGED vars
  BY <1>2 DEF NextDay, vars
<1>3. ASSUME NEW a \in Persons, NEW s \in Persons, Merge(a, s)
      PROVE  item' = item
  BY <1>3 DEF Merge
<1>4. ASSUME NEW d \in Desks, Load(d) \/ LoadNotices(d)
      PROVE  item' = item
  BY <1>4 DEF Load, LoadNotices
<1>5. ASSUME NEW d \in Desks, NEW p \in Persons, DeliverNotice(d, p) \/ ViewPerson(d, p)
      PROVE  item' = item
  BY <1>5 DEF DeliverNotice, ViewPerson
<1>6. ASSUME NEW i \in Items, NEW ip \in Addresses \cup {NoIp}, InsertRequest(i, ip)
      PROVE  \A j \in Items \ {i} : item'[j] = item[j]
  BY <1>1, <1>6 DEF InsertRequest, Rows
<1>7. ASSUME NEW i \in Items, FileRequest(i) \/ LoseRequest(i)
      PROVE  \A j \in Items \ {i} : item'[j] = item[j]
  BY <1>1, <1>7 DEF FileRequest, LoseRequest, Rows
<1>8. ASSUME NEW i \in Items, Decide(i)
      PROVE  \A j \in Items \ {i} : item'[j] = item[j]
  BY <1>1, <1>8 DEF Decide, ResolveRequest, RejectRequest, CompleteTask, HoldTask, Rows
<1>9. ASSUME NEW i \in Items, NEW n \in 1 .. Len(arrivals) + 1, RaiseTask(i, n)
      PROVE  \A j \in Items \ {i} : item'[j] = item[j]
  BY <1>1, <1>9 DEF RaiseTask, Rows
<1>10. ASSUME NEW i \in Items, NEW p \in Persons, NEW notice \in Carried, FileForm(i, p, notice)
       PROVE  \A j \in Items \ {i} : item'[j] = item[j]
  BY <1>1, <1>10 DEF FileForm, Rows
<1> QED BY <1>2, <1>3, <1>4, <1>5, <1>6, <1>7, <1>8, <1>9, <1>10 DEF Next

\* Every step leaves room for what is under way.
LEMMA RoomStep ==
  ASSUME DeskInv, [Next]_vars
  PROVE  FilingRoom'
<1>1. item \in Rows /\ today \in Nat /\ RowsKeepToQueue /\ TypeOK
  BY DeskAssumption DEF DeskInv, TypeOK, Rows, Row, Day
<1>2. IsFiniteSet({j \in Items : item'[j].status # "none"})
  <2> DEFINE known == {j \in Items : item[j].status # "none"}
  <2>1. IsFiniteSet(known)
    BY DEF DeskInv, FilingRoom
  <2>2. CASE item' = item
    BY <2>1, <2>2
  <2>3. ASSUME NEW i \in Items, \A j \in Items \ {i} : item'[j] = item[j]
        PROVE  IsFiniteSet(known')
    <3>1. known' \subseteq known \cup {i}
      BY <2>3
    <3> HIDE DEF known
    <3> QED BY <3>1, <2>1, OneMore
  <2> QED BY <1>1, <2>2, <2>3, OneRowAtATime
<1>3. ASSUME NEW ip \in Addresses \cup {NoIp}, queue' = "lookups"
      PROVE  Cardinality(FromToday(ip)') <= Ceiling(ip) + InFlight - 1
  <2>1. CASE NextDay
    <3>1. FromToday(ip)' = {}
      <4>1. \A j \in Items : item'[j].day <= today /\ today' = today + 1 /\ item'[j].day \in Nat
        BY <1>1, <2>1, DeskAssumption DEF NextDay, RowsKeepToQueue, Rows, Row, Day
      <4> QED BY <1>1, <4>1 DEF FromToday
    <3> QED BY <3>1, <2>1, <1>3, NoMoreFilings DEF NextDay
  <2>2. ASSUME queue' = queue, FromToday(ip)' \subseteq FromToday(ip)
        PROVE  Cardinality(FromToday(ip)') <= Ceiling(ip) + InFlight - 1
    BY <1>3, <2>2, NoMoreFilings
  <2>3. CASE UNCHANGED vars
    BY <2>2, <2>3 DEF vars, FromToday
  <2>4. ASSUME NEW a \in Persons, NEW s \in Persons, Merge(a, s)
        PROVE  Cardinality(FromToday(ip)') <= Ceiling(ip) + InFlight - 1
    BY <2>2, <2>4 DEF Merge, FromToday
  <2>5. ASSUME NEW d \in Desks, Load(d) \/ LoadNotices(d)
        PROVE  Cardinality(FromToday(ip)') <= Ceiling(ip) + InFlight - 1
    BY <2>2, <2>5 DEF Load, LoadNotices, FromToday
  <2>6. ASSUME NEW d \in Desks, NEW p \in Persons, DeliverNotice(d, p) \/ ViewPerson(d, p)
        PROVE  Cardinality(FromToday(ip)') <= Ceiling(ip) + InFlight - 1
    BY <2>2, <2>6 DEF DeliverNotice, ViewPerson, FromToday
  <2>7. ASSUME NEW i \in Items, NEW from \in Addresses \cup {NoIp}, InsertRequest(i, from)
        PROVE  Cardinality(FromToday(ip)') <= Ceiling(ip) + InFlight - 1
    <3>1. CASE ip = from
      BY <2>7, <3>1, OneMoreFiling
    <3>2. CASE ip # from
      <4>1. /\ queue' = queue /\ today' = today /\ \A j \in Items \ {i} : item'[j] = item[j]
            /\ item'[i].from = from
        BY <1>1, <2>7 DEF InsertRequest, Rows, Row
      <4> QED BY <4>1, <3>2, <2>2 DEF FromToday
    <3> QED BY <3>1, <3>2
  <2>8. ASSUME NEW i \in Items, FileRequest(i)
        PROVE  Cardinality(FromToday(ip)') <= Ceiling(ip) + InFlight - 1
    <3>1. /\ queue' = queue /\ today' = today /\ \A j \in Items \ {i} : item'[j] = item[j]
          /\ item'[i].from = item[i].from /\ item'[i].day = item[i].day /\ item[i].status # "none"
      BY <1>1, <2>8 DEF FileRequest, Rows, Row
    <3> QED BY <3>1, <2>2 DEF FromToday
  <2>9. ASSUME NEW i \in Items, LoseRequest(i)
        PROVE  Cardinality(FromToday(ip)') <= Ceiling(ip) + InFlight - 1
    <3>1. /\ queue' = queue /\ today' = today /\ \A j \in Items \ {i} : item'[j] = item[j]
          /\ item'[i].status = "none"
      BY <1>1, <2>9 DEF LoseRequest, NoItem, Rows, Row
    <3> QED BY <3>1, <2>2 DEF FromToday
  <2>10. ASSUME NEW i \in Items, NEW d \in Desks,
                RejectRequest(d, i) \/ \E p \in Persons : ResolveRequest(d, i, p)
         PROVE  Cardinality(FromToday(ip)') <= Ceiling(ip) + InFlight - 1
    <3>1. /\ queue' = queue /\ today' = today /\ \A j \in Items \ {i} : item'[j] = item[j]
          /\ item'[i].from = item[i].from /\ item'[i].day = item[i].day /\ item[i].status # "none"
      BY <1>1, <2>10 DEF RejectRequest, ResolveRequest, Waiting, Rows, Row
    <3> QED BY <3>1, <2>2 DEF FromToday
  <2> QED BY <1>3, <2>1, <2>3, <2>4, <2>5, <2>6, <2>7, <2>8, <2>9, <2>10
          DEF Next, Decide, CompleteTask, HoldTask, RaiseTask, FileForm
<1> QED BY <1>2, <1>3 DEF FilingRoom, Ceiling

-----------------------------------------------------------------------------
(* The row and the log                                                     *)

\* A step that decides nothing leaves every row and the log in agreement.
LEMMA NothingDecided ==
  ASSUME DeskInv,
         \/ UNCHANGED trail
         \/ \E i, p : Wrote("filed", None, i, p)
         \/ \E action, d, p : Wrote(action, d, None, p),
         \A j \in Items : \/ item'[j] = item[j]
                          \/ item[j].status \in Undecided /\ item'[j].status \in Undecided
  PROVE  TrailTellsTheStory'
<1> SUFFICES ASSUME NEW j \in Items
             PROVE  RowAndLogAgree(j)'
  BY DEF TrailTellsTheStory
<1>1. TypeOK /\ RowAndLogAgree(j)
  BY DEF DeskInv, TrailTellsTheStory
<1>2. Quiet(j)
  BY DeskAssumption DEF Quiet, Wrote
<1> QED BY <1>1, <1>2, QuietKeepsAgreement, QuietKeepsUndecided

\* A decision about one row leaves the others as they were.
LEMMA OthersUndisturbed ==
  ASSUME DeskInv, NEW i \in Items, NEW action, NEW d, NEW p, Wrote(action, d, i, p),
         NEW j \in Items \ {i}, item'[j] = item[j]
  PROVE  RowAndLogAgree(j)'
<1>1. TypeOK /\ RowAndLogAgree(j)
  BY DEF DeskInv, TrailTellsTheStory
<1>2. Quiet(j)
  BY DEF Quiet, Wrote
<1> QED BY <1>1, <1>2, QuietKeepsAgreement

\* A decision is the last entry of the log, and one more about its row.
LEMMA DecisionIsLast ==
  ASSUME TypeOK, NEW i \in Items, NEW action, action # "filed", NEW d, NEW p,
         Wrote(action, d, i, p)
  PROVE  \E k \in DOMAIN trail' :
           /\ Decisions(i)' = Decisions(i) \cup {k}
           /\ Says(k, action, d, p)'
           /\ \A h \in DOMAIN trail : h \in DOMAIN trail' /\ h < k /\ trail'[h] = trail[h]
<1>1. PICK e \in Entry : /\ trail' = Append(trail, e)
                         /\ e.action = action /\ e.actor = d /\ e.on = i /\ e.person = p
  BY DEF Wrote
<1>2. PICK k : k = Len(trail) + 1
  OBVIOUS
<1>3. Decisions(i)' = Decisions(i) \cup {k}
  BY <1>1, <1>2, DecisionAdds
<1>4. /\ DOMAIN trail' = DOMAIN trail \cup {k} /\ trail'[k] = e
      /\ \A h \in DOMAIN trail : h < k /\ trail'[h] = trail[h]
  BY <1>1, <1>2, EntryGoesLast
<1>5. Says(k, action, d, p)'
  BY <1>1, <1>4 DEF Says
<1> QED BY <1>3, <1>4, <1>5

\* An open row has no decision on the log, is about nobody, and nobody holds it.
LEMMA OpenIsUndecided ==
  ASSUME DeskInv, NEW i \in Items, item[i].status \in {"none", "inserting", "open", "filed"}
  PROVE  /\ Decisions(i) = {} /\ item[i].heldBy = None
         /\ item[i].status # "filed" => item[i].person = None
BY DEF DeskInv, TrailTellsTheStory, RowAndLogAgree, RowsKeepToQueue

\* Every step keeps the rows and the log in agreement.
LEMMA StoryStep ==
  ASSUME DeskInv, [Next]_vars
  PROVE  TrailTellsTheStory'
<1>1. item \in Rows /\ TypeOK /\ None \notin Desks
  BY DeskAssumption DEF DeskInv, TypeOK, Rows, Row
<1>2. CASE NextDay \/ UNCHANGED vars
  BY <1>2, NothingDecided DEF NextDay, vars
<1>3. ASSUME NEW a \in Persons, NEW s \in Persons, Merge(a, s)
      PROVE  TrailTellsTheStory'
  BY <1>3, NothingDecided DEF Merge
<1>4. ASSUME NEW d \in Desks, Load(d) \/ LoadNotices(d)
      PROVE  TrailTellsTheStory'
  BY <1>4, NothingDecided DEF Load, LoadNotices
<1>5. ASSUME NEW d \in Desks, NEW p \in Persons, DeliverNotice(d, p) \/ ViewPerson(d, p)
      PROVE  TrailTellsTheStory'
  <2>1. UNCHANGED trail \/ Wrote("delivered", d, None, p) \/ Wrote("viewed", d, None, p)
    BY <1>1, <1>5, StepWrites
  <2>2. \A j \in Items : item'[j] = item[j]
    BY <1>5 DEF DeliverNotice, ViewPerson
  <2> QED BY <2>1, <2>2, NothingDecided
<1>6. ASSUME NEW i \in Items, NEW ip \in Addresses \cup {NoIp}, InsertRequest(i, ip)
      PROVE  TrailTellsTheStory'
  <2>1. \A j \in Items : \/ item'[j] = item[j]
                         \/ item[j].status = "none" /\ item'[j].status = "inserting"
    BY <1>1, <1>6 DEF InsertRequest, Rows, Row
  <2> QED BY <1>6, <2>1, NothingDecided DEF InsertRequest, Undecided
<1>7. ASSUME NEW i \in Items, FileRequest(i)
      PROVE  TrailTellsTheStory'
  <2>1. \A j \in Items : \/ item'[j] = item[j]
                         \/ item[j].status = "inserting" /\ item'[j].status = "open"
    BY <1>1, <1>7 DEF FileRequest, Rows, Row
  <2>2. Wrote("filed", None, i, None)
    BY <1>1, <1>7, StepWrites
  <2> QED BY <2>1, <2>2, NothingDecided DEF Undecided
<1>8. ASSUME NEW i \in Items, LoseRequest(i)
      PROVE  TrailTellsTheStory'
  <2>1. \A j \in Items : \/ item'[j] = item[j]
                         \/ item[j].status = "inserting" /\ item'[j].status = "none"
    BY <1>1, <1>8 DEF LoseRequest, NoItem, Rows, Row
  <2> QED BY <1>8, <2>1, NothingDecided DEF LoseRequest, Undecided
<1>9. ASSUME NEW i \in Items, NEW n \in 1 .. Len(arrivals) + 1, RaiseTask(i, n)
      PROVE  TrailTellsTheStory'
  <2>1. \A j \in Items : \/ item'[j] = item[j]
                         \/ item[j].status = "none" /\ item'[j].status = "open"
    BY <1>1, <1>9 DEF RaiseTask, Rows, Row
  <2> QED BY <1>9, <2>1, NothingDecided DEF RaiseTask, Undecided
<1>10. ASSUME NEW i \in Items, NEW p \in Persons, NEW notice \in Carried, FileForm(i, p, notice)
       PROVE  TrailTellsTheStory'
  <2>1. \A j \in Items : \/ item'[j] = item[j]
                         \/ item[j].status = "none" /\ item'[j].status = "filed"
    BY <1>1, <1>10 DEF FileForm, Rows, Row
  <2> QED BY <1>10, <2>1, NothingDecided DEF FileForm, Undecided
<1>11. ASSUME NEW i \in Items, NEW d \in Desks, NEW p \in Persons, ResolveRequest(d, i, p)
       PROVE  TrailTellsTheStory'
  <2>1. /\ item[i].status = "open" /\ \A j \in Items \ {i} : item'[j] = item[j]
        /\ item'[i].status = "resolved" /\ item'[i].doneBy = d /\ item'[i].person = p
    BY <1>1, <1>11 DEF ResolveRequest, Waiting, Rows, Row
  <2>2. Wrote("resolved", d, i, p)
    BY <1>1, <1>11, StepWrites
  <2>3. RowAndLogAgree(i)'
    <3>1. /\ Decisions(i) = {} /\ item[i].heldBy = None /\ item[i].person = None
      BY <2>1, OpenIsUndecided
    <3>2. PICK k \in DOMAIN trail' : Decisions(i)' = {k} /\ Says(k, "resolved", d, p)'
      BY <1>1, <2>2, <3>1, DecisionIsLast
    <3> QED BY <2>1, <3>1, <3>2 DEF RowAndLogAgree, Says
  <2> QED BY <2>1, <2>2, <2>3, OthersUndisturbed DEF TrailTellsTheStory
<1>12. ASSUME NEW i \in Items, NEW d \in Desks, RejectRequest(d, i)
       PROVE  TrailTellsTheStory'
  <2>1. /\ item[i].status = "open" /\ \A j \in Items \ {i} : item'[j] = item[j]
        /\ item'[i].status = "rejected" /\ item'[i].doneBy = d /\ item'[i].person = item[i].person
    BY <1>1, <1>12 DEF RejectRequest, Waiting, Rows, Row
  <2>2. Wrote("rejected", d, i, None)
    BY <1>1, <1>12, StepWrites
  <2>3. RowAndLogAgree(i)'
    <3>1. /\ Decisions(i) = {} /\ item[i].heldBy = None /\ item[i].person = None
      BY <2>1, OpenIsUndecided
    <3>2. PICK k \in DOMAIN trail' : Decisions(i)' = {k} /\ Says(k, "rejected", d, None)'
      BY <1>1, <2>2, <3>1, DecisionIsLast
    <3> QED BY <2>1, <3>1, <3>2 DEF RowAndLogAgree, Says
  <2> QED BY <2>1, <2>2, <2>3, OthersUndisturbed DEF TrailTellsTheStory
<1>13. ASSUME NEW i \in Items, NEW d \in Desks, HoldTask(d, i)
       PROVE  TrailTellsTheStory'
  <2>1. /\ item[i].status = "open" /\ \A j \in Items \ {i} : item'[j] = item[j]
        /\ item'[i].status = "on_hold" /\ item'[i].heldBy = d
    BY <1>1, <1>13 DEF HoldTask, Rows, Row
  <2>2. Wrote("held", d, i, None)
    BY <1>1, <1>13, StepWrites
  <2>3. RowAndLogAgree(i)'
    <3>1. /\ Decisions(i) = {} /\ item[i].heldBy = None /\ item[i].person = None
      BY <2>1, OpenIsUndecided
    <3>2. PICK k \in DOMAIN trail' : Decisions(i)' = {k} /\ Says(k, "held", d, None)'
      BY <1>1, <2>2, <3>1, DecisionIsLast
    <3> QED BY <2>1, <3>1, <3>2 DEF RowAndLogAgree, Says
  <2> QED BY <2>1, <2>2, <2>3, OthersUndisturbed DEF TrailTellsTheStory
<1>14. ASSUME NEW i \in Items, NEW d \in Desks, CompleteTask(d, i)
       PROVE  TrailTellsTheStory'
  <2>1. /\ queue = "tasks" /\ item[i].status # "completed"
        /\ \A j \in Items \ {i} : item'[j] = item[j]
        /\ item'[i].status = "completed" /\ item'[i].doneBy = d
        /\ item'[i].heldBy = item[i].heldBy
    BY <1>1, <1>14 DEF CompleteTask, Rows, Row
  <2>2. Wrote("stopped", d, i, None)
    BY <1>1, <1>14, StepWrites
  <2>3. RowAndLogAgree(i)'
    <3>1. CASE item[i].status \in {"none", "open"}
      <4>1. Decisions(i) = {} /\ item[i].heldBy = None
        BY <3>1, OpenIsUndecided
      <4>2. PICK k \in DOMAIN trail' : Decisions(i)' = {k} /\ Says(k, "stopped", d, None)'
        BY <1>1, <2>2, <4>1, DecisionIsLast
      <4> QED BY <2>1, <4>1, <4>2 DEF RowAndLogAgree, Says
    <3>2. CASE item[i].status = "on_hold"
      <4>1. PICK h \in DOMAIN trail : Decisions(i) = {h} /\ Says(h, "held", item[i].heldBy, None)
        BY <3>2 DEF RowAndLogAgree, DeskInv, TrailTellsTheStory
      <4>2. PICK k \in DOMAIN trail' :
              /\ Decisions(i)' = {h, k} /\ Says(k, "stopped", d, None)'
              /\ h \in DOMAIN trail' /\ h < k /\ trail'[h] = trail[h]
        BY <1>1, <2>2, <4>1, DecisionIsLast
      <4>3. item[i].heldBy # None
        BY <3>2 DEF DeskInv, RowsKeepToQueue
      <4> QED BY <2>1, <4>1, <4>2, <4>3 DEF RowAndLogAgree, Says
    <3>3. item[i].status \in {"none", "open", "on_hold"}
      BY <2>1 DEF DeskInv, RowsKeepToQueue, Course
    <3> QED BY <3>1, <3>2, <3>3
  <2> QED BY <2>1, <2>2, <2>3, OthersUndisturbed DEF TrailTellsTheStory
<1> QED BY <1>2, <1>3, <1>4, <1>5, <1>6, <1>7, <1>8, <1>9, <1>10, <1>11, <1>12, <1>13, <1>14
    DEF Next, Decide

-----------------------------------------------------------------------------
(* The results                                                             *)

\* The invariant holds to begin with.
LEMMA DeskStarts ==
  ASSUME Init
  PROVE  DeskInv
<1>1. NoItem \in Row /\ 0 \in Day
  BY DeskAssumption DEF NoItem, Row, Notices, Day
<1>2. TypeOK
  BY <1>1 DEF Init, TypeOK, Row, IsInjective
<1>3. RowsKeepToQueue
  BY DEF Init, RowsKeepToQueue, NoItem, Course
<1>4. ListedAreRows
  BY DEF Init, ListedAreRows
<1>5. FilingRoom
  <2>1. {i \in Items : item[i].status # "none"} = {}
    BY DEF Init, NoItem
  <2>2. \A ip : FromToday(ip) = {}
    BY DEF Init, NoItem, FromToday
  <2>3. \A ip : Ceiling(ip) \in Nat \ {0} /\ InFlight \in Nat \ {0}
    BY DeskAssumption DEF Ceiling
  <2>4. IsFiniteSet({}) /\ Cardinality({}) = 0
    BY FS_EmptySet
  <2>5. \A ip : Cardinality(FromToday(ip)) <= Ceiling(ip) + InFlight - 1
    <3>1. \A ip : Cardinality(FromToday(ip)) = 0
      BY <2>2, <2>4
    <3>2. \A ip : Ceiling(ip) + InFlight - 1 \in Nat
      BY <2>3
    <3> QED BY <3>1, <3>2
  <2> QED BY <2>1, <2>4, <2>5 DEF FilingRoom
<1>6. TrailTellsTheStory
  <2>1. \A i \in Items : Decisions(i) = {} /\ item[i].status = "none"
    BY DEF Init, Decisions, NoItem
  <2> QED BY <2>1 DEF TrailTellsTheStory, RowAndLogAgree
<1> QED BY <1>2, <1>3, <1>4, <1>5, <1>6 DEF DeskInv

\* The desk keeps its invariant: rows go where their queue takes them, what is
\* under way fits the limits, and the rows agree with the log.
THEOREM DeskHolds == Spec => []DeskInv
<1>1. Init => DeskInv
  BY DeskStarts
<1>2. DeskInv /\ [Next]_vars => DeskInv'
  BY DeskTypes, RowsStep, ListedStep, RoomStep, StoryStep DEF DeskInv
<1> QED BY <1>1, <1>2, PTL DEF Spec

\* Rows, queue, pages and log are what the tables and the screens can hold.
THEOREM TypeCorrect == Spec => []TypeOK
<1>1. DeskInv => TypeOK
  BY DEF DeskInv
<1> QED BY <1>1, DeskHolds, PTL

\* However many pages show a row, it is decided once, a task after its hold, and
\* the log says who did and of whom what the row says (resolveLookupRequest,
\* rejectLookupRequest, holdTask, completeTask).
THEOREM RowsAndLogAgree == Spec => []TrailTellsTheStory
<1>1. DeskInv => TrailTellsTheStory
  BY DEF DeskInv
<1> QED BY <1>1, DeskHolds, PTL

\* Concurrent requests of an address, or of nobody in particular, overrun the
\* daily limit by no more than those under way (fileLookupRequest).
THEOREM FilingsStayBounded == Spec => []FilingsBounded
<1>1. DeskInv => FilingsBounded
  <2> DEFINE of(ip) == {i \in Items : /\ item[i].status \notin {"none", "inserting"}
                                      /\ item[i].day = today /\ item[i].from = ip}
  <2> SUFFICES ASSUME DeskInv, queue = "lookups", NEW ip \in Addresses \cup {NoIp}
               PROVE  Cardinality(of(ip)) <= Ceiling(ip) + InFlight - 1
    BY DEF FilingsBounded
  <2>1. /\ of(ip) \subseteq FromToday(ip)
        /\ FromToday(ip) \subseteq {i \in Items : item[i].status # "none"}
    BY DEF FromToday
  <2>2. IsFiniteSet(FromToday(ip)) /\ Cardinality(FromToday(ip)) <= Ceiling(ip) + InFlight - 1
    BY <2>1, FS_Subset DEF DeskInv, FilingRoom
  <2> HIDE DEF of
  <2>3. IsFiniteSet(of(ip)) /\ Cardinality(of(ip)) <= Cardinality(FromToday(ip))
    BY <2>1, <2>2, FS_Subset
  <2>4. Cardinality(of(ip)) \in Nat /\ Cardinality(FromToday(ip)) \in Nat
    BY <2>2, <2>3, FS_CardinalityType
  <2>5. Ceiling(ip) \in Nat /\ InFlight \in Nat
    BY DeskAssumption DEF Ceiling
  <2> QED BY <2>2, <2>3, <2>4, <2>5
<1> QED BY <1>1, DeskHolds, PTL

\* The end of a person's chain is in it, unmerged, if there is one.
LEMMA ResolveEnds ==
  ASSUME NEW q \in Persons, Resolve(q) # None
  PROVE  /\ Resolve(q) \in ChainFrom(q, mergedInto, ResolveDepth, None)
         /\ Resolve(q) \in Unmerged
BY DEF Resolve

\* Whoever resolvePrincipalId sends on, chainMembers finds, and finds for nobody
\* else: the screen of a survivor has the paper of those who resolve to them.
THEOREM PaperFollows == Spec => []PaperFollowsSurvivor
<1>1. DeskInv => PaperFollowsSurvivor
  <2> SUFFICES ASSUME DeskInv, NEW p \in Unmerged, NEW i \in Is("filed")
               PROVE  /\ Resolve(item[i].person) = p => i \in Paper(p)
                      /\ i \in Paper(p) => Resolve(item[i].person) \in {p, None}
    BY DEF PaperFollowsSurvivor
  <2>1. PICK q \in Persons : q = item[i].person
    BY DEF DeskInv, TypeOK, RowsKeepToQueue, Is
  <2>2. /\ mergedInto \in [Persons -> Persons \cup {None}] /\ None \notin Persons
        /\ p \in Persons /\ mergedInto[p] = None
        /\ ResolveDepth \in Nat /\ MemberDepth \in Nat /\ ResolveDepth <= MemberDepth
    BY DeskAssumption DEF DeskInv, TypeOK, Unmerged
  <2>3. ASSUME Resolve(q) = p
        PROVE  i \in Paper(p)
    <3>1. p \in ChainFrom(q, mergedInto, ResolveDepth, None)
      BY <2>2, <2>3, ResolveEnds
    <3>2. q \in FoldedBelow(p, mergedInto, Persons, MemberDepth)
      BY <2>2, <3>1, UpIsDown
    <3> QED BY <2>1, <3>2 DEF Paper, Members
  <2>4. ASSUME i \in Paper(p), Resolve(q) # None
        PROVE  Resolve(q) = p
    <3>1. q \in FoldedBelow(p, mergedInto, Persons, MemberDepth)
      BY <2>1, <2>4 DEF Paper, Members
    <3>2. PICK r : /\ r = Resolve(q) /\ mergedInto[r] = None
                   /\ r \in ChainFrom(q, mergedInto, ResolveDepth, None)
      BY <2>4, ResolveEnds DEF Unmerged
    <3>3. r = p
      BY <2>2, <3>1, <3>2, DownEndsUp
    <3> QED BY <3>2, <3>3
  <2> QED BY <2>1, <2>3, <2>4
<1> QED BY <1>1, DeskHolds, PTL

\* A form on file is never touched again.
LEMMA FiledForGood ==
  ASSUME DeskInv, [Next]_vars, NEW f \in Items, item[f].status = "filed"
  PROVE  item'[f] = item[f]
<1>1. item \in Rows /\ queue \notin {"lookups", "tasks"}
  BY DEF DeskInv, TypeOK, Rows, Row, RowsKeepToQueue, Course
<1>2. ASSUME NEW i \in Items, NEW ip \in Addresses \cup {NoIp}, InsertRequest(i, ip)
      PROVE  item'[f] = item[f]
  BY <1>1, <1>2 DEF InsertRequest
<1>3. ASSUME NEW i \in Items, FileRequest(i) \/ LoseRequest(i)
      PROVE  item'[f] = item[f]
  BY <1>1, <1>3 DEF FileRequest, LoseRequest, Rows
<1>4. ASSUME NEW i \in Items, NEW p \in Persons, NEW notice \in Carried, FileForm(i, p, notice)
      PROVE  item'[f] = item[f]
  BY <1>1, <1>4 DEF FileForm, Rows
<1>5. ASSUME NEW i \in Items, Decide(i)
      PROVE  FALSE
  BY <1>1, <1>5 DEF Decide, ResolveRequest, RejectRequest, CompleteTask, HoldTask
<1> QED BY <1>1, <1>2, <1>3, <1>4, <1>5
        DEF Next, NextDay, Merge, Load, LoadNotices, RaiseTask, DeliverNotice, ViewPerson, vars

\* A person owed a notice stays on the queue, whatever is filed or merged into
\* them, until one is delivered or they are merged away (loadNoticeQueue).
THEOREM DebtsStand == Spec => DebtStands
<1>1. DeskInv /\ [Next]_vars =>
        [\A p \in Owed : p \in Owed' \/ mergedInto'[p] # None \/ Delivered(p)']_vars
  <2> SUFFICES ASSUME DeskInv, [Next]_vars, NEW p \in Owed,
                      mergedInto'[p] = None, ~ Delivered(p)'
               PROVE  p \in Owed'
    OBVIOUS
  <2>1. PICK f \in Items : /\ item[f].status = "filed" /\ item[f].person = p
                           /\ item[f].notice \in {"none", "unknown"}
    BY DEF Owed, Lacking, Is
  <2>2. item'[f] = item[f]
    BY <2>1, FiledForGood
  <2>3. Lacking(p)'
    BY <2>1, <2>2 DEF Lacking, Is
  <2> QED BY <2>3 DEF Owed, Unmerged
<1> QED BY <1>1, DeskHolds, PTL DEF Spec, DebtStands
================================================================================
