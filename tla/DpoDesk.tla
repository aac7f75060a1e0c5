-------------------------------- MODULE DpoDesk --------------------------------
(***************************************************************************)
(* The queues a DPO works: requests of people who cannot find their        *)
(* record, systems that must stop, notices owed; and the screen of one     *)
(* person, which reads the paper of everybody folded into them.            *)
(*                                                                         *)
(* Several DPOs have pages open, and a page shows what was there when it   *)
(* was loaded.  One queue is at work in a behaviour: they share the people *)
(* and the audit log and nothing else.                                     *)
(***************************************************************************)
EXTENDS Integers, FiniteSets, Sequences, SequencesExt, FiniteSetsExt, MergeChains

CONSTANTS
  Persons,        \* data_principal
  Desks,          \* staff_user rows of DPOs, each with a page
  Items,          \* ids of lookup requests, cessation tasks or artifacts
  Addresses,      \* where lookup requests come from
  Queues,         \* which queues may be at work
  PerAddress,     \* REQUESTS_PER_IP_PER_DAY
  Unaddressed,    \* REQUESTS_PER_DAY_WITHOUT_ADDRESS
  InFlight,       \* lookup requests that can be under way at once
  PageSize,       \* the LIMIT of a queue
  ResolveDepth,   \* MAX_MERGE_DEPTH
  MemberDepth,    \* the depth chainMembers goes to
  MaxDay,         \* bound on the calendar
  MaxTrail,       \* bound on the notices delivered and the views recorded
  NoIp,           \* the address cannot be established
  MaxForms,       \* bound on the forms filed
  Carried,        \* what filed forms say about the notice
  None            \* SQL NULL

\* notice_at_collection
Notices == {"attached", "printed_on_form", "none", "unknown"}

ASSUME DeskAssumption ==
  /\ {PerAddress, Unaddressed, InFlight, PageSize} \subseteq Nat \ {0}
  /\ {ResolveDepth, MemberDepth, MaxDay, MaxTrail, MaxForms} \subseteq Nat
  /\ ResolveDepth <= MemberDepth
  /\ Carried \subseteq Notices
  /\ NoIp \notin Addresses /\ None \notin Persons \cup Desks \cup Items

VARIABLES
  queue,       \* the queue at work
  today,
  item,        \* the row behind each id
  arrivals,    \* ids in the order of created_at or due_at
  mergedInto,
  page,        \* what each desk was shown: rows, and people
  trail        \* audit_log, oldest first

vars == <<queue, today, item, arrivals, mergedInto, page, trail>>

Day == 0 .. MaxDay

NoItem == [status |-> "none", from |-> NoIp, day |-> 0, person |-> None,
           heldBy |-> None, doneBy |-> None, notice |-> "unknown"]

Entry == [action : {"filed", "resolved", "rejected", "stopped", "held", "delivered", "viewed"},
          actor : Desks \cup {None}, on : Items \cup {None},
          person : Persons \cup {None}, day : Day]

TypeOK ==
  /\ queue \in Queues /\ today \in Day
  /\ item \in [Items -> [status : {"none", "inserting", "open", "resolved", "rejected",
                                   "on_hold", "completed", "filed"},
                         from : Addresses \cup {NoIp}, day : Day,
                         person : Persons \cup {None}, heldBy : Desks \cup {None},
                         doneBy : Desks \cup {None}, notice : Notices]]
  /\ arrivals \in Seq(Items) /\ IsInjective(arrivals)
  /\ mergedInto \in [Persons -> Persons \cup {None}]
  /\ page \in [Desks -> [rows : SUBSET Items, people : SUBSET Persons]]
  /\ trail \in Seq(Entry)

Init ==
  /\ queue \in Queues
  /\ today = 0
  /\ item = [i \in Items |-> NoItem]
  /\ arrivals = <<>>
  /\ mergedInto = [p \in Persons |-> None]
  /\ page = [d \in Desks |-> [rows |-> {}, people |-> {}]]
  /\ trail = <<>>

NextDay ==
  /\ queue # "tasks" /\ today < MaxDay
  /\ today' = today + 1
  /\ UNCHANGED <<queue, item, arrivals, mergedInto, page, trail>>

Written(action, d, i, p) ==
  trail' = Append(trail, [action |-> action, actor |-> d, on |-> i, person |-> p, day |-> today])

-----------------------------------------------------------------------------
(* People                                                                  *)

Unmerged == {p \in Persons : mergedInto[p] = None}

Resolve(p) ==
  LET ends == ChainFrom(p, mergedInto, ResolveDepth, None) \cap Unmerged
  IN  IF ends = {} THEN None ELSE CHOOSE q \in ends : TRUE

\* Mutant of Members: the walk down stops a link before the walk up does.
MembersButLast(p) == FoldedBelow(p, mergedInto, Persons, MemberDepth - 1)

\* chainMembers: whoever was folded into p, or into one of those.
Members(p) == FoldedBelow(p, mergedInto, Persons, MemberDepth)

\* mergePrincipals, as in ConsentRegister; the other two queues read no merge.
Merge(a, s) ==
  /\ queue = "notices" /\ a # s /\ a \in Unmerged /\ Resolve(s) \notin {None, a}
  /\ mergedInto' = [mergedInto EXCEPT ![a] = s]
  /\ UNCHANGED <<queue, today, item, arrivals, page, trail>>

-----------------------------------------------------------------------------
(* What a page shows                                                       *)

Is(status) == {i \in Items : item[i].status = status}

\* The tab a queue opens on.
Listed == Is("open")

Position(i) == CHOOSE k \in DOMAIN arrivals : arrivals[k] = i

\* The first rows of the tab: longest waiting first, or soonest due first.
Shown == {i \in Listed : Cardinality({j \in Listed : Position(j) <= Position(i)}) <= PageSize}

\* A page is loaded.
Load(d) ==
  /\ queue \in {"lookups", "tasks"}
  /\ page' = [page EXCEPT ![d].rows = Shown]
  /\ UNCHANGED <<queue, today, item, arrivals, mergedInto, trail>>

\* After an answer that it was recorded; a refusal leaves the page as it is.
Refreshed(d) == page' = [page EXCEPT ![d] = [rows |-> {}, people |-> {}]]

-----------------------------------------------------------------------------
(* Lookup requests                                                         *)

\* Mutant of Recent: with no address to count against, nothing is counted.
RecentFrom(ip) ==
  {i \in Items : /\ item[i].status \notin {"none", "inserting"}
                 /\ item[i].day > today - 1
                 /\ ip # NoIp /\ item[i].from = ip}

\* What the count inside the insert sees: committed rows of the last day, those
\* of the address, or all of them when there is none.
Recent(ip) ==
  {i \in Items : /\ item[i].status \notin {"none", "inserting"}
                 /\ item[i].day > today - 1
                 /\ ip = NoIp \/ item[i].from = ip}

Ceiling(ip) == IF ip = NoIp THEN Unaddressed ELSE PerAddress

\* The insert finds room.
InsertRequest(i, ip) ==
  /\ queue = "lookups" /\ item[i].status = "none"
  /\ Cardinality(Is("inserting")) < InFlight
  /\ Cardinality(Recent(ip)) < Ceiling(ip)
  /\ item' = [item EXCEPT ![i].status = "inserting", ![i].from = ip, ![i].day = today]
  /\ UNCHANGED <<queue, today, arrivals, mergedInto, page, trail>>

\* The transaction commits, with its entry in the log.
FileRequest(i) ==
  /\ item[i].status = "inserting"
  /\ item' = [item EXCEPT ![i].status = "open"]
  /\ arrivals' = Append(arrivals, i)
  /\ Written("filed", None, i, None)
  /\ UNCHANGED <<queue, today, mergedInto, page>>

\* Or fails; the caller is told to try again.
LoseRequest(i) ==
  /\ item[i].status = "inserting"
  /\ item' = [item EXCEPT ![i] = NoItem]
  /\ UNCHANGED <<queue, today, arrivals, mergedInto, page, trail>>

\* Mutant of Waiting: the update lost its status guard.
WaitingEver(i) == item[i].status \in {"open", "resolved", "rejected"}

Waiting(i) == item[i].status = "open"

\* The DPO says who it was, or that nobody was found.  The search offers people
\* not merged away, but what it found may be old by the time it is used.
ResolveRequest(d, i, p) ==
  /\ queue = "lookups" /\ i \in page[d].rows
  /\ Waiting(i)
  /\ item' = [item EXCEPT ![i].status = "resolved", ![i].doneBy = d, ![i].person = p]
  /\ Written("resolved", d, i, p)
  /\ Refreshed(d)
  /\ UNCHANGED <<queue, today, arrivals, mergedInto>>

RejectRequest(d, i) ==
  /\ queue = "lookups" /\ i \in page[d].rows
  /\ Waiting(i)
  /\ item' = [item EXCEPT ![i].status = "rejected", ![i].doneBy = d]
  /\ Written("rejected", d, i, None)
  /\ Refreshed(d)
  /\ UNCHANGED <<queue, today, arrivals, mergedInto>>

-----------------------------------------------------------------------------
(* Cessation tasks                                                         *)

\* Raised by a withdrawal, due before or after those on the queue.
RaiseTask(i, k) ==
  /\ queue = "tasks" /\ item[i].status = "none"
  /\ item' = [item EXCEPT ![i].status = "open"]
  /\ arrivals' = InsertAt(arrivals, k, i)
  /\ UNCHANGED <<queue, today, mergedInto, page, trail>>

CompleteTask(d, i) ==
  /\ queue = "tasks" /\ i \in page[d].rows
  /\ item[i].status # "completed"
  /\ item' = [item EXCEPT ![i].status = "completed", ![i].doneBy = d]
  /\ Written("stopped", d, i, None)
  /\ Refreshed(d)
  /\ UNCHANGED <<queue, today, arrivals, mergedInto>>

HoldTask(d, i) ==
  /\ queue = "tasks" /\ i \in page[d].rows
  /\ item[i].status = "open"
  /\ item' = [item EXCEPT ![i].status = "on_hold", ![i].heldBy = d]
  /\ Written("held", d, i, None)
  /\ Refreshed(d)
  /\ UNCHANGED <<queue, today, arrivals, mergedInto>>

-----------------------------------------------------------------------------
(* Notices owed, and the screen of a person                                *)

FileForm(i, p, notice) ==
  /\ queue = "notices" /\ item[i].status = "none" /\ p \in Unmerged
  /\ Cardinality(Is("filed")) < MaxForms
  /\ item' = [item EXCEPT ![i].status = "filed", ![i].person = p, ![i].notice = notice]
  /\ UNCHANGED <<queue, today, arrivals, mergedInto, page, trail>>

Entries == {trail[k] : k \in DOMAIN trail}

Delivered(p) == \E e \in Entries : e.action = "delivered" /\ e.person = p

\* Mutant of Lacking: one form with a notice answers for the others.
LackingAll(p) ==
  {i \in Is("filed") : item[i].person = p}
    = {i \in Is("filed") : item[i].person = p /\ item[i].notice \in {"none", "unknown"}}

\* Not knowing whether a notice was given counts as none.
Lacking(p) ==
  \E i \in Is("filed") : item[i].person = p /\ item[i].notice \in {"none", "unknown"}

Owed == {p \in Unmerged : Lacking(p) /\ ~ Delivered(p)}

\* The pages of this queue are modelled by the people they are about: the first
\* in the order of their earliest paper, which may be any of them.
LoadNotices(d) ==
  /\ queue = "notices"
  /\ \E shown \in SUBSET Owed :
       /\ Cardinality(shown) = Min({PageSize, Cardinality(Owed)})
       /\ page' = [page EXCEPT ![d] = [rows |-> {}, people |-> shown]]
  /\ UNCHANGED <<queue, today, item, arrivals, mergedInto, trail>>

\* Nothing is asked of the register: a page that is behind records it again.
DeliverNotice(d, p) ==
  /\ queue = "notices" /\ p \in page[d].people /\ Len(trail) < MaxTrail
  /\ Written("delivered", d, None, p)
  /\ Refreshed(d)
  /\ UNCHANGED <<queue, today, item, arrivals, mergedInto>>

\* A view of this person by this DPO is on the log already; a day stands for
\* the window.
Seen(d, p) ==
  \E e \in Entries : e.action = "viewed" /\ e.person = p /\ e.actor = d /\ e.day > today - 1

\* loadArtifacts: the paper of the person and of their members.
Paper(p) == {i \in Is("filed") : item[i].person \in Members(p)}

\* The screen of a person: page.rows stands for the paper on it.
ViewPerson(d, p) ==
  /\ queue = "notices" /\ Len(trail) < MaxTrail
  /\ page' = [page EXCEPT ![d] = [rows |-> Paper(p), people |-> {p}]]
  /\ IF Seen(d, p) THEN UNCHANGED trail ELSE Written("viewed", d, None, p)
  /\ UNCHANGED <<queue, today, item, arrivals, mergedInto>>

-----------------------------------------------------------------------------
Decide(i) ==
  \E d \in Desks : RejectRequest(d, i) \/ CompleteTask(d, i) \/ HoldTask(d, i)
                     \/ \E p \in Persons : ResolveRequest(d, i, p)

Next ==
  \/ NextDay
  \/ \E a, s \in Persons : Merge(a, s)
  \/ \E d \in Desks : Load(d) \/ LoadNotices(d)
  \/ \E i \in Items, ip \in Addresses \cup {NoIp} : InsertRequest(i, ip)
  \/ \E i \in Items : FileRequest(i) \/ LoseRequest(i) \/ Decide(i)
  \/ \E i \in Items, k \in 1 .. Len(arrivals) + 1 : RaiseTask(i, k)
  \/ \E i \in Items, p \in Persons, notice \in Carried : FileForm(i, p, notice)
  \/ \E d \in Desks, p \in Persons : DeliverNotice(d, p) \/ ViewPerson(d, p)

Spec == Init /\ [][Next]_vars

-----------------------------------------------------------------------------
(* Properties                                                              *)

\* Where in the log something was decided of i.
Decisions(i) == {k \in DOMAIN trail : trail[k].on = i /\ trail[k].action # "filed"}

\* The entry at k says who did what, and of whom.
Says(k, action, by, p) ==
  trail[k].action = action /\ trail[k].actor = by /\ trail[k].person = p

RowAndLogAgree(i) ==
  LET row == item[i]
  IN  CASE row.status \in {"resolved", "rejected"} ->
             \E k \in DOMAIN trail :
               Decisions(i) = {k} /\ Says(k, row.status, row.doneBy, row.person)
        [] row.status = "on_hold" ->
             \E k \in DOMAIN trail : Decisions(i) = {k} /\ Says(k, "held", row.heldBy, None)
        [] row.status = "completed" ->
             \E k \in DOMAIN trail :
               /\ Says(k, "stopped", row.doneBy, None)
               /\ \/ row.heldBy = None /\ Decisions(i) = {k}
                  \/ \E h \in DOMAIN trail :
                       /\ row.heldBy # None /\ h < k /\ Decisions(i) = {h, k}
                       /\ Says(h, "held", row.heldBy, None)
        [] OTHER -> Decisions(i) = {}

\* A request is decided once and a task in the order held, stopped, whoever had
\* the page open: the row and the log tell the same story, with the same names.
TrailTellsTheStory == \A i \in Items : RowAndLogAgree(i)

\* In a day an address files at most its limit and what was under way with it,
\* and those whose address cannot be established file at most theirs together.
FilingsBounded ==
  LET of(ip) == {i \in Items : /\ item[i].status \notin {"none", "inserting"}
                               /\ item[i].day = today /\ item[i].from = ip}
  IN  queue = "lookups" =>
        \A ip \in Addresses \cup {NoIp} : Cardinality(of(ip)) <= Ceiling(ip) + InFlight - 1

\* Nobody drops off the notice queue except by a delivery or by being merged;
\* in particular no later form, whatever it carried, clears the debt.
DebtStands ==
  [][\A p \in Owed : p \in Owed' \/ mergedInto'[p] # None \/ Delivered(p)']_vars

\* The screen of a surviving person shows the paper of everybody who resolves to
\* them, and of nobody who resolves to somebody else: what chainMembers finds on
\* the way down is whom resolvePrincipalId sends on the way up.
PaperFollowsSurvivor ==
  \A p \in Unmerged, i \in Is("filed") :
    LET survivor == Resolve(item[i].person)
    IN  /\ survivor = p => i \in Paper(p)
        /\ i \in Paper(p) => survivor \in {p, None}
===============================================================================
