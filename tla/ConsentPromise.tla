---------------------------- MODULE ConsentPromise ----------------------------
(***************************************************************************)
(* What the register promises to a system that asks it whether it may      *)
(* process a person's data for a purpose: the answer is no until a form    *)
(* put on file says yes, and after a withdrawal it is no until a form is   *)
(* put on file that says yes and was signed on a later day.  A form speaks *)
(* once for a person, of the purposes it answers.  Folding two identities  *)
(* together never turns a standing withdrawal into a yes.                  *)
(*                                                                         *)
(* No drafts, no records, no order between forms: only the forms on file   *)
(* (filed), the answer (allowed) and the day of the withdrawal that stands *)
(* (stoppedOn).                                                            *)
(***************************************************************************)
EXTENDS Integers

CONSTANTS Persons, Purposes, Papers, MaxDay

NoDay == -1
Day   == 0 .. MaxDay

VARIABLES today, filed, allowed, stoppedOn

vars == <<today, filed, allowed, stoppedOn>>

Init ==
  /\ today = 0
  /\ filed = {}
  /\ allowed = [p \in Persons |-> [u \in Purposes |-> FALSE]]
  /\ stoppedOn = [p \in Persons |-> [u \in Purposes |-> NoDay]]

NextDay ==
  /\ today' \in Day /\ today' > today
  /\ UNCHANGED <<filed, allowed, stoppedOn>>

\* A form on file, and for whom.
Entry == [person : Persons, form : Papers]

\* Form e.form is put on file for e.person and settles some of the purposes it
\* answers: none they stopped on its day or later, and none at all they stopped
\* if it is undated (NoDay).
Sign(e, settled) ==
  LET p == e.person
      f == e.form
  IN  /\ e \in Entry /\ filed' = filed \cup {e}
      /\ f.collectedOn <= today
      /\ settled \subseteq f.granted \cup f.declined
      /\ \A u \in settled : stoppedOn[p][u] # NoDay => stoppedOn[p][u] < f.collectedOn
      /\ allowed' = [allowed EXCEPT ![p] =
           [u \in Purposes |-> IF u \in settled THEN u \in f.granted ELSE allowed[p][u]]]
      /\ stoppedOn' = [stoppedOn EXCEPT ![p] =
           [u \in Purposes |-> IF u \in settled THEN NoDay ELSE stoppedOn[p][u]]]
      /\ UNCHANGED today

\* p takes back the consent for the purposes in stopped, now.
Stop(p, stopped) ==
  /\ UNCHANGED <<today, filed>>
  /\ \A u \in stopped : allowed[p][u]
  /\ allowed' = [allowed EXCEPT ![p] =
       [u \in Purposes |-> allowed[p][u] /\ u \notin stopped]]
  /\ stoppedOn' = [stoppedOn EXCEPT ![p] =
       [u \in Purposes |-> IF u \in stopped THEN today ELSE stoppedOn[p][u]]]

\* a is folded into s: for each purpose one of the two answers stands, and it
\* is a withdrawal if either of them was.
Fuse(a, s, absorbed) ==
  /\ a # s
  /\ \A u \in Purposes :
       \/ stoppedOn[a][u] = NoDay /\ stoppedOn[s][u] = NoDay
       \/ stoppedOn[IF u \in absorbed THEN a ELSE s][u] # NoDay
  /\ allowed' = [allowed EXCEPT
       ![a] = [u \in Purposes |-> FALSE],
       ![s] = [u \in Purposes |-> allowed[IF u \in absorbed THEN a ELSE s][u]]]
  /\ stoppedOn' = [stoppedOn EXCEPT
       ![a] = [u \in Purposes |-> NoDay],
       ![s] = [u \in Purposes |-> stoppedOn[IF u \in absorbed THEN a ELSE s][u]]]
  /\ UNCHANGED <<today, filed>>

\* The form a step signs is the one it adds to those on file.
Next ==
  \/ NextDay
  \/ \E e \in filed' \ filed, settled \in SUBSET Purposes : Sign(e, settled)
  \/ \E p \in Persons, stopped \in SUBSET Purposes : Stop(p, stopped)
  \/ \E a, s \in Persons, absorbed \in SUBSET Purposes : Fuse(a, s, absorbed)

Spec == Init /\ [][Next]_vars
===============================================================================
