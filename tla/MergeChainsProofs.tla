--------------------------- MODULE MergeChainsProofs ---------------------------
(***************************************************************************)
(* Lemmas about the walks along data_principal.merged_into_id.             *)
(***************************************************************************)
EXTENDS MergeChains, Integers, FiniteSets, FiniteSetTheorems, WellFoundedInduction, TLAPS

\* Induction over the naturals, with a set in place of a predicate: a set with
\* 0 and the successor of each of its members holds every natural.
LEMMA NatSet ==
  ASSUME NEW S, 0 \in S, \A n \in Nat : n \in S => n + 1 \in S
  PROVE  Nat \subseteq S
<1> DEFINE T     == {n \in Nat : n \notin S}
           below == {0 .. n : n \in T}
           R     == StrictSubsetOrdering(Nat)
<1> SUFFICES ASSUME T # {} PROVE FALSE
  OBVIOUS
<1>1. below \subseteq FiniteSubsetsOf(Nat) /\ below # {}
  <2>1. \A n \in Nat : IsFiniteSet(0 .. n) /\ 0 .. n \subseteq Nat
    BY FS_Interval
  <2> QED
    BY <2>1 DEF FiniteSubsetsOf
<1>2. PICK x \in below : \A y \in below : <<y, x>> \notin R
  BY <1>1, FS_StrictSubsetOrderingWellFounded, WFMin
<1>3. PICK m \in T : x = 0 .. m
  BY <1>2
<1>4. m # 0 /\ m - 1 \in Nat /\ m - 1 \notin S
  <2>1. m \in Nat /\ m # 0
    OBVIOUS
  <2>2. m = (m - 1) + 1 /\ m - 1 \in Nat
    BY <2>1
  <2> QED
    BY <2>1, <2>2
<1>5. 0 .. m - 1 \in below
  BY <1>4
<1>6. <<0 .. m - 1, 0 .. m>> \in R
  <2>1. 0 .. m - 1 \subseteq 0 .. m /\ 0 .. m \subseteq Nat
    BY <1>4
  <2>2. m \in 0 .. m /\ m \notin 0 .. m - 1
    BY <1>4
  <2> QED
    BY <2>1, <2>2 DEF StrictSubsetOrdering
<1> QED
  BY <1>2, <1>3, <1>5, <1>6

Grows(f, p, into, depth, none) ==
  f = [n \in 0 .. depth |->
         IF n = 0 THEN {p} ELSE f[n - 1] \cup ({into[q] : q \in f[n - 1]} \ {none})]

\* A walk of any depth can be laid out as a function.
LEMMA WalkExists ==
  ASSUME NEW p, NEW into, NEW none
  PROVE  \A depth \in Nat : \E f : Grows(f, p, into, depth, none)
<1> DEFINE S == {d \in Nat : \E f : Grows(f, p, into, d, none)}
<1>1. 0 \in S
  <2>1. Grows([n \in 0 .. 0 |-> {p}], p, into, 0, none)
    BY DEF Grows
  <2> QED BY <2>1
<1>2. ASSUME NEW d \in Nat, d \in S PROVE d + 1 \in S
  <2>1. PICK f : Grows(f, p, into, d, none)
    BY <1>2
  <2> DEFINE g == [n \in 0 .. d + 1 |->
                     IF n = d + 1 THEN f[d] \cup ({into[q] : q \in f[d]} \ {none}) ELSE f[n]]
             h == [n \in 0 .. d + 1 |->
                    IF n = 0 THEN {p} ELSE g[n - 1] \cup ({into[q] : q \in g[n - 1]} \ {none})]
  <2>2. ASSUME NEW n \in 0 .. d + 1 PROVE g[n] = h[n]
    <3>1. CASE n = 0
      BY <3>1, <2>1 DEF Grows
    <3>2. CASE n \in 1 .. d
      <4>1. g[n] = f[n] /\ g[n - 1] = f[n - 1] /\ n \in 0 .. d
        BY <3>2
      <4>2. f[n] = f[n - 1] \cup ({into[q] : q \in f[n - 1]} \ {none})
        BY <2>1, <3>2, <4>1 DEF Grows
      <4>3. h[n] = g[n - 1] \cup ({into[q] : q \in g[n - 1]} \ {none})
        BY <3>2
      <4> HIDE DEF g, h
      <4> QED BY <4>1, <4>2, <4>3
    <3>3. CASE n = d + 1
      <4>1. g[n - 1] = f[d]
        BY <3>3
      <4> QED BY <3>3, <4>1
    <3> QED BY <3>1, <3>2, <3>3
  <2>3. g = h
    BY <2>2
  <2>4. Grows(g, p, into, d + 1, none)
    BY <2>3 DEF Grows
  <2> QED BY <2>4
<1> QED
  BY <1>1, <1>2, NatSet

\* The chain is the end of such a walk.
LEMMA ChainGrows ==
  ASSUME NEW p, NEW into, NEW depth \in Nat, NEW none
  PROVE  \E f : /\ Grows(f, p, into, depth, none)
                /\ ChainFrom(p, into, depth, none) = f[depth]
<1> DEFINE f == CHOOSE f : Grows(f, p, into, depth, none)
<1>1. Grows(f, p, into, depth, none)
  BY WalkExists
<1>2. ChainFrom(p, into, depth, none) = f[depth]
  BY DEF ChainFrom, Grows
<1> QED
  BY <1>1, <1>2

\* The same, said of the numbers: f[n] is what n links lead to.
Walk(f, p, into, depth, none) ==
  /\ f[0] = {p}
  /\ f[depth] = ChainFrom(p, into, depth, none)
  /\ \A n \in 1 .. depth : f[n] = f[n - 1] \cup ({into[q] : q \in f[n - 1]} \ {none})

\* The chain is the end of the walk that ChainFrom makes.
LEMMA ChainWalk ==
  ASSUME NEW p, NEW into, NEW depth \in Nat, NEW none
  PROVE  \E f : Walk(f, p, into, depth, none)
<1>1. PICK f : /\ Grows(f, p, into, depth, none)
               /\ ChainFrom(p, into, depth, none) = f[depth]
  BY ChainGrows
<1>2. f[0] = {p} /\ \A n \in 1 .. depth :
         f[n] = f[n - 1] \cup ({into[q] : q \in f[n - 1]} \ {none})
  BY <1>1 DEF Grows
<1> QED
  BY <1>1, <1>2 DEF Walk

\* A walk that starts in a set its links do not leave stays there.
LEMMA ChainStays ==
  ASSUME NEW p, NEW into, NEW depth \in Nat, NEW none,
         NEW S, p \in S, \A q \in S : into[q] \in S \cup {none}
  PROVE  p \in ChainFrom(p, into, depth, none) /\ ChainFrom(p, into, depth, none) \subseteq S
<1>1. PICK f : Walk(f, p, into, depth, none)
  BY ChainWalk
<1> DEFINE N == {n \in Nat : n <= depth => p \in f[n] /\ f[n] \subseteq S}
<1>2. 0 \in N
  BY <1>1 DEF Walk
<1>3. ASSUME NEW n \in Nat, n \in N PROVE n + 1 \in N
  <2>1. CASE n + 1 <= depth
    <3>1. n + 1 \in 1 .. depth /\ (n + 1) - 1 = n /\ n <= depth
      BY <2>1
    <3>2. f[n + 1] = f[n] \cup ({into[q] : q \in f[n]} \ {none})
      BY <1>1, <3>1 DEF Walk
    <3> QED
      BY <1>3, <3>1, <3>2
  <2> QED
    BY <2>1
<1>4. depth \in N
  BY <1>2, <1>3, NatSet
<1> QED
  BY <1>1, <1>4 DEF Walk

-----------------------------------------------------------------------------
(* Cycles                                                                  *)

\* From every set of people some link leads out of it: no cycle of links.
Acyclic(into, people) ==
  \A S \in SUBSET people : S # {} => \E q \in S : into[q] \notin S

\* Without a cycle, the walk comes to an end as soon as it follows as many links
\* as there are.
LEMMA ChainEnds ==
  ASSUME NEW P, NEW none, NEW into \in [P -> P \cup {none}], Acyclic(into, P),
         NEW M, M = {q \in P : into[q] # none}, IsFiniteSet(M),
         NEW depth \in Nat, Cardinality(M) <= depth, NEW p \in P
  PROVE  \E q \in ChainFrom(p, into, depth, none) : q \in P /\ into[q] = none
<1>1. PICK f : Walk(f, p, into, depth, none)
  BY ChainWalk
<1> SUFFICES ASSUME \A q \in f[depth] : q \in P => into[q] # none
             PROVE  FALSE
  BY <1>1 DEF Walk
<1> DEFINE N == {n \in Nat : n <= depth =>
                   /\ f[n] \subseteq P
                   /\ \/ \E q \in f[n] : into[q] = none
                      \/ IsFiniteSet(f[n]) /\ Cardinality(f[n]) >= n + 1}
<1>2. 0 \in N
  <2>1. f[0] = {p}
    BY <1>1 DEF Walk
  <2>2. IsFiniteSet(f[0]) /\ Cardinality(f[0]) = 1
    <3>1. IsFiniteSet({p}) /\ Cardinality({p}) = 1
      BY FS_Singleton
    <3> QED
      BY <2>1, <3>1
  <2> QED
    BY <2>1, <2>2
<1>3. ASSUME NEW n \in Nat, n \in N PROVE n + 1 \in N
  <2> SUFFICES ASSUME n + 1 <= depth
               PROVE  /\ f[n + 1] \subseteq P
                      /\ \/ \E q \in f[n + 1] : into[q] = none
                         \/ IsFiniteSet(f[n + 1]) /\ Cardinality(f[n + 1]) >= n + 2
    OBVIOUS
  <2>1. f[n + 1] = f[n] \cup ({into[q] : q \in f[n]} \ {none})
    <3>1. n + 1 \in 1 .. depth /\ (n + 1) - 1 = n
      OBVIOUS
    <3> QED
      BY <1>1, <3>1 DEF Walk
  <2>2. /\ f[n] \subseteq P
        /\ \/ \E q \in f[n] : into[q] = none
           \/ IsFiniteSet(f[n]) /\ Cardinality(f[n]) >= n + 1
    BY <1>3
  <2>3. f[n + 1] \subseteq P
    BY <2>1, <2>2
  <2>4. CASE \E q \in f[n + 1] : into[q] = none
    BY <2>3, <2>4
  <2>5. CASE \A q \in f[n + 1] : into[q] # none
    <3>1. f[n] \subseteq f[n + 1] /\ f[n + 1] \subseteq M
      BY <2>1, <2>3, <2>5
    <3>2. IsFiniteSet(f[n + 1])
      BY <3>1, FS_Subset
    <3>3. IsFiniteSet(f[n]) /\ Cardinality(f[n]) >= n + 1 /\ f[n] # {}
      BY <2>2, <2>5, <3>1, FS_EmptySet
    <3>4. PICK q \in f[n] : into[q] \notin f[n]
      BY <2>2, <3>3 DEF Acyclic
    <3>5. Cardinality(f[n] \cup {into[q]}) = Cardinality(f[n]) + 1
      BY <3>3, <3>4, FS_AddElement
    <3>6. f[n] \cup {into[q]} \subseteq f[n + 1]
      BY <2>1, <2>5, <3>1
    <3>7. Cardinality(f[n] \cup {into[q]}) <= Cardinality(f[n + 1])
      BY <3>2, <3>6, FS_Subset
    <3> QED
      BY <2>3, <3>2, <3>3, <3>5, <3>7, FS_CardinalityType
  <2> QED
    BY <2>4, <2>5
<1>4. depth \in N
  BY <1>2, <1>3, NatSet
<1>5. f[depth] \subseteq M /\ Cardinality(f[depth]) >= depth + 1
  BY <1>4
<1>6. Cardinality(f[depth]) <= Cardinality(M)
  BY <1>5, FS_Subset
<1> QED
  BY <1>5, <1>6, FS_CardinalityType, FS_Subset

-----------------------------------------------------------------------------
(* The walk down                                                           *)

Descends(f, p, into, rows, depth) ==
  f = [n \in 0 .. depth |-> IF n = 0 THEN {p} ELSE {q \in rows : into[q] \in f[n - 1]}]

\* The levels below a row can be laid out as a function.
LEMMA LevelsExist ==
  ASSUME NEW p, NEW into, NEW rows
  PROVE  \A depth \in Nat : \E f : Descends(f, p, into, rows, depth)
<1> DEFINE S == {d \in Nat : \E f : Descends(f, p, into, rows, d)}
<1>1. 0 \in S
  <2>1. Descends([n \in 0 .. 0 |-> {p}], p, into, rows, 0)
    BY DEF Descends
  <2> QED BY <2>1
<1>2. ASSUME NEW d \in Nat, d \in S PROVE d + 1 \in S
  <2>1. PICK f : Descends(f, p, into, rows, d)
    BY <1>2
  <2> DEFINE g == [n \in 0 .. d + 1 |->
                     IF n = d + 1 THEN {q \in rows : into[q] \in f[d]} ELSE f[n]]
             h == [n \in 0 .. d + 1 |->
                     IF n = 0 THEN {p} ELSE {q \in rows : into[q] \in g[n - 1]}]
  <2>2. ASSUME NEW n \in 0 .. d + 1 PROVE g[n] = h[n]
    <3>1. CASE n = 0
      BY <3>1, <2>1 DEF Descends
    <3>2. CASE n \in 1 .. d
      <4>1. g[n] = f[n] /\ g[n - 1] = f[n - 1] /\ n \in 0 .. d
        BY <3>2
      <4>2. f[n] = {q \in rows : into[q] \in f[n - 1]}
        BY <2>1, <3>2, <4>1 DEF Descends
      <4>3. h[n] = {q \in rows : into[q] \in g[n - 1]}
        BY <3>2
      <4> HIDE DEF g, h
      <4> QED BY <4>1, <4>2, <4>3
    <3>3. CASE n = d + 1
      <4>1. g[n - 1] = f[d]
        BY <3>3
      <4> QED BY <3>3, <4>1
    <3> QED BY <3>1, <3>2, <3>3
  <2>3. g = h
    BY <2>2
  <2>4. Descends(g, p, into, rows, d + 1)
    BY <2>3 DEF Descends
  <2> QED BY <2>4
<1> QED
  BY <1>1, <1>2, NatSet

\* The same, said of the numbers, of a function that does not end.
Levels(f, p, into, rows, depth) ==
  /\ f[0] = {p}
  /\ \A n \in 1 .. depth : f[n] = {q \in rows : into[q] \in f[n - 1]}

\* Who is below a row is who is on some level.
LEMMA BelowLevels ==
  ASSUME NEW p, NEW into, NEW rows, NEW depth \in Nat
  PROVE  \E f : /\ Levels(f, p, into, rows, depth)
                /\ FoldedBelow(p, into, rows, depth) = UNION {f[n] : n \in 0 .. depth}
<1> DEFINE f == CHOOSE f : Descends(f, p, into, rows, depth)
<1>1. Descends(f, p, into, rows, depth)
  BY LevelsExist
<1>2. FoldedBelow(p, into, rows, depth) = UNION {f[n] : n \in 0 .. depth}
  BY DEF FoldedBelow, Descends
<1> HIDE DEF f
<1>3. ASSUME NEW n \in 0 .. depth
      PROVE  f[n] = IF n = 0 THEN {p} ELSE {q \in rows : into[q] \in f[n - 1]}
  BY <1>1 DEF Descends
<1>4. f[0] = {p} /\ \A n \in 1 .. depth : f[n] = {q \in rows : into[q] \in f[n - 1]}
  <2>1. 0 \in 0 .. depth /\ \A n \in 1 .. depth : n \in 0 .. depth /\ n # 0
    OBVIOUS
  <2> QED BY <1>3, <2>1
<1> QED
  BY <1>2, <1>4 DEF Levels

\* What is on level k below r is on level k + 1 below the row r links to.
LEMMA LevelsShift ==
  ASSUME NEW into, NEW rows, NEW depth \in Nat, NEW r \in rows, NEW f, NEW g,
         Levels(f, r, into, rows, depth), Levels(g, into[r], into, rows, depth)
  PROVE  \A k \in Nat : k + 1 <= depth => f[k] \subseteq g[k + 1]
<1> DEFINE N == {k \in Nat : k + 1 <= depth => f[k] \subseteq g[k + 1]}
<1>1. 0 \in N
  <2>1. 1 <= depth => g[1] = {q \in rows : into[q] \in g[0]}
    BY DEF Levels
  <2> QED
    BY <2>1 DEF Levels
<1>2. ASSUME NEW k \in Nat, k \in N PROVE k + 1 \in N
  <2> SUFFICES ASSUME (k + 1) + 1 <= depth PROVE f[k + 1] \subseteq g[(k + 1) + 1]
    OBVIOUS
  <2>1. f[k + 1] = {q \in rows : into[q] \in f[k]}
    <3>1. k + 1 \in 1 .. depth /\ (k + 1) - 1 = k
      OBVIOUS
    <3> QED BY <3>1 DEF Levels
  <2>2. g[(k + 1) + 1] = {q \in rows : into[q] \in g[k + 1]}
    <3>1. (k + 1) + 1 \in 1 .. depth /\ ((k + 1) + 1) - 1 = k + 1
      OBVIOUS
    <3> QED BY <3>1 DEF Levels
  <2>3. f[k] \subseteq g[k + 1]
    BY <1>2
  <2> QED
    BY <2>1, <2>2, <2>3
<1> QED
  BY <1>1, <1>2, NatSet

\* Who is reached by so many links up is found by as many levels down.
LEMMA UpIsDown ==
  ASSUME NEW P, NEW none, NEW into \in [P -> P \cup {none}], NEW q \in P,
         NEW up \in Nat, NEW down \in Nat, up <= down,
         NEW r \in ChainFrom(q, into, up, none)
  PROVE  q \in FoldedBelow(r, into, P, down)
<1>1. PICK f : Walk(f, q, into, up, none)
  BY ChainWalk
<1> DEFINE At(n, x) == \A g : Levels(g, x, into, P, down) => \E k \in 0 .. n : q \in g[k]
           N == {n \in Nat : n <= up => \A x \in f[n] : x \in P /\ At(n, x)}
<1>2. 0 \in N
  <2>1. f[0] = {q}
    BY <1>1 DEF Walk
  <2>2. ASSUME NEW g, Levels(g, q, into, P, down)
        PROVE  \E k \in 0 .. 0 : q \in g[k]
    <3>1. q \in g[0] /\ 0 \in 0 .. 0
      BY <2>2 DEF Levels
    <3> QED BY <3>1
  <2> QED
    BY <2>1, <2>2
<1>3. ASSUME NEW n \in Nat, n \in N PROVE n + 1 \in N
  <2> SUFFICES ASSUME n + 1 <= up, NEW x \in f[n + 1]
               PROVE  x \in P /\ At(n + 1, x)
    OBVIOUS
  <2>1. f[n + 1] = f[n] \cup ({into[y] : y \in f[n]} \ {none})
    <3>1. n + 1 \in 1 .. up /\ (n + 1) - 1 = n
      OBVIOUS
    <3> QED BY <1>1, <3>1 DEF Walk
  <2>2. \A y \in f[n] : y \in P /\ At(n, y)
    BY <1>3
  <2>3. CASE x \in f[n]
    <3>1. x \in P /\ At(n, x)
      BY <2>2, <2>3
    <3>2. ASSUME NEW g, Levels(g, x, into, P, down)
          PROVE  \E k \in 0 .. n + 1 : q \in g[k]
      <4>1. PICK k \in 0 .. n : q \in g[k]
        BY <3>1, <3>2
      <4> QED BY <4>1
    <3> QED BY <3>1, <3>2
  <2>4. CASE x \notin f[n]
    <3>1. PICK y \in f[n] : x = into[y] /\ x # none
      BY <2>1, <2>4
    <3>2. y \in P /\ At(n, y) /\ x \in P
      BY <2>2, <3>1
    <3>3. ASSUME NEW h, Levels(h, x, into, P, down)
          PROVE  \E k \in 0 .. n + 1 : q \in h[k]
      <4>1. PICK g : Levels(g, y, into, P, down)
        BY BelowLevels
      <4>2. PICK k \in 0 .. n : q \in g[k]
        BY <3>2, <4>1
      <4>3. Levels(h, into[y], into, P, down)
        BY <3>1, <3>3
      <4>4. g[k] \subseteq h[k + 1]
        <5>1. \A j \in Nat : j + 1 <= down => g[j] \subseteq h[j + 1]
          BY <3>2, <4>1, <4>3, LevelsShift
        <5> QED BY <5>1
      <4>5. k + 1 \in 0 .. n + 1
        OBVIOUS
      <4> QED BY <4>2, <4>4, <4>5
    <3> QED BY <3>2, <3>3
  <2> QED BY <2>3, <2>4
<1>4. up \in N
  BY <1>2, <1>3, NatSet
<1>5. At(up, r)
  BY <1>1, <1>4 DEF Walk
<1>6. PICK g : /\ Levels(g, r, into, P, down)
               /\ FoldedBelow(r, into, P, down) = UNION {g[n] : n \in 0 .. down}
  BY BelowLevels
<1>7. PICK k \in 0 .. up : q \in g[k]
  BY <1>5, <1>6
<1>8. k \in 0 .. down
  OBVIOUS
<1> QED
  BY <1>6, <1>7, <1>8

\* Whoever is found below a row that is not folded into another ends there, if
\* anywhere.
LEMMA DownEndsUp ==
  ASSUME NEW P, NEW none, none \notin P, NEW into \in [P -> P \cup {none}],
         NEW p \in P, into[p] = none, NEW down \in Nat,
         NEW q \in FoldedBelow(p, into, P, down),
         NEW up \in Nat, NEW r \in ChainFrom(q, into, up, none), into[r] = none
  PROVE  r = p
<1>1. PICK f : /\ Levels(f, p, into, P, down)
               /\ FoldedBelow(p, into, P, down) = UNION {f[n] : n \in 0 .. down}
  BY BelowLevels
<1> DEFINE S == FoldedBelow(p, into, P, down)
<1>2. ASSUME NEW x \in S
      PROVE  x = p \/ (into[x] \in S /\ into[x] # none)
  <2>1. PICK n \in 0 .. down : x \in f[n]
    BY <1>1
  <2>2. CASE n = 0
    BY <2>1, <2>2, <1>1 DEF Levels
  <2>3. CASE n # 0
    <3>1. n \in 1 .. down /\ n - 1 \in 0 .. down
      BY <2>3
    <3>2. x \in P /\ into[x] \in f[n - 1]
      BY <1>1, <2>1, <3>1 DEF Levels
    <3>3. into[x] \in S
      BY <1>1, <3>1, <3>2
    <3>4. f[n - 1] \subseteq P
      <4>1. CASE n - 1 = 0
        BY <1>1, <4>1 DEF Levels
      <4>2. CASE n - 1 # 0
        <5>1. n - 1 \in 1 .. down
          BY <3>1, <4>2
        <5> QED BY <1>1, <5>1 DEF Levels
      <4> QED BY <4>1, <4>2
    <3> QED BY <3>2, <3>3, <3>4
  <2> QED BY <2>2, <2>3
<1>3. \A x \in S : into[x] \in S \cup {none}
  BY <1>2
<1>4. ChainFrom(q, into, up, none) \subseteq S
  <2> HIDE DEF S
  <2> QED BY <1>3, ChainStays DEF S
<1> QED
  BY <1>2, <1>4
================================================================================
