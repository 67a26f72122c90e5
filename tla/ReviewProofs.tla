---------------------------- MODULE ReviewProofs -----------------------------
(***************************************************************************)
(* The memory of a pull request's reviews, and what posting does to it,    *)
(* for any files, places, levels and bounds, with reviews, marks,          *)
(* deletions, pushes and a batch in any order.                             *)
(*                                                                         *)
(* The reconciliation first, of any two lists: an invariant of each of its *)
(* two passes says which rows of the previous run are claimed and what the *)
(* new list holds, and Reconciled sums up what comes out.  Then ReviewInv: *)
(* each stored run has distinct numbers and threads; a job holds a run     *)
(* that was stored so, and the files that moved since the commit of that   *)
(* run; and a batch is the list it read, whose rows nobody else gives a    *)
(* thread, with the threads it opened, none of which is on that list.      *)
(***************************************************************************)
EXTENDS ReviewPosting, ListsProofs

-----------------------------------------------------------------------------
(* The reconciliation. *)

Report == [place : Place, id : Nat]

Acc == [merged : Seq(Findings), claimed : SUBSET Nat, nextId : Nat,
        nuevos : Nat, persisten : Nat, resueltos : Nat]

Distinct(fs) == \A i, k \in DOMAIN fs : fs[i].id = fs[k].id => i = k
Apart(fs) == \A i, k \in DOMAIN fs : fs[i].thread = fs[k].thread => i = k \/ fs[i].thread = NoThread

Restating(found, n, p) == {m \in 1 .. n : found[m].place = p}
Open(prev, p) == {i \in Same(prev, p) : prev[i].estado # "resuelto"}

LEMMA MinOfNats ==
  ASSUME NEW S \in SUBSET Nat, S # {}
  PROVE  Min(S) \in S /\ \A y \in S : Min(S) <= y
<1>1. \E x \in S : \A y \in S : x <= y
  BY LeastOfNats
<1> QED
  BY <1>1 DEF Min

\* The match is unclaimed and of the place, and not resolved while another one is not.
LEMMA ClaimTakes ==
  ASSUME NEW prev \in Seq(Findings), NEW claimed, NEW p
  PROVE  LET i == ClaimPrevious(prev, claimed, p)
         IN  \/ i = 0 /\ Same(prev, p) \ claimed = {}
             \/ /\ i \in Same(prev, p) \ claimed /\ i > 0
                /\ prev[i].estado = "resuelto" => Open(prev, p) \subseteq claimed
<1> DEFINE free == Same(prev, p) \ claimed
           alive == {i \in free : prev[i].estado # "resuelto"}
           from == IF alive # {} THEN alive ELSE free
<1>1. ClaimPrevious(prev, claimed, p) = FirstOf(from)
  BY DEF ClaimPrevious
<1>2. free \in SUBSET Nat /\ 0 \notin free /\ from \subseteq free /\ (from = {} => free = {})
  BY DEF Same
<1>3. CASE from = {}
  BY <1>1, <1>2, <1>3 DEF FirstOf
<1>4. CASE from # {}
  <2> PICK i : i = FirstOf(from)
    OBVIOUS
  <2>1. i \in from
    <3>1. from \in SUBSET Nat
      BY <1>2
    <3> HIDE DEF from
    <3> QED
      BY <1>4, <3>1, MinOfNats DEF FirstOf
  <2>2. i \in free /\ i > 0
    BY <1>2, <2>1
  <2>3. ASSUME prev[i].estado = "resuelto" PROVE Open(prev, p) \subseteq claimed
    <3>1. alive = {}
      BY <2>1, <2>3
    <3> QED
      BY <3>1 DEF Open
  <2> QED
    BY <1>1, <2>2, <2>3
<1> QED
  BY <1>3, <1>4

LEMMA FreshFinding ==
  ASSUME NEW id \in Nat, NEW p \in Place, NEW level \in 0 .. 3
  PROVE  Finding(id, p, level) \in Findings
BY DEF Finding, Findings, States, NoThread

LEMMA KeptFinding ==
  ASSUME NEW f \in Findings, NEW level \in 0 .. 3
  PROVE  /\ Kept(f, level) \in Findings
         /\ LET g == Kept(f, level)
            IN  g.id = f.id /\ g.place = f.place /\ g.thread = f.thread /\ g.estado = f.estado
BY DEF Kept, Findings

LEMMA ResolvedFinding ==
  ASSUME NEW f \in Findings
  PROVE  LET g == [f EXCEPT !.estado = "resuelto"]
         IN  /\ g \in Findings
             /\ g.id = f.id /\ g.place = f.place /\ g.thread = f.thread /\ g.estado = "resuelto"
BY DEF Findings, States

\* What a step of the first pass does, with i the finding it claims.
RestatedTo(prev, level, acc, p, i, s) ==
  /\ s \in Acc
  /\ \/ /\ i = 0 \/ prev[i].estado = "resuelto"
        /\ s.merged = Append(acc.merged, Finding(acc.nextId, p, level))
        /\ s.claimed = acc.claimed /\ s.nextId = acc.nextId + 1
     \/ /\ i > 0 /\ i \in Same(prev, p) \ acc.claimed /\ prev[i].estado # "resuelto"
        /\ s.merged = Append(acc.merged, Kept(prev[i], level))
        /\ s.claimed = acc.claimed \cup {i} /\ s.nextId = acc.nextId

LEMMA RestateIs ==
  ASSUME NEW prev \in Seq(Findings), NEW level \in 0 .. 3, NEW acc \in Acc, NEW p \in Place
  PROVE  RestatedTo(prev, level, acc, p, ClaimPrevious(prev, acc.claimed, p),
                    Restate(prev, level, acc, p))
<1> PICK i : i = ClaimPrevious(prev, acc.claimed, p)
  OBVIOUS
<1> PICK s : s = Restate(prev, level, acc, p)
  OBVIOUS
<1> SUFFICES RestatedTo(prev, level, acc, p, i, s)
  OBVIOUS
<1> USE DEF RestatedTo
<1>1. \/ i = 0
      \/ i \in Same(prev, p) \ acc.claimed /\ i > 0
  BY ClaimTakes
<1>2. acc.merged \in Seq(Findings) /\ acc.claimed \in SUBSET Nat /\ acc.nextId \in Nat
      /\ acc.nuevos \in Nat /\ acc.persisten \in Nat /\ acc.resueltos \in Nat
  BY DEF Acc
<1>3. CASE i = 0 \/ (i > 0 /\ prev[i].estado = "resuelto")
  <2> DEFINE r == [acc EXCEPT !.merged = Append(@, Finding(acc.nextId, p, level)),
                              !.nextId = @ + 1, !.nuevos = @ + 1]
  <2>1. Restate(prev, level, acc, p) = r
    BY <1>3 DEF Restate
  <2>2. Append(acc.merged, Finding(acc.nextId, p, level)) \in Seq(Findings)
    BY <1>2, FreshFinding
  <2> DEFINE m == Append(acc.merged, Finding(acc.nextId, p, level))
             r1 == [acc EXCEPT !.merged = m]
             r2 == [r1 EXCEPT !.nextId = acc.nextId + 1]
  <2>3. m \in Seq(Findings) /\ r = [r2 EXCEPT !.nuevos = acc.nuevos + 1]
    BY <2>2 DEF Acc
  <2> HIDE DEF m, r
  <2>4. /\ r1 \in Acc /\ r1.merged = m /\ r1.claimed = acc.claimed /\ r1.nuevos = acc.nuevos
        /\ r1.nextId = acc.nextId
    BY <2>3 DEF Acc
  <2> HIDE DEF r1
  <2>5. /\ r2 \in Acc /\ r2.merged = m /\ r2.claimed = acc.claimed /\ r2.nuevos = acc.nuevos
        /\ r2.nextId = acc.nextId + 1
    <3>1. acc.nextId + 1 \in Nat
      BY <1>2
    <3> QED
      BY <2>4, <3>1 DEF Acc
  <2> HIDE DEF r2
  <2>6. /\ r \in Acc /\ r.merged = m /\ r.claimed = acc.claimed /\ r.nextId = acc.nextId + 1
    <3>1. PICK n \in Nat : n = acc.nuevos + 1
      BY <1>2
    <3>2. r = [r2 EXCEPT !.nuevos = n]
      BY <2>3, <3>1
    <3> QED
      BY <2>5, <3>2 DEF Acc
  <2> QED
    BY <1>3, <2>1, <2>6 DEF m
<1>4. CASE i > 0 /\ i \in Same(prev, p) \ acc.claimed /\ prev[i].estado # "resuelto"
  <2> DEFINE one == IF IsActive(prev[i]) THEN 1 ELSE 0
             r == [acc EXCEPT !.merged = Append(@, Kept(prev[i], level)),
                              !.claimed = @ \cup {i}, !.persisten = @ + one]
  <2>1. Restate(prev, level, acc, p) = r
    BY <1>4 DEF Restate
  <2>2. i \in DOMAIN prev /\ i \in Nat
    BY <1>4 DEF Same
  <2>3. Append(acc.merged, Kept(prev[i], level)) \in Seq(Findings)
    BY <1>2, <2>2, KeptFinding
  <2>4. one \in Nat
    OBVIOUS
  <2> HIDE DEF one
  <2> DEFINE m == Append(acc.merged, Kept(prev[i], level))
             r1 == [acc EXCEPT !.merged = m]
             r2 == [r1 EXCEPT !.claimed = acc.claimed \cup {i}]
  <2>5. m \in Seq(Findings) /\ r = [r2 EXCEPT !.persisten = acc.persisten + one]
    BY <2>3 DEF Acc
  <2> HIDE DEF m, r
  <2>6. /\ r1 \in Acc /\ r1.merged = m /\ r1.claimed = acc.claimed /\ r1.persisten = acc.persisten
        /\ r1.nextId = acc.nextId
    BY <2>5 DEF Acc
  <2> HIDE DEF r1
  <2>7. /\ r2 \in Acc /\ r2.merged = m /\ r2.claimed = acc.claimed \cup {i}
        /\ r2.persisten = acc.persisten /\ r2.nextId = acc.nextId
    <3>1. acc.claimed \cup {i} \in SUBSET Nat
      BY <1>2, <2>2
    <3> QED
      BY <2>6, <3>1 DEF Acc
  <2> HIDE DEF r2
  <2>8. /\ r \in Acc /\ r.merged = m /\ r.claimed = acc.claimed \cup {i} /\ r.nextId = acc.nextId
    <3>1. PICK n \in Nat : n = acc.persisten + one
      BY <1>2, <2>4
    <3>2. r = [r2 EXCEPT !.persisten = n]
      BY <2>5, <3>1
    <3> QED
      BY <2>7, <3>2 DEF Acc
  <2> QED
    BY <1>4, <2>1, <2>8 DEF m
<1> QED
  BY <1>1, <1>3, <1>4

LEMMA MaxOfNats ==
  ASSUME NEW S \in SUBSET Nat, S # {}, NEW b \in Nat, \A x \in S : x <= b
  PROVE  Max(S) \in S /\ \A y \in S : y <= Max(S)
<1>1. \E x \in S : \A y \in S : x >= y
  BY GreatestOfNats
<1>2. Max(S) \in S /\ \A y \in S : Max(S) >= y
  BY <1>1 DEF Max
<1> QED
  BY <1>2

\* The highest number of a list is one of it, and none is higher.
LEMMA HighestNumber ==
  ASSUME NEW T, \A t \in T : t.id \in Nat, NEW fs \in Seq(T)
  PROVE  MaxIdNumber(fs) \in Nat /\ \A i \in DOMAIN fs : fs[i].id <= MaxIdNumber(fs)
<1> DEFINE S == Ids(fs) \cup {0}
           f == [i \in DOMAIN fs |-> fs[i].id]
<1>1. DOMAIN fs = 1 .. Len(fs) /\ Len(fs) \in Nat /\ \A i \in 1 .. Len(fs) : fs[i] \in T
  OBVIOUS
<1>2. \A i \in 1 .. Len(fs) : f[i] = fs[i].id /\ f[i] \in Nat
  BY <1>1
<1> HIDE DEF f
<1>3. PICK b \in Nat : \A i \in 1 .. Len(fs) : f[i] <= b
  BY <1>1, <1>2, BoundOfNats
<1>4. \A x \in S : x = 0 \/ \E i \in 1 .. Len(fs) : x = fs[i].id
  BY <1>1 DEF Ids, ToSet
<1>5. S \in SUBSET Nat /\ S # {} /\ \A x \in S : x <= b
  BY <1>2, <1>3, <1>4
<1>6. \A i \in DOMAIN fs : fs[i].id \in S
  BY DEF Ids, ToSet
<1>7. MaxIdNumber(fs) = Max(S)
  BY DEF MaxIdNumber
<1> HIDE DEF S
<1>8. Max(S) \in S /\ \A y \in S : y <= Max(S)
  BY <1>5, MaxOfNats
<1> QED
  BY <1>5, <1>6, <1>7, <1>8

\* A fresh number is above all there were and all the answer has.
LEMMA NextIdIsFresh ==
  ASSUME NEW prev \in Seq(Findings), NEW found \in Seq(Report)
  PROVE  /\ NextId(prev, found) \in Nat
         /\ \A i \in DOMAIN prev : prev[i].id < NextId(prev, found)
         /\ \A i \in DOMAIN found : found[i].id < NextId(prev, found)
<1>1. MaxIdNumber(prev) \in Nat /\ \A i \in DOMAIN prev : prev[i].id <= MaxIdNumber(prev)
  <2>1. \A t \in Findings : t.id \in Nat
    BY DEF Findings
  <2> QED
    BY <2>1, HighestNumber
<1>2. MaxIdNumber(found) \in Nat /\ \A i \in DOMAIN found : found[i].id <= MaxIdNumber(found)
  <2>1. \A t \in Report : t.id \in Nat
    BY DEF Report
  <2> QED
    BY <2>1, HighestNumber
<1> PICK a \in Nat : a = MaxIdNumber(prev)
  BY <1>1
<1> PICK c \in Nat : c = MaxIdNumber(found)
  BY <1>2
<1>3. Max({a, c}) \in {a, c} /\ \A y \in {a, c} : y <= Max({a, c})
  <2>1. CASE a <= c
    <3>1. {a, c} \in SUBSET Nat /\ {a, c} # {} /\ \A x \in {a, c} : x <= c
      BY <2>1
    <3> QED
      BY <3>1, MaxOfNats
  <2>2. CASE c <= a
    <3>1. {a, c} \in SUBSET Nat /\ {a, c} # {} /\ \A x \in {a, c} : x <= a
      BY <2>2
    <3> QED
      BY <3>1, MaxOfNats
  <2> QED
    BY <2>1, <2>2
<1>4. PICK m \in Nat : m = Max({a, c})
  BY <1>3
<1>5. NextId(prev, found) = m + 1
  BY <1>4 DEF NextId
<1>6. a <= m /\ c <= m
  BY <1>3, <1>4
<1>7. \A i \in DOMAIN prev : prev[i].id \in Nat
  <2>1. \A i \in DOMAIN prev : prev[i] \in Findings
    OBVIOUS
  <2> QED
    BY <2>1 DEF Findings
<1>8. \A i \in DOMAIN found : found[i].id \in Nat
  <2>1. \A i \in DOMAIN found : found[i] \in Report
    OBVIOUS
  <2> QED
    BY <2>1 DEF Report
<1> QED
  BY <1>1, <1>2, <1>5, <1>6, <1>7, <1>8

\* What holds when the first n findings of the answer are through: the rows are the
\* fresh ones and those claimed, and of each place as many open ones are claimed as
\* the answer restated, if there were that many.
RestatedSoFar(prev, found, level, acc, n) ==
  /\ acc \in Acc
  /\ Len(acc.merged) = n
  /\ acc.nextId >= NextId(prev, found)
  /\ \A i \in acc.claimed : /\ i \in DOMAIN prev /\ prev[i].estado # "resuelto"
                            /\ \E k \in 1 .. n : acc.merged[k] = Kept(prev[i], level)
  /\ \A k \in 1 .. n :
       \/ /\ acc.merged[k].id >= NextId(prev, found) /\ acc.merged[k].id < acc.nextId
          /\ acc.merged[k].estado = "abierto" /\ acc.merged[k].thread = NoThread
       \/ \E i \in acc.claimed : acc.merged[k] = Kept(prev[i], level)
  /\ Distinct(acc.merged)
  /\ \A p \in Place :
       \/ Open(prev, p) \subseteq acc.claimed
       \/ /\ IsFiniteSet(Open(prev, p) \cap acc.claimed)
          /\ Cardinality(Open(prev, p) \cap acc.claimed)
               >= Cardinality(Restating(found, n, p))

NothingYet(prev, found) ==
  [merged |-> <<>>, claimed |-> {}, nextId |-> NextId(prev, found),
   nuevos |-> 0, persisten |-> 0, resueltos |-> 0]

LEMMA NothingRestated ==
  ASSUME NEW prev \in Seq(Findings), NEW found \in Seq(Report), NEW level \in 0 .. 3
  PROVE  RestatedSoFar(prev, found, level, NothingYet(prev, found), 0)
<1> PICK e : e = NothingYet(prev, found)
  OBVIOUS
<1>1. /\ e.merged = <<>> /\ e.claimed = {} /\ e.nextId = NextId(prev, found)
      /\ e \in Acc
  BY NextIdIsFresh DEF NothingYet, Acc
<1>2. \A p \in Place : /\ Open(prev, p) \cap e.claimed = {}
                       /\ Restating(found, 0, p) = {}
  BY <1>1 DEF Restating
<1>3. IsFiniteSet({}) /\ Cardinality({}) = 0
  BY FS_EmptySet
<1>4. e.nextId >= NextId(prev, found)
  BY <1>1, NextIdIsFresh
<1>5. Len(e.merged) = 0 /\ Distinct(e.merged)
  BY <1>1 DEF Distinct
<1>6. \A p \in Place :
        /\ IsFiniteSet(Open(prev, p) \cap e.claimed)
        /\ Cardinality(Open(prev, p) \cap e.claimed)
               >= Cardinality(Restating(found, 0, p))
  <2> SUFFICES ASSUME NEW p \in Place
               PROVE  /\ IsFiniteSet(Open(prev, p) \cap e.claimed)
                      /\ Cardinality(Open(prev, p) \cap e.claimed)
                           >= Cardinality(Restating(found, 0, p))
    OBVIOUS
  <2> DEFINE A == Open(prev, p) \cap e.claimed
             B == Restating(found, 0, p)
  <2>1. A = {} /\ B = {}
    BY <1>2
  <2> HIDE DEF A, B
  <2>2. IsFiniteSet(A) /\ Cardinality(A) >= Cardinality(B)
    BY <2>1, <1>3
  <2> QED
    BY <2>2 DEF A, B
<1>7. RestatedSoFar(prev, found, level, e, 0)
  BY <1>1, <1>4, <1>5, <1>6 DEF RestatedSoFar
<1> QED
  BY <1>7

LEMMA MoreRestated ==
  ASSUME NEW found, NEW n \in Nat, NEW p
  PROVE  /\ IsFiniteSet(Restating(found, n, p)) /\ Cardinality(Restating(found, n, p)) \in Nat
         /\ found[n + 1].place = p =>
              Cardinality(Restating(found, n + 1, p)) = Cardinality(Restating(found, n, p)) + 1
         /\ found[n + 1].place # p => Restating(found, n + 1, p) = Restating(found, n, p)
<1> PICK B : B = Restating(found, n, p)
  OBVIOUS
<1>1. IsFiniteSet(B) /\ Cardinality(B) \in Nat
  <2>1. 1 \in Int /\ n \in Int
    OBVIOUS
  <2>2. IsFiniteSet(1 .. n)
    BY <2>1, FS_Interval
  <2>3. B \in SUBSET (1 .. n)
    BY DEF Restating
  <2>4. IsFiniteSet(B)
    BY <2>2, <2>3, FS_Subset
  <2> QED
    BY <2>4, FS_CardinalityType
<1>2. ASSUME found[n + 1].place = p PROVE Cardinality(Restating(found, n + 1, p)) = Cardinality(B) + 1
  <2>1. Restating(found, n + 1, p) = B \cup {n + 1} /\ n + 1 \notin B
    BY <1>2 DEF Restating
  <2>2. Cardinality(B \cup {n + 1}) = IF n + 1 \in B THEN Cardinality(B) ELSE Cardinality(B) + 1
    BY <1>1, FS_AddElement
  <2> QED
    BY <2>1, <2>2
<1>3. ASSUME found[n + 1].place # p PROVE Restating(found, n + 1, p) = B
  BY <1>3 DEF Restating
<1> QED
  BY <1>1, <1>2, <1>3

\* A step of the first pass keeps it.
LEMMA RestateKeeps ==
  ASSUME NEW prev \in Seq(Findings), Distinct(prev), NEW found \in Seq(Report), NEW level \in 0 .. 3,
         NEW n \in Nat, n < Len(found), NEW acc, RestatedSoFar(prev, found, level, acc, n)
  PROVE  RestatedSoFar(prev, found, level, Restate(prev, level, acc, found[n + 1].place), n + 1)
<1> DEFINE first == NextId(prev, found)
           place == found[n + 1].place
<1>1. PICK q \in Place : q = place
  <2>1. n + 1 \in DOMAIN found
    OBVIOUS
  <2>2. found[n + 1] \in Report
    BY <2>1
  <2> QED
    BY <2>2 DEF Report
<1>2. acc \in Acc /\ Len(acc.merged) = n /\ acc.nextId >= first
  BY DEF RestatedSoFar
<1>3. /\ acc.merged \in Seq(Findings) /\ acc.claimed \in SUBSET Nat /\ acc.nextId \in Nat
  BY <1>2 DEF Acc
<1>4. \A i \in acc.claimed : /\ i \in DOMAIN prev /\ prev[i].estado # "resuelto"
                             /\ \E k \in 1 .. n : acc.merged[k] = Kept(prev[i], level)
  BY DEF RestatedSoFar
<1>5. \A k \in 1 .. n :
       \/ /\ acc.merged[k].id >= first /\ acc.merged[k].id < acc.nextId
          /\ acc.merged[k].estado = "abierto" /\ acc.merged[k].thread = NoThread
       \/ \E i \in acc.claimed : acc.merged[k] = Kept(prev[i], level)
  BY DEF RestatedSoFar
<1>6. \A p \in Place :
       \/ Open(prev, p) \subseteq acc.claimed
       \/ /\ IsFiniteSet(Open(prev, p) \cap acc.claimed)
          /\ Cardinality(Open(prev, p) \cap acc.claimed)
               >= Cardinality(Restating(found, n, p))
  BY DEF RestatedSoFar
<1>7. first \in Nat /\ \A i \in DOMAIN prev : prev[i].id < first
  BY NextIdIsFresh
<1>8. \A i \in DOMAIN prev : prev[i] \in Findings /\ prev[i].id \in Nat
  <2>1. \A i \in DOMAIN prev : prev[i] \in Findings
    OBVIOUS
  <2> QED
    BY <2>1 DEF Findings
<1>9. \A i \in DOMAIN prev : Kept(prev[i], level).id = prev[i].id
  BY <1>8, KeptFinding
<1>10. Distinct(acc.merged)
  BY DEF RestatedSoFar
<1> PICK i : i = ClaimPrevious(prev, acc.claimed, q)
  OBVIOUS
<1> PICK r : r = Restate(prev, level, acc, q)
  OBVIOUS
<1>11. /\ r \in Acc
       /\ \/ /\ i = 0 \/ prev[i].estado = "resuelto"
             /\ r.merged = Append(acc.merged, Finding(acc.nextId, q, level))
             /\ r.claimed = acc.claimed /\ r.nextId = acc.nextId + 1
          \/ /\ i > 0 /\ i \in Same(prev, q) \ acc.claimed /\ prev[i].estado # "resuelto"
             /\ r.merged = Append(acc.merged, Kept(prev[i], level))
             /\ r.claimed = acc.claimed \cup {i} /\ r.nextId = acc.nextId
  <2>1. RestatedTo(prev, level, acc, q, i, r)
    BY <1>2, RestateIs
  <2> QED
    BY <2>1 DEF RestatedTo
<1>12. i = 0 \/ prev[i].estado = "resuelto" => Open(prev, q) \subseteq acc.claimed
  <2>1. \/ i = 0 /\ Same(prev, q) \ acc.claimed = {}
        \/ i > 0 /\ (prev[i].estado = "resuelto" => Open(prev, q) \subseteq acc.claimed)
    BY ClaimTakes
  <2> QED
    BY <2>1 DEF Open
<1>13. DOMAIN acc.merged = 1 .. n
  BY <1>2, <1>3
<1>16. \A k \in 1 .. n : acc.merged[k].id \in Nat
  <2>1. \A k \in 1 .. n : acc.merged[k] \in Findings
    BY <1>3, <1>13
  <2> QED
    BY <2>1 DEF Findings
<1> HIDE DEF first, place
<1>14. CASE /\ i = 0 \/ prev[i].estado = "resuelto"
            /\ r.merged = Append(acc.merged, Finding(acc.nextId, q, level))
            /\ r.claimed = acc.claimed /\ r.nextId = acc.nextId + 1
  <2> DEFINE f == Finding(acc.nextId, q, level)
  <2>1. /\ f \in Findings /\ f.id = acc.nextId /\ f.estado = "abierto" /\ f.thread = NoThread
    BY <1>3, FreshFinding DEF Finding
  <2> HIDE DEF f
  <2>2. /\ Len(r.merged) = n + 1 /\ r.merged[n + 1] = f /\ DOMAIN r.merged = 1 .. n + 1
        /\ \A k \in 1 .. n : r.merged[k] = acc.merged[k]
    BY <1>2, <1>3, <1>14, <2>1, AppendProperties DEF f
  <2>3. \A k \in 1 .. n : r.merged[k].id # f.id
    <3> SUFFICES ASSUME NEW k \in 1 .. n PROVE acc.merged[k].id # f.id
      BY <2>2
    <3>1. CASE acc.merged[k].id >= first /\ acc.merged[k].id < acc.nextId
      <4>1. acc.merged[k].id \in Nat
        BY <1>16
      <4> QED
        BY <4>1, <3>1, <2>1, <1>3
    <3>2. CASE \E c \in acc.claimed : acc.merged[k] = Kept(prev[c], level)
      <4>1. PICK c \in acc.claimed : acc.merged[k] = Kept(prev[c], level)
        BY <3>2
      <4>2. c \in DOMAIN prev /\ acc.merged[k].id = prev[c].id
        BY <4>1, <1>4, <1>9
      <4>3. prev[c].id \in Nat /\ prev[c].id < first
        BY <4>2, <1>7, <1>8
      <4> QED
        BY <4>2, <4>3, <2>1, <1>2, <1>3, <1>7
    <3> QED
      BY <1>5, <3>1, <3>2
  <2>4. Distinct(r.merged)
    <3> SUFFICES ASSUME NEW x \in 1 .. n + 1, NEW y \in 1 .. n + 1, r.merged[x].id = r.merged[y].id
                 PROVE  x = y
      BY <2>2 DEF Distinct
    <3>1. CASE x = n + 1 /\ y = n + 1
      BY <3>1
    <3>2. CASE x \in 1 .. n /\ y \in 1 .. n
      BY <3>2, <2>2, <1>10, <1>13 DEF Distinct
    <3>3. CASE x = n + 1 /\ y \in 1 .. n
      BY <3>3, <2>2, <2>3
    <3>4. CASE x \in 1 .. n /\ y = n + 1
      BY <3>4, <2>2, <2>3
    <3> QED
      BY <3>1, <3>2, <3>3, <3>4
  <2>5. \A k \in 1 .. n + 1 :
           \/ /\ r.merged[k].id >= first /\ r.merged[k].id < r.nextId
              /\ r.merged[k].estado = "abierto" /\ r.merged[k].thread = NoThread
           \/ \E c \in r.claimed : r.merged[k] = Kept(prev[c], level)
    <3> SUFFICES ASSUME NEW k \in 1 .. n + 1
                 PROVE  \/ /\ r.merged[k].id >= first /\ r.merged[k].id < r.nextId
                           /\ r.merged[k].estado = "abierto" /\ r.merged[k].thread = NoThread
                        \/ \E c \in r.claimed : r.merged[k] = Kept(prev[c], level)
      OBVIOUS
    <3>1. CASE k = n + 1
      BY <3>1, <2>1, <2>2, <1>2, <1>3, <1>7, <1>14
    <3>2. CASE k \in 1 .. n
      <4>1. acc.merged[k].id \in Nat
        BY <3>2, <1>16
      <4>2. acc.merged[k].id < acc.nextId => acc.merged[k].id < r.nextId
        BY <4>1, <1>3, <1>14
      <4> QED
        BY <3>2, <4>2, <1>5, <1>14, <2>2
    <3> QED
      BY <3>1, <3>2
  <2>6. \A c \in r.claimed : /\ c \in DOMAIN prev /\ prev[c].estado # "resuelto"
                             /\ \E k \in 1 .. n + 1 : r.merged[k] = Kept(prev[c], level)
    <3> SUFFICES ASSUME NEW c \in acc.claimed
                 PROVE  \E k \in 1 .. n + 1 : r.merged[k] = Kept(prev[c], level)
      BY <1>4, <1>14
    <3>1. PICK k \in 1 .. n : acc.merged[k] = Kept(prev[c], level)
      BY <1>4
    <3>2. k \in 1 .. n + 1
      OBVIOUS
    <3> QED
      BY <3>1, <3>2, <2>2
  <2>7. ASSUME NEW p \in Place
        PROVE  \/ Open(prev, p) \subseteq r.claimed
               \/ /\ IsFiniteSet(Open(prev, p) \cap r.claimed)
                  /\ Cardinality(Open(prev, p) \cap r.claimed)
                       >= Cardinality(Restating(found, n + 1, p))
    <3>1. CASE p = q
      BY <3>1, <1>12, <1>14
    <3>2. CASE p # q
      <4>1. Restating(found, n + 1, p) = Restating(found, n, p)
        BY <3>2, <1>1, MoreRestated DEF place
      <4>2. r.claimed = acc.claimed
        BY <1>14
      <4> QED
        BY <4>1, <4>2, <1>6
    <3> QED
      BY <3>1, <3>2
  <2>8. r.nextId >= NextId(prev, found)
    BY <1>2, <1>3, <1>7, <1>14 DEF first
  <2>9. RestatedSoFar(prev, found, level, r, n + 1)
    BY <1>11, <2>2, <2>4, <2>5, <2>6, <2>7, <2>8 DEF RestatedSoFar, first
  <2> QED
    BY <1>1, <2>9 DEF place
<1>15. CASE /\ i > 0 /\ i \in Same(prev, q) \ acc.claimed /\ prev[i].estado # "resuelto"
            /\ r.merged = Append(acc.merged, Kept(prev[i], level))
            /\ r.claimed = acc.claimed \cup {i} /\ r.nextId = acc.nextId
  <2> DEFINE f == Kept(prev[i], level)
  <2>0. i \in DOMAIN prev /\ prev[i].place = q /\ i \notin acc.claimed
    BY <1>15 DEF Same
  <2>1. f \in Findings /\ f.id = prev[i].id
    BY <2>0, <1>8, KeptFinding
  <2> HIDE DEF f
  <2>2. /\ Len(r.merged) = n + 1 /\ r.merged[n + 1] = f /\ DOMAIN r.merged = 1 .. n + 1
        /\ \A k \in 1 .. n : r.merged[k] = acc.merged[k]
    BY <1>2, <1>3, <1>15, <2>1, AppendProperties DEF f
  <2>3. \A k \in 1 .. n : r.merged[k].id # f.id
    <3> SUFFICES ASSUME NEW k \in 1 .. n PROVE acc.merged[k].id # f.id
      BY <2>2
    <3>1. CASE acc.merged[k].id >= first
      <4>1. acc.merged[k].id \in Nat
        BY <1>16
      <4>2. prev[i].id \in Nat /\ prev[i].id < first
        BY <2>0, <1>7, <1>8
      <4> QED
        BY <4>1, <4>2, <3>1, <2>1, <1>7
    <3>2. CASE \E c \in acc.claimed : acc.merged[k] = Kept(prev[c], level)
      <4>1. PICK c \in acc.claimed : acc.merged[k] = Kept(prev[c], level)
        BY <3>2
      <4>2. c \in DOMAIN prev /\ acc.merged[k].id = prev[c].id /\ c # i
        BY <4>1, <1>4, <1>9, <2>0
      <4> QED
        BY <4>2, <2>0, <2>1 DEF Distinct
    <3> QED
      BY <1>5, <3>1, <3>2
  <2>4. Distinct(r.merged)
    <3> SUFFICES ASSUME NEW x \in 1 .. n + 1, NEW y \in 1 .. n + 1, r.merged[x].id = r.merged[y].id
                 PROVE  x = y
      BY <2>2 DEF Distinct
    <3>1. CASE x = n + 1 /\ y = n + 1
      BY <3>1
    <3>2. CASE x \in 1 .. n /\ y \in 1 .. n
      BY <3>2, <2>2, <1>10, <1>13 DEF Distinct
    <3>3. CASE x = n + 1 /\ y \in 1 .. n
      BY <3>3, <2>2, <2>3
    <3>4. CASE x \in 1 .. n /\ y = n + 1
      BY <3>4, <2>2, <2>3
    <3> QED
      BY <3>1, <3>2, <3>3, <3>4
  <2>5. \A k \in 1 .. n + 1 :
           \/ /\ r.merged[k].id >= first /\ r.merged[k].id < r.nextId
              /\ r.merged[k].estado = "abierto" /\ r.merged[k].thread = NoThread
           \/ \E c \in r.claimed : r.merged[k] = Kept(prev[c], level)
    <3> SUFFICES ASSUME NEW k \in 1 .. n + 1
                 PROVE  \/ /\ r.merged[k].id >= first /\ r.merged[k].id < r.nextId
                           /\ r.merged[k].estado = "abierto" /\ r.merged[k].thread = NoThread
                        \/ \E c \in r.claimed : r.merged[k] = Kept(prev[c], level)
      OBVIOUS
    <3>1. CASE k = n + 1
      BY <3>1, <2>2, <1>15 DEF f
    <3>2. CASE k \in 1 .. n
      BY <3>2, <1>5, <1>15, <2>2
    <3> QED
      BY <3>1, <3>2
  <2>6. \A c \in r.claimed : /\ c \in DOMAIN prev /\ prev[c].estado # "resuelto"
                             /\ \E k \in 1 .. n + 1 : r.merged[k] = Kept(prev[c], level)
    <3> SUFFICES ASSUME NEW c \in r.claimed
                 PROVE  /\ c \in DOMAIN prev /\ prev[c].estado # "resuelto"
                        /\ \E k \in 1 .. n + 1 : r.merged[k] = Kept(prev[c], level)
      OBVIOUS
    <3>1. CASE c = i
      <4>1. n + 1 \in 1 .. n + 1
        OBVIOUS
      <4> QED
        BY <3>1, <4>1, <2>0, <2>2, <1>15 DEF f
    <3>2. CASE c \in acc.claimed
      <4>1. PICK k \in 1 .. n : acc.merged[k] = Kept(prev[c], level)
        BY <3>2, <1>4
      <4>2. k \in 1 .. n + 1
        OBVIOUS
      <4> QED
        BY <3>2, <4>1, <4>2, <2>2, <1>4
    <3> QED
      BY <3>1, <3>2, <1>15
  <2>7. ASSUME NEW p \in Place
        PROVE  \/ Open(prev, p) \subseteq r.claimed
               \/ /\ IsFiniteSet(Open(prev, p) \cap r.claimed)
                  /\ Cardinality(Open(prev, p) \cap r.claimed)
                       >= Cardinality(Restating(found, n + 1, p))
    <3>1. CASE p = q /\ ~(Open(prev, p) \subseteq acc.claimed)
      <4> DEFINE A == Open(prev, p) \cap acc.claimed
      <4>1. Open(prev, p) \cap r.claimed = A \cup {i} /\ i \notin A
        BY <3>1, <1>15, <2>0 DEF Open
      <4>2. IsFiniteSet(A) /\ Cardinality(A) >= Cardinality(Restating(found, n, p))
        BY <3>1, <1>6
      <4>3. Cardinality(Restating(found, n, p)) \in Nat /\ Cardinality(Restating(found, n + 1, p)) = Cardinality(Restating(found, n, p)) + 1
        <5>1. found[n + 1].place = p
          BY <3>1, <1>1 DEF place
        <5>2. /\ Cardinality(Restating(found, n, p)) \in Nat
              /\ found[n + 1].place = p => Cardinality(Restating(found, n + 1, p)) = Cardinality(Restating(found, n, p)) + 1
          BY MoreRestated
        <5> QED
          BY <5>1, <5>2
      <4> HIDE DEF A
      <4>4. /\ IsFiniteSet(A \cup {i}) /\ Cardinality(A) \in Nat
            /\ Cardinality(A \cup {i}) = IF i \in A THEN Cardinality(A) ELSE Cardinality(A) + 1
        BY <4>2, FS_AddElement, FS_CardinalityType
      <4>5. Cardinality(A \cup {i}) >= Cardinality(Restating(found, n + 1, p))
        BY <4>1, <4>2, <4>3, <4>4
      <4> QED
        BY <4>1, <4>4, <4>5
    <3>2. CASE p # q
      <4>1. Restating(found, n + 1, p) = Restating(found, n, p)
        BY <3>2, <1>1, MoreRestated DEF place
      <4>2. Open(prev, p) \cap r.claimed = Open(prev, p) \cap acc.claimed
        BY <3>2, <1>15, <2>0 DEF Open, Same
      <4>3. Open(prev, p) \subseteq acc.claimed => Open(prev, p) \subseteq r.claimed
        BY <1>15
      <4> QED
        BY <4>1, <4>2, <4>3, <1>6
    <3>3. CASE Open(prev, p) \subseteq acc.claimed
      BY <3>3, <1>15
    <3> QED
      BY <3>1, <3>2, <3>3
  <2>8. r.nextId >= NextId(prev, found)
    BY <1>2, <1>15 DEF first
  <2>9. RestatedSoFar(prev, found, level, r, n + 1)
    BY <1>11, <2>2, <2>4, <2>5, <2>6, <2>7, <2>8 DEF RestatedSoFar, first
  <2> QED
    BY <1>1, <2>9 DEF place
<1> QED
  BY <1>11, <1>14, <1>15

\* The first pass, all of it.
LEMMA RestatedAll ==
  ASSUME NEW prev \in Seq(Findings), Distinct(prev), NEW found \in Seq(Report), NEW level \in 0 .. 3
  PROVE  RestatedSoFar(prev, found, level, Restated(prev, found, level), Len(found))
<1> DEFINE body(f, n) == IF n = 0 THEN NothingYet(prev, found)
                         ELSE Restate(prev, level, f[n - 1], found[n].place)
           upTo == CHOOSE f : f = [n \in 0 .. Len(found) |-> body(f, n)]
           step == [n \in 1 .. Len(found) |-> [a \in Acc |-> Restate(prev, level, a, found[n].place)]]
<1>1. Len(found) \in Nat /\ \A n \in 1 .. Len(found) : found[n].place \in Place
  <2>1. Len(found) \in Nat /\ \A n \in 1 .. Len(found) : found[n] \in Report
    OBVIOUS
  <2> QED
    BY <2>1 DEF Report
<1>2. NothingYet(prev, found) \in Acc
  BY NothingRestated DEF RestatedSoFar
<1>3. \A n \in 1 .. Len(found), a \in Acc : Restate(prev, level, a, found[n].place) \in Acc
  <2> SUFFICES ASSUME NEW n \in 1 .. Len(found), NEW a \in Acc
               PROVE  Restate(prev, level, a, found[n].place) \in Acc
    OBVIOUS
  <2>1. PICK q \in Place : q = found[n].place
    BY <1>1
  <2>2. RestatedTo(prev, level, a, q, ClaimPrevious(prev, a.claimed, q), Restate(prev, level, a, q))
    BY RestateIs
  <2> QED
    BY <2>1, <2>2 DEF RestatedTo
<1>4. step \in [1 .. Len(found) -> [Acc -> Acc]]
  BY <1>3
<1>5. upTo = [n \in 0 .. Len(found) |-> body(upTo, n)]
  <2>1. \E f : f = [n \in 0 .. Len(found) |-> body(f, n)]
    <3> HIDE DEF step, upTo
    <3>1. PICK f \in [0 .. Len(found) -> Acc] :
             f[0] = NothingYet(prev, found) /\ \A n \in 1 .. Len(found) : f[n] = step[n][f[n - 1]]
      <4>1. \E f : FoldOf(Acc, Len(found), NothingYet(prev, found), step, f)
        BY <1>1, <1>2, <1>4, FoldExists
      <4> QED
        BY <4>1 DEF FoldOf
    <3>2. \A n \in 1 .. Len(found) : f[n] = Restate(prev, level, f[n - 1], found[n].place)
      <4> SUFFICES ASSUME NEW n \in 1 .. Len(found)
                   PROVE  f[n] = Restate(prev, level, f[n - 1], found[n].place)
        OBVIOUS
      <4>1. n - 1 \in 0 .. Len(found) /\ f[n - 1] \in Acc
        BY <1>1
      <4>2. f[n] = step[n][f[n - 1]]
        BY <3>1
      <4> QED
        BY <4>1, <4>2 DEF step
    <3>3. \A n \in 0 .. Len(found) : f[n] = body(f, n)
      BY <3>1, <3>2, <1>1
    <3>4. f = [n \in 0 .. Len(found) |-> body(f, n)]
      BY <3>3
    <3> QED
      BY <3>4
  <2> QED
    BY <2>1
<1>6. Restated(prev, found, level) = upTo[Len(found)]
  BY DEF Restated, NothingYet
<1> HIDE DEF upTo, step
<1>7. /\ upTo[0] = NothingYet(prev, found)
      /\ \A n \in 1 .. Len(found) : upTo[n] = Restate(prev, level, upTo[n - 1], found[n].place)
  <2>1. ASSUME NEW n \in 0 .. Len(found) PROVE upTo[n] = body(upTo, n)
    <3> HIDE DEF body
    <3> QED
      BY <1>5
  <2> QED
    BY <1>1, <2>1
<1> HIDE DEF body
<1> DEFINE X == {n \in Nat : n <= Len(found) => RestatedSoFar(prev, found, level, upTo[n], n)}
<1>8. 0 \in X
  BY <1>7, NothingRestated
<1>9. ASSUME NEW n \in Nat, n \in X PROVE n + 1 \in X
  <2> SUFFICES ASSUME n + 1 <= Len(found) PROVE RestatedSoFar(prev, found, level, upTo[n + 1], n + 1)
    OBVIOUS
  <2>1. RestatedSoFar(prev, found, level, upTo[n], n) /\ n < Len(found)
    BY <1>1, <1>9
  <2>2. upTo[n + 1] = Restate(prev, level, upTo[n], found[n + 1].place)
    <3>1. n + 1 \in 1 .. Len(found) /\ (n + 1) - 1 = n
      BY <1>1
    <3> QED
      BY <3>1, <1>7
  <2> QED
    BY <2>1, <2>2, RestateKeeps
<1> HIDE DEF X
<1>10. Len(found) \in X
  BY <1>1, <1>8, <1>9, NatSetInduction
<1> QED
  BY <1>1, <1>6, <1>10 DEF X

-----------------------------------------------------------------------------
(* The second pass. *)

CarriedRow(f, level, changed) ==
  IF Gone(f, level, changed) THEN [f EXCEPT !.estado = "resuelto"] ELSE f

LEMMA CarriedFinding ==
  ASSUME NEW f \in Findings, NEW level, NEW changed
  PROVE  /\ CarriedRow(f, level, changed) \in Findings
         /\ CarriedRow(f, level, changed).id = f.id
         /\ CarriedRow(f, level, changed).place = f.place
         /\ CarriedRow(f, level, changed).thread = f.thread
BY ResolvedFinding DEF CarriedRow

\* What a step of the second pass does.
CarriedTo(prev, level, changed, acc, i, s) ==
  /\ s \in Acc /\ s.claimed = acc.claimed
  /\ IF i \in acc.claimed \/ prev[i].id \in Ids(acc.merged) THEN s.merged = acc.merged
     ELSE s.merged = Append(acc.merged, CarriedRow(prev[i], level, changed))

LEMMA CarryForwardIs ==
  ASSUME NEW prev \in Seq(Findings), NEW level \in 0 .. 3, NEW changed, NEW acc \in Acc,
         NEW i \in DOMAIN prev
  PROVE  CarriedTo(prev, level, changed, acc, i, CarryForward(prev, level, changed, acc, i))
<1> PICK f \in Findings : f = prev[i]
  OBVIOUS
<1> PICK s : s = CarryForward(prev, level, changed, acc, i)
  OBVIOUS
<1> SUFFICES CarriedTo(prev, level, changed, acc, i, s)
  OBVIOUS
<1> USE DEF CarriedTo
<1> DEFINE m == Append(acc.merged, CarriedRow(f, level, changed))
           r1 == [acc EXCEPT !.merged = m]
<1>1. m \in Seq(Findings)
  <2>1. acc.merged \in Seq(Findings)
    BY DEF Acc
  <2> QED
    BY <2>1, CarriedFinding
<1>2. acc.persisten \in Nat /\ acc.resueltos \in Nat
  BY DEF Acc
<1>3. CASE i \in acc.claimed \/ f.id \in Ids(acc.merged)
  BY <1>3 DEF CarryForward
<1>4. CASE ~(i \in acc.claimed \/ f.id \in Ids(acc.merged)) /\ Gone(f, level, changed)
  <2>1. PICK n \in Nat : n = acc.resueltos + 1
    BY <1>2
  <2>2. s = [acc EXCEPT !.merged = m, !.resueltos = n]
    BY <1>4, <2>1 DEF CarryForward, CarriedRow
  <2>3. s = [r1 EXCEPT !.resueltos = n]
    BY <2>2 DEF Acc
  <2> HIDE DEF m
  <2>4. r1 \in Acc /\ r1.merged = m /\ r1.claimed = acc.claimed
    BY <1>1 DEF Acc
  <2> HIDE DEF r1
  <2>5. s \in Acc /\ s.merged = m /\ s.claimed = acc.claimed
    BY <2>3, <2>4 DEF Acc
  <2> QED
    BY <1>4, <2>5 DEF m
<1>5. CASE ~(i \in acc.claimed \/ f.id \in Ids(acc.merged)) /\ ~Gone(f, level, changed)
  <2>1. PICK n \in Nat : n = acc.persisten + (IF IsActive(f) THEN 1 ELSE 0)
    <3>1. CASE IsActive(f)
      BY <1>2, <3>1
    <3>2. CASE ~IsActive(f)
      BY <1>2, <3>2
    <3> QED
      BY <3>1, <3>2
  <2>2. s = [acc EXCEPT !.merged = m, !.persisten = n]
    BY <1>5, <2>1 DEF CarryForward, CarriedRow
  <2>3. s = [r1 EXCEPT !.persisten = n]
    BY <2>2 DEF Acc
  <2> HIDE DEF m
  <2>4. r1 \in Acc /\ r1.merged = m /\ r1.claimed = acc.claimed
    BY <1>1 DEF Acc
  <2> HIDE DEF r1
  <2>5. s \in Acc /\ s.merged = m /\ s.claimed = acc.claimed
    BY <2>3, <2>4 DEF Acc
  <2> QED
    BY <1>5, <2>5 DEF m
<1> QED
  BY <1>3, <1>4, <1>5

\* What holds when i of the previous findings are through: the rows of the first pass
\* stand, and behind them are those of the previous findings it left unclaimed.
CarriedSoFar(prev, found, level, changed, acc, i) ==
  LET base == Restated(prev, found, level)
      n    == Len(found)
  IN  /\ acc \in Acc /\ acc.claimed = base.claimed
      /\ Len(acc.merged) >= n
      /\ \A k \in 1 .. n : acc.merged[k] = base.merged[k]
      /\ \A k \in n + 1 .. Len(acc.merged) : \E j \in 1 .. i :
           j \notin acc.claimed /\ acc.merged[k] = CarriedRow(prev[j], level, changed)
      /\ \A j \in 1 .. i : \/ j \in acc.claimed
                           \/ \E k \in n + 1 .. Len(acc.merged) :
                                acc.merged[k] = CarriedRow(prev[j], level, changed)
      /\ Distinct(acc.merged)

LEMMA CarryForwardKeeps ==
  ASSUME NEW prev \in Seq(Findings), Distinct(prev), NEW found \in Seq(Report), NEW level \in 0 .. 3,
         NEW changed, NEW i \in Nat, i < Len(prev), NEW acc,
         CarriedSoFar(prev, found, level, changed, acc, i)
  PROVE  CarriedSoFar(prev, found, level, changed,
                      CarryForward(prev, level, changed, acc, i + 1), i + 1)
<1> PICK base : base = Restated(prev, found, level)
  OBVIOUS
<1> PICK n \in Nat : n = Len(found)
  OBVIOUS
<1>1. /\ acc \in Acc /\ acc.claimed = base.claimed
      /\ Len(acc.merged) >= n
      /\ \A k \in 1 .. n : acc.merged[k] = base.merged[k]
  BY DEF CarriedSoFar
<1>2. /\ \A k \in n + 1 .. Len(acc.merged) : \E j \in 1 .. i :
           j \notin acc.claimed /\ acc.merged[k] = CarriedRow(prev[j], level, changed)
      /\ \A j \in 1 .. i : \/ j \in acc.claimed
                           \/ \E k \in n + 1 .. Len(acc.merged) :
                                acc.merged[k] = CarriedRow(prev[j], level, changed)
      /\ Distinct(acc.merged)
  BY DEF CarriedSoFar
<1>3. RestatedSoFar(prev, found, level, base, n)
  BY RestatedAll
<1>4. i + 1 \in DOMAIN prev /\ \A j \in 1 .. i : j \in DOMAIN prev
  OBVIOUS
<1>5. \A j \in DOMAIN prev : prev[j] \in Findings /\ prev[j].id \in Nat
  <2>1. \A j \in DOMAIN prev : prev[j] \in Findings
    OBVIOUS
  <2> QED
    BY <2>1 DEF Findings
<1>6. acc.merged \in Seq(Findings) /\ Len(acc.merged) \in Nat
      /\ DOMAIN acc.merged = 1 .. Len(acc.merged)
  BY <1>1 DEF Acc
<1> DEFINE f == prev[i + 1]
           len == Len(acc.merged)
<1>7. ASSUME i + 1 \notin acc.claimed PROVE \A k \in 1 .. len : acc.merged[k].id # f.id
  <2> SUFFICES ASSUME NEW k \in 1 .. len PROVE acc.merged[k].id # f.id
    OBVIOUS
  <2>1. CASE k \in 1 .. n
    <3>1. acc.merged[k] = base.merged[k] /\ acc.merged[k] \in Findings
      BY <2>1, <1>1, <1>6
    <3>2. CASE base.merged[k].id >= NextId(prev, found)
      <4>1. NextId(prev, found) \in Nat /\ f.id < NextId(prev, found) /\ f.id \in Nat
        BY <1>4, <1>5, NextIdIsFresh
      <4>2. acc.merged[k].id \in Nat
        BY <3>1 DEF Findings
      <4> QED
        BY <3>1, <3>2, <4>1, <4>2
    <3>3. CASE \E c \in base.claimed : base.merged[k] = Kept(prev[c], level)
      <4>1. PICK c \in base.claimed : base.merged[k] = Kept(prev[c], level)
        BY <3>3
      <4>2. c \in DOMAIN prev /\ c # i + 1
        BY <4>1, <1>1, <1>3, <1>7 DEF RestatedSoFar
      <4>3. acc.merged[k].id = prev[c].id
        BY <3>1, <4>1, <4>2, <1>5, KeptFinding
      <4> QED
        BY <4>2, <4>3, <1>4 DEF Distinct
    <3> QED
      BY <2>1, <3>2, <3>3, <1>3 DEF RestatedSoFar
  <2>2. CASE k \in n + 1 .. len
    <3>1. PICK j \in 1 .. i : acc.merged[k] = CarriedRow(prev[j], level, changed)
      BY <2>2, <1>2
    <3>2. acc.merged[k].id = prev[j].id
      BY <3>1, <1>4, <1>5, CarriedFinding
    <3>3. j # i + 1 /\ j \in DOMAIN prev
      BY <1>4
    <3> QED
      BY <3>2, <3>3, <1>4 DEF Distinct
  <2>3. len \in Nat
    BY <1>6
  <2> QED
    BY <2>1, <2>2, <2>3
<1> PICK s : s = CarryForward(prev, level, changed, acc, i + 1)
  OBVIOUS
<1>8. CarriedTo(prev, level, changed, acc, i + 1, s)
  BY <1>1, <1>4, CarryForwardIs
<1>9. CASE i + 1 \in acc.claimed
  <2>1. s \in Acc /\ s.claimed = acc.claimed /\ s.merged = acc.merged
    BY <1>8, <1>9 DEF CarriedTo
  <2>2. \A j \in 1 .. i + 1 : j \in 1 .. i \/ j = i + 1
    OBVIOUS
  <2>3. 1 .. i \subseteq 1 .. i + 1
    OBVIOUS
  <2>4. \A k \in n + 1 .. Len(s.merged) : \E j \in 1 .. i + 1 :
           j \notin s.claimed /\ s.merged[k] = CarriedRow(prev[j], level, changed)
    <3> SUFFICES ASSUME NEW k \in n + 1 .. Len(acc.merged)
                 PROVE  \E j \in 1 .. i + 1 : /\ j \notin acc.claimed
                                               /\ acc.merged[k] = CarriedRow(prev[j], level, changed)
      BY <2>1
    <3>1. PICK j \in 1 .. i : j \notin acc.claimed /\ acc.merged[k] = CarriedRow(prev[j], level, changed)
      BY <1>2
    <3>2. j \in 1 .. i + 1
      BY <2>3
    <3> QED
      BY <3>1, <3>2
  <2>5. \A j \in 1 .. i + 1 : \/ j \in s.claimed
                               \/ \E k \in n + 1 .. Len(s.merged) :
                                    s.merged[k] = CarriedRow(prev[j], level, changed)
    BY <1>2, <1>9, <2>1, <2>2
  <2>6. CarriedSoFar(prev, found, level, changed, s, i + 1)
    BY <1>1, <1>2, <2>1, <2>4, <2>5 DEF CarriedSoFar
  <2> QED
    BY <2>6
<1>10. CASE i + 1 \notin acc.claimed
  <2> DEFINE g == CarriedRow(f, level, changed)
  <2>1. f.id \notin Ids(acc.merged)
    BY <1>6, <1>7, <1>10 DEF Ids, ToSet
  <2>2. s \in Acc /\ s.claimed = acc.claimed /\ s.merged = Append(acc.merged, g)
    BY <1>8, <1>10, <2>1 DEF CarriedTo
  <2>3. g \in Findings /\ g.id = f.id
    BY <1>4, <1>5, CarriedFinding
  <2> HIDE DEF g, f
  <2>4. /\ Len(s.merged) = len + 1 /\ s.merged[len + 1] = g /\ DOMAIN s.merged = 1 .. len + 1
        /\ \A k \in 1 .. len : s.merged[k] = acc.merged[k]
    BY <1>6, <2>2, <2>3, AppendProperties
  <2>5. len \in Nat /\ n <= len
    BY <1>1, <1>6
  <2> HIDE DEF len
  <2>6. \A k \in 1 .. n : s.merged[k] = base.merged[k]
    BY <1>1, <2>4, <2>5
  <2>7. Distinct(s.merged)
    <3> SUFFICES ASSUME NEW x \in 1 .. len + 1, NEW y \in 1 .. len + 1, s.merged[x].id = s.merged[y].id
                 PROVE  x = y
      BY <2>4 DEF Distinct
    <3>0. \A k \in 1 .. len : s.merged[k].id # s.merged[len + 1].id
      BY <1>7, <1>10, <2>3, <2>4
    <3>1. CASE x = len + 1 /\ y = len + 1
      BY <3>1
    <3>2. CASE x \in 1 .. len /\ y \in 1 .. len
      BY <3>2, <2>4, <1>2, <1>6 DEF Distinct, len
    <3>3. CASE x = len + 1 /\ y \in 1 .. len
      BY <3>3, <3>0
    <3>4. CASE x \in 1 .. len /\ y = len + 1
      BY <3>4, <3>0
    <3> QED
      BY <2>5, <3>1, <3>2, <3>3, <3>4
  <2>8. ASSUME NEW k \in n + 1 .. len + 1
        PROVE  \E j \in 1 .. i + 1 : j \notin s.claimed /\ s.merged[k] = CarriedRow(prev[j], level, changed)
    <3>1. CASE k = len + 1
      <4>1. i + 1 \in 1 .. i + 1
        OBVIOUS
      <4> QED
        BY <3>1, <4>1, <1>10, <2>2, <2>4 DEF g, f
    <3>2. CASE k \in n + 1 .. len
      <4>1. PICK j \in 1 .. i : j \notin acc.claimed /\ acc.merged[k] = CarriedRow(prev[j], level, changed)
        BY <3>2, <1>2 DEF len
      <4>2. j \in 1 .. i + 1 /\ k \in 1 .. len
        BY <3>2
      <4> QED
        BY <4>1, <4>2, <2>2, <2>4
    <3> QED
      BY <2>5, <3>1, <3>2
  <2>9. ASSUME NEW j \in 1 .. i + 1
        PROVE  \/ j \in s.claimed
               \/ \E k \in n + 1 .. len + 1 : s.merged[k] = CarriedRow(prev[j], level, changed)
    <3>1. CASE j = i + 1
      <4>1. len + 1 \in n + 1 .. len + 1
        BY <2>5
      <4> QED
        BY <3>1, <4>1, <2>4 DEF g, f
    <3>2. CASE j \in 1 .. i /\ j \notin acc.claimed
      <4>1. PICK k \in n + 1 .. len : acc.merged[k] = CarriedRow(prev[j], level, changed)
        BY <3>2, <1>2 DEF len
      <4>2. k \in 1 .. len /\ k \in n + 1 .. len + 1
        BY <2>5
      <4> QED
        BY <4>1, <4>2, <2>4
    <3> QED
      BY <3>1, <3>2, <2>2
  <2>10. Len(s.merged) >= n
    BY <2>4, <2>5
  <2>11. CarriedSoFar(prev, found, level, changed, s, i + 1)
    BY <1>1, <2>2, <2>4, <2>6, <2>7, <2>8, <2>9, <2>10 DEF CarriedSoFar
  <2> QED
    BY <2>11
<1> QED
  BY <1>9, <1>10

\* The second pass, all of it.
LEMMA CarriedAll ==
  ASSUME NEW prev \in Seq(Findings), Distinct(prev), NEW found \in Seq(Report), NEW level \in 0 .. 3,
         NEW changed
  PROVE  CarriedSoFar(prev, found, level, changed, Reconcile(prev, found, level, changed), Len(prev))
<1> DEFINE body(f, i) == IF i = 0 THEN Restated(prev, found, level)
                         ELSE CarryForward(prev, level, changed, f[i - 1], i)
           upTo == CHOOSE f : f = [i \in 0 .. Len(prev) |-> body(f, i)]
           step == [i \in 1 .. Len(prev) |-> [a \in Acc |-> CarryForward(prev, level, changed, a, i)]]
<1>1. Len(prev) \in Nat /\ DOMAIN prev = 1 .. Len(prev)
  OBVIOUS
<1>2. RestatedSoFar(prev, found, level, Restated(prev, found, level), Len(found))
  BY RestatedAll
<1>3. \A i \in 1 .. Len(prev), a \in Acc : CarryForward(prev, level, changed, a, i) \in Acc
  BY <1>1, CarryForwardIs DEF CarriedTo
<1>4. step \in [1 .. Len(prev) -> [Acc -> Acc]] /\ Restated(prev, found, level) \in Acc
  BY <1>2, <1>3 DEF RestatedSoFar
<1>5. upTo = [i \in 0 .. Len(prev) |-> body(upTo, i)]
  <2>1. \E f : f = [i \in 0 .. Len(prev) |-> body(f, i)]
    <3> HIDE DEF step, upTo
    <3>1. PICK f : FoldOf(Acc, Len(prev), Restated(prev, found, level), step, f)
      BY <1>1, <1>4, FoldExists
    <3>2. /\ f \in [0 .. Len(prev) -> Acc] /\ f[0] = Restated(prev, found, level)
          /\ \A i \in 1 .. Len(prev) : f[i] = step[i][f[i - 1]]
      BY <3>1 DEF FoldOf
    <3>3. \A i \in 1 .. Len(prev) : f[i] = CarryForward(prev, level, changed, f[i - 1], i)
      <4> SUFFICES ASSUME NEW i \in 1 .. Len(prev)
                   PROVE  f[i] = CarryForward(prev, level, changed, f[i - 1], i)
        OBVIOUS
      <4>1. i - 1 \in 0 .. Len(prev) /\ f[i - 1] \in Acc
        BY <1>1, <3>2
      <4>2. f[i] = step[i][f[i - 1]]
        BY <3>2
      <4> QED
        BY <4>1, <4>2 DEF step
    <3>4. \A i \in 0 .. Len(prev) : f[i] = body(f, i)
      BY <3>2, <3>3, <1>1
    <3>5. f = [i \in 0 .. Len(prev) |-> body(f, i)]
      BY <3>2, <3>4
    <3> QED
      BY <3>5
  <2> QED
    BY <2>1
<1>6. Reconcile(prev, found, level, changed) = upTo[Len(prev)]
  BY DEF Reconcile
<1> HIDE DEF upTo, step
<1>7. /\ upTo[0] = Restated(prev, found, level)
      /\ \A i \in 1 .. Len(prev) : upTo[i] = CarryForward(prev, level, changed, upTo[i - 1], i)
  <2>1. ASSUME NEW i \in 0 .. Len(prev) PROVE upTo[i] = body(upTo, i)
    <3> HIDE DEF body
    <3> QED
      BY <1>5
  <2> QED
    BY <1>1, <2>1
<1> HIDE DEF body
<1> DEFINE X == {i \in Nat : i <= Len(prev) => CarriedSoFar(prev, found, level, changed, upTo[i], i)}
<1>8. 0 \in X
  <2> PICK b : b = Restated(prev, found, level)
    OBVIOUS
  <2>1. b \in Acc /\ Len(b.merged) = Len(found) /\ Distinct(b.merged)
    BY <1>2 DEF RestatedSoFar
  <2>2. Len(found) \in Nat
    OBVIOUS
  <2>3. CarriedSoFar(prev, found, level, changed, b, 0)
    BY <2>1, <2>2 DEF CarriedSoFar
  <2> QED
    BY <1>7, <2>3
<1>9. ASSUME NEW i \in Nat, i \in X PROVE i + 1 \in X
  <2> SUFFICES ASSUME i + 1 <= Len(prev) PROVE CarriedSoFar(prev, found, level, changed, upTo[i + 1], i + 1)
    OBVIOUS
  <2>1. CarriedSoFar(prev, found, level, changed, upTo[i], i) /\ i < Len(prev)
    BY <1>1, <1>9
  <2>2. upTo[i + 1] = CarryForward(prev, level, changed, upTo[i], i + 1)
    <3>1. i + 1 \in 1 .. Len(prev) /\ (i + 1) - 1 = i
      BY <1>1
    <3> QED
      BY <3>1, <1>7
  <2> QED
    BY <2>1, <2>2, CarryForwardKeeps
<1> HIDE DEF X
<1>10. Len(prev) \in X
  BY <1>1, <1>8, <1>9, NatSetInduction
<1> QED
  BY <1>1, <1>6, <1>10 DEF X

-----------------------------------------------------------------------------
(* What a re-review stores. *)

\* g is the row a re-review has for the finding f of the run before.
Continues(g, f, level, changed) ==
  /\ g.id = f.id /\ g.place = f.place /\ g.thread = f.thread
  /\ g.estado = f.estado \/ (g.estado = "resuelto" /\ Gone(f, level, changed))

StartsOver(g, prev, found) ==
  g.id >= NextId(prev, found) /\ g.estado = "abierto" /\ g.thread = NoThread

\* The rows are new ones for findings of the answer or those of the run before, all of
\* them; and of the open ones of a place as many stay open as were restated.
Reconciled(prev, found, level, changed, merged) ==
  /\ merged \in Seq(Findings) /\ Distinct(merged) /\ Len(merged) >= Len(found)
  /\ \A k \in DOMAIN merged : \/ k <= Len(found) /\ StartsOver(merged[k], prev, found)
                              \/ \E j \in DOMAIN prev : Continues(merged[k], prev[j], level, changed)
  /\ \A j \in DOMAIN prev : \E k \in DOMAIN merged : Continues(merged[k], prev[j], level, changed)
  /\ \E C \in SUBSET DOMAIN prev :
       /\ \A j \in C : \E k \in DOMAIN merged :
            /\ merged[k].id = prev[j].id /\ merged[k].place = prev[j].place
            /\ merged[k].estado # "resuelto"
       /\ \A p \in Place :
            \/ Open(prev, p) \subseteq C
            \/ /\ IsFiniteSet(Open(prev, p) \cap C)
               /\ Cardinality(Open(prev, p) \cap C) >= Cardinality(Restating(found, Len(found), p))

LEMMA CarriedContinues ==
  ASSUME NEW f \in Findings, NEW level, NEW changed
  PROVE  Continues(CarriedRow(f, level, changed), f, level, changed)
<1>1. CASE Gone(f, level, changed)
  BY <1>1, ResolvedFinding DEF Continues, CarriedRow
<1>2. CASE ~Gone(f, level, changed)
  BY <1>2 DEF Continues, CarriedRow
<1> QED
  BY <1>1, <1>2

LEMMA ReconcileKeeps ==
  ASSUME NEW prev \in Seq(Findings), Distinct(prev), NEW found \in Seq(Report), NEW level \in 0 .. 3,
         NEW changed
  PROVE  Reconciled(prev, found, level, changed, Reconcile(prev, found, level, changed).merged)
<1> PICK base : base = Restated(prev, found, level)
  OBVIOUS
<1> PICK acc : acc = Reconcile(prev, found, level, changed)
  OBVIOUS
<1> PICK n \in Nat : n = Len(found)
  OBVIOUS
<1> PICK merged : merged = acc.merged
  OBVIOUS
<1>1. RestatedSoFar(prev, found, level, base, n)
  BY RestatedAll
<1>2. CarriedSoFar(prev, found, level, changed, acc, Len(prev))
  BY CarriedAll
<1>3. /\ acc \in Acc /\ acc.claimed = base.claimed
      /\ Len(merged) >= n
      /\ \A k \in 1 .. n : merged[k] = base.merged[k]
      /\ Distinct(merged)
  BY <1>2 DEF CarriedSoFar
<1>4. /\ \A k \in n + 1 .. Len(merged) : \E j \in 1 .. Len(prev) :
           j \notin acc.claimed /\ merged[k] = CarriedRow(prev[j], level, changed)
      /\ \A j \in 1 .. Len(prev) : \/ j \in acc.claimed
                                   \/ \E k \in n + 1 .. Len(merged) :
                                        merged[k] = CarriedRow(prev[j], level, changed)
  BY <1>2 DEF CarriedSoFar
<1>5. merged \in Seq(Findings) /\ DOMAIN merged = 1 .. Len(merged) /\ Len(merged) \in Nat
  BY <1>3 DEF Acc
<1>6. DOMAIN prev = 1 .. Len(prev) /\ \A j \in DOMAIN prev : prev[j] \in Findings
  OBVIOUS
<1>7. \A j \in acc.claimed : /\ j \in DOMAIN prev /\ prev[j].estado # "resuelto"
                             /\ \E k \in 1 .. n : merged[k] = Kept(prev[j], level)
  <2> SUFFICES ASSUME NEW j \in acc.claimed
               PROVE  /\ j \in DOMAIN prev /\ prev[j].estado # "resuelto"
                      /\ \E k \in 1 .. n : merged[k] = Kept(prev[j], level)
    OBVIOUS
  <2>1. /\ j \in DOMAIN prev /\ prev[j].estado # "resuelto"
        /\ \E k \in 1 .. n : base.merged[k] = Kept(prev[j], level)
    BY <1>1, <1>3 DEF RestatedSoFar
  <2> QED
    BY <2>1, <1>3
<1>8. \A j \in DOMAIN prev : Continues(Kept(prev[j], level), prev[j], level, changed)
  BY <1>6, KeptFinding DEF Continues
<1>9. ASSUME NEW k \in DOMAIN merged
      PROVE  \/ k <= n /\ StartsOver(merged[k], prev, found)
             \/ \E j \in DOMAIN prev : Continues(merged[k], prev[j], level, changed)
  <2>1. CASE k \in 1 .. n
    <3>1. \/ StartsOver(merged[k], prev, found)
          \/ \E i \in base.claimed : merged[k] = Kept(prev[i], level)
      BY <2>1, <1>1, <1>3 DEF RestatedSoFar, StartsOver
    <3>2. ASSUME NEW i \in base.claimed, merged[k] = Kept(prev[i], level)
          PROVE  \E j \in DOMAIN prev : Continues(merged[k], prev[j], level, changed)
      <4>1. i \in DOMAIN prev
        BY <1>3, <1>7
      <4> QED
        BY <3>2, <4>1, <1>8
    <3> QED
      BY <2>1, <3>1, <3>2
  <2>2. CASE k \in n + 1 .. Len(merged)
    <3>1. PICK j \in 1 .. Len(prev) : merged[k] = CarriedRow(prev[j], level, changed)
      BY <2>2, <1>4
    <3>2. j \in DOMAIN prev /\ Continues(merged[k], prev[j], level, changed)
      BY <3>1, <1>6, CarriedContinues
    <3> QED
      BY <3>2
  <2> QED
    BY <2>1, <2>2, <1>5
<1>10. ASSUME NEW j \in DOMAIN prev
       PROVE  \E k \in DOMAIN merged : Continues(merged[k], prev[j], level, changed)
  <2>1. CASE j \in acc.claimed
    <3>1. PICK k \in 1 .. n : merged[k] = Kept(prev[j], level)
      BY <2>1, <1>7
    <3>2. k \in DOMAIN merged
      BY <1>3, <1>5
    <3> QED
      BY <3>1, <3>2, <1>8
  <2>2. CASE j \notin acc.claimed
    <3>1. PICK k \in n + 1 .. Len(merged) : merged[k] = CarriedRow(prev[j], level, changed)
      BY <2>2, <1>4, <1>6
    <3>2. k \in DOMAIN merged
      BY <1>5
    <3> QED
      BY <3>1, <3>2, <1>6, CarriedContinues
  <2> QED
    BY <2>1, <2>2
<1>11. ASSUME NEW j \in acc.claimed
       PROVE  \E k \in DOMAIN merged :
                /\ merged[k].id = prev[j].id /\ merged[k].place = prev[j].place
                /\ merged[k].estado # "resuelto"
  <2>1. PICK k \in 1 .. n : merged[k] = Kept(prev[j], level)
    BY <1>7
  <2>2. k \in DOMAIN merged
    BY <1>3, <1>5
  <2>3. /\ prev[j] \in Findings /\ prev[j].estado # "resuelto"
    BY <1>6, <1>7
  <2> QED
    BY <2>1, <2>2, <2>3, KeptFinding
<1>12. ASSUME NEW p \in Place
       PROVE  \/ Open(prev, p) \subseteq acc.claimed
              \/ /\ IsFiniteSet(Open(prev, p) \cap acc.claimed)
                 /\ Cardinality(Open(prev, p) \cap acc.claimed) >= Cardinality(Restating(found, n, p))
  BY <1>1, <1>3 DEF RestatedSoFar
<1>13. acc.claimed \in SUBSET DOMAIN prev
  BY <1>7
<1>14. Reconciled(prev, found, level, changed, merged)
  BY <1>3, <1>5, <1>9, <1>10, <1>11, <1>12, <1>13 DEF Reconciled
<1> QED
  BY <1>14

\* With the threads of the run before in order, those of the rows are.
LEMMA ThreadsStayApart ==
  ASSUME NEW prev \in Seq(Findings), NEW found, NEW level, NEW changed, NEW merged,
         Reconciled(prev, found, level, changed, merged), Apart(prev), NEW n \in Nat,
         \A j \in DOMAIN prev : prev[j].thread <= n
  PROVE  Apart(merged) /\ \A k \in DOMAIN merged : merged[k].thread <= n
<1>1. \A k \in DOMAIN merged :
        merged[k].thread = NoThread \/ \E j \in DOMAIN prev : /\ merged[k].thread = prev[j].thread
                                                              /\ merged[k].id = prev[j].id
  BY DEF Reconciled, Continues, StartsOver
<1>2. Distinct(merged)
  BY DEF Reconciled
<1>3. Apart(merged)
  <2> SUFFICES ASSUME NEW i \in DOMAIN merged, NEW k \in DOMAIN merged,
                      merged[i].thread = merged[k].thread, merged[i].thread # NoThread
               PROVE  i = k
    BY DEF Apart
  <2>1. PICK a \in DOMAIN prev : merged[i].thread = prev[a].thread /\ merged[i].id = prev[a].id
    BY <1>1
  <2>2. PICK b \in DOMAIN prev : merged[k].thread = prev[b].thread /\ merged[k].id = prev[b].id
    BY <1>1
  <2>3. a = b
    BY <2>1, <2>2 DEF Apart
  <2> QED
    BY <1>2, <2>1, <2>2, <2>3 DEF Distinct
<1>4. \A k \in DOMAIN merged : merged[k].thread <= n
  BY <1>1 DEF NoThread
<1> QED
  BY <1>3, <1>4

-----------------------------------------------------------------------------
(* The properties of a re-review, of any one. *)

LEMMA NothingIsForgotten ==
  ASSUME NEW prev, NEW found, NEW level, NEW changed, NEW merged,
         Reconciled(prev, found, level, changed, merged)
  PROVE  \A f \in ToSet(prev) : \E g \in ToSet(merged) :
           /\ g.id = f.id /\ g.place = f.place /\ g.thread = f.thread
           /\ g.estado = f.estado \/ (IsActive(f) /\ g.estado = "resuelto")
<1> SUFFICES ASSUME NEW j \in DOMAIN prev
             PROVE  \E k \in DOMAIN merged :
                      /\ merged[k].id = prev[j].id /\ merged[k].place = prev[j].place
                      /\ merged[k].thread = prev[j].thread
                      /\ \/ merged[k].estado = prev[j].estado
                         \/ IsActive(prev[j]) /\ merged[k].estado = "resuelto"
  BY DEF ToSet
<1>1. PICK k \in DOMAIN merged : Continues(merged[k], prev[j], level, changed)
  BY DEF Reconciled
<1> QED
  BY <1>1 DEF Continues, Gone

LEMMA NewRowsStartOver ==
  ASSUME NEW prev \in Seq(Findings), NEW found \in Seq(Report), NEW level, NEW changed, NEW merged,
         Reconciled(prev, found, level, changed, merged),
         NEW i \in DOMAIN merged, merged[i].id \notin Ids(prev)
  PROVE  /\ i <= Len(found)
         /\ merged[i].estado = "abierto" /\ merged[i].thread = NoThread
         /\ \A n \in Ids(prev) \cup Ids(found) : merged[i].id > n
<1>1. i <= Len(found) /\ StartsOver(merged[i], prev, found)
  <2>1. ASSUME NEW j \in DOMAIN prev, Continues(merged[i], prev[j], level, changed) PROVE FALSE
    BY <2>1 DEF Continues, Ids, ToSet
  <2> QED
    BY <2>1 DEF Reconciled
<1> PICK first : first = NextId(prev, found)
  OBVIOUS
<1>2. /\ first \in Nat
      /\ \A j \in DOMAIN prev : prev[j].id < first
      /\ \A j \in DOMAIN found : found[j].id < first
  BY NextIdIsFresh
<1>3. \A n \in Ids(prev) : n \in Nat /\ n < first
  <2> SUFFICES ASSUME NEW j \in DOMAIN prev PROVE prev[j].id \in Nat
    BY <1>2 DEF Ids, ToSet
  <2>1. prev[j] \in Findings
    OBVIOUS
  <2> QED
    BY <2>1 DEF Findings
<1>4. \A n \in Ids(found) : n \in Nat /\ n < first
  <2> SUFFICES ASSUME NEW j \in DOMAIN found PROVE found[j].id \in Nat
    BY <1>2 DEF Ids, ToSet
  <2>1. found[j] \in Report
    OBVIOUS
  <2> QED
    BY <2>1 DEF Report
<1>5. merged[i].id \in Nat /\ merged[i].id >= first
  <2>1. merged[i] \in Findings
    BY DEF Reconciled
  <2> QED
    BY <1>1, <2>1 DEF Findings, StartsOver
<1> QED
  BY <1>1, <1>2, <1>3, <1>4, <1>5 DEF StartsOver

\* What is resolved has a file that was touched.
LEMMA ResolvedIsTouched ==
  ASSUME NEW prev, Distinct(prev), NEW found, NEW level, NEW changed, NEW merged,
         Reconciled(prev, found, level, changed, merged),
         NEW j \in DOMAIN prev, IsActive(prev[j]), prev \in Seq(Findings), found \in Seq(Report),
         NEW k \in DOMAIN merged, merged[k].id = prev[j].id, merged[k].estado = "resuelto"
  PROVE  FileTouched(prev[j], changed)
<1>1. ~StartsOver(merged[k], prev, found)
  BY DEF StartsOver
<1>2. PICK i \in DOMAIN prev : Continues(merged[k], prev[i], level, changed)
  BY <1>1 DEF Reconciled
<1>3. i = j
  BY <1>2 DEF Continues, Distinct
<1>4. prev[j].estado # "resuelto"
  BY DEF IsActive
<1> QED
  BY <1>2, <1>3, <1>4 DEF Continues, Gone

\* The open rows of a place that stay are as many as were restated, or all there were.
OpenIds(fs, p) == {f.id : f \in {g \in ToSet(fs) : g.place = p /\ g.estado # "resuelto"}}

LEMMA MinOfTwo ==
  ASSUME NEW a \in Nat, NEW b \in Nat
  PROVE  Min({a, b}) <= a /\ Min({a, b}) <= b /\ Min({a, b}) \in Nat
<1> DEFINE S == {a, b}
<1>1. S \in SUBSET Nat /\ S # {} /\ a \in S /\ b \in S
  OBVIOUS
<1> HIDE DEF S
<1>2. Min(S) \in S /\ Min(S) <= a /\ Min(S) <= b
  BY <1>1, MinOfNats
<1> QED
  BY <1>1, <1>2 DEF S

LEMMA RestatedStayOpen ==
  ASSUME NEW prev \in Seq(Findings), Distinct(prev), NEW found \in Seq(Report), NEW level, NEW changed,
         NEW merged, Reconciled(prev, found, level, changed, merged), NEW p \in Place
  PROVE  Cardinality(OpenIds(merged, p) \cap OpenIds(prev, p))
           >= Min({Cardinality(Restating(found, Len(found), p)), Cardinality(OpenIds(prev, p))})
<1>1. PICK C \in SUBSET DOMAIN prev :
        /\ \A j \in C : \E k \in DOMAIN merged :
             /\ merged[k].id = prev[j].id /\ merged[k].place = prev[j].place
             /\ merged[k].estado # "resuelto"
        /\ \A q \in Place :
             \/ Open(prev, q) \subseteq C
             \/ /\ IsFiniteSet(Open(prev, q) \cap C)
                /\ Cardinality(Open(prev, q) \cap C) >= Cardinality(Restating(found, Len(found), q))
  BY DEF Reconciled
<1> PICK O : O = OpenIds(prev, p)
  OBVIOUS
<1> PICK K : K = OpenIds(merged, p) \cap O
  OBVIOUS
<1> PICK A : A = Open(prev, p) \cap C
  OBVIOUS
<1> PICK R : R = Restating(found, Len(found), p)
  OBVIOUS
<1>2. \A x : x \in O <=> \E j \in Open(prev, p) : x = prev[j].id
  BY DEF OpenIds, ToSet, Open, Same
<1>3. \A j \in A : prev[j].id \in K
  <2> SUFFICES ASSUME NEW j \in A PROVE prev[j].id \in K
    OBVIOUS
  <2>1. j \in DOMAIN prev /\ prev[j].place = p /\ prev[j].id \in O /\ j \in C
    BY <1>2 DEF Open, Same
  <2>2. PICK k \in DOMAIN merged : /\ merged[k].id = prev[j].id /\ merged[k].place = prev[j].place
                                   /\ merged[k].estado # "resuelto"
    BY <1>1, <2>1
  <2>3. merged[k].id \in OpenIds(merged, p)
    BY <2>1, <2>2 DEF OpenIds, ToSet
  <2> QED
    BY <2>1, <2>2, <2>3
<1>4. IsFiniteSet(O) /\ Cardinality(O) \in Nat
  <2> DEFINE S == Open(prev, p)
             f == [j \in S |-> prev[j].id]
  <2>1. IsFiniteSet(S)
    <3>1. 1 \in Int /\ Len(prev) \in Int
      OBVIOUS
    <3>2. IsFiniteSet(1 .. Len(prev))
      BY <3>1, FS_Interval
    <3>3. S \in SUBSET (1 .. Len(prev))
      BY DEF Open, Same
    <3> HIDE DEF S
    <3> QED
      BY <3>2, <3>3, FS_Subset
  <2>2. f \in Surjection(S, O)
    BY <1>2 DEF Surjection
  <2> HIDE DEF S, f
  <2> QED
    BY <2>1, <2>2, FS_Surjection, FS_CardinalityType
<1>5. IsFiniteSet(K) /\ Cardinality(K) \in Nat
  BY <1>4, FS_Subset, FS_CardinalityType
<1>6. Cardinality(R) \in Nat
  <2>1. Len(found) \in Nat
    OBVIOUS
  <2> QED
    BY <2>1, MoreRestated
<1>7. \A r, o \in Nat : Min({r, o}) <= r /\ Min({r, o}) <= o /\ Min({r, o}) \in Nat
  BY MinOfTwo
<1>8. CASE Open(prev, p) \subseteq C
  <2>1. O \subseteq K
    BY <1>2, <1>3, <1>8
  <2>2. K = O
    BY <2>1
  <2>3. Cardinality(K) = Cardinality(O)
    BY <2>2
  <2> QED
    BY <1>4, <1>6, <1>7, <2>3
<1>9. CASE IsFiniteSet(A) /\ Cardinality(A) >= Cardinality(R)
  <2> DEFINE f == [j \in A |-> prev[j].id]
  <2>1. f \in Injection(A, K)
    <3>1. f \in [A -> K]
      BY <1>3
    <3>2. \A i, j \in A : f[i] = f[j] => i = j
      BY DEF Distinct, Open, Same
    <3> QED
      BY <3>1, <3>2 DEF Injection, IsInjective
  <2> HIDE DEF f
  <2>2. Cardinality(A) <= Cardinality(K) /\ Cardinality(A) \in Nat
    BY <1>5, <1>9, <2>1, FS_Injection, FS_CardinalityType
  <2> QED
    BY <1>4, <1>5, <1>6, <1>7, <1>9, <2>2
<1> QED
  BY <1>1, <1>8, <1>9

-----------------------------------------------------------------------------
(* The findings a batch is matched to. *)

\* No stored finding is taken twice.
Matched(m, findings, n) ==
  /\ m \in Seq(0 .. Len(findings)) /\ Len(m) = n
  /\ \A i, k \in 1 .. n : m[i] = m[k] => i = k \/ m[i] = 0

LEMMA IndexIsUnclaimed ==
  ASSUME NEW findings \in Seq(Findings), NEW places, NEW m, NEW k \in Nat
  PROVE  /\ IndexOf(findings, places, m, k) \in 0 .. Len(findings)
         /\ \A n \in 1 .. (k - 1) : IndexOf(findings, places, m, k) = m[n] => m[n] = 0
<1> DEFINE S == Same(findings, places[k]) \ {m[n] : n \in 1 .. (k - 1)}
<1>1. S \in SUBSET Nat /\ S \subseteq 1 .. Len(findings)
  BY DEF Same
<1>2. IndexOf(findings, places, m, k) = FirstOf(S)
  BY DEF IndexOf
<1>3. \A n \in 1 .. (k - 1) : m[n] \notin S
  OBVIOUS
<1> HIDE DEF S
<1>4. FirstOf(S) = 0 \/ FirstOf(S) \in S
  BY <1>1, MinOfNats DEF FirstOf
<1>5. Len(findings) \in Nat
  OBVIOUS
<1> PICK x : x = FirstOf(S)
  OBVIOUS
<1>6. x \in 0 .. Len(findings)
  <2> PICK l \in Nat : l = Len(findings)
    BY <1>5
  <2>1. CASE x = 0
    BY <2>1
  <2>2. CASE x \in S
    BY <1>1, <2>2
  <2> QED
    BY <1>4, <2>1, <2>2
<1>7. \A n \in 1 .. (k - 1) : x = m[n] => m[n] = 0
  BY <1>3, <1>4
<1> QED
  BY <1>2, <1>6, <1>7

LEMMA MatchesAre ==
  ASSUME NEW findings \in Seq(Findings), NEW places, Len(places) \in Nat
  PROVE  Matched(Matches(findings, places), findings, Len(places))
<1> DEFINE A == Seq(0 .. Len(findings))
           body(f, k) == IF k = 0 THEN <<>> ELSE Append(f[k - 1], IndexOf(findings, places, f[k - 1], k))
           m == CHOOSE f : f = [k \in 0 .. Len(places) |-> body(f, k)]
           step == [k \in 1 .. Len(places) |-> [a \in A |-> Append(a, IndexOf(findings, places, a, k))]]
<1>1. \A k \in 1 .. Len(places), a \in A : Append(a, IndexOf(findings, places, a, k)) \in A
  BY IndexIsUnclaimed
<1>2. step \in [1 .. Len(places) -> [A -> A]] /\ <<>> \in A
  BY <1>1
<1>3. m = [k \in 0 .. Len(places) |-> body(m, k)]
  <2>1. \E f : f = [k \in 0 .. Len(places) |-> body(f, k)]
    <3> HIDE DEF step, m
    <3>1. PICK f : FoldOf(A, Len(places), <<>>, step, f)
      BY <1>2, FoldExists
    <3>2. /\ f \in [0 .. Len(places) -> A] /\ f[0] = <<>>
          /\ \A k \in 1 .. Len(places) : f[k] = step[k][f[k - 1]]
      BY <3>1 DEF FoldOf
    <3>3. \A k \in 1 .. Len(places) : f[k] = Append(f[k - 1], IndexOf(findings, places, f[k - 1], k))
      <4> SUFFICES ASSUME NEW k \in 1 .. Len(places)
                   PROVE  f[k] = Append(f[k - 1], IndexOf(findings, places, f[k - 1], k))
        OBVIOUS
      <4>1. k - 1 \in 0 .. Len(places) /\ f[k - 1] \in A
        BY <3>2
      <4>2. f[k] = step[k][f[k - 1]]
        BY <3>2
      <4> HIDE DEF A
      <4> QED
        BY <4>1, <4>2 DEF step
    <3>4. \A k \in 0 .. Len(places) : f[k] = body(f, k)
      BY <3>2, <3>3
    <3>5. f = [k \in 0 .. Len(places) |-> body(f, k)]
      BY <3>2, <3>4
    <3> QED
      BY <3>5
  <2> HIDE DEF body, step, A
  <2> QED
    BY <2>1, Zenon
<1>4. Matches(findings, places) = m[Len(places)]
  BY DEF Matches
<1> HIDE DEF m, step
<1>5. /\ m[0] = <<>>
      /\ \A k \in 1 .. Len(places) : m[k] = Append(m[k - 1], IndexOf(findings, places, m[k - 1], k))
  <2>1. ASSUME NEW k \in 0 .. Len(places) PROVE m[k] = body(m, k)
    <3> HIDE DEF body
    <3> QED
      BY <1>3
  <2>2. m[0] = body(m, 0)
    <3> HIDE DEF body
    <3> QED
      BY <2>1
  <2>3. ASSUME NEW k \in 1 .. Len(places)
        PROVE  m[k] = Append(m[k - 1], IndexOf(findings, places, m[k - 1], k))
    <3>1. m[k] = body(m, k)
      <4> HIDE DEF body
      <4> QED
        BY <2>1
    <3>2. k # 0
      OBVIOUS
    <3> QED
      BY <3>1, <3>2
  <2> QED
    BY <2>2, <2>3
<1> HIDE DEF body
<1> DEFINE X == {k \in Nat : k <= Len(places) => Matched(m[k], findings, k)}
<1>6. 0 \in X
  <2> PICK e : e = m[0]
    OBVIOUS
  <2>1. e = <<>> /\ e \in Seq(0 .. Len(findings)) /\ Len(e) = 0
    BY <1>5
  <2>2. Matched(e, findings, 0)
    BY <2>1 DEF Matched
  <2> QED
    BY <2>2
<1>7. ASSUME NEW k \in Nat, k \in X PROVE k + 1 \in X
  <2> SUFFICES ASSUME k + 1 <= Len(places) PROVE Matched(m[k + 1], findings, k + 1)
    OBVIOUS
  <2>1. PICK a : a = m[k]
    OBVIOUS
  <2>2. Matched(a, findings, k)
    BY <1>7, <2>1
  <2>3. PICK i : i = IndexOf(findings, places, a, k + 1)
    OBVIOUS
  <2>4. m[k + 1] = Append(a, i)
    <3>1. k + 1 \in 1 .. Len(places) /\ (k + 1) - 1 = k
      OBVIOUS
    <3> QED
      BY <3>1, <1>5, <2>1, <2>3
  <2>5. i \in 0 .. Len(findings) /\ \A n \in 1 .. k : i = a[n] => a[n] = 0
    <3>1. k + 1 \in Nat /\ (k + 1) - 1 = k
      OBVIOUS
    <3>2. /\ i \in 0 .. Len(findings)
          /\ \A n \in 1 .. ((k + 1) - 1) : i = a[n] => a[n] = 0
      BY <2>3, <3>1, IndexIsUnclaimed
    <3> QED
      BY <3>1, <3>2
  <2>6. PICK b : b = Append(a, i)
    OBVIOUS
  <2>7. /\ b \in Seq(0 .. Len(findings)) /\ Len(b) = k + 1 /\ b[k + 1] = i
        /\ \A n \in 1 .. k : b[n] = a[n]
    BY <2>2, <2>5, <2>6, AppendProperties DEF Matched
  <2>8. ASSUME NEW x \in 1 .. k + 1, NEW y \in 1 .. k + 1, b[x] = b[y] PROVE x = y \/ b[x] = 0
    <3>1. CASE x = k + 1 /\ y = k + 1
      BY <3>1
    <3>2. CASE x \in 1 .. k /\ y \in 1 .. k
      BY <3>2, <2>2, <2>7, <2>8 DEF Matched
    <3>3. CASE x = k + 1 /\ y \in 1 .. k
      BY <3>3, <2>5, <2>7, <2>8
    <3>4. CASE x \in 1 .. k /\ y = k + 1
      BY <3>4, <2>5, <2>7, <2>8
    <3> QED
      BY <3>1, <3>2, <3>3, <3>4
  <2>9. Matched(b, findings, k + 1)
    BY <2>7, <2>8 DEF Matched
  <2> QED
    BY <2>4, <2>6, <2>9
<1> HIDE DEF X
<1>8. Len(places) \in X
  BY <1>6, <1>7, NatSetInduction
<1> QED
  BY <1>4, <1>8 DEF X

-----------------------------------------------------------------------------
(* The invariant. *)

Stored(fs, n) ==
  fs \in Seq(Findings) /\ Distinct(fs) /\ Apart(fs) /\ \A i \in DOMAIN fs : fs[i].thread <= n

Row == [live : BOOLEAN, sha : Nat, findings : Seq(Findings), shown : Nat]

RowsOK(rs, hd, n) ==
  /\ rs \in Seq(Row)
  /\ \A r \in DOMAIN rs :
       rs[r].sha <= hd /\ Stored(rs[r].findings, n) /\ rs[r].shown <= Len(rs[r].findings)

Changes == (SUBSET File) \cup {Unknown}

Fetched == [pc : {"fetched"}, sha : Nat]
Asking == [pc : {"asking"}, sha : Nat, at : Nat, level : 0 .. 3, base : Nat, changed : Changes,
           read : SUBSET File]
Answered == [pc : {"counted", "storing"}, sha : Nat, at : Nat, level : 0 .. 3, base : Nat, changed : Changes,
             read : SUBSET File, found : Seq(Report), first : BOOLEAN, prev : Seq(Findings), row : Nat]

\* ChangedFilesBetween, of any pushes.
FilesBetween(pushes, old, new) ==
  IF old = 0 THEN Unknown
  ELSE UNION {pushes[n] : n \in {m \in DOMAIN pushes : Min({old, new}) <= m /\ m < Max({old, new})}}

ShaOf(rs, r) == IF r = 0 THEN 0 ELSE rs[r].sha

AskedOK(job, rs, pushes) ==
  /\ job.base \in 0 .. Len(rs) /\ job.at \in 1 .. Len(pushes) + 1
  /\ job.changed \in {Unknown, FilesBetween(pushes, ShaOf(rs, job.base), job.at)}

AnsweredOK(job, rs, n) ==
  /\ \A i \in DOMAIN job.found : job.found[i].id = i
  /\ Stored(job.prev, n)
  /\ job.row \in 0 .. Len(rs) /\ (job.row = 0 => job.prev = <<>>)

JobOK(job, rs, hd, pushes, n) ==
  \/ job = NoJob
  \/ job \in Fetched /\ job.sha <= hd
  \/ job \in Asking /\ job.sha <= hd /\ AskedOK(job, rs, pushes)
  \/ job \in Answered /\ job.sha <= hd /\ AskedOK(job, rs, pushes) /\ AnsweredOK(job, rs, n)

DeltaOK(d, rs, pushes) ==
  d.kind = "delta" =>
    /\ d.prev \in Seq(Findings) /\ Distinct(d.prev) /\ d.found \in Seq(Report)
    /\ Reconciled(d.prev, d.found, d.level, d.changed, d.merged)
    /\ d.row = 0 => d.prev = <<>>
    /\ d.row \in 0 .. Len(rs) /\ d.base \in 0 .. Len(rs)
    /\ d.changed \in {Unknown, FilesBetween(pushes, ShaOf(rs, d.base), d.at)}

Batch == [pc : {"checking", "refused", "summary", "posting", "writing", "done", "died"},
          run : Nat, anchored : BOOLEAN, summary : BOOLEAN, about : Seq(Nat), places : Seq(Place),
          snapshot : Seq(Findings), matches : Seq(Nat), analysed : Nat, outcomes : Seq(Int),
          opened : [Place -> Nat], sent : Seq({"summary", "finding"})]

SameRows(fs, gs) ==
  DOMAIN fs = DOMAIN gs /\ \A i \in DOMAIN fs : fs[i].id = gs[i].id /\ fs[i].thread = gs[i].thread

\* The threads a batch opened are not any finding's it was read with.
OutcomesOK(p, n) ==
  /\ \A k \in DOMAIN p.outcomes : p.outcomes[k] > 0 =>
       p.outcomes[k] <= n /\ \A i \in DOMAIN p.snapshot : p.snapshot[i].thread < p.outcomes[k]
  /\ \A i, k \in DOMAIN p.outcomes : p.outcomes[i] = p.outcomes[k] => i = k \/ p.outcomes[i] <= 0

\* Nobody else gives the findings of the run a thread while the batch is out.
RowsOfBatch(p, findings) ==
  /\ DOMAIN findings = DOMAIN p.snapshot
  /\ p.pc # "done" => SameRows(findings, p.snapshot)
  /\ p.pc = "done" => \A k \in DOMAIN p.outcomes :
       p.outcomes[k] > 0 /\ p.matches[k] # 0 => findings[p.matches[k]].thread = p.outcomes[k]

PostOK(p, rs, n) ==
  p.pc # "none" =>
    /\ p \in Batch /\ p.run \in DOMAIN rs
    /\ Len(p.about) = Len(p.places)
    /\ Matched(p.matches, p.snapshot, Len(p.places))
    /\ Len(p.outcomes) <= Len(p.places)
    /\ Stored(p.snapshot, n)
    /\ OutcomesOK(p, n)
    /\ rs[p.run].live => RowsOfBatch(p, rs[p.run].findings)

ReviewInv ==
  /\ Numbered
  /\ touched \in Seq(SUBSET File) /\ head = Len(touched) + 1
  /\ threads \in Seq(Nat)
  /\ RowsOK(runs, head, Len(threads))
  /\ DOMAIN jobs = Jobs /\ \A j \in Jobs : JobOK(jobs[j], runs, head, touched, Len(threads))
  /\ DeltaOK(last, runs, touched)
  /\ PostOK(post, runs, Len(threads))

-----------------------------------------------------------------------------
(* What stays true of what is in flight while the rest moves on. *)

LEMMA FilesStay ==
  ASSUME NEW ps \in Seq(SUBSET File), NEW qs \in Seq(SUBSET File), Len(ps) <= Len(qs),
         \A m \in 1 .. Len(ps) : qs[m] = ps[m],
         NEW old \in Nat, NEW new \in 1 .. Len(ps) + 1, old <= Len(ps) + 1
  PROVE  FilesBetween(qs, old, new) = FilesBetween(ps, old, new)
<1> DEFINE S == {old, new}
<1>1. S \in SUBSET Nat /\ S # {} /\ \A x \in S : x <= Len(ps) + 1
  OBVIOUS
<1>2. Len(ps) + 1 \in Nat
  OBVIOUS
<1> HIDE DEF S
<1>3. Max(S) \in S /\ Min(S) \in S
  BY <1>1, <1>2, MaxOfNats, MinOfNats
<1> PICK hi \in Nat : hi = Max(S)
  BY <1>1, <1>3
<1> PICK lo \in Nat : lo = Min(S)
  BY <1>1, <1>3
<1>4. hi <= Len(ps) + 1
  BY <1>1, <1>3
<1>5. CASE lo = 0
  <2>1. old = 0
    BY <1>3, <1>5 DEF S
  <2> QED
    BY <2>1 DEF FilesBetween
<1>6. CASE lo > 0
  <2>1. {m \in DOMAIN qs : lo <= m /\ m < hi} = {m \in DOMAIN ps : lo <= m /\ m < hi}
    BY <1>4, <1>6
  <2>2. {qs[n] : n \in {m \in DOMAIN qs : lo <= m /\ m < hi}}
          = {ps[n] : n \in {m \in DOMAIN ps : lo <= m /\ m < hi}}
    BY <2>1
  <2>3. {old, new} = S
    BY DEF S
  <2> QED
    BY <2>2, <2>3 DEF FilesBetween
<1> QED
  BY <1>5, <1>6

LEMMA FilesAreChanges ==
  ASSUME NEW ps \in Seq(SUBSET File), NEW old, NEW new
  PROVE  /\ FilesBetween(ps, old, new) \in Changes
         /\ old # 0 => FilesBetween(ps, old, new) \in SUBSET File
<1> DEFINE N == {m \in DOMAIN ps : Min({old, new}) <= m /\ m < Max({old, new})}
<1>1. \A m \in N : ps[m] \in SUBSET File
  OBVIOUS
<1> HIDE DEF N
<1>2. UNION {ps[m] : m \in N} \in SUBSET File
  BY <1>1
<1>3. FilesBetween(ps, old, new) = IF old = 0 THEN Unknown ELSE UNION {ps[m] : m \in N}
  BY DEF FilesBetween, N
<1> PICK u \in SUBSET File : u = UNION {ps[m] : m \in N}
  BY <1>2
<1>4. CASE old = 0
  <2>1. FilesBetween(ps, old, new) = Unknown
    BY <1>4 DEF FilesBetween
  <2>2. Unknown \in Changes
    BY DEF Changes
  <2> QED
    BY <1>4, <2>1, <2>2
<1>5. CASE old # 0
  BY <1>3, <1>5 DEF Changes
<1> QED
  BY <1>4, <1>5

\* Rows are only added, and keep their commits.
RowsLater(rs, qs) ==
  Len(rs) <= Len(qs) /\ \A r \in DOMAIN rs : qs[r].sha = rs[r].sha

LEMMA JobStays ==
  ASSUME NEW job, NEW rs, NEW qs, NEW hd \in Nat, NEW ps \in Seq(SUBSET File), hd = Len(ps) + 1,
         NEW n \in Nat, RowsOK(rs, hd, n), qs \in Seq(Row), RowsLater(rs, qs),
         NEW hd2 \in Nat, hd <= hd2, NEW ps2 \in Seq(SUBSET File), Len(ps) <= Len(ps2),
         \A m \in 1 .. Len(ps) : ps2[m] = ps[m], NEW n2 \in Nat, n <= n2,
         JobOK(job, rs, hd, ps, n)
  PROVE  JobOK(job, qs, hd2, ps2, n2)
<1>1. rs \in Seq(Row) /\ \A r \in DOMAIN rs : rs[r].sha <= hd
  BY DEF RowsOK
<1>2. DOMAIN rs = 1 .. Len(rs) /\ Len(rs) \in Nat /\ Len(qs) \in Nat /\ Len(rs) <= Len(qs)
  BY <1>1 DEF RowsLater
<1>3. \A r \in DOMAIN rs : rs[r].sha \in Nat
  <2>1. \A r \in DOMAIN rs : rs[r] \in Row
    BY <1>1
  <2> QED
    BY <2>1 DEF Row
<1>4. \A b \in 0 .. Len(rs) : ShaOf(qs, b) = ShaOf(rs, b) /\ ShaOf(rs, b) \in Nat /\ ShaOf(rs, b) <= hd
  <2> SUFFICES ASSUME NEW b \in 0 .. Len(rs)
               PROVE  ShaOf(qs, b) = ShaOf(rs, b) /\ ShaOf(rs, b) \in Nat /\ ShaOf(rs, b) <= hd
    OBVIOUS
  <2>1. CASE b = 0
    BY <2>1 DEF ShaOf
  <2>2. CASE b \in DOMAIN rs
    BY <2>2, <1>1, <1>2, <1>3 DEF ShaOf, RowsLater
  <2> QED
    BY <2>1, <2>2, <1>2
<1>5. ASSUME AskedOK(job, rs, ps) PROVE AskedOK(job, qs, ps2)
  <2>1. PICK b \in 0 .. Len(rs) : b = job.base
    BY <1>5 DEF AskedOK
  <2>2. PICK at \in 1 .. Len(ps) + 1 : at = job.at
    BY <1>5 DEF AskedOK
  <2>3. FilesBetween(ps2, ShaOf(rs, b), at) = FilesBetween(ps, ShaOf(rs, b), at)
    BY <1>4, FilesStay
  <2>4. b \in 0 .. Len(qs) /\ at \in 1 .. Len(ps2) + 1
    BY <1>2
  <2>5. job.changed \in {Unknown, FilesBetween(ps, ShaOf(rs, b), at)}
    BY <1>5, <2>1, <2>2 DEF AskedOK
  <2>6. ShaOf(qs, b) = ShaOf(rs, b)
    BY <1>4
  <2> QED
    BY <2>1, <2>2, <2>3, <2>4, <2>5, <2>6 DEF AskedOK
<1>6. \A fs : Stored(fs, n) => Stored(fs, n2)
  <2> SUFFICES ASSUME NEW fs \in Seq(Findings), \A i \in DOMAIN fs : fs[i].thread <= n,
                      NEW i \in DOMAIN fs
               PROVE  fs[i].thread <= n2
    BY DEF Stored
  <2>1. fs[i] \in Findings
    OBVIOUS
  <2>2. fs[i].thread \in Nat
    BY <2>1 DEF Findings
  <2> QED
    BY <2>2
<1>7. AnsweredOK(job, rs, n) => AnsweredOK(job, qs, n2)
  BY <1>2, <1>6 DEF AnsweredOK
<1>8. ASSUME job.sha \in Nat, job.sha <= hd PROVE job.sha <= hd2
  BY <1>8
<1>9. CASE job = NoJob
  BY <1>9 DEF JobOK
<1>10. CASE job \in Fetched /\ job.sha <= hd
  <2>1. job.sha \in Nat
    BY <1>10 DEF Fetched
  <2> QED
    BY <1>8, <1>10, <2>1 DEF JobOK
<1>11. CASE job \in Asking /\ job.sha <= hd /\ AskedOK(job, rs, ps)
  <2>1. job.sha \in Nat
    BY <1>11 DEF Asking
  <2> QED
    BY <1>5, <1>8, <1>11, <2>1 DEF JobOK
<1>12. CASE job \in Answered /\ job.sha <= hd /\ AskedOK(job, rs, ps) /\ AnsweredOK(job, rs, n)
  <2>1. job.sha \in Nat
    BY <1>12 DEF Answered
  <2> QED
    BY <1>5, <1>7, <1>8, <1>12, <2>1 DEF JobOK
<1> QED
  BY <1>9, <1>10, <1>11, <1>12 DEF JobOK

\* What others do to the rows of a batch: nothing that matters to it.
RowsKept(rs, qs) ==
  /\ Len(rs) <= Len(qs)
  /\ \A r \in DOMAIN rs : /\ qs[r].live => rs[r].live
                          /\ SameRows(qs[r].findings, rs[r].findings)

LEMMA PostStays ==
  ASSUME NEW p, NEW rs \in Seq(Row), NEW qs \in Seq(Row), RowsKept(rs, qs), NEW n \in Nat,
         PostOK(p, rs, n)
  PROVE  PostOK(p, qs, n)
<1> SUFFICES ASSUME p.pc # "none" PROVE PostOK(p, qs, n)
  BY DEF PostOK
<1>1. /\ p \in Batch /\ p.run \in DOMAIN rs
      /\ Len(p.about) = Len(p.places)
      /\ Matched(p.matches, p.snapshot, Len(p.places))
      /\ Len(p.outcomes) <= Len(p.places)
      /\ Stored(p.snapshot, n)
      /\ OutcomesOK(p, n)
      /\ rs[p.run].live => RowsOfBatch(p, rs[p.run].findings)
  BY DEF PostOK
<1>2. p.run \in DOMAIN qs
  BY <1>1 DEF RowsKept
<1> PICK fs : fs = rs[p.run].findings
  OBVIOUS
<1> PICK gs : gs = qs[p.run].findings
  OBVIOUS
<1>3. SameRows(gs, fs) /\ (qs[p.run].live => rs[p.run].live)
  BY <1>1 DEF RowsKept
<1>4. ASSUME RowsOfBatch(p, fs) PROVE RowsOfBatch(p, gs)
  <2>1. DOMAIN gs = DOMAIN p.snapshot
    BY <1>3, <1>4 DEF RowsOfBatch, SameRows
  <2>2. CASE p.pc # "done"
    BY <1>3, <1>4, <2>1, <2>2 DEF RowsOfBatch, SameRows
  <2>3. CASE p.pc = "done"
    <3> SUFFICES ASSUME NEW k \in DOMAIN p.outcomes, p.outcomes[k] > 0, p.matches[k] # 0
                 PROVE  gs[p.matches[k]].thread = p.outcomes[k]
      BY <2>1, <2>3 DEF RowsOfBatch
    <3>1. fs[p.matches[k]].thread = p.outcomes[k]
      BY <1>4, <2>3 DEF RowsOfBatch
    <3>2. p.matches[k] \in DOMAIN p.snapshot
      <4>1. p.snapshot \in Seq(Findings) /\ p.outcomes \in Seq(Int) /\ p.places \in Seq(Place)
        BY <1>1 DEF Batch
      <4>2. k \in 1 .. Len(p.places)
        BY <1>1, <4>1
      <4>3. p.matches[k] \in 0 .. Len(p.snapshot)
        BY <1>1, <4>2 DEF Matched
      <4> QED
        BY <4>1, <4>3
    <3> QED
      BY <1>3, <2>1, <3>1, <3>2 DEF SameRows
  <2> QED
    BY <2>2, <2>3
<1> QED
  BY <1>1, <1>2, <1>3, <1>4 DEF PostOK

LEMMA RowsStay ==
  ASSUME NEW fs \in Seq(Findings), NEW gs \in Seq(Findings), SameRows(gs, fs), NEW n \in Nat, Stored(fs, n)
  PROVE  Stored(gs, n) /\ Len(gs) = Len(fs)
<1>1. DOMAIN gs = DOMAIN fs /\ Len(gs) = Len(fs)
  <2>1. DOMAIN gs = 1 .. Len(gs) /\ DOMAIN fs = 1 .. Len(fs) /\ Len(gs) \in Nat /\ Len(fs) \in Nat
    OBVIOUS
  <2>2. DOMAIN gs = DOMAIN fs
    BY DEF SameRows
  <2>3. Len(gs) > 0 => Len(gs) \in DOMAIN fs
    BY <2>1, <2>2
  <2>4. Len(fs) > 0 => Len(fs) \in DOMAIN gs
    BY <2>1, <2>2
  <2>5. Len(gs) <= Len(fs)
    BY <2>1, <2>3
  <2>6. Len(fs) <= Len(gs)
    BY <2>1, <2>4
  <2> PICK a \in Nat, b \in Nat : a = Len(gs) /\ b = Len(fs)
    BY <2>1
  <2>7. a = b
    BY <2>5, <2>6
  <2> QED
    BY <2>2, <2>7
<1> QED
  BY <1>1 DEF Stored, SameRows, Distinct, Apart

-----------------------------------------------------------------------------
(* The reviews. *)

LEMMA ReviewInitially == Numbered /\ PInit => ReviewInv
<1> SUFFICES ASSUME Numbered, PInit PROVE ReviewInv
  OBVIOUS
<1>1. /\ runs = <<>> /\ head = 1 /\ touched = <<>> /\ jobs = [j \in Jobs |-> NoJob]
      /\ last = Nothing /\ threads = <<>> /\ post = [pc |-> "none"]
  BY DEF PInit, Init
<1>2. RowsOK(runs, head, Len(threads))
  BY <1>1 DEF RowsOK
<1>3. DeltaOK(last, runs, touched)
  BY <1>1 DEF DeltaOK, Nothing
<1>4. PostOK(post, runs, Len(threads))
  BY <1>1 DEF PostOK
<1>5. DOMAIN jobs = Jobs /\ \A j \in Jobs : JobOK(jobs[j], runs, head, touched, Len(threads))
  BY <1>1 DEF JobOK
<1>6. touched \in Seq(SUBSET File) /\ head = Len(touched) + 1 /\ threads \in Seq(Nat)
  BY <1>1
<1> QED
  BY <1>2, <1>3, <1>4, <1>5, <1>6 DEF ReviewInv

LEMMA LatestIs ==
  ASSUME runs \in Seq(Row)
  PROVE  /\ Latest \in 0 .. Len(runs)
         /\ LatestHead = ShaOf(runs, Latest)
         /\ LatestFindings = IF Latest = 0 THEN <<>> ELSE runs[Latest].findings
<1> DEFINE S == Live \cup {0}
<1>1. DOMAIN runs = 1 .. Len(runs) /\ Len(runs) \in Nat
  OBVIOUS
<1>2. Live \subseteq 1 .. Len(runs)
  BY <1>1 DEF Live
<1>3. S \in SUBSET Nat /\ S # {} /\ \A x \in S : x <= Len(runs)
  BY <1>1, <1>2
<1>4. Latest = Max(S)
  BY DEF Latest
<1>5. \A x \in S : x \in 0 .. Len(runs)
  BY <1>1, <1>2
<1> HIDE DEF S
<1>6. Latest \in S
  BY <1>1, <1>3, <1>4, MaxOfNats
<1>7. Latest \in 0 .. Len(runs)
  BY <1>5, <1>6
<1> QED
  BY <1>7 DEF LatestHead, LatestFindings, ShaOf

LEMMA JobMoves ==
  ASSUME ReviewInv, NEW j \in Jobs, NEW v, JobOK(v, runs, head, touched, Len(threads)),
         jobs' = [jobs EXCEPT ![j] = v], last' = Nothing,
         UNCHANGED <<runs, head, touched, threads, post>>
  PROVE  ReviewInv'
<1> PICK rs : rs = runs
  OBVIOUS
<1> PICK hd : hd = head
  OBVIOUS
<1> PICK ps : ps = touched
  OBVIOUS
<1> PICK n : n = Len(threads)
  OBVIOUS
<1>1. DOMAIN jobs = Jobs /\ \A k \in Jobs : JobOK(jobs[k], rs, hd, ps, n)
  BY DEF ReviewInv
<1>2. DOMAIN jobs' = Jobs /\ \A k \in Jobs : jobs'[k] = IF k = j THEN v ELSE jobs[k]
  BY <1>1
<1>3. \A k \in Jobs : JobOK(jobs'[k], rs, hd, ps, n)
  BY <1>1, <1>2
<1>4. runs' = rs /\ head' = hd /\ touched' = ps /\ Len(threads') = n
  OBVIOUS
<1>5. DeltaOK(last', rs, ps)
  BY DEF DeltaOK, Nothing
<1>6. PostOK(post', rs, n)
  BY DEF ReviewInv
<1>7. /\ Numbered /\ ps \in Seq(SUBSET File) /\ hd = Len(ps) + 1 /\ threads' \in Seq(Nat)
      /\ RowsOK(rs, hd, n)
  BY DEF ReviewInv
<1> QED
  BY <1>2, <1>3, <1>4, <1>5, <1>6, <1>7 DEF ReviewInv

LEMMA ResolveHeadStep == ASSUME ReviewInv, NEW j \in Jobs, ResolveHead(j), UNCHANGED postVars PROVE ReviewInv'
<1>1. PICK sha \in 0 .. head : jobs' = [jobs EXCEPT ![j] = [pc |-> "fetched", sha |-> sha]]
  BY DEF ResolveHead
<1>2. head \in Nat
  BY DEF ReviewInv
<1>3. [pc |-> "fetched", sha |-> sha] \in Fetched /\ [pc |-> "fetched", sha |-> sha].sha <= head
  BY <1>2 DEF Fetched
<1>4. JobOK([pc |-> "fetched", sha |-> sha], runs, head, touched, Len(threads))
  BY <1>3 DEF JobOK
<1>5. last' = Nothing /\ UNCHANGED <<runs, head, touched, threads, post>>
  BY DEF ResolveHead, postVars
<1> QED
  BY <1>1, <1>4, <1>5, JobMoves

LEMMA JobEnds ==
  ASSUME ReviewInv, NEW j \in Jobs, jobs' = [jobs EXCEPT ![j] = NoJob], last' = Nothing,
         UNCHANGED <<runs, head, touched, threads, post>>
  PROVE  ReviewInv'
<1>1. JobOK(NoJob, runs, head, touched, Len(threads))
  BY DEF JobOK
<1> QED
  BY <1>1, JobMoves

LEMMA JobShapes ==
  ASSUME NEW job, NEW rs, NEW hd, NEW ps, NEW n, JobOK(job, rs, hd, ps, n)
  PROVE  /\ job.pc = "fetched" => job \in Fetched /\ job.sha <= hd
         /\ job.pc = "asking" => job \in Asking /\ job.sha <= hd /\ AskedOK(job, rs, ps)
         /\ job.pc \in {"counted", "storing"} =>
              job \in Answered /\ job.sha <= hd /\ AskedOK(job, rs, ps) /\ AnsweredOK(job, rs, n)
<1>1. CASE job = NoJob
  BY <1>1 DEF NoJob
<1>2. CASE job \in Fetched /\ job.sha <= hd
  BY <1>2 DEF Fetched
<1>3. CASE job \in Asking /\ job.sha <= hd /\ AskedOK(job, rs, ps)
  BY <1>3 DEF Asking
<1>4. CASE job \in Answered /\ job.sha <= hd /\ AskedOK(job, rs, ps) /\ AnsweredOK(job, rs, n)
  BY <1>4 DEF Answered
<1> QED
  BY <1>1, <1>2, <1>3, <1>4 DEF JobOK

LEMMA AskStep ==
  ASSUME ReviewInv, NEW j \in Jobs, NEW level \in Level, Ask(j, level), UNCHANGED postVars
  PROVE  ReviewInv'
<1> PICK job : job = jobs[j]
  OBVIOUS
<1> PICK b : b = Latest
  OBVIOUS
<1>0. PICK at \in job.sha .. head :
        \E changed \in {Unknown, ChangedFilesBetween(LatestHead, at)} :
        \E read \in IF Omits THEN (SUBSET Narrow(changed)) \ {{}} ELSE {Narrow(changed)} :
          jobs' = [jobs EXCEPT ![j] = [pc |-> "asking", sha |-> job.sha, at |-> at, level |-> level,
                                       base |-> b, changed |-> changed, read |-> read]]
  <2>1. DOMAIN jobs = Jobs
    BY DEF ReviewInv
  <2> QED
    BY <2>1 DEF Ask
<1>1. PICK changed \in {Unknown, ChangedFilesBetween(LatestHead, at)} :
        \E read \in IF Omits THEN (SUBSET Narrow(changed)) \ {{}} ELSE {Narrow(changed)} :
          jobs' = [jobs EXCEPT ![j] = [pc |-> "asking", sha |-> job.sha, at |-> at, level |-> level,
                                       base |-> b, changed |-> changed, read |-> read]]
  BY <1>0
<1>2. PICK read \in IF Omits THEN (SUBSET Narrow(changed)) \ {{}} ELSE {Narrow(changed)} :
        jobs' = [jobs EXCEPT ![j] = [pc |-> "asking", sha |-> job.sha, at |-> at, level |-> level,
                                     base |-> b, changed |-> changed, read |-> read]]
  BY <1>1
<1>3. /\ job.pc = "fetched" /\ job.sha # 0 /\ last' = Nothing
      /\ UNCHANGED <<runs, head, touched, threads, post>>
  BY DEF Ask, postVars
<1>4. JobOK(job, runs, head, touched, Len(threads)) /\ head = Len(touched) + 1 /\ head \in Nat
  BY DEF ReviewInv
<1>5. job.sha \in Nat /\ job.sha <= head
  <2>1. job \in Fetched /\ job.sha <= head
    BY <1>3, <1>4, JobShapes
  <2> QED
    BY <2>1 DEF Fetched
<1>6. at \in Nat /\ at \in 1 .. Len(touched) + 1
  BY <1>3, <1>4, <1>5
<1>7. runs \in Seq(Row) /\ touched \in Seq(SUBSET File)
  BY DEF ReviewInv, RowsOK
<1>8. b \in 0 .. Len(runs) /\ LatestHead = ShaOf(runs, b)
  BY <1>7, LatestIs
<1>9. changed \in {Unknown, FilesBetween(touched, ShaOf(runs, b), at)}
  <2>1. ChangedFilesBetween(LatestHead, at) = FilesBetween(touched, LatestHead, at)
    BY DEF ChangedFilesBetween, FilesBetween
  <2> QED
    BY <1>1, <1>8, <2>1
<1>10. changed \in Changes
  <2>1. FilesBetween(touched, ShaOf(runs, b), at) \in Changes
    BY <1>7, FilesAreChanges
  <2>2. Unknown \in Changes
    BY DEF Changes
  <2> QED
    BY <1>9, <2>1, <2>2
<1>11. read \in SUBSET File
  BY <1>2 DEF Narrow
<1>12. level \in 0 .. 3 /\ b \in Nat
  BY <1>7, <1>8, LevelAssumption
<1> DEFINE v == [pc |-> "asking", sha |-> job.sha, at |-> at, level |-> level,
                 base |-> b, changed |-> changed, read |-> read]
<1>13. v \in Asking
  BY <1>5, <1>6, <1>10, <1>11, <1>12 DEF Asking
<1>14. AskedOK(v, runs, touched)
  BY <1>6, <1>8, <1>9 DEF AskedOK
<1>15. v.sha <= head /\ jobs' = [jobs EXCEPT ![j] = v]
  BY <1>2, <1>5
<1> HIDE DEF v
<1>16. JobOK(v, runs, head, touched, Len(threads))
  BY <1>13, <1>14, <1>15 DEF JobOK
<1> QED
  BY <1>3, <1>15, <1>16, JobMoves

LEMMA AnswersAreReports ==
  ASSUME Numbered, NEW found \in Answers
  PROVE  found \in Seq(Report) /\ \A i \in DOMAIN found : found[i].id = i
<1>1. PICK n \in 0 .. MaxFound : found \in [1 .. n -> [place : Place, id : 1 .. MaxFound]]
  BY DEF Answers
<1>2. \A i \in DOMAIN found : found[i].id = i
  BY DEF Answers
<1>3. n \in Nat /\ MaxFound \in Nat
  BY BoundsAssumption
<1>4. [place : Place, id : 1 .. MaxFound] \subseteq Report
  BY <1>3 DEF Report
<1>5. found \in [1 .. n -> Report]
  BY <1>1, <1>4
<1>6. found \in Seq(Report)
  BY <1>3, <1>5
<1> QED
  BY <1>2, <1>6

LEMMA AnswerStep ==
  ASSUME ReviewInv, NEW j \in Jobs, NEW found \in Answers, Answer(j, found), UNCHANGED postVars
  PROVE  ReviewInv'
<1> PICK job : job = jobs[j]
  OBVIOUS
<1> PICK none : none = (Live = {})
  OBVIOUS
<1> DEFINE v == [pc |-> IF none THEN "storing" ELSE "counted", sha |-> job.sha, at |-> job.at,
                 level |-> job.level, base |-> job.base, changed |-> job.changed, read |-> job.read,
                 found |-> found, first |-> none, prev |-> <<>>, row |-> 0]
<1>1. DOMAIN jobs = Jobs /\ Numbered
  BY DEF ReviewInv
<1>2. /\ job.pc = "asking" /\ jobs' = [jobs EXCEPT ![j] = v]
      /\ last' = Nothing /\ UNCHANGED <<runs, head, touched, threads, post>>
  BY <1>1 DEF Answer, postVars
<1>3. JobOK(job, runs, head, touched, Len(threads))
  BY <1>1 DEF ReviewInv
<1>4. job \in Asking /\ job.sha <= head /\ AskedOK(job, runs, touched)
  BY <1>2, <1>3, JobShapes
<1>5. /\ job.sha \in Nat /\ job.at \in Nat /\ job.level \in 0 .. 3 /\ job.base \in Nat /\ job.changed \in Changes
      /\ job.read \in SUBSET File
  BY <1>4 DEF Asking
<1>6. none \in BOOLEAN
  OBVIOUS
<1>7. found \in Seq(Report) /\ \A i \in DOMAIN found : found[i].id = i
  BY <1>1, AnswersAreReports
<1>8. v \in Answered
  BY <1>5, <1>6, <1>7 DEF Answered
<1>9. AskedOK(v, runs, touched)
  BY <1>4 DEF AskedOK
<1>10. Len(threads) \in Nat /\ Len(runs) \in Nat
  BY DEF ReviewInv, RowsOK
<1>11. Stored(<<>>, Len(threads))
  BY DEF Stored, Distinct, Apart
<1>12. AnsweredOK(v, runs, Len(threads))
  BY <1>7, <1>10, <1>11 DEF AnsweredOK
<1>13. v.sha <= head
  BY <1>4
<1> HIDE DEF v
<1>14. JobOK(v, runs, head, touched, Len(threads))
  BY <1>8, <1>9, <1>12, <1>13 DEF JobOK
<1> QED
  BY <1>2, <1>14, JobMoves

LEMMA LoadPreviousStep ==
  ASSUME ReviewInv, NEW j \in Jobs, LoadPrevious(j), UNCHANGED postVars
  PROVE  ReviewInv'
<1> PICK job : job = jobs[j]
  OBVIOUS
<1> PICK prev : prev = LatestFindings
  OBVIOUS
<1> PICK b : b = Latest
  OBVIOUS
<1> PICK n : n = Len(threads)
  OBVIOUS
<1>1. DOMAIN jobs = Jobs /\ n \in Nat
  BY DEF ReviewInv
<1>2. /\ job.pc = "counted"
      /\ jobs' = [jobs EXCEPT ![j].pc = "storing", ![j].prev = prev, ![j].row = b]
      /\ last' = Nothing /\ UNCHANGED <<runs, head, touched, threads, post>>
  BY DEF LoadPrevious, postVars
<1>3. JobOK(job, runs, head, touched, n)
  BY <1>1 DEF ReviewInv
<1>4. job \in Answered /\ job.sha <= head /\ AskedOK(job, runs, touched) /\ AnsweredOK(job, runs, n)
  BY <1>2, <1>3, JobShapes
<1> DEFINE v1 == [job EXCEPT !.pc = "storing"]
           v2 == [v1 EXCEPT !.prev = prev]
           v3 == [v2 EXCEPT !.row = b]
<1>5. jobs' = [jobs EXCEPT ![j] = v3]
  BY <1>1, <1>2, <1>4 DEF Answered
<1>6. RowsOK(runs, head, n) /\ runs \in Seq(Row) /\ Len(runs) \in Nat /\ DOMAIN runs = 1 .. Len(runs)
  BY DEF ReviewInv, RowsOK
<1>7. b \in 0 .. Len(runs) /\ prev = IF b = 0 THEN <<>> ELSE runs[b].findings
  BY <1>6, LatestIs
<1>8. Stored(prev, n) /\ (b = 0 => prev = <<>>)
  <2>1. CASE b = 0
    BY <1>7, <2>1 DEF Stored, Distinct, Apart
  <2>2. CASE b \in DOMAIN runs
    BY <1>6, <1>7, <2>2 DEF RowsOK
  <2> QED
    BY <1>6, <1>7, <2>1, <2>2
<1>9. prev \in Seq(Findings) /\ b \in Nat
  BY <1>6, <1>7, <1>8 DEF Stored
<1>10. v1 \in Answered /\ v1.sha = job.sha /\ v1.at = job.at /\ v1.base = job.base /\ v1.changed = job.changed
       /\ v1.found = job.found
  BY <1>4 DEF Answered
<1> HIDE DEF v1
<1>11. v2 \in Answered /\ v2.sha = job.sha /\ v2.at = job.at /\ v2.base = job.base /\ v2.changed = job.changed
       /\ v2.found = job.found /\ v2.prev = prev
  BY <1>9, <1>10 DEF Answered
<1> HIDE DEF v2
<1>12. v3 \in Answered /\ v3.sha = job.sha /\ v3.at = job.at /\ v3.base = job.base /\ v3.changed = job.changed
       /\ v3.found = job.found /\ v3.prev = prev /\ v3.row = b
  BY <1>9, <1>11 DEF Answered
<1> HIDE DEF v3
<1>13. AskedOK(v3, runs, touched)
  BY <1>4, <1>12 DEF AskedOK
<1>14. AnsweredOK(v3, runs, n)
  BY <1>4, <1>7, <1>8, <1>12 DEF AnsweredOK
<1>15. JobOK(v3, runs, head, touched, Len(threads))
  BY <1>4, <1>12, <1>13, <1>14 DEF JobOK
<1> QED
  BY <1>2, <1>5, <1>15, JobMoves

\* The commits move on, and with them nothing a review in flight relies on.
LEMMA PushStep ==
  ASSUME ReviewInv, NEW files \in SUBSET File, Push(files), UNCHANGED postVars
  PROVE  ReviewInv'
<1> PICK ps : ps = touched
  OBVIOUS
<1> PICK qs : qs = touched'
  OBVIOUS
<1> PICK rs : rs = runs
  OBVIOUS
<1> PICK hd : hd = head
  OBVIOUS
<1> PICK n : n = Len(threads)
  OBVIOUS
<1>1. /\ Numbered /\ ps \in Seq(SUBSET File) /\ hd = Len(ps) + 1 /\ n \in Nat
      /\ RowsOK(rs, hd, n) /\ rs \in Seq(Row) /\ PostOK(post, rs, n)
      /\ DOMAIN jobs = Jobs /\ \A j \in Jobs : JobOK(jobs[j], rs, hd, ps, n)
  BY DEF ReviewInv, RowsOK
<1>2. /\ qs = Append(ps, files) /\ head' = hd + 1 /\ last' = Nothing
      /\ UNCHANGED <<runs, jobs, threads, post>>
  BY DEF Push, postVars
<1>3. /\ qs \in Seq(SUBSET File) /\ Len(qs) = Len(ps) + 1 /\ \A m \in 1 .. Len(ps) : qs[m] = ps[m]
      /\ Len(ps) \in Nat
  BY <1>1, <1>2, AppendProperties
<1>4. RowsLater(rs, rs) /\ hd \in Nat /\ hd + 1 \in Nat /\ hd <= hd + 1 /\ n <= n /\ Len(ps) <= Len(qs)
  <2>1. Len(rs) \in Nat
    BY <1>1
  <2> QED
    BY <1>1, <1>3, <2>1 DEF RowsLater
<1>5. ASSUME NEW j \in Jobs PROVE JobOK(jobs'[j], rs, hd + 1, qs, n)
  <2> PICK job : job = jobs[j]
    OBVIOUS
  <2>1. JobOK(job, rs, hd, ps, n)
    BY <1>1
  <2>2. JobOK(job, rs, hd + 1, qs, n)
    BY <1>1, <1>3, <1>4, <2>1, JobStays
  <2> QED
    BY <1>2, <2>2
<1>6. RowsOK(rs, hd + 1, n)
  <2> SUFFICES ASSUME NEW r \in DOMAIN rs PROVE rs[r].sha <= hd + 1
    BY <1>1 DEF RowsOK
  <2>1. rs[r] \in Row /\ rs[r].sha <= hd
    BY <1>1 DEF RowsOK
  <2>2. rs[r].sha \in Nat
    BY <2>1 DEF Row
  <2> QED
    BY <1>4, <2>1, <2>2
<1>7. DeltaOK(last', rs, qs)
  BY <1>2 DEF DeltaOK, Nothing
<1>8. touched' = qs /\ runs' = rs /\ Len(threads') = n /\ threads' \in Seq(Nat) /\ post' = post
  BY <1>2 DEF ReviewInv
<1>9. hd + 1 = Len(qs) + 1
  BY <1>1, <1>3
<1> QED
  BY <1>1, <1>2, <1>3, <1>5, <1>6, <1>7, <1>8, <1>9 DEF ReviewInv

LEMMA RowsAndBatchMove ==
  ASSUME ReviewInv, NEW qs, runs' = qs, RowsOK(qs, head, Len(threads)),
         RowsLater(runs, qs), DOMAIN jobs' = Jobs,
         \A j \in Jobs : jobs'[j] = jobs[j] \/ jobs'[j] = NoJob,
         DeltaOK(last', qs, touched), PostOK(post', qs, Len(threads)),
         UNCHANGED <<head, touched, threads>>
  PROVE  ReviewInv'
<1> PICK ps : ps = touched
  OBVIOUS
<1> PICK rs : rs = runs
  OBVIOUS
<1> PICK hd : hd = head
  OBVIOUS
<1> PICK n : n = Len(threads)
  OBVIOUS
<1>1. /\ Numbered /\ ps \in Seq(SUBSET File) /\ hd = Len(ps) + 1 /\ n \in Nat
      /\ RowsOK(rs, hd, n) /\ rs \in Seq(Row) /\ threads \in Seq(Nat)
      /\ \A j \in Jobs : JobOK(jobs[j], rs, hd, ps, n)
  BY DEF ReviewInv, RowsOK
<1>2. qs \in Seq(Row) /\ hd \in Nat
  BY <1>1 DEF RowsOK
<1>3. ASSUME NEW j \in Jobs PROVE JobOK(jobs'[j], qs, hd, ps, n)
  <2>1. CASE jobs'[j] = NoJob
    BY <2>1 DEF JobOK
  <2>2. CASE jobs'[j] = jobs[j]
    <3> PICK job : job = jobs[j]
      OBVIOUS
    <3>1. JobOK(job, rs, hd, ps, n) /\ Len(ps) <= Len(ps) /\ hd <= hd /\ n <= n
      BY <1>1, <1>2
    <3>2. JobOK(job, qs, hd, ps, n)
      BY <1>1, <1>2, <3>1, JobStays
    <3> QED
      BY <2>2, <3>2
  <2> QED
    BY <2>1, <2>2
<1>4. PostOK(post', qs, n)
  OBVIOUS
<1>5. touched' = ps /\ head' = hd /\ Len(threads') = n /\ threads' = threads
  OBVIOUS
<1>6. RowsOK(qs, hd, n) /\ DeltaOK(last', qs, ps)
  OBVIOUS
<1> QED
  BY <1>1, <1>3, <1>4, <1>5, <1>6 DEF ReviewInv

LEMMA RowsMove ==
  ASSUME ReviewInv, NEW qs, runs' = qs, RowsOK(qs, head, Len(threads)),
         RowsLater(runs, qs), RowsKept(runs, qs), DOMAIN jobs' = Jobs,
         \A j \in Jobs : jobs'[j] = jobs[j] \/ jobs'[j] = NoJob,
         DeltaOK(last', qs, touched), UNCHANGED <<head, touched, threads, post>>
  PROVE  ReviewInv'
<1>1. PostOK(post', qs, Len(threads))
  <2> PICK p : p = post
    OBVIOUS
  <2> PICK rs : rs = runs
    OBVIOUS
  <2> PICK n : n = Len(threads)
    OBVIOUS
  <2>1. rs \in Seq(Row) /\ qs \in Seq(Row) /\ n \in Nat /\ PostOK(p, rs, n)
    BY DEF ReviewInv, RowsOK
  <2>2. PostOK(p, qs, n)
    BY <2>1, PostStays
  <2> QED
    BY <2>2
<1> QED
  BY <1>1, RowsAndBatchMove

LEMMA SameRowsIsReflexive ==
  ASSUME NEW fs
  PROVE  SameRows(fs, fs)
BY DEF SameRows

LEMMA FirstReviewIs ==
  ASSUME NEW found \in Seq(Report), \A i \in DOMAIN found : found[i].id = i, NEW level \in 0 .. 3,
         NEW n \in Nat
  PROVE  Stored(FirstReview(found, level), n) /\ Len(FirstReview(found, level)) = Len(found)
<1> PICK fs : fs = FirstReview(found, level)
  OBVIOUS
<1>1. DOMAIN found = 1 .. Len(found) /\ Len(found) \in Nat /\ \A i \in 1 .. Len(found) : found[i] \in Report
  OBVIOUS
<1>2. DOMAIN fs = 1 .. Len(found)
      /\ \A i \in 1 .. Len(found) : fs[i] = Finding(found[i].id, found[i].place, level)
  BY <1>1 DEF FirstReview
<1>3. \A i \in 1 .. Len(found) : fs[i] \in Findings /\ fs[i].id = i /\ fs[i].thread = NoThread
  <2> SUFFICES ASSUME NEW i \in 1 .. Len(found)
               PROVE  fs[i] \in Findings /\ fs[i].id = i /\ fs[i].thread = NoThread
    OBVIOUS
  <2>1. found[i].id = i /\ i \in Nat /\ found[i].place \in Place
    BY <1>1 DEF Report
  <2>2. fs[i] = Finding(i, found[i].place, level)
    BY <1>2, <2>1
  <2>3. fs[i] \in Findings
    BY <2>1, <2>2, FreshFinding
  <2> QED
    BY <2>2, <2>3 DEF Finding
<1>4. fs = [i \in 1 .. Len(found) |-> fs[i]]
  BY <1>1 DEF FirstReview
<1>5. fs \in [1 .. Len(found) -> Findings]
  BY <1>3, <1>4
<1>6. fs \in Seq(Findings)
  BY <1>1, <1>5
<1>7. Len(fs) = Len(found)
  BY <1>1, <1>2, <1>6
<1>8. Stored(fs, n)
  BY <1>2, <1>3, <1>6 DEF Stored, Distinct, Apart, NoThread
<1> QED
  BY <1>7, <1>8

LEMMA StoreStep ==
  ASSUME ReviewInv, NEW j \in Jobs, Store(j), UNCHANGED postVars
  PROVE  ReviewInv'
<1> PICK job : job = jobs[j]
  OBVIOUS
<1> PICK rec : rec = Reconcile(job.prev, job.found, job.level, job.changed)
  OBVIOUS
<1> PICK merged : merged = IF job.first THEN FirstReview(job.found, job.level) ELSE rec.merged
  OBVIOUS
<1> PICK rs : rs = runs
  OBVIOUS
<1> PICK n : n = Len(threads)
  OBVIOUS
<1> DEFINE row == [live |-> TRUE, sha |-> job.sha, findings |-> merged, shown |-> Len(job.found)]
<1>1. /\ job.pc = "storing" /\ runs' = Append(rs, row)
      /\ last' = IF job.first THEN Nothing
                 ELSE [kind |-> "delta", prev |-> job.prev, found |-> job.found,
                       base |-> job.base, row |-> job.row, at |-> job.at,
                       level |-> job.level, changed |-> job.changed, read |-> job.read,
                       merged |-> merged, nuevos |-> rec.nuevos,
                       persisten |-> rec.persisten, resueltos |-> rec.resueltos]
      /\ jobs' = [jobs EXCEPT ![j] = NoJob] /\ UNCHANGED <<head, touched, threads, post>>
  BY DEF Store, postVars
<1>2. /\ DOMAIN jobs = Jobs /\ n \in Nat /\ RowsOK(rs, head, n) /\ rs \in Seq(Row) /\ head \in Nat
      /\ touched \in Seq(SUBSET File) /\ JobOK(job, rs, head, touched, n)
  BY DEF ReviewInv, RowsOK
<1>3. job \in Answered /\ job.sha <= head /\ AskedOK(job, rs, touched) /\ AnsweredOK(job, rs, n)
  BY <1>1, <1>2, JobShapes
<1>4. /\ job.sha \in Nat /\ job.level \in 0 .. 3 /\ job.found \in Seq(Report)
      /\ job.prev \in Seq(Findings) /\ job.first \in BOOLEAN
  BY <1>3 DEF Answered
<1>5. /\ \A i \in DOMAIN job.found : job.found[i].id = i
      /\ Stored(job.prev, n) /\ job.row \in 0 .. Len(rs) /\ (job.row = 0 => job.prev = <<>>)
  BY <1>3 DEF AnsweredOK
<1>6. Reconciled(job.prev, job.found, job.level, job.changed, rec.merged)
  BY <1>4, <1>5, ReconcileKeeps DEF Stored
<1>7. Stored(merged, n) /\ Len(merged) >= Len(job.found)
  <2>1. CASE job.first
    <3>1. Stored(merged, n) /\ Len(merged) = Len(job.found)
      BY <1>2, <1>4, <1>5, <2>1, FirstReviewIs
    <3>2. Len(job.found) \in Nat
      BY <1>4
    <3> QED
      BY <3>1, <3>2
  <2>2. CASE ~job.first
    <3>1. merged = rec.merged
      BY <2>2
    <3>2. Apart(merged) /\ \A k \in DOMAIN merged : merged[k].thread <= n
      <4> PICK prev : prev = job.prev
        OBVIOUS
      <4>1. /\ prev \in Seq(Findings) /\ Apart(prev) /\ n \in Nat
            /\ \A i \in DOMAIN prev : prev[i].thread <= n
        BY <1>2, <1>4, <1>5 DEF Stored
      <4>2. Reconciled(prev, job.found, job.level, job.changed, merged)
        BY <1>6, <3>1
      <4> QED
        BY <4>1, <4>2, ThreadsStayApart
    <3> QED
      BY <1>6, <3>1, <3>2 DEF Reconciled, Stored
  <2> QED
    BY <2>1, <2>2
<1>8. Len(job.found) \in Nat /\ merged \in Seq(Findings)
  BY <1>4, <1>7 DEF Stored
<1>9. row \in Row /\ row.sha <= head /\ row.findings = merged /\ row.shown = Len(job.found)
  BY <1>3, <1>4, <1>8 DEF Row
<1> HIDE DEF row
<1> PICK qs : qs = Append(rs, row)
  OBVIOUS
<1>10. /\ qs \in Seq(Row) /\ Len(qs) = Len(rs) + 1 /\ qs[Len(rs) + 1] = row /\ Len(rs) \in Nat
       /\ DOMAIN qs = 1 .. Len(rs) + 1 /\ DOMAIN rs = 1 .. Len(rs)
       /\ \A r \in 1 .. Len(rs) : qs[r] = rs[r]
  BY <1>2, <1>9, AppendProperties
<1>11. RowsOK(qs, head, n)
  <2> SUFFICES ASSUME NEW r \in DOMAIN qs
               PROVE  qs[r].sha <= head /\ Stored(qs[r].findings, n) /\ qs[r].shown <= Len(qs[r].findings)
    BY <1>10 DEF RowsOK
  <2>1. CASE r \in DOMAIN rs
    BY <1>2, <1>10, <2>1 DEF RowsOK
  <2>2. CASE r = Len(rs) + 1
    <3>1. qs[r] = row
      BY <1>10, <2>2
    <3>2. Len(merged) \in Nat
      BY <1>8
    <3>3. Len(job.found) <= Len(merged)
      BY <1>7, <1>8, <3>2
    <3> QED
      BY <1>7, <1>9, <3>1, <3>3
  <2> QED
    BY <1>10, <2>1, <2>2
<1>12. RowsLater(rs, qs)
  BY <1>10 DEF RowsLater
<1>13. RowsKept(rs, qs)
  BY <1>10, SameRowsIsReflexive DEF RowsKept
<1>14. DeltaOK(last', qs, touched)
  <2>1. CASE job.first
    BY <1>1, <2>1 DEF DeltaOK, Nothing
  <2>2. CASE ~job.first
    <3> PICK d : d = last'
      OBVIOUS
    <3>1. /\ d.prev = job.prev /\ d.found = job.found /\ d.base = job.base /\ d.row = job.row
          /\ d.at = job.at /\ d.level = job.level /\ d.changed = job.changed /\ d.merged = rec.merged
      BY <1>1, <2>2
    <3>2. /\ job.base \in 0 .. Len(rs)
          /\ job.changed \in {Unknown, FilesBetween(touched, ShaOf(rs, job.base), job.at)}
      BY <1>3 DEF AskedOK
    <3>3. ShaOf(qs, job.base) = ShaOf(rs, job.base)
      BY <1>10, <3>2 DEF ShaOf
    <3>4. job.base \in 0 .. Len(qs) /\ job.row \in 0 .. Len(qs)
      BY <1>5, <1>10, <3>2
    <3>5. Distinct(job.prev)
      BY <1>5 DEF Stored
    <3>6. DeltaOK(d, qs, touched)
      BY <1>4, <1>5, <1>6, <3>1, <3>2, <3>3, <3>4, <3>5 DEF DeltaOK
    <3> QED
      BY <3>6
  <2> QED
    BY <1>4, <2>1, <2>2
<1>15. DOMAIN jobs' = Jobs /\ \A k \in Jobs : jobs'[k] = jobs[k] \/ jobs'[k] = NoJob
  BY <1>1, <1>2
<1> QED
  BY <1>1, <1>11, <1>12, <1>13, <1>14, <1>15, RowsMove

ReplacedAt(rs, r, gs, qs, hd, n) ==
  /\ RowsOK(qs, hd, n) /\ RowsLater(rs, qs)
  /\ Len(qs) = Len(rs) /\ DOMAIN qs = DOMAIN rs
  /\ qs[r].live = rs[r].live /\ qs[r].findings = gs
  /\ \A x \in DOMAIN rs : x # r => qs[x] = rs[x]

LEMMA RowReplaced ==
  ASSUME ReviewInv, NEW r \in DOMAIN runs, NEW gs, Stored(gs, Len(threads)), Len(gs) = Len(runs[r].findings)
  PROVE  ReplacedAt(runs, r, gs, [runs EXCEPT ![r].findings = gs], head, Len(threads))
<1> PICK qs : qs = [runs EXCEPT ![r].findings = gs]
  OBVIOUS
<1> PICK rs : rs = runs
  OBVIOUS
<1> PICK n : n = Len(threads)
  OBVIOUS
<1>1. rs \in Seq(Row) /\ RowsOK(rs, head, n) /\ n \in Nat
  BY DEF ReviewInv, RowsOK
<1>a. gs \in Seq(Findings)
  BY DEF Stored
<1>2. DOMAIN rs = 1 .. Len(rs) /\ Len(rs) \in Nat /\ \A x \in DOMAIN rs : rs[x] \in Row
  BY <1>1
<1> PICK row : row = [rs[r] EXCEPT !.findings = gs]
  OBVIOUS
<1>3. row \in Row /\ row.live = rs[r].live /\ row.sha = rs[r].sha /\ row.findings = gs
      /\ row.shown = rs[r].shown
  BY <1>2, <1>a DEF Row
<1>4. /\ qs = [rs EXCEPT ![r] = row]
  OBVIOUS
<1>5. /\ qs \in Seq(Row) /\ Len(qs) = Len(rs) /\ DOMAIN qs = DOMAIN rs
      /\ \A x \in DOMAIN rs : qs[x] = IF x = r THEN row ELSE rs[x]
  BY <1>1, <1>2, <1>3, <1>4
<1>7. Stored(gs, n) /\ Len(gs) = Len(rs[r].findings)
  OBVIOUS
<1>8. RowsOK(qs, head, n)
  <2> SUFFICES ASSUME NEW x \in DOMAIN rs
               PROVE  qs[x].sha <= head /\ Stored(qs[x].findings, n) /\ qs[x].shown <= Len(qs[x].findings)
    BY <1>5 DEF RowsOK
  <2>1. rs[x].sha <= head /\ Stored(rs[x].findings, n) /\ rs[x].shown <= Len(rs[x].findings)
    BY <1>1 DEF RowsOK
  <2>2. CASE x = r
    BY <1>3, <1>5, <1>7, <2>1, <2>2
  <2>3. CASE x # r
    BY <1>5, <2>1, <2>3
  <2> QED
    BY <2>2, <2>3
<1>9. RowsLater(rs, qs)
  BY <1>2, <1>3, <1>5 DEF RowsLater
<1> QED
  BY <1>3, <1>5, <1>8, <1>9 DEF ReplacedAt

LEMMA RowEdited ==
  ASSUME ReviewInv, NEW r \in DOMAIN runs, NEW gs \in Seq(Findings), SameRows(gs, runs[r].findings),
         NEW qs, qs = [runs EXCEPT ![r].findings = gs]
  PROVE  RowsOK(qs, head, Len(threads)) /\ RowsLater(runs, qs) /\ RowsKept(runs, qs)
<1> PICK rs : rs = runs
  OBVIOUS
<1> PICK n : n = Len(threads)
  OBVIOUS
<1> PICK fs : fs = runs[r].findings
  OBVIOUS
<1>1. n \in Nat /\ rs \in Seq(Row) /\ Stored(fs, n)
  BY DEF ReviewInv, RowsOK
<1>2. fs \in Seq(Findings) /\ Len(rs) \in Nat
  BY <1>1 DEF Stored
<1>3. Stored(gs, n) /\ Len(gs) = Len(fs)
  BY <1>1, <1>2, RowsStay
<1>4. /\ RowsOK(qs, head, n) /\ RowsLater(rs, qs)
      /\ Len(qs) = Len(rs) /\ DOMAIN qs = DOMAIN rs
      /\ qs[r].live = rs[r].live /\ qs[r].findings = gs
      /\ \A x \in DOMAIN rs : x # r => qs[x] = rs[x]
  <2>1. Stored(gs, Len(threads)) /\ Len(gs) = Len(runs[r].findings)
    BY <1>3
  <2>2. ReplacedAt(runs, r, gs, [runs EXCEPT ![r].findings = gs], head, Len(threads))
    BY <2>1, RowReplaced
  <2>3. ReplacedAt(rs, r, gs, qs, head, n)
    BY <2>2
  <2> QED
    BY <2>3 DEF ReplacedAt
<1>5. \A x \in DOMAIN rs : (qs[x].live => rs[x].live) /\ SameRows(qs[x].findings, rs[x].findings)
  <2> SUFFICES ASSUME NEW x \in DOMAIN rs
               PROVE  (qs[x].live => rs[x].live) /\ SameRows(qs[x].findings, rs[x].findings)
    OBVIOUS
  <2>1. CASE x = r
    BY <1>4, <2>1
  <2>2. CASE x # r
    BY <1>4, <2>2, SameRowsIsReflexive
  <2> QED
    BY <2>1, <2>2
<1>6. RowsKept(rs, qs)
  BY <1>2, <1>4, <1>5 DEF RowsKept
<1> QED
  BY <1>4, <1>6

LEMMA MarkFindingStep ==
  ASSUME ReviewInv, NEW r \in Live, NEW id \in Ids(runs[r].findings),
         NEW estado \in Discards \cup {"abierto"}, MarkFinding(r, id, estado), UNCHANGED postVars
  PROVE  ReviewInv'
<1> PICK fs : fs = runs[r].findings
  OBVIOUS
<1> DEFINE S == {k \in DOMAIN fs : fs[k].id = id}
<1> PICK i : i = Min(S)
  OBVIOUS
<1> PICK to : to = IF estado \in Discards THEN estado ELSE Unmarked(fs[i])
  OBVIOUS
<1>1. r \in DOMAIN runs
  BY DEF Live
<1>2. /\ runs' = [runs EXCEPT ![r].findings[i].estado = to]
      /\ last' = Nothing /\ UNCHANGED <<head, touched, jobs, threads, post>>
  BY DEF MarkFinding, postVars
<1>3. runs \in Seq(Row) /\ DOMAIN jobs = Jobs
  BY DEF ReviewInv, RowsOK
<1>4. runs[r] \in Row
  BY <1>1, <1>3
<1>5. fs \in Seq(Findings)
  BY <1>4 DEF Row
<1>6. i \in DOMAIN fs
  <2>1. S \in SUBSET Nat /\ S # {} /\ S \subseteq DOMAIN fs
    BY <1>5 DEF Ids, ToSet
  <2> HIDE DEF S
  <2> QED
    BY <2>1, MinOfNats
<1> HIDE DEF S
<1>7. fs[i] \in Findings
  BY <1>5, <1>6
<1>8. to \in States
  BY DEF Discards, States, Unmarked
<1> PICK f : f = [fs[i] EXCEPT !.estado = to]
  OBVIOUS
<1>9. f \in Findings /\ f.id = fs[i].id /\ f.thread = fs[i].thread
  BY <1>7, <1>8 DEF Findings
<1> PICK gs : gs = [fs EXCEPT ![i] = f]
  OBVIOUS
<1>10. gs \in Seq(Findings) /\ DOMAIN gs = DOMAIN fs
       /\ \A k \in DOMAIN fs : gs[k] = IF k = i THEN f ELSE fs[k]
  BY ONLY <1>5, <1>6, <1>9, gs = [fs EXCEPT ![i] = f]
<1>11. SameRows(gs, fs)
  BY <1>9, <1>10 DEF SameRows
<1> PICK qs : qs = [runs EXCEPT ![r].findings = gs]
  OBVIOUS
<1>12. runs' = qs
  BY <1>2
<1>13. RowsOK(qs, head, Len(threads)) /\ RowsLater(runs, qs) /\ RowsKept(runs, qs)
  BY <1>1, <1>10, <1>11, RowEdited
<1>14. DeltaOK(last', qs, touched)
  BY <1>2 DEF DeltaOK, Nothing
<1>15. DOMAIN jobs' = Jobs /\ \A j \in Jobs : jobs'[j] = jobs[j] \/ jobs'[j] = NoJob
  BY <1>2, <1>3
<1> QED
  BY <1>2, <1>12, <1>13, <1>14, <1>15, RowsMove

LEMMA DeleteStep ==
  ASSUME ReviewInv, NEW rows \in SUBSET Live, Delete(rows), UNCHANGED postVars
  PROVE  ReviewInv'
<1> PICK rs : rs = runs
  OBVIOUS
<1> PICK n : n = Len(threads)
  OBVIOUS
<1> PICK qs : qs = [r \in DOMAIN rs |-> [rs[r] EXCEPT !.live = @ /\ r \notin rows]]
  OBVIOUS
<1>1. /\ runs' = qs /\ last' = Nothing /\ UNCHANGED <<head, touched, jobs, threads, post>>
  BY DEF Delete, postVars
<1>2. rs \in Seq(Row) /\ RowsOK(rs, head, n) /\ DOMAIN jobs = Jobs
  BY DEF ReviewInv, RowsOK
<1>3. DOMAIN rs = 1 .. Len(rs) /\ Len(rs) \in Nat /\ \A r \in DOMAIN rs : rs[r] \in Row
  BY <1>2
<1>4. \A r \in DOMAIN rs : /\ qs[r] \in Row /\ qs[r].sha = rs[r].sha /\ qs[r].shown = rs[r].shown
                           /\ qs[r].findings = rs[r].findings /\ (qs[r].live => rs[r].live)
  <2> SUFFICES ASSUME NEW r \in DOMAIN rs
               PROVE  /\ qs[r] \in Row /\ qs[r].sha = rs[r].sha /\ qs[r].shown = rs[r].shown
                      /\ qs[r].findings = rs[r].findings /\ (qs[r].live => rs[r].live)
    OBVIOUS
  <2> PICK a \in Row : a = rs[r]
    BY <1>3
  <2> PICK live \in BOOLEAN : live = (a.live /\ r \notin rows)
    OBVIOUS
  <2>1. qs[r] = [a EXCEPT !.live = live]
    OBVIOUS
  <2>2. [a EXCEPT !.live = live] \in Row
    BY DEF Row
  <2>3. /\ qs[r].sha = a.sha /\ qs[r].shown = a.shown /\ qs[r].findings = a.findings
        /\ qs[r].live = live
    BY <2>1 DEF Row
  <2> QED
    BY <2>1, <2>2, <2>3
<1>5. DOMAIN qs = DOMAIN rs /\ qs \in [1 .. Len(rs) -> Row]
  BY <1>3, <1>4
<1>6. qs \in Seq(Row) /\ Len(qs) = Len(rs)
  BY <1>3, <1>5
<1>7. RowsOK(qs, head, n)
  BY <1>2, <1>4, <1>5, <1>6 DEF RowsOK
<1>8. RowsLater(rs, qs) /\ RowsKept(rs, qs)
  <2>1. \A r \in DOMAIN rs : SameRows(qs[r].findings, rs[r].findings)
    BY <1>4, SameRowsIsReflexive
  <2>2. Len(rs) <= Len(qs)
    BY <1>3, <1>6
  <2>3. \A r \in DOMAIN rs : qs[r].sha = rs[r].sha /\ (qs[r].live => rs[r].live)
    BY <1>4
  <2> HIDE DEF SameRows
  <2>4. RowsLater(rs, qs)
    BY ONLY <2>2, <2>3 DEF RowsLater
  <2> QED
    BY ONLY <2>1, <2>2, <2>3, <2>4 DEF RowsKept
<1>9. DeltaOK(last', qs, touched)
  BY <1>1 DEF DeltaOK, Nothing
<1>10. DOMAIN jobs' = Jobs /\ \A j \in Jobs : jobs'[j] = jobs[j] \/ jobs'[j] = NoJob
  BY <1>1, <1>2
<1> QED
  BY <1>1, <1>7, <1>8, <1>9, <1>10, RowsMove

LEMMA MemoryStep == ASSUME ReviewInv, MemoryNext, UNCHANGED postVars PROVE ReviewInv'
<1>1. ASSUME NEW files \in SUBSET File, Push(files) PROVE ReviewInv'
  BY <1>1, PushStep
<1>2. ASSUME NEW j \in Jobs, ResolveHead(j) PROVE ReviewInv'
  BY <1>2, ResolveHeadStep
<1>3. ASSUME NEW j \in Jobs, NothingChanged(j) PROVE ReviewInv'
  BY <1>3, JobEnds DEF NothingChanged, postVars
<1>4. ASSUME NEW j \in Jobs, LoadPrevious(j) PROVE ReviewInv'
  BY <1>4, LoadPreviousStep
<1>5. ASSUME NEW j \in Jobs, Store(j) PROVE ReviewInv'
  BY <1>5, StoreStep
<1>6. ASSUME NEW j \in Jobs, Drop(j) PROVE ReviewInv'
  BY <1>6, JobEnds DEF Drop, postVars
<1>7. ASSUME NEW j \in Jobs, NEW level \in Level, Ask(j, level) PROVE ReviewInv'
  BY <1>7, AskStep
<1>8. ASSUME NEW j \in Jobs, NEW found \in Answers, Answer(j, found) PROVE ReviewInv'
  BY <1>8, AnswerStep
<1>9. ASSUME NEW r \in Live, NEW id \in Ids(runs[r].findings), NEW estado \in Discards \cup {"abierto"},
             MarkFinding(r, id, estado)
      PROVE  ReviewInv'
  BY <1>9, MarkFindingStep
<1>10. ASSUME NEW rows \in SUBSET Live, Delete(rows) PROVE ReviewInv'
  BY <1>10, DeleteStep
<1> QED
  BY <1>1, <1>2, <1>3, <1>4, <1>5, <1>6, <1>7, <1>8, <1>9, <1>10 DEF MemoryNext

-----------------------------------------------------------------------------
(* The batch. *)

LEMMA StoredLater ==
  ASSUME NEW fs, NEW n \in Nat, NEW n2 \in Nat, n <= n2, Stored(fs, n)
  PROVE  Stored(fs, n2)
<1> SUFFICES ASSUME fs \in Seq(Findings), \A i \in DOMAIN fs : fs[i].thread <= n, NEW i \in DOMAIN fs
             PROVE  fs[i].thread <= n2
  BY DEF Stored
<1>1. fs[i] \in Findings
  OBVIOUS
<1>2. fs[i].thread \in Nat
  BY <1>1 DEF Findings
<1> QED
  BY <1>2

LEMMA RowsOKLater ==
  ASSUME NEW rs, NEW hd, NEW n \in Nat, NEW n2 \in Nat, n <= n2, RowsOK(rs, hd, n)
  PROVE  RowsOK(rs, hd, n2)
<1>1. \A r \in DOMAIN rs : Stored(rs[r].findings, n2)
  BY StoredLater DEF RowsOK
<1> QED
  BY <1>1 DEF RowsOK

\* The memory is left alone, and threads are only opened.
LEMMA BatchMoves ==
  ASSUME ReviewInv, NEW ts \in Seq(Nat), threads' = ts, Len(threads) <= Len(ts),
         PostOK(post', runs, Len(ts)), DOMAIN jobs' = Jobs,
         \A j \in Jobs : jobs'[j] = jobs[j] \/ jobs'[j] = NoJob,
         last' = last \/ last' = Nothing, UNCHANGED <<runs, head, touched>>
  PROVE  ReviewInv'
<1> PICK ps : ps = touched
  OBVIOUS
<1> PICK rs : rs = runs
  OBVIOUS
<1> PICK hd : hd = head
  OBVIOUS
<1> PICK n : n = Len(threads)
  OBVIOUS
<1> PICK n2 : n2 = Len(ts)
  OBVIOUS
<1>1. /\ Numbered /\ ps \in Seq(SUBSET File) /\ hd = Len(ps) + 1 /\ n \in Nat /\ n2 \in Nat
      /\ RowsOK(rs, hd, n) /\ rs \in Seq(Row) /\ hd \in Nat
      /\ \A j \in Jobs : JobOK(jobs[j], rs, hd, ps, n)
  BY DEF ReviewInv, RowsOK
<1>2. RowsOK(rs, hd, n2)
  BY <1>1, RowsOKLater
<1>3. ASSUME NEW j \in Jobs PROVE JobOK(jobs'[j], rs, hd, ps, n2)
  <2>1. CASE jobs'[j] = NoJob
    BY <2>1 DEF JobOK
  <2>2. CASE jobs'[j] = jobs[j]
    <3> PICK job : job = jobs[j]
      OBVIOUS
    <3>1. JobOK(job, rs, hd, ps, n) /\ Len(ps) <= Len(ps) /\ hd <= hd /\ n <= n2
      BY <1>1
    <3>2. RowsLater(rs, rs)
      <4>1. Len(rs) \in Nat
        BY <1>1
      <4> QED
        BY <4>1 DEF RowsLater
    <3>3. JobOK(job, rs, hd, ps, n2)
      BY <1>1, <3>1, <3>2, JobStays
    <3> QED
      BY <2>2, <3>3
  <2> QED
    BY <2>1, <2>2
<1>4. DeltaOK(last', rs, ps)
  BY DEF ReviewInv, DeltaOK, Nothing
<1>5. runs' = rs /\ touched' = ps /\ head' = hd /\ threads' = ts /\ Len(threads') = n2
  OBVIOUS
<1>6. PostOK(post', rs, n2)
  OBVIOUS
<1> QED
  BY <1>1, <1>2, <1>3, <1>4, <1>5, <1>6 DEF ReviewInv

\* A batch goes on with what it was given.
SameBatch(p, q) ==
  /\ q \in Batch /\ q.run = p.run /\ q.about = p.about /\ q.places = p.places
  /\ q.snapshot = p.snapshot /\ q.matches = p.matches

LEMMA BatchGoesOn ==
  ASSUME NEW p, NEW q, NEW rs, NEW n \in Nat, NEW n2 \in Nat, n <= n2, PostOK(p, rs, n),
         p.pc # "none", p.pc # "done", q.pc # "done", SameBatch(p, q),
         Len(q.outcomes) <= Len(q.places), OutcomesOK(q, n2)
  PROVE  PostOK(q, rs, n2)
<1>1. /\ p \in Batch /\ p.run \in DOMAIN rs
      /\ Len(p.about) = Len(p.places)
      /\ Matched(p.matches, p.snapshot, Len(p.places))
      /\ Stored(p.snapshot, n)
      /\ rs[p.run].live => RowsOfBatch(p, rs[p.run].findings)
  BY DEF PostOK
<1>2. Stored(q.snapshot, n2)
  BY <1>1, StoredLater DEF SameBatch
<1>3. rs[q.run].live => RowsOfBatch(q, rs[q.run].findings)
  BY <1>1 DEF SameBatch, RowsOfBatch
<1>4. /\ q \in Batch /\ q.run \in DOMAIN rs /\ Len(q.about) = Len(q.places)
      /\ Matched(q.matches, q.snapshot, Len(q.places))
  BY <1>1 DEF SameBatch
<1> QED
  BY <1>2, <1>3, <1>4 DEF PostOK

\* Changing where it is, or what it sent.
PhaseTo(p, to, q) == SameBatch(p, q) /\ q.pc = to /\ q.outcomes = p.outcomes /\ q.sent = p.sent

LEMMA PhaseChanges ==
  ASSUME NEW p \in Batch, NEW to \in {"checking", "refused", "summary", "posting", "writing", "done", "died"}
  PROVE  PhaseTo(p, to, [p EXCEPT !.pc = to])
BY DEF PhaseTo, SameBatch, Batch

SentTo(p, to, q) == SameBatch(p, q) /\ q.pc = p.pc /\ q.outcomes = p.outcomes

LEMMA SendingChanges ==
  ASSUME NEW p \in Batch, NEW to \in Seq({"summary", "finding"})
  PROVE  SentTo(p, to, [p EXCEPT !.sent = to])
BY DEF SentTo, SameBatch, Batch

OutcomesTo(p, to, q) == SameBatch(p, q) /\ q.pc = p.pc /\ q.outcomes = to /\ q.sent = p.sent /\ q.opened = p.opened

LEMMA OutcomesChange ==
  ASSUME NEW p \in Batch, NEW to \in Seq(Int)
  PROVE  OutcomesTo(p, to, [p EXCEPT !.outcomes = to])
BY DEF OutcomesTo, SameBatch, Batch

OpenedTo(p, to, q) == SameBatch(p, q) /\ q.pc = p.pc /\ q.outcomes = p.outcomes /\ q.sent = p.sent

LEMMA OpenedChanges ==
  ASSUME NEW p \in Batch, NEW to \in [Place -> Nat]
  PROVE  OpenedTo(p, to, [p EXCEPT !.opened = to])
BY DEF OpenedTo, SameBatch, Batch

\* What the invariant says of a batch that is on its way.
LEMMA BatchIs ==
  ASSUME NEW p, NEW rs, NEW n, PostOK(p, rs, n), p.pc # "none"
  PROVE  /\ p \in Batch /\ p.run \in DOMAIN rs
         /\ p.pc \in {"checking", "refused", "summary", "posting", "writing", "done", "died"}
         /\ p.about \in Seq(Nat) /\ p.places \in Seq(Place) /\ p.snapshot \in Seq(Findings)
         /\ p.outcomes \in Seq(Int) /\ p.opened \in [Place -> Nat] /\ p.sent \in Seq({"summary", "finding"})
         /\ p.matches \in Seq(Nat)
         /\ Len(p.about) = Len(p.places) /\ Len(p.outcomes) <= Len(p.places)
         /\ Matched(p.matches, p.snapshot, Len(p.places))
         /\ Stored(p.snapshot, n) /\ OutcomesOK(p, n)
         /\ rs[p.run].live => RowsOfBatch(p, rs[p.run].findings)
BY DEF PostOK, Batch

\* A step that only says where the batch is.
LEMMA PhaseStep ==
  ASSUME ReviewInv, post.pc \notin {"none", "done"},
         NEW to \in {"checking", "refused", "summary", "posting", "writing", "died"},
         post' = [post EXCEPT !.pc = to], DOMAIN jobs' = Jobs,
         \A j \in Jobs : jobs'[j] = jobs[j] \/ jobs'[j] = NoJob,
         last' = last \/ last' = Nothing, UNCHANGED <<runs, head, touched, threads>>
  PROVE  ReviewInv'
<1> PICK p : p = post
  OBVIOUS
<1> PICK q : q = [p EXCEPT !.pc = to]
  OBVIOUS
<1> PICK rs : rs = runs
  OBVIOUS
<1> PICK ts : ts = threads
  OBVIOUS
<1>1. PostOK(p, rs, Len(ts)) /\ ts \in Seq(Nat)
  BY DEF ReviewInv
<1>2. p \in Batch /\ Len(p.outcomes) <= Len(p.places) /\ OutcomesOK(p, Len(ts))
  BY <1>1, BatchIs
<1>3. SameBatch(p, q) /\ q.pc = to /\ q.outcomes = p.outcomes
  <2>1. PhaseTo(p, to, q)
    BY <1>2, PhaseChanges
  <2> QED
    BY <2>1 DEF PhaseTo
<1>4. Len(ts) \in Nat /\ Len(ts) <= Len(ts)
  BY <1>1
<1>5. OutcomesOK(q, Len(ts)) /\ Len(q.outcomes) <= Len(q.places)
  BY <1>2, <1>3 DEF OutcomesOK, SameBatch
<1>6. PostOK(q, rs, Len(ts))
  BY <1>1, <1>3, <1>4, <1>5, BatchGoesOn
<1>7. PostOK(post', runs, Len(ts)) /\ threads' = ts /\ Len(threads) <= Len(ts)
  BY <1>4, <1>6
<1> QED
  BY <1>1, <1>7, BatchMoves

LEMMA EnsureUnchangedStep ==
  ASSUME ReviewInv, NEW seen, EnsureUnchanged(seen)
  PROVE  ReviewInv'
<1> PICK to \in {"refused", "summary", "posting"} :
      to = IF Moved(seen) THEN "refused" ELSE AfterCheck
  BY DEF AfterCheck
<1>1. post.pc \notin {"none", "done"} /\ post' = [post EXCEPT !.pc = to]
  BY DEF EnsureUnchanged
<1>2. UNCHANGED <<runs, head, touched, jobs, last, threads>>
  BY DEF EnsureUnchanged, memoryVars
<1>3. DOMAIN jobs' = Jobs
  BY <1>2 DEF ReviewInv
<1> QED
  BY <1>1, <1>2, <1>3, PhaseStep

LEMMA ItemsDoneStep == ASSUME ReviewInv, ItemsDone PROVE ReviewInv'
<1> PICK to \in {"summary", "writing"} : to = IF DiscussionNewestFirst THEN "summary" ELSE "writing"
  OBVIOUS
<1>1. post.pc \notin {"none", "done"} /\ post' = [post EXCEPT !.pc = to]
  BY DEF ItemsDone
<1>2. UNCHANGED <<runs, head, touched, jobs, last, threads>>
  BY DEF ItemsDone, memoryVars
<1>3. DOMAIN jobs' = Jobs
  BY <1>2 DEF ReviewInv
<1> QED
  BY <1>1, <1>2, <1>3, PhaseStep

LEMMA DieStep == ASSUME ReviewInv, Die PROVE ReviewInv'
<1>1. post.pc \notin {"none", "done"} /\ post' = [post EXCEPT !.pc = "died"] /\ last' = Nothing
  BY DEF Die, Resting
<1>2. UNCHANGED <<runs, head, touched, threads>>
  BY DEF Die
<1>3. DOMAIN jobs' = Jobs /\ \A j \in Jobs : jobs'[j] = NoJob
  BY DEF Die
<1> QED
  BY <1>1, <1>2, <1>3, PhaseStep

LEMMA PostSummaryStep ==
  ASSUME ReviewInv, NEW lands \in BOOLEAN, PostSummary(lands)
  PROVE  ReviewInv'
<1> PICK p : p = post
  OBVIOUS
<1> PICK rs : rs = runs
  OBVIOUS
<1> PICK ts : ts = threads
  OBVIOUS
<1> PICK to \in {"writing", "posting"} : to = IF DiscussionNewestFirst THEN "writing" ELSE "posting"
  OBVIOUS
<1> PICK sent : sent = IF p.summary /\ lands THEN Append(p.sent, "summary") ELSE p.sent
  OBVIOUS
<1>1. p.pc = "summary" /\ post' = [p EXCEPT !.pc = to, !.sent = sent]
  BY DEF PostSummary
<1>2. PostOK(p, rs, Len(ts)) /\ ts \in Seq(Nat)
  BY DEF ReviewInv
<1>3. /\ p \in Batch /\ Len(p.outcomes) <= Len(p.places) /\ OutcomesOK(p, Len(ts))
      /\ p.sent \in Seq({"summary", "finding"})
  BY <1>1, <1>2, BatchIs
<1>4. sent \in Seq({"summary", "finding"})
  BY <1>3
<1> PICK q : q = [p EXCEPT !.pc = to]
  OBVIOUS
<1>5. SameBatch(p, q) /\ q.pc = to /\ q.outcomes = p.outcomes
  <2>1. PhaseTo(p, to, q)
    BY <1>3, PhaseChanges
  <2> QED
    BY <2>1 DEF PhaseTo
<1> PICK s : s = [q EXCEPT !.sent = sent]
  OBVIOUS
<1>6. post' = s
  BY <1>1
<1>7. SameBatch(q, s) /\ s.pc = q.pc /\ s.outcomes = q.outcomes
  <2>1. q \in Batch
    BY <1>5 DEF SameBatch
  <2>2. SentTo(q, sent, s)
    BY <1>4, <2>1, SendingChanges
  <2> QED
    BY <2>2 DEF SentTo
<1>8. SameBatch(p, s) /\ s.pc = to /\ s.outcomes = p.outcomes
  BY <1>5, <1>7 DEF SameBatch
<1>9. OutcomesOK(s, Len(ts)) /\ Len(s.outcomes) <= Len(s.places)
  BY <1>3, <1>8 DEF OutcomesOK, SameBatch
<1>10. Len(ts) \in Nat /\ Len(ts) <= Len(ts)
  BY <1>2
<1>11. PostOK(s, rs, Len(ts))
  BY <1>1, <1>2, <1>8, <1>9, <1>10, BatchGoesOn
<1>12. PostOK(post', runs, Len(ts)) /\ threads' = ts /\ Len(threads) <= Len(ts)
  BY <1>6, <1>10, <1>11 DEF PostSummary
<1>13. UNCHANGED <<runs, head, touched, jobs, last>>
  BY DEF PostSummary, memoryVars
<1>14. DOMAIN jobs' = Jobs
  BY <1>13 DEF ReviewInv
<1> QED
  BY <1>2, <1>12, <1>13, <1>14, BatchMoves

\* One more outcome: none, or a thread that was just opened.
LEMMA OutcomeAdded ==
  ASSUME NEW p, NEW q, NEW n \in Nat, NEW n2 \in Nat, n <= n2, OutcomesOK(p, n),
         p.outcomes \in Seq(Int), NEW o \in Int, q.outcomes = Append(p.outcomes, o),
         q.snapshot = p.snapshot, Stored(p.snapshot, n), o <= 0 \/ (o = n + 1 /\ n2 = n + 1)
  PROVE  OutcomesOK(q, n2)
<1> PICK os \in Seq(Int) : os = p.outcomes
  OBVIOUS
<1> PICK qs : qs = q.outcomes
  OBVIOUS
<1> PICK l \in Nat : l = Len(os)
  OBVIOUS
<1>1. /\ DOMAIN qs = 1 .. (l + 1) /\ DOMAIN os = 1 .. l
      /\ qs[l + 1] = o /\ \A k \in 1 .. l : qs[k] = os[k]
  OBVIOUS
<1>2. \A k \in 1 .. l : os[k] \in Int
  OBVIOUS
<1>3. \A k \in 1 .. l : os[k] > 0 => os[k] <= n /\ \A i \in DOMAIN p.snapshot : p.snapshot[i].thread < os[k]
  BY <1>1 DEF OutcomesOK
<1>4. \A i, k \in 1 .. l : os[i] = os[k] => i = k \/ os[i] <= 0
  BY <1>1 DEF OutcomesOK
<1>5. \A i \in DOMAIN p.snapshot : p.snapshot[i].thread <= n /\ p.snapshot[i].thread \in Nat
  <2>1. \A i \in DOMAIN p.snapshot : p.snapshot[i] \in Findings
    BY DEF Stored
  <2> QED
    BY <2>1 DEF Stored, Findings
<1>6. ASSUME NEW k \in 1 .. (l + 1), qs[k] > 0
      PROVE  qs[k] <= n2 /\ \A i \in DOMAIN p.snapshot : p.snapshot[i].thread < qs[k]
  <2>1. CASE k = l + 1
    BY <1>1, <1>5, <1>6, <2>1
  <2>2. CASE k \in 1 .. l
    <3>1. qs[k] = os[k] /\ os[k] \in Int /\ os[k] > 0
      BY <1>1, <1>2, <1>6, <2>2
    <3>2. os[k] <= n /\ \A i \in DOMAIN p.snapshot : p.snapshot[i].thread < os[k]
      BY <1>3, <2>2, <3>1
    <3> QED
      BY <3>1, <3>2
  <2> QED
    BY <2>1, <2>2
<1>7. ASSUME NEW i \in 1 .. (l + 1), NEW k \in 1 .. (l + 1), qs[i] = qs[k]
      PROVE  i = k \/ qs[i] <= 0
  <2>1. CASE i = l + 1 /\ k = l + 1
    BY <2>1
  <2>2. CASE i \in 1 .. l /\ k \in 1 .. l
    BY <1>1, <1>4, <1>7, <2>2
  <2>3. ASSUME NEW a \in 1 .. l, qs[a] = o PROVE o <= 0
    <3>1. os[a] = o
      BY <1>1, <2>3
    <3>2. o > 0 => o <= n
      BY <1>3, <3>1
    <3> QED
      BY <3>2
  <2>4. CASE i = l + 1 /\ k \in 1 .. l
    BY <1>1, <1>7, <2>3, <2>4
  <2>5. CASE k = l + 1 /\ i \in 1 .. l
    BY <1>1, <1>7, <2>3, <2>5
  <2> QED
    BY <2>1, <2>2, <2>4, <2>5
<1> QED
  BY <1>1, <1>6, <1>7 DEF OutcomesOK

\* The batch after an item: its outcome, and what else the item leaves behind.
ItemTo(p, q, o) ==
  SameBatch(p, q) /\ q.pc = "posting" /\ q.outcomes = Append(p.outcomes, o)

\* What an item leaves behind.
LEMMA ItemStep ==
  ASSUME ReviewInv, post.pc = "posting", Next1 <= Len(post.places), NEW o \in Int,
         NEW q, post' = q, ItemTo(post, q, o), NEW ts \in Seq(Nat), threads' = ts,
         \/ o <= 0 /\ Len(threads) <= Len(ts)
         \/ o = Len(threads) + 1 /\ Len(ts) = Len(threads) + 1,
         UNCHANGED memoryVars
  PROVE  ReviewInv'
<1> PICK p : p = post
  OBVIOUS
<1> PICK rs : rs = runs
  OBVIOUS
<1> PICK n : n = Len(threads)
  OBVIOUS
<1> PICK n2 : n2 = Len(ts)
  OBVIOUS
<1>1. PostOK(p, rs, n) /\ threads \in Seq(Nat)
  BY DEF ReviewInv
<1>2. n \in Nat /\ n2 \in Nat /\ n <= n2
  <2>1. n \in Nat /\ n2 \in Nat
    BY <1>1
  <2> QED
    BY <2>1
<1>3. /\ p \in Batch /\ p.outcomes \in Seq(Int) /\ p.places \in Seq(Place)
      /\ Stored(p.snapshot, n) /\ OutcomesOK(p, n)
  BY <1>1, BatchIs
<1>4. SameBatch(p, q) /\ q.pc = "posting" /\ q.outcomes = Append(p.outcomes, o) /\ q.snapshot = p.snapshot
      /\ q.places = p.places
  BY DEF ItemTo, SameBatch
<1>5. OutcomesOK(q, n2)
  <2>1. o <= 0 \/ (o = n + 1 /\ n2 = n + 1)
    OBVIOUS
  <2> QED
    BY <1>2, <1>3, <1>4, <2>1, OutcomeAdded
<1>6. Len(q.outcomes) <= Len(q.places)
  <2>1. Len(q.outcomes) = Len(p.outcomes) + 1
    BY <1>3, <1>4, AppendProperties
  <2> QED
    BY <1>4, <2>1 DEF Next1
<1>7. PostOK(q, rs, n2)
  BY <1>1, <1>2, <1>4, <1>5, <1>6, BatchGoesOn
<1>8. UNCHANGED <<runs, head, touched, jobs, last>>
  BY DEF memoryVars
<1>9. DOMAIN jobs' = Jobs
  BY <1>8 DEF ReviewInv
<1>10. PostOK(post', runs, Len(ts)) /\ Len(threads) <= Len(ts)
  BY <1>2, <1>7
<1> QED
  BY <1>8, <1>9, <1>10, BatchMoves

LEMMA ItemFailsStep == ASSUME ReviewInv, ItemFails PROVE ReviewInv'
<1> PICK p : p = post
  OBVIOUS
<1>1. /\ p.pc = "posting" /\ Next1 <= Len(p.places) /\ post' = [p EXCEPT !.outcomes = Append(p.outcomes, -1)]
      /\ UNCHANGED memoryVars /\ threads' = threads
  BY DEF ItemFails
<1>2. threads \in Seq(Nat) /\ p \in Batch /\ p.outcomes \in Seq(Int)
  BY <1>1, BatchIs DEF ReviewInv
<1>3. Append(p.outcomes, -1) \in Seq(Int)
  BY <1>2
<1> PICK q : q = [p EXCEPT !.outcomes = Append(p.outcomes, -1)]
  OBVIOUS
<1>4. OutcomesTo(p, Append(p.outcomes, -1), q)
  BY <1>2, <1>3, OutcomesChange
<1>5. ItemTo(post, q, -1) /\ post' = q
  BY <1>1, <1>4 DEF ItemTo, OutcomesTo
<1>6. -1 \in Int /\ -1 <= 0 /\ Len(threads) <= Len(threads)
  <2>1. Len(threads) \in Nat
    BY <1>2
  <2> QED
    BY <2>1
<1> QED
  BY <1>1, <1>2, <1>5, <1>6, ItemStep

LEMMA ReplyStep == ASSUME ReviewInv, Reply PROVE ReviewInv'
<1> PICK p : p = post
  OBVIOUS
<1> PICK sent : sent = Append(p.sent, "finding")
  OBVIOUS
<1> PICK os : os = Append(p.outcomes, 0)
  OBVIOUS
<1>1. /\ p.pc = "posting" /\ Next1 <= Len(p.places) /\ post' = [p EXCEPT !.outcomes = os, !.sent = sent]
      /\ UNCHANGED memoryVars /\ threads' = threads
  BY DEF Reply
<1>2. threads \in Seq(Nat) /\ p \in Batch /\ p.outcomes \in Seq(Int) /\ p.sent \in Seq({"summary", "finding"})
  BY <1>1, BatchIs DEF ReviewInv
<1>3. os \in Seq(Int) /\ sent \in Seq({"summary", "finding"})
  BY <1>2
<1> PICK q : q = [p EXCEPT !.outcomes = os]
  OBVIOUS
<1> PICK s : s = [q EXCEPT !.sent = sent]
  OBVIOUS
<1>4. OutcomesTo(p, os, q)
  BY <1>2, <1>3, OutcomesChange
<1>5. q \in Batch
  BY <1>4 DEF OutcomesTo, SameBatch
<1>6. SentTo(q, sent, s)
  BY <1>3, <1>5, SendingChanges
<1>7. ItemTo(post, s, 0)
  BY <1>1, <1>4, <1>6 DEF ItemTo, OutcomesTo, SentTo, SameBatch
<1>8. post' = s
  BY <1>1
<1>9. 0 \in Int /\ 0 <= 0 /\ Len(threads) <= Len(threads)
  <2>1. Len(threads) \in Nat
    BY <1>2
  <2> QED
    BY <2>1
<1> QED
  BY <1>1, <1>2, <1>7, <1>8, <1>9, ItemStep

LEMMA OpenThreadStep ==
  ASSUME ReviewInv, NEW answered \in BOOLEAN, OpenThread(answered)
  PROVE  ReviewInv'
<1> PICK p : p = post
  OBVIOUS
<1> PICK n : n = Len(threads)
  OBVIOUS
<1> PICK k : k = Next1
  OBVIOUS
<1> PICK o : o = IF answered THEN n + 1 ELSE -1
  OBVIOUS
<1> PICK os : os = Append(p.outcomes, o)
  OBVIOUS
<1> PICK sent : sent = Append(p.sent, "finding")
  OBVIOUS
<1> PICK new : new = IF answered /\ p.matches[k] # 0 THEN n + 1 ELSE p.opened[p.places[k]]
  OBVIOUS
<1> PICK opened : opened = [p.opened EXCEPT ![p.places[k]] = new]
  OBVIOUS
<1> PICK ts : ts = Append(threads, p.about[k])
  OBVIOUS
<1>1. /\ p.pc = "posting" /\ k <= Len(p.places)
      /\ UNCHANGED memoryVars /\ threads' = ts
  BY DEF OpenThread
<1>2. post' = [p EXCEPT !.outcomes = os, !.opened[p.places[k]] = new, !.sent = sent]
  BY DEF OpenThread
<1>3. PostOK(p, runs, n) /\ threads \in Seq(Nat)
  BY DEF ReviewInv
<1>4. /\ p \in Batch /\ p.outcomes \in Seq(Int) /\ p.sent \in Seq({"summary", "finding"})
      /\ p.opened \in [Place -> Nat] /\ p.places \in Seq(Place) /\ p.about \in Seq(Nat)
      /\ Len(p.about) = Len(p.places)
  BY <1>1, <1>3, BatchIs
<1>5. n \in Nat /\ o \in Int
  BY <1>3
<1>6. k \in 1 .. Len(p.places)
  <2>1. Len(p.outcomes) \in Nat /\ Len(p.places) \in Nat
    BY <1>4
  <2> QED
    BY <1>1, <2>1 DEF Next1
<1>7. p.about[k] \in Nat /\ p.places[k] \in Place
  <2>1. p.places[k] \in Place
    BY <1>4, <1>6
  <2>2. k \in 1 .. Len(p.about)
    BY <1>4, <1>6
  <2>3. p.about[k] \in Nat
    <3> PICK about \in Seq(Nat) : about = p.about
      BY <1>4
    <3>1. k \in DOMAIN about
      BY <2>2
    <3>2. about[k] \in Nat
      BY ONLY <3>1, about \in Seq(Nat)
    <3> QED
      BY <3>2
  <2> QED
    BY <2>1, <2>3
<1>8. ts \in Seq(Nat) /\ Len(ts) = n + 1
  BY <1>3, <1>7, AppendProperties
<1>9. new \in Nat
  BY <1>4, <1>5, <1>7
<1>10. os \in Seq(Int) /\ sent \in Seq({"summary", "finding"}) /\ opened \in [Place -> Nat]
  BY <1>4, <1>5, <1>7, <1>9
<1> PICK q : q = [p EXCEPT !.outcomes = os]
  OBVIOUS
<1> PICK r : r = [q EXCEPT !.opened = opened]
  OBVIOUS
<1> PICK s : s = [r EXCEPT !.sent = sent]
  OBVIOUS
<1>11. OutcomesTo(p, os, q)
  BY <1>4, <1>10, OutcomesChange
<1>12. q \in Batch
  BY <1>11 DEF OutcomesTo, SameBatch
<1>13. OpenedTo(q, opened, r)
  BY <1>10, <1>12, OpenedChanges
<1>14. r \in Batch
  BY <1>13 DEF OpenedTo, SameBatch
<1>15. SentTo(r, sent, s)
  BY <1>10, <1>14, SendingChanges
<1>16. ItemTo(post, s, o)
  BY <1>1, <1>11, <1>13, <1>15 DEF ItemTo, OutcomesTo, OpenedTo, SentTo, SameBatch
<1>17. post' = s
  <2>1. [p EXCEPT !.opened[p.places[k]] = new] = [p EXCEPT !.opened = opened]
    OBVIOUS
  <2> QED
    BY <1>2
<1>18. \/ o <= 0 /\ Len(threads) <= Len(ts)
       \/ o = Len(threads) + 1 /\ Len(ts) = Len(threads) + 1
  BY <1>5, <1>8
<1>19. Next1 <= Len(post.places) /\ post.pc = "posting"
  BY <1>1
<1> QED
  BY <1>1, <1>5, <1>8, <1>16, <1>17, <1>18, <1>19, ItemStep

\* What the write at the end of a batch leaves in the row.
LEMMA AppliedIs ==
  ASSUME NEW p, NEW rs, NEW n \in Nat, PostOK(p, rs, n), p.pc = "writing"
  PROVE  /\ Stored(Applied(p), n) /\ Len(Applied(p)) = Len(p.snapshot)
         /\ DOMAIN Applied(p) = DOMAIN p.snapshot
         /\ \A k \in DOMAIN p.outcomes :
              p.outcomes[k] > 0 /\ p.matches[k] # 0 => Applied(p)[p.matches[k]].thread = p.outcomes[k]
<1> PICK fs : fs = p.snapshot
  OBVIOUS
<1> PICK os : os = p.outcomes
  OBVIOUS
<1> PICK ms : ms = p.matches
  OBVIOUS
<1> PICK l : l = Len(p.places)
  OBVIOUS
<1> DEFINE mine(i) == {k \in DOMAIN os : ms[k] = i /\ os[k] > 0}
           row(i) == IF mine(i) = {} THEN fs[i]
                     ELSE [fs[i] EXCEPT !.thread = os[Max(mine(i))],
                                        !.estado = IF @ = "abierto" THEN "posteado" ELSE @]
           gs == [i \in DOMAIN fs |-> row(i)]
<1>1. Applied(p) = gs
  BY DEF Applied
<1>2. /\ fs \in Seq(Findings) /\ Stored(fs, n) /\ os \in Seq(Int) /\ p.places \in Seq(Place)
      /\ Matched(ms, fs, l) /\ Len(os) <= l
  BY BatchIs
<1>3. l \in Nat /\ DOMAIN os \subseteq 1 .. l /\ DOMAIN os = 1 .. Len(os) /\ Len(os) \in Nat
  BY <1>2
<1>4. \A i, k \in 1 .. l : ms[i] = ms[k] => i = k \/ ms[i] = 0
  BY <1>2 DEF Matched
<1>5. /\ \A k \in DOMAIN os : os[k] > 0 => os[k] <= n /\ \A i \in DOMAIN fs : fs[i].thread < os[k]
      /\ \A i, k \in DOMAIN os : os[i] = os[k] => i = k \/ os[i] <= 0
  <2>1. OutcomesOK(p, n)
    BY BatchIs
  <2> QED
    BY <2>1 DEF OutcomesOK
<1>6. \A i \in DOMAIN fs : i # 0 /\ fs[i] \in Findings
  BY <1>2
<1>7. ASSUME NEW i \in DOMAIN fs, NEW k \in mine(i) PROVE Max(mine(i)) = k
  <2> PICK S : S = mine(i)
    OBVIOUS
  <2>1. \A x \in S : x = k
    BY <1>3, <1>4, <1>6, <1>7
  <2>2. S \in SUBSET Nat /\ S # {} /\ k \in Nat
    BY <1>3, <1>7
  <2>3. \A x \in S : x <= k
    BY <2>1, <2>2
  <2>4. Max(S) \in S
    BY <2>2, <2>3, MaxOfNats
  <2> QED
    BY <2>1, <2>4
<1> HIDE DEF mine
<1>8. ASSUME NEW i \in DOMAIN fs
      PROVE  /\ gs[i] \in Findings /\ gs[i].id = fs[i].id
             /\ \/ mine(i) = {} /\ gs[i].thread = fs[i].thread
                \/ \E k \in mine(i) : gs[i].thread = os[k]
  <2>1. gs[i] = row(i)
    OBVIOUS
  <2>2. CASE mine(i) = {}
    BY <1>6, <2>1, <2>2
  <2>3. CASE mine(i) # {}
    <3> PICK k \in mine(i) : TRUE
      BY <2>3
    <3>1. Max(mine(i)) = k
      BY <1>7
    <3> PICK t : t = os[k]
      OBVIOUS
    <3>2. t \in Nat
      BY <1>2, <1>3 DEF mine
    <3> PICK f \in Findings : f = fs[i]
      BY <1>6
    <3> PICK e : e = IF f.estado = "abierto" THEN "posteado" ELSE f.estado
      OBVIOUS
    <3> PICK g : g = [f EXCEPT !.thread = t]
      OBVIOUS
    <3> PICK h : h = [g EXCEPT !.estado = e]
      OBVIOUS
    <3>3. e \in States
      BY DEF Findings, States
    <3>4. g \in Findings /\ g.id = f.id /\ g.thread = t
      BY <3>2 DEF Findings
    <3>5. h \in Findings /\ h.id = f.id /\ h.thread = t
      BY <3>3, <3>4 DEF Findings
    <3>6. row(i) = h
      <4>1. g.estado = f.estado
        BY DEF Findings
      <4> QED
        BY <2>3, <3>1, <4>1
    <3> HIDE DEF row, gs
    <3> QED
      BY <2>1, <3>5, <3>6
  <2> QED
    BY <2>2, <2>3
<1>9. DOMAIN gs = DOMAIN fs
  OBVIOUS
<1> HIDE DEF gs, row
<1>10. gs \in Seq(Findings) /\ Len(gs) = Len(fs)
  <2>1. DOMAIN fs = 1 .. Len(fs) /\ Len(fs) \in Nat
    BY <1>2
  <2>2. gs \in [1 .. Len(fs) -> Findings]
    <3>1. gs = [i \in DOMAIN fs |-> gs[i]]
      BY DEF gs
    <3> QED
      BY <1>8, <1>9, <2>1, <3>1
  <2> QED
    BY <2>1, <2>2
<1>11. Distinct(gs)
  <2>1. Distinct(fs)
    BY <1>2 DEF Stored
  <2> QED
    BY <1>8, <1>9, <2>1 DEF Distinct
<1>12. \A i \in DOMAIN fs : \A k \in mine(i) : k \in DOMAIN os /\ os[k] \in Int /\ os[k] > 0 /\ ms[k] = i
  BY <1>2 DEF mine
<1>13. \A i \in DOMAIN fs : fs[i].thread \in Nat /\ fs[i].thread <= n
  BY <1>2, <1>6 DEF Stored, Findings
<1>14. Apart(gs)
  <2> SUFFICES ASSUME NEW i \in DOMAIN fs, NEW k \in DOMAIN fs, gs[i].thread = gs[k].thread,
                      gs[i].thread # NoThread
               PROVE  i = k
    BY <1>9 DEF Apart
  <2>1. CASE gs[i].thread = fs[i].thread /\ gs[k].thread = fs[k].thread
    <3>1. Apart(fs)
      BY <1>2 DEF Stored
    <3> QED
      BY <2>1, <3>1 DEF Apart
  <2>2. ASSUME NEW a \in mine(i), gs[i].thread = os[a], NEW b \in mine(k), gs[k].thread = os[b]
        PROVE  i = k
    <3>1. /\ a \in DOMAIN os /\ os[a] \in Int /\ os[a] > 0 /\ ms[a] = i
          /\ b \in DOMAIN os /\ ms[b] = k
      BY <1>12
    <3>2. os[a] = os[b]
      BY <2>2
    <3> PICK t \in Int : t = os[a]
      BY <3>1
    <3>4. ~(t <= 0)
      BY <3>1
    <3>5. ~(os[a] <= 0)
      BY <3>4
    <3>3. a = b
      BY <1>5, <3>1, <3>2, <3>5
    <3> QED
      BY <3>1, <3>3
  <2>3. ASSUME NEW a \in mine(i), gs[i].thread = os[a], gs[k].thread = fs[k].thread PROVE FALSE
    <3>1. fs[k].thread < os[a] /\ os[a] \in Int
      BY <1>5, <1>12
    <3>2. fs[k].thread = os[a] /\ fs[k].thread \in Nat
      BY <1>13, <2>3
    <3> PICK t \in Int : t = os[a]
      BY <3>1
    <3>3. t < t
      BY ONLY <3>1, <3>2, t = os[a]
    <3> QED
      BY ONLY <3>3, t \in Int
  <2>4. ASSUME NEW b \in mine(k), gs[k].thread = os[b], gs[i].thread = fs[i].thread PROVE FALSE
    <3>1. fs[i].thread < os[b] /\ os[b] \in Int
      BY <1>5, <1>12
    <3>2. fs[i].thread = os[b] /\ fs[i].thread \in Nat
      BY <1>13, <2>4
    <3> PICK t \in Int : t = os[b]
      BY <3>1
    <3>3. t < t
      BY ONLY <3>1, <3>2, t = os[b]
    <3> QED
      BY ONLY <3>3, t \in Int
  <2> QED
    BY <1>8, <2>1, <2>2, <2>3, <2>4
<1>15. \A i \in DOMAIN gs : gs[i].thread <= n
  BY <1>5, <1>8, <1>9, <1>12, <1>13
<1>16. ASSUME NEW k \in DOMAIN os, os[k] > 0, ms[k] # 0 PROVE gs[ms[k]].thread = os[k]
  <2>1. ms[k] \in DOMAIN fs
    <3>1. ms[k] \in 0 .. Len(fs)
      BY <1>2, <1>3 DEF Matched
    <3> QED
      BY <1>2, <1>16, <3>1
  <2> PICK i \in DOMAIN fs : i = ms[k]
    BY <2>1
  <2>2. k \in mine(i)
    BY <1>16 DEF mine
  <2>3. Max(mine(i)) = k
    BY <1>7, <2>2
  <2>4. \E a \in mine(i) : gs[i].thread = os[a]
    BY <1>8, <2>2
  <2>5. \A a \in mine(i) : a = k
    BY <1>7, <2>3
  <2> QED
    BY <2>4, <2>5
<1>17. Stored(gs, n)
  BY <1>10, <1>11, <1>14, <1>15 DEF Stored
<1> QED
  BY <1>1, <1>9, <1>10, <1>16, <1>17

LEMMA SetFindingsStep == ASSUME ReviewInv, SetFindings PROVE ReviewInv'
<1> PICK p : p = post
  OBVIOUS
<1> PICK rs : rs = runs
  OBVIOUS
<1> PICK n : n = Len(threads)
  OBVIOUS
<1> PICK r : r = p.run
  OBVIOUS
<1> PICK fs : fs = rs[r].findings
  OBVIOUS
<1> PICK gs : gs = WriteBack(r, Applied(p))
  OBVIOUS
<1> PICK qs : qs = [rs EXCEPT ![r].findings = gs]
  OBVIOUS
<1> PICK q : q = [p EXCEPT !.pc = "done"]
  OBVIOUS
<1>1. /\ p.pc = "writing" /\ runs' = qs /\ post' = q /\ last' = Nothing
      /\ UNCHANGED <<head, touched, jobs, threads>>
  BY DEF SetFindings
<1>2. n \in Nat /\ RowsOK(rs, head, n) /\ PostOK(p, rs, n) /\ DOMAIN jobs = Jobs
  BY DEF ReviewInv
<1>3. /\ r \in DOMAIN rs /\ p \in Batch
      /\ p.snapshot \in Seq(Findings) /\ Stored(p.snapshot, n) /\ OutcomesOK(p, n)
      /\ Len(p.about) = Len(p.places) /\ Len(p.outcomes) <= Len(p.places)
      /\ Matched(p.matches, p.snapshot, Len(p.places))
      /\ rs[r].live => RowsOfBatch(p, fs)
  BY <1>1, <1>2, BatchIs
<1>4. /\ Stored(Applied(p), n) /\ Len(Applied(p)) = Len(p.snapshot)
      /\ DOMAIN Applied(p) = DOMAIN p.snapshot
      /\ \A k \in DOMAIN p.outcomes :
           p.outcomes[k] > 0 /\ p.matches[k] # 0 => Applied(p)[p.matches[k]].thread = p.outcomes[k]
  BY <1>1, <1>2, AppliedIs
<1>5. fs \in Seq(Findings) /\ Stored(fs, n)
  BY <1>2, <1>3 DEF RowsOK, Stored
<1>6. Stored(gs, n) /\ Len(gs) = Len(fs) /\ (rs[r].live => gs = Applied(p))
  <2>1. CASE rs[r].live
    <3>1. gs = Applied(p)
      BY <2>1 DEF WriteBack
    <3>2. SameRows(fs, p.snapshot)
      BY <1>1, <1>3, <2>1 DEF RowsOfBatch
    <3>3. Len(fs) = Len(p.snapshot)
      BY <1>2, <1>3, <1>5, <3>2, RowsStay
    <3> QED
      BY <1>4, <3>1, <3>3
  <2>2. CASE ~rs[r].live
    <3>1. gs = fs
      BY <2>2 DEF WriteBack
    <3> QED
      BY <1>5, <2>2, <3>1
  <2> QED
    BY <2>1, <2>2
<1>7. ReplacedAt(rs, r, gs, qs, head, n)
  <2>1. Stored(gs, Len(threads)) /\ Len(gs) = Len(runs[r].findings) /\ r \in DOMAIN runs
    BY <1>3, <1>6
  <2>2. ReplacedAt(runs, r, gs, [runs EXCEPT ![r].findings = gs], head, Len(threads))
    BY <2>1, RowReplaced
  <2> QED
    BY <2>2
<1>8. /\ RowsOK(qs, head, n) /\ RowsLater(rs, qs) /\ DOMAIN qs = DOMAIN rs
      /\ qs[r].live = rs[r].live /\ qs[r].findings = gs
  BY <1>7 DEF ReplacedAt
<1>9. SameBatch(p, q) /\ q.pc = "done" /\ q.outcomes = p.outcomes
  <2>1. PhaseTo(p, "done", q)
    BY <1>3, PhaseChanges
  <2> QED
    BY <2>1 DEF PhaseTo
<1>10. qs[r].live => RowsOfBatch(q, qs[r].findings)
  <2> SUFFICES ASSUME rs[r].live PROVE RowsOfBatch(q, gs)
    BY <1>8
  <2>1. gs = Applied(p)
    BY <1>6
  <2> QED
    BY <1>4, <1>9, <2>1 DEF RowsOfBatch, SameBatch
<1>11. PostOK(q, qs, n)
  <2>1. /\ q \in Batch /\ q.run = r /\ q.about = p.about /\ q.places = p.places
        /\ q.snapshot = p.snapshot /\ q.matches = p.matches
    BY <1>9 DEF SameBatch
  <2>2. OutcomesOK(q, n)
    BY <1>3, <1>9, <2>1 DEF OutcomesOK
  <2> QED
    BY <1>3, <1>8, <1>9, <1>10, <2>1, <2>2 DEF PostOK
<1>12. DeltaOK(last', qs, touched)
  BY <1>1 DEF DeltaOK, Nothing
<1>13. DOMAIN jobs' = Jobs /\ \A j \in Jobs : jobs'[j] = jobs[j] \/ jobs'[j] = NoJob
  BY <1>1, <1>2
<1>14. RowsOK(qs, head, Len(threads)) /\ RowsLater(runs, qs) /\ PostOK(post', qs, Len(threads))
  BY <1>1, <1>8, <1>11
<1> QED
  BY <1>1, <1>12, <1>13, <1>14, RowsAndBatchMove

LEMMA PublishStep ==
  ASSUME ReviewInv, NEW r \in DOMAIN runs, NEW chosen \in SUBSET Offered(r),
         NEW anchored \in BOOLEAN, NEW summary \in BOOLEAN, Publish(r, chosen, anchored, summary)
  PROVE  ReviewInv'
<1> PICK rs : rs = runs
  OBVIOUS
<1> PICK n : n = Len(threads)
  OBVIOUS
<1> PICK row : row = rs[r]
  OBVIOUS
<1> PICK fs : fs = row.findings
  OBVIOUS
<1> PICK offer : offer = [i \in Offered(r) |-> i]
  OBVIOUS
<1> PICK items : items = Picked(offer, chosen)
  OBVIOUS
<1> PICK places : places = [k \in DOMAIN items |-> fs[items[k]].place]
  OBVIOUS
<1> PICK about : about = [k \in DOMAIN items |-> fs[items[k]].id]
  OBVIOUS
<1> PICK snapshot : snapshot = IF row.live THEN fs ELSE <<>>
  OBVIOUS
<1> PICK matches : matches = Matches(snapshot, places)
  OBVIOUS
<1> PICK analysed : analysed = IF row.live THEN row.sha ELSE 0
  OBVIOUS
<1> PICK opened : opened = [pl \in Place |-> NoThread]
  OBVIOUS
<1> PICK p : p = [pc |-> "checking", run |-> r, anchored |-> anchored, summary |-> summary,
                  about |-> about, places |-> places, snapshot |-> snapshot, matches |-> matches,
                  analysed |-> analysed, outcomes |-> <<>>, opened |-> opened, sent |-> <<>>]
  OBVIOUS
<1>1. post' = p /\ UNCHANGED memoryVars /\ threads' = threads
  BY DEF Publish
<1>2. RowsOK(rs, head, n) /\ rs \in Seq(Row) /\ n \in Nat /\ DOMAIN jobs = Jobs /\ threads \in Seq(Nat)
  BY DEF ReviewInv, RowsOK
<1>3. /\ row \in Row /\ Stored(fs, n) /\ row.shown <= Len(fs) /\ r \in Nat
  BY <1>2 DEF RowsOK
<1>4. fs \in Seq(Findings) /\ row.sha \in Nat /\ row.shown \in Nat
  BY <1>3 DEF Row
<1>5. items \in Seq(1 .. row.shown)
  <2>1. Offered(r) = 1 .. row.shown
    BY DEF Offered
  <2>2. offer \in Seq(1 .. row.shown)
    <3>1. offer \in [1 .. row.shown -> 1 .. row.shown]
      BY <2>1
    <3> QED
      BY <1>4, <3>1
  <2> QED
    BY <2>2, PickedRows
<1>6. DOMAIN items = 1 .. Len(items) /\ Len(items) \in Nat /\ \A k \in DOMAIN items : items[k] \in DOMAIN fs
  <2>1. \A k \in DOMAIN items : items[k] \in 1 .. row.shown
    <3> PICK S : S = 1 .. row.shown
      OBVIOUS
    <3>1. items \in Seq(S)
      BY <1>5
    <3>2. \A k \in DOMAIN items : items[k] \in S
      BY ONLY <3>1
    <3> QED
      BY <3>2
  <2>2. 1 .. row.shown \subseteq DOMAIN fs
    BY <1>3, <1>4
  <2> QED
    BY <1>5, <2>1, <2>2
<1>7. \A k \in DOMAIN items : fs[items[k]].place \in Place /\ fs[items[k]].id \in Nat
  <2>1. \A i \in DOMAIN fs : fs[i] \in Findings
    BY <1>4
  <2> QED
    BY <1>6, <2>1 DEF Findings
<1>8. /\ places \in Seq(Place) /\ about \in Seq(Nat)
      /\ Len(places) = Len(items) /\ Len(about) = Len(items)
  <2>1. places \in [1 .. Len(items) -> Place] /\ about \in [1 .. Len(items) -> Nat]
    BY <1>6, <1>7
  <2>2. Len(items) \in Nat
    BY <1>6
  <2>3. places \in Seq(Place) /\ Len(places) = Len(items)
    BY ONLY <2>1, <2>2
  <2>4. about \in Seq(Nat) /\ Len(about) = Len(items)
    BY ONLY <2>1, <2>2
  <2> QED
    BY <2>3, <2>4
<1>9. snapshot \in Seq(Findings) /\ Stored(snapshot, n)
  <2>1. Stored(<<>>, n)
    BY DEF Stored, Distinct, Apart
  <2> QED
    BY <1>3, <1>4, <2>1
<1>10. Matched(matches, snapshot, Len(places))
  <2>1. Len(places) \in Nat
    BY <1>8
  <2> QED
    BY <1>9, <2>1, MatchesAre
<1>11. matches \in Seq(Nat)
  <2>1. Len(snapshot) \in Nat /\ matches \in Seq(0 .. Len(snapshot))
    BY <1>9, <1>10 DEF Matched
  <2>2. \A k \in 1 .. Len(matches) : matches[k] \in Nat
    BY <2>1
  <2> QED
    BY <2>1, <2>2
<1>12. analysed \in Nat /\ opened \in [Place -> Nat]
  BY <1>4 DEF NoThread
<1>13. p \in Batch
  BY <1>3, <1>8, <1>9, <1>11, <1>12 DEF Batch
<1>14. /\ p.pc = "checking" /\ p.run = r /\ p.about = about /\ p.places = places
       /\ p.snapshot = snapshot /\ p.matches = matches /\ p.outcomes = <<>>
  OBVIOUS
<1>15. OutcomesOK(p, n)
  BY <1>14 DEF OutcomesOK
<1>16. rs[r].live => RowsOfBatch(p, rs[r].findings)
  <2> SUFFICES ASSUME row.live PROVE RowsOfBatch(p, fs)
    OBVIOUS
  <2>1. snapshot = fs
    OBVIOUS
  <2> QED
    BY <1>14, <2>1, SameRowsIsReflexive DEF RowsOfBatch
<1>17. Len(p.outcomes) <= Len(p.places)
  BY <1>8, <1>14
<1>18. PostOK(p, rs, n)
  BY <1>8, <1>9, <1>10, <1>13, <1>14, <1>15, <1>16, <1>17 DEF PostOK
<1>19. UNCHANGED <<runs, head, touched, jobs, last>>
  BY <1>1 DEF memoryVars
<1>20. PostOK(post', runs, Len(threads)) /\ Len(threads) <= Len(threads)
  BY <1>1, <1>2, <1>18
<1>21. DOMAIN jobs' = Jobs
  BY <1>2, <1>19
<1> QED
  BY <1>1, <1>2, <1>19, <1>20, <1>21, BatchMoves

-----------------------------------------------------------------------------
(* The theorems. *)

LEMMA ReviewStep == ReviewInv /\ [Next]_vars => ReviewInv'
<1> SUFFICES ASSUME ReviewInv, [Next]_vars PROVE ReviewInv'
  OBVIOUS
<1>1. CASE MemoryNext /\ UNCHANGED postVars
  BY <1>1, MemoryStep
<1>2. CASE PostNext
  <2>1. ASSUME NEW r \in DOMAIN runs, NEW chosen \in SUBSET Offered(r), NEW anchored \in BOOLEAN,
               NEW summary \in BOOLEAN, Publish(r, chosen, anchored, summary)
        PROVE  ReviewInv'
    BY <2>1, PublishStep
  <2>2. ASSUME NEW seen \in {head, 0}, EnsureUnchanged(seen) PROVE ReviewInv'
    BY <2>2, EnsureUnchangedStep
  <2>3. ASSUME NEW lands \in BOOLEAN, PostSummary(lands) PROVE ReviewInv'
    BY <2>3, PostSummaryStep
  <2>4. ASSUME NEW answered \in BOOLEAN, OpenThread(answered) PROVE ReviewInv'
    BY <2>4, OpenThreadStep
  <2>5. CASE Reply
    BY <2>5, ReplyStep
  <2>6. CASE ItemFails
    BY <2>6, ItemFailsStep
  <2>7. CASE ItemsDone
    BY <2>7, ItemsDoneStep
  <2>8. CASE SetFindings
    BY <2>8, SetFindingsStep
  <2>9. CASE Die
    BY <2>9, DieStep
  <2> QED
    BY <1>2, <2>1, <2>2, <2>3, <2>4, <2>5, <2>6, <2>7, <2>8, <2>9 DEF PostNext
<1>3. CASE UNCHANGED vars
  <2>1. UNCHANGED <<runs, head, touched, jobs, last, threads, post>>
    BY <1>3 DEF vars, memoryVars, postVars
  <2>2. threads \in Seq(Nat) /\ DOMAIN jobs = Jobs /\ PostOK(post, runs, Len(threads))
    BY DEF ReviewInv
  <2>3. Len(threads) \in Nat
    BY <2>2
  <2>4. Len(threads) <= Len(threads) /\ PostOK(post', runs, Len(threads))
    BY <2>1, <2>2, <2>3
  <2> QED
    BY <2>1, <2>2, <2>4, BatchMoves
<1> QED
  BY <1>1, <1>2, <1>3 DEF Next

LEMMA ReviewInvariant == Numbered /\ Spec => []ReviewInv
<1>1. Numbered /\ PInit => ReviewInv
  BY ReviewInitially
<1> QED
  BY <1>1, ReviewStep, PTL DEF Spec

(***************************************************************************)
(* The numbers of a stored run are distinct, whatever the place of its     *)
(* findings (Reconcile, ReviewMemory.cs:251-382), provided the model numbers its      *)
(* answer 1, 2, ...: a first review is stored with the model's own         *)
(* numbers.                                                                *)
(***************************************************************************)
THEOREM IdsAreAlwaysDistinct == Numbered /\ Spec => []IdsAreDistinct
<1>1. ReviewInv => IdsAreDistinct
  <2> SUFFICES ASSUME ReviewInv, NEW r \in DOMAIN runs PROVE Distinct(runs[r].findings)
    BY DEF IdsAreDistinct, Distinct
  <2> QED
    BY DEF ReviewInv, RowsOK, Stored
<1> QED
  BY <1>1, ReviewInvariant, PTL

(***************************************************************************)
(* A re-review of any two lists forgets nothing of the run it continued    *)
(* (Reconcile, ReviewMemory.cs:251-382).                                   *)
(***************************************************************************)
THEOREM MemoryIsAlwaysCarried == Numbered /\ Spec => []MemoryIsCarried
<1>1. ReviewInv => MemoryIsCarried
  <2> SUFFICES ASSUME ReviewInv, last.kind = "delta"
               PROVE  \A f \in ToSet(last.prev) : \E g \in ToSet(last.merged) :
                        /\ g.id = f.id /\ g.place = f.place /\ g.thread = f.thread
                        /\ g.estado = f.estado \/ (IsActive(f) /\ g.estado = "resuelto")
    BY DEF MemoryIsCarried
  <2>1. Reconciled(last.prev, last.found, last.level, last.changed, last.merged)
    BY DEF ReviewInv, DeltaOK
  <2> QED
    BY <2>1, NothingIsForgotten
<1> QED
  BY <1>1, ReviewInvariant, PTL

(***************************************************************************)
(* A finding filed as new has an unused number, is open and has no thread  *)
(* (Reconcile, ReviewMemory.cs:251-382).                                   *)
(***************************************************************************)
THEOREM ReappearingAlwaysStartsOver == Numbered /\ Spec => []ReappearingStartsOver
<1>1. ReviewInv => ReappearingStartsOver
  <2> SUFFICES ASSUME ReviewInv, last.kind = "delta", NEW i \in DOMAIN last.merged,
                      last.merged[i].id \notin Ids(last.prev)
               PROVE  /\ i <= Len(last.found)
                      /\ last.merged[i].estado = "abierto" /\ last.merged[i].thread = NoThread
                      /\ \A n \in Ids(last.prev) \cup Ids(last.found) : last.merged[i].id > n
    BY DEF ReappearingStartsOver
  <2>1. /\ Reconciled(last.prev, last.found, last.level, last.changed, last.merged)
        /\ last.prev \in Seq(Findings) /\ last.found \in Seq(Report)
    BY DEF ReviewInv, DeltaOK
  <2> QED
    BY <2>1, NewRowsStartOver
<1> QED
  BY <1>1, ReviewInvariant, PTL

(***************************************************************************)
(* Of the open rows of a place, as many stay as the answer restates        *)
(* (ClaimPrevious, ReviewMemory.cs:549-587).                               *)
(***************************************************************************)
THEOREM RestatedIsNeverRefiled == Numbered /\ Spec => []RestatedIsNotRefiled
<1>1. ReviewInv => RestatedIsNotRefiled
  <2> SUFFICES ASSUME ReviewInv, last.kind = "delta", NEW p \in Place
               PROVE  Cardinality(OpenIds(last.merged, p) \cap OpenIds(last.prev, p))
                        >= Min({Cardinality({i \in DOMAIN last.found : last.found[i].place = p}),
                                Cardinality(OpenIds(last.prev, p))})
    BY DEF RestatedIsNotRefiled, OpenIds
  <2>1. /\ Reconciled(last.prev, last.found, last.level, last.changed, last.merged)
        /\ last.prev \in Seq(Findings) /\ last.found \in Seq(Report) /\ Distinct(last.prev)
    BY DEF ReviewInv, DeltaOK
  <2>2. Cardinality(OpenIds(last.merged, p) \cap OpenIds(last.prev, p))
          >= Min({Cardinality(Restating(last.found, Len(last.found), p)),
                  Cardinality(OpenIds(last.prev, p))})
    BY <2>1, RestatedStayOpen
  <2>3. Restating(last.found, Len(last.found), p) = {i \in DOMAIN last.found : last.found[i].place = p}
    BY <2>1 DEF Restating
  <2> QED
    BY <2>2, <2>3
<1> QED
  BY <1>1, ReviewInvariant, PTL

(***************************************************************************)
(* A finding that names a file is resolved only if that file moved since   *)
(* the commit of its run, when the comparison with it did not fail: when   *)
(* changedFiles is not null (ReviewRun.cs:137-143; Reconcile,              *)
(* ReviewMemory.cs:342-377).                                               *)
(***************************************************************************)
THEOREM ResolvedAlwaysMeansMoved == Numbered /\ Spec => []ResolvedMeansMoved
<1>1. ReviewInv => ResolvedMeansMoved
  <2> SUFFICES ASSUME ReviewInv, last.kind = "delta", last.base = last.row, last.changed # Unknown,
                      NEW j \in DOMAIN last.prev, Resolved(last.prev[j]),
                      FileOf[last.prev[j].place] # NoFile
               PROVE  FileInChanged(FileOf[last.prev[j].place],
                                    ChangedFilesBetween(runs[last.row].sha, last.at))
    BY DEF ResolvedMeansMoved, ToSet
  <2>1. /\ Reconciled(last.prev, last.found, last.level, last.changed, last.merged)
        /\ last.prev \in Seq(Findings) /\ last.found \in Seq(Report) /\ Distinct(last.prev)
        /\ last.row = 0 => last.prev = <<>>
        /\ last.changed = FilesBetween(touched, ShaOf(runs, last.base), last.at)
    BY DEF ReviewInv, DeltaOK
  <2>2. ShaOf(runs, last.base) = runs[last.row].sha
    BY <2>1 DEF ShaOf
  <2>3. PICK k \in DOMAIN last.merged :
          last.merged[k].id = last.prev[j].id /\ last.merged[k].estado = "resuelto"
    BY DEF Resolved, ToSet
  <2>4. FileTouched(last.prev[j], last.changed)
    BY <2>1, <2>3, ResolvedIsTouched DEF Resolved
  <2>5. last.changed = ChangedFilesBetween(runs[last.row].sha, last.at)
    BY <2>1, <2>2 DEF FilesBetween, ChangedFilesBetween
  <2> QED
    BY <2>4, <2>5 DEF FileTouched
<1> QED
  BY <1>1, ReviewInvariant, PTL

(***************************************************************************)
(* When a batch ends, the threads it opened are on the findings they were  *)
(* opened for (SetFindings, ReviewPosting.cs).                             *)
(***************************************************************************)
THEOREM SuccessIsAlwaysRemembered == Numbered /\ Spec => []SuccessIsRemembered
<1>1. ReviewInv => SuccessIsRemembered
  <2> SUFFICES ASSUME ReviewInv, post.pc = "done", runs[post.run].live,
                      NEW k \in DOMAIN post.outcomes, post.outcomes[k] > 0, post.matches[k] # 0
               PROVE  runs[post.run].findings[post.matches[k]].thread = post.outcomes[k]
    BY DEF SuccessIsRemembered
  <2>1. RowsOfBatch(post, runs[post.run].findings)
    BY DEF ReviewInv, PostOK
  <2> QED
    BY <2>1 DEF RowsOfBatch
<1> QED
  BY <1>1, ReviewInvariant, PTL

(***************************************************************************)
(* Two findings of a run never have one thread (ThreadFor, Applied:        *)
(* ReviewPosting.cs).                                                      *)
(***************************************************************************)
THEOREM ThreadsAreNeverShared == Numbered /\ Spec => []ThreadsAreNotShared
<1>1. ReviewInv => ThreadsAreNotShared
  <2> SUFFICES ASSUME ReviewInv, NEW r \in DOMAIN runs PROVE Apart(runs[r].findings)
    BY DEF ThreadsAreNotShared, Apart, Live
  <2> QED
    BY DEF ReviewInv, RowsOK, Stored
<1> QED
  BY <1>1, ReviewInvariant, PTL

(***************************************************************************)
(* A thread is only opened for a finding whose row has none: what the      *)
(* batch read of the row still stands when the host is called.             *)
(***************************************************************************)
THEOREM ARowNeverGetsASecondThread == Numbered /\ Spec => NoSecondThreadForARow
<1> DEFINE OneThread ==
      threads' # threads /\ runs[post.run].live /\ post.matches[Next1] # 0
        => runs[post.run].findings[post.matches[Next1]].thread = NoThread
<1>1. ReviewInv /\ [Next]_vars => [OneThread]_vars
  <2> SUFFICES ASSUME ReviewInv, [Next]_vars, threads' # threads, runs[post.run].live,
                      post.matches[Next1] # 0
               PROVE  runs[post.run].findings[post.matches[Next1]].thread = NoThread
    OBVIOUS
  <2>1. PICK answered \in BOOLEAN : OpenThread(answered)
    <3>1. ~UNCHANGED vars /\ ~UNCHANGED postVars
      BY DEF vars, postVars
    <3>2. PostNext
      BY <3>1 DEF Next
    <3> QED
      BY <3>2 DEF PostNext, Publish, EnsureUnchanged, PostSummary, Reply, ItemFails, ItemsDone,
                  SetFindings, Die
  <2> PICK p : p = post
    OBVIOUS
  <2> PICK k : k = Next1
    OBVIOUS
  <2> PICK i : i = p.matches[k]
    OBVIOUS
  <2>2. p.pc = "posting" /\ k <= Len(p.places) /\ For(p, k) = NoThread
    BY <2>1 DEF OpenThread
  <2>3. PostOK(p, runs, Len(threads))
    BY DEF ReviewInv
  <2>4. /\ p.snapshot \in Seq(Findings) /\ p.places \in Seq(Place) /\ p.outcomes \in Seq(Int)
        /\ Matched(p.matches, p.snapshot, Len(p.places))
        /\ runs[p.run].live => RowsOfBatch(p, runs[p.run].findings)
    BY <2>2, <2>3, BatchIs
  <2>5. SameRows(runs[p.run].findings, p.snapshot)
    BY <2>2, <2>4 DEF RowsOfBatch
  <2>6. k \in 1 .. Len(p.places)
    <3>1. Len(p.outcomes) \in Nat /\ Len(p.places) \in Nat
      BY <2>4
    <3> QED
      BY <2>2, <3>1 DEF Next1
  <2>7. i \in DOMAIN p.snapshot /\ i > 0
    <3>1. i \in 0 .. Len(p.snapshot) /\ i # 0 /\ Len(p.snapshot) \in Nat
      BY <2>4, <2>6 DEF Matched
    <3> QED
      BY <2>4, <3>1
  <2>8. p.snapshot[i].thread = NoThread
    BY <2>2, <2>7 DEF For
  <2> QED
    BY <2>5, <2>7, <2>8 DEF SameRows
<1> QED
  BY <1>1, ReviewInvariant, PTL DEF Spec, NoSecondThreadForARow
==============================================================================
