---------------------------- MODULE PanelsProofs -----------------------------
(***************************************************************************)
(* The panels: the list of jobs, the conversation, the editor.             *)
(*                                                                         *)
(* Jobs: what runs or has ended is listed until the renderer is told, and  *)
(* an entry leaves the list only by filtering; JobsInv adds who knows of a *)
(* job.                                                                    *)
(*                                                                         *)
(* Conversations: a row of the log keeps the conversation and the session  *)
(* its turn ended with, and what is opened is all the rows of one          *)
(* conversation.                                                           *)
(*                                                                         *)
(* Editor: what a read or a write brings back was on disk when it was      *)
(* answered, and nothing else makes a tab clean. The panes are a row of    *)
(* strips, no file twice on one, none empty beside others; every step      *)
(* keeps it a row, and what it takes off the last strip it closes. A close *)
(* confirmed too late may leave a tab without its file: the other half,    *)
(* that an open file is on a strip, goes on by itself (InStep).            *)
(***************************************************************************)
EXTENDS Jobs, Conversations, Editor, ListsProofs

------------------------------------------------------------------------------
(* Of Jobs.                                                                *)

Job == [id : JobIds, status : JobStatuses]
Apart(list) == \A i, k \in 1 .. Len(list) : list[i].id = list[k].id => i = k
Known(j) == j \in StoredJobs \/ tasks[j] # "none"
Ended == {"done", "error", "cancelled"}

\* A job that runs or has ended is listed until the renderer is told, unless it was
\* taken off; what is filed and not decided is listed or in the answer on its way.
JobsInv ==
  /\ jobs \in Seq(Job) /\ Apart(jobs)
  /\ filed \subseteq JobIds /\ IsFiniteSet(filed) /\ tasks \in [JobIds -> JobStatuses \cup {"none", "told", "decided"}]
  /\ \A read \in reading : read.filed \subseteq JobIds /\ IsFiniteSet(read.filed)
  /\ \A read \in reading : \A j \in read.filed : Known(j)
  /\ removing \subseteq dropped /\ dropped \subseteq JobIds
  /\ \A j \in filed \cup Ids(jobs) : Known(j)
  /\ \A i \in DOMAIN jobs : jobs[i].status = "running" => tasks[jobs[i].id] # "told"
  /\ \A j \in JobIds : tasks[j] \in {"running"} \cup Ended => j \in Ids(jobs) \cup dropped
  /\ hydrated /\ ~missed => \A j \in filed \ dropped :
       tasks[j] # "decided" => j \in Ids(jobs) \/ \E read \in reading : j \in read.filed

LEMMA ListedIds ==
  ASSUME NEW list \in Seq(Job)
  PROVE  /\ Ids(list) \subseteq JobIds
         /\ \A j : j \in Ids(list) <=> \E i \in 1 .. Len(list) : list[i].id = j
<1>1. \A i \in 1 .. Len(list) : list[i].id \in JobIds
  <2>1. \A i \in 1 .. Len(list) : list[i] \in Job
    OBVIOUS
  <2> QED
    BY <2>1 DEF Job
<1>2. DOMAIN list = 1 .. Len(list)
  OBVIOUS
<1>3. Ids(list) = {list[i].id : i \in 1 .. Len(list)}
  BY <1>2 DEF Ids
<1> QED
  BY <1>1, <1>3

\* Array.filter keeps the others, and those only.
LEMMA OffTheList ==
  ASSUME NEW list \in Seq(Job), NEW id
  PROVE  /\ OffList(list, id) \in Seq(Job)
         /\ Ids(OffList(list, id)) = Ids(list) \ {id}
         /\ \A k \in 1 .. Len(OffList(list, id)) : \E i \in 1 .. Len(list) : OffList(list, id)[k] = list[i]
         /\ Apart(list) => Apart(OffList(list, id))
<1> DEFINE S == {j \in ToSet(list) : j.id # id}
           r == OffList(list, id)
<1>1. r \in Seq(Job) /\ \E m : PicksAre(list, S, r, m, Len(list))
  BY PickedPlaces DEF OffList
<1>2. PICK m : PicksAre(list, S, r, m, Len(list))
  BY <1>1
<1>3. Len(list) \in Nat /\ Len(r) \in Nat
  BY <1>1
<1>4. \A i \in 1 .. Len(list) : list[i] \in S <=> list[i].id # id
  BY DEF ToSet
<1> HIDE DEF r, S
<1>5. \A k \in 1 .. Len(r) : m[k] \in 1 .. Len(list) /\ r[k] = list[m[k]] /\ r[k].id # id
  BY <1>2, <1>4 DEF PicksAre
<1>6. \A i \in 1 .. Len(list) : list[i].id # id => \E k \in 1 .. Len(r) : r[k] = list[i]
  BY <1>2, <1>4 DEF PicksAre
<1>7. Ids(r) = Ids(list) \ {id}
  <2>1. \A j : j \in Ids(r) <=> \E k \in 1 .. Len(r) : r[k].id = j
    BY <1>1, ListedIds
  <2>2. \A j : j \in Ids(list) <=> \E i \in 1 .. Len(list) : list[i].id = j
    BY ListedIds
  <2>3. ASSUME NEW j \in Ids(r) PROVE j \in Ids(list) \ {id}
    BY <2>1, <2>2, <2>3, <1>5
  <2>4. ASSUME NEW j \in Ids(list) \ {id} PROVE j \in Ids(r)
    <3>1. PICK i \in 1 .. Len(list) : list[i].id = j
      BY <2>2, <2>4
    <3>2. PICK k \in 1 .. Len(r) : r[k] = list[i]
      BY <3>1, <2>4, <1>6
    <3> QED
      BY <3>1, <3>2, <2>1
  <2> QED
    BY <2>3, <2>4
<1>8. Apart(list) => Apart(r)
  <2> SUFFICES ASSUME Apart(list), NEW j \in 1 .. Len(r), NEW k \in 1 .. Len(r), r[j].id = r[k].id
               PROVE  j = k
    BY DEF Apart
  <2>1. m[j] = m[k]
    BY <1>5 DEF Apart
  <2>2. m[j] \in Int /\ ~(j < k) /\ ~(k < j)
    BY <2>1, <1>2, <1>5 DEF PicksAre
  <2> QED
    BY <2>2, <1>3
<1> QED
  BY <1>1, <1>5, <1>7, <1>8 DEF r

\* No list is longer than what it tells apart.
LEMMA ListedOnce ==
  ASSUME NEW list \in Seq(Job), Apart(list)
  PROVE  Cardinality(Ids(list)) = Len(list)
<1> DEFINE N == 1 .. Len(list)
           f == [i \in N |-> list[i].id]
<1>1. Len(list) \in Nat /\ IsFiniteSet(N) /\ Cardinality(N) = Len(list)
  <2>1. Len(list) \in Nat /\ 1 \in Int /\ Len(list) \in Int
    OBVIOUS
  <2>2. IsFiniteSet(N) /\ Cardinality(N) = IF 1 > Len(list) THEN 0 ELSE Len(list) - 1 + 1
    BY <2>1, FS_Interval
  <2> QED
    BY <2>1, <2>2
<1>2. f \in Bijection(N, Ids(list))
  <2>1. f \in [N -> Ids(list)]
    BY ListedIds
  <2>2. \A a, b \in N : f[a] = f[b] => a = b
    BY DEF Apart
  <2>3. \A j \in Ids(list) : \E i \in N : f[i] = j
    BY ListedIds
  <2> HIDE DEF f, N
  <2> QED
    BY <2>1, <2>2, <2>3 DEF Bijection, Injection, Surjection, IsInjective
<1> HIDE DEF f, N
<1>3. ExistsBijection(N, Ids(list))
  BY <1>2 DEF ExistsBijection
<1> QED
  BY <1>1, <1>3, FS_Bijection

LEMMA JobsAtFirst == JobsInit => JobsInv
<1> SUFFICES ASSUME JobsInit PROVE JobsInv
  OBVIOUS
<1>1. jobs \in Seq(Job) /\ Apart(jobs) /\ Ids(jobs) = {} /\ DOMAIN jobs = {}
  BY DEF JobsInit, Apart, Ids
<1> QED
  BY <1>1, JobsConstants DEF JobsInit, JobsInv, Known, Ended

LEMMA ListsJoined ==
  ASSUME NEW top \in Seq(Job), NEW rest \in Seq(Job),
         Apart(top), Apart(rest), Ids(top) \cap Ids(rest) = {}
  PROVE  /\ top \o rest \in Seq(Job) /\ Apart(top \o rest) /\ Ids(top \o rest) = Ids(top) \cup Ids(rest)
         /\ \A k \in 1 .. Len(top \o rest) : \/ \E i \in 1 .. Len(top) : (top \o rest)[k] = top[i]
                                             \/ \E i \in 1 .. Len(rest) : (top \o rest)[k] = rest[i]
<1> DEFINE r == top \o rest
<1>1. /\ r \in Seq(Job) /\ Len(r) = Len(top) + Len(rest)
      /\ \A k \in 1 .. Len(top) + Len(rest) : r[k] = IF k <= Len(top) THEN top[k] ELSE rest[k - Len(top)]
  BY ConcatProperties
<1>2. Len(top) \in Nat /\ Len(rest) \in Nat
  OBVIOUS
<1> HIDE DEF r
<1>3. \A k \in 1 .. Len(top) : r[k] = top[k]
  BY <1>1, <1>2
<1>4. \A k \in 1 .. Len(rest) : r[Len(top) + k] = rest[k]
  BY <1>1, <1>2
<1>5. \A k \in 1 .. Len(r) : k \in 1 .. Len(top) \/ k - Len(top) \in 1 .. Len(rest)
  BY <1>1, <1>2
<1>6. \A k \in 1 .. Len(r) : \/ \E i \in 1 .. Len(top) : r[k] = top[i]
                             \/ \E i \in 1 .. Len(rest) : r[k] = rest[i]
  <2> SUFFICES ASSUME NEW k \in 1 .. Len(r)
               PROVE  \/ \E i \in 1 .. Len(top) : r[k] = top[i]
                      \/ \E i \in 1 .. Len(rest) : r[k] = rest[i]
    OBVIOUS
  <2>1. CASE k \in 1 .. Len(top)
    BY <2>1, <1>3
  <2>2. CASE k - Len(top) \in 1 .. Len(rest)
    BY <2>2, <1>1, <1>2
  <2> QED
    BY <2>1, <2>2, <1>5
<1>7. /\ \A j : j \in Ids(top) <=> \E i \in 1 .. Len(top) : top[i].id = j
      /\ \A j : j \in Ids(rest) <=> \E i \in 1 .. Len(rest) : rest[i].id = j
      /\ \A j : j \in Ids(r) <=> \E i \in 1 .. Len(r) : r[i].id = j
  BY <1>1, ListedIds
<1>8. Ids(r) = Ids(top) \cup Ids(rest)
  <2>1. ASSUME NEW j \in Ids(r) PROVE j \in Ids(top) \cup Ids(rest)
    BY <1>6, <1>7, <2>1
  <2>2. ASSUME NEW j \in Ids(top) PROVE j \in Ids(r)
    <3>1. PICK i \in 1 .. Len(top) : top[i].id = j
      BY <1>7, <2>2
    <3>2. i \in 1 .. Len(r) /\ r[i] = top[i]
      BY <1>1, <1>2, <1>3
    <3> QED
      BY <3>1, <3>2, <1>7
  <2>3. ASSUME NEW j \in Ids(rest) PROVE j \in Ids(r)
    <3>1. PICK i \in 1 .. Len(rest) : rest[i].id = j
      BY <1>7, <2>3
    <3>2. Len(top) + i \in 1 .. Len(r) /\ r[Len(top) + i] = rest[i]
      BY <1>1, <1>2, <1>4
    <3> QED
      BY <3>1, <3>2, <1>7
  <2> QED
    BY <2>1, <2>2, <2>3
<1>9. Apart(r)
  <2> SUFFICES ASSUME NEW j \in 1 .. Len(r), NEW k \in 1 .. Len(r), r[j].id = r[k].id
               PROVE  j = k
    BY DEF Apart
  <2>1. CASE j \in 1 .. Len(top) /\ k \in 1 .. Len(top)
    BY <2>1, <1>3 DEF Apart
  <2>2. CASE j - Len(top) \in 1 .. Len(rest) /\ k - Len(top) \in 1 .. Len(rest)
    <3>1. r[j] = rest[j - Len(top)] /\ r[k] = rest[k - Len(top)]
      BY <2>2, <1>1, <1>2
    <3>2. j - Len(top) = k - Len(top)
      BY <2>2, <3>1 DEF Apart
    <3> QED
      BY <3>2, <1>2
  <2>3. ASSUME NEW a \in 1 .. Len(top), NEW b \in 1 .. Len(r), b - Len(top) \in 1 .. Len(rest), r[a].id = r[b].id
        PROVE  FALSE
    <3>1. r[a].id \in Ids(top)
      BY <2>3, <1>3, <1>7
    <3>2. r[b] = rest[b - Len(top)]
      BY <2>3, <1>1, <1>2
    <3>3. r[b].id \in Ids(rest)
      BY <2>3, <3>2, <1>7
    <3> QED
      BY <2>3, <3>1, <3>3
  <2> QED
    BY <2>1, <2>2, <2>3, <1>5
<1> QED
  BY <1>1, <1>6, <1>8, <1>9 DEF r

LEMMA OneJob ==
  ASSUME NEW j \in JobIds, NEW status \in JobStatuses
  PROVE  LET top == <<[id |-> j, status |-> status]>>
         IN  top \in Seq(Job) /\ Apart(top) /\ Ids(top) = {j} /\ Len(top) = 1 /\ top[1].status = status
BY DEF Job, Apart, Ids

\* What is read of the history, one entry for each id.
LEMMA ReadEntries ==
  ASSUME NEW read \in SUBSET JobIds, IsFiniteSet(read)
  PROVE  LET top == SetToSeq({[id |-> j, status |-> "done"] : j \in read})
         IN  /\ top \in Seq(Job) /\ Apart(top) /\ Ids(top) = read
             /\ \A i \in 1 .. Len(top) : top[i].status = "done"
<1> DEFINE R == {[id |-> j, status |-> "done"] : j \in read}
           f == [j \in read |-> [id |-> j, status |-> "done"]]
           top == SetToSeq(R)
<1>1. IsFiniteSet(R)
  <2>1. f \in [read -> R] /\ \A e \in R : \E j \in read : f[j] = e
    OBVIOUS
  <2> HIDE DEF f, R
  <2>2. f \in Surjection(read, R)
    BY <2>1 DEF Surjection
  <2> QED
    BY <2>2, FS_Surjection
<1>2. Cardinality(R) \in Nat /\ \E g : g \in Bijection(1 .. Cardinality(R), R)
  <2> HIDE DEF R
  <2> QED
    BY <1>1, FS_CountingElements, FS_CardinalityType DEF ExistsBijection
<1>3. PICK n \in Nat : n = Cardinality(R)
  BY <1>2
<1>4. top \in [1 .. n -> R] /\ IsInjective(top)
  <2> HIDE DEF R
  <2>1. PICK g : g \in Bijection(1 .. n, R)
    BY <1>2, <1>3
  <2>2. g \in [1 .. n -> R] /\ IsInjective(g)
    BY <2>1 DEF Bijection, Injection
  <2>3. top = CHOOSE h \in [1 .. n -> R] : IsInjective(h)
    BY <1>3 DEF SetToSeq
  <2> QED
    BY <2>2, <2>3
<1>5. \A e \in R : \E i \in 1 .. n : top[i] = e
  <2> HIDE DEF R, top
  <2>1. top \in Injection(1 .. n, R)
    BY <1>4 DEF Injection
  <2>2. IsFiniteSet(1 .. n) /\ Cardinality(1 .. n) = n
    <3>1. n \in Int /\ 1 \in Int
      OBVIOUS
    <3>2. IsFiniteSet(1 .. n) /\ Cardinality(1 .. n) = IF 1 > n THEN 0 ELSE n - 1 + 1
      BY <3>1, FS_Interval
    <3> QED
      BY <3>2
  <2>3. top \in Surjection(1 .. n, R)
    BY <2>1, <2>2, <1>1, <1>3, FS_Injection
  <2> QED
    BY <2>3 DEF Surjection
<1>6. \A e \in R : e \in Job /\ e.status = "done" /\ e.id \in read
  BY DEF Job, JobStatuses
<1>7. \A j \in read : \E e \in R : e.id = j
  <2> SUFFICES ASSUME NEW j \in read PROVE \E e \in R : e.id = j
    OBVIOUS
  <2>1. [id |-> j, status |-> "done"] \in R
    OBVIOUS
  <2> WITNESS [id |-> j, status |-> "done"] \in R
  <2> QED
    OBVIOUS
<1>8. \A d, e \in R : d.id = e.id => d = e
  OBVIOUS
<1> HIDE DEF R, top
<1>9. top \in Seq(Job) /\ Len(top) = n
  BY <1>4, <1>6
<1>10. Apart(top)
  BY <1>4, <1>8, <1>9 DEF Apart, IsInjective
<1>11. \A i \in 1 .. Len(top) : top[i].status = "done" /\ top[i].id \in read
  BY <1>4, <1>6, <1>9
<1>12. \A j \in read : \E i \in 1 .. Len(top) : top[i].id = j
  <2> SUFFICES ASSUME NEW j \in read PROVE \E i \in 1 .. Len(top) : top[i].id = j
    OBVIOUS
  <2>1. PICK e \in R : e.id = j
    BY <1>7
  <2>2. PICK i \in 1 .. n : top[i] = e
    BY <1>5
  <2> QED
    BY <2>1, <2>2, <1>9
<1>13. Ids(top) = read
  <2>1. \A j : j \in Ids(top) <=> \E i \in 1 .. Len(top) : top[i].id = j
    BY <1>9, ListedIds
  <2> QED
    BY <2>1, <1>11, <1>12
<1> QED
  BY <1>9, <1>10, <1>11, <1>13 DEF top, R

\* What of the invariant the list is read for.
LEMMA JobsShown ==
  ASSUME JobsInv
  PROVE  /\ Ids(jobs) \subseteq JobIds
         /\ \A j : j \in Ids(jobs) <=> \E i \in 1 .. Len(jobs) : jobs[i].id = j
         /\ DOMAIN jobs = 1 .. Len(jobs)
         /\ \A i \in 1 .. Len(jobs) : jobs[i] \in Job /\ jobs[i].id \in Ids(jobs)
<1>1. jobs \in Seq(Job)
  BY DEF JobsInv
<1>2. \A i \in 1 .. Len(jobs) : jobs[i] \in Job
  BY <1>1
<1> QED
  BY <1>1, <1>2, ListedIds

LEMMA RunningAJob ==
  ASSUME JobsInv, NEW j \in JobIds, RunJob(j)
  PROVE  JobsInv'
<1> DEFINE top == <<[id |-> j, status |-> "running"]>>
<1>1. /\ j \notin StoredJobs /\ tasks[j] = "none" /\ jobs' = top \o jobs /\ tasks' = [tasks EXCEPT ![j] = "running"]
      /\ UNCHANGED <<filed, reading, removing, hydrated, missed, dropped>>
  BY DEF RunJob, NewIds
<1>2. /\ top \in Seq(Job) /\ Apart(top) /\ Ids(top) = {j} /\ Len(top) = 1 /\ top[1].id = j
  BY OneJob DEF JobStatuses
<1>3. jobs \in Seq(Job) /\ Apart(jobs) /\ j \notin Ids(jobs) /\ j \notin filed
  BY <1>1 DEF JobsInv, Known
<1> HIDE DEF top
<1>4. /\ jobs' \in Seq(Job) /\ Apart(jobs)' /\ Ids(jobs)' = Ids(jobs) \cup {j}
      /\ \A k \in 1 .. Len(jobs') : \/ \E i \in 1 .. Len(top) : jobs'[k] = top[i]
                                    \/ \E i \in 1 .. Len(jobs) : jobs'[k] = jobs[i]
  <2>1. Ids(top) \cap Ids(jobs) = {}
    BY <1>2, <1>3
  <2>2. /\ top \o jobs \in Seq(Job) /\ Apart(top \o jobs) /\ Ids(top \o jobs) = Ids(top) \cup Ids(jobs)
        /\ \A k \in 1 .. Len(top \o jobs) : \/ \E i \in 1 .. Len(top) : (top \o jobs)[k] = top[i]
                                            \/ \E i \in 1 .. Len(jobs) : (top \o jobs)[k] = jobs[i]
    BY <1>2, <1>3, <2>1, ListsJoined
  <2>3. Ids(jobs)' = Ids(top \o jobs) /\ (Apart(jobs)' <=> Apart(top \o jobs))
    BY <1>1, Zenon DEF Apart, Ids
  <2> QED
    BY <1>1, <1>2, <2>2, <2>3
<1>5. \A x \in JobIds : tasks'[x] = IF x = j THEN "running" ELSE tasks[x]
  BY <1>1 DEF JobsInv
<1>6. tasks' \in [JobIds -> JobStatuses \cup {"none", "told", "decided"}]
  BY <1>1 DEF JobsInv, JobStatuses
<1>7. \A i \in DOMAIN jobs' : jobs'[i].status = "running" => tasks'[jobs'[i].id] # "told"
  <2> SUFFICES ASSUME NEW k \in 1 .. Len(jobs'), jobs'[k].status = "running" PROVE tasks'[jobs'[k].id] # "told"
    BY <1>4
  <2>1. CASE \E i \in 1 .. Len(top) : jobs'[k] = top[i]
    BY <2>1, <1>2, <1>5
  <2>2. ASSUME NEW i \in 1 .. Len(jobs), jobs'[k] = jobs[i] PROVE tasks'[jobs'[k].id] # "told"
    <3>1. tasks[jobs[i].id] # "told" /\ jobs[i].id \in JobIds
      BY <2>2, JobsShown DEF JobsInv
    <3> QED
      BY <2>2, <3>1, <1>5
  <2> QED
    BY <2>1, <2>2, <1>4
<1>8. \A x \in JobIds : tasks'[x] \in {"running"} \cup Ended => x \in (Ids(jobs) \cup dropped)'
  BY <1>1, <1>4, <1>5 DEF JobsInv
<1>9. \A x \in (filed \cup Ids(jobs))' : Known(x)'
  BY <1>1, <1>4, <1>5, JobsShown DEF JobsInv, Known
<1>10. \A read \in reading' : \A x \in read.filed : Known(x)'
  BY <1>1, <1>5 DEF JobsInv, Known
<1>11. (hydrated /\ ~missed => \A x \in filed \ dropped :
         tasks[x] # "decided" => x \in Ids(jobs) \/ \E read \in reading : x \in read.filed)'
  BY <1>1, <1>3, <1>4, <1>5 DEF JobsInv
<1> QED
  BY <1>1, <1>4, <1>6, <1>7, <1>8, <1>9, <1>10, <1>11 DEF JobsInv

LEMMA AroundTheList ==
  ASSUME JobsInv, NEW j \in JobIds,
         \/ DecideJob(j) \/ LoadJobs \/ RemoveJob(j) \/ JobEnds(j)
  PROVE  JobsInv'
<1>1. UNCHANGED <<jobs, Ids(jobs), DOMAIN jobs>>
  BY DEF DecideJob, LoadJobs, RemoveJob, JobEnds, Ids
<1>2. jobs' \in Seq(Job) /\ Apart(jobs)'
  BY <1>1 DEF JobsInv, Apart
<1>3. CASE DecideJob(j)
  <2>1. /\ j \notin StoredJobs /\ tasks[j] = "none" /\ filed' = filed \cup {j} /\ tasks' = [tasks EXCEPT ![j] = "decided"]
        /\ UNCHANGED <<reading, removing, hydrated, missed, dropped>>
    BY <1>3 DEF DecideJob, NewIds
  <2>2. IsFiniteSet(filed')
    BY <2>1, FS_AddElement DEF JobsInv
  <2>3. tasks' \in [JobIds -> JobStatuses \cup {"none", "told", "decided"}]
        /\ \A x \in JobIds : tasks'[x] = IF x = j THEN "decided" ELSE tasks[x]
    BY <2>1 DEF JobsInv
  <2>4. \A i \in DOMAIN jobs : jobs[i].id \in JobIds
    BY JobsShown
  <2>5. \A x \in (filed \cup Ids(jobs))' : Known(x)'
    BY <1>1, <2>1, <2>3, JobsShown DEF JobsInv, Known
  <2>6. \A read \in reading' : \A x \in read.filed : Known(x)'
    BY <2>1, <2>3 DEF JobsInv, Known
  <2>7. \A x \in JobIds : tasks'[x] \in {"running"} \cup Ended => x \in (Ids(jobs) \cup dropped)'
    BY <1>1, <2>1, <2>3 DEF JobsInv, Ended
  <2>8. \A i \in DOMAIN jobs' : jobs'[i].status = "running" => tasks'[jobs'[i].id] # "told"
    BY <1>1, <2>3, <2>4 DEF JobsInv
  <2>9. (hydrated /\ ~missed => \A x \in filed \ dropped :
           tasks[x] # "decided" => x \in Ids(jobs) \/ \E read \in reading : x \in read.filed)'
    BY <1>1, <2>1, <2>3 DEF JobsInv
  <2> QED
    BY <1>1, <1>2, <2>1, <2>2, <2>3, <2>5, <2>6, <2>7, <2>8, <2>9 DEF JobsInv
<1>4. CASE LoadJobs
  <2>1. hydrated' = TRUE /\ reading' = {[filed |-> filed]} /\ UNCHANGED <<filed, tasks, removing, missed, dropped>>
    BY <1>4 DEF LoadJobs
  <2>2. \A read \in reading' : read.filed = filed
    BY <2>1
  <2>3. \A x \in filed' : \E read \in reading' : x \in read.filed
    BY <2>1, <2>2
  <2> QED
    BY <1>1, <1>2, <2>1, <2>2, <2>3 DEF JobsInv, Known
<1>5. CASE RemoveJob(j)
  <2>1. /\ filed' \in {filed \ {j}, filed} /\ removing' = removing \cup {j} /\ dropped' = dropped \cup {j}
        /\ UNCHANGED <<tasks, reading, hydrated, missed>>
    BY <1>5 DEF RemoveJob
  <2>2. IsFiniteSet(filed') /\ filed' \subseteq filed
    BY <2>1, FS_RemoveElement DEF JobsInv
  <2> QED
    BY <1>1, <1>2, <2>1, <2>2 DEF JobsInv, Known
<1>6. CASE JobEnds(j)
  <2>1. PICK outcome \in Ended : tasks' = [tasks EXCEPT ![j] = outcome] /\ filed' \in {filed, filed \cup {j}}
    BY <1>6 DEF JobEnds, Ended
  <2>2. tasks[j] = "running" /\ UNCHANGED <<reading, removing, hydrated, missed, dropped>>
    BY <1>6 DEF JobEnds
  <2>3. IsFiniteSet(filed') /\ filed' \subseteq filed \cup {j}
    BY <2>1, FS_AddElement DEF JobsInv
  <2>4. tasks' \in [JobIds -> JobStatuses \cup {"none", "told", "decided"}]
        /\ \A x \in JobIds : tasks'[x] = IF x = j THEN outcome ELSE tasks[x]
    BY <2>1 DEF JobsInv, Ended, JobStatuses
  <2>5. outcome \notin {"told", "none", "decided"} /\ j \in Ids(jobs) \cup dropped
    BY <2>1, <2>2 DEF JobsInv, Ended
  <2>6. \A i \in DOMAIN jobs : jobs[i].id \in JobIds
    BY JobsShown
  <2>7. \A x \in (filed \cup Ids(jobs))' : Known(x)'
    BY <1>1, <2>3, <2>4, <2>5, JobsShown DEF JobsInv, Known
  <2>8. \A read \in reading' : \A x \in read.filed : Known(x)'
    BY <2>2, <2>4, <2>5 DEF JobsInv, Known
  <2>9. \A x \in JobIds : tasks'[x] \in {"running"} \cup Ended => x \in (Ids(jobs) \cup dropped)'
    BY <1>1, <2>2, <2>4, <2>5 DEF JobsInv
  <2>10. \A i \in DOMAIN jobs' : jobs'[i].status = "running" => tasks'[jobs'[i].id] # "told"
    BY <1>1, <2>4, <2>5, <2>6 DEF JobsInv
  <2>11. (hydrated /\ ~missed => \A x \in filed \ dropped :
           tasks[x] # "decided" => x \in Ids(jobs) \/ \E read \in reading : x \in read.filed)'
    BY <1>1, <2>2, <2>3, <2>4, <2>5 DEF JobsInv
  <2> QED
    BY <1>1, <1>2, <2>2, <2>3, <2>4, <2>7, <2>8, <2>9, <2>10, <2>11 DEF JobsInv
<1> QED
  BY <1>3, <1>4, <1>5, <1>6

LEMMA RecordingAJob ==
  ASSUME JobsInv, NEW j \in JobIds, RecordJob(j)
  PROVE  JobsInv'
<1> DEFINE top == <<[id |-> j, status |-> "done"]>>
           rest == OffList(jobs, j)
<1>1. /\ tasks[j] = "decided" /\ jobs' = top \o rest /\ tasks' = [tasks EXCEPT ![j] = "told"]
      /\ UNCHANGED <<filed, reading, removing, hydrated, missed, dropped>>
  BY DEF RecordJob
<1>2. top \in Seq(Job) /\ Apart(top) /\ Ids(top) = {j} /\ Len(top) = 1 /\ top[1].status = "done"
  BY OneJob DEF JobStatuses
<1>3. /\ rest \in Seq(Job) /\ Apart(rest) /\ Ids(rest) = Ids(jobs) \ {j}
      /\ \A k \in 1 .. Len(rest) : \E i \in 1 .. Len(jobs) : rest[k] = jobs[i]
  BY OffTheList DEF JobsInv
<1> HIDE DEF top, rest
<1>4. /\ jobs' \in Seq(Job) /\ Apart(jobs)' /\ Ids(jobs)' = Ids(jobs) \cup {j}
      /\ \A k \in 1 .. Len(jobs') : \/ \E i \in 1 .. Len(top) : jobs'[k] = top[i]
                                    \/ \E i \in 1 .. Len(rest) : jobs'[k] = rest[i]
  <2>1. Ids(top) \cap Ids(rest) = {}
    BY <1>2, <1>3
  <2>2. /\ top \o rest \in Seq(Job) /\ Apart(top \o rest) /\ Ids(top \o rest) = Ids(top) \cup Ids(rest)
        /\ \A k \in 1 .. Len(top \o rest) : \/ \E i \in 1 .. Len(top) : (top \o rest)[k] = top[i]
                                            \/ \E i \in 1 .. Len(rest) : (top \o rest)[k] = rest[i]
    BY <1>2, <1>3, <2>1, ListsJoined
  <2>3. Ids(jobs)' = Ids(top \o rest) /\ (Apart(jobs)' <=> Apart(top \o rest))
    BY <1>1, Zenon DEF Apart, Ids
  <2> QED
    BY <1>1, <1>2, <1>3, <2>2, <2>3
<1>5. \A x \in JobIds : tasks'[x] = IF x = j THEN "told" ELSE tasks[x]
  BY <1>1 DEF JobsInv
<1>6. tasks' \in [JobIds -> JobStatuses \cup {"none", "told", "decided"}]
  BY <1>1 DEF JobsInv
<1>7. \A i \in DOMAIN jobs' : jobs'[i].status = "running" => tasks'[jobs'[i].id] # "told"
  <2> SUFFICES ASSUME NEW k \in 1 .. Len(jobs'), jobs'[k].status = "running" PROVE tasks'[jobs'[k].id] # "told"
    BY <1>4
  <2>1. CASE \E i \in 1 .. Len(top) : jobs'[k] = top[i]
    BY <2>1, <1>2
  <2>2. ASSUME NEW i \in 1 .. Len(rest), jobs'[k] = rest[i] PROVE tasks'[jobs'[k].id] # "told"
    <3>1. PICK n \in 1 .. Len(jobs) : rest[i] = jobs[n]
      BY <1>3
    <3>2. tasks[jobs[n].id] # "told" /\ jobs[n].id \in JobIds
      BY <2>2, <3>1, JobsShown DEF JobsInv
    <3>3. rest[i].id \in Ids(rest)
      BY <1>3, ListedIds
    <3> QED
      BY <2>2, <3>1, <3>2, <3>3, <1>3, <1>5
  <2> QED
    BY <2>1, <2>2, <1>4
<1>8. \A x \in JobIds : tasks'[x] \in {"running"} \cup Ended => x \in (Ids(jobs) \cup dropped)'
  BY <1>1, <1>4, <1>5 DEF JobsInv
<1>9. \A x \in (filed \cup Ids(jobs))' : Known(x)'
  BY <1>1, <1>4, <1>5, JobsShown DEF JobsInv, Known
<1>10. \A read \in reading' : \A x \in read.filed : Known(x)'
  BY <1>1, <1>5 DEF JobsInv, Known
<1>11. (hydrated /\ ~missed => \A x \in filed \ dropped :
         tasks[x] # "decided" => x \in Ids(jobs) \/ \E read \in reading : x \in read.filed)'
  BY <1>1, <1>3, <1>4, <1>5 DEF JobsInv
<1> QED
  BY <1>1, <1>4, <1>6, <1>7, <1>8, <1>9, <1>10, <1>11 DEF JobsInv

LEMMA SettlingAJob ==
  ASSUME JobsInv, NEW j \in JobIds, SettleJob(j)
  PROVE  JobsInv'
<1> DEFINE settled(i) == IF jobs[i].id = j THEN [jobs[i] EXCEPT !.status = tasks[j]] ELSE jobs[i]
<1>1. /\ tasks[j] \in Ended /\ jobs' = [i \in DOMAIN jobs |-> settled(i)] /\ tasks' = [tasks EXCEPT ![j] = "told"]
      /\ UNCHANGED <<filed, reading, removing, hydrated, missed, dropped>>
  BY DEF SettleJob, Ended
<1>2. \A i \in 1 .. Len(jobs) : /\ settled(i) \in Job /\ settled(i).id = jobs[i].id
                                /\ settled(i).status = IF jobs[i].id = j THEN tasks[j] ELSE jobs[i].status
  <2> SUFFICES ASSUME NEW i \in 1 .. Len(jobs)
               PROVE  /\ settled(i) \in Job /\ settled(i).id = jobs[i].id
                      /\ settled(i).status = IF jobs[i].id = j THEN tasks[j] ELSE jobs[i].status
    OBVIOUS
  <2>1. jobs[i] \in Job /\ tasks[j] \in JobStatuses
    BY <1>1, JobsShown DEF Ended, JobStatuses
  <2> QED
    BY <2>1 DEF Job
<1> HIDE DEF settled
<1>3. DOMAIN jobs = 1 .. Len(jobs) /\ Len(jobs) \in Nat /\ Apart(jobs)
  BY JobsShown DEF JobsInv
<1>4. jobs' \in Seq(Job) /\ Len(jobs') = Len(jobs) /\ \A i \in 1 .. Len(jobs) : jobs'[i] = settled(i)
  BY <1>1, <1>2, <1>3
<1>5. Apart(jobs)'
  BY <1>2, <1>3, <1>4 DEF Apart
<1>6. Ids(jobs)' = Ids(jobs)
  <2>1. \A x : x \in Ids(jobs) <=> \E i \in 1 .. Len(jobs) : jobs[i].id = x
    BY JobsShown
  <2>2. \A x : x \in Ids(jobs') <=> \E i \in 1 .. Len(jobs') : jobs'[i].id = x
    BY <1>4, ListedIds
  <2>3. \A i \in 1 .. Len(jobs) : jobs'[i].id = jobs[i].id
    BY <1>2, <1>4
  <2>4. \A x : x \in Ids(jobs') <=> x \in Ids(jobs)
    BY <2>1, <2>2, <2>3, <1>4
  <2>5. Ids(jobs') = Ids(jobs)
    BY <2>4
  <2> QED
    BY <2>5 DEF Ids
<1>7. \A x \in JobIds : tasks'[x] = IF x = j THEN "told" ELSE tasks[x]
  BY <1>1 DEF JobsInv
<1>8. tasks' \in [JobIds -> JobStatuses \cup {"none", "told", "decided"}]
  BY <1>1 DEF JobsInv
<1>9. \A i \in DOMAIN jobs' : jobs'[i].status = "running" => tasks'[jobs'[i].id] # "told"
  <2> SUFFICES ASSUME NEW i \in 1 .. Len(jobs), jobs'[i].status = "running" PROVE tasks'[jobs'[i].id] # "told"
    BY <1>4
  <2>1. jobs[i].id # j /\ jobs[i].status = "running"
    BY <1>1, <1>2, <1>4 DEF Ended
  <2> QED
    BY <2>1, <1>2, <1>3, <1>4, <1>7, JobsShown DEF JobsInv
<1>10. \A x \in JobIds : tasks'[x] \in {"running"} \cup Ended => x \in (Ids(jobs) \cup dropped)'
  BY <1>1, <1>6, <1>7 DEF JobsInv, Ended
<1>11. \A x \in (filed \cup Ids(jobs))' : Known(x)'
  BY <1>1, <1>6, <1>7, JobsShown DEF JobsInv, Known
<1>12. \A read \in reading' : \A x \in read.filed : Known(x)'
  BY <1>1, <1>7 DEF JobsInv, Known
<1>13. tasks[j] # "decided" /\ j \in Ids(jobs) \cup dropped
  BY <1>1 DEF JobsInv, Ended
<1>14. (hydrated /\ ~missed => \A x \in filed \ dropped :
         tasks[x] # "decided" => x \in Ids(jobs) \/ \E read \in reading : x \in read.filed)'
  BY <1>1, <1>6, <1>7, <1>13 DEF JobsInv
<1> QED
  BY <1>1, <1>4, <1>5, <1>8, <1>9, <1>10, <1>11, <1>12, <1>14 DEF JobsInv

LEMMA ReadingTheHistory ==
  ASSUME JobsInv, NEW read \in reading, JobsRead(read)
  PROVE  JobsInv'
<1>1. reading' = reading \ {read} /\ UNCHANGED <<filed, tasks, removing, hydrated, dropped>>
  BY DEF JobsRead
<1>2. CASE missed' = TRUE /\ UNCHANGED jobs
  <2>1. UNCHANGED <<jobs, Ids(jobs), DOMAIN jobs>>
    BY <1>2 DEF Ids
  <2> QED
    BY <1>1, <1>2, <2>1 DEF JobsInv, Apart, Known
<1>3. CASE ~(missed' = TRUE /\ UNCHANGED jobs)
  <2> DEFINE fresh == read.filed \ Ids(jobs)
             top == SetToSeq({[id |-> j, status |-> "done"] : j \in fresh})
  <2>1. jobs' = top \o jobs /\ UNCHANGED missed
    BY <1>3 DEF JobsRead
  <2>2. fresh \in SUBSET JobIds /\ IsFiniteSet(fresh)
    BY FS_Difference DEF JobsInv
  <2>3. /\ top \in Seq(Job) /\ Apart(top) /\ Ids(top) = fresh
        /\ \A i \in 1 .. Len(top) : top[i].status = "done"
    BY <2>2, ReadEntries
  <2>4. jobs \in Seq(Job) /\ Apart(jobs) /\ Ids(top) \cap Ids(jobs) = {}
    BY <2>3 DEF JobsInv
  <2> HIDE DEF top
  <2>5. /\ jobs' \in Seq(Job) /\ Apart(jobs)' /\ Ids(jobs)' = Ids(jobs) \cup read.filed
        /\ \A k \in 1 .. Len(jobs') : \/ \E i \in 1 .. Len(top) : jobs'[k] = top[i]
                                      \/ \E i \in 1 .. Len(jobs) : jobs'[k] = jobs[i]
    <3>1. /\ top \o jobs \in Seq(Job) /\ Apart(top \o jobs) /\ Ids(top \o jobs) = Ids(top) \cup Ids(jobs)
          /\ \A k \in 1 .. Len(top \o jobs) : \/ \E i \in 1 .. Len(top) : (top \o jobs)[k] = top[i]
                                              \/ \E i \in 1 .. Len(jobs) : (top \o jobs)[k] = jobs[i]
      BY <2>3, <2>4, ListsJoined
    <3>2. Ids(jobs)' = Ids(top \o jobs) /\ (Apart(jobs)' <=> Apart(top \o jobs))
      BY <2>1, Zenon DEF Apart, Ids
    <3> QED
      BY <2>1, <2>3, <3>1, <3>2
  <2>6. \A i \in DOMAIN jobs' : jobs'[i].status = "running" => tasks'[jobs'[i].id] # "told"
    <3> SUFFICES ASSUME NEW k \in 1 .. Len(jobs'), jobs'[k].status = "running" PROVE tasks'[jobs'[k].id] # "told"
      BY <2>5
    <3>1. CASE \E i \in 1 .. Len(top) : jobs'[k] = top[i]
      BY <3>1, <2>3
    <3>2. ASSUME NEW i \in 1 .. Len(jobs), jobs'[k] = jobs[i] PROVE tasks'[jobs'[k].id] # "told"
      BY <3>2, <1>1, JobsShown DEF JobsInv
    <3> QED
      BY <3>1, <3>2, <2>5
  <2>7. \A x \in (filed \cup Ids(jobs))' : Known(x)'
    BY <1>1, <2>5 DEF JobsInv, Known
  <2>8. \A r \in reading' : \A x \in r.filed : Known(x)'
    BY <1>1 DEF JobsInv, Known
  <2>9. \A x \in JobIds : tasks'[x] \in {"running"} \cup Ended => x \in (Ids(jobs) \cup dropped)'
    BY <1>1, <2>5 DEF JobsInv
  <2>10. (hydrated /\ ~missed => \A x \in filed \ dropped :
           tasks[x] # "decided" => x \in Ids(jobs) \/ \E r \in reading : x \in r.filed)'
    BY <1>1, <2>1, <2>5 DEF JobsInv
  <2> QED
    BY <1>1, <2>1, <2>5, <2>6, <2>7, <2>8, <2>9, <2>10 DEF JobsInv
<1> QED
  BY <1>2, <1>3

LEMMA TakingAJobOff ==
  ASSUME JobsInv, NEW j \in removing, Removed(j)
  PROVE  JobsInv'
<1> DEFINE rest == OffList(jobs, j)
<1>1. /\ removing' = removing \ {j} /\ jobs' = rest /\ j \in dropped
      /\ UNCHANGED <<filed, tasks, reading, hydrated, missed, dropped>>
  BY DEF Removed, JobsInv
<1>2. /\ rest \in Seq(Job) /\ Apart(rest) /\ Ids(rest) = Ids(jobs) \ {j}
      /\ \A k \in 1 .. Len(rest) : \E i \in 1 .. Len(jobs) : rest[k] = jobs[i]
  BY OffTheList DEF JobsInv
<1> HIDE DEF rest
<1>3. jobs' \in Seq(Job) /\ Apart(jobs)' /\ Ids(jobs)' = Ids(jobs) \ {j}
  <2>1. Ids(jobs)' = Ids(rest) /\ (Apart(jobs)' <=> Apart(rest))
    BY <1>1, Zenon DEF Apart, Ids
  <2> QED
    BY <2>1, <1>1, <1>2
<1>4. \A i \in DOMAIN jobs' : jobs'[i].status = "running" => tasks'[jobs'[i].id] # "told"
  <2> SUFFICES ASSUME NEW k \in 1 .. Len(rest), rest[k].status = "running" PROVE tasks[rest[k].id] # "told"
    BY <1>1, <1>2
  <2>1. PICK n \in 1 .. Len(jobs) : rest[k] = jobs[n]
    BY <1>2
  <2> QED
    BY <2>1, JobsShown DEF JobsInv
<1>5. \A x \in JobIds : tasks'[x] \in {"running"} \cup Ended => x \in (Ids(jobs) \cup dropped)'
  BY <1>1, <1>3 DEF JobsInv
<1>6. (hydrated /\ ~missed => \A x \in filed \ dropped :
         tasks[x] # "decided" => x \in Ids(jobs) \/ \E read \in reading : x \in read.filed)'
  BY <1>1, <1>3 DEF JobsInv
<1> QED
  BY <1>1, <1>3, <1>4, <1>5, <1>6 DEF JobsInv, Known

LEMMA JobsStayInOrder ==
  ASSUME JobsInv, [JobsNext]_jobVars
  PROVE  JobsInv'
<1>1. CASE UNCHANGED jobVars
  BY <1>1 DEF jobVars, JobsInv, Apart, Known, Ids
<1>2. ASSUME NEW j \in JobIds, RunJob(j) \/ DecideJob(j) \/ RemoveJob(j) PROVE JobsInv'
  BY <1>2, RunningAJob, AroundTheList
<1>3. CASE LoadJobs
  <2>1. CASE JobIds # {}
    BY <1>3, <2>1, AroundTheList
  <2>2. CASE JobIds = {}
    BY <1>3, <2>2 DEF LoadJobs, JobsInv, Apart, Known, Ids
  <2> QED
    BY <2>1, <2>2
<1>4. ASSUME NEW j \in JobIds, JobEnds(j) \/ SettleJob(j) \/ RecordJob(j) PROVE JobsInv'
  BY <1>4, AroundTheList, SettlingAJob, RecordingAJob
<1>5. ASSUME NEW read \in reading, JobsRead(read) PROVE JobsInv'
  BY <1>5, ReadingTheHistory
<1>6. ASSUME NEW j \in removing, Removed(j) PROVE JobsInv'
  BY <1>6, TakingAJobOff
<1> HIDE DEF JobsInv
<1> QED
  BY <1>1, <1>2, <1>3, <1>4, <1>5, <1>6 DEF JobsNext

\* The list tells of every job once and of none as running that has ended, for any
\* jobs and any number of them: an entry leaves it by filtering, and what is put on
\* it has an id that no entry has.
THEOREM JobsAreAlwaysListedOnce == JobsSpec => []JobsAreListedOnce
<1>1. JobsInit => JobsInv
  BY JobsAtFirst
<1>2. JobsInv /\ [JobsNext]_jobVars => JobsInv'
  BY JobsStayInOrder
<1>3. JobsInv => JobsAreListedOnce
  <2> SUFFICES ASSUME JobsInv PROVE JobsAreListedOnce
    OBVIOUS
  <2>1. Cardinality(Ids(jobs)) = Len(jobs)
    BY ListedOnce DEF JobsInv
  <2> QED
    BY <2>1 DEF JobsInv, JobsAreListedOnce
<1> QED
  BY <1>1, <1>2, <1>3, PTL DEF JobsSpec

\* A job on the list is one the project knows, with a status a run can have; no answer
\* brings a row of another project, for any jobs and any number of them.
THEOREM JobsTypeCorrect == JobsSpec => []JobsTypeOK
<1>1. JobsInv => JobsTypeOK
  BY DEF JobsInv, JobsTypeOK, Job
<1> QED
  BY <1>1, JobsAtFirst, JobsStayInOrder, PTL DEF JobsSpec

------------------------------------------------------------------------------
(* Of Conversations.                                                       *)

Message == [turn : Nat, role : {"user", "assistant"}]
ChatState == [conv : Nat, session : Nat, messages : Seq(Message), sending : BOOLEAN]
SentTurn == [conv : Nat \ {0}, asked : Nat, resumed : Nat, engine : Engines \cup {"none"},
             outcome : {"none", "ok", "error", "stopped"}, told : BOOLEAN]
LogRow == [turn : Nat, conv : Nat \ {0}, engine : Engines \cup {"none"}, session : Nat]

\* A turn before or after a step, and the row it was filed as.
TurnFits(ts, t) ==
  /\ ts[t].asked \in {0} \cup DOMAIN ts /\ ts[t].resumed \in {0, ts[t].asked}
  /\ ts[t].outcome # "none" => ts[t].engine # "none"
  /\ ts[t].told => ts[t].outcome # "none"
RowFits(ts, row) ==
  /\ row.turn \in DOMAIN ts /\ row.conv = ts[row.turn].conv /\ ts[row.turn].outcome # "none"
  /\ row.session \in {0, row.turn, ts[row.turn].resumed}

ChatTyped == chat \in ChatState /\ chat.session \in {0} \cup DOMAIN turns
             /\ \A i \in DOMAIN chat.messages : chat.messages[i].turn \in DOMAIN turns
TurnsTyped == turns \in Seq(SentTurn) /\ \A t \in DOMAIN turns : TurnFits(turns, t)
LogTyped == log \in Seq(LogRow) /\ \A i \in DOMAIN log : RowFits(turns, log[i])
ArchiveTyped == archive = [read |-> archive.read, convs |-> archive.convs] /\ archive.convs \subseteq Nat
ReadTyped(read) ==
  /\ read.kind = "open" => /\ read.conv \in Nat /\ read.rows \in Seq(LogRow)
                           /\ \A i \in DOMAIN read.rows : RowFits(turns, read.rows[i])
  /\ read.kind = "list" => read.convs \subseteq Nat

TalkInv ==
  /\ engine \in Engines /\ ChatTyped /\ TurnsTyped /\ LogTyped /\ ArchiveTyped
  /\ \A read \in reads : ReadTyped(read)
  /\ OneConversationIsShown

(* ------------------------------ the operators ----------------------------- *)

LEMMA RowsOfAConversation ==
  ASSUME LogTyped, NEW conv
  PROVE  /\ RowsOf(conv) \in Seq(LogRow)
         /\ \A k \in DOMAIN RowsOf(conv) : \E i \in DOMAIN log : RowsOf(conv)[k] = log[i] /\ log[i].conv = conv
         /\ \A i \in DOMAIN log : log[i].conv = conv => \E k \in DOMAIN RowsOf(conv) : RowsOf(conv)[k] = log[i]
         /\ \A k \in DOMAIN RowsOf(conv) : RowFits(turns, RowsOf(conv)[k]) /\ RowsOf(conv)[k].conv = conv
<1> DEFINE S == {row \in ToSet(log) : row.conv = conv}
<1>1. \A i \in DOMAIN log : log[i] \in S <=> log[i].conv = conv
  BY DEF ToSet
<1>2. log \in Seq(LogRow)
  BY DEF LogTyped
<1> HIDE DEF S
<1>0. PICK l, X : l = log /\ X = S
  OBVIOUS
<1>3. /\ Picked(log, S) \in Seq(LogRow)
      /\ \A k \in DOMAIN Picked(log, S) : \E i \in DOMAIN log : Picked(log, S)[k] = log[i] /\ log[i] \in S
      /\ \A i \in DOMAIN log : log[i] \in S => \E k \in DOMAIN Picked(log, S) : Picked(log, S)[k] = log[i]
  <2>1. l \in Seq(LogRow)
    BY <1>0, <1>2
  <2>2. /\ Picked(l, X) \in Seq(LogRow)
        /\ \A k \in DOMAIN Picked(l, X) : \E i \in DOMAIN l : Picked(l, X)[k] = l[i] /\ l[i] \in X
        /\ \A i \in DOMAIN l : l[i] \in X => \E k \in DOMAIN Picked(l, X) : Picked(l, X)[k] = l[i]
    BY <2>1, PickedRows
  <2> QED
    BY <1>0, <2>2
<1>4. RowsOf(conv) = Picked(log, S)
  BY DEF RowsOf, S
<1>5. \A k \in DOMAIN RowsOf(conv) : \E i \in DOMAIN log : RowsOf(conv)[k] = log[i] /\ log[i].conv = conv
  BY <1>1, <1>3, <1>4
<1>6. \A k \in DOMAIN RowsOf(conv) : RowFits(turns, RowsOf(conv)[k]) /\ RowsOf(conv)[k].conv = conv
  BY <1>5 DEF LogTyped
<1> QED
  BY <1>1, <1>3, <1>4, <1>5, <1>6

\* The session an archived conversation is continued in is one of its rows'.
LEMMA SessionOfSomeRow ==
  ASSUME NEW rows \in Seq(LogRow)
  PROVE  SessionOf(rows) = 0 \/ \E i \in DOMAIN rows : SessionOf(rows) = rows[i].session
<1> DEFINE some == Picked(rows, {row \in ToSet(rows) : row.session # 0})
<1>1. /\ some \in Seq(LogRow)
      /\ \A k \in DOMAIN some : \E i \in DOMAIN rows : some[k] = rows[i]
  <2>1. PICK X : X = {row \in ToSet(rows) : row.session # 0}
    OBVIOUS
  <2>2. /\ Picked(rows, X) \in Seq(LogRow)
        /\ \A k \in DOMAIN Picked(rows, X) : \E i \in DOMAIN rows : Picked(rows, X)[k] = rows[i] /\ rows[i] \in X
    BY PickedRows
  <2>3. some = Picked(rows, X)
    BY <2>1
  <2> HIDE DEF some
  <2> QED
    BY <2>2, <2>3
<1>2. SessionOf(rows) = IF some = <<>> THEN 0 ELSE some[Len(some)].session
  BY DEF SessionOf, Last
<1> HIDE DEF some
<1>3. CASE some # <<>>
  <2>1. Len(some) \in DOMAIN some
    BY <1>1, <1>3
  <2> QED
    BY <2>1, <1>1, <1>2, <1>3
<1> QED
  BY <1>2, <1>3

LEMMA TranscriptOfRows ==
  ASSUME NEW rows \in Seq(LogRow)
  PROVE  /\ Transcript(rows) \in Seq(Message)
         /\ \A k \in DOMAIN Transcript(rows) : \E i \in DOMAIN rows : Transcript(rows)[k].turn = rows[i].turn
         /\ \A i \in DOMAIN rows : \E k \in DOMAIN Transcript(rows) : Transcript(rows)[k].turn = rows[i].turn
<1> DEFINE n == 2 * Len(rows)
           half(k) == [turn |-> rows[(k + 1) \div 2].turn, role |-> IF k % 2 = 1 THEN "user" ELSE "assistant"]
<1>1. Len(rows) \in Nat /\ n \in Nat /\ DOMAIN rows = 1 .. Len(rows) /\ Transcript(rows) = [k \in 1 .. n |-> half(k)]
  BY DEF Transcript
<1>2. \A k \in 1 .. n : (k + 1) \div 2 \in 1 .. Len(rows)
  BY <1>1
<1>3. \A i \in 1 .. Len(rows) : rows[i].turn \in Nat
  <2>1. \A i \in 1 .. Len(rows) : rows[i] \in LogRow
    OBVIOUS
  <2> QED
    BY <2>1 DEF LogRow
<1>4. \A k \in 1 .. n : half(k) \in Message /\ half(k).turn = rows[(k + 1) \div 2].turn
  BY <1>2, <1>3 DEF Message
<1> HIDE DEF half
<1>5. Transcript(rows) \in Seq(Message) /\ DOMAIN Transcript(rows) = 1 .. n
  BY <1>1, <1>4
<1>6. \A i \in 1 .. Len(rows) : 2 * i \in 1 .. n /\ (2 * i + 1) \div 2 = i
  BY <1>1
<1>7. \A k \in 1 .. n : Transcript(rows)[k].turn = rows[(k + 1) \div 2].turn
  BY <1>1, <1>4
<1>8. \A i \in 1 .. Len(rows) : \E k \in 1 .. n : Transcript(rows)[k].turn = rows[i].turn
  BY <1>6, <1>7
<1>9. \A k \in 1 .. n : \E i \in 1 .. Len(rows) : Transcript(rows)[k].turn = rows[i].turn
  BY <1>2, <1>7
<1> HIDE DEF n
<1> QED
  BY <1>1, <1>5, <1>8, <1>9

\* A conversation that is new is one no turn has.
LEMMA FreshConversation ==
  ASSUME TurnsTyped
  PROVE  FreshConv \in Nat \ {0} /\ \A t \in DOMAIN turns : turns[t].conv < FreshConv
<1> DEFINE convs(n) == {0} \cup {turns[t].conv : t \in 1 .. n}
           X == {n \in Nat : n <= Len(turns) => \E x \in convs(n) : \A y \in convs(n) : x >= y}
<1>1. turns \in Seq(SentTurn) /\ Len(turns) \in Nat /\ DOMAIN turns = 1 .. Len(turns)
  BY DEF TurnsTyped
<1>2. \A t \in 1 .. Len(turns) : turns[t].conv \in Nat
  <2>1. \A t \in 1 .. Len(turns) : turns[t] \in SentTurn
    BY <1>1
  <2> QED
    BY <2>1 DEF SentTurn
<1>3. 0 \in X
  OBVIOUS
<1>4. ASSUME NEW n \in Nat, n \in X PROVE n + 1 \in X
  <2> SUFFICES ASSUME n + 1 <= Len(turns) PROVE \E x \in convs(n + 1) : \A y \in convs(n + 1) : x >= y
    OBVIOUS
  <2>1. PICK x \in convs(n) : \A y \in convs(n) : x >= y
    BY <1>4, <1>1
  <2>2. convs(n + 1) = convs(n) \cup {turns[n + 1].conv}
    OBVIOUS
  <2>3. x \in Nat /\ turns[n + 1].conv \in Nat /\ \A y \in convs(n) : y \in Nat
    BY <1>1, <1>2
  <2> HIDE DEF convs
  <2>4. CASE x >= turns[n + 1].conv
    BY <2>1, <2>2, <2>4
  <2>5. CASE ~(x >= turns[n + 1].conv)
    BY <2>1, <2>2, <2>3, <2>5
  <2> QED
    BY <2>4, <2>5
<1> HIDE DEF X
<1>5. Len(turns) \in X
  BY <1>1, <1>3, <1>4, NatSetInduction
<1> DEFINE C == {0} \cup {turns[t].conv : t \in DOMAIN turns}
<1>6. \E x \in C : \A y \in C : x >= y
  <2>1. \E x \in convs(Len(turns)) : \A y \in convs(Len(turns)) : x >= y
    BY <1>1, <1>5 DEF X
  <2> QED
    BY <1>1, <2>1
<1>7. Max(C) \in C /\ \A y \in C : Max(C) >= y
  <2> HIDE DEF C
  <2> QED
    BY <1>6 DEF Max
<1>8. Max(C) \in Nat /\ \A t \in DOMAIN turns : turns[t].conv \in C /\ turns[t].conv \in Nat
  BY <1>1, <1>2, <1>7
<1>9. FreshConv = 1 + Max(C)
  BY DEF FreshConv
<1> HIDE DEF C
<1> QED
  BY <1>7, <1>8, <1>9

(* ------------------------------- the steps -------------------------------- *)

\* Turns are added, and those that have ended stay what they were filed as.
TurnsGoOn ==
  /\ Len(turns) <= Len(turns')
  /\ \A t \in DOMAIN turns : /\ turns'[t].conv = turns[t].conv
                             /\ turns[t].outcome # "none" => /\ turns'[t].outcome # "none"
                                                             /\ turns'[t].resumed = turns[t].resumed

LEMMA SentTurns ==
  ASSUME TurnsTyped
  PROVE  /\ turns \in Seq(SentTurn) /\ Len(turns) \in Nat /\ DOMAIN turns = 1 .. Len(turns)
         /\ \A t \in DOMAIN turns : turns[t] \in SentTurn /\ turns[t].conv \in Nat \ {0} /\ TurnFits(turns, t)
<1>1. turns \in Seq(SentTurn) /\ Len(turns) \in Nat /\ DOMAIN turns = 1 .. Len(turns)
  BY DEF TurnsTyped
<1>2. \A t \in DOMAIN turns : turns[t] \in SentTurn
  BY <1>1
<1> QED
  BY <1>1, <1>2 DEF TurnsTyped, SentTurn

LEMMA RowsStillFit ==
  ASSUME TurnsTyped, TurnsTyped', TurnsGoOn, NEW row, RowFits(turns, row)
  PROVE  RowFits(turns', row)
<1>1. DOMAIN turns = 1 .. Len(turns) /\ DOMAIN turns' = 1 .. Len(turns') /\ Len(turns) \in Nat /\ Len(turns') \in Nat
  BY DEF TurnsTyped
<1>2. row.turn \in DOMAIN turns /\ row.turn \in DOMAIN turns'
  BY <1>1 DEF RowFits, TurnsGoOn
<1> QED
  BY <1>2 DEF RowFits, TurnsGoOn

\* Whatever changes no turn's end, the log or the reads only to what fits.
LEMMA FrameFits ==
  ASSUME TalkInv, TurnsTyped', TurnsGoOn, UNCHANGED <<log, archive>>, engine' \in Engines,
         \A read \in reads' : read \in reads \/ ReadTyped(read)'
  PROVE  engine' \in Engines /\ LogTyped' /\ ArchiveTyped' /\ \A read \in reads' : ReadTyped(read)'
<1>1. TurnsTyped /\ LogTyped /\ ArchiveTyped /\ \A read \in reads : ReadTyped(read)
  BY DEF TalkInv
<1>2. LogTyped' /\ ArchiveTyped'
  BY <1>1, RowsStillFit DEF LogTyped, ArchiveTyped
<1>3. \A read \in reads : ReadTyped(read)'
  BY <1>1, RowsStillFit DEF ReadTyped
<1> QED
  BY <1>2, <1>3

LEMMA TalkAtFirst == ChatInit => TalkInv
<1> SUFFICES ASSUME ChatInit PROVE TalkInv
  OBVIOUS
<1>1. chat \in ChatState /\ chat.conv = 0 /\ chat.session = 0 /\ chat.messages = <<>> /\ turns = <<>> /\ log = <<>>
  BY DEF ChatInit, EmptyChat, ChatState
<1>2. DOMAIN <<>> = {}
  OBVIOUS
<1>3. ChatTyped /\ TurnsTyped /\ LogTyped
  BY <1>1, <1>2 DEF ChatTyped, TurnsTyped, LogTyped
<1>4. OneConversationIsShown
  BY <1>1, <1>2 DEF OneConversationIsShown
<1>5. engine \in Engines /\ ArchiveTyped /\ reads = {}
  BY ConversationsConstants DEF ChatInit, ArchiveTyped
<1> QED
  BY <1>3, <1>4, <1>5 DEF TalkInv

LEMMA SendingKeepsTalk ==
  ASSUME TalkInv, ChatSend
  PROVE  TalkInv'
<1> DEFINE conv == IF chat.conv = 0 THEN FreshConv ELSE chat.conv
           t == Len(turns) + 1
           turn == [conv |-> conv, asked |-> chat.session, resumed |-> 0, engine |-> "none",
                    outcome |-> "none", told |-> FALSE]
           said == Append(chat.messages, [turn |-> t, role |-> "user"])
<1>1. TurnsTyped /\ ChatTyped /\ LogTyped /\ engine \in Engines /\ OneConversationIsShown
  BY DEF TalkInv
<1>2. /\ turns \in Seq(SentTurn) /\ Len(turns) \in Nat /\ DOMAIN turns = 1 .. Len(turns)
      /\ \A u \in DOMAIN turns : turns[u] \in SentTurn /\ turns[u].conv \in Nat \ {0} /\ TurnFits(turns, u)
  BY <1>1, SentTurns
<1>3. /\ chat \in ChatState /\ chat.conv \in Nat /\ chat.session \in Nat /\ chat.messages \in Seq(Message)
      /\ chat.session \in {0} \cup DOMAIN turns
      /\ \A i \in DOMAIN chat.messages : chat.messages[i].turn \in DOMAIN turns
  BY <1>1 DEF ChatTyped, ChatState
<1>4. FreshConv \in Nat \ {0} /\ \A u \in DOMAIN turns : turns[u].conv < FreshConv
  BY <1>1, FreshConversation
<1>5. conv \in Nat \ {0} /\ turn \in SentTurn
  BY <1>3, <1>4 DEF SentTurn
<1>6. turns' = Append(turns, turn) /\ UNCHANGED <<log, archive, reads, engine, strayed>>
  BY DEF ChatSend
<1> HIDE DEF conv
<1>8. /\ turns' \in Seq(SentTurn) /\ Len(turns') = t /\ DOMAIN turns' = 1 .. t
      /\ turns'[t] = turn /\ \A u \in DOMAIN turns : turns'[u] = turns[u]
  <2> HIDE DEF turn
  <2> QED
    BY <1>2, <1>5, <1>6, AppendProperties
<1>9. /\ said \in Seq(Message) /\ Len(said) = Len(chat.messages) + 1 /\ said[Len(chat.messages) + 1].turn = t
      /\ \A i \in 1 .. Len(chat.messages) : said[i] = chat.messages[i]
      /\ Len(chat.messages) \in Nat /\ DOMAIN said = 1 .. Len(chat.messages) + 1
      /\ DOMAIN chat.messages = 1 .. Len(chat.messages)
  <2>1. [turn |-> t, role |-> "user"] \in Message
    BY <1>2 DEF Message
  <2> QED
    BY <1>3, <2>1, AppendProperties
<1> HIDE DEF said
<1>10. chat' \in ChatState /\ chat'.conv = conv /\ chat'.session = chat.session /\ chat'.messages = said
  <2> DEFINE one == [chat EXCEPT !.conv = conv]
             two == [one EXCEPT !.sending = TRUE]
  <2>1. chat' = [two EXCEPT !.messages = said]
    BY DEF ChatSend, conv, said
  <2>2. one \in ChatState /\ one.conv = conv /\ one.session = chat.session
    BY <1>3, <1>5 DEF ChatState
  <2> HIDE DEF one
  <2>3. two \in ChatState /\ two.conv = conv /\ two.session = chat.session
    BY <2>2 DEF ChatState
  <2> HIDE DEF two
  <2> QED
    BY <2>1, <2>3, <1>9 DEF ChatState
<1>11. DOMAIN turns' = DOMAIN turns \cup {t} /\ t \notin DOMAIN turns
  BY <1>2, <1>8
<1>12. TurnsTyped' /\ TurnsGoOn
  <2>1. \A u \in DOMAIN turns : TurnFits(turns', u)
    BY <1>2, <1>8, <1>11 DEF TurnFits
  <2>2. TurnFits(turns', t)
    <3>1. turn.asked \in {0} \cup DOMAIN turns' /\ turn.resumed = 0 /\ turn.outcome = "none"
      BY <1>3, <1>11
    <3>2. ~turn.told
      OBVIOUS
    <3> HIDE DEF turn, t
    <3> QED
      BY <3>1, <3>2, <1>8 DEF TurnFits
  <2> HIDE DEF turn, t
  <2>3. TurnsGoOn
    BY <1>2, <1>8 DEF TurnsGoOn, t
  <2> QED
    BY <2>1, <2>2, <2>3, <1>8, <1>11 DEF TurnsTyped
<1>13. ChatTyped'
  <2>1. \A i \in DOMAIN said : said[i].turn \in DOMAIN turns'
    BY <1>3, <1>9, <1>11
  <2> QED
    BY <2>1, <1>3, <1>10, <1>11 DEF ChatTyped
<1>14. engine' \in Engines /\ LogTyped' /\ ArchiveTyped' /\ \A read \in reads' : ReadTyped(read)'
  BY <1>1, <1>6, <1>12, FrameFits
<1>15. OneConversationIsShown'
  <2> SUFFICES ASSUME ~strayed PROVE OneConversationIsShown'
    BY <1>6 DEF OneConversationIsShown
  <2>1. /\ \A i \in DOMAIN chat.messages : turns[chat.messages[i].turn].conv = chat.conv
        /\ chat.session # 0 => turns[chat.session].conv = chat.conv
        /\ \A u \in DOMAIN turns : \A s \in {turns[u].asked, turns[u].resumed} \ {0} : turns[s].conv = turns[u].conv
        /\ \A i \in DOMAIN log : log[i].conv = chat.conv /\ turns[log[i].turn].told =>
             \E j \in DOMAIN chat.messages : chat.messages[j].turn = log[i].turn
    BY <1>1 DEF OneConversationIsShown
  <2>2. /\ \A i \in DOMAIN chat.messages : turns[chat.messages[i].turn].conv = conv
        /\ chat.session # 0 => turns[chat.session].conv = conv
    BY <2>1, <1>2, <1>3 DEF conv
  <2>3. \A i \in DOMAIN said : turns'[said[i].turn].conv = conv
    BY <2>2, <1>3, <1>8, <1>9
  <2>4. chat.session # 0 => turns'[chat.session].conv = conv
    BY <2>2, <1>3, <1>8
  <2>5. \A u \in DOMAIN turns' : \A s \in {turns'[u].asked, turns'[u].resumed} \ {0} : turns'[s].conv = turns'[u].conv
    <3>1. ASSUME NEW u \in DOMAIN turns, NEW s \in {turns[u].asked, turns[u].resumed} \ {0}
          PROVE  turns'[s].conv = turns'[u].conv
      BY <3>1, <2>1, <1>2, <1>8 DEF TurnFits
    <3>2. \A s \in {turn.asked, turn.resumed} \ {0} : turns'[s].conv = turn.conv
      BY <2>4
    <3> HIDE DEF turn, t
    <3> QED
      BY <3>1, <3>2, <1>8, <1>11
  <2>6. ASSUME NEW i \in DOMAIN log, log[i].conv = conv, turns'[log[i].turn].told
        PROVE  \E j \in DOMAIN said : said[j].turn = log[i].turn
    <3>1. log[i].turn \in DOMAIN turns /\ log[i].conv = turns[log[i].turn].conv /\ log[i].conv \in Nat
      BY <1>1, <1>2 DEF LogTyped, RowFits
    <3>2. conv = chat.conv
      <4>1. log[i].conv # FreshConv
        BY <3>1, <1>4
      <4> QED
        BY <4>1, <2>6 DEF conv
    <3>3. PICK j \in DOMAIN chat.messages : chat.messages[j].turn = log[i].turn
      BY <3>1, <3>2, <2>1, <2>6, <1>8
    <3>4. j \in DOMAIN said /\ said[j] = chat.messages[j]
      BY <3>3, <1>9
    <3> QED
      BY <3>3, <3>4
  <2> QED
    BY <2>3, <2>4, <2>5, <2>6, <1>6, <1>10 DEF OneConversationIsShown
<1> QED
  BY <1>12, <1>13, <1>14, <1>15 DEF TalkInv

\* What is asked of the core, what it lists, and what is deleted: the panel stays as
\* it is or is emptied.
LEMMA PanelStaysOrIsEmptied ==
  ASSUME TalkInv, chat' \in {chat, EmptyChat}, UNCHANGED <<turns, strayed>>,
         \A i \in DOMAIN log' : \E k \in DOMAIN log : log'[i] = log[k]
  PROVE  ChatTyped' /\ TurnsTyped' /\ TurnsGoOn /\ OneConversationIsShown'
<1>1. ChatTyped /\ TurnsTyped /\ LogTyped /\ OneConversationIsShown
  BY DEF TalkInv
<1>2. TurnsTyped' /\ TurnsGoOn
  BY <1>1, SentTurns DEF TurnsTyped, TurnsGoOn
<1>3. /\ EmptyChat \in ChatState /\ EmptyChat.conv = 0 /\ EmptyChat.session = 0
      /\ EmptyChat.messages = <<>> /\ DOMAIN EmptyChat.messages = {}
  BY DEF EmptyChat, ChatState
<1>4. ChatTyped'
  BY <1>1, <1>3 DEF ChatTyped
<1>5. \A i \in DOMAIN log' : /\ log'[i].conv \in Nat \ {0} /\ log'[i].turn \in DOMAIN turns
                             /\ \E k \in DOMAIN log : log'[i] = log[k]
  BY <1>1, SentTurns DEF LogTyped, RowFits
<1>6. OneConversationIsShown'
  <2> SUFFICES ASSUME ~strayed PROVE OneConversationIsShown'
    BY DEF OneConversationIsShown
  <2>1. CASE chat' = EmptyChat
    BY <2>1, <1>1, <1>3, <1>5 DEF OneConversationIsShown
  <2>2. CASE chat' = chat
    BY <2>2, <1>1, <1>5 DEF OneConversationIsShown
  <2> QED
    BY <2>1, <2>2
<1> QED
  BY <1>2, <1>4, <1>6

LEMMA AskingKeepsTalk ==
  ASSUME TalkInv, chat' \in {chat, EmptyChat}, UNCHANGED <<turns, log, archive, strayed>>, engine' \in Engines,
         \A read \in reads' : read \in reads \/ ReadTyped(read)'
  PROVE  TalkInv'
<1>1. ChatTyped' /\ TurnsTyped' /\ TurnsGoOn /\ OneConversationIsShown'
  BY PanelStaysOrIsEmptied
<1> QED
  BY <1>1, FrameFits DEF TalkInv

LEMMA OpeningIsAsked ==
  ASSUME TalkInv, NEW conv \in archive.convs, SwitchTo(conv)
  PROVE  TalkInv'
<1> DEFINE read == [kind |-> "open", conv |-> conv, rows |-> RowsOf(conv)]
<1>1. conv \in Nat /\ LogTyped /\ TurnsTyped
  BY DEF TalkInv, ArchiveTyped
<1>2. /\ RowsOf(conv) \in Seq(LogRow)
      /\ \A k \in DOMAIN RowsOf(conv) : RowFits(turns, RowsOf(conv)[k])
  BY <1>1, RowsOfAConversation
<1>3. UNCHANGED <<turns, chat, log, archive, engine, strayed>> /\ reads' = reads \cup {read}
  BY DEF SwitchTo, Ask
<1>4. PICK rows \in Seq(LogRow) : rows = RowsOf(conv)
  BY <1>2
<1>5. PICK r : r = [kind |-> "open", conv |-> conv, rows |-> rows]
  OBVIOUS
<1>6. ReadTyped(r)'
  BY <1>1, <1>2, <1>3, <1>4, <1>5 DEF ReadTyped
<1>7. \A x \in reads' : x \in reads \/ ReadTyped(x)'
  BY <1>3, <1>4, <1>5, <1>6
<1>8. engine' \in Engines
  BY <1>3 DEF TalkInv
<1> QED
  BY <1>3, <1>7, <1>8, AskingKeepsTalk

LEMMA ListsAreTyped ==
  ASSUME TalkInv, UNCHANGED turns, NEW read, read = [kind |-> "list", convs |-> Listed]
  PROVE  ReadTyped(read)'
<1>1. \A i \in DOMAIN log : log[i] \in LogRow
  BY DEF TalkInv, LogTyped
<1>2. Listed \subseteq Nat
  BY <1>1 DEF Listed, LogRow
<1> QED
  BY <1>2 DEF ReadTyped

LEMMA RemovingKeepsTalk ==
  ASSUME TalkInv, NEW conv, RemoveConversation(conv)
  PROVE  TalkInv'
<1>1. PICK X : X = {row \in ToSet(log) : row.conv # conv}
  OBVIOUS
<1>2. log' = Picked(log, X) /\ UNCHANGED <<chat, turns, archive, engine, strayed>>
  BY <1>1 DEF RemoveConversation
<1>3. PICK l \in Seq(LogRow) : l = log
  BY DEF TalkInv, LogTyped
<1>4. Picked(l, X) \in Seq(LogRow) /\ \A k \in DOMAIN Picked(l, X) : \E i \in DOMAIN l : Picked(l, X)[k] = l[i]
  BY PickedRows
<1>5. log' \in Seq(LogRow) /\ \A k \in DOMAIN log' : \E i \in DOMAIN log : log'[k] = log[i]
  BY <1>2, <1>3, <1>4
<1>6. ChatTyped' /\ TurnsTyped' /\ TurnsGoOn /\ OneConversationIsShown'
  BY <1>2, <1>5, PanelStaysOrIsEmptied
<1>7. LogTyped'
  BY <1>2, <1>5 DEF TalkInv, LogTyped
<1>8. PICK r : r = [kind |-> "removed", conv |-> conv]
  OBVIOUS
<1>9. reads' = reads \cup {r}
  BY <1>8 DEF RemoveConversation, Ask
<1>10. ReadTyped(r)'
  BY <1>8 DEF ReadTyped
<1>11. \A read \in reads' : ReadTyped(read)'
  BY <1>2, <1>9, <1>10 DEF TalkInv, ReadTyped
<1> QED
  BY <1>2, <1>6, <1>7, <1>11 DEF TalkInv, ArchiveTyped

LEMMA ListingKeepsTalk ==
  ASSUME TalkInv, NEW read \in reads, reads' = reads \ {read},
         \/ read.kind = "list" /\ ShowList([read |-> TRUE, convs |-> read.convs])
         \/ read.kind = "removed" /\ ShowList([archive EXCEPT !.convs = @ \ {read.conv}])
  PROVE  TalkInv'
<1>1. chat' \in {chat, EmptyChat} /\ UNCHANGED <<turns, log, engine, strayed>>
  BY DEF ShowList, Healed
<1>2. ArchiveTyped'
  <2>1. CASE read.kind = "list" /\ ShowList([read |-> TRUE, convs |-> read.convs])
    <3>1. read.convs \subseteq Nat
      BY <2>1 DEF TalkInv, ReadTyped
    <3> QED
      BY <2>1, <3>1 DEF ShowList, ArchiveTyped
  <2>2. CASE ShowList([archive EXCEPT !.convs = @ \ {read.conv}])
    BY <2>2 DEF ShowList, ArchiveTyped, TalkInv
  <2> QED
    BY <2>1, <2>2
<1>3. ChatTyped' /\ TurnsTyped' /\ TurnsGoOn /\ OneConversationIsShown'
  BY <1>1, PanelStaysOrIsEmptied
<1>4. LogTyped' /\ \A r \in reads' : ReadTyped(r)'
  BY <1>1 DEF TalkInv, LogTyped, ReadTyped
<1> QED
  BY <1>1, <1>2, <1>3, <1>4 DEF TalkInv

LEMMA OpeningKeepsTalk ==
  ASSUME TalkInv, NEW read \in reads, reads' = reads \ {read}, read.kind = "open", Opened(read)
  PROVE  TalkInv'
<1>1. /\ TurnsTyped /\ LogTyped /\ OneConversationIsShown
      /\ read.conv \in Nat /\ read.rows \in Seq(LogRow)
      /\ \A i \in DOMAIN read.rows : RowFits(turns, read.rows[i])
  BY DEF TalkInv, ReadTyped
<1>2. PICK rows \in Seq(LogRow) : rows = read.rows
  BY <1>1
<1>3. \A i \in DOMAIN rows : RowFits(turns, rows[i])
  BY <1>1, <1>2
<1>4. /\ Transcript(rows) \in Seq(Message)
      /\ \A k \in DOMAIN Transcript(rows) : \E i \in DOMAIN rows : Transcript(rows)[k].turn = rows[i].turn
      /\ \A i \in DOMAIN rows : \E k \in DOMAIN Transcript(rows) : Transcript(rows)[k].turn = rows[i].turn
  BY TranscriptOfRows
<1>5. SessionOf(rows) = 0 \/ \E i \in DOMAIN rows : SessionOf(rows) = rows[i].session
  BY SessionOfSomeRow
<1>6. /\ turns \in Seq(SentTurn) /\ DOMAIN turns = 1 .. Len(turns) /\ Len(turns) \in Nat
      /\ \A t \in DOMAIN turns : TurnFits(turns, t)
  BY <1>1, SentTurns
<1>7. \A i \in DOMAIN rows : rows[i].session \in {0} \cup DOMAIN turns
  BY <1>3, <1>6 DEF RowFits, TurnFits
<1>8. SessionOf(rows) \in {0} \cup DOMAIN turns
  BY <1>5, <1>7
<1>9. UNCHANGED <<turns, log, archive, engine>> /\ strayed' = (strayed \/ rows # RowsOf(read.conv))
  BY <1>2 DEF Opened
<1>10. /\ chat' \in ChatState /\ chat'.conv = read.conv /\ chat'.session = SessionOf(rows)
       /\ chat'.messages = Transcript(rows)
  <2>1. chat' = [conv |-> read.conv, session |-> SessionOf(rows), sending |-> FALSE, messages |-> Transcript(rows)]
    BY <1>2 DEF Opened
  <2>2. SessionOf(rows) \in Nat
    BY <1>6, <1>8
  <2> QED
    BY <2>1, <2>2, <1>1, <1>4 DEF ChatState
<1>11. ChatTyped'
  <2>1. \A k \in DOMAIN Transcript(rows) : Transcript(rows)[k].turn \in DOMAIN turns
    BY <1>3, <1>4 DEF RowFits
  <2> QED
    BY <2>1, <1>8, <1>9, <1>10 DEF ChatTyped
<1>12. OneConversationIsShown'
  <2> SUFFICES ASSUME ~strayed, rows = RowsOf(read.conv) PROVE OneConversationIsShown'
    BY <1>9 DEF OneConversationIsShown
  <2>1. \A k \in DOMAIN rows : RowFits(turns, rows[k]) /\ rows[k].conv = read.conv
    BY <1>1, RowsOfAConversation
  <2>2. \A i \in DOMAIN log : log[i].conv = read.conv => \E k \in DOMAIN rows : rows[k] = log[i]
    BY <1>1, RowsOfAConversation
  <2>3. \A t \in DOMAIN turns : \A s \in {turns[t].asked, turns[t].resumed} \ {0} : turns[s].conv = turns[t].conv
    BY <1>1 DEF OneConversationIsShown
  <2>4. \A k \in DOMAIN Transcript(rows) : turns[Transcript(rows)[k].turn].conv = read.conv
    <3> SUFFICES ASSUME NEW k \in DOMAIN Transcript(rows)
                 PROVE  turns[Transcript(rows)[k].turn].conv = read.conv
      OBVIOUS
    <3>1. PICK i \in DOMAIN rows : Transcript(rows)[k].turn = rows[i].turn
      BY <1>4
    <3>2. rows[i].conv = read.conv /\ rows[i].conv = turns[rows[i].turn].conv
      BY <2>1 DEF RowFits
    <3> QED
      BY <3>1, <3>2
  <2>5. SessionOf(rows) # 0 => turns[SessionOf(rows)].conv = read.conv
    <3> SUFFICES ASSUME NEW i \in DOMAIN rows, rows[i].session # 0 PROVE turns[rows[i].session].conv = read.conv
      BY <1>5
    <3>1. /\ rows[i].turn \in DOMAIN turns /\ turns[rows[i].turn].conv = read.conv
          /\ rows[i].session \in {rows[i].turn, turns[rows[i].turn].resumed}
      BY <2>1 DEF RowFits
    <3> QED
      BY <3>1, <2>3
  <2>6. \A i \in DOMAIN log : log[i].conv = read.conv =>
          \E j \in DOMAIN Transcript(rows) : Transcript(rows)[j].turn = log[i].turn
    <3> SUFFICES ASSUME NEW i \in DOMAIN log, log[i].conv = read.conv
                 PROVE  \E j \in DOMAIN Transcript(rows) : Transcript(rows)[j].turn = log[i].turn
      OBVIOUS
    <3>1. PICK k \in DOMAIN rows : rows[k] = log[i]
      BY <2>2
    <3> QED
      BY <3>1, <1>4
  <2> QED
    BY <2>3, <2>4, <2>5, <2>6, <1>9, <1>10 DEF OneConversationIsShown
<1>13. TurnsTyped' /\ LogTyped' /\ ArchiveTyped' /\ \A r \in reads' : ReadTyped(r)'
  BY <1>9 DEF TalkInv, TurnsTyped, LogTyped, ArchiveTyped, ReadTyped
<1> QED
  BY <1>9, <1>11, <1>12, <1>13 DEF TalkInv

LEMMA StartingKeepsTalk ==
  ASSUME TalkInv, NEW t \in DOMAIN turns, StartTurn(t)
  PROVE  TalkInv'
<1>1. TurnsTyped /\ ChatTyped /\ OneConversationIsShown /\ engine \in Engines
  BY DEF TalkInv
<1>2. /\ turns \in Seq(SentTurn) /\ Len(turns) \in Nat /\ DOMAIN turns = 1 .. Len(turns)
      /\ \A u \in DOMAIN turns : turns[u] \in SentTurn /\ TurnFits(turns, u)
  BY <1>1, SentTurns
<1>3. PICK old \in SentTurn : old = turns[t]
  BY <1>2
<1>4. PICK session : session = SessionForProvider(turns[t])
  OBVIOUS
<1>5. session \in {0, old.asked} /\ session \in Nat /\ old.engine = "none"
  BY <1>3, <1>4 DEF SessionForProvider, StartTurn, SentTurn
<1> DEFINE half == [old EXCEPT !.engine = engine]
           new == [half EXCEPT !.resumed = session]
<1>6. turns' = [turns EXCEPT ![t] = new] /\ UNCHANGED <<chat, log, archive, reads, engine, strayed>>
  BY <1>3, <1>4 DEF StartTurn
<1>7. /\ half \in SentTurn /\ half.conv = old.conv /\ half.asked = old.asked /\ half.outcome = old.outcome
      /\ half.told = old.told /\ half.engine = engine
  BY <1>1 DEF SentTurn
<1> HIDE DEF half
<1>8. /\ new \in SentTurn /\ new.conv = old.conv /\ new.asked = old.asked /\ new.outcome = old.outcome
      /\ new.told = old.told /\ new.resumed = session /\ new.engine = engine
  BY <1>5, <1>7 DEF SentTurn
<1> HIDE DEF new
<1>9. /\ turns' \in Seq(SentTurn) /\ DOMAIN turns' = DOMAIN turns /\ Len(turns') = Len(turns)
      /\ turns'[t] = new /\ \A u \in DOMAIN turns \ {t} : turns'[u] = turns[u]
  BY <1>2, <1>6, <1>8
<1>10. old.outcome = "none"
  BY <1>2, <1>3, <1>5 DEF TurnFits
<1>11. TurnsTyped' /\ TurnsGoOn
  <2>1. ASSUME NEW u \in DOMAIN turns PROVE TurnFits(turns', u)
    <3>1. CASE u = t
      BY <3>1, <1>2, <1>3, <1>5, <1>8, <1>9, <1>10 DEF TurnFits
    <3>2. CASE u # t
      BY <3>2, <1>2, <1>9 DEF TurnFits
    <3> QED
      BY <3>1, <3>2
  <2>2. TurnsGoOn
    BY <1>2, <1>3, <1>8, <1>9, <1>10 DEF TurnsGoOn
  <2> QED
    BY <2>1, <2>2, <1>9 DEF TurnsTyped
<1>12. ChatTyped'
  BY <1>1, <1>6, <1>9 DEF ChatTyped
<1>13. \A u \in DOMAIN turns : /\ turns'[u].conv = turns[u].conv /\ turns'[u].asked = turns[u].asked
                               /\ turns'[u].told = turns[u].told
                               /\ turns'[u].resumed \in {turns[u].resumed, turns[u].asked, 0}
  BY <1>3, <1>5, <1>8, <1>9
<1>14. \A i \in DOMAIN log : log[i].turn \in DOMAIN turns
  BY DEF TalkInv, LogTyped, RowFits
<1>15. OneConversationIsShown'
  <2> SUFFICES ASSUME ~strayed PROVE OneConversationIsShown'
    BY <1>6 DEF OneConversationIsShown
  <2>1. /\ \A i \in DOMAIN chat.messages : turns[chat.messages[i].turn].conv = chat.conv
        /\ chat.session # 0 => turns[chat.session].conv = chat.conv
        /\ \A u \in DOMAIN turns : \A s \in {turns[u].asked, turns[u].resumed} \ {0} : turns[s].conv = turns[u].conv
        /\ \A i \in DOMAIN log : log[i].conv = chat.conv /\ turns[log[i].turn].told =>
             \E j \in DOMAIN chat.messages : chat.messages[j].turn = log[i].turn
    BY <1>1 DEF OneConversationIsShown
  <2>2. \A i \in DOMAIN chat.messages : turns'[chat.messages[i].turn].conv = chat.conv
    BY <2>1, <1>1, <1>13 DEF ChatTyped
  <2>3. chat.session # 0 => turns'[chat.session].conv = chat.conv
    BY <2>1, <1>1, <1>13 DEF ChatTyped
  <2>4. ASSUME NEW u \in DOMAIN turns, NEW s \in {turns'[u].asked, turns'[u].resumed} \ {0}
        PROVE  turns'[s].conv = turns'[u].conv
    <3>1. s \in {turns[u].asked, turns[u].resumed} \ {0} /\ s \in DOMAIN turns
      BY <2>4, <1>2, <1>13 DEF TurnFits
    <3> QED
      BY <3>1, <2>1, <1>13
  <2>5. \A i \in DOMAIN log : log[i].conv = chat.conv /\ turns'[log[i].turn].told =>
          \E j \in DOMAIN chat.messages : chat.messages[j].turn = log[i].turn
    BY <2>1, <1>13, <1>14
  <2> QED
    BY <2>2, <2>3, <2>4, <2>5, <1>6, <1>9 DEF OneConversationIsShown
<1> QED
  BY <1>1, <1>6, <1>11, <1>12, <1>15, FrameFits DEF TalkInv

LEMMA EndingKeepsTalk ==
  ASSUME TalkInv, NEW t \in DOMAIN turns, TurnEnds(t)
  PROVE  TalkInv'
<1>1. TurnsTyped /\ ChatTyped /\ LogTyped /\ OneConversationIsShown /\ engine \in Engines
  BY DEF TalkInv
<1>2. /\ turns \in Seq(SentTurn) /\ Len(turns) \in Nat /\ DOMAIN turns = 1 .. Len(turns)
      /\ \A u \in DOMAIN turns : turns[u] \in SentTurn /\ TurnFits(turns, u)
  BY <1>1, SentTurns
<1>3. PICK old \in SentTurn : old = turns[t]
  BY <1>2
<1>4. PICK outcome \in {"ok", "error", "stopped"} :
        /\ turns' = [turns EXCEPT ![t].outcome = outcome]
        /\ LET row == [turn |-> t, conv |-> turns[t].conv, engine |-> turns[t].engine,
                       session |-> IF outcome = "ok" THEN t ELSE turns[t].resumed]
           IN  \/ outcome # "stopped" /\ log' = Append(log, row)
               \/ outcome # "error" /\ UNCHANGED log
  BY DEF TurnEnds
<1>5. old.outcome = "none" /\ old.engine # "none" /\ ~old.told /\ UNCHANGED <<chat, archive, reads, engine, strayed>>
  BY <1>2, <1>3 DEF TurnEnds, TurnFits
<1> DEFINE new == [old EXCEPT !.outcome = outcome]
           row == [turn |-> t, conv |-> old.conv, engine |-> old.engine,
                   session |-> IF outcome = "ok" THEN t ELSE old.resumed]
<1>6. turns' = [turns EXCEPT ![t] = new]
  BY <1>3, <1>4
<1>7. /\ new \in SentTurn /\ new.conv = old.conv /\ new.asked = old.asked /\ new.outcome = outcome
      /\ new.told = old.told /\ new.resumed = old.resumed /\ new.engine = old.engine
  BY DEF SentTurn
<1>8. row \in LogRow /\ row.turn = t /\ row.conv = old.conv /\ row.session \in {t, old.resumed}
  BY <1>2 DEF SentTurn, LogRow
<1>9. log' \in {log, Append(log, row)}
  BY <1>3, <1>4
<1> HIDE DEF new, row
<1>10. /\ turns' \in Seq(SentTurn) /\ DOMAIN turns' = DOMAIN turns /\ Len(turns') = Len(turns)
       /\ turns'[t] = new /\ \A u \in DOMAIN turns \ {t} : turns'[u] = turns[u]
  BY <1>2, <1>6, <1>7
<1>11. TurnsTyped' /\ TurnsGoOn
  <2>1. ASSUME NEW u \in DOMAIN turns PROVE TurnFits(turns', u)
    <3>1. CASE u = t
      BY <3>1, <1>2, <1>3, <1>5, <1>7, <1>10 DEF TurnFits
    <3>2. CASE u # t
      BY <3>2, <1>2, <1>10 DEF TurnFits
    <3> QED
      BY <3>1, <3>2
  <2>2. TurnsGoOn
    BY <1>2, <1>3, <1>5, <1>7, <1>10 DEF TurnsGoOn
  <2> QED
    BY <2>1, <2>2, <1>10 DEF TurnsTyped
<1>12. log \in Seq(LogRow) /\ Len(log) \in Nat /\ DOMAIN log = 1 .. Len(log)
       /\ \A i \in DOMAIN log : RowFits(turns, log[i])
  BY <1>1 DEF LogTyped
<1>13. log' \in Seq(LogRow) /\ \A i \in DOMAIN log' : log'[i] = row \/ \E k \in DOMAIN log : log'[i] = log[k]
  <2>1. CASE log' = log
    BY <2>1, <1>12
  <2>2. CASE log' = Append(log, row)
    <3>1. /\ log' \in Seq(LogRow) /\ DOMAIN log' = 1 .. Len(log) + 1 /\ log'[Len(log) + 1] = row
          /\ \A i \in 1 .. Len(log) : log'[i] = log[i]
      BY <2>2, <1>8, <1>12, AppendProperties
    <3> QED
      BY <3>1, <1>12
  <2> QED
    BY <2>1, <2>2, <1>9
<1>14. RowFits(turns', row)
  BY <1>4, <1>7, <1>8, <1>10 DEF RowFits
<1>15. LogTyped'
  <2>1. \A k \in DOMAIN log : RowFits(turns', log[k])
    BY <1>1, <1>11, <1>12, RowsStillFit
  <2> QED
    BY <2>1, <1>13, <1>14 DEF LogTyped
<1>16. ChatTyped'
  BY <1>1, <1>5, <1>10 DEF ChatTyped
<1>17. \A read \in reads' : ReadTyped(read)'
  BY <1>1, <1>5, <1>11, RowsStillFit DEF TalkInv, ReadTyped
<1>18. \A u \in DOMAIN turns : /\ turns'[u].conv = turns[u].conv /\ turns'[u].asked = turns[u].asked
                               /\ turns'[u].told = turns[u].told /\ turns'[u].resumed = turns[u].resumed
  BY <1>3, <1>7, <1>10
<1>19. OneConversationIsShown'
  <2> SUFFICES ASSUME ~strayed PROVE OneConversationIsShown'
    BY <1>5 DEF OneConversationIsShown
  <2>1. /\ \A i \in DOMAIN chat.messages : turns[chat.messages[i].turn].conv = chat.conv
        /\ chat.session # 0 => turns[chat.session].conv = chat.conv
        /\ \A u \in DOMAIN turns : \A s \in {turns[u].asked, turns[u].resumed} \ {0} : turns[s].conv = turns[u].conv
        /\ \A i \in DOMAIN log : log[i].conv = chat.conv /\ turns[log[i].turn].told =>
             \E j \in DOMAIN chat.messages : chat.messages[j].turn = log[i].turn
    BY <1>1 DEF OneConversationIsShown
  <2>2. \A i \in DOMAIN chat.messages : turns'[chat.messages[i].turn].conv = chat.conv
    BY <2>1, <1>1, <1>18 DEF ChatTyped
  <2>3. chat.session # 0 => turns'[chat.session].conv = chat.conv
    BY <2>1, <1>1, <1>18 DEF ChatTyped
  <2>4. ASSUME NEW u \in DOMAIN turns, NEW s \in {turns'[u].asked, turns'[u].resumed} \ {0}
        PROVE  turns'[s].conv = turns'[u].conv
    <3>1. s \in {turns[u].asked, turns[u].resumed} \ {0} /\ s \in DOMAIN turns
      BY <2>4, <1>2, <1>18 DEF TurnFits
    <3> QED
      BY <3>1, <2>1, <1>18
  <2>5. ASSUME NEW i \in DOMAIN log', log'[i].conv = chat.conv, turns'[log'[i].turn].told
        PROVE  \E j \in DOMAIN chat.messages : chat.messages[j].turn = log'[i].turn
    <3>1. log'[i] # row
      BY <2>5, <1>3, <1>5, <1>8, <1>18
    <3>2. PICK k \in DOMAIN log : log'[i] = log[k]
      BY <3>1, <1>13
    <3>3. log[k].turn \in DOMAIN turns
      BY <1>12 DEF RowFits
    <3> QED
      BY <3>2, <3>3, <2>1, <2>5, <1>18
  <2> QED
    BY <2>2, <2>3, <2>4, <2>5, <1>5, <1>10 DEF OneConversationIsShown
<1> QED
  BY <1>1, <1>5, <1>11, <1>15, <1>16, <1>17, <1>19 DEF TalkInv, ArchiveTyped

LEMMA AnsweringKeepsTalk ==
  ASSUME TalkInv, NEW t \in DOMAIN turns, TurnAnswered(t)
  PROVE  TalkInv'
<1>1. TurnsTyped /\ ChatTyped /\ LogTyped /\ OneConversationIsShown /\ engine \in Engines
  BY DEF TalkInv
<1>2. /\ turns \in Seq(SentTurn) /\ Len(turns) \in Nat /\ DOMAIN turns = 1 .. Len(turns)
      /\ \A u \in DOMAIN turns : turns[u] \in SentTurn /\ TurnFits(turns, u)
  BY <1>1, SentTurns
<1>3. PICK old \in SentTurn : old = turns[t]
  BY <1>2
<1> DEFINE new == [old EXCEPT !.told = TRUE]
           said == Append(chat.messages, [turn |-> t, role |-> "assistant"])
           session == IF old.outcome = "ok" THEN t ELSE chat.session
<1>4. /\ old.outcome # "none" /\ turns' = [turns EXCEPT ![t] = new] /\ UNCHANGED <<log, archive, engine>>
      /\ strayed' = (strayed \/ old.conv # chat.conv)
  BY <1>3 DEF TurnAnswered
<1>5. /\ new \in SentTurn /\ new.conv = old.conv /\ new.asked = old.asked /\ new.outcome = old.outcome
      /\ new.resumed = old.resumed /\ new.engine = old.engine /\ new.told
  BY DEF SentTurn
<1> HIDE DEF new
<1>6. /\ turns' \in Seq(SentTurn) /\ DOMAIN turns' = DOMAIN turns /\ Len(turns') = Len(turns)
      /\ turns'[t] = new /\ \A u \in DOMAIN turns \ {t} : turns'[u] = turns[u]
  BY <1>2, <1>4, <1>5
<1>7. /\ chat \in ChatState /\ chat.conv \in Nat /\ chat.session \in Nat /\ chat.messages \in Seq(Message)
      /\ chat.session \in {0} \cup DOMAIN turns
      /\ \A i \in DOMAIN chat.messages : chat.messages[i].turn \in DOMAIN turns
  BY <1>1 DEF ChatTyped, ChatState
<1>8. /\ said \in Seq(Message) /\ DOMAIN said = 1 .. Len(chat.messages) + 1 /\ Len(chat.messages) \in Nat
      /\ said[Len(chat.messages) + 1].turn = t
      /\ \A i \in DOMAIN chat.messages : i \in 1 .. Len(chat.messages) /\ said[i] = chat.messages[i]
  <2>1. [turn |-> t, role |-> "assistant"] \in Message
    BY <1>2 DEF Message
  <2> QED
    BY <2>1, <1>7, AppendProperties
<1>9. session \in Nat /\ session \in {0} \cup DOMAIN turns
  BY <1>2, <1>7
<1>10. chat' \in ChatState /\ chat'.conv = chat.conv /\ chat'.session = session /\ chat'.messages = said
  <2> DEFINE one == [chat EXCEPT !.messages = said]
             two == [one EXCEPT !.sending = FALSE]
  <2>1. chat' = [two EXCEPT !.session = session]
    BY <1>3 DEF TurnAnswered
  <2> HIDE DEF session, said
  <2>2. one \in ChatState /\ one.conv = chat.conv /\ one.messages = said
    BY <1>7, <1>8 DEF ChatState
  <2> HIDE DEF one
  <2>3. two \in ChatState /\ two.conv = chat.conv /\ two.messages = said
    BY <2>2 DEF ChatState
  <2> HIDE DEF two
  <2> QED
    BY <2>1, <2>3, <1>9 DEF ChatState
<1> HIDE DEF said
<1>11. TurnsTyped' /\ TurnsGoOn
  <2>1. ASSUME NEW u \in DOMAIN turns PROVE TurnFits(turns', u)
    <3>1. CASE u = t
      BY <3>1, <1>2, <1>3, <1>4, <1>5, <1>6 DEF TurnFits
    <3>2. CASE u # t
      BY <3>2, <1>2, <1>6 DEF TurnFits
    <3> QED
      BY <3>1, <3>2
  <2>2. TurnsGoOn
    BY <1>2, <1>3, <1>5, <1>6 DEF TurnsGoOn
  <2> QED
    BY <2>1, <2>2, <1>6 DEF TurnsTyped
<1>12. \A i \in DOMAIN said : said[i].turn = t \/ \E k \in DOMAIN chat.messages : said[i] = chat.messages[k]
  <2>1. DOMAIN chat.messages = 1 .. Len(chat.messages)
    BY <1>7
  <2> QED
    BY <2>1, <1>8
<1>13. ChatTyped'
  BY <1>6, <1>7, <1>9, <1>10, <1>12 DEF ChatTyped
<1>14. \A read \in reads' : read \in reads \/ ReadTyped(read)'
  <2>1. CASE UNCHANGED reads
    BY <2>1
  <2>2. CASE ~UNCHANGED reads
    <3>1. PICK r : r = [kind |-> "list", convs |-> Listed]
      OBVIOUS
    <3>2. reads' = reads \cup {r}
      BY <2>2, <3>1 DEF TurnAnswered, Ask
    <3>3. \A i \in DOMAIN log : log[i] \in LogRow
      BY <1>1 DEF LogTyped
    <3>4. Listed \subseteq Nat
      BY <3>3 DEF Listed, LogRow
    <3>5. ReadTyped(r)'
      BY <3>1, <3>4 DEF ReadTyped
    <3> QED
      BY <3>2, <3>5
  <2> QED
    BY <2>1, <2>2
<1>15. \A u \in DOMAIN turns : /\ turns'[u].conv = turns[u].conv /\ turns'[u].asked = turns[u].asked
                               /\ turns'[u].resumed = turns[u].resumed
                               /\ u # t => turns'[u].told = turns[u].told
  BY <1>3, <1>5, <1>6
<1>16. \A i \in DOMAIN log : log[i].turn \in DOMAIN turns
  BY <1>1 DEF LogTyped, RowFits
<1>17. OneConversationIsShown'
  <2> SUFFICES ASSUME ~strayed, old.conv = chat.conv PROVE OneConversationIsShown'
    BY <1>4 DEF OneConversationIsShown
  <2>1. /\ \A i \in DOMAIN chat.messages : turns[chat.messages[i].turn].conv = chat.conv
        /\ chat.session # 0 => turns[chat.session].conv = chat.conv
        /\ \A u \in DOMAIN turns : \A s \in {turns[u].asked, turns[u].resumed} \ {0} : turns[s].conv = turns[u].conv
        /\ \A i \in DOMAIN log : log[i].conv = chat.conv /\ turns[log[i].turn].told =>
             \E j \in DOMAIN chat.messages : chat.messages[j].turn = log[i].turn
    BY <1>1 DEF OneConversationIsShown
  <2>2. \A i \in DOMAIN said : turns'[said[i].turn].conv = chat.conv
    BY <2>1, <1>3, <1>7, <1>12, <1>15
  <2>3. session # 0 => turns'[session].conv = chat.conv
    BY <2>1, <1>3, <1>7, <1>15
  <2>4. ASSUME NEW u \in DOMAIN turns, NEW s \in {turns'[u].asked, turns'[u].resumed} \ {0}
        PROVE  turns'[s].conv = turns'[u].conv
    <3>1. s \in {turns[u].asked, turns[u].resumed} \ {0} /\ s \in DOMAIN turns
      BY <2>4, <1>2, <1>15 DEF TurnFits
    <3> QED
      BY <3>1, <2>1, <1>15
  <2>5. ASSUME NEW i \in DOMAIN log, log[i].conv = chat.conv, turns'[log[i].turn].told
        PROVE  \E j \in DOMAIN said : said[j].turn = log[i].turn
    <3>1. CASE log[i].turn = t
      <4>1. Len(chat.messages) + 1 \in DOMAIN said
        BY <1>8
      <4> QED
        BY <3>1, <4>1, <1>8
    <3>2. CASE log[i].turn # t
      <4>1. PICK j \in DOMAIN chat.messages : chat.messages[j].turn = log[i].turn
        BY <3>2, <2>1, <2>5, <1>15, <1>16
      <4>2. j \in DOMAIN said /\ said[j] = chat.messages[j]
        BY <1>8
      <4> QED
        BY <4>1, <4>2
    <3> QED
      BY <3>1, <3>2
  <2> HIDE DEF session
  <2> QED
    BY <2>2, <2>3, <2>4, <2>5, <1>4, <1>6, <1>10 DEF OneConversationIsShown
<1> QED
  BY <1>1, <1>4, <1>11, <1>13, <1>14, <1>17, FrameFits DEF TalkInv

LEMMA TalkGoesOn ==
  ASSUME TalkInv, [ChatNext]_chatVars
  PROVE  TalkInv'
<1>1. CASE UNCHANGED chatVars
  <2>1. engine' \in Engines
    BY <1>1 DEF chatVars, TalkInv
  <2> QED
    BY <1>1, <2>1, AskingKeepsTalk DEF chatVars
<1>2. CASE ClearChat
  BY <1>2, AskingKeepsTalk DEF ClearChat, TalkInv
<1>3. CASE LoadHistory
  <2>1. PICK r : r = [kind |-> "list", convs |-> Listed]
    OBVIOUS
  <2>2. reads' = reads \cup {r} /\ UNCHANGED <<chat, turns, log, archive, engine, strayed>>
    BY <1>3, <2>1 DEF LoadHistory, Ask
  <2>3. ReadTyped(r)'
    BY <2>1, <2>2, ListsAreTyped
  <2>4. engine' \in Engines
    BY <2>2 DEF TalkInv
  <2> QED
    BY <2>2, <2>3, <2>4, AskingKeepsTalk
<1>4. ASSUME NEW e \in Engines, RouteTo(e) PROVE TalkInv'
  BY <1>4, AskingKeepsTalk DEF RouteTo
<1>5. ASSUME NEW conv \in archive.convs, SwitchTo(conv) \/ RemoveConversation(conv) PROVE TalkInv'
  BY <1>5, OpeningIsAsked, RemovingKeepsTalk
<1>6. ASSUME NEW t \in DOMAIN turns, StartTurn(t) \/ TurnEnds(t) \/ TurnAnswered(t) PROVE TalkInv'
  BY <1>6, StartingKeepsTalk, EndingKeepsTalk, AnsweringKeepsTalk
<1>7. CASE ReadArrives
  BY <1>7, OpeningKeepsTalk, ListingKeepsTalk DEF ReadArrives
<1>8. CASE ChatSend
  BY <1>8, SendingKeepsTalk
<1> HIDE DEF TalkInv
<1> QED
  BY <1>1, <1>2, <1>3, <1>4, <1>5, <1>6, <1>7, <1>8 DEF ChatNext

\* While nothing strays the panel shows one conversation with every answer of it that
\* is filed, and no turn continues another conversation's session, for any number of
\* turns: a row keeps the conversation and the session its turn ended with, and what
\* is opened is all the rows of one conversation.
THEOREM OneConversationIsAlwaysShown == ChatSpec => []OneConversationIsShown
<1>1. ChatInit => TalkInv
  BY TalkAtFirst
<1>2. TalkInv /\ [ChatNext]_chatVars => TalkInv'
  BY TalkGoesOn
<1>3. TalkInv => OneConversationIsShown
  BY DEF TalkInv
<1> QED
  BY <1>1, <1>2, <1>3, PTL DEF ChatSpec

\* Only sending adds a turn.
LEMMA TurnsAreCapped ==
  TalkInv /\ Len(turns) <= MaxTurns /\ [ChatNext]_chatVars => (Len(turns) <= MaxTurns)'
<1> SUFFICES ASSUME TalkInv, Len(turns) <= MaxTurns, [ChatNext]_chatVars PROVE Len(turns') <= MaxTurns
  OBVIOUS
<1>1. turns \in Seq(SentTurn)
  BY DEF TalkInv, TurnsTyped
<1>2. CASE ChatSend
  BY <1>1, <1>2 DEF ChatSend
<1>3. CASE UNCHANGED turns
  BY <1>3
<1>4. ASSUME NEW t \in DOMAIN turns, StartTurn(t) \/ TurnEnds(t) \/ TurnAnswered(t) PROVE Len(turns') <= MaxTurns
  <2>1. PICK turn : turns' = [turns EXCEPT ![t] = turn]
    BY <1>4 DEF StartTurn, TurnEnds, TurnAnswered
  <2> QED
    BY <1>1, <2>1
<1>5. ASSUME \/ ClearChat \/ LoadHistory \/ ReadArrives \/ UNCHANGED chatVars
             \/ \E conv \in archive.convs : SwitchTo(conv) \/ RemoveConversation(conv)
             \/ \E e \in Engines \ {engine} : RouteTo(e)
      PROVE  UNCHANGED turns
  BY <1>5 DEF ClearChat, LoadHistory, ReadArrives, chatVars, SwitchTo, RemoveConversation, RouteTo, Opened, ShowList
<1> QED
  BY <1>2, <1>3, <1>4, <1>5 DEF ChatNext

\* The panel shows halves of turns that were sent, and a turn keeps its type from the
\* message to the answer, for any engines and bounds.
THEOREM ChatTypeCorrect == ChatSpec => []ChatTypeOK
<1>1. ChatInit => Len(turns) <= MaxTurns
  BY ConversationsConstants DEF ChatInit
<1>2. TalkInv /\ Len(turns) <= MaxTurns => ChatTypeOK
  <2> SUFFICES ASSUME TalkInv, Len(turns) <= MaxTurns PROVE ChatTypeOK
    OBVIOUS
  <2>1. turns \in Seq(SentTurn) /\ chat \in ChatState /\ engine \in Engines
    BY DEF TalkInv, TurnsTyped, ChatTyped
  <2>2. turns \in Seq(Turn)
    <3>1. SentTurn \subseteq Turn
      BY DEF SentTurn, Turn
    <3> QED
      BY <2>1, <3>1
  <2>3. PICK shown : shown = chat.messages
    OBVIOUS
  <2>4. shown \in Seq(Message) /\ chat.conv \in Nat /\ chat.session \in Nat /\ chat.sending \in BOOLEAN
    BY <2>1, <2>3 DEF ChatState
  <2>5. ASSUME NEW i \in 1 .. Len(shown)
        PROVE  shown[i] \in [turn : 1 .. MaxTurns, role : {"user", "assistant"}]
    <3>1. shown[i] \in Message
      BY <2>4
    <3>2. shown[i].turn \in DOMAIN turns
      BY <2>3, <2>4 DEF TalkInv, ChatTyped
    <3>3. shown[i].turn \in 1 .. MaxTurns
      BY <2>1, <3>2, ConversationsConstants
    <3> QED
      BY <3>1, <3>3 DEF Message
  <2>6. shown \in Seq([turn : 1 .. MaxTurns, role : {"user", "assistant"}])
    <3>1. PICK T : T = [turn : 1 .. MaxTurns, role : {"user", "assistant"}]
      OBVIOUS
    <3>2. \A i \in 1 .. Len(shown) : shown[i] \in T
      BY <2>5, <3>1
    <3>3. PICK M : M = Message
      OBVIOUS
    <3>4. shown \in Seq(M)
      BY <2>4, <3>3
    <3>5. shown \in Seq(T)
      BY <3>2, <3>4
    <3> QED
      BY <3>1, <3>5
  <2> QED
    BY <2>1, <2>2, <2>3, <2>4, <2>6 DEF ChatTypeOK
<1> QED
  BY <1>1, <1>2, TalkAtFirst, TalkGoesOn, TurnsAreCapped, PTL DEF ChatSpec

------------------------------------------------------------------------------
(* Of Editor.                                                              *)

BufferRecord == [content : Text, original : Text, loading : BOOLEAN, preview : BOOLEAN]
Buffers(b) == DOMAIN b \subseteq Files /\ b \in [DOMAIN b -> BufferRecord]
FileCallRecord(c) ==
  c = [at |-> c.at, kind |-> c.kind, file |-> c.file, project |-> c.project, text |-> c.text, id |-> c.id]
Asked(c) == FileCallRecord(c) /\ c.file \in Files /\ c.project \in Projects /\ c.text \in Text

\* What a clean tab may hold.
Settled(f) == everOnDisk[f] \cup {ErrorText}
Fetched(c) == c.at = "answered" => c.text \in IF c.kind = "open" THEN Settled(c.file) ELSE everOnDisk[c.file]

DiskInv ==
  /\ onDisk \in [Projects -> [Files -> Text]] /\ everOnDisk \in [Files -> SUBSET Text]
  /\ \A p \in Projects, f \in Files : onDisk[p][f] \in everOnDisk[f]
CleanInv ==
  /\ project \in Projects /\ editorOps \in Nat /\ DiskInv /\ Buffers(buffers)
  /\ \A c \in fileCalls : Asked(c) /\ Fetched(c)
  /\ CleanIsOnDisk

LEMMA TextTypes == Blank \in Text /\ ErrorText \in Text
BY DEF Blank, ErrorText, Text

LEMMA CleanAtFirst == EditorInit => CleanInv
<1> SUFFICES ASSUME EditorInit PROVE CleanInv
  OBVIOUS
<1>1. project \in Projects /\ editorOps \in Nat /\ Buffers(buffers) /\ fileCalls = {}
  BY EditorConstants DEF EditorInit, Buffers
<1>2. DiskInv
  BY DEF EditorInit, DiskInv, Text
<1>3. DOMAIN buffers = {}
  BY DEF EditorInit
<1> QED
  BY <1>1, <1>2, <1>3 DEF CleanInv, CleanIsOnDisk

\* Closing tabs forgets buffers, and changes none.
LEMMA KeptBuffers ==
  ASSUME Buffers(buffers), NEW files
  PROVE  /\ Buffers(Kept(files)) /\ DOMAIN Kept(files) = DOMAIN buffers \cap files
         /\ \A f \in DOMAIN Kept(files) : Kept(files)[f] = buffers[f]
BY DEF Buffers, Kept

\* What of the invariant does not see the panes.
LEMMA CleanWithFewerBuffers ==
  ASSUME CleanInv, UNCHANGED <<project, onDisk, everOnDisk>>, editorOps' \in Nat,
         fileCalls' \subseteq fileCalls,
         Buffers(buffers'), DOMAIN buffers' \subseteq DOMAIN buffers,
         \A f \in DOMAIN buffers' :
           buffers'[f].loading = buffers[f].loading /\ buffers'[f].original = buffers[f].original
  PROVE  CleanInv'
BY DEF CleanInv, DiskInv, CleanIsOnDisk, Settled, Fetched, Asked, FileCallRecord

LEMMA AskedCalls ==
  ASSUME CleanInv, NEW kind, NEW files \in SUBSET Files, NEW text \in Text, AskCore(kind, files, text),
         UNCHANGED everOnDisk
  PROVE  \A c \in fileCalls' : Asked(c) /\ Fetched(c)'
<1> SUFFICES ASSUME NEW c \in fileCalls' PROVE Asked(c) /\ Fetched(c)'
  OBVIOUS
<1>1. CASE c \in fileCalls
  BY <1>1 DEF CleanInv, Fetched, Settled
<1>2. CASE c \notin fileCalls
  <2>1. PICK f, i : f \in files /\ c = [at |-> "asked", kind |-> kind, file |-> f, project |-> project,
                                                  text |-> text, id |-> i]
    BY <1>2, Zenon DEF AskCore
  <2> QED
    BY <2>1 DEF CleanInv, Asked, FileCallRecord, Fetched
<1> QED
  BY <1>1, <1>2

LEMMA OpeningKeepsClean ==
  ASSUME CleanInv, NEW f \in Files, NEW pin \in BOOLEAN, OpenFile(f, pin), editorOps' \in Nat
  PROVE  CleanInv'
<1> DEFINE k == IF PaneOf(panes, focus) = {} THEN 1 ELSE Min(PaneOf(panes, focus))
           strip == panes[k].files
           previews == {i \in DOMAIN strip : ~pin /\ f \notin ToSet(strip) /\ strip[i] \in DOMAIN buffers
                                             /\ buffers[strip[i]].preview}
           evicted == IF previews = {} THEN {} ELSE {strip[Min(previews)]}
           opened == CASE f \in ToSet(strip) -> strip
                       [] previews # {} -> [strip EXCEPT ![Min(previews)] = f]
                       [] OTHER -> Append(strip, f)
           next == [panes EXCEPT ![k].files = opened, ![k].active = f]
           spared == Files \ (evicted \ Shown(next))
           Opening(files) == IF f \in DOMAIN buffers
                             THEN /\ buffers' = IF pin THEN [Kept(files) EXCEPT ![f].preview = FALSE] ELSE Kept(files)
                                  /\ UNCHANGED fileCalls
                             ELSE /\ buffers' = [g \in DOMAIN Kept(files) \cup {f} |-> IF g # f THEN Kept(files)[g] ELSE
                                         [content |-> Blank, original |-> Blank, loading |-> TRUE, preview |-> ~pin]]
                                  /\ AskCore("open", {f}, Blank)
<1>0. Opening(spared)
  BY DEF OpenFile
<1> HIDE DEF spared
<1>1. PICK files : Opening(files)
  BY <1>0
<1>2. UNCHANGED <<project, onDisk, everOnDisk>>
  BY DEF OpenFile
<1> DEFINE kept == Kept(files)
<1>3. /\ Buffers(buffers) /\ Buffers(kept) /\ DOMAIN kept \subseteq DOMAIN buffers
      /\ \A g \in DOMAIN kept : kept[g] = buffers[g]
  BY KeptBuffers DEF CleanInv
<1>4. CASE f \in DOMAIN buffers /\ ~pin
  BY <1>1, <1>2, <1>3, <1>4, CleanWithFewerBuffers
<1>5. CASE f \in DOMAIN buffers /\ pin
  <2>1. buffers' = [kept EXCEPT ![f].preview = FALSE] /\ UNCHANGED fileCalls
    BY <1>1, <1>5
  <2> HIDE DEF kept
  <2>2. Buffers(buffers') /\ DOMAIN buffers' = DOMAIN kept
    BY <2>1, <1>3 DEF Buffers, BufferRecord
  <2>3. \A g \in DOMAIN kept : buffers'[g].loading = kept[g].loading /\ buffers'[g].original = kept[g].original
    BY <2>1, <1>3 DEF Buffers, BufferRecord
  <2> QED
    BY <2>1, <2>2, <2>3, <1>2, <1>3, CleanWithFewerBuffers
<1>6. CASE f \notin DOMAIN buffers
  <2> HIDE DEF kept
  <2> DEFINE new == [content |-> Blank, original |-> Blank, loading |-> TRUE, preview |-> ~pin]
  <2>1. buffers' = [g \in DOMAIN kept \cup {f} |-> IF g # f THEN kept[g] ELSE new] /\ AskCore("open", {f}, Blank)
    BY <1>1, <1>6 DEF kept
  <2>2. new \in BufferRecord /\ new.loading
    BY TextTypes DEF BufferRecord
  <2> HIDE DEF new
  <2>3. Buffers(buffers')
    BY <2>1, <2>2, <1>3 DEF Buffers
  <2>4. CleanIsOnDisk'
    <3> SUFFICES ASSUME NEW g \in DOMAIN buffers', ~buffers'[g].loading
                 PROVE  buffers'[g].original \in everOnDisk'[g] \cup {ErrorText}
      BY DEF CleanIsOnDisk
    <3>1. g \in DOMAIN kept /\ buffers'[g] = buffers[g] /\ g \in DOMAIN buffers
      BY <2>1, <2>2, <1>3, <1>6
    <3> QED
      BY <3>1, <1>2 DEF CleanInv, CleanIsOnDisk
  <2>5. \A c \in fileCalls' : Asked(c) /\ Fetched(c)'
    BY <2>1, <1>2, TextTypes, AskedCalls
  <2>6. project' \in Projects /\ DiskInv'
    BY <1>2 DEF CleanInv, DiskInv
  <2> QED
    BY <2>3, <2>4, <2>5, <2>6 DEF CleanInv
<1> QED
  BY <1>4, <1>5, <1>6

\* Whatever closes tabs, or asks about them.
LEMMA ClosingKeepsClean ==
  ASSUME CleanInv, UNCHANGED <<project, onDisk, everOnDisk, fileCalls>>, editorOps' \in Nat,
         NEW files, buffers' \in {buffers, Kept(files)}
  PROVE  CleanInv'
<1>1. Buffers(buffers)
  BY DEF CleanInv
<1> QED
  BY <1>1, KeptBuffers, CleanWithFewerBuffers

LEMMA TypingKeepsClean ==
  ASSUME CleanInv, NEW f, TypeIn(f), editorOps' \in Nat
  PROVE  CleanInv'
<1> DEFINE text == [of |-> buffers[f].content.of, n |-> editorOps + 2]
<1>1. f \in DOMAIN buffers /\ Buffers(buffers) /\ buffers[f] \in BufferRecord
  BY DEF TypeIn, CleanInv, Buffers
<1>2. text \in Text
  BY <1>1 DEF CleanInv, BufferRecord, Text
<1> DEFINE half == [buffers[f] EXCEPT !.content = text]
<1> DEFINE typed == [half EXCEPT !.preview = FALSE]
<1>3. half \in BufferRecord /\ half.loading = buffers[f].loading /\ half.original = buffers[f].original
  BY <1>1, <1>2 DEF BufferRecord
<1>4. buffers' = [buffers EXCEPT ![f] = typed]
  BY <1>1 DEF TypeIn
<1> HIDE DEF half, text
<1>5. typed \in BufferRecord /\ typed.loading = buffers[f].loading /\ typed.original = buffers[f].original
  BY <1>3 DEF BufferRecord
<1> HIDE DEF typed
<1>6. Buffers(buffers') /\ DOMAIN buffers' = DOMAIN buffers
  BY <1>1, <1>4, <1>5 DEF Buffers
<1>7. \A g \in DOMAIN buffers : buffers'[g].loading = buffers[g].loading /\ buffers'[g].original = buffers[g].original
  BY <1>1, <1>4, <1>5 DEF Buffers
<1> QED
  BY <1>6, <1>7, CleanWithFewerBuffers DEF TypeIn

LEMMA AskingKeepsClean ==
  ASSUME CleanInv, UNCHANGED <<project, onDisk, everOnDisk, buffers>>, editorOps' \in Nat,
         NEW kind, NEW files \in SUBSET Files, NEW text \in Text, AskCore(kind, files, text)
  PROVE  CleanInv'
<1>1. \A c \in fileCalls' : Asked(c) /\ Fetched(c)'
  BY AskedCalls
<1> QED
  BY <1>1 DEF CleanInv, DiskInv, CleanIsOnDisk

LEMMA WritingKeepsClean ==
  ASSUME CleanInv, NEW p \in Projects, NEW f \in Files, NEW text \in Text, WriteFile(p, f, text)
  PROVE  /\ DiskInv' /\ text \in everOnDisk'[f]
         /\ \A g \in Files : everOnDisk[g] \subseteq everOnDisk'[g]
<1> USE DEF CleanInv, DiskInv
<1>1. onDisk' \in [Projects -> [Files -> Text]]
  BY DEF WriteFile
<1>2. everOnDisk' = [everOnDisk EXCEPT ![f] = everOnDisk[f] \cup {text}]
  BY DEF WriteFile
<1>3. everOnDisk' \in [Files -> SUBSET Text] /\ text \in everOnDisk'[f]
      /\ \A g \in Files : everOnDisk[g] \subseteq everOnDisk'[g]
  BY <1>2
<1>4. \A q \in Projects, g \in Files : onDisk'[q][g] = IF q = p /\ g = f THEN text ELSE onDisk[q][g]
  BY DEF WriteFile
<1> QED
  BY <1>1, <1>3, <1>4

LEMMA CleanAsTextsAreAdded ==
  ASSUME CleanInv, UNCHANGED <<project, buffers>>, editorOps' \in Nat, DiskInv',
         \A f \in Files : everOnDisk[f] \subseteq everOnDisk'[f],
         \A c \in fileCalls' : Asked(c) /\ (c \in fileCalls \/ Fetched(c)')
  PROVE  CleanInv'
<1>1. \A c \in fileCalls' : Fetched(c)'
  BY DEF CleanInv, Fetched, Settled, Asked
<1>2. CleanIsOnDisk'
  BY DEF CleanInv, CleanIsOnDisk, Buffers
<1> QED
  BY <1>1, <1>2 DEF CleanInv

LEMMA AnswerRecord ==
  ASSUME NEW c, Asked(c), NEW text \in Text
  PROVE  LET a == [c EXCEPT !.at = "answered", !.text = text] IN
           Asked(a) /\ a.at = "answered" /\ a.text = text /\ a.kind = c.kind /\ a.file = c.file
<1> DEFINE half == [c EXCEPT !.at = "answered"]
<1>1. half = [at |-> "answered", kind |-> c.kind, file |-> c.file, project |-> c.project,
              text |-> c.text, id |-> c.id]
  BY DEF Asked, FileCallRecord
<1> HIDE DEF half
<1>2. [half EXCEPT !.text = text] = [at |-> "answered", kind |-> c.kind, file |-> c.file, project |-> c.project,
                                     text |-> text, id |-> c.id]
  BY <1>1
<1>3. [c EXCEPT !.at = "answered", !.text = text] = [half EXCEPT !.text = text]
  BY DEF half
<1> QED
  BY <1>2, <1>3 DEF Asked, FileCallRecord

LEMMA ReadingKeepsClean ==
  ASSUME CleanInv, NEW c \in fileCalls, FileRead(c), UNCHANGED <<project, buffers, editorOps>>
  PROVE  CleanInv'
<1> DEFINE text == onDisk[c.project][c.file]
<1>0. PICK a : a = [c EXCEPT !.at = "answered", !.text = text]
  OBVIOUS
<1>1. Asked(c) /\ text \in Text /\ text \in everOnDisk[c.file]
  BY DEF CleanInv, DiskInv, Asked
<1>2. fileCalls' = (fileCalls \ {c}) \cup {a} /\ UNCHANGED <<onDisk, everOnDisk>>
  BY <1>0 DEF FileRead, Reply
<1>3. Asked(a) /\ a.text = text /\ a.file = c.file
  BY <1>0, <1>1, AnswerRecord
<1>4. DiskInv' /\ editorOps' \in Nat
  BY <1>2 DEF CleanInv, DiskInv
<1>5. Fetched(a)'
  <2>1. a.text \in everOnDisk'[a.file]
    BY <1>1, <1>2, <1>3
  <2> QED
    BY <2>1 DEF Fetched, Settled
<1> QED
  BY <1>2, <1>3, <1>4, <1>5, CleanAsTextsAreAdded DEF CleanInv

LEMMA WrittenKeepsClean ==
  ASSUME CleanInv, NEW c \in fileCalls, FileWritten(c), UNCHANGED <<project, buffers, editorOps>>
  PROVE  CleanInv'
<1> DEFINE a == [c EXCEPT !.at = "answered", !.text = c.text]
<1>1. Asked(c) /\ c.kind = "save"
  BY DEF CleanInv, FileWritten
<1>2. fileCalls' = (fileCalls \ {c}) \cup {a} /\ WriteFile(c.project, c.file, c.text)
  BY DEF FileWritten, Reply
<1>3. Asked(a) /\ a.text = c.text /\ a.file = c.file /\ a.kind = c.kind
  BY <1>1, AnswerRecord DEF Asked
<1> HIDE DEF a
<1>4. /\ DiskInv' /\ c.text \in everOnDisk'[c.file]
      /\ \A g \in Files : everOnDisk[g] \subseteq everOnDisk'[g]
  BY <1>1, <1>2, WritingKeepsClean DEF Asked
<1>5. Fetched(a)' /\ editorOps' \in Nat
  BY <1>1, <1>3, <1>4 DEF Fetched, Settled, CleanInv
<1> QED
  BY <1>2, <1>3, <1>4, <1>5, CleanAsTextsAreAdded DEF CleanInv

LEMMA FailingKeepsClean ==
  ASSUME CleanInv, NEW c \in fileCalls, CallFails(c), editorOps' \in Nat
  PROVE  CleanInv'
<1> DEFINE a == [c EXCEPT !.at = "answered", !.text = ErrorText]
<1>1. Asked(c) /\ UNCHANGED <<project, onDisk, buffers, everOnDisk>> /\ DiskInv'
  BY DEF CleanInv, DiskInv, CallFails
<1>2. CASE c.kind = "open"
  <2>1. fileCalls' = (fileCalls \ {c}) \cup {a}
    BY <1>2 DEF CallFails, Reply
  <2>2. Asked(a) /\ a.text = ErrorText /\ a.kind = "open"
    BY <1>1, <1>2, TextTypes, AnswerRecord
  <2> HIDE DEF a
  <2>3. Fetched(a)'
    BY <2>2 DEF Fetched, Settled
  <2> QED
    BY <1>1, <2>1, <2>2, <2>3, CleanAsTextsAreAdded DEF CleanInv
<1>3. CASE c.kind # "open"
  <2>1. fileCalls' \subseteq fileCalls
    BY <1>3 DEF CallFails
  <2> QED
    BY <1>1, <2>1, CleanAsTextsAreAdded DEF CleanInv
<1> QED
  BY <1>2, <1>3

\* The one place where a tab becomes clean.
LEMMA LandingKeepsClean ==
  ASSUME CleanInv, NEW c \in fileCalls, CallLands(c), UNCHANGED <<project, onDisk, everOnDisk, editorOps>>
  PROVE  CleanInv'
<1> DEFINE f == c.file
<1>1. Asked(c) /\ Fetched(c) /\ c.at = "answered" /\ c.text \in Text /\ c.text \in Settled(f)
  BY DEF CleanInv, CallLands, Asked, Fetched, Settled
<1>2. fileCalls' = fileCalls \ {c} /\ Lands(c) /\ Buffers(buffers)
  BY DEF CallLands, CleanInv
<1>3. \A d \in fileCalls' : Asked(d) /\ Fetched(d)'
  BY <1>2 DEF CleanInv, Fetched, Settled
<1>4. project' \in Projects /\ editorOps' \in Nat /\ DiskInv'
  BY DEF CleanInv, DiskInv
<1>5. ASSUME NEW value \in BufferRecord, Patch(f, value), f \in DOMAIN buffers,
             ~value.loading => value.original \in Settled(f)
      PROVE  CleanInv'
  <2>1. Buffers(buffers') /\ DOMAIN buffers' = DOMAIN buffers
    BY <1>2, <1>5 DEF Buffers, Patch
  <2>2. CleanIsOnDisk'
    <3> SUFFICES ASSUME NEW g \in DOMAIN buffers', ~buffers'[g].loading
                 PROVE  buffers'[g].original \in everOnDisk[g] \cup {ErrorText}
      BY DEF CleanIsOnDisk
    <3>1. CASE g = f
      BY <3>1, <1>5 DEF Patch, Settled
    <3>2. CASE g # f
      BY <3>2, <1>5, <2>1 DEF Patch, CleanInv, CleanIsOnDisk
    <3> QED
      BY <3>1, <3>2
  <2> QED
    BY <2>1, <2>2, <1>3, <1>4 DEF CleanInv
<1>6. CASE UNCHANGED buffers
  BY <1>6, <1>3, <1>4 DEF CleanInv, CleanIsOnDisk
<1>7. CASE f \in DOMAIN buffers /\ c.kind = "save"
  <2> DEFINE value == [buffers[f] EXCEPT !.original = c.text]
  <2>1. buffers[f] \in BufferRecord
    BY <1>2, <1>7 DEF Buffers
  <2>2. value \in BufferRecord /\ value.original = c.text
    BY <2>1, <1>1 DEF BufferRecord
  <2>3. Patch(f, value)
    BY <1>2, <1>7 DEF Lands
  <2> HIDE DEF value
  <2> QED
    BY <2>2, <2>3, <1>1, <1>5, <1>7
<1>8. CASE f \in DOMAIN buffers /\ c.kind # "save" /\ (c.kind = "open" \/ ~Dirty(f))
  <2> DEFINE on == buffers[f].loading /\ c.kind = "reload"
  <2> DEFINE one == [buffers[f] EXCEPT !.content = c.text]
  <2> DEFINE two == [one EXCEPT !.original = c.text]
  <2> DEFINE value == [two EXCEPT !.loading = on]
  <2>1. buffers[f] \in BufferRecord
    BY <1>2, <1>8 DEF Buffers
  <2>2. Patch(f, value)
    BY <1>2, <1>8 DEF Lands
  <2>3. one \in BufferRecord
    BY <2>1, <1>1 DEF BufferRecord
  <2> HIDE DEF one
  <2>4. two \in BufferRecord /\ two.original = c.text
    BY <2>3, <1>1 DEF BufferRecord
  <2> HIDE DEF two
  <2>5. on \in BOOLEAN
    BY <2>1 DEF BufferRecord
  <2> HIDE DEF on
  <2>6. value \in BufferRecord /\ value.original = c.text
    BY <2>4, <2>5 DEF BufferRecord
  <2> HIDE DEF value
  <2> QED
    BY <2>2, <2>6, <1>1, <1>5, <1>8
<1> QED
  BY <1>2, <1>6, <1>7, <1>8 DEF Lands

LEMMA TheEditorKeepsClean ==
  ASSUME CleanInv, [EditorNext]_editorVars
  PROVE  CleanInv'
<1>1. CASE UNCHANGED editorVars
  BY <1>1, CleanWithFewerBuffers DEF editorVars, CleanInv
<1>2. CASE EditorNext
  <2> editorOps' \in Nat
    BY <1>2 DEF EditorNext, CleanInv
  <2>1. ASSUME NEW f \in Files, NEW pin \in BOOLEAN, OpenFile(f, pin) PROVE CleanInv'
    BY <2>1, OpeningKeepsClean
  <2>2. ASSUME NEW id, NEW f, CloseFileTab(id, f) PROVE CleanInv'
    BY <2>2, ClosingKeepsClean DEF CloseFileTab, CloseView
  <2>3. ASSUME NEW id, CloseGroup(id) PROVE CleanInv'
    BY <2>3, ClosingKeepsClean DEF CloseGroup, CloseAll
  <2>4. CASE Confirm \/ Decline
    BY <2>4, ClosingKeepsClean DEF Confirm, Decline, CloseView, CloseAll
  <2>5. ASSUME Rearranged PROVE CleanInv'
    BY <2>5, ClosingKeepsClean DEF Rearranged
  <2>6. ASSUME NEW f, Save(f) PROVE CleanInv'
    <3>1. f \in Files /\ buffers[f].content \in Text
      BY <2>6 DEF Save, Dirty, CleanInv, Buffers, BufferRecord
    <3> QED
      BY <3>1, <2>6, AskingKeepsClean DEF Save
  <2>7. ASSUME NEW p \in Projects, SelectProject(p) PROVE CleanInv'
    <3>1. buffers' = <<>> /\ DOMAIN buffers' = {} /\ Buffers(buffers')
      BY <2>7 DEF SelectProject, Buffers
    <3>2. project' \in Projects /\ UNCHANGED <<onDisk, everOnDisk, fileCalls>>
      BY <2>7 DEF SelectProject
    <3>3. DiskInv' /\ CleanIsOnDisk'
      BY <3>1, <3>2 DEF CleanInv, DiskInv, CleanIsOnDisk
    <3>4. \A c \in fileCalls' : Asked(c) /\ Fetched(c)'
      BY <3>2 DEF CleanInv, Fetched, Settled
    <3> QED
      BY <3>1, <3>2, <3>3, <3>4 DEF CleanInv
  <2>8. ASSUME NEW f \in Files, EditElsewhere(f) PROVE CleanInv'
    <3> DEFINE text == [of |-> project, n |-> editorOps + 2]
    <3>1. text \in Text /\ project \in Projects
      BY DEF CleanInv, Text
    <3>2. WriteFile(project, f, text) /\ UNCHANGED <<project, buffers, fileCalls>>
      BY <2>8 DEF EditElsewhere
    <3> HIDE DEF text
    <3> QED
      BY <3>1, <3>2, WritingKeepsClean, CleanAsTextsAreAdded DEF CleanInv
  <2>9. CASE FsChangedArrives
    <3>1. PICK files \in SUBSET Files : AskCore("reload", files, Blank)
      BY <2>9 DEF FsChangedArrives, CleanInv, Buffers
    <3> QED
      BY <2>9, <3>1, TextTypes, AskingKeepsClean DEF FsChangedArrives
  <2>10. ASSUME NEW c \in fileCalls, CallFails(c) PROVE CleanInv'
    BY <2>10, FailingKeepsClean
  <2>11. ASSUME NEW c \in fileCalls, FileRead(c) \/ FileWritten(c), UNCHANGED <<project, buffers, editorOps>>
         PROVE  CleanInv'
    BY <2>11, ReadingKeepsClean, WrittenKeepsClean
  <2>12. ASSUME NEW c \in fileCalls, CallLands(c), UNCHANGED <<project, onDisk, everOnDisk, editorOps>>
         PROVE  CleanInv'
    BY <2>12, LandingKeepsClean
  <2>13. ASSUME NEW f, TypeIn(f) PROVE CleanInv'
    BY <2>13, TypingKeepsClean
  <2>14. ASSUME NEW k, NEW f, NEW to, NEW i, SplitGroup(k) \/ DropTab(k, f, to, i) \/ SetGroupActive(k, f)
         PROVE  CleanInv'
    BY <2>14, <2>5 DEF SplitGroup, DropTab, SetGroupActive
  <2> HIDE DEF CleanInv
  <2> QED
    BY <1>2, <2>1, <2>2, <2>3, <2>4, <2>6, <2>7, <2>8, <2>9, <2>10, <2>11, <2>12, <2>13, <2>14 DEF EditorNext
<1> QED
  BY <1>1, <1>2

\* A tab without the mark holds what has been on disk, for any projects, files and
\* bounds: what a read or a write brings back was on disk when it was answered, and
\* nothing else than those answers makes a tab clean.
THEOREM CleanIsAlwaysOnDisk == EditorSpec => []CleanIsOnDisk
<1>1. EditorInit => CleanInv
  BY CleanAtFirst
<1>2. CleanInv /\ [EditorNext]_editorVars => CleanInv'
  BY TheEditorKeepsClean
<1>3. CleanInv => CleanIsOnDisk
  BY DEF CleanInv
<1> QED
  BY <1>1, <1>2, <1>3, PTL DEF EditorSpec

------------------------------------------------------------------------------
Pane == [id : Nat, files : Seq(Files), active : Files \cup {NoFile}]
WellPane(g) ==
  /\ g \in Pane /\ IsInjective(g.files)
  /\ g.active \in IF g.files = <<>> THEN {NoFile} ELSE ToSet(g.files)
Row(groups) ==
  /\ groups \in Seq(Pane) /\ \A k \in DOMAIN groups : WellPane(groups[k])
  /\ \A k, j \in DOMAIN groups : groups[k].id = groups[j].id => k = j
Full(groups) ==
  Row(groups) /\ groups # <<>> /\ \A k \in DOMAIN groups : groups[k].files = <<>> => Len(groups) = 1

\* Every open file has a tab; every tab its file, as long as no group was closed by a
\* stale answer.
InStep(open, groups, stale) == open \subseteq Shown(groups) /\ (stale \/ Shown(groups) \subseteq open)
Before(groups, id) == \A k \in DOMAIN groups : groups[k].id < id

\* What is asked about a group was asked of two panes or more, one of them the group,
\* whatever has become of them.
PanesInv ==
  /\ Full(panes) /\ nextPane \in Nat /\ Before(panes, nextPane)
  /\ PaneOf(panes, focus) # {} /\ InStep(DOMAIN buffers, panes, closedStale)
  /\ question.kind \in {"none", "tab", "group"}
  /\ question.kind = "group" => /\ Full(question.asked) /\ Before(question.asked, nextPane)
                                /\ Len(question.asked) > 1 /\ PaneOf(question.asked, question.pane) # {}

LEMMA LeastPlace ==
  ASSUME NEW S \in SUBSET Nat, S # {}
  PROVE  Min(S) \in S /\ \A y \in S : Min(S) <= y
<1>1. \E x \in S : \A y \in S : x <= y
  BY LeastOfNats
<1> QED
  BY <1>1 DEF Min

LEMMA RowShows ==
  ASSUME NEW groups
  PROVE  \A f : f \in Shown(groups) <=> \E k \in DOMAIN groups : f \in ToSet(groups[k].files)
BY DEF Shown

LEMMA StripPlaces ==
  ASSUME NEW strip \in Seq(Files)
  PROVE  /\ DOMAIN strip = 1 .. Len(strip)
         /\ \A f : f \in ToSet(strip) <=> \E i \in 1 .. Len(strip) : strip[i] = f
         /\ ToSet(strip) \subseteq Files /\ (strip = <<>> <=> ToSet(strip) = {})
<1>1. DOMAIN strip = 1 .. Len(strip) /\ \A i \in 1 .. Len(strip) : strip[i] \in Files
  OBVIOUS
<1>2. \A f : f \in ToSet(strip) <=> \E i \in 1 .. Len(strip) : strip[i] = f
  BY <1>1 DEF ToSet
<1>3. strip # <<>> => strip[1] \in ToSet(strip)
  <2> SUFFICES ASSUME strip # <<>> PROVE 1 \in 1 .. Len(strip)
    BY <1>2
  <2> QED
    OBVIOUS
<1>4. strip = <<>> => ToSet(strip) = {}
  BY <1>2
<1> QED
  BY <1>1, <1>2, <1>3, <1>4

(* Taking a tab off a strip. *)
LEMMA StripWithout ==
  ASSUME NEW strip \in Seq(Files), IsInjective(strip), NEW f
  PROVE  /\ OffStrip(strip, f) \in Seq(Files) /\ IsInjective(OffStrip(strip, f))
         /\ ToSet(OffStrip(strip, f)) = ToSet(strip) \ {f}
<1>1. PICK S : S = Files \ {f}
  OBVIOUS
<1>2. Picked(strip, S) \in Seq(Files) /\ \E m : PicksAre(strip, S, Picked(strip, S), m, Len(strip))
  BY PickedPlaces
<1>3. PICK r \in Seq(Files) : r = Picked(strip, S)
  BY <1>2
<1>4. PICK m : PicksAre(strip, S, r, m, Len(strip))
  BY <1>2, <1>3
<1>5. r = OffStrip(strip, f)
  BY <1>1, <1>3 DEF OffStrip
<1>6. Len(r) \in Nat /\ Len(strip) \in Nat
  OBVIOUS
<1>7. \A k \in 1 .. Len(r) : m[k] \in 1 .. Len(strip) /\ r[k] = strip[m[k]] /\ r[k] # f
  BY <1>1, <1>4 DEF PicksAre
<1>8. \A i \in 1 .. Len(strip) : strip[i] # f => \E k \in 1 .. Len(r) : r[k] = strip[i]
  <2> TAKE i \in 1 .. Len(strip)
  <2>1. strip[i] \in Files
    OBVIOUS
  <2>2. strip[i] \in S => \E k \in 1 .. Len(r) : m[k] = i
    BY <1>4 DEF PicksAre
  <2> QED
    BY <2>1, <2>2, <1>1, <1>7
<1>9. IsInjective(r)
  <2> SUFFICES ASSUME NEW j \in 1 .. Len(r), NEW k \in 1 .. Len(r), r[j] = r[k] PROVE j = k
    BY StripPlaces DEF IsInjective
  <2>1. m[j] = m[k]
    BY <1>7, StripPlaces DEF IsInjective
  <2>2. ~(j < k) /\ ~(k < j)
    <3>1. \A x, y \in 1 .. Len(r) : x < y => m[x] < m[y]
      BY <1>4 DEF PicksAre
    <3>2. m[j] \in Int /\ m[k] \in Int
      BY <1>7, <1>6
    <3> QED
      BY <3>1, <3>2, <2>1
  <2> QED
    BY <2>2, <1>6
<1>10. ToSet(r) = ToSet(strip) \ {f}
  <2>1. \A g : g \in ToSet(r) <=> \E k \in 1 .. Len(r) : r[k] = g
    BY StripPlaces
  <2>2. \A g : g \in ToSet(strip) <=> \E k \in 1 .. Len(strip) : strip[k] = g
    BY StripPlaces
  <2> QED
    BY <2>1, <2>2, <1>7, <1>8
<1> QED
  BY <1>5, <1>9, <1>10

LEMMA AdjacentTab ==
  ASSUME NEW strip \in Seq(Files), IsInjective(strip), NEW f \in ToSet(strip)
  PROVE  Adjacent(strip, f) \in IF OffStrip(strip, f) = <<>> THEN {NoFile} ELSE ToSet(OffStrip(strip, f))
<1>1. PICK rest \in Seq(Files) : rest = OffStrip(strip, f)
  BY StripWithout
<1>2. PICK places : places = {k \in DOMAIN strip : strip[k] = f}
  OBVIOUS
<1>3. places \in SUBSET Nat /\ places # {} /\ \A k \in places : k >= 1
  BY <1>2, StripPlaces
<1>4. Min(places) \in Nat /\ Min(places) >= 1
  BY <1>3, LeastPlace
<1>5. PICK i \in Nat : i = Min(places) /\ i >= 1
  BY <1>4
<1>6. CASE rest = <<>>
  BY <1>1, <1>6 DEF Adjacent
<1>7. CASE rest # <<>>
  <2>1. Len(rest) \in Nat /\ Len(rest) >= 1
    BY <1>7
  <2>2. {i, Len(rest)} \in SUBSET Nat /\ {i, Len(rest)} # {}
    BY <2>1
  <2>3. PICK j : j = Min({i, Len(rest)})
    OBVIOUS
  <2>4. j \in {i, Len(rest)} /\ j <= Len(rest)
    BY <2>2, <2>3, LeastPlace
  <2>5. j \in 1 .. Len(rest)
    BY <2>1, <2>4, <1>5
  <2>6. Adjacent(strip, f) = rest[j]
    BY <1>1, <1>2, <1>5, <1>7, <2>3 DEF Adjacent
  <2> QED
    BY <2>5, <2>6, <1>1, <1>7, StripPlaces
<1> QED
  BY <1>6, <1>7

LEMMA PaneWithout ==
  ASSUME NEW g, WellPane(g), NEW f \in ToSet(g.files)
  PROVE  /\ WellPane(TakenOut(g, f)) /\ TakenOut(g, f).id = g.id
         /\ ToSet(TakenOut(g, f).files) = ToSet(g.files) \ {f}
<1>1. g \in Pane /\ g.files \in Seq(Files) /\ IsInjective(g.files) /\ g.active \in Files \cup {NoFile} /\ g.id \in Nat
  BY DEF WellPane, Pane
<1>2. PICK rest \in Seq(Files) : rest = OffStrip(g.files, f)
  BY <1>1, StripWithout
<1>3. IsInjective(rest) /\ ToSet(rest) = ToSet(g.files) \ {f}
  BY <1>1, <1>2, StripWithout
<1>4. PICK next : next = IF g.active = f THEN Adjacent(g.files, f) ELSE g.active
  OBVIOUS
<1>5. g.files # <<>> /\ g.active \in ToSet(g.files)
  BY <1>1, StripPlaces DEF WellPane
<1>6. next \in IF rest = <<>> THEN {NoFile} ELSE ToSet(rest)
  <2>1. CASE g.active = f
    BY <2>1, <1>1, <1>2, <1>4, AdjacentTab
  <2>2. CASE g.active # f
    BY <2>2, <1>2, <1>3, <1>4, <1>5, StripPlaces
  <2> QED
    BY <2>1, <2>2
<1>7. next \in Files \cup {NoFile}
  BY <1>6, <1>2, StripPlaces
<1>8. PICK h : h = TakenOut(g, f)
  OBVIOUS
<1>9. h = [g EXCEPT !.files = rest, !.active = next]
  BY <1>8, <1>2, <1>4 DEF TakenOut
<1>10. h \in Pane /\ h.files = rest /\ h.active = next /\ h.id = g.id
  BY <1>1, <1>7, <1>9 DEF Pane
<1> QED
  BY <1>3, <1>6, <1>8, <1>10 DEF WellPane

LEMMA RowPlaces ==
  ASSUME NEW groups, Row(groups)
  PROVE  /\ DOMAIN groups = 1 .. Len(groups) /\ Len(groups) \in Nat
         /\ \A k \in DOMAIN groups : groups[k] \in Pane /\ groups[k].id \in Nat /\ groups[k].files \in Seq(Files)
<1>1. groups \in Seq(Pane)
  BY DEF Row
<1>2. DOMAIN groups = 1 .. Len(groups) /\ Len(groups) \in Nat /\ \A k \in DOMAIN groups : groups[k] \in Pane
  BY <1>1
<1> QED
  BY <1>2 DEF Pane

LEMMA RowWith ==
  ASSUME NEW groups, Row(groups), NEW k \in DOMAIN groups, NEW g, WellPane(g), g.id = groups[k].id
  PROVE  /\ Row([groups EXCEPT ![k] = g]) /\ Len([groups EXCEPT ![k] = g]) = Len(groups)
         /\ DOMAIN [groups EXCEPT ![k] = g] = DOMAIN groups
<1>1. groups \in Seq(Pane) /\ g \in Pane
  BY DEF Row, WellPane
<1>2. PICK next : next = [groups EXCEPT ![k] = g]
  OBVIOUS
<1>3. next \in Seq(Pane) /\ Len(next) = Len(groups) /\ DOMAIN next = DOMAIN groups
  BY <1>1, <1>2
<1>4. next[k] = g /\ \A j \in DOMAIN groups : j # k => next[j] = groups[j]
  BY <1>1, <1>2
<1>5. \A j \in DOMAIN next : WellPane(next[j]) /\ next[j].id = groups[j].id
  BY <1>3, <1>4 DEF Row
<1> QED
  BY <1>2, <1>3, <1>5 DEF Row

\* Leaving the empty groups out.
LEMMA PickedRow ==
  ASSUME NEW groups, Row(groups), NEW S
  PROVE  /\ Row(Picked(groups, S))
         /\ \A k \in DOMAIN Picked(groups, S) : \E i \in DOMAIN groups : Picked(groups, S)[k] = groups[i] /\ groups[i] \in S
         /\ \A i \in DOMAIN groups : groups[i] \in S => \E k \in DOMAIN Picked(groups, S) : Picked(groups, S)[k] = groups[i]
<1>1. groups \in Seq(Pane)
  BY DEF Row
<1>2. Picked(groups, S) \in Seq(Pane) /\ \E m : PicksAre(groups, S, Picked(groups, S), m, Len(groups))
  BY <1>1, PickedPlaces
<1>3. PICK r \in Seq(Pane) : r = Picked(groups, S)
  BY <1>2
<1>4. PICK m : PicksAre(groups, S, r, m, Len(groups))
  BY <1>2, <1>3
<1>5. DOMAIN r = 1 .. Len(r) /\ DOMAIN groups = 1 .. Len(groups) /\ Len(r) \in Nat /\ Len(groups) \in Nat
  BY <1>1
<1>6. \A k \in DOMAIN r : m[k] \in DOMAIN groups /\ r[k] = groups[m[k]] /\ r[k] \in S
  BY <1>4, <1>5 DEF PicksAre
<1>7. \A i \in DOMAIN groups : groups[i] \in S => \E k \in DOMAIN r : r[k] = groups[i]
  BY <1>4, <1>5 DEF PicksAre
<1>8. ASSUME NEW j \in DOMAIN r, NEW k \in DOMAIN r, r[j].id = r[k].id PROVE j = k
  <2>1. m[j] = m[k]
    BY <1>6, <1>8 DEF Row
  <2>2. \A x, y \in 1 .. Len(r) : x < y => m[x] < m[y]
    BY <1>4 DEF PicksAre
  <2>3. m[j] \in Int /\ m[k] \in Int
    BY <1>6, <1>5
  <2>4. ~(j < k) /\ ~(k < j)
    BY <2>1, <2>2, <2>3, <1>5
  <2> QED
    BY <2>4, <1>5
<1>9. \A k \in DOMAIN r : WellPane(r[k])
  BY <1>6 DEF Row
<1>10. Row(r)
  BY <1>3, <1>8, <1>9 DEF Row
<1>11. \A k \in DOMAIN r : \E i \in DOMAIN groups : r[k] = groups[i] /\ groups[i] \in S
  BY <1>6
<1> QED
  BY <1>3, <1>7, <1>10, <1>11

LEMMA FoldedRow ==
  ASSUME NEW groups, Row(groups), groups # <<>>,
         Len(groups) > 1 => \E full \in DOMAIN groups : groups[full].files # <<>>
  PROVE  /\ Full(Folded(groups)) /\ Shown(Folded(groups)) = Shown(groups)
         /\ \A k \in DOMAIN Folded(groups) : \E i \in DOMAIN groups : Folded(groups)[k] = groups[i]
         /\ \A i \in DOMAIN groups : groups[i].files # <<>> => \E k \in DOMAIN Folded(groups) : Folded(groups)[k] = groups[i]
<1>1. PICK S : S = {g \in ToSet(groups) : g.files # <<>>}
  OBVIOUS
<1>2. \A i \in DOMAIN groups : groups[i] \in S <=> groups[i].files # <<>>
  BY <1>1 DEF ToSet
<1>3. PICK r : r = Folded(groups)
  OBVIOUS
<1>4. CASE Len(groups) > 1
  <2>1. r = Picked(groups, S)
    BY <1>1, <1>3, <1>4 DEF Folded
  <2>2. Row(r)
    BY <2>1, PickedRow
  <2>3. \A k \in DOMAIN r : \E i \in DOMAIN groups : r[k] = groups[i] /\ groups[i] \in S
    BY <2>1, PickedRow
  <2>4. \A i \in DOMAIN groups : groups[i] \in S => \E k \in DOMAIN r : r[k] = groups[i]
    BY <2>1, PickedRow
  <2>5. r # <<>>
    <3>1. DOMAIN r # {}
      BY <2>4, <1>2, <1>4
    <3> QED
      BY <3>1
  <2>6. Full(r)
    BY <2>2, <2>3, <2>5, <1>2 DEF Full
  <2>7. \A f : f \in Shown(r) => f \in Shown(groups)
    BY <2>3, RowShows
  <2>8. ASSUME NEW f \in Shown(groups) PROVE f \in Shown(r)
    <3>1. PICK i \in DOMAIN groups : f \in ToSet(groups[i].files)
      BY <2>8, RowShows
    <3>2. groups[i].files # <<>>
      BY <3>1, RowPlaces, StripPlaces
    <3>3. PICK k \in DOMAIN r : r[k] = groups[i]
      BY <3>2, <2>4, <1>2
    <3> QED
      BY <3>1, <3>3, RowShows
  <2> QED
    BY <2>3, <2>4, <2>6, <2>7, <2>8, <1>2, <1>3
<1>5. CASE ~(Len(groups) > 1)
  <2>1. r = groups
    BY <1>3, <1>5 DEF Folded
  <2>2. PICK n \in Nat : n = Len(groups)
    BY RowPlaces
  <2>3. n = 1
    <3>1. groups \in Seq(Pane)
      BY DEF Row
    <3>2. n # 0
      BY <2>2, <3>1
    <3> QED
      BY <2>2, <3>2, <1>5
  <2> QED
    BY <1>3, <2>1, <2>2, <2>3 DEF Full
<1> QED
  BY <1>4, <1>5

LEMMA ClosedTab ==
  ASSUME NEW groups, Full(groups), NEW id, NEW f, NEW next, next = CloseTabInGroups(groups, id, f)
  PROVE  /\ Full(next) /\ Shown(next) \subseteq Shown(groups) /\ Shown(groups) \ {f} \subseteq Shown(next)
         /\ \A k \in DOMAIN next : \E i \in DOMAIN groups : next[k].id = groups[i].id
<1>1. CASE ~\E k \in PaneOf(groups, id) : f \in ToSet(groups[k].files)
  <2>1. next = groups
    BY <1>1 DEF CloseTabInGroups
  <2> QED
    BY <2>1
<1>2. ASSUME NEW k \in PaneOf(groups, id), f \in ToSet(groups[k].files)
      PROVE  /\ Full(next) /\ Shown(next) \subseteq Shown(groups) /\ Shown(groups) \ {f} \subseteq Shown(next)
             /\ \A j \in DOMAIN next : \E i \in DOMAIN groups : next[j].id = groups[i].id
  <2>1. Row(groups) /\ k \in DOMAIN groups /\ groups[k].id = id /\ WellPane(groups[k])
    BY <1>2 DEF Full, PaneOf, Row
  <2>2. PICK g : g = TakenOut(groups[k], f)
    OBVIOUS
  <2>3. WellPane(g) /\ g.id = groups[k].id /\ ToSet(g.files) = ToSet(groups[k].files) \ {f}
    BY <2>1, <2>2, <1>2, PaneWithout
  <2>4. PICK less : less = [j \in DOMAIN groups |-> IF groups[j].id = id THEN TakenOut(groups[j], f) ELSE groups[j]]
    OBVIOUS
  <2>5. DOMAIN less = DOMAIN groups /\ less[k] = g /\ \A j \in DOMAIN groups : j # k => less[j] = groups[j]
    BY <2>1, <2>2, <2>4 DEF Row
  <2>6. less = [groups EXCEPT ![k] = g]
    <3>1. groups = [j \in DOMAIN groups |-> groups[j]]
      BY <2>1 DEF Row
    <3>2. less = [j \in DOMAIN groups |-> less[j]]
      BY <2>4
    <3> QED
      BY <3>1, <3>2, <2>5
  <2>7. Row(less) /\ Len(less) = Len(groups)
    BY <2>1, <2>3, <2>6, RowWith
  <2>8. next = Folded(less)
    BY <1>2, <2>4 DEF CloseTabInGroups
  <2>9. PICK n \in Nat : n = Len(groups) /\ DOMAIN groups = 1 .. n
    BY <2>1, RowPlaces
  <2>10. Len(less) > 1 => \E full \in DOMAIN less : less[full].files # <<>>
    <3> SUFFICES ASSUME n > 1 PROVE \E full \in DOMAIN less : less[full].files # <<>>
      BY <2>7, <2>9
    <3>1. PICK j \in 1 .. n : j # k
      <4>1. 1 \in 1 .. n /\ 2 \in 1 .. n /\ 1 # 2
        OBVIOUS
      <4> QED
        BY <4>1
    <3>2. groups[j].files # <<>>
      BY <2>9, <3>1 DEF Full
    <3> QED
      BY <2>5, <2>9, <3>1, <3>2
  <2>11. less # <<>>
    BY <2>1, <2>5
  <2>12. /\ Full(next) /\ Shown(next) = Shown(less)
         /\ \A j \in DOMAIN next : \E i \in DOMAIN less : next[j] = less[i]
    BY <2>7, <2>8, <2>10, <2>11, FoldedRow
  <2>13. \A x : x \in Shown(less) => x \in Shown(groups)
    BY <2>3, <2>5, <2>1, RowShows
  <2>14. \A x : x \in Shown(groups) /\ x # f => x \in Shown(less)
    BY <2>3, <2>5, <2>1, RowShows
  <2>15. \A i \in DOMAIN less : less[i].id = groups[i].id
    BY <2>3, <2>5
  <2> QED
    BY <2>5, <2>12, <2>13, <2>14, <2>15
<1> QED
  BY <1>1, <1>2

LEMMA ClosedGroup ==
  ASSUME NEW groups, Full(groups), Len(groups) > 1, NEW id, PaneOf(groups, id) # {},
         NEW next, next = CloseGroupInGroups(groups, id)
  PROVE  /\ Full(next) /\ Shown(next) \subseteq Shown(groups) /\ PaneOf(next, Survivor(groups, id)) # {}
         /\ \A k \in DOMAIN next : \E i \in DOMAIN groups : next[k].id = groups[i].id
<1>1. Row(groups) /\ groups \in Seq(Pane)
  BY DEF Full, Row
<1>2. PICK n \in Nat : n = Len(groups) /\ DOMAIN groups = 1 .. n /\ n > 1
  BY <1>1, RowPlaces
<1>3. PICK c : c \in PaneOf(groups, id)
  OBVIOUS
<1>4. c \in 1 .. n /\ groups[c].id = id /\ \A j \in 1 .. n : groups[j].id = id => j = c
  BY <1>1, <1>2, <1>3 DEF PaneOf, Row
<1>5. PaneOf(groups, id) = {c}
  BY <1>2, <1>4 DEF PaneOf
<1>6. PICK S : S = {g \in ToSet(groups) : g.id # id}
  OBVIOUS
<1>7. \A i \in 1 .. n : groups[i] \in S <=> i # c
  BY <1>2, <1>4, <1>6 DEF ToSet
<1>8. next = Picked(groups, S)
  BY <1>6 DEF CloseGroupInGroups
<1>9. Row(next) /\ (\A k \in DOMAIN next : \E i \in DOMAIN groups : next[k] = groups[i] /\ groups[i] \in S)
  BY <1>1, <1>8, PickedRow
<1>10. next \in Seq(Pane) /\ \E m : PicksAre(groups, S, next, m, n)
  BY <1>1, <1>2, <1>8, PickedPlaces
<1>11. PICK m : PicksAre(groups, S, next, m, n)
  BY <1>10
<1>12. PICK l \in Nat : l = Len(next) /\ DOMAIN next = 1 .. l
  BY <1>10
<1>13. l >= n - 1
  <2> SUFFICES ASSUME l < n - 1 PROVE FALSE
    BY <1>2, <1>12
  <2> DEFINE others == (1 .. n) \ {c}
             place == [i \in others |-> CHOOSE k \in 1 .. l : m[k] = i]
  <2>1. \A i \in others : place[i] \in 1 .. l /\ m[place[i]] = i
    BY <1>7, <1>11, <1>12 DEF PicksAre
  <2>2. place \in [others -> 1 .. l]
    BY <2>1
  <2>3. IsFiniteSet(1 .. n) /\ Cardinality(1 .. n) = n /\ IsFiniteSet(1 .. l) /\ Cardinality(1 .. l) = l
    <3>1. 1 \in Int /\ n \in Int /\ l \in Int
      OBVIOUS
    <3>2. \A a, b \in Int : IsFiniteSet(a .. b) /\ Cardinality(a .. b) = IF a > b THEN 0 ELSE b - a + 1
      BY FS_Interval
    <3>3. (IF 1 > n THEN 0 ELSE n - 1 + 1) = n /\ (IF 1 > l THEN 0 ELSE l - 1 + 1) = l
      OBVIOUS
    <3> QED
      BY <3>1, <3>2, <3>3
  <2>4. IsFiniteSet(others) /\ Cardinality(others) = n - 1
    BY <2>3, <1>4, FS_RemoveElement
  <2>5. Cardinality(1 .. l) < Cardinality(others)
    BY <2>3, <2>4
  <2> HIDE DEF place
  <2>6. \E x, y \in others : x # y /\ place[x] = place[y]
    BY <2>2, <2>3, <2>4, <2>5, FS_PigeonHole
  <2> QED
    BY <2>1, <2>6
<1>14. PICK at : at = IF c > 1 THEN c - 1 ELSE 1
  OBVIOUS
<1>15. at \in 1 .. l
  BY <1>2, <1>4, <1>12, <1>13, <1>14
<1>16. Min(PaneOf(groups, id)) = c
  <2>1. {c} \in SUBSET Nat /\ {c} # {}
    BY <1>2, <1>4
  <2> QED
    BY <2>1, <1>5, LeastPlace
<1>17. Survivor(groups, id) = next[at].id
  BY <1>14, <1>16 DEF Survivor
<1>18. PaneOf(next, Survivor(groups, id)) # {}
  BY <1>12, <1>15, <1>17 DEF PaneOf
<1>19. \A i \in DOMAIN groups : groups[i].files # <<>>
  BY <1>2 DEF Full
<1>20. Full(next)
  <2>1. next # <<>>
    BY <1>12, <1>15
  <2> QED
    BY <2>1, <1>9, <1>19 DEF Full
<1>21. \A x : x \in Shown(next) => x \in Shown(groups)
  BY <1>9, RowShows
<1> QED
  BY <1>9, <1>18, <1>20, <1>21

(* --------------------------------- the steps ------------------------------ *)

\* What the property says, once a step has been shown to keep the panes.
LEMMA PanesAreShown ==
  ASSUME PanesInv
  PROVE  OpenFilesAreShown
BY DEF PanesInv, InStep, Full, Row, WellPane, OpenFilesAreShown

LEMMA ShownFirst == EditorInit => PanesInv
<1> SUFFICES ASSUME EditorInit PROVE PanesInv
  OBVIOUS
<1>1. PICK g : g = EmptyPane(1)
  OBVIOUS
<1>2. g \in Pane /\ g.id = 1 /\ g.files = <<>> /\ g.active = NoFile
  BY <1>1 DEF EmptyPane, Pane
<1>3. panes = <<g>> /\ DOMAIN panes = {1} /\ Len(panes) = 1 /\ panes[1] = g /\ panes \in Seq(Pane)
  BY <1>1, <1>2 DEF EditorInit
<1>4. WellPane(g)
  BY <1>2 DEF WellPane, IsInjective
<1>5. Full(panes)
  BY <1>3, <1>4 DEF Full, Row
<1>6. Shown(panes) = {}
  BY <1>2, <1>3 DEF Shown, ToSet
<1> QED
  BY <1>2, <1>3, <1>5, <1>6 DEF PanesInv, InStep, Before, EditorInit, PaneOf, NoQuestion

\* Closing a view: the file is closed with the last one.
LEMMA ClosingAView ==
  ASSUME PanesInv, NEW id, NEW f, CloseView(id, f), UNCHANGED <<nextPane, closedStale>>,
         question' = question \/ question'.kind = "none"
  PROVE  PanesInv'
<1>1. PICK next : next = panes' /\ next = CloseTabInGroups(panes, id, f)
  BY DEF CloseView
<1>2. Full(panes) /\ InStep(DOMAIN buffers, panes, closedStale) /\ nextPane \in Nat
  BY DEF PanesInv
<1>3. /\ Full(next) /\ Shown(next) \subseteq Shown(panes) /\ Shown(panes) \ {f} \subseteq Shown(next)
      /\ \A k \in DOMAIN next : \E i \in DOMAIN panes : next[k].id = panes[i].id
  BY <1>1, <1>2, ClosedTab
<1>4. next \in Seq(Pane) /\ next # <<>>
  BY <1>3 DEF Full, Row
<1>5. 1 \in DOMAIN next
  BY <1>4
<1>6. PaneOf(next, focus') # {}
  BY <1>1, <1>5 DEF CloseView, PaneOf
<1>7. Shown(panes) \subseteq Files
  BY <1>2, RowShows, RowPlaces, StripPlaces DEF Full
<1>8. InStep(DOMAIN buffers', next, closedStale)
  <2>1. CASE f \in Shown(next)
    <3>1. buffers' = buffers
      BY <2>1, <1>1 DEF CloseView
    <3>2. Shown(next) = Shown(panes)
      BY <2>1, <1>3
    <3> QED
      BY <3>1, <3>2, <1>2 DEF InStep
  <2>2. CASE f \notin Shown(next)
    <3>1. DOMAIN buffers' = DOMAIN buffers \cap (Files \ {f})
      BY <2>2, <1>1 DEF CloseView, Kept
    <3>2. Shown(next) = Shown(panes) \cap (Files \ {f})
      BY <2>2, <1>3, <1>7
    <3> QED
      BY <3>1, <3>2, <1>2 DEF InStep
  <2> QED
    BY <2>1, <2>2
<1>9. Before(next, nextPane')
  BY <1>3 DEF PanesInv, Before
<1> QED
  BY <1>1, <1>2, <1>3, <1>6, <1>8, <1>9 DEF PanesInv

\* Closing a group, by what the groups are or were when the question was asked.
LEMMA ClosingAGroup ==
  ASSUME PanesInv, NEW groups, Full(groups), Before(groups, nextPane),
         NEW id, PaneOf(groups, id) # {}, Len(groups) > 1, CloseAll(groups, id), nextPane' = nextPane,
         question' = question \/ question'.kind = "none",
         closedStale' \/ (~closedStale /\ panes = groups)
  PROVE  PanesInv'
<1>1. PICK next : next = panes' /\ next = CloseGroupInGroups(groups, id)
  BY DEF CloseAll
<1>2. InStep(DOMAIN buffers, panes, closedStale) /\ nextPane \in Nat
  BY DEF PanesInv
<1>3. /\ Full(next) /\ Shown(next) \subseteq Shown(groups) /\ PaneOf(next, Survivor(groups, id)) # {}
      /\ \A k \in DOMAIN next : \E i \in DOMAIN groups : next[k].id = groups[i].id
  BY <1>1, ClosedGroup
<1>4. focus' = Survivor(groups, id) /\ DOMAIN buffers' = DOMAIN buffers \cap Shown(next)
  BY <1>1 DEF CloseAll, Kept
<1>5. Before(next, nextPane')
  BY <1>3 DEF Before
<1>6. InStep(DOMAIN buffers', next, closedStale')
  BY <1>2, <1>3, <1>4 DEF InStep
<1> QED
  BY <1>1, <1>2, <1>3, <1>4, <1>5, <1>6 DEF PanesInv

LEMMA ClosingKeepsShown ==
  ASSUME PanesInv, \/ \E k \in DOMAIN panes : CloseFileTab(panes[k].id, panes[k].active) \/ CloseGroup(panes[k].id)
                   \/ Confirm \/ Decline
  PROVE  PanesInv'
<1>1. ASSUME NEW k \in DOMAIN panes, CloseFileTab(panes[k].id, panes[k].active) PROVE PanesInv'
  <2>0. UNCHANGED <<nextPane, closedStale>>
    BY <1>1 DEF CloseFileTab
  <2>1. CASE CloseView(panes[k].id, panes[k].active) /\ UNCHANGED question
    BY <2>0, <2>1, ClosingAView
  <2>2. CASE question' = [kind |-> "tab", pane |-> panes[k].id, file |-> panes[k].active] /\ UNCHANGED <<buffers, panes, focus>>
    BY <2>0, <2>2 DEF PanesInv
  <2> QED
    BY <2>1, <2>2, <1>1 DEF CloseFileTab
<1>2. ASSUME NEW k \in DOMAIN panes, CloseGroup(panes[k].id) PROVE PanesInv'
  <2>0. UNCHANGED <<nextPane, closedStale>>
    BY <1>2 DEF CloseGroup
  <2>1. /\ PaneOf(panes, panes[k].id) # {} /\ Len(panes) > 1
        /\ Full(panes) /\ Before(panes, nextPane)
    BY <1>2 DEF PaneOf, CloseGroup, PanesInv
  <2>2. CASE CloseAll(panes, panes[k].id) /\ UNCHANGED question
    BY <2>0, <2>1, <2>2, ClosingAGroup
  <2>3. CASE question' = [kind |-> "group", pane |-> panes[k].id, asked |-> panes] /\ UNCHANGED <<buffers, panes, focus>>
    <3>1. question'.asked = panes /\ question'.pane = panes[k].id /\ question'.kind = "group"
      BY <2>3
    <3> QED
      BY <2>0, <2>1, <2>3, <3>1 DEF PanesInv
  <2> QED
    BY <2>2, <2>3, <1>2 DEF CloseGroup
<1>3. CASE Confirm
  <2>0. question'.kind = "none" /\ nextPane' = nextPane /\ question.kind # "none"
    BY <1>3 DEF Confirm, NoQuestion
  <2>1. CASE question.kind = "tab"
    <3>1. CloseView(question.pane, question.file) /\ UNCHANGED closedStale
      BY <2>1, <1>3 DEF Confirm
    <3> QED
      BY <2>0, <3>1, ClosingAView
  <2>2. CASE question.kind # "tab"
    <3>1. CloseAll(question.asked, question.pane) /\ closedStale' = (closedStale \/ panes # question.asked)
      BY <2>2, <1>3 DEF Confirm
    <3>2. closedStale' \/ (~closedStale /\ panes = question.asked)
      BY <3>1
    <3>3. /\ Full(question.asked) /\ Before(question.asked, nextPane)
          /\ Len(question.asked) > 1 /\ PaneOf(question.asked, question.pane) # {}
      BY <2>0, <2>2 DEF PanesInv
    <3> QED
      BY <2>0, <3>1, <3>2, <3>3, ClosingAGroup
  <2> QED
    BY <2>1, <2>2
<1>4. CASE Decline
  BY <1>4 DEF Decline, NoQuestion, PanesInv
<1> QED
  BY <1>1, <1>2, <1>3, <1>4

\* A step that leaves the panes alone, and opens and closes nothing.
LEMMA LeavingThePanes ==
  ASSUME PanesInv, UNCHANGED <<panes, focus, nextPane, question, closedStale>>, DOMAIN buffers' = DOMAIN buffers
  PROVE  PanesInv'
BY DEF PanesInv

LEMMA AskedBefore ==
  ASSUME PanesInv, question.kind = "group"
  PROVE  Before(question.asked, nextPane + 1)
<1>1. Row(question.asked) /\ nextPane \in Nat /\ Before(question.asked, nextPane)
  BY DEF PanesInv, Full
<1>2. \A k \in DOMAIN question.asked : question.asked[k].id \in Nat
  BY <1>1 DEF Row, WellPane, Pane
<1> QED
  BY <1>1, <1>2 DEF Before

LEMMA SelectingAProject ==
  ASSUME PanesInv, NEW p, SelectProject(p)
  PROVE  PanesInv'
<1>1. PICK n \in Nat : n = nextPane
  BY DEF PanesInv
<1>2. PICK g : g = EmptyPane(n)
  OBVIOUS
<1>3. g \in Pane /\ g.id = n /\ g.files = <<>> /\ g.active = NoFile
  BY <1>1, <1>2 DEF EmptyPane, Pane
<1>4. PICK next : next = <<g>>
  OBVIOUS
<1>5. next \in Seq(Pane) /\ DOMAIN next = {1} /\ Len(next) = 1 /\ next[1] = g /\ next # <<>>
  BY <1>3, <1>4
<1>6. WellPane(g)
  BY <1>3 DEF WellPane, IsInjective
<1>7. Full(next)
  BY <1>5, <1>6 DEF Full, Row
<1>8. Shown(next) = {}
  BY <1>3, <1>5 DEF Shown, ToSet
<1>9. panes' = next /\ focus' = n /\ nextPane' = n + 1 /\ DOMAIN buffers' = {} /\ question' = question
  BY <1>1, <1>2, <1>4 DEF SelectProject
<1>10. PaneOf(panes', focus') # {}
  BY <1>3, <1>5, <1>9 DEF PaneOf
<1>11. Before(panes', nextPane')
  BY <1>1, <1>3, <1>5, <1>9 DEF Before
<1>12. InStep(DOMAIN buffers', panes', closedStale')
  BY <1>8, <1>9 DEF InStep
<1> QED
  BY <1>1, <1>7, <1>9, <1>10, <1>11, <1>12, AskedBefore DEF PanesInv

LEMMA ActivatingATab ==
  ASSUME PanesInv, NEW k \in DOMAIN panes, NEW f \in Files, SetGroupActive(k, f)
  PROVE  PanesInv'
<1>1. Row(panes) /\ f \in ToSet(panes[k].files) /\ WellPane(panes[k]) /\ panes \in Seq(Pane) /\ panes[k] \in Pane
  BY DEF SetGroupActive, PanesInv, Full, Row, WellPane
<1>2. PICK g : g = [panes[k] EXCEPT !.active = f]
  OBVIOUS
<1>3. g \in Pane /\ g.id = panes[k].id /\ g.files = panes[k].files /\ g.active = f
  BY <1>1, <1>2 DEF Pane
<1>4. g.files # <<>>
  BY <1>1, <1>3, StripPlaces DEF Pane
<1>5. WellPane(g)
  BY <1>1, <1>3, <1>4 DEF WellPane
<1>6. PICK next : next = panes' /\ next = [panes EXCEPT ![k] = g]
  BY <1>2 DEF SetGroupActive
<1>7. Row(next) /\ Len(next) = Len(panes) /\ DOMAIN next = DOMAIN panes
  <2>1. PICK gs : gs = panes
    OBVIOUS
  <2>2. Row(gs) /\ k \in DOMAIN gs /\ g.id = gs[k].id /\ next = [gs EXCEPT ![k] = g]
    BY <2>1, <1>1, <1>3, <1>6
  <2>3. Row(next) /\ Len(next) = Len(gs) /\ DOMAIN next = DOMAIN gs
    BY <2>2, <1>5, RowWith
  <2> QED
    BY <2>1, <2>3
<1>8. next[k] = g /\ \A j \in DOMAIN panes : j # k => next[j] = panes[j]
  BY <1>1, <1>6
<1>9. \A j \in DOMAIN panes : next[j].files = panes[j].files /\ next[j].id = panes[j].id
  BY <1>3, <1>8
<1>10. Full(next)
  BY <1>7, <1>9 DEF PanesInv, Full
<1>11. \A x : x \in Shown(next) <=> x \in Shown(panes)
  BY <1>7, <1>9, RowShows
<1>12. focus' = panes[k].id /\ UNCHANGED <<nextPane, buffers, question, closedStale>>
  BY DEF SetGroupActive, Rearranged
<1>13. PaneOf(next, focus') # {}
  BY <1>7, <1>9, <1>12 DEF PaneOf
<1>14. Shown(next) = Shown(panes)
  BY <1>11
<1>15. Before(next, nextPane') /\ InStep(DOMAIN buffers', next, closedStale')
  BY <1>7, <1>9, <1>12, <1>14 DEF PanesInv, Before, InStep
<1> QED
  BY <1>6, <1>10, <1>12, <1>13, <1>15 DEF PanesInv

(* Array.splice of one element. *)
Spliced(T, s, i, e, r) ==
  /\ r \in Seq(T) /\ Len(r) = Len(s) + 1
  /\ \A j \in 1 .. Len(s) + 1 : r[j] = IF j < i THEN s[j] ELSE IF j = i THEN e ELSE s[j - 1]

LEMMA Inserted ==
  ASSUME NEW T, NEW s \in Seq(T), NEW i \in 1 .. Len(s) + 1, NEW e \in T
  PROVE  Spliced(T, s, i, e, InsertAt(s, i, e))
<1> PICK r : r = InsertAt(s, i, e)
  OBVIOUS
<1>1. PICK n \in Nat : n = Len(s)
  OBVIOUS
<1>2. PICK a : a = SubSeq(s, 1, i - 1)
  OBVIOUS
<1>3. PICK c : c = SubSeq(s, i, n)
  OBVIOUS
<1>4. a \in Seq(T) /\ Len(a) = i - 1 /\ \A j \in 1 .. i - 1 : a[j] = s[j]
  BY <1>1, <1>2
<1>5. c \in Seq(T) /\ Len(c) = n - i + 1 /\ \A j \in 1 .. n - i + 1 : c[j] = s[i + j - 1]
  BY <1>1, <1>3
<1>6. r = (a \o <<e>>) \o c
  BY <1>1, <1>2, <1>3 DEF InsertAt
<1>7. PICK b : b = a \o <<e>>
  OBVIOUS
<1>8. b \in Seq(T) /\ Len(b) = i /\ b[i] = e /\ \A j \in 1 .. i - 1 : b[j] = s[j]
  BY <1>4, <1>7
<1>9. r = b \o c
  BY <1>6, <1>7
<1>10. r \in Seq(T) /\ Len(r) = n + 1
  <2>1. r \in Seq(T) /\ Len(r) = Len(b) + Len(c)
    <3>1. b \in Seq(T) /\ c \in Seq(T)
      BY <1>5, <1>8
    <3>2. b \o c \in Seq(T) /\ Len(b \o c) = Len(b) + Len(c)
      BY <3>1
    <3> QED
      BY <3>2, <1>9
  <2> QED
    BY <2>1, <1>1, <1>5, <1>8
<1>11. \A j \in 1 .. n + 1 : r[j] = IF j <= i THEN b[j] ELSE c[j - i]
  BY <1>1, <1>5, <1>8, <1>9
<1>12. ASSUME NEW j \in 1 .. n + 1
       PROVE  r[j] = IF j < i THEN s[j] ELSE IF j = i THEN e ELSE s[j - 1]
  <2>1. CASE j < i
    BY <2>1, <1>1, <1>8, <1>11
  <2>2. CASE j = i
    BY <2>2, <1>1, <1>8, <1>11
  <2>3. CASE j > i
    <3>1. j - i \in 1 .. n - i + 1 /\ i + (j - i) - 1 = j - 1
      BY <2>3, <1>1
    <3>2. c[j - i] = s[j - 1]
      BY <1>5, <3>1
    <3> QED
      BY <2>3, <3>2, <1>1, <1>11
  <2> QED
    BY <2>1, <2>2, <2>3, <1>1
<1>13. Spliced(T, s, i, e, r)
  BY <1>1, <1>10, <1>12 DEF Spliced
<1> QED
  BY <1>13

LEMMA Splitting ==
  ASSUME PanesInv, NEW k \in DOMAIN panes, SplitGroup(k)
  PROVE  PanesInv'
<1>1. Row(panes) /\ panes \in Seq(Pane) /\ WellPane(panes[k]) /\ panes[k] \in Pane
  BY DEF PanesInv, Full, Row, WellPane
<1>2. PICK n \in Nat : n = Len(panes) /\ DOMAIN panes = 1 .. n
  BY <1>1, RowPlaces
<1>3. PICK f : f = panes[k].active
  OBVIOUS
<1>4. f # NoFile /\ f \in Files /\ f \in ToSet(panes[k].files)
  <2>1. panes[k].active # NoFile
    BY DEF SplitGroup
  <2> QED
    BY <2>1, <1>1, <1>3 DEF WellPane, Pane
<1>5. PICK np \in Nat : np = nextPane
  BY DEF PanesInv
<1>6. PICK strip : strip = <<f>>
  OBVIOUS
<1>7. strip \in Seq(Files) /\ DOMAIN strip = {1} /\ strip[1] = f /\ strip # <<>>
  BY <1>4, <1>6
<1>8. PICK g : g = [id |-> np, files |-> strip, active |-> f]
  OBVIOUS
<1>9. g.id = np /\ g.files = strip /\ g.active = f /\ g \in Pane
  BY <1>4, <1>7, <1>8 DEF Pane
<1>10. ToSet(strip) = {f} /\ IsInjective(strip)
  BY <1>7 DEF ToSet, IsInjective
<1>11. WellPane(g)
  BY <1>7, <1>9, <1>10 DEF WellPane
<1>12. PICK next : next = panes' /\ next = InsertAt(panes, k + 1, g)
  BY <1>3, <1>5, <1>6, <1>8 DEF SplitGroup
<1>13. k + 1 \in 1 .. Len(panes) + 1
  BY <1>2
<1>14. /\ next \in Seq(Pane) /\ Len(next) = n + 1
       /\ \A j \in 1 .. n + 1 : next[j] = IF j < k + 1 THEN panes[j] ELSE IF j = k + 1 THEN g ELSE panes[j - 1]
  <2>1. PICK gs : gs = panes
    OBVIOUS
  <2>2. gs \in Seq(Pane) /\ k + 1 \in 1 .. Len(gs) + 1 /\ next = InsertAt(gs, k + 1, g) /\ n = Len(gs)
    BY <2>1, <1>1, <1>2, <1>12, <1>13
  <2>3. /\ next \in Seq(Pane) /\ Len(next) = n + 1
        /\ \A j \in 1 .. n + 1 : next[j] = IF j < k + 1 THEN gs[j] ELSE IF j = k + 1 THEN g ELSE gs[j - 1]
    <3>1. PICK at : at = k + 1
      OBVIOUS
    <3>2. /\ next \in Seq(Pane) /\ Len(next) = n + 1
          /\ \A j \in 1 .. n + 1 : next[j] = IF j < at THEN gs[j] ELSE IF j = at THEN g ELSE gs[j - 1]
      <4>1. Spliced(Pane, gs, at, g, InsertAt(gs, at, g))
        BY <2>2, <3>1, <1>9, Inserted
      <4> QED
        BY <2>2, <3>1, <4>1 DEF Spliced
    <3> QED
      BY <3>1, <3>2
  <2> QED
    BY <2>1, <2>3
<1>15. DOMAIN next = 1 .. n + 1
  BY <1>14
<1>16. k \in 1 .. n
  BY <1>2
<1>17. next[k + 1] = g
  BY <1>14, <1>16
<1>18. PICK from : from = [j \in 1 .. n + 1 |-> IF j < k + 1 THEN j ELSE j - 1]
  OBVIOUS
<1>19. \A j \in 1 .. n + 1 : j # k + 1 => from[j] \in 1 .. n /\ next[j] = panes[from[j]]
  BY <1>14, <1>16, <1>18
<1>20. \A i \in 1 .. n : \E j \in 1 .. n + 1 : j # k + 1 /\ from[j] = i
  <2> TAKE i \in 1 .. n
  <2>1. CASE i < k + 1
    BY <2>1, <1>16, <1>18
  <2>2. CASE ~(i < k + 1)
    <3>1. i + 1 \in 1 .. n + 1 /\ i + 1 # k + 1 /\ ~(i + 1 < k + 1) /\ i + 1 - 1 = i
      BY <2>2, <1>16
    <3> QED
      BY <3>1, <1>18
  <2> QED
    BY <2>1, <2>2
<1>21. \A i, j \in 1 .. n + 1 : i # k + 1 /\ j # k + 1 /\ from[i] = from[j] => i = j
  BY <1>16, <1>18
<1>22. \A i \in 1 .. n : panes[i].id \in Nat /\ panes[i].id < np /\ WellPane(panes[i])
  BY <1>1, <1>2, <1>5, RowPlaces DEF PanesInv, Row, Before
<1>23. \A j \in 1 .. n + 1 : WellPane(next[j]) /\ next[j].id \in Nat /\ next[j].id < np + 1
  BY <1>9, <1>11, <1>17, <1>19, <1>22
<1>24. ASSUME NEW i \in 1 .. n + 1, NEW j \in 1 .. n + 1, next[i].id = next[j].id PROVE i = j
  <2>1. CASE i = k + 1
    BY <2>1, <1>24, <1>9, <1>17, <1>19, <1>22
  <2>2. CASE j = k + 1
    BY <2>2, <1>24, <1>9, <1>17, <1>19, <1>22
  <2>3. CASE i # k + 1 /\ j # k + 1
    <3>1. panes[from[i]].id = panes[from[j]].id /\ from[i] \in DOMAIN panes /\ from[j] \in DOMAIN panes
      BY <2>3, <1>2, <1>19, <1>24
    <3>2. from[i] = from[j]
      BY <3>1, <1>1 DEF Row
    <3> QED
      BY <3>2, <2>3, <1>21
  <2> QED
    BY <2>1, <2>2, <2>3
<1>25. Row(next)
  BY <1>14, <1>15, <1>23, <1>24 DEF Row
<1>26. \A j \in 1 .. n : panes[j].files # <<>>
  <2>1. panes[k].files # <<>>
    BY <1>1, <1>4, StripPlaces DEF Pane
  <2>2. n = 1 => k = 1
    BY <1>16
  <2> QED
    BY <2>1, <2>2, <1>2 DEF PanesInv, Full
<1>27. Full(next)
  <2>1. \A j \in 1 .. n + 1 : next[j].files # <<>>
    BY <1>7, <1>9, <1>17, <1>19, <1>26
  <2>2. next # <<>>
    BY <1>14
  <2> QED
    BY <2>1, <2>2, <1>15, <1>25 DEF Full
<1>28. \A x : x \in Shown(next) <=> x \in Shown(panes)
  <2> TAKE x
  <2>1. ASSUME x \in Shown(panes) PROVE x \in Shown(next)
    <3>1. PICK i \in 1 .. n : x \in ToSet(panes[i].files)
      BY <2>1, <1>2, RowShows
    <3>2. PICK j \in 1 .. n + 1 : j # k + 1 /\ from[j] = i
      BY <1>20
    <3>3. next[j] = panes[i]
      BY <3>2, <1>19
    <3> QED
      BY <3>1, <3>2, <3>3, <1>15, RowShows
  <2>2. ASSUME x \in Shown(next) PROVE x \in Shown(panes)
    <3>1. PICK j \in 1 .. n + 1 : x \in ToSet(next[j].files)
      BY <2>2, <1>15, RowShows
    <3>2. CASE j = k + 1
      <4>1. x = f
        BY <3>1, <3>2, <1>9, <1>10, <1>17
      <4> QED
        BY <4>1, <1>4, RowShows
    <3>3. CASE j # k + 1
      BY <3>1, <3>3, <1>2, <1>19, RowShows
    <3> QED
      BY <3>2, <3>3
  <2> QED
    BY <2>1, <2>2
<1>29. focus' = np /\ nextPane' = np + 1 /\ UNCHANGED <<buffers, question, closedStale>>
  BY <1>5 DEF SplitGroup, Rearranged
<1>30. PaneOf(next, focus') # {}
  <2>1. k + 1 \in 1 .. n + 1
    BY <1>16
  <2> QED
    BY <2>1, <1>9, <1>15, <1>17, <1>29 DEF PaneOf
<1>31. Shown(next) = Shown(panes)
  BY <1>28
<1>32. next = panes'
  BY <1>12
<1>33. Before(next, nextPane')
  BY <1>15, <1>23, <1>29 DEF Before
<1>34. InStep(DOMAIN buffers', next, closedStale')
  BY <1>29, <1>31 DEF PanesInv, InStep
<1>35. question'.kind = "group" => Before(question'.asked, nextPane')
  BY <1>5, <1>29, AskedBefore
<1> QED
  BY <1>5, <1>27, <1>29, <1>30, <1>32, <1>33, <1>34, <1>35 DEF PanesInv

LEMMA InsertedTab ==
  ASSUME NEW strip \in Seq(Files), IsInjective(strip), NEW f \in Files \ ToSet(strip),
         NEW i \in 1 .. Len(strip) + 1, NEW r, r = InsertAt(strip, i, f)
  PROVE  r \in Seq(Files) /\ IsInjective(r) /\ ToSet(r) = ToSet(strip) \cup {f}
<1>1. PICK n \in Nat : n = Len(strip)
  OBVIOUS
<1>2. /\ r \in Seq(Files) /\ Len(r) = n + 1
      /\ \A j \in 1 .. n + 1 : r[j] = IF j < i THEN strip[j] ELSE IF j = i THEN f ELSE strip[j - 1]
  <2>1. /\ r \in Seq(Files) /\ Len(r) = Len(strip) + 1
        /\ \A j \in 1 .. Len(strip) + 1 : r[j] = IF j < i THEN strip[j] ELSE IF j = i THEN f ELSE strip[j - 1]
    <3>1. Spliced(Files, strip, i, f, InsertAt(strip, i, f))
      BY Inserted
    <3> QED
      BY <3>1 DEF Spliced
  <2> QED
    BY <1>1, <2>1
<1>3. DOMAIN r = 1 .. n + 1 /\ i \in 1 .. n + 1
  BY <1>1, <1>2
<1>4. PICK from : from = [j \in 1 .. n + 1 |-> IF j < i THEN j ELSE j - 1]
  OBVIOUS
<1>5. \A j \in 1 .. n + 1 : j # i => from[j] \in 1 .. n /\ r[j] = strip[from[j]]
  BY <1>2, <1>3, <1>4
<1>6. r[i] = f
  BY <1>2, <1>3
<1>7. \A j, k \in 1 .. n + 1 : j # i /\ k # i /\ from[j] = from[k] => j = k
  BY <1>3, <1>4
<1>8. \A g : g \in ToSet(strip) <=> \E j \in 1 .. n : strip[j] = g
  BY <1>1, StripPlaces
<1>9. \A g : g \in ToSet(r) <=> \E j \in 1 .. n + 1 : r[j] = g
  BY <1>2, StripPlaces
<1>10. ASSUME NEW j \in 1 .. n + 1, NEW k \in 1 .. n + 1, r[j] = r[k] PROVE j = k
  <2>1. CASE j = i \/ k = i
    BY <2>1, <1>10, <1>5, <1>6, <1>8
  <2>2. CASE j # i /\ k # i
    <3>1. strip[from[j]] = strip[from[k]] /\ from[j] \in DOMAIN strip /\ from[k] \in DOMAIN strip
      BY <2>2, <1>10, <1>5, <1>1
    <3>2. from[j] = from[k]
      BY <3>1 DEF IsInjective
    <3> QED
      BY <3>2, <2>2, <1>7
  <2> QED
    BY <2>1, <2>2
<1>11. IsInjective(r)
  BY <1>3, <1>10 DEF IsInjective
<1>12. \A g : g \in ToSet(r) => g \in ToSet(strip) \cup {f}
  BY <1>5, <1>6, <1>8, <1>9
<1>13. ASSUME NEW g \in ToSet(strip) PROVE g \in ToSet(r)
  <2>1. PICK a \in 1 .. n : strip[a] = g
    BY <1>8
  <2>2. CASE a < i
    <3>1. a \in 1 .. n + 1 /\ a # i /\ from[a] = a
      BY <2>2, <1>3, <1>4
    <3> QED
      BY <3>1, <2>1, <1>5, <1>9
  <2>3. CASE ~(a < i)
    <3>1. a + 1 \in 1 .. n + 1 /\ a + 1 # i /\ from[a + 1] = a
      <4>1. a + 1 \in 1 .. n + 1 /\ a + 1 # i /\ ~(a + 1 < i) /\ a + 1 - 1 = a
        BY <2>3, <1>3
      <4> QED
        BY <4>1, <1>4
    <3> QED
      BY <3>1, <2>1, <1>5, <1>9
  <2> QED
    BY <2>2, <2>3
<1> QED
  BY <1>2, <1>3, <1>6, <1>9, <1>11, <1>12, <1>13

LEMMA DroppingATab ==
  ASSUME PanesInv, NEW k \in DOMAIN panes, NEW to \in DOMAIN panes, NEW f \in Files, NEW i, DropTab(k, f, to, i)
  PROVE  PanesInv'
<1>1. PICK gs : gs = panes
  OBVIOUS
<1>2. Row(gs) /\ gs \in Seq(Pane) /\ k \in DOMAIN gs /\ to \in DOMAIN gs /\ f \in ToSet(gs[k].files)
  BY <1>1 DEF PanesInv, Full, Row, DropTab
<1>3. WellPane(gs[k]) /\ WellPane(gs[to])
  BY <1>2 DEF Row
<1>4. gs[to] \in Pane /\ gs[to].files \in Seq(Files) /\ IsInjective(gs[to].files)
  BY <1>3 DEF WellPane, Pane
<1>5. PICK strip : strip = OffStrip(gs[to].files, f)
  OBVIOUS
<1>6. strip \in Seq(Files) /\ IsInjective(strip) /\ ToSet(strip) = ToSet(gs[to].files) \ {f}
  BY <1>4, <1>5, StripWithout
<1>7. i \in 1 .. Len(strip) + 1
  BY <1>1, <1>5 DEF DropTab
<1>8. PICK full : full = InsertAt(strip, i, f)
  OBVIOUS
<1>9. full \in Seq(Files) /\ IsInjective(full) /\ ToSet(full) = ToSet(strip) \cup {f}
  BY <1>6, <1>7, <1>8, InsertedTab
<1>10. PICK less : less = TakenOut(gs[k], f)
  OBVIOUS
<1>11. WellPane(less) /\ less.id = gs[k].id /\ ToSet(less.files) = ToSet(gs[k].files) \ {f}
  BY <1>2, <1>3, <1>10, PaneWithout
<1>12. PICK mid : mid = [gs EXCEPT ![k] = less]
  OBVIOUS
<1>13. Row(mid) /\ Len(mid) = Len(gs) /\ DOMAIN mid = DOMAIN gs
  BY <1>2, <1>11, <1>12, RowWith
<1>14. mid[k] = less /\ \A j \in DOMAIN gs : j # k => mid[j] = gs[j]
  BY <1>2, <1>12
<1>15. mid[to] \in Pane /\ mid[to].id = gs[to].id
  BY <1>2, <1>11, <1>13, <1>14, RowPlaces
<1>16. PICK g : g = [mid[to] EXCEPT !.files = full, !.active = f]
  OBVIOUS
<1>17. g \in Pane /\ g.id = mid[to].id /\ g.files = full /\ g.active = f
  BY <1>9, <1>15, <1>16 DEF Pane
<1>18. full # <<>>
  BY <1>9, StripPlaces
<1>19. WellPane(g)
  BY <1>9, <1>17, <1>18 DEF WellPane
<1>20. PICK moved : moved = [mid EXCEPT ![to] = g]
  OBVIOUS
<1>21. Row(moved) /\ Len(moved) = Len(gs) /\ DOMAIN moved = DOMAIN gs
  <2>1. to \in DOMAIN mid
    BY <1>2, <1>13
  <2>2. Row(moved) /\ Len(moved) = Len(mid) /\ DOMAIN moved = DOMAIN mid
    BY <2>1, <1>13, <1>17, <1>19, <1>20, RowWith
  <2> QED
    BY <2>2, <1>13
<1>22. moved[to] = g /\ \A j \in DOMAIN gs : j # to => moved[j] = mid[j]
  BY <1>2, <1>13, <1>20
<1>23. moved = [gs EXCEPT ![k] = TakenOut(@, f), ![to].files = InsertAt(strip, i, f), ![to].active = f]
  <2>1. PICK a : a = [mid EXCEPT ![to].files = full]
    OBVIOUS
  <2>2. PICK b : b = [a EXCEPT ![to].active = f]
    OBVIOUS
  <2>3. b = [gs EXCEPT ![k] = TakenOut(@, f), ![to].files = InsertAt(strip, i, f), ![to].active = f]
    BY <2>1, <2>2, <1>8, <1>10, <1>12
  <2>4. PICK h : h = [mid[to] EXCEPT !.files = full]
    OBVIOUS
  <2>5. a = [mid EXCEPT ![to] = h] /\ g = [h EXCEPT !.active = f]
    BY <2>1, <2>4, <1>16
  <2>6. b = [mid EXCEPT ![to] = g]
    <3>1. mid \in Seq(Pane) /\ to \in DOMAIN mid
      BY <1>2, <1>13 DEF Row
    <3>2. a[to] = h /\ DOMAIN a = DOMAIN mid /\ \A j \in DOMAIN mid : j # to => a[j] = mid[j]
      BY <2>5, <3>1
    <3>3. b = [a EXCEPT ![to] = g]
      BY <2>2, <2>5, <3>2
    <3> QED
      BY <2>5, <3>1, <3>3
  <2> QED
    BY <2>3, <2>6, <1>20
<1>24. PICK next : next = panes' /\ next = Folded(moved)
  BY <1>1, <1>5, <1>23 DEF DropTab
<1>25. moved[to].files # <<>> /\ moved # <<>> /\ to \in DOMAIN moved
  BY <1>2, <1>17, <1>18, <1>21, <1>22
<1>26. /\ Full(next) /\ Shown(next) = Shown(moved)
       /\ \A j \in DOMAIN next : \E a \in DOMAIN moved : next[j] = moved[a]
       /\ \E j \in DOMAIN next : next[j] = moved[to]
  <2>1. Len(moved) > 1 => \E a \in DOMAIN moved : moved[a].files # <<>>
    BY <1>25
  <2>2. /\ Full(next) /\ Shown(next) = Shown(moved)
        /\ \A j \in DOMAIN next : \E a \in DOMAIN moved : next[j] = moved[a]
        /\ \A a \in DOMAIN moved : moved[a].files # <<>> => \E j \in DOMAIN next : next[j] = moved[a]
    BY <2>1, <1>21, <1>24, <1>25, FoldedRow
  <2> QED
    BY <2>2, <1>25
<1>27. \A j \in DOMAIN gs : moved[j].id = gs[j].id
  BY <1>11, <1>14, <1>15, <1>17, <1>22
<1>28. \A x : x \in Shown(moved) <=> x \in Shown(gs)
  <2> TAKE x
  <2>1. ToSet(moved[to].files) = ToSet(gs[to].files) \cup {f}
    BY <1>6, <1>9, <1>17, <1>22
  <2>2. k # to => ToSet(moved[k].files) = ToSet(gs[k].files) \ {f}
    BY <1>2, <1>11, <1>14, <1>22
  <2>3. \A j \in DOMAIN gs : j # k /\ j # to => moved[j] = gs[j]
    BY <1>14, <1>22
  <2>4. x \in Shown(moved) <=> \E j \in DOMAIN gs : x \in ToSet(moved[j].files)
    BY <1>21, RowShows
  <2>5. x \in Shown(gs) <=> \E j \in DOMAIN gs : x \in ToSet(gs[j].files)
    BY RowShows
  <2>6. ASSUME x \in Shown(gs) PROVE x \in Shown(moved)
    <3>1. PICK j \in DOMAIN gs : x \in ToSet(gs[j].files)
      BY <2>5, <2>6
    <3> QED
      BY <3>1, <2>1, <2>2, <2>3, <2>4, <1>2
  <2>7. ASSUME x \in Shown(moved) PROVE x \in Shown(gs)
    <3>1. PICK j \in DOMAIN gs : x \in ToSet(moved[j].files)
      BY <2>4, <2>7
    <3>2. x \in ToSet(gs[j].files) \/ x = f
      BY <3>1, <2>1, <2>2, <2>3
    <3> QED
      BY <3>2, <2>5, <1>2
  <2> QED
    BY <2>6, <2>7
<1>29. Shown(next) = Shown(gs)
  BY <1>26, <1>28
<1>30. focus' = gs[to].id /\ UNCHANGED <<nextPane, buffers, question, closedStale>>
  BY <1>1 DEF DropTab, Rearranged
<1>31. PaneOf(next, focus') # {}
  BY <1>2, <1>26, <1>27, <1>30 DEF PaneOf
<1>32. Before(next, nextPane')
  <2>1. \A j \in DOMAIN gs : gs[j].id < nextPane
    BY <1>1 DEF PanesInv, Before
  <2> QED
    BY <2>1, <1>21, <1>26, <1>27, <1>30 DEF Before
<1>33. InStep(DOMAIN buffers', next, closedStale')
  BY <1>1, <1>29, <1>30 DEF PanesInv, InStep
<1> QED
  BY <1>24, <1>26, <1>30, <1>31, <1>32, <1>33 DEF PanesInv

(* What a click in the tree does to a strip: x is the preview it takes over. *)
LEMMA TakingOverATab ==
  ASSUME NEW strip \in Seq(Files), IsInjective(strip), NEW f \in Files \ ToSet(strip),
         NEW at \in DOMAIN strip, NEW r, r = [strip EXCEPT ![at] = f]
  PROVE  r \in Seq(Files) /\ IsInjective(r) /\ ToSet(r) = (ToSet(strip) \ {strip[at]}) \cup {f}
<1>1. PICK n \in Nat : n = Len(strip) /\ DOMAIN strip = 1 .. n
  OBVIOUS
<1>2. r \in Seq(Files) /\ Len(r) = n
  BY <1>1
<1>3. DOMAIN r = 1 .. n /\ r[at] = f /\ \A j \in 1 .. n : j # at => r[j] = strip[j]
  BY <1>1
<1>4. \A g : g \in ToSet(strip) <=> \E j \in 1 .. n : strip[j] = g
  BY <1>1, StripPlaces
<1>5. \A g : g \in ToSet(r) <=> \E j \in 1 .. n : r[j] = g
  BY <1>2, StripPlaces
<1>6. \A j, a \in 1 .. n : strip[j] = strip[a] => j = a
  BY <1>1 DEF IsInjective
<1>7. IsInjective(r)
  <2> SUFFICES ASSUME NEW j \in 1 .. n, NEW a \in 1 .. n, r[j] = r[a] PROVE j = a
    BY <1>3 DEF IsInjective
  <2> QED
    BY <1>1, <1>3, <1>4, <1>6
<1>8. \A g : g \in ToSet(r) <=> g \in (ToSet(strip) \ {strip[at]}) \cup {f}
  BY <1>1, <1>3, <1>4, <1>5, <1>6
<1> QED
  BY <1>2, <1>7, <1>8

LEMMA AddingATab ==
  ASSUME NEW strip \in Seq(Files), IsInjective(strip), NEW f \in Files \ ToSet(strip), NEW r, r = Append(strip, f)
  PROVE  r \in Seq(Files) /\ IsInjective(r) /\ ToSet(r) = ToSet(strip) \cup {f}
<1>1. PICK n \in Nat : n = Len(strip) /\ DOMAIN strip = 1 .. n
  OBVIOUS
<1>2. r \in Seq(Files) /\ Len(r) = n + 1 /\ DOMAIN r = 1 .. n + 1
  BY <1>1
<1>3. r[n + 1] = f /\ \A j \in 1 .. n : r[j] = strip[j]
  BY <1>1
<1>4. \A g : g \in ToSet(strip) <=> \E j \in 1 .. n : strip[j] = g
  BY <1>1, StripPlaces
<1>5. \A g : g \in ToSet(r) <=> \E j \in 1 .. n + 1 : r[j] = g
  BY <1>2, StripPlaces
<1>6. \A j \in 1 .. n + 1 : j # n + 1 => j \in 1 .. n
  OBVIOUS
<1>7. n + 1 \in 1 .. n + 1 /\ 1 .. n \subseteq 1 .. n + 1
  OBVIOUS
<1>8. IsInjective(r)
  <2> SUFFICES ASSUME NEW j \in 1 .. n + 1, NEW a \in 1 .. n + 1, r[j] = r[a] PROVE j = a
    BY <1>2 DEF IsInjective
  <2>1. CASE j = n + 1 \/ a = n + 1
    BY <2>1, <1>3, <1>4, <1>6
  <2>2. CASE j # n + 1 /\ a # n + 1
    <3>1. j \in DOMAIN strip /\ a \in DOMAIN strip /\ strip[j] = strip[a]
      BY <2>2, <1>1, <1>3, <1>6
    <3> QED
      BY <3>1 DEF IsInjective
  <2> QED
    BY <2>1, <2>2
<1>9. \A g : g \in ToSet(r) <=> g \in ToSet(strip) \cup {f}
  BY <1>3, <1>4, <1>5, <1>6, <1>7
<1> QED
  BY <1>2, <1>8, <1>9

\* OpenFile, with its local values named.
OpensAs(f, pin, k, strip, previews, evicted, opened, next) ==
  /\ k = IF PaneOf(panes, focus) = {} THEN 1 ELSE Min(PaneOf(panes, focus))
  /\ strip = panes[k].files
  /\ previews = {i \in DOMAIN strip : ~pin /\ f \notin ToSet(strip) /\ strip[i] \in DOMAIN buffers
                                      /\ buffers[strip[i]].preview}
  /\ evicted = IF previews = {} THEN {} ELSE {strip[Min(previews)]}
  /\ opened = CASE f \in ToSet(strip) -> strip
                [] previews # {} -> [strip EXCEPT ![Min(previews)] = f]
                [] OTHER -> Append(strip, f)
  /\ next = [panes EXCEPT ![k].files = opened, ![k].active = f]
  /\ panes' = next /\ UNCHANGED <<focus, nextPane, question, closedStale>>
  /\ IF f \in DOMAIN buffers
     THEN DOMAIN buffers' = DOMAIN Kept(Files \ (evicted \ Shown(next)))
     ELSE DOMAIN buffers' = DOMAIN Kept(Files \ (evicted \ Shown(next))) \cup {f}

LEMMA ReadingOpenFile ==
  ASSUME NEW f, NEW pin, OpenFile(f, pin)
  PROVE  \E k, strip, previews, evicted, opened, next : OpensAs(f, pin, k, strip, previews, evicted, opened, next)
<1> DEFINE k == IF PaneOf(panes, focus) = {} THEN 1 ELSE Min(PaneOf(panes, focus))
           strip == panes[k].files
           previews == {i \in DOMAIN strip : ~pin /\ f \notin ToSet(strip) /\ strip[i] \in DOMAIN buffers
                                               /\ buffers[strip[i]].preview}
           evicted == IF previews = {} THEN {} ELSE {strip[Min(previews)]}
           opened == CASE f \in ToSet(strip) -> strip
                       [] previews # {} -> [strip EXCEPT ![Min(previews)] = f]
                       [] OTHER -> Append(strip, f)
           next == [panes EXCEPT ![k].files = opened, ![k].active = f]
           kept == Kept(Files \ (evicted \ Shown(next)))
<1>1. /\ panes' = next
      /\ IF f \in DOMAIN buffers
         THEN buffers' = IF pin THEN [kept EXCEPT ![f].preview = FALSE] ELSE kept
         ELSE buffers' = [g \in DOMAIN kept \cup {f} |-> IF g # f THEN kept[g] ELSE
                           [content |-> Blank, original |-> Blank, loading |-> TRUE, preview |-> ~pin]]
  BY Zenon DEF OpenFile
<1>2. UNCHANGED <<focus, nextPane, question, closedStale>>
  BY DEF OpenFile
<1>3. /\ previews = {i \in DOMAIN strip : ~pin /\ f \notin ToSet(strip) /\ strip[i] \in DOMAIN buffers
                                            /\ buffers[strip[i]].preview}
      /\ evicted = IF previews = {} THEN {} ELSE {strip[Min(previews)]}
      /\ opened = CASE f \in ToSet(strip) -> strip
                    [] previews # {} -> [strip EXCEPT ![Min(previews)] = f]
                    [] OTHER -> Append(strip, f)
      /\ next = [panes EXCEPT ![k].files = opened, ![k].active = f]
      /\ k = (IF PaneOf(panes, focus) = {} THEN 1 ELSE Min(PaneOf(panes, focus)))
      /\ strip = panes[k].files /\ kept = Kept(Files \ (evicted \ Shown(next)))
  BY Zenon
<1> HIDE DEF kept, next, opened, evicted, previews, strip, k
<1>4. IF f \in DOMAIN buffers THEN DOMAIN buffers' = DOMAIN kept ELSE DOMAIN buffers' = DOMAIN kept \cup {f}
  BY <1>1
<1>5. IF f \in DOMAIN buffers
      THEN DOMAIN buffers' = DOMAIN Kept(Files \ (evicted \ Shown(next)))
      ELSE DOMAIN buffers' = DOMAIN Kept(Files \ (evicted \ Shown(next))) \cup {f}
  BY <1>3, <1>4
<1>6. panes' = next
  BY <1>1
<1>7. OpensAs(f, pin, k, strip, previews, evicted, opened, next)
  BY <1>2, <1>3, <1>5, <1>6 DEF OpensAs
<1> QED
  BY <1>7

LEMMA OpeningAFile ==
  ASSUME PanesInv, NEW f \in Files, NEW pin \in BOOLEAN, OpenFile(f, pin)
  PROVE  PanesInv'
<1>1. PICK gs : gs = panes
  OBVIOUS
<1>2. Full(gs) /\ Row(gs) /\ gs \in Seq(Pane) /\ InStep(DOMAIN buffers, gs, closedStale) /\ Shown(gs) \subseteq Files
  <2>1. Full(gs) /\ Row(gs) /\ gs \in Seq(Pane) /\ InStep(DOMAIN buffers, gs, closedStale)
    BY <1>1 DEF PanesInv, Full, Row
  <2> QED
    BY <2>1, RowShows, RowPlaces, StripPlaces
<1>3. PICK k, strip, previews, evicted, opened, next : OpensAs(f, pin, k, strip, previews, evicted, opened, next)
  BY ReadingOpenFile
<1>34. k = IF PaneOf(gs, focus) = {} THEN 1 ELSE Min(PaneOf(gs, focus))
  BY <1>1, <1>3 DEF OpensAs
<1>4. k \in DOMAIN gs
  <2>1. PICK S : S = PaneOf(gs, focus)
    OBVIOUS
  <2>2. S \in SUBSET Nat /\ S # {} /\ S \subseteq DOMAIN gs
    BY <1>1, <1>2, <2>1, RowPlaces DEF PaneOf, PanesInv
  <2>3. Min(S) \in S
    BY <2>2, LeastPlace
  <2> QED
    BY <1>34, <2>1, <2>2, <2>3
<1>5. strip = gs[k].files
  BY <1>1, <1>3 DEF OpensAs
<1>6. strip \in Seq(Files) /\ IsInjective(strip) /\ gs[k] \in Pane
  BY <1>2, <1>4, <1>5 DEF Row, WellPane, Pane
<1>7. previews = {i \in DOMAIN strip : ~pin /\ f \notin ToSet(strip) /\ strip[i] \in DOMAIN buffers
                                      /\ buffers[strip[i]].preview}
  BY <1>3 DEF OpensAs
<1>8. previews # {} => f \notin ToSet(strip) /\ Min(previews) \in DOMAIN strip
  <2> SUFFICES ASSUME previews # {} PROVE f \notin ToSet(strip) /\ Min(previews) \in DOMAIN strip
    OBVIOUS
  <2>1. previews \in SUBSET Nat /\ previews \subseteq DOMAIN strip /\ f \notin ToSet(strip)
    BY <1>6, <1>7, StripPlaces
  <2>2. Min(previews) \in previews
    BY <2>1, LeastPlace
  <2> QED
    BY <2>1, <2>2
<1>9. evicted = IF previews = {} THEN {} ELSE {strip[Min(previews)]}
  BY <1>3 DEF OpensAs
<1>10. opened = CASE f \in ToSet(strip) -> strip
                 [] previews # {} -> [strip EXCEPT ![Min(previews)] = f]
                 [] OTHER -> Append(strip, f)
  BY <1>3 DEF OpensAs
<1>11. opened \in Seq(Files) /\ IsInjective(opened) /\ ToSet(opened) = (ToSet(strip) \ evicted) \cup {f}
  <2>1. CASE f \in ToSet(strip)
    <3>1. previews = {} /\ opened = strip /\ evicted = {}
      BY <2>1, <1>7, <1>9, <1>10
    <3> QED
      BY <2>1, <3>1, <1>6
  <2>2. CASE f \notin ToSet(strip) /\ previews # {}
    <3>1. PICK at : at = Min(previews) /\ at \in DOMAIN strip
      BY <2>2, <1>8
    <3>2. opened = [strip EXCEPT ![at] = f] /\ evicted = {strip[at]}
      BY <2>2, <3>1, <1>9, <1>10
    <3> QED
      BY <2>2, <3>1, <3>2, <1>6, TakingOverATab
  <2>3. CASE f \notin ToSet(strip) /\ previews = {}
    <3>1. opened = Append(strip, f) /\ evicted = {}
      BY <2>3, <1>9, <1>10
    <3> QED
      <4>1. opened \in Seq(Files) /\ IsInjective(opened) /\ ToSet(opened) = ToSet(strip) \cup {f}
        BY <2>3, <3>1, <1>6, AddingATab
      <4> QED
        BY <4>1, <3>1
  <2> QED
    BY <2>1, <2>2, <2>3
<1>12. f \in ToSet(opened) /\ opened # <<>>
  BY <1>11, StripPlaces
<1>13. PICK g : g = [gs[k] EXCEPT !.files = opened, !.active = f]
  OBVIOUS
<1>14. g \in Pane /\ g.id = gs[k].id /\ g.files = opened /\ g.active = f
  BY <1>6, <1>11, <1>13 DEF Pane
<1>15. WellPane(g)
  BY <1>11, <1>12, <1>14 DEF WellPane
<1>16. next = [gs EXCEPT ![k] = g]
  <2>1. PICK h : h = [gs[k] EXCEPT !.files = opened]
    OBVIOUS
  <2>2. PICK a : a = [gs EXCEPT ![k] = h]
    OBVIOUS
  <2>3. a[k] = h /\ DOMAIN a = DOMAIN gs
    BY <2>2, <1>2, <1>4
  <2>4. g = [h EXCEPT !.active = f]
    BY <2>1, <1>13
  <2>5. [a EXCEPT ![k] = g] = [gs EXCEPT ![k] = g]
    BY <2>2, <2>3, <1>2, <1>4
  <2>7. next = [gs EXCEPT ![k].files = opened, ![k].active = f]
    BY <1>1, <1>3 DEF OpensAs
  <2>6. [gs EXCEPT ![k].files = opened, ![k].active = f] = [a EXCEPT ![k] = [a[k] EXCEPT !.active = f]]
    BY <2>1, <2>2
  <2> QED
    BY <2>3, <2>4, <2>5, <2>6, <2>7
<1>17. Row(next) /\ Len(next) = Len(gs) /\ DOMAIN next = DOMAIN gs
  BY <1>2, <1>4, <1>14, <1>15, <1>16, RowWith
<1>18. next[k] = g /\ \A j \in DOMAIN gs : j # k => next[j] = gs[j]
  BY <1>2, <1>4, <1>16
<1>20. /\ panes' = next /\ UNCHANGED <<focus, nextPane, question, closedStale>>
       /\ IF f \in DOMAIN buffers
          THEN DOMAIN buffers' = DOMAIN Kept(Files \ (evicted \ Shown(next)))
          ELSE DOMAIN buffers' = DOMAIN Kept(Files \ (evicted \ Shown(next))) \cup {f}
  BY <1>3 DEF OpensAs
<1>21. DOMAIN Kept(Files \ (evicted \ Shown(next))) = DOMAIN buffers \ (evicted \ Shown(next))
  BY <1>2 DEF Kept, InStep
<1>22. ASSUME NEW x PROVE x \in Shown(next) <=> x \in (Shown(gs) \ (evicted \ Shown(next))) \cup {f}
  <2>1. x \in Shown(next) <=> \E j \in DOMAIN gs : x \in ToSet(next[j].files)
    BY <1>17, RowShows
  <2>2. x \in Shown(gs) <=> \E j \in DOMAIN gs : x \in ToSet(gs[j].files)
    BY RowShows
  <2>3. ToSet(next[k].files) = (ToSet(gs[k].files) \ evicted) \cup {f}
    BY <1>5, <1>11, <1>14, <1>18
  <2>4. ASSUME x \in Shown(next), x # f PROVE x \in Shown(gs)
    <3>1. PICK j \in DOMAIN gs : x \in ToSet(next[j].files)
      BY <2>1, <2>4
    <3>2. x \in ToSet(gs[j].files)
      BY <3>1, <2>3, <2>4, <1>18
    <3> QED
      BY <3>2, <2>2
  <2>5. ASSUME x \in Shown(gs), x \notin evicted PROVE x \in Shown(next)
    <3>1. PICK j \in DOMAIN gs : x \in ToSet(gs[j].files)
      BY <2>2, <2>5
    <3>2. x \in ToSet(next[j].files)
      BY <3>1, <2>3, <2>5, <1>18
    <3> QED
      BY <3>2, <2>1
  <2>6. f \in ToSet(next[k].files)
    BY <2>3
  <2>7. f \in Shown(next)
    BY <2>6, <1>4, <1>17, RowShows
  <2> QED
    BY <2>4, <2>5, <2>7
<1>23. Shown(next) = (Shown(gs) \ (evicted \ Shown(next))) \cup {f}
  BY <1>22
<1>19. DOMAIN buffers' = (DOMAIN buffers \ (evicted \ Shown(next))) \cup {f}
  <2>1. CASE f \in DOMAIN buffers
    <3>1. f \in Shown(next)
      BY <1>23
    <3> QED
      BY <2>1, <3>1, <1>20, <1>21
  <2>2. CASE f \notin DOMAIN buffers
    BY <2>2, <1>20, <1>21
  <2> QED
    BY <2>1, <2>2
<1>24. InStep(DOMAIN buffers', next, closedStale')
  <2>1. DOMAIN buffers' \subseteq Shown(next)
    BY <1>2, <1>19, <1>22 DEF InStep
  <2>2. Shown(gs) \subseteq DOMAIN buffers => Shown(next) \subseteq DOMAIN buffers'
    BY <1>19, <1>22
  <2> QED
    BY <2>1, <2>2, <1>2, <1>20 DEF InStep
<1>25. Full(next)
  <2>1. \A j \in DOMAIN next : next[j].files = <<>> => j # k /\ Len(gs) = 1
    BY <1>2, <1>12, <1>14, <1>17, <1>18 DEF Full
  <2>2. next # <<>>
    BY <1>4, <1>17
  <2> QED
    BY <2>1, <2>2, <1>17 DEF Full
<1>26. \A j \in DOMAIN gs : next[j].id = gs[j].id
  BY <1>14, <1>18
<1>27. Before(panes', nextPane')
  BY <1>1, <1>17, <1>20, <1>26 DEF PanesInv, Before
<1>28. PaneOf(panes', focus') # {}
  BY <1>1, <1>17, <1>20, <1>26 DEF PanesInv, PaneOf
<1> QED
  BY <1>20, <1>24, <1>25, <1>27, <1>28 DEF PanesInv

LEMMA TypingAndLanding ==
  ASSUME PanesInv, \/ \E f : TypeIn(f) \/ Save(f) \/ EditElsewhere(f)
                   \/ \E c : CallFails(c)
                   \/ FsChangedArrives
                   \/ \E c : CallLands(c) /\ UNCHANGED <<project, onDisk, panes, focus, nextPane, question, fsChanged, everOnDisk, closedStale>>
                   \/ UNCHANGED <<project, buffers, panes, focus, nextPane, question, closedStale>>
  PROVE  PanesInv'
<1>1. UNCHANGED <<panes, focus, nextPane, question, closedStale>>
  BY DEF TypeIn, Save, EditElsewhere, CallFails, FsChangedArrives
<1>2. DOMAIN buffers' = DOMAIN buffers
  BY DEF TypeIn, Save, EditElsewhere, CallFails, FsChangedArrives, CallLands, Lands, Patch
<1> QED
  BY <1>1, <1>2, LeavingThePanes

LEMMA ShownGoesOn == PanesInv /\ [EditorNext]_editorVars => PanesInv'
<1> SUFFICES ASSUME PanesInv, [EditorNext]_editorVars PROVE PanesInv'
  OBVIOUS
<1>1. ASSUME NEW f \in Files, NEW pin \in BOOLEAN, OpenFile(f, pin) PROVE PanesInv'
  BY <1>1, OpeningAFile
<1>2. CASE \E k \in DOMAIN panes : CloseGroup(panes[k].id) \/ CloseFileTab(panes[k].id, panes[k].active)
  BY <1>2, ClosingKeepsShown
<1>3. ASSUME NEW k \in DOMAIN panes, NEW to \in DOMAIN panes, NEW f \in Files, NEW i, DropTab(k, f, to, i) PROVE PanesInv'
  BY <1>3, DroppingATab
<1>4. ASSUME NEW k \in DOMAIN panes, NEW f \in Files, SetGroupActive(k, f) PROVE PanesInv'
  BY <1>4, ActivatingATab
<1>5. CASE \/ \E k \in PaneOf(panes, focus) : TypeIn(panes[k].active) \/ Save(panes[k].active)
           \/ \E f \in Files : EditElsewhere(f)
           \/ \E c \in fileCalls : CallFails(c)
           \/ FsChangedArrives
  BY <1>5, TypingAndLanding
<1>6. ASSUME NEW k \in DOMAIN panes, SplitGroup(k) PROVE PanesInv'
  BY <1>6, Splitting
<1>7. CASE \E p \in Projects : SelectProject(p)
  BY <1>7, SelectingAProject
<1>8. CASE Confirm \/ Decline
  BY <1>8, ClosingKeepsShown
<1>9. CASE \E c \in fileCalls : CallLands(c) /\ UNCHANGED <<project, onDisk, panes, focus, nextPane, question, fsChanged, everOnDisk, closedStale>>
  BY <1>9, TypingAndLanding
<1>10. CASE UNCHANGED <<project, buffers, panes, focus, nextPane, question, closedStale>>
  BY <1>10, TypingAndLanding
<1>11. CASE UNCHANGED editorVars
  BY <1>10, <1>11 DEF editorVars
<1> QED
  BY <1>1, <1>2, <1>3, <1>4, <1>5, <1>6, <1>7, <1>8, <1>9, <1>10, <1>11 DEF EditorNext

\* No open file is out of sight, for any files, panes and bounds: a file is closed with
\* its last tab, no pane is left empty beside others, and the focus goes to a pane that
\* stays (editorGroups.ts, closeTab), whatever was closed by a late answer before; and
\* but for such an answer every tab has its open file.
THEOREM OpenFilesAreAlwaysShown == EditorSpec => []OpenFilesAreShown
<1> QED
  BY ShownFirst, ShownGoesOn, PanesAreShown, PTL DEF EditorSpec

------------------------------------------------------------------------------
\* What the editor has asked the core, and how far it is.
CallKinds == \A c \in fileCalls : c.at \in {"asked", "answered"} /\ c.kind \in {"open", "reload", "save"}

LEMMA AskedKinds ==
  ASSUME CallKinds, NEW kind \in {"open", "reload", "save"}, NEW files, NEW text, AskCore(kind, files, text)
  PROVE  CallKinds'
<1> SUFFICES ASSUME NEW c \in fileCalls'
             PROVE  c.at \in {"asked", "answered"} /\ c.kind \in {"open", "reload", "save"}
  BY DEF CallKinds
<1>1. CASE c \in fileCalls
  BY <1>1 DEF CallKinds
<1>2. CASE c \notin fileCalls
  <2> DEFINE Free(f) == Min({i \in 1 .. MaxFileCalls + 1 : \A d \in fileCalls : d.kind = kind /\ d.file = f => d.id # i})
             asked(f) == [at |-> "asked", kind |-> kind, file |-> f, project |-> project, text |-> text, id |-> Free(f)]
  <2>1. \E f \in files : c = asked(f)
    BY <1>2, Zenon DEF AskCore
  <2> HIDE DEF Free
  <2> QED
    BY <2>1
<1> QED
  BY <1>1, <1>2

LEMMA AnsweredKinds ==
  ASSUME CleanInv, CallKinds, NEW c \in fileCalls, NEW text \in Text, Reply(c, text)
  PROVE  CallKinds'
<1>1. PICK a : a = [c EXCEPT !.at = "answered", !.text = text]
  OBVIOUS
<1>2. Asked(c)
  BY DEF CleanInv
<1>3. a.at = "answered" /\ a.kind = c.kind
  BY <1>1, <1>2, AnswerRecord
<1>4. fileCalls' = (fileCalls \ {c}) \cup {a}
  BY <1>1 DEF Reply
<1> QED
  BY <1>3, <1>4 DEF CallKinds

LEMMA CallsKeepTheirKinds == CleanInv /\ CallKinds /\ [EditorNext]_editorVars => CallKinds'
<1> SUFFICES ASSUME CleanInv, CallKinds, [EditorNext]_editorVars PROVE CallKinds'
  OBVIOUS
<1> DEFINE Fewer == fileCalls' \subseteq fileCalls
<1>1. CASE Fewer
  BY <1>1 DEF CallKinds
<1>2. ASSUME NEW f, NEW pin, OpenFile(f, pin) PROVE CallKinds'
  <2>1. UNCHANGED fileCalls \/ AskCore("open", {f}, Blank)
    BY <1>2 DEF OpenFile
  <2> QED
    BY <2>1, <1>1, AskedKinds
<1>3. ASSUME NEW f, Save(f) PROVE CallKinds'
  BY <1>3, AskedKinds DEF Save
<1>4. CASE FsChangedArrives
  BY <1>4, AskedKinds DEF FsChangedArrives
<1>5. ASSUME NEW c \in fileCalls, FileRead(c) PROVE CallKinds'
  <2>1. onDisk[c.project][c.file] \in Text
    BY DEF CleanInv, DiskInv, Asked
  <2> QED
    BY <2>1, <1>5, AnsweredKinds DEF FileRead
<1>6. ASSUME NEW c \in fileCalls, FileWritten(c) PROVE CallKinds'
  <2>1. c.text \in Text
    BY DEF CleanInv, Asked
  <2> QED
    BY <2>1, <1>6, AnsweredKinds DEF FileWritten
<1>7. ASSUME NEW c \in fileCalls, CallFails(c) PROVE CallKinds'
  BY <1>1, <1>7, TextTypes, AnsweredKinds DEF CallFails
<1>8. ASSUME NEW c \in fileCalls, CallLands(c) PROVE Fewer
  BY <1>8 DEF CallLands
<1>9. ASSUME \/ \E k \in DOMAIN panes : CloseGroup(panes[k].id) \/ CloseFileTab(panes[k].id, panes[k].active)
             \/ \E k, to \in DOMAIN panes, f \in Files, i \in 1 .. Cardinality(Files) : DropTab(k, f, to, i)
             \/ \E k \in DOMAIN panes, f \in Files : SetGroupActive(k, f)
             \/ \E k \in DOMAIN panes : SplitGroup(k)
             \/ \E f : TypeIn(f) \/ EditElsewhere(f)
             \/ \E p \in Projects : SelectProject(p)
             \/ Confirm \/ Decline \/ UNCHANGED editorVars
      PROVE  Fewer
  <2>1. CASE \E k \in DOMAIN panes : CloseGroup(panes[k].id) \/ CloseFileTab(panes[k].id, panes[k].active)
    BY <2>1 DEF CloseGroup, CloseFileTab
  <2>2. CASE \E k, to \in DOMAIN panes, f \in Files, i \in 1 .. Cardinality(Files) : DropTab(k, f, to, i)
    <3>0. PICK k, to, f, i : DropTab(k, f, to, i)
      BY <2>2
    <3>1. UNCHANGED fileCalls
      BY <3>0 DEF DropTab, Rearranged
    <3> QED
      BY <3>1
  <2>3. CASE \E k \in DOMAIN panes, f \in Files : SetGroupActive(k, f)
    BY <2>3 DEF SetGroupActive, Rearranged
  <2>4. CASE \E k \in DOMAIN panes : SplitGroup(k)
    <3>1. UNCHANGED fileCalls
      BY <2>4, Zenon DEF SplitGroup, Rearranged
    <3> QED
      BY <3>1
  <2>5. CASE \E f : TypeIn(f) \/ EditElsewhere(f)
    <3>1. UNCHANGED fileCalls
      BY <2>5, Zenon DEF TypeIn, EditElsewhere
    <3> QED
      BY <3>1
  <2>6. CASE \/ \E p \in Projects : SelectProject(p)
             \/ Confirm \/ Decline \/ UNCHANGED editorVars
    BY <2>6 DEF SelectProject, Confirm, Decline, editorVars
  <2> QED
    BY <1>9, <2>1, <2>2, <2>3, <2>4, <2>5, <2>6
<1> HIDE DEF Fewer
<1> QED
  BY <1>1, <1>2, <1>3, <1>4, <1>5, <1>6, <1>7, <1>8, <1>9 DEF EditorNext

\* Whatever is opened, closed, asked and answered, the texts, the open files, the panes
\* and the calls keep their types, for any projects, files and bounds.
THEOREM EditorTypeCorrect == EditorSpec => []EditorTypeOK
<1>1. EditorInit => CallKinds
  BY DEF EditorInit, CallKinds
<1>2. CleanInv /\ PanesInv /\ CallKinds => EditorTypeOK
  <2> SUFFICES ASSUME CleanInv, PanesInv, CallKinds PROVE EditorTypeOK
    OBVIOUS
  <2>1. project \in Projects /\ onDisk \in [Projects -> [Files -> Text]]
    BY DEF CleanInv, DiskInv
  <2>2. DOMAIN buffers \subseteq Files /\ \A f \in DOMAIN buffers : buffers[f] \in BufferRecord
    BY DEF CleanInv, Buffers
  <2>3. panes \in Seq(Pane)
    BY DEF PanesInv, Full, Row
  <2>4. focus \in Nat
    <3>1. PICK k \in DOMAIN panes : panes[k].id = focus
      BY DEF PanesInv, PaneOf
    <3>2. panes[k] \in Pane
      BY DEF PanesInv, Full, Row, WellPane
    <3> QED
      BY <3>1, <3>2 DEF Pane
  <2>5. question.kind \in {"none", "tab", "group"}
    BY DEF PanesInv
  <2> QED
    BY <2>1, <2>2, <2>3, <2>4, <2>5 DEF EditorTypeOK, CallKinds, BufferRecord, Pane
<1> QED
  BY <1>1, <1>2, CleanAtFirst, TheEditorKeepsClean, ShownFirst, ShownGoesOn, CallsKeepTheirKinds, PTL
     DEF EditorSpec

==============================================================================
