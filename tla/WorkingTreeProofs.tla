-------------------------- MODULE WorkingTreeProofs --------------------------
(***************************************************************************)
(* What keeps uncommitted work, for any projects, branches, works and      *)
(* number of checkouts under way, and any files, contents and bounds.      *)
(*                                                                         *)
(* NoWorkIsLost is not inductive by itself: giving up a conflict removes   *)
(* from the tree what the apply brought, and only that it is still in the  *)
(* stash, or was given up by hand since, keeps it. MarksAreKept says so.   *)
(*                                                                         *)
(* UndoPutsBack says nothing of the checkpoints that no restore has        *)
(* reached yet. The invariant adds that each of them is faithful to the    *)
(* disk it was taken of, but for renames, and that what the restore is     *)
(* through with holds what its checkpoint has.                             *)
(***************************************************************************)
EXTENDS Checkout, Checkpoints, SequenceTheorems, TLAPS

------------------------------------------------------------------------------
(* Of Checkout.                                                            *)

TreesOK ==
  /\ head \in [Repos -> Branches]
  /\ work \in [Repos -> SUBSET Works] /\ marked \in [Repos -> SUBSET Works]
  /\ \A r \in Repos : marked[r] \subseteq work[r]
StashOK == stash \in [Repos -> Seq(Entry)] /\ oids \in 0..MaxStashes /\ aside \subseteq 1..oids
FlowsOK ==
  /\ open \in Repos /\ flow \in [Flows -> Checkout] /\ asked \subseteq Flows
  /\ \A f \in Flows : flow[f].pc # "idle" => flow[f].repo \in Repos /\ flow[f].to \in Branches
  /\ \A f \in asked : flow[f].pc = "asking"

Entries(r) == ToSet(stash[r])
WorksOf(r) == work[r] \cup UNION {e.works : e \in Entries(r)}
WorksOK ==
  /\ made \subseteq Works /\ settled \subseteq made
  /\ \A r \in Repos : WorksOf(r) \subseteq made

(* What conflicts came out of a stash entry that is there, or was given up. *)
MarksAreKept ==
  \A r \in Repos : \A w \in marked[r] : w \in settled \/ \E e \in Entries(r) : w \in e.works

Held(w) == (\E r \in Repos : w \in WorksOf(r)) \/ \E b \in Branches : w \in Has[b]
AllHeld == \A w \in made \ settled : Held(w)
Listed(o) == \E r \in Repos : \E e \in Entries(r) : e.oid = o

WorkInv ==
  /\ TreesOK /\ StashOK /\ FlowsOK /\ WorksOK
  /\ MarksAreKept /\ AllHeld /\ \A o \in aside : Listed(o)

LEMMA EntriesByIndex ==
  ASSUME NEW S, NEW s \in Seq(S)
  PROVE  /\ \A i \in 1..Len(s) : s[i] \in ToSet(s) /\ s[i] \in S
         /\ \A e \in ToSet(s) : \E i \in 1..Len(s) : e = s[i]
<1>1. DOMAIN s = 1..Len(s) /\ \A i \in 1..Len(s) : s[i] \in S
  OBVIOUS
<1> QED  BY <1>1 DEF ToSet

LEMMA JoinedEntries ==
  ASSUME NEW S, NEW s \in Seq(S), NEW t \in Seq(S)
  PROVE  s \o t \in Seq(S) /\ ToSet(s \o t) = ToSet(s) \cup ToSet(t)
<1>1. \A u : ToSet(u) = Range(u)
  BY DEF ToSet, Range
<1> QED  BY <1>1, ConcatProperties, RangeConcatenation

(* What a list has once one entry is removed, or one is put before it.     *)
LEMMA RemovedEntry ==
  ASSUME NEW S, NEW s \in Seq(S), NEW i \in 1..Len(s)
  PROVE  /\ RemoveAt(s, i) \in Seq(S)
         /\ ToSet(RemoveAt(s, i)) \subseteq ToSet(s)
         /\ \A e \in ToSet(s) : e = s[i] \/ e \in ToSet(RemoveAt(s, i))
<1> DEFINE before == SubSeq(s, 1, i - 1)
           after == SubSeq(s, i + 1, Len(s))
<1>1. Len(s) \in Nat /\ \A j \in 1..Len(s) : s[j] \in S
  OBVIOUS
<1>2. /\ before \in Seq(S) /\ Len(before) = i - 1
      /\ \A j \in 1..(i - 1) : before[j] = s[j]
  BY <1>1
<1>3. /\ after \in Seq(S) /\ Len(after) = Len(s) - i
      /\ \A j \in 1..(Len(s) - i) : after[j] = s[i + j]
  BY <1>1
<1>4. RemoveAt(s, i) = before \o after
  BY DEF RemoveAt
<1> HIDE DEF before, after
<1>5. before \o after \in Seq(S) /\ ToSet(before \o after) = ToSet(before) \cup ToSet(after)
  BY <1>2, <1>3, JoinedEntries
<1>6. ASSUME NEW e \in ToSet(before) PROVE e \in ToSet(s)
  <2>1. PICK j \in 1..(i - 1) : e = before[j]
    BY <1>2, EntriesByIndex
  <2>2. j \in 1..Len(s) /\ e = s[j]
    BY <1>1, <1>2, <2>1
  <2> QED  BY <2>2, EntriesByIndex
<1>7. ASSUME NEW e \in ToSet(after) PROVE e \in ToSet(s)
  <2>1. PICK j \in 1..(Len(s) - i) : e = after[j]
    BY <1>3, EntriesByIndex
  <2>2. i + j \in 1..Len(s) /\ e = s[i + j]
    BY <1>1, <1>3, <2>1
  <2> QED  BY <2>2, EntriesByIndex
<1>8. ASSUME NEW e \in ToSet(s), e # s[i] PROVE e \in ToSet(before) \cup ToSet(after)
  <2>1. PICK j \in 1..Len(s) : e = s[j]
    BY EntriesByIndex
  <2>2. CASE j < i
    <3>1. j \in 1..(i - 1)
      BY <2>2
    <3> QED  BY <1>2, <2>1, <3>1, EntriesByIndex
  <2>3. CASE j > i
    <3>1. j - i \in 1..(Len(s) - i) /\ i + (j - i) = j
      BY <1>1, <2>3
    <3>2. e = after[j - i]
      BY <1>3, <2>1, <3>1
    <3> QED  BY <1>3, <3>1, <3>2, EntriesByIndex
  <2> QED  BY <1>8, <2>1, <2>2, <2>3
<1> QED  BY <1>4, <1>5, <1>6, <1>7, <1>8

LEMMA ConsedEntry ==
  ASSUME NEW S, NEW s \in Seq(S), NEW e \in S
  PROVE  Cons(e, s) \in Seq(S) /\ ToSet(Cons(e, s)) = ToSet(s) \cup {e}
<1> DEFINE one == <<e>>
<1>1. one \in Seq(S) /\ Len(one) = 1 /\ one[1] = e
  OBVIOUS
<1>2. Cons(e, s) = one \o s
  BY DEF Cons
<1> HIDE DEF one
<1>3. 1 \in 1..Len(one) /\ \A i \in 1..Len(one) : i = 1
  BY <1>1
<1>4. ToSet(one) = {e}
  BY <1>1, <1>3, EntriesByIndex
<1>5. one \o s \in Seq(S) /\ ToSet(one \o s) = ToSet(one) \cup ToSet(s)
  BY <1>1, JoinedEntries
<1> QED  BY <1>2, <1>4, <1>5

(* An apply only adds to the tree, and what it adds is in the list.        *)
LEMMA ApplyAdds ==
  ASSUME WorkInv, NEW r \in Repos, NEW i \in Nat \ {0}, NEW outcome \in Outcomes,
         ApplyTo(r, i, outcome), head' = head
  PROVE  /\ TreesOK'
         /\ \A q \in Repos : work[q] \subseteq work'[q] /\ work'[q] \subseteq WorksOf(q)
         /\ \A q \in Repos : \A w \in marked'[q] :
              w \in marked[q] \/ \E e \in Entries(q) : w \in e.works
         /\ outcome = "applied" =>
              /\ marked' = marked /\ marked[r] = {} /\ i \in 1..Len(stash[r])
              /\ stash[r][i].works \subseteq work'[r] \cup Has[head[r]]
<1> DEFINE entry == stash[r][i].works
<1>1. stash[r] \in Seq(Entry) /\ Len(stash[r]) \in Nat
  BY DEF WorkInv, StashOK
<1>2. ASSUME i <= Len(stash[r])
      PROVE  i \in 1..Len(stash[r]) /\ stash[r][i] \in Entries(r) /\ stash[r][i] \in Entry
  BY <1>1, <1>2, EntriesByIndex DEF Entries
<1>3. i <= Len(stash[r]) => entry \subseteq Works
  BY <1>2 DEF Entry
<1>4. CASE outcome = "applied"
  <2>1. /\ i <= Len(stash[r]) /\ marked[r] = {} /\ marked' = marked
        /\ work' = [work EXCEPT ![r] = @ \cup (entry \ Has[head[r]])]
    BY <1>4 DEF ApplyTo
  <2> HIDE DEF entry
  <2>2. /\ work' \in [Repos -> SUBSET Works]
        /\ work'[r] = work[r] \cup (entry \ Has[head[r]])
        /\ \A q \in Repos \ {r} : work'[q] = work[q]
    BY <1>3, <2>1 DEF WorkInv, TreesOK
  <2>3. TreesOK'
    BY <2>1, <2>2 DEF WorkInv, TreesOK
  <2>4. entry \subseteq WorksOf(r)
    BY <1>2, <2>1 DEF WorksOf, entry
  <2>5. \A q \in Repos : work[q] \subseteq work'[q] /\ work'[q] \subseteq WorksOf(q)
    BY <2>2, <2>4 DEF WorksOf
  <2>6. entry \subseteq work'[r] \cup Has[head[r]]
    BY <2>2
  <2> QED  BY <1>2, <2>1, <2>3, <2>5, <2>6 DEF entry
<1>5. CASE outcome = "conflicts"
  <2>1. /\ i <= Len(stash[r])
        /\ work' = [work EXCEPT ![r] = @ \cup entry] /\ marked' = [marked EXCEPT ![r] = @ \cup entry]
    BY <1>5 DEF ApplyTo
  <2> HIDE DEF entry
  <2>2. /\ work' \in [Repos -> SUBSET Works] /\ marked' \in [Repos -> SUBSET Works]
        /\ work'[r] = work[r] \cup entry /\ marked'[r] = marked[r] \cup entry
        /\ \A q \in Repos \ {r} : work'[q] = work[q] /\ marked'[q] = marked[q]
    BY <1>3, <2>1 DEF WorkInv, TreesOK
  <2>3. TreesOK'
    BY <2>2 DEF WorkInv, TreesOK
  <2>4. entry \subseteq WorksOf(r) /\ \A w \in entry : \E e \in Entries(r) : w \in e.works
    BY <1>2, <2>1 DEF WorksOf, entry
  <2> QED  BY <1>5, <2>2, <2>3, <2>4 DEF WorksOf
<1>6. CASE outcome = "refused"
  <2>1. work' = work /\ marked' = marked
    BY <1>6 DEF ApplyTo
  <2>2. TreesOK'
    BY <2>1 DEF WorkInv, TreesOK
  <2> QED  BY <1>6, <2>1, <2>2 DEF WorksOf
<1> QED  BY <1>4, <1>5, <1>6 DEF Outcomes

(* A drop takes one entry off one list, and disowns it.                    *)
LEMMA DropTakesOne ==
  ASSUME WorkInv, NEW r \in Repos, NEW i \in 1..Len(stash[r]), DropEntry(r, i), oids' = oids
  PROVE  /\ StashOK' /\ \A o \in aside' : Listed(o)'
         /\ \A q \in Repos \ {r} : Entries(q)' = Entries(q)
         /\ Entries(r)' \subseteq Entries(r)
         /\ \A e \in Entries(r) : e = stash[r][i] \/ e \in Entries(r)'
         /\ stash[r][i] \in Entries(r)
<1>1. stash[r] \in Seq(Entry)
  BY DEF WorkInv, StashOK
<1>2. /\ RemoveAt(stash[r], i) \in Seq(Entry)
      /\ ToSet(RemoveAt(stash[r], i)) \subseteq ToSet(stash[r])
      /\ \A e \in ToSet(stash[r]) : e = stash[r][i] \/ e \in ToSet(RemoveAt(stash[r], i))
  BY <1>1, RemovedEntry
<1>3. /\ stash' = [stash EXCEPT ![r] = RemoveAt(stash[r], i)]
      /\ aside' = aside \ {stash[r][i].oid}
  BY DEF DropEntry
<1>4. /\ stash'[r] = RemoveAt(stash[r], i) /\ \A q \in Repos \ {r} : stash'[q] = stash[q]
      /\ stash' \in [Repos -> Seq(Entry)]
  BY <1>2, <1>3 DEF WorkInv, StashOK
<1>5. /\ \A q \in Repos \ {r} : Entries(q)' = Entries(q)
      /\ Entries(r)' \subseteq Entries(r)
      /\ \A e \in Entries(r) : e = stash[r][i] \/ e \in Entries(r)'
  BY <1>2, <1>4 DEF Entries
<1>6. stash[r][i] \in Entries(r)
  BY <1>1, EntriesByIndex DEF Entries
<1>7. ASSUME NEW o \in aside' PROVE Listed(o)'
  <2>1. o \in aside /\ o # stash[r][i].oid
    BY <1>3
  <2>2. PICK q \in Repos : \E e \in Entries(q) : e.oid = o
    BY <2>1 DEF WorkInv, Listed
  <2>3. PICK e \in Entries(q) : e.oid = o
    BY <2>2
  <2>4. e \in Entries(q)'
    BY <1>5, <2>1, <2>3
  <2> QED  BY <2>3, <2>4 DEF Listed
<1>8. StashOK'
  BY <1>3, <1>4 DEF WorkInv, StashOK
<1> QED  BY <1>5, <1>6, <1>7, <1>8

(* A save moves all there is from the tree to the head of the list.        *)
LEMMA SaveMoves ==
  ASSUME WorkInv, NEW r \in Repos, Save(r), UNCHANGED <<head, marked>>
  PROVE  /\ TreesOK'
         /\ stash' \in [Repos -> Seq(Entry)] /\ oids' \in 0..MaxStashes /\ oids' \in {oids, oids + 1}
         /\ \A q \in Repos : (\A w : w \in WorksOf(q)' <=> w \in WorksOf(q)) /\ Entries(q) \subseteq Entries(q)'
         /\ oids' # oids => Listed(oids)'
<1>1. CASE UNCHANGED <<stash, oids, work>>
  BY <1>1 DEF WorkInv, TreesOK, StashOK, Entries, WorksOf
<1>2. CASE ~UNCHANGED <<stash, oids, work>>
  <2> DEFINE new == [oid |-> oids + 1, works |-> work[r]]
  <2>1. /\ oids < MaxStashes /\ marked[r] = {} /\ work[r] # {}
        /\ stash' = [stash EXCEPT ![r] = Cons(new, stash[r])]
        /\ oids' = oids + 1 /\ work' = [work EXCEPT ![r] = {}]
    BY <1>2 DEF Save
  <2>2. oids' \in 1..MaxStashes /\ oids' # oids
    <3>1. MaxStashes \in Nat /\ oids \in 0..MaxStashes
      BY WorksAssumption DEF WorkInv, StashOK
    <3>2. oids < MaxStashes /\ oids' = oids + 1
      BY <2>1
    <3> QED  BY <3>1, <3>2
  <2>3. new \in Entry /\ new.works = work[r] /\ new.oid = oids'
    BY <2>1, <2>2 DEF WorkInv, TreesOK, Entry
  <2> HIDE DEF new
  <2>4. stash[r] \in Seq(Entry)
    BY DEF WorkInv, StashOK
  <2>5. Cons(new, stash[r]) \in Seq(Entry) /\ ToSet(Cons(new, stash[r])) = ToSet(stash[r]) \cup {new}
    BY <2>3, <2>4, ConsedEntry
  <2>6. /\ stash' \in [Repos -> Seq(Entry)] /\ stash'[r] = Cons(new, stash[r])
        /\ \A q \in Repos \ {r} : stash'[q] = stash[q]
    BY <2>1, <2>5 DEF WorkInv, StashOK
  <2>7. /\ Entries(r)' = Entries(r) \cup {new}
        /\ \A q \in Repos \ {r} : Entries(q)' = Entries(q)
    BY <2>5, <2>6 DEF Entries
  <2>8. /\ work' \in [Repos -> SUBSET Works] /\ work'[r] = {}
        /\ \A q \in Repos \ {r} : work'[q] = work[q]
    BY <2>1 DEF WorkInv, TreesOK
  <2>9. TreesOK'
    BY <2>1, <2>8 DEF WorkInv, TreesOK
  <2>10. ASSUME NEW w PROVE w \in WorksOf(r)' <=> w \in WorksOf(r)
    <3>1. w \in WorksOf(r)' <=> w \in work[r] \/ \E e \in Entries(r) : w \in e.works
      BY <2>3, <2>7, <2>8 DEF WorksOf
    <3>2. w \in WorksOf(r) <=> w \in work[r] \/ \E e \in Entries(r) : w \in e.works
      BY DEF WorksOf
    <3> QED  BY <3>1, <3>2
  <2>11. ASSUME NEW q \in Repos \ {r}, NEW w PROVE w \in WorksOf(q)' <=> w \in WorksOf(q)
    BY <2>7, <2>8 DEF WorksOf
  <2>12. Listed(oids)'
    BY <2>3, <2>7 DEF Listed
  <2> QED  BY <2>1, <2>2, <2>6, <2>7, <2>9, <2>10, <2>11, <2>12
<1> QED  BY <1>1, <1>2
(* A flow that goes on keeps its repository and its branch; one that ends  *)
(* has none.                                                               *)
LEMMA FlowGoes ==
  ASSUME FlowsOK, NEW f \in Flows, flow[f].pc # "idle",
         NEW pc \in {"running", "asking", "saving", "retrying", "carrying"}, Goes(f, pc),
         open' = open,
         (asked' = asked /\ flow[f].pc # "asking") \/ (asked' = {f} /\ pc = "asking")
  PROVE  FlowsOK'
<1>1. flow[f] \in Checkout /\ flow' = [flow EXCEPT ![f] = [flow[f] EXCEPT !.pc = pc]]
  BY DEF FlowsOK, Goes
<1>2. /\ [flow[f] EXCEPT !.pc = pc] \in Checkout
      /\ [flow[f] EXCEPT !.pc = pc].repo = flow[f].repo /\ [flow[f] EXCEPT !.pc = pc].to = flow[f].to
      /\ [flow[f] EXCEPT !.pc = pc].pc = pc
  BY <1>1 DEF Checkout
<1>3. flow' \in [Flows -> Checkout] /\ \A g \in Flows \ {f} : flow'[g] = flow[g]
  BY <1>1, <1>2 DEF FlowsOK
<1>4. flow'[f].repo = flow[f].repo /\ flow'[f].to = flow[f].to /\ flow'[f].pc = pc
  BY <1>1, <1>2 DEF FlowsOK
<1> QED  BY <1>3, <1>4 DEF FlowsOK

LEMMA FlowEnds ==
  ASSUME FlowsOK, NEW f \in Flows, Ends(f), open' = open,
         (asked' = asked /\ flow[f].pc # "asking") \/ asked' = {}
  PROVE  FlowsOK'
<1>1. Idle \in Checkout /\ Idle.pc = "idle"
  BY DEF Idle, Checkout
<1>2. flow' \in [Flows -> Checkout] /\ flow'[f] = Idle /\ \A g \in Flows \ {f} : flow'[g] = flow[g]
  BY <1>1 DEF FlowsOK, Ends
<1> QED  BY <1>1, <1>2 DEF FlowsOK

(* An apply alone keeps everything.                                        *)
LEMMA ApplyKeeps ==
  ASSUME WorkInv, NEW r \in Repos, NEW i \in Nat \ {0}, NEW outcome \in Outcomes,
         ApplyTo(r, i, outcome), FlowsOK',
         UNCHANGED <<head, stash, oids, made, settled, aside>>
  PROVE  WorkInv'
<1>1. /\ TreesOK'
      /\ \A q \in Repos : work[q] \subseteq work'[q] /\ work'[q] \subseteq WorksOf(q)
      /\ \A q \in Repos : \A w \in marked'[q] :
           w \in marked[q] \/ \E e \in Entries(q) : w \in e.works
  BY ApplyAdds
<1>2. \A q \in Repos : Entries(q)' = Entries(q)
  BY DEF Entries
<1>3. \A q \in Repos : \A w : w \in WorksOf(q)' <=> w \in WorksOf(q)
  BY <1>1, <1>2 DEF WorksOf
<1>4. StashOK' /\ WorksOK' /\ AllHeld'
  BY <1>3 DEF WorkInv, StashOK, WorksOK, AllHeld, Held
<1>5. MarksAreKept'
  BY <1>1, <1>2 DEF WorkInv, MarksAreKept
<1>6. \A o \in aside' : Listed(o)'
  BY <1>2 DEF WorkInv, Listed
<1> QED  BY <1>1, <1>4, <1>5, <1>6 DEF WorkInv

(* So does a save, with what it set aside.                                 *)
LEMMA SaveKeeps ==
  ASSUME WorkInv, NEW r \in Repos, Save(r), FlowsOK', UNCHANGED <<head, marked, made, settled>>,
         aside' \subseteq aside \cup ({oids'} \ {oids})
  PROVE  WorkInv'
<1>1. /\ TreesOK'
      /\ stash' \in [Repos -> Seq(Entry)] /\ oids' \in 0..MaxStashes /\ oids' \in {oids, oids + 1}
      /\ \A q \in Repos : (\A w : w \in WorksOf(q)' <=> w \in WorksOf(q)) /\ Entries(q) \subseteq Entries(q)'
      /\ oids' # oids => Listed(oids)'
  BY SaveMoves
<1>2. StashOK'
  <2>1. oids \in Nat /\ oids' \in Nat /\ aside \subseteq 1..oids
    BY WorksAssumption, <1>1 DEF WorkInv, StashOK
  <2>2. aside' \subseteq 1..oids'
    BY <1>1, <2>1
  <2> QED  BY <1>1, <2>2 DEF StashOK
<1>3. WorksOK' /\ AllHeld'
  BY <1>1 DEF WorkInv, WorksOK, AllHeld, Held
<1>4. MarksAreKept'
  BY <1>1 DEF WorkInv, MarksAreKept
<1>5. ASSUME NEW o \in aside' PROVE Listed(o)'
  <2>1. CASE o \in aside
    BY <1>1, <2>1 DEF WorkInv, Listed
  <2>2. CASE o \notin aside
    <3>1. o = oids' /\ oids' # oids
      BY <2>2
    <3> QED  BY <1>1, <3>1 DEF Listed
  <2> QED  BY <2>1, <2>2
<1> QED  BY <1>1, <1>2, <1>3, <1>4, <1>5 DEF WorkInv

LEMMA WorkInit == Init => WorkInv
<1> SUFFICES ASSUME Init PROVE WorkInv
  OBVIOUS
<1>1. TreesOK
  BY DEF Init, TreesOK
<1>2. \A r \in Repos : stash[r] = <<>> /\ <<>> \in Seq(Entry)
  BY DEF Init
<1>3. \A r \in Repos : Entries(r) = {}
  BY <1>2 DEF Entries, ToSet
<1>4. StashOK
  BY <1>2, WorksAssumption DEF Init, StashOK
<1>5. FlowsOK
  BY DEF Init, FlowsOK, Idle, Checkout
<1>6. WorksOK
  BY <1>3 DEF Init, WorksOK, WorksOf
<1> QED  BY <1>1, <1>4, <1>5, <1>6 DEF Init, WorkInv, MarksAreKept, AllHeld
(* What a click on an entry may do: a clean pop and a drop remove it.      *)
LEMMA ClickStep ==
  ASSUME WorkInv, NEW r \in Repos, NEW i \in 1..MaxStashes,
         Apply(r, i) \/ Pop(r, i) \/ Drop(r, i) \/ Rename(r, i)
  PROVE  WorkInv'
<1>0. stash[r] \in Seq(Entry) /\ Len(stash[r]) \in Nat /\ i \in Nat \ {0}
  BY WorksAssumption DEF WorkInv, StashOK
<1>1. CASE Apply(r, i)
  <2>1. FlowsOK'
    BY <1>1 DEF Apply, WorkInv, FlowsOK
  <2> QED  BY <1>0, <1>1, <2>1, ApplyKeeps DEF Apply
<1>2. CASE Pop(r, i)
  <2>1. PICK outcome \in Outcomes :
          /\ ApplyTo(r, i, outcome)
          /\ \/ outcome = "applied" /\ DropEntry(r, i)
             \/ outcome # "applied" /\ UNCHANGED <<stash, aside>>
    BY <1>2 DEF Pop
  <2>2. /\ i \in 1..Len(stash[r]) /\ FlowsOK'
        /\ UNCHANGED <<head, oids, made, settled>>
    BY <1>0, <1>2 DEF Pop, WorkInv, FlowsOK
  <2>3. CASE outcome # "applied"
    BY <1>0, <2>1, <2>2, <2>3, ApplyKeeps
  <2>4. CASE outcome = "applied"
    <3>1. /\ TreesOK'
          /\ \A q \in Repos : work[q] \subseteq work'[q] /\ work'[q] \subseteq WorksOf(q)
          /\ marked' = marked /\ marked[r] = {}
          /\ stash[r][i].works \subseteq work'[r] \cup Has[head[r]]
      BY <1>0, <2>1, <2>2, <2>4, ApplyAdds
    <3>2. DropEntry(r, i)
      BY <2>1, <2>4
    <3>3. /\ StashOK' /\ \A o \in aside' : Listed(o)'
          /\ \A q \in Repos \ {r} : Entries(q)' = Entries(q)
          /\ Entries(r)' \subseteq Entries(r)
          /\ \A e \in Entries(r) : e = stash[r][i] \/ e \in Entries(r)'
      BY <2>2, <3>2, DropTakesOne
    <3>4. \A q \in Repos : \A w : w \in WorksOf(q)' => w \in WorksOf(q)
      BY <3>1, <3>3 DEF WorksOf
    <3>5. \A q \in Repos : \A w \in WorksOf(q) :
            w \in WorksOf(q)' \/ w \in Has[head[r]]
      BY <3>1, <3>3 DEF WorksOf
    <3>6. head[r] \in Branches
      BY DEF WorkInv, TreesOK
    <3>7. WorksOK'
      BY <2>2, <3>4 DEF WorkInv, WorksOK
    <3>8. AllHeld'
      BY <2>2, <3>5, <3>6 DEF WorkInv, AllHeld, Held
    <3>9. MarksAreKept'
      BY <2>2, <3>1, <3>3 DEF WorkInv, MarksAreKept
    <3> QED  BY <2>2, <3>1, <3>3, <3>7, <3>8, <3>9 DEF WorkInv
  <2> QED  BY <2>3, <2>4
<1>3. CASE Drop(r, i)
  <2>1. /\ i \in 1..Len(stash[r]) /\ FlowsOK' /\ DropEntry(r, i)
        /\ settled' = settled \cup stash[r][i].works
        /\ UNCHANGED <<head, work, marked, oids, made>>
    BY <1>0, <1>3 DEF Drop, tree, WorkInv, FlowsOK
  <2>2. /\ StashOK' /\ \A o \in aside' : Listed(o)'
        /\ \A q \in Repos \ {r} : Entries(q)' = Entries(q)
        /\ Entries(r)' \subseteq Entries(r)
        /\ \A e \in Entries(r) : e = stash[r][i] \/ e \in Entries(r)'
        /\ stash[r][i] \in Entries(r)
    BY <2>1, DropTakesOne
  <2>3. \A q \in Repos : \A w : w \in WorksOf(q)' => w \in WorksOf(q)
    BY <2>1, <2>2 DEF WorksOf
  <2>4. \A q \in Repos : \A w \in WorksOf(q) : w \in WorksOf(q)' \/ w \in settled'
    BY <2>1, <2>2 DEF WorksOf
  <2>5. stash[r][i].works \subseteq made
    BY <2>2 DEF WorkInv, WorksOK, WorksOf
  <2>6. TreesOK' /\ WorksOK'
    BY <2>1, <2>3, <2>5 DEF WorkInv, TreesOK, WorksOK
  <2>7. AllHeld'
    BY <2>1, <2>4 DEF WorkInv, AllHeld, Held
  <2>8. MarksAreKept'
    BY <2>1, <2>2 DEF WorkInv, MarksAreKept
  <2> QED  BY <2>1, <2>2, <2>6, <2>7, <2>8 DEF WorkInv
<1>4. CASE Rename(r, i)
  <2> DEFINE entry == stash[r][i]
             rest == RemoveAt(stash[r], i)
  <2>1. /\ i \in 1..Len(stash[r]) /\ FlowsOK' /\ stash' = [stash EXCEPT ![r] = Cons(entry, rest)]
        /\ UNCHANGED <<head, work, marked, oids, made, settled, aside>>
    BY <1>0, <1>4 DEF Rename, tree, WorkInv, FlowsOK
  <2>2. entry \in Entry /\ entry \in Entries(r)
    BY <1>0, <2>1, EntriesByIndex DEF Entries
  <2>3. /\ rest \in Seq(Entry) /\ ToSet(rest) \subseteq Entries(r)
        /\ \A e \in Entries(r) : e = entry \/ e \in ToSet(rest)
    BY <1>0, <2>1, RemovedEntry DEF Entries
  <2> HIDE DEF entry, rest
  <2>4. Cons(entry, rest) \in Seq(Entry) /\ ToSet(Cons(entry, rest)) = ToSet(rest) \cup {entry}
    BY <2>2, <2>3, ConsedEntry
  <2>5. /\ stash' \in [Repos -> Seq(Entry)] /\ stash'[r] = Cons(entry, rest)
        /\ \A q \in Repos \ {r} : stash'[q] = stash[q]
    BY <2>1, <2>4 DEF WorkInv, StashOK
  <2>6. ToSet(Cons(entry, rest)) = Entries(r)
    BY <2>2, <2>3, <2>4
  <2>7. \A q \in Repos : Entries(q)' = Entries(q)
    BY <2>5, <2>6 DEF Entries
  <2>8. \A q \in Repos : WorksOf(q)' = WorksOf(q)
    BY <2>1, <2>7 DEF WorksOf
  <2>9. TreesOK' /\ StashOK' /\ WorksOK' /\ AllHeld'
    BY <2>1, <2>5, <2>8 DEF WorkInv, TreesOK, StashOK, WorksOK, AllHeld, Held
  <2>10. MarksAreKept' /\ \A o \in aside' : Listed(o)'
    BY <2>1, <2>7 DEF WorkInv, MarksAreKept, Listed
  <2> QED  BY <2>1, <2>9, <2>10 DEF WorkInv
<1> QED  BY <1>1, <1>2, <1>3, <1>4

(* What the user does to the tree.                                         *)
LEMMA TreeStep ==
  ASSUME WorkInv, NEW r \in Repos,
         Commit(r) \/ Resolve(r) \/ DiscardConflicted(r) \/ \E w \in Works : Edit(r, w)
  PROVE  WorkInv'
<1>1. UNCHANGED <<head, stash, oids, aside, open, flow, asked>>
  BY DEF Commit, Resolve, DiscardConflicted, Edit
<1>2. \A q \in Repos : Entries(q)' = Entries(q)
  BY <1>1 DEF Entries
<1>3. StashOK' /\ FlowsOK' /\ \A o \in aside' : Listed(o)'
  BY <1>1, <1>2 DEF WorkInv, StashOK, FlowsOK, Listed
<1>4. CASE Commit(r)
  <2>1. /\ marked[r] = {} /\ settled' = settled \cup work[r] /\ made' = made /\ marked' = marked
        /\ work' = [work EXCEPT ![r] = {}]
    BY <1>4 DEF Commit
  <2>2. /\ work' \in [Repos -> SUBSET Works] /\ work'[r] = {}
        /\ \A q \in Repos \ {r} : work'[q] = work[q]
    BY <2>1 DEF WorkInv, TreesOK
  <2>3. \A q \in Repos : \A w : /\ w \in WorksOf(q)' => w \in WorksOf(q)
                                /\ w \in WorksOf(q) => w \in WorksOf(q)' \/ w \in settled'
    BY <1>2, <2>1, <2>2 DEF WorksOf
  <2>4. work[r] \subseteq made
    BY DEF WorkInv, WorksOK, WorksOf
  <2>5. TreesOK' /\ WorksOK' /\ AllHeld' /\ MarksAreKept'
    <3>1. TreesOK'
      BY <1>1, <2>1, <2>2 DEF WorkInv, TreesOK
    <3>2. WorksOK'
      BY <2>1, <2>3, <2>4 DEF WorkInv, WorksOK
    <3>3. AllHeld'
      BY <2>1, <2>3 DEF WorkInv, AllHeld, Held
    <3>4. MarksAreKept'
      BY <1>2, <2>1 DEF WorkInv, MarksAreKept
    <3> QED  BY <3>1, <3>2, <3>3, <3>4
  <2> QED  BY <1>3, <2>5 DEF WorkInv
<1>5. CASE Resolve(r)
  <2>1. /\ marked' = [marked EXCEPT ![r] = {}] /\ UNCHANGED <<work, made, settled>>
    BY <1>5 DEF Resolve
  <2>2. /\ marked' \in [Repos -> SUBSET Works]
        /\ \A q \in Repos : marked'[q] \subseteq marked[q]
    BY <2>1 DEF WorkInv, TreesOK
  <2>3. \A q \in Repos : WorksOf(q)' = WorksOf(q)
    BY <1>2, <2>1 DEF WorksOf
  <2>4. TreesOK' /\ MarksAreKept'
    BY <1>1, <1>2, <2>1, <2>2 DEF WorkInv, TreesOK, MarksAreKept
  <2>5. WorksOK' /\ AllHeld'
    BY <2>1, <2>3 DEF WorkInv, WorksOK, AllHeld, Held
  <2> QED  BY <1>3, <2>4, <2>5 DEF WorkInv
<1>6. CASE DiscardConflicted(r)
  <2>1. PICK untracked \in SUBSET (work[r] \ marked[r]) :
          /\ settled' = settled \cup (work[r] \ (marked[r] \cup untracked))
          /\ work' = [work EXCEPT ![r] = untracked]
    BY <1>6 DEF DiscardConflicted
  <2>2. marked' = [marked EXCEPT ![r] = {}] /\ made' = made
    BY <1>6 DEF DiscardConflicted
  <2>3. /\ work' \in [Repos -> SUBSET Works] /\ work'[r] = untracked
        /\ marked' \in [Repos -> SUBSET Works] /\ marked'[r] = {}
        /\ \A q \in Repos \ {r} : work'[q] = work[q] /\ marked'[q] = marked[q]
    BY <2>1, <2>2 DEF WorkInv, TreesOK
  <2>4. \A q \in Repos : \A w \in WorksOf(q)' : w \in WorksOf(q)
    BY <1>2, <2>1, <2>3 DEF WorksOf
  <2>5. ASSUME NEW w \in work[r] PROVE w \in WorksOf(r)' \/ w \in settled'
    <3>1. CASE w \in untracked
      BY <2>3, <3>1 DEF WorksOf
    <3>2. CASE w \in marked[r]
      <4>1. w \in settled \/ \E e \in Entries(r) : w \in e.works
        BY <3>2 DEF WorkInv, MarksAreKept
      <4> QED  BY <1>2, <2>1, <4>1 DEF WorksOf
    <3>3. CASE w \notin untracked \cup marked[r]
      BY <2>1, <3>3
    <3> QED  BY <3>1, <3>2, <3>3
  <2>6. \A q \in Repos : \A w \in WorksOf(q) : w \in WorksOf(q)' \/ w \in settled'
    BY <1>2, <2>3, <2>5 DEF WorksOf
  <2>7. TreesOK' /\ MarksAreKept'
    BY <1>1, <1>2, <2>1, <2>3 DEF WorkInv, TreesOK, MarksAreKept
  <2>8. work[r] \subseteq made
    BY DEF WorkInv, WorksOK, WorksOf
  <2>9. WorksOK'
    BY <2>1, <2>2, <2>4, <2>8 DEF WorkInv, WorksOK
  <2>10. AllHeld'
    BY <2>1, <2>2, <2>6 DEF WorkInv, AllHeld, Held
  <2> QED  BY <1>3, <2>7, <2>9, <2>10 DEF WorkInv
<1>7. ASSUME NEW w \in Works, Edit(r, w) PROVE WorkInv'
  <2>1. /\ work' = [work EXCEPT ![r] = @ \cup {w}] /\ made' = made \cup {w}
        /\ UNCHANGED <<marked, settled>>
    BY <1>7 DEF Edit
  <2>2. /\ work' \in [Repos -> SUBSET Works] /\ work'[r] = work[r] \cup {w}
        /\ \A q \in Repos \ {r} : work'[q] = work[q]
    BY <2>1 DEF WorkInv, TreesOK
  <2>3. \A q \in Repos : \A v : /\ v \in WorksOf(q)' => v \in WorksOf(q) \/ v = w
                                /\ v \in WorksOf(q) => v \in WorksOf(q)'
    BY <1>2, <2>2 DEF WorksOf
  <2>4. w \in WorksOf(r)'
    BY <2>2 DEF WorksOf
  <2>5. TreesOK' /\ MarksAreKept'
    BY <1>1, <1>2, <2>1, <2>2 DEF WorkInv, TreesOK, MarksAreKept
  <2>6. WorksOK'
    BY <2>1, <2>3 DEF WorkInv, WorksOK
  <2>7. AllHeld'
    BY <2>1, <2>3, <2>4 DEF WorkInv, AllHeld, Held
  <2> QED  BY <1>3, <2>5, <2>6, <2>7 DEF WorkInv
<1> QED  BY <1>4, <1>5, <1>6, <1>7
(* Where the repositories are left alone, only the flows are at stake.     *)
LEMMA FlowsAlone ==
  ASSUME WorkInv, FlowsOK', UNCHANGED repoVars
  PROVE  WorkInv'
<1>1. \A q \in Repos : Entries(q)' = Entries(q)
  BY DEF Entries, repoVars, tree
<1>2. \A q \in Repos : WorksOf(q)' = WorksOf(q)
  BY <1>1 DEF WorksOf, repoVars, tree
<1>3. TreesOK' /\ StashOK' /\ WorksOK' /\ AllHeld'
  BY <1>2 DEF repoVars, tree, WorkInv, TreesOK, StashOK, WorksOK, AllHeld, Held
<1>4. MarksAreKept' /\ \A o \in aside' : Listed(o)'
  BY <1>1 DEF repoVars, tree, WorkInv, MarksAreKept, Listed
<1> QED  BY <1>3, <1>4 DEF WorkInv

LEMMA FlowStep ==
  ASSUME WorkInv, NEW f \in Flows,
         \/ \E b \in Branches : Start(f, b)
         \/ Run(f) \/ RunBlocked(f) \/ Fail(f) \/ Answer(f) \/ SaveAside(f) \/ Carry(f)
  PROVE  WorkInv'
<1>0. FlowsOK /\ flow[f] \in Checkout
  BY DEF WorkInv, FlowsOK
<1>1. ASSUME NEW b \in Branches, Start(f, b) PROVE WorkInv'
  <2> DEFINE new == [Idle EXCEPT !.pc = "running", !.repo = open, !.to = b]
  <2>1. new \in Checkout /\ new.repo = open /\ new.to = b
    BY <1>0 DEF FlowsOK, Idle, Checkout
  <2>2. flow' = [flow EXCEPT ![f] = new] /\ UNCHANGED <<repoVars, open, asked>> /\ f \notin asked
    BY <1>0, <1>1 DEF Start, FlowsOK
  <2> HIDE DEF new
  <2>3. /\ flow' \in [Flows -> Checkout] /\ flow'[f] = new
        /\ \A g \in Flows \ {f} : flow'[g] = flow[g]
    BY <1>0, <2>1, <2>2 DEF FlowsOK
  <2>4. FlowsOK'
    BY <1>0, <2>1, <2>2, <2>3 DEF FlowsOK
  <2> QED  BY <2>2, <2>4, FlowsAlone
<1>2. CASE Run(f)
  <2> DEFINE r == flow[f].repo
             b == flow[f].to
  <2>1. /\ flow[f].pc \notin {"idle", "asking"} /\ CheckoutTree(r, b) /\ ~Blocked(r, b)
        /\ (Goes(f, "carrying") \/ Ends(f))
        /\ UNCHANGED <<stash, oids, made, settled, aside, open, asked>>
    BY <1>2 DEF Run
  <2>2. r \in Repos /\ b \in Branches
    BY <1>0, <2>1 DEF FlowsOK
  <2>3. FlowsOK'
    BY <1>0, <2>1, FlowGoes, FlowEnds DEF FlowsOK
  <2> HIDE DEF r, b
  <2>4. /\ head' = [head EXCEPT ![r] = b] /\ work' = [work EXCEPT ![r] = @ \ Has[b]]
        /\ marked' = marked /\ marked[r] = {}
    BY <2>1 DEF CheckoutTree, Blocked
  <2>5. /\ head' \in [Repos -> Branches] /\ work' \in [Repos -> SUBSET Works]
        /\ work'[r] = work[r] \ Has[b] /\ \A q \in Repos \ {r} : work'[q] = work[q]
    BY <2>2, <2>4 DEF WorkInv, TreesOK
  <2>6. TreesOK'
    BY <2>4, <2>5 DEF WorkInv, TreesOK
  <2>7. \A q \in Repos : Entries(q)' = Entries(q)
    BY <2>1 DEF Entries
  <2>8. \A q \in Repos : \A w : /\ w \in WorksOf(q)' => w \in WorksOf(q)
                                /\ w \in WorksOf(q) => w \in WorksOf(q)' \/ w \in Has[b]
    BY <2>5, <2>7 DEF WorksOf
  <2>9. StashOK' /\ WorksOK'
    BY <2>1, <2>8 DEF WorkInv, StashOK, WorksOK
  <2>10. AllHeld'
    BY <2>1, <2>2, <2>8 DEF WorkInv, AllHeld, Held
  <2>11. MarksAreKept' /\ \A o \in aside' : Listed(o)'
    BY <2>1, <2>4, <2>7 DEF WorkInv, MarksAreKept, Listed
  <2> QED  BY <2>3, <2>6, <2>9, <2>10, <2>11 DEF WorkInv
<1>3. CASE RunBlocked(f)
  <2>1. /\ flow[f].pc \notin {"idle", "asking"} /\ UNCHANGED <<repoVars, open>>
        /\ \/ Goes(f, "asking") /\ asked' = {f}
           \/ Ends(f) /\ asked' = asked
    BY <1>3 DEF RunBlocked
  <2>2. FlowsOK'
    BY <1>0, <2>1, FlowGoes, FlowEnds
  <2> QED  BY <2>1, <2>2, FlowsAlone
<1>4. CASE Fail(f)
  <2>1. FlowsOK'
    BY <1>0, <1>4, FlowEnds DEF Fail, FlowsOK
  <2> QED  BY <1>4, <2>1, FlowsAlone DEF Fail
<1>5. CASE Answer(f)
  <2>1. /\ asked' = {} /\ UNCHANGED <<repoVars, open>>
        /\ \/ \E c \in BOOLEAN : flow' = [flow EXCEPT ![f].pc = "saving", ![f].carry = c]
           \/ Ends(f)
    BY <1>5 DEF Answer
  <2>2. ASSUME NEW c \in BOOLEAN, flow' = [flow EXCEPT ![f].pc = "saving", ![f].carry = c]
        PROVE  FlowsOK'
    <3> DEFINE new == [flow[f] EXCEPT !.pc = "saving", !.carry = c]
    <3>1. new \in Checkout /\ new.repo = flow[f].repo /\ new.to = flow[f].to
      BY <1>0 DEF Checkout
    <3>2. flow' = [flow EXCEPT ![f] = new]
      BY <2>2
    <3> HIDE DEF new
    <3>3. /\ flow' \in [Flows -> Checkout] /\ flow'[f] = new
          /\ \A g \in Flows \ {f} : flow'[g] = flow[g]
      BY <1>0, <3>1, <3>2 DEF FlowsOK
    <3>4. flow[f].pc # "idle"
      BY <1>0, <1>5 DEF Answer, FlowsOK
    <3> QED  BY <1>0, <2>1, <3>1, <3>3, <3>4 DEF FlowsOK
  <2>3. FlowsOK'
    BY <1>0, <2>1, <2>2, FlowEnds
  <2> QED  BY <2>1, <2>3, FlowsAlone
<1>6. CASE SaveAside(f)
  <2>1. /\ flow[f].pc \notin {"idle", "asking"} /\ Save(flow[f].repo) /\ Goes(f, "retrying")
        /\ aside' = aside \cup ({oids'} \ {oids})
        /\ UNCHANGED <<head, marked, made, settled, open, asked>>
    BY <1>6 DEF SaveAside
  <2>2. flow[f].repo \in Repos
    BY <1>0, <2>1 DEF FlowsOK
  <2>3. FlowsOK'
    BY <1>0, <2>1, FlowGoes DEF FlowsOK
  <2> QED  BY <2>1, <2>2, <2>3, SaveKeeps
<1>7. CASE Carry(f)
  <2>1. PICK outcome \in Outcomes : ApplyTo(open, 1, outcome)
    BY <1>7 DEF Carry
  <2>2. Ends(f) /\ flow[f].pc # "asking" /\ UNCHANGED <<head, stash, oids, made, settled, aside, open, asked>>
    BY <1>7 DEF Carry
  <2>3. FlowsOK' /\ open \in Repos
    BY <1>0, <2>2, FlowEnds DEF FlowsOK
  <2> QED  BY <2>1, <2>2, <2>3, ApplyKeeps
<1> QED  BY <1>1, <1>2, <1>3, <1>4, <1>5, <1>6, <1>7

LEMMA WorkStep == WorkInv /\ [Next]_vars => WorkInv'
<1> SUFFICES ASSUME WorkInv, [Next]_vars PROVE WorkInv'
  OBVIOUS
<1>1. ASSUME NEW r \in Repos, StashSave(r) PROVE WorkInv'
  <2>1. FlowsOK'
    BY <1>1 DEF StashSave, WorkInv, FlowsOK
  <2> QED  BY <1>1, <2>1, SaveKeeps DEF StashSave
<1>2. ASSUME NEW r \in Repos, SetRepoPath(r) PROVE WorkInv'
  <2>1. FlowsOK'
    BY <1>2 DEF SetRepoPath, WorkInv, FlowsOK
  <2> QED  BY <1>2, <2>1, FlowsAlone DEF SetRepoPath
<1>3. CASE UNCHANGED vars
  <2>1. FlowsOK' /\ UNCHANGED repoVars
    BY <1>3 DEF vars, WorkInv, FlowsOK
  <2> QED  BY <2>1, FlowsAlone
<1> QED  BY <1>1, <1>2, <1>3, ClickStep, TreeStep, FlowStep DEF Next, UserNext, FlowNext

LEMMA WorkInvariance == Spec => []WorkInv
  BY WorkInit, WorkStep, PTL DEF Spec

(* Types, for any constants.                                               *)
THEOREM CheckoutTypeCorrect == Spec => []TypeOK
<1>1. WorkInv => TypeOK
  BY DEF WorkInv, TreesOK, StashOK, FlowsOK, WorksOK, TypeOK
<1> QED  BY <1>1, WorkInvariance, PTL

(* Whatever is clicked while checkouts are blocked, saved, retried, carried *)
(* over, conflict or fail, what the user neither committed nor gave up is  *)
(* in a tree, in a stash or in a branch (checkoutGuarded, Stash.cs).       *)
THEOREM WorkIsNeverLost == Spec => []NoWorkIsLost
<1>1. \A r \in Repos : \A w : w \in WorksOf(r) => w \in work[r] \cup Stashed(r)
  BY DEF WorksOf, Entries, Stashed, ToSet
<1>2. WorkInv => NoWorkIsLost
  BY <1>1 DEF WorkInv, AllHeld, Held, NoWorkIsLost
<1> QED  BY <1>2, WorkInvariance, PTL

(* What a checkout set aside stays in a list until a click removes it      *)
(* (repoStore.ts:326).                                                     *)
THEOREM AsideAlwaysStaysAside == Spec => []AsideStaysAside
<1>1. WorkInv => AsideStaysAside
  BY DEF WorkInv, Listed, Entries, ToSet, AsideStaysAside
<1> QED  BY <1>1, WorkInvariance, PTL

------------------------------------------------------------------------------
(* Of Checkpoints.                                                         *)

(* A checkpoint holds what was on disk, or a file that a rename took away. *)
Faithful(c) ==
  \A f \in Files : c.tree[f] = c.was[f] \/ (c.was[f] = Absent /\ c.tree[f] # Absent)

(* What a restore has dealt with, and nobody else has written since, is    *)
(* what its checkpoint holds.                                              *)
IsPutBack ==
  undo.stage = "restoring" =>
    /\ Faithful(undo.checkpoint)
    /\ \A f \in Files \ (undo.todo \cup undo.touched) : disk[f] = undo.checkpoint.tree[f]

Kept == [id : Nat, tree : Trees, was : Trees]
UndoTypeOK ==
  /\ committed \in Trees /\ disk \in Trees
  /\ checkpoints \subseteq Kept /\ taken \in Nat
  /\ undo \in [stage : {"idle", "restoring"}, checkpoint : Kept, todo : SUBSET Files, touched : SUBSET Files]

UndoInv == UndoTypeOK /\ (\A c \in checkpoints : Faithful(c)) /\ IsPutBack

(* A snapshot agrees with the disk except where a rename is pending:       *)
(* SnapshotTree, whose status names a rename by its new path only.         *)
LEMMA SnapshotsAreFaithful ==
  ASSUME NEW snapshot \in Snapshots, NEW n
  PROVE  Faithful([id |-> n, tree |-> snapshot, was |-> disk])
<1>1. PICK old \in Renames : snapshot = [f \in Files |-> IF f \in old THEN committed[f] ELSE disk[f]]
  BY DEF Snapshots
<1>2. PICK new : \A f \in old : RenamedTo(f, new[f])
  BY <1>1 DEF Renames
<1>3. \A f \in old : committed[f] # Absent /\ disk[f] = Absent
  BY <1>2 DEF RenamedTo
<1> QED  BY <1>1, <1>3 DEF Faithful

(* Taking a checkpoint adds one that is faithful; pruning adds none.       *)
LEMMA TakeKeepsFaith ==
  ASSUME UndoInv, NEW snapshot \in Snapshots, Take(snapshot)
  PROVE  checkpoints' \subseteq Kept /\ taken' \in Nat /\ \A c \in checkpoints' : Faithful(c)
<1> DEFINE new == [id |-> taken', tree |-> snapshot, was |-> disk]
<1>1. checkpoints' \subseteq checkpoints \cup {new} /\ taken' \in Nat
  BY DEF Take, UndoInv, UndoTypeOK
<1>2. Faithful(new)
  BY SnapshotsAreFaithful
<1>3. snapshot \in Trees
  BY DEF Snapshots, UndoInv, UndoTypeOK, Trees
<1>4. new \in Kept
  BY <1>1, <1>3 DEF Kept, UndoInv, UndoTypeOK
<1> QED  BY <1>1, <1>2, <1>4 DEF UndoInv, UndoTypeOK

(* Content that is not the restore's may reach any file at any time.       *)
LEMMA PutKeepsFaith ==
  ASSUME UndoInv, NEW f \in Files, NEW content \in Contents \cup {Absent}, Put(f, content),
         checkpoints' = checkpoints, committed' = committed, taken' = taken
  PROVE  UndoInv'
<1>1. disk' \in Trees /\ \A g \in Files \ {f} : disk'[g] = disk[g]
  BY DEF Put, UndoInv, UndoTypeOK, Trees
<1>2. CASE undo.stage = "idle"
  BY <1>1, <1>2 DEF Put, UndoInv, UndoTypeOK, IsPutBack, Faithful
<1>3. CASE undo.stage = "restoring"
  <2>1. undo' = [undo EXCEPT !.touched = @ \cup {f}]
    BY <1>3 DEF Put
  <2>2. /\ undo'.stage = "restoring" /\ undo'.checkpoint = undo.checkpoint
        /\ undo'.todo = undo.todo /\ undo'.touched = undo.touched \cup {f}
        /\ undo' \in [stage : {"idle", "restoring"}, checkpoint : Kept, todo : SUBSET Files, touched : SUBSET Files]
    BY <2>1, <1>3 DEF UndoInv, UndoTypeOK
  <2>3. UndoTypeOK'
    BY <1>1, <2>2 DEF UndoInv, UndoTypeOK
  <2>4. IsPutBack'
    BY <1>1, <1>3, <2>2 DEF UndoInv, IsPutBack, Faithful
  <2> QED  BY <2>3, <2>4 DEF UndoInv, Faithful
<1> QED  BY <1>2, <1>3 DEF UndoInv, UndoTypeOK

LEMMA UndoInit == CheckpointsInit => UndoInv
  BY DEF CheckpointsInit, UndoInv, UndoTypeOK, Kept, Trees, NoUndo, NoCheckpoint, IsPutBack

LEMMA UndoStep == UndoInv /\ [CheckpointsNext]_undoVars => UndoInv'
<1> SUFFICES ASSUME UndoInv, [CheckpointsNext]_undoVars
             PROVE  UndoInv'
  OBVIOUS
<1> USE DEF Faithful
<1>1. ASSUME NEW f \in Files, NEW content \in Contents \cup {Absent}, EditFile(f, content)
      PROVE  UndoInv'
  BY <1>1, PutKeepsFaith DEF EditFile, Edited
<1>2. ASSUME NEW f \in Files, NEW g \in Files, RenameFile(f, g)
      PROVE  UndoInv'
  <2>1. /\ disk' \in Trees /\ \A h \in Files \ {f, g} : disk'[h] = disk[h]
        /\ checkpoints' = checkpoints /\ committed' = committed /\ taken' = taken
    BY <1>2 DEF RenameFile, Edited, UndoInv, UndoTypeOK, Trees
  <2>2. CASE undo.stage = "idle"
    BY <1>2, <2>1, <2>2 DEF RenameFile, UndoInv, UndoTypeOK, IsPutBack
  <2>3. CASE undo.stage = "restoring"
    <3>1. undo' = [undo EXCEPT !.touched = @ \cup {f, g}]
      BY <1>2, <2>3 DEF RenameFile
    <3>2. /\ undo'.stage = "restoring" /\ undo'.checkpoint = undo.checkpoint
          /\ undo'.todo = undo.todo /\ undo'.touched = undo.touched \cup {f, g}
          /\ undo' \in [stage : {"idle", "restoring"}, checkpoint : Kept, todo : SUBSET Files, touched : SUBSET Files]
      BY <3>1, <2>3 DEF UndoInv, UndoTypeOK
    <3>3. UndoTypeOK'
      BY <2>1, <3>2 DEF UndoInv, UndoTypeOK
    <3>4. IsPutBack'
      BY <2>1, <2>3, <3>2 DEF UndoInv, IsPutBack
    <3> QED  BY <2>1, <3>3, <3>4 DEF UndoInv
  <2> QED  BY <2>2, <2>3 DEF UndoInv, UndoTypeOK
<1>3. CASE CommitAll
  BY <1>3 DEF CommitAll, Edited, UndoInv, UndoTypeOK, IsPutBack
<1>4. CASE CheckpointBefore
  <2>1. committed' = committed /\ disk' = disk /\ undo' = undo
    BY <1>4 DEF CheckpointBefore
  <2>2. checkpoints' \subseteq Kept /\ taken' \in Nat /\ \A c \in checkpoints' : Faithful(c)
    BY <1>4, TakeKeepsFaith DEF CheckpointBefore, UndoInv, UndoTypeOK
  <2> QED  BY <2>1, <2>2 DEF UndoInv, UndoTypeOK, IsPutBack
<1>5. CASE CheckpointAfter
  BY <1>5 DEF CheckpointAfter, UndoInv, UndoTypeOK, IsPutBack
<1>6. CASE RemoveUnchanged
  BY <1>6 DEF RemoveUnchanged, Forget, UndoInv, UndoTypeOK, IsPutBack
<1>7. CASE Plan
  BY <1>7 DEF Plan, UndoInv, UndoTypeOK, IsPutBack
<1>8. CASE TryCheckpoint
  <2>1. committed' = committed /\ disk' = disk /\ undo' = undo
    BY <1>8 DEF TryCheckpoint
  <2>2. checkpoints' \subseteq Kept /\ taken' \in Nat /\ \A c \in checkpoints' : Faithful(c)
    BY <1>8, TakeKeepsFaith DEF TryCheckpoint, UndoInv, UndoTypeOK
  <2> QED  BY <2>1, <2>2 DEF UndoInv, UndoTypeOK, IsPutBack
<1>9. CASE WriteFails
  BY <1>9 DEF WriteFails, UndoInv, UndoTypeOK, IsPutBack
<1>10. ASSUME NEW f \in Files, WriteAllText(f)
       PROVE  UndoInv'
  BY <1>10, PutKeepsFaith, CheckpointsAssumption DEF WriteAllText
<1>11. ASSUME NEW f \in Files, PutBack(f)
       PROVE  UndoInv'
  <2>1. /\ undo.checkpoint.tree \in Trees /\ undo.stage = "restoring"
        /\ disk' = [disk EXCEPT ![f] = undo.checkpoint.tree[f]] /\ undo' = [undo EXCEPT !.todo = @ \ {f}]
    BY <1>11 DEF PutBack, UndoInv, UndoTypeOK, Kept
  <2>2. /\ disk' \in Trees /\ disk'[f] = undo.checkpoint.tree[f]
        /\ \A g \in Files \ {f} : disk'[g] = disk[g]
    BY <2>1 DEF UndoInv, UndoTypeOK, Trees
  <2>3. /\ undo'.stage = "restoring" /\ undo'.checkpoint = undo.checkpoint
        /\ undo'.todo = undo.todo \ {f} /\ undo'.touched = undo.touched
        /\ undo' \in [stage : {"idle", "restoring"}, checkpoint : Kept, todo : SUBSET Files, touched : SUBSET Files]
    BY <2>1 DEF UndoInv, UndoTypeOK
  <2>4. UndoTypeOK' /\ checkpoints' = checkpoints
    BY <1>11, <2>2, <2>3 DEF PutBack, UndoInv, UndoTypeOK
  <2>5. IsPutBack'
    BY <2>1, <2>2, <2>3 DEF UndoInv, IsPutBack
  <2> QED  BY <2>4, <2>5 DEF UndoInv
<1>12. CASE PutBackFails
  BY <1>12 DEF PutBackFails, NoUndo, NoCheckpoint, Kept, Trees, UndoInv, UndoTypeOK, IsPutBack
<1>13. CASE Restored
  BY <1>13 DEF Restored, NoUndo, NoCheckpoint, Kept, Trees, UndoInv, UndoTypeOK, IsPutBack
<1>14. ASSUME NEW c \in checkpoints, Restore(c)
       PROVE  UndoInv'
  <2>1. PICK paths \in Compared(c) : undo' = [stage |-> "restoring", checkpoint |-> c, todo |-> paths, touched |-> {}]
    BY <1>14 DEF Restore
  <2>2. paths \subseteq Files /\ \A f \in Files \ paths : disk[f] = c.tree[f]
    BY <2>1 DEF Compared, ChangedPaths
  <2> QED  BY <1>14, <2>1, <2>2 DEF Restore, UndoInv, UndoTypeOK, IsPutBack
<1>15. ASSUME NEW c \in checkpoints, RemoveCheckpoint(c)
       PROVE  UndoInv'
  BY <1>15 DEF RemoveCheckpoint, Forget, UndoInv, UndoTypeOK, IsPutBack
<1>16. CASE UNCHANGED undoVars
  BY <1>16 DEF undoVars, UndoInv, UndoTypeOK, IsPutBack
<1> QED
  BY <1>1, <1>2, <1>3, <1>4, <1>5, <1>6, <1>7, <1>8, <1>9, <1>10, <1>11, <1>12, <1>13, <1>14, <1>15, <1>16
  DEF CheckpointsNext

(* The restore's promise, for any number of files, contents, checkpoints   *)
(* and edits: what it is through with and nobody else has written is what  *)
(* was there when the checkpoint was taken (Checkpoints.cs, Restore).      *)
THEOREM RestoresAreFaithful == CheckpointsSpec => []UndoPutsBack
<1>1. UndoInv => UndoPutsBack
  BY DEF UndoInv, IsPutBack, Faithful, UndoPutsBack
<1> QED  BY UndoInit, UndoStep, <1>1, PTL DEF CheckpointsSpec

==============================================================================
