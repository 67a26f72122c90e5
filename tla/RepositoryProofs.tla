-------------------------- MODULE RepositoryProofs ---------------------------
(***************************************************************************)
(* What is shown of a repository: its view, and the graph of its commits.  *)
(*                                                                         *)
(* The view: no read is of a later generation, one that was answered in    *)
(* the present generation saw the present era, and while an undisturbed    *)
(* checkout rewrites its tree there is none at all. Of a change: what a    *)
(* read has seen is not newer than the tree, and what the screen lacks is  *)
(* on its way.                                                             *)
(*                                                                         *)
(* The graph: as long as the parent of a commit is to come, the commit's   *)
(* lane waits for it, so that the lane is neither free nor held for any    *)
(* other commit, and nobody else is placed in it.                          *)
(***************************************************************************)
EXTENDS RepoView, GraphLayout, WellFoundedInduction, TLAPS

------------------------------------------------------------------------------
(* Of RepoView.                                                            *)

Loads ==
  {Idle} \cup [at : {"asked"}, repo : Repos, seq : Nat, by : Nat]
         \cup [at : {"read"}, repo : Repos, seq : Nat, by : Nat, ver : Nat, era : Nat, mid : BOOLEAN]
Operations ==
  {Idle} \cup [at : {"running", "rewriting", "settled", "refreshing"}, kind : FlowKinds, repo : Repos]
Views == [path : Repos, seq : Nat, checking : BOOLEAN, remoteOp : BOOLEAN, shown : Tree \cup {NoTree}]

ViewShapes ==
  /\ disk \in [Repos -> Nat] /\ era \in [Repos -> Nat] /\ opening \in [Repos -> Nat]
  /\ loads \in [LoadIds -> Loads] /\ flow \in [FlowIds -> Operations]
  /\ view \in Views /\ entangled \in BOOLEAN

\* Read in the present generation, a picture of the present era.
ReadsAreOfTheEra ==
  \A l \in LoadIds : loads[l].at # "idle" =>
    /\ loads[l].seq <= view.seq
    /\ loads[l].at = "read" /\ loads[l].seq = view.seq =>
         loads[l].era = era[loads[l].repo] /\ (loads[l].mid => entangled)

Rewriting(f) == flow[f].at \in {"running", "rewriting"} /\ flow[f].kind = "checkout"
NothingElseBegun(f) ==
  /\ view.checking /\ \A g \in FlowIds \ {f} : flow[g].at = "idle"
  /\ \A r \in Repos : opening[r] = 0
  /\ \A l \in LoadIds : loads[l].at # "idle" => loads[l].seq # view.seq
CheckoutsAreUndisturbed == ~entangled => \A f \in FlowIds : Rewriting(f) => NothingElseBegun(f)

ViewInv == ViewShapes /\ ReadsAreOfTheEra /\ CheckoutsAreUndisturbed /\ TheTreeLeftStaysGone

(* A read that is asked for belongs to the present generation.             *)
LEMMA ReadAsked ==
  ASSUME ViewInv, NEW by \in Nat, RefreshAll(by), UNCHANGED <<disk, view, era, entangled>>,
         opening' \in [Repos -> Nat], flow' \in [FlowIds -> Operations],
         entangled \/ \A f \in FlowIds : ~Rewriting(f)'
  PROVE  ViewInv'
<1>1. PICK l \in LoadIds :
        /\ loads[l].at = "idle"
        /\ loads' = [loads EXCEPT ![l] = [at |-> "asked", repo |-> view.path, seq |-> view.seq, by |-> by]]
  BY DEF RefreshAll
<1> DEFINE new == [at |-> "asked", repo |-> view.path, seq |-> view.seq, by |-> by]
<1>2. new \in Loads /\ new.at = "asked" /\ new.seq = view.seq /\ view.seq \in Nat
  BY DEF ViewInv, ViewShapes, Views, Loads
<1>3. loads' = [loads EXCEPT ![l] = new]
  BY <1>1
<1> HIDE DEF new
<1>4. loads' \in [LoadIds -> Loads] /\ loads'[l] = new /\ \A k \in LoadIds \ {l} : loads'[k] = loads[k]
  BY <1>2, <1>3 DEF ViewInv, ViewShapes
<1>5. ViewShapes'
  BY <1>4 DEF ViewInv, ViewShapes
<1>6. ReadsAreOfTheEra'
  BY <1>2, <1>4 DEF ViewInv, ReadsAreOfTheEra
<1>7. CheckoutsAreUndisturbed'
  BY DEF CheckoutsAreUndisturbed
<1> QED  BY <1>5, <1>6, <1>7 DEF ViewInv, TheTreeLeftStaysGone

(* A read that ends, and one that is answered, take no other with them.    *)
LEMMA ReadChanges ==
  ASSUME ViewInv, NEW l \in LoadIds, NEW load \in Loads, loads' = [loads EXCEPT ![l] = load],
         load.at # "idle" => loads[l].at # "idle" /\ load.seq = loads[l].seq,
         load.at = "read" /\ load.seq = view.seq => load.era = era[load.repo] /\ (load.mid => entangled),
         view' \in Views, view'.seq = view.seq, view'.checking = view.checking,
         TheTreeLeftStaysGone',
         UNCHANGED <<disk, opening, flow, era, entangled>>
  PROVE  ViewInv'
<1>1. loads' \in [LoadIds -> Loads] /\ loads'[l] = load /\ \A k \in LoadIds \ {l} : loads'[k] = loads[k]
  BY DEF ViewInv, ViewShapes
<1>2. ViewShapes'
  BY <1>1 DEF ViewInv, ViewShapes
<1>3. ReadsAreOfTheEra'
  BY <1>1 DEF ViewInv, ReadsAreOfTheEra
<1>4. \A f \in FlowIds : Rewriting(f)' <=> Rewriting(f)
  BY DEF Rewriting
<1>5. ASSUME NEW f \in FlowIds, NothingElseBegun(f) PROVE NothingElseBegun(f)'
  BY <1>1, <1>5 DEF NothingElseBegun
<1>6. CheckoutsAreUndisturbed'
  BY <1>4, <1>5 DEF ViewInv, CheckoutsAreUndisturbed
<1> QED  BY <1>2, <1>3, <1>6 DEF ViewInv

(* What neither begins nor ends anything, nor reads.                       *)
LEMMA NothingMoves ==
  ASSUME ViewInv, disk' \in [Repos -> Nat], UNCHANGED <<view, opening, loads, flow, era, entangled>>
  PROVE  ViewInv'
  BY DEF ViewInv, ViewShapes, ReadsAreOfTheEra, CheckoutsAreUndisturbed, Rewriting, NothingElseBegun,
         TheTreeLeftStaysGone

(* An operation that goes on as the same kind.                             *)
LEMMA OperationGoesOn ==
  ASSUME ViewInv, NEW f \in FlowIds, NEW to \in {"rewriting", "settled", "refreshing"},
         flow[f].at # "idle", flow' = [flow EXCEPT ![f].at = to],
         to = "rewriting" => flow[f].at = "running"
  PROVE  /\ flow' \in [FlowIds -> Operations]
         /\ \A g \in FlowIds : Rewriting(g)' => Rewriting(g)
         /\ \A g \in FlowIds : flow[g].at = "idle" => flow'[g].at = "idle"
         /\ to # "rewriting" => ~Rewriting(f)'
<1>1. flow[f] \in Operations /\ flow[f] # Idle
  BY DEF ViewInv, ViewShapes, Idle
<1> DEFINE next == [flow[f] EXCEPT !.at = to]
<1>2. next \in Operations /\ next.at = to /\ next.kind = flow[f].kind
  BY <1>1 DEF Operations
<1>3. flow' = [flow EXCEPT ![f] = next]
  OBVIOUS
<1> HIDE DEF next
<1>4. flow' \in [FlowIds -> Operations] /\ flow'[f] = next /\ \A g \in FlowIds \ {f} : flow'[g] = flow[g]
  BY <1>2, <1>3 DEF ViewInv, ViewShapes
<1> QED  BY <1>2, <1>4 DEF Rewriting

(* An operation that ends or fails, and what its finally block does.       *)
LEMMA OperationEnds ==
  ASSUME ViewInv, NEW f \in FlowIds, flow[f].at # "idle", flow' = [flow EXCEPT ![f] = Idle], Ended(f),
         UNCHANGED <<disk, opening, loads, era, entangled>>
  PROVE  ViewInv'
<1>1. flow[f] \in Operations /\ flow[f] # Idle
  BY DEF ViewInv, ViewShapes, Idle
<1>2. /\ flow' \in [FlowIds -> Operations] /\ flow'[f].at = "idle"
      /\ \A g \in FlowIds \ {f} : flow'[g] = flow[g]
  BY DEF ViewInv, ViewShapes, Operations, Idle
<1>3. /\ view' \in Views /\ view'.seq = view.seq /\ view'.shown = view.shown
  BY DEF Ended, ViewInv, ViewShapes, Views
<1>4. ViewShapes'
  BY <1>2, <1>3 DEF ViewInv, ViewShapes
<1>5. ReadsAreOfTheEra' /\ TheTreeLeftStaysGone'
  BY <1>3 DEF ViewInv, ReadsAreOfTheEra, TheTreeLeftStaysGone
<1>6. ASSUME ~entangled, NEW g \in FlowIds, Rewriting(g)' PROVE FALSE
  <2>1. g # f /\ Rewriting(g)
    BY <1>2, <1>6 DEF Rewriting
  <2>2. NothingElseBegun(g)
    BY <1>6, <2>1 DEF ViewInv, CheckoutsAreUndisturbed
  <2> QED  BY <2>1, <2>2 DEF NothingElseBegun
<1> QED  BY <1>4, <1>5, <1>6 DEF ViewInv, CheckoutsAreUndisturbed
LEMMA ViewInits == ViewInit => ViewInv
<1> SUFFICES ASSUME ViewInit PROVE ViewInv
  OBVIOUS
<1>1. ViewShapes
  BY RepoViewConstants DEF ViewInit, ViewShapes, Views, Loads, Operations, Idle
<1>2. ReadsAreOfTheEra /\ CheckoutsAreUndisturbed
  BY DEF ViewInit, ReadsAreOfTheEra, CheckoutsAreUndisturbed, Rewriting, Idle
<1> QED  BY <1>1, <1>2 DEF ViewInit, ViewInv, TheTreeLeftStaysGone

LEMMA NoneInProgress ==
  ASSUME ViewShapes
  PROVE  /\ InProgress({"checkout"}) = {} => \A f \in FlowIds : ~Rewriting(f)
         /\ InProgress(FlowKinds) = {} => \A f \in FlowIds : flow[f].at = "idle"
  BY DEF ViewShapes, Operations, Idle, InProgress, Doing, Rewriting

LEMMA OpenStep ==
  ASSUME ViewInv, NEW r \in Repos, OpenRepo(r)
  PROVE  ViewInv'
<1>1. /\ view' \in Views /\ view'.seq = view.seq /\ view'.shown = NoTree
      /\ UNCHANGED <<disk, loads, flow, era>>
  BY DEF OpenRepo, ViewInv, ViewShapes, Views
<1>2. opening' \in [Repos -> Nat]
  BY DEF OpenRepo, ViewInv, ViewShapes
<1>3. entangled' \in BOOLEAN /\ (entangled => entangled')
      /\ (~entangled' => InProgress({"checkout"}) = {})
  BY DEF OpenRepo, ViewInv, ViewShapes
<1>4. ViewShapes'
  BY <1>1, <1>2, <1>3 DEF ViewInv, ViewShapes
<1>5. ReadsAreOfTheEra' /\ TheTreeLeftStaysGone'
  BY <1>1, <1>3 DEF ViewInv, ReadsAreOfTheEra, TheTreeLeftStaysGone
<1>6. \A f \in FlowIds : Rewriting(f)' <=> Rewriting(f)
  BY <1>1 DEF Rewriting
<1>7. CheckoutsAreUndisturbed'
  BY <1>3, <1>6, NoneInProgress DEF ViewInv, CheckoutsAreUndisturbed
<1> QED  BY <1>4, <1>5, <1>7 DEF ViewInv

LEMMA BeginStep ==
  ASSUME ViewInv, BeginCheckout \/ BeginRemote("pull") \/ BeginRemote("fetch") \/ BeginAct
  PROVE  ViewInv'
<1>1. PICK kind \in FlowKinds :
        /\ Begin(kind)
        /\ \/ kind = "checkout" /\ BeginCheckout
           \/ kind # "checkout" /\ era' = era /\ (view' = view \/ view' = [view EXCEPT !.remoteOp = TRUE])
  BY DEF BeginCheckout, BeginRemote, BeginAct, FlowKinds
<1>2. PICK f \in FlowIds :
        /\ flow[f].at = "idle"
        /\ flow' = [flow EXCEPT ![f] = [at |-> "running", kind |-> kind, repo |-> view.path]]
  BY <1>1 DEF Begin
<1>3. UNCHANGED <<disk, opening, loads>>
  BY <1>1 DEF Begin
<1> DEFINE new == [at |-> "running", kind |-> kind, repo |-> view.path]
<1>4. new \in Operations /\ new.at = "running" /\ new.kind = kind
  BY DEF ViewInv, ViewShapes, Views, Operations
<1>5. flow' = [flow EXCEPT ![f] = new]
  BY <1>2
<1> HIDE DEF new
<1>6. flow' \in [FlowIds -> Operations] /\ flow'[f] = new /\ \A g \in FlowIds \ {f} : flow'[g] = flow[g]
  BY <1>4, <1>5 DEF ViewInv, ViewShapes
<1>7. /\ entangled' \in BOOLEAN /\ (entangled => entangled')
      /\ ~entangled' => InProgress({"checkout"}) = {}
      /\ ~entangled' /\ kind = "checkout" =>
           InProgress(FlowKinds) = {} /\ \A r \in Repos : ~(opening[r] > 0)
  BY <1>1 DEF Begin, ViewInv, ViewShapes
<1>8. CASE kind = "checkout"
  <2>1. /\ view' \in Views /\ view'.seq = view.seq + 1 /\ view'.checking /\ view'.shown = NoTree
        /\ view.seq \in Nat /\ era' \in [Repos -> Nat]
    <3>1. /\ view' = [view EXCEPT !.checking = TRUE, !.seq = @ + 1, !.shown = NoTree]
          /\ era' = [era EXCEPT ![view.path] = @ + 1]
      BY <1>1, <1>8 DEF BeginCheckout
    <3>2. view \in Views /\ view.path \in Repos /\ view.seq \in Nat /\ era \in [Repos -> Nat]
      BY DEF ViewInv, ViewShapes, Views
    <3>3. view' \in Views
      <4> DEFINE seq == view.seq + 1
      <4>1. seq \in Nat
        BY <3>2
      <4>2. view' = [view EXCEPT !.checking = TRUE, !.seq = seq, !.shown = NoTree]
        BY <3>1
      <4> HIDE DEF seq
      <4> QED  BY <3>2, <4>1, <4>2 DEF Views
    <3>4. view'.seq = view.seq + 1 /\ view'.checking = TRUE /\ view'.shown = NoTree
      BY <3>1, <3>2 DEF Views
    <3>5. era[view.path] + 1 \in Nat
      BY <3>2
    <3>6. era' \in [Repos -> Nat]
      BY <3>1, <3>2, <3>5
    <3> QED  BY <3>2, <3>3, <3>4, <3>6
  <2>2. ViewShapes'
    <3>1. disk' \in [Repos -> Nat] /\ opening' \in [Repos -> Nat] /\ loads' \in [LoadIds -> Loads]
      BY <1>3 DEF ViewInv, ViewShapes
    <3> QED  BY <1>6, <1>7, <2>1, <3>1 DEF ViewShapes
  <2>3. \A l \in LoadIds : loads[l].at # "idle" => loads[l].seq \in Nat /\ loads[l].seq <= view.seq
    BY DEF ViewInv, ViewShapes, ReadsAreOfTheEra, Loads, Idle
  <2>4. \A l \in LoadIds : loads[l].at # "idle" => loads[l].seq <= view'.seq /\ loads[l].seq # view'.seq
    BY <2>1, <2>3
  <2>5. ReadsAreOfTheEra' /\ TheTreeLeftStaysGone'
    BY <1>3, <2>1, <2>4 DEF ReadsAreOfTheEra, TheTreeLeftStaysGone
  <2>6. ASSUME ~entangled', NEW g \in FlowIds, Rewriting(g)' PROVE NothingElseBegun(g)'
    <3>1. \A h \in FlowIds : flow[h].at = "idle"
      BY <1>7, <1>8, <2>6, NoneInProgress DEF ViewInv
    <3>2. g = f
      BY <1>6, <2>6, <3>1 DEF Rewriting
    <3>3. \A r \in Repos : opening'[r] = 0
      BY <1>3, <1>7, <1>8, <2>6 DEF ViewInv, ViewShapes
    <3>4. \A h \in FlowIds \ {g} : flow'[h].at = "idle"
      BY <1>6, <3>1, <3>2
    <3> QED  BY <1>3, <2>1, <2>4, <3>3, <3>4 DEF NothingElseBegun
  <2>7. CheckoutsAreUndisturbed'
    BY <2>6 DEF CheckoutsAreUndisturbed
  <2> QED  BY <2>2, <2>5, <2>7 DEF ViewInv
<1>9. CASE kind # "checkout"
  <2>1. view' \in Views /\ view'.seq = view.seq /\ view'.shown = view.shown /\ era' = era
    BY <1>1, <1>9 DEF ViewInv, ViewShapes, Views
  <2>2. ViewShapes'
    BY <1>3, <1>6, <1>7, <2>1 DEF ViewInv, ViewShapes
  <2>3. ReadsAreOfTheEra' /\ TheTreeLeftStaysGone'
    BY <1>3, <1>7, <2>1 DEF ViewInv, ReadsAreOfTheEra, TheTreeLeftStaysGone
  <2>4. ~entangled' => \A g \in FlowIds : ~Rewriting(g)
    BY <1>7, NoneInProgress DEF ViewInv
  <2>5. \A g \in FlowIds : Rewriting(g)' => Rewriting(g)
    BY <1>4, <1>6, <1>9 DEF Rewriting
  <2>6. CheckoutsAreUndisturbed'
    BY <2>4, <2>5 DEF CheckoutsAreUndisturbed
  <2> QED  BY <2>2, <2>3, <2>6 DEF ViewInv
<1> QED  BY <1>8, <1>9

LEMMA WatchStep ==
  ASSUME ViewInv, NEW r \in Repos, Announce(r) \/ CoolDown(r) \/ NewsArrives(r) \/ RepoOpened(r)
  PROVE  ViewInv'
<1>1. CASE Announce(r) \/ CoolDown(r)
  <2>1. UNCHANGED <<disk, view, opening, loads, flow, era, entangled>>
    BY <1>1 DEF Announce, CoolDown
  <2> QED  BY <2>1, NothingMoves DEF ViewInv, ViewShapes
<1>2. CASE NewsArrives(r)
  <2>1. UNCHANGED <<disk, view, opening, flow, era, entangled>>
    BY <1>2 DEF NewsArrives
  <2>2. CASE UNCHANGED loads
    BY <2>1, <2>2, NothingMoves DEF ViewInv, ViewShapes
  <2>3. CASE ~UNCHANGED loads
    <3>1. WatcherMayRefresh /\ RefreshAll(0)
      BY <1>2, <2>3 DEF NewsArrives
    <3>2. entangled \/ \A f \in FlowIds : ~Rewriting(f)
      BY <3>1 DEF ViewInv, CheckoutsAreUndisturbed, NothingElseBegun, WatcherMayRefresh
    <3>3. \A f \in FlowIds : Rewriting(f)' <=> Rewriting(f)
      BY <2>1 DEF Rewriting
    <3>4. opening' \in [Repos -> Nat] /\ flow' \in [FlowIds -> Operations]
      BY <2>1 DEF ViewInv, ViewShapes
    <3> QED  BY <2>1, <3>1, <3>2, <3>3, <3>4, ReadAsked
  <2> QED  BY <2>2, <2>3
<1>3. CASE RepoOpened(r)
  <2>1. /\ opening[r] > 0 /\ opening' = [opening EXCEPT ![r] = @ - 1]
        /\ UNCHANGED <<disk, view, flow, era, entangled>>
    BY <1>3 DEF RepoOpened
  <2>2. opening' \in [Repos -> Nat]
    BY <2>1 DEF ViewInv, ViewShapes
  <2>3. entangled \/ \A f \in FlowIds : ~Rewriting(f)
    BY <2>1 DEF ViewInv, CheckoutsAreUndisturbed, NothingElseBegun
  <2>4. \A f \in FlowIds : Rewriting(f)' <=> Rewriting(f)
    BY <2>1 DEF Rewriting
  <2>5. CASE UNCHANGED loads
    <3>1. ViewShapes' /\ ReadsAreOfTheEra' /\ TheTreeLeftStaysGone'
      BY <2>1, <2>2, <2>5 DEF ViewInv, ViewShapes, ReadsAreOfTheEra, TheTreeLeftStaysGone
    <3>2. CheckoutsAreUndisturbed'
      BY <2>1, <2>3, <2>4 DEF CheckoutsAreUndisturbed
    <3> QED  BY <3>1, <3>2 DEF ViewInv
  <2>6. CASE ~UNCHANGED loads
    <3>1. RefreshAll(0)
      BY <1>3, <2>6 DEF RepoOpened
    <3>2. flow' \in [FlowIds -> Operations]
      BY <2>1 DEF ViewInv, ViewShapes
    <3> QED  BY <2>1, <2>2, <2>3, <2>4, <3>1, <3>2, ReadAsked
  <2> QED  BY <2>5, <2>6
<1> QED  BY <1>1, <1>2, <1>3

LEMMA OperationStep ==
  ASSUME ViewInv, NEW f \in FlowIds, Rewrites(f) \/ Refreshes(f) \/ FlowEnds(f) \/ FlowFails(f)
  PROVE  ViewInv'
<1>1. CASE Rewrites(f)
  <2>1. PICK to \in {"rewriting", "settled"} :
          /\ flow[f].at # "idle" /\ flow' = [flow EXCEPT ![f].at = to]
          /\ to = "rewriting" => flow[f].at = "running"
    BY <1>1 DEF Rewrites, At
  <2>2. UNCHANGED <<view, opening, loads, era, entangled>> /\ flow[f].repo \in Repos
    <3>1. flow[f] \in Operations /\ flow[f] # Idle
      BY <2>1 DEF ViewInv, ViewShapes, Idle
    <3> QED  BY <1>1, <3>1 DEF Rewrites, Operations
  <2>3. disk' \in [Repos -> Nat]
    BY <1>1, <2>2 DEF Rewrites, Changes, ViewInv, ViewShapes
  <2>4. /\ flow' \in [FlowIds -> Operations] /\ \A g \in FlowIds : Rewriting(g)' => Rewriting(g)
        /\ \A g \in FlowIds : flow[g].at = "idle" => flow'[g].at = "idle"
    BY <2>1, OperationGoesOn
  <2>5. ViewShapes' /\ ReadsAreOfTheEra' /\ TheTreeLeftStaysGone'
    BY <2>2, <2>3, <2>4 DEF ViewInv, ViewShapes, ReadsAreOfTheEra, TheTreeLeftStaysGone
  <2>6. CheckoutsAreUndisturbed'
    BY <2>2, <2>4 DEF ViewInv, CheckoutsAreUndisturbed, NothingElseBegun
  <2> QED  BY <2>5, <2>6 DEF ViewInv
<1>2. CASE Refreshes(f)
  <2>1. /\ flow[f].at # "idle" /\ flow' = [flow EXCEPT ![f].at = "refreshing"]
        /\ UNCHANGED <<disk, view, opening, era, entangled>>
        /\ UNCHANGED loads \/ RefreshAll(f)
    BY <1>2 DEF Refreshes, At
  <2>2. /\ flow' \in [FlowIds -> Operations] /\ \A g \in FlowIds : Rewriting(g)' => Rewriting(g)
        /\ \A g \in FlowIds : flow[g].at = "idle" => flow'[g].at = "idle"
        /\ ~Rewriting(f)'
    BY <2>1, OperationGoesOn
  <2>3. entangled \/ \A g \in FlowIds : ~Rewriting(g)'
    BY <2>1, <2>2 DEF ViewInv, CheckoutsAreUndisturbed, NothingElseBegun
  <2>4. CASE UNCHANGED loads
    <3>1. ViewShapes' /\ ReadsAreOfTheEra' /\ TheTreeLeftStaysGone'
      BY <2>1, <2>2, <2>4 DEF ViewInv, ViewShapes, ReadsAreOfTheEra, TheTreeLeftStaysGone
    <3>2. CheckoutsAreUndisturbed'
      BY <2>1, <2>3 DEF CheckoutsAreUndisturbed
    <3> QED  BY <3>1, <3>2 DEF ViewInv
  <2>5. CASE RefreshAll(f)
    <3>1. opening' \in [Repos -> Nat] /\ f \in Nat
      BY <2>1 DEF ViewInv, ViewShapes, FlowIds
    <3> QED  BY <2>1, <2>2, <2>3, <2>5, <3>1, ReadAsked
  <2> QED  BY <2>1, <2>4, <2>5
<1>3. CASE FlowEnds(f) \/ FlowFails(f)
  BY <1>3, OperationEnds DEF FlowEnds, FlowFails
<1> QED  BY <1>1, <1>2, <1>3

LEMMA ReadStep ==
  ASSUME ViewInv, NEW l \in LoadIds, LoadReads(l) \/ LoadLands(l) \/ ReadFails(l)
  PROVE  ViewInv'
<1>0. Idle \in Loads /\ Idle.at = "idle" /\ view \in Views
  BY DEF Loads, Idle, ViewInv, ViewShapes
<1>1. CASE LoadReads(l)
  <2> DEFINE r == loads[l].repo
             middle == \E f \in Doing({"checkout"}, {"running", "rewriting"}) : flow[f].repo = r
             new == [at |-> "read", repo |-> r, seq |-> loads[l].seq, by |-> loads[l].by,
                     ver |-> disk[r], era |-> era[r], mid |-> middle]
  <2>1. /\ loads[l].at = "asked" /\ loads[l].seq = view.seq /\ loads' = [loads EXCEPT ![l] = new]
        /\ UNCHANGED <<disk, view, opening, flow, era, entangled>>
    BY <1>1 DEF LoadReads
  <2>2. loads[l] \in [at : {"asked"}, repo : Repos, seq : Nat, by : Nat]
    BY <2>1 DEF ViewInv, ViewShapes, Loads, Idle
  <2>3. ASSUME middle PROVE entangled
    <3>1. PICK f \in FlowIds : Rewriting(f)
      BY <2>3 DEF Doing, Rewriting
    <3> QED  BY <2>1, <3>1 DEF ViewInv, CheckoutsAreUndisturbed, NothingElseBegun
  <2>4. r \in Repos /\ middle \in BOOLEAN /\ disk[r] \in Nat /\ era[r] \in Nat
    BY <2>2 DEF ViewInv, ViewShapes
  <2> HIDE DEF middle
  <2>5. /\ new \in Loads /\ new.at = "read" /\ new.seq = loads[l].seq
        /\ new.era = era[new.repo] /\ (new.mid => entangled)
    BY <2>2, <2>3, <2>4 DEF Loads
  <2> HIDE DEF new
  <2>6. TheTreeLeftStaysGone'
    BY <2>1 DEF ViewInv, TheTreeLeftStaysGone
  <2> QED  BY <1>0, <2>1, <2>5, <2>6, ReadChanges
<1>2. CASE LoadLands(l)
  <2>1. /\ loads' = [loads EXCEPT ![l] = Idle]
        /\ UNCHANGED <<disk, opening, flow, era, entangled>>
        /\ \/ view' = view
           \/ /\ loads[l].at = "read" /\ loads[l].seq = view.seq
              /\ view' = [view EXCEPT !.shown = Picture(loads[l])]
    BY <1>2 DEF LoadLands, IsCurrent
  <2>2. CASE view' = view
    <3>1. TheTreeLeftStaysGone'
      BY <2>1, <2>2 DEF ViewInv, TheTreeLeftStaysGone
    <3> QED  BY <1>0, <2>1, <2>2, <3>1, ReadChanges
  <2>3. CASE view' # view
    <3> DEFINE shown == Picture(loads[l])
    <3>1. loads[l].at = "read" /\ loads[l].seq = view.seq /\ view' = [view EXCEPT !.shown = shown]
      BY <2>1, <2>3
    <3>2. /\ loads[l] \in [at : {"read"}, repo : Repos, seq : Nat, by : Nat, ver : Nat, era : Nat, mid : BOOLEAN]
          /\ loads[l].era = era[loads[l].repo] /\ (loads[l].mid => entangled)
      BY <3>1 DEF ViewInv, ViewShapes, Loads, Idle, ReadsAreOfTheEra
    <3>3. shown \in Tree /\ shown.era = era[shown.repo] /\ (shown.mid => entangled)
      BY <3>2 DEF Picture, Tree
    <3> HIDE DEF shown
    <3>4. view' \in Views /\ view'.seq = view.seq /\ view'.checking = view.checking /\ view'.shown = shown
      BY <1>0, <3>1, <3>3 DEF Views
    <3>5. TheTreeLeftStaysGone'
      BY <2>1, <3>3, <3>4 DEF TheTreeLeftStaysGone
    <3> QED  BY <1>0, <2>1, <3>4, <3>5, ReadChanges
  <2> QED  BY <2>2, <2>3
<1>3. CASE ReadFails(l)
  <2>1. /\ loads' = [loads EXCEPT ![l] = Idle]
        /\ UNCHANGED <<disk, view, opening, flow, era, entangled>>
    BY <1>3 DEF ReadFails
  <2>2. TheTreeLeftStaysGone'
    BY <2>1 DEF ViewInv, TheTreeLeftStaysGone
  <2> QED  BY <1>0, <2>1, <2>2, ReadChanges
<1> QED  BY <1>1, <1>2, <1>3

LEMMA ViewStep == ViewInv /\ [ViewNext]_viewVars => ViewInv'
<1> SUFFICES ASSUME ViewInv, [ViewNext]_viewVars PROVE ViewInv'
  OBVIOUS
<1>1. CASE EditTree
  <2>1. disk' \in [Repos -> Nat] /\ UNCHANGED <<view, opening, loads, flow, era, entangled>>
    BY <1>1 DEF EditTree, Changes, ViewInv, ViewShapes, Views
  <2> QED  BY <2>1, NothingMoves
<1>2. CASE UNCHANGED viewVars
  BY <1>2, NothingMoves DEF viewVars, ViewInv, ViewShapes
<1>3. CASE WatchStarts \/ WatchFails
  BY <1>3, NothingMoves DEF WatchStarts, WatchFails, WatchMoves, ViewInv, ViewShapes
<1> QED  BY <1>1, <1>2, <1>3, OpenStep, BeginStep, WatchStep, OperationStep, ReadStep DEF ViewNext

(* For any projects, operations and reads: what is on screen was read      *)
(* after the last checkout of its repository began, and not while it was   *)
(* rewriting the tree, unless a project was opened or another operation    *)
(* begun meanwhile (repoStore.ts, checkoutSeq; App.tsx, the gate).         *)
THEOREM TheTreeLeftAlwaysStaysGone == ViewSpec => []TheTreeLeftStaysGone
<1>1. ViewInv => TheTreeLeftStaysGone
  BY DEF ViewInv
<1> QED  BY ViewInits, ViewStep, <1>1, PTL DEF ViewSpec

(* What a read has seen is not newer than the tree, and what the screen    *)
(* lacks is on its way: this is kept by every step, the types given.       *)
ReadsAreNotAhead ==
  \A l \in LoadIds : loads[l].at = "read" => loads[l].ver <= disk[loads[l].repo]
ArrivalInv == ViewInv /\ lost \in BOOLEAN /\ ReadsAreNotAhead /\ ChangesShowUp

LEMMA ArrivalShapes ==
  ASSUME ViewInv
  PROVE  /\ disk \in [Repos -> Nat] /\ opening \in [Repos -> Nat] /\ view \in Views /\ view.path \in Repos /\ view.seq \in Nat
         /\ \A l \in LoadIds : loads[l] \in Loads
         /\ \A l \in LoadIds : loads[l].at = "read" => loads[l].ver \in Nat /\ loads[l].repo \in Repos
         /\ \A l \in LoadIds : loads[l].at # "idle" => loads[l].repo \in Repos
         /\ \A f \in FlowIds : flow[f] \in Operations /\ (flow[f].at # "idle" => flow[f].repo \in Repos)
         /\ DOMAIN loads = LoadIds /\ DOMAIN flow = FlowIds
<1>1. /\ disk \in [Repos -> Nat] /\ opening \in [Repos -> Nat] /\ view \in Views
      /\ loads \in [LoadIds -> Loads] /\ flow \in [FlowIds -> Operations]
  BY DEF ViewInv, ViewShapes
<1>2. view.path \in Repos /\ view.seq \in Nat  BY <1>1 DEF Views
<1>3. ASSUME NEW l \in LoadIds  PROVE /\ loads[l] \in Loads
                                      /\ loads[l].at = "read" => loads[l].ver \in Nat /\ loads[l].repo \in Repos
                                      /\ loads[l].at # "idle" => loads[l].repo \in Repos
  BY <1>1 DEF Loads, Idle
<1>4. ASSUME NEW f \in FlowIds  PROVE flow[f] \in Operations /\ (flow[f].at # "idle" => flow[f].repo \in Repos)
  BY <1>1 DEF Operations, Idle
<1> QED  BY <1>1, <1>2, <1>3, <1>4

(* A read asked for now shows whatever has changed by now.                 *)
LEMMA ARefreshWillRead ==
  ASSUME ArrivalInv, NEW by, RefreshAll(by), UNCHANGED <<disk, view>>
  PROVE  lost' \in BOOLEAN /\ ReadsAreNotAhead' /\ ChangesShowUp'
<1> DEFINE new == [at |-> "asked", repo |-> view.path, seq |-> view.seq, by |-> by]
<1>1. PICK l \in LoadIds : loads[l].at = "idle" /\ loads' = [loads EXCEPT ![l] = new] /\ lost' = FALSE
  BY DEF RefreshAll
<1>2. new.at = "asked" /\ new.repo = view.path /\ new.seq = view.seq
  OBVIOUS
<1> HIDE DEF new
<1>3. loads'[l] = new /\ \A k \in LoadIds \ {l} : loads'[k] = loads[k]
  BY <1>1, ArrivalShapes DEF ArrivalInv
<1>4. ReadsAreNotAhead'
  BY <1>2, <1>3 DEF ArrivalInv, ReadsAreNotAhead
<1>5. WillRead'
  BY <1>2, <1>3 DEF WillRead, IsCurrent
<1> QED  BY <1>1, <1>4, <1>5 DEF ChangesShowUp, OnItsWay

(* A step that takes none of what is on its way, and leaves screen and tree. *)
LEMMA NothingIsTaken ==
  ASSUME ArrivalInv, UNCHANGED <<disk, loads>>, lost' = lost,
         view'.path = view.path, view'.seq = view.seq, view'.shown = view.shown,
         opening'[view.path] = opening[view.path],
         \A f \in Doing(FlowKinds \ {"fetch"}, {"running", "rewriting", "settled"}) :
           f \in Doing(FlowKinds \ {"fetch"}, {"running", "rewriting", "settled"})',
         view.path \in changed \cup news => view.path \in changed' \cup news'
  PROVE  lost' \in BOOLEAN /\ ReadsAreNotAhead' /\ ChangesShowUp'
<1>1. ReadsAreNotAhead' /\ lost' \in BOOLEAN
  BY DEF ArrivalInv, ReadsAreNotAhead
<1>2. WillRead => WillRead'
  BY DEF WillRead, IsCurrent
<1>3. UpToDate => UpToDate'
  BY DEF UpToDate
<1>4. OnItsWay => OnItsWay'
  BY <1>2 DEF OnItsWay, IsCurrent
<1> QED  BY <1>1, <1>3, <1>4 DEF ArrivalInv, ChangesShowUp

(* A read of the open project is coming: nothing else matters.             *)
LEMMA AReadIsComing ==
  ASSUME ArrivalInv, WillRead', lost' \in BOOLEAN, loads' = loads,
         disk' \in [Repos -> Nat], \A r \in Repos : disk[r] <= disk'[r]
  PROVE  lost' \in BOOLEAN /\ ReadsAreNotAhead' /\ ChangesShowUp'
<1>1. \A l \in LoadIds : loads[l].at = "read" => loads[l].ver <= disk'[loads[l].repo]
  <2> TAKE l \in LoadIds
  <2> SUFFICES ASSUME loads[l].at = "read" PROVE loads[l].ver <= disk'[loads[l].repo]
    OBVIOUS
  <2>1. PICK r \in Repos : r = loads[l].repo
    BY ArrivalShapes DEF ArrivalInv
  <2>2. loads[l].ver \in Nat /\ disk[r] \in Nat /\ disk'[r] \in Nat
    BY ArrivalShapes DEF ArrivalInv
  <2>3. loads[l].ver <= disk[r] /\ disk[r] <= disk'[r]
    BY <2>1 DEF ArrivalInv, ReadsAreNotAhead
  <2> QED  BY <2>1, <2>2, <2>3
<1> QED  BY <1>1 DEF ReadsAreNotAhead, ChangesShowUp, OnItsWay

Arrives == lost' \in BOOLEAN /\ ReadsAreNotAhead' /\ ChangesShowUp'

LEMMA ArrivalOpen ==
  ASSUME ArrivalInv, NEW r \in Repos, OpenRepo(r)
  PROVE  Arrives
<1>1. /\ view' = [view EXCEPT !.path = r, !.shown = NoTree] /\ opening' = [opening EXCEPT ![r] = @ + 1]
      /\ lost' = FALSE /\ loads' = loads /\ disk' = disk
  BY DEF OpenRepo
<1>2. view'.path = r /\ opening'[r] = opening[r] + 1 /\ opening[r] \in Nat /\ disk \in [Repos -> Nat]
  BY <1>1, ArrivalShapes DEF ArrivalInv, Views
<1>3. WillRead'
  BY <1>2 DEF WillRead
<1>4. \A q \in Repos : disk[q] <= disk'[q]
  BY <1>1, <1>2
<1> QED  BY <1>1, <1>2, <1>3, <1>4, AReadIsComing DEF Arrives

LEMMA ArrivalBegin ==
  ASSUME ArrivalInv, BeginCheckout \/ BeginRemote("pull") \/ BeginRemote("fetch") \/ BeginAct
  PROVE  Arrives
<1>1. PICK kind \in FlowKinds :
        /\ Begin(kind)
        /\ \/ kind \in {"checkout", "pull", "act"}
           \/ kind = "fetch" /\ view' = [view EXCEPT !.remoteOp = TRUE]
  BY DEF BeginCheckout, BeginRemote, BeginAct, FlowKinds
<1> DEFINE new == [at |-> "running", kind |-> kind, repo |-> view.path]
<1>2. PICK f \in FlowIds : flow[f].at = "idle" /\ flow' = [flow EXCEPT ![f] = new]
  BY <1>1 DEF Begin
<1>3. UNCHANGED <<disk, opening, loads, changed, news, lost>>
  BY <1>1 DEF Begin
<1>4. new.at = "running" /\ new.kind = kind
  OBVIOUS
<1> HIDE DEF new
<1>5. flow'[f] = new /\ \A g \in FlowIds \ {f} : flow'[g] = flow[g]
  BY <1>2, ArrivalShapes DEF ArrivalInv
<1>6. CASE kind # "fetch"
  <2>1. WillRead'
    BY <1>4, <1>5, <1>6 DEF WillRead, Doing
  <2>2. \A q \in Repos : disk[q] <= disk'[q]
    BY <1>3, ArrivalShapes DEF ArrivalInv
  <2> QED  BY <1>3, <2>1, <2>2, AReadIsComing, ArrivalShapes DEF ArrivalInv, Arrives
<1>7. CASE kind = "fetch"
  <2>1. view'.path = view.path /\ view'.seq = view.seq /\ view'.shown = view.shown
    BY <1>1, <1>7, ArrivalShapes DEF ArrivalInv, Views
  <2>2. \A g \in FlowIds : flow[g].at # "idle" => flow'[g] = flow[g]
    BY <1>2, <1>5
  <2>3. \A g \in Doing(FlowKinds \ {"fetch"}, {"running", "rewriting", "settled"}) :
          g \in Doing(FlowKinds \ {"fetch"}, {"running", "rewriting", "settled"})'
    BY <2>2 DEF Doing
  <2> QED  BY <1>3, <2>1, <2>3, NothingIsTaken DEF Arrives
<1> QED  BY <1>6, <1>7

LEMMA ArrivalEdit ==
  ASSUME ArrivalInv, NEW r \in Repos, Changes(r), UNCHANGED <<view, opening, loads, news>>,
         r = view.path \/ WillRead',
         \A f \in Doing(FlowKinds \ {"fetch"}, {"running", "rewriting", "settled"}) :
           f \in Doing(FlowKinds \ {"fetch"}, {"running", "rewriting", "settled"})'
  PROVE  Arrives
<1>1. /\ disk' = [disk EXCEPT ![r] = @ + 1] /\ disk \in [Repos -> Nat]
      /\ changed' = IF Seen(r) THEN changed \cup {r} ELSE changed
      /\ lost' = (lost \/ (r = view.path /\ watch # "on" /\ ~WillRead)) /\ lost' \in BOOLEAN
  BY ArrivalShapes DEF Changes, Notice, Unseen, ArrivalInv
<1>2. disk' \in [Repos -> Nat] /\ \A q \in Repos : disk[q] <= disk'[q]
  BY <1>1
<1>3. CASE WillRead'
  BY <1>1, <1>2, <1>3, AReadIsComing DEF ArrivalInv, Arrives
<1>4. CASE r = view.path
  <2>1. lost' \/ OnItsWay'
    <3>1. WillRead => WillRead'
      BY DEF WillRead, IsCurrent
    <3> QED  BY <1>1, <1>4, <3>1 DEF OnItsWay, Seen
  <2>2. ReadsAreNotAhead'
    <3> SUFFICES ASSUME NEW l \in LoadIds, loads[l].at = "read"  PROVE loads[l].ver <= disk'[loads[l].repo]
      BY DEF ReadsAreNotAhead
    <3>1. PICK q \in Repos : q = loads[l].repo
      BY ArrivalShapes DEF ArrivalInv
    <3>2. loads[l].ver \in Nat /\ disk[q] \in Nat /\ disk'[q] \in Nat
      BY <1>1, <1>2, ArrivalShapes DEF ArrivalInv
    <3>3. loads[l].ver <= disk[q] /\ disk[q] <= disk'[q]
      BY <1>2, <3>1 DEF ArrivalInv, ReadsAreNotAhead
    <3> QED  BY <3>1, <3>2, <3>3
  <2> QED  BY <1>1, <2>1, <2>2 DEF ChangesShowUp, ArrivalInv, Arrives
<1> QED  BY <1>3, <1>4
LEMMA ArrivalWatch ==
  ASSUME ArrivalInv, NEW r \in Repos, Announce(r) \/ CoolDown(r) \/ NewsArrives(r) \/ RepoOpened(r)
  PROVE  Arrives
<1>1. CASE Announce(r) \/ CoolDown(r)
  <2>1. /\ UNCHANGED <<disk, view, opening, loads, flow, lost>>
        /\ view.path \in changed \cup news => view.path \in changed' \cup news'
    BY <1>1 DEF Announce, CoolDown
  <2> QED  BY <2>1, NothingIsTaken DEF Doing, Arrives
<1>2. CASE NewsArrives(r)
  <2>1. news' = news \ {r} /\ UNCHANGED <<disk, view, opening, flow, changed>>
    BY <1>2 DEF NewsArrives
  <2>2. CASE RefreshAll(0)
    BY <2>1, <2>2, ARefreshWillRead DEF Arrives
  <2>3. CASE r = view.path /\ UNCHANGED loads /\ lost' = (lost \/ ~WillRead)
    <3>1. ReadsAreNotAhead' /\ lost' \in BOOLEAN
      BY <2>1, <2>3 DEF ArrivalInv, ReadsAreNotAhead
    <3>2. WillRead => WillRead'
      BY <2>1, <2>3 DEF WillRead, IsCurrent, Doing
    <3>3. ChangesShowUp'
      BY <2>3, <3>2 DEF ChangesShowUp, OnItsWay
    <3> QED  BY <3>1, <3>3 DEF Arrives
  <2>4. CASE r # view.path /\ UNCHANGED <<loads, lost>>
    BY <2>1, <2>4, NothingIsTaken DEF Doing, Arrives
  <2> QED  BY <1>2, <2>2, <2>3, <2>4 DEF NewsArrives
<1>3. CASE RepoOpened(r)
  <2>1. opening' = [opening EXCEPT ![r] = @ - 1] /\ UNCHANGED <<disk, view, flow, changed, news>>
    BY <1>3 DEF RepoOpened
  <2>2. CASE r = view.path
    <3>1. RefreshAll(0)
      BY <1>3, <2>2 DEF RepoOpened
    <3> QED  BY <2>1, <3>1, ARefreshWillRead DEF Arrives
  <2>3. CASE r # view.path
    <3>1. UNCHANGED <<loads, lost>> /\ opening'[view.path] = opening[view.path]
      BY <1>3, <2>1, <2>3, ArrivalShapes DEF RepoOpened, ArrivalInv
    <3> QED  BY <2>1, <3>1, NothingIsTaken DEF Doing, Arrives
  <2> QED  BY <2>2, <2>3
<1> QED  BY <1>1, <1>2, <1>3

LEMMA ArrivalOperation ==
  ASSUME ArrivalInv, NEW f \in FlowIds, Rewrites(f) \/ Refreshes(f) \/ FlowEnds(f) \/ FlowFails(f)
  PROVE  Arrives
<1>0. \A g \in FlowIds : flow[g] \in Operations
  BY ArrivalShapes DEF ArrivalInv
<1>1. CASE Rewrites(f)
  <2>1. PICK to \in {"rewriting", "settled"} :
          /\ flow[f].at \in {"running", "rewriting"} /\ flow[f].kind # "fetch"
          /\ flow' = [flow EXCEPT ![f].at = to]
          /\ Changes(flow[f].repo) /\ UNCHANGED <<view, opening, loads, news>>
    BY <1>1 DEF Rewrites, At
  <2>2. flow[f] \in [at : {"running", "rewriting", "settled", "refreshing"}, kind : FlowKinds, repo : Repos]
    BY <1>0, <2>1 DEF Operations, Idle
  <2>3. /\ flow'[f].at = to /\ flow'[f].kind = flow[f].kind
        /\ \A g \in FlowIds \ {f} : flow'[g] = flow[g]
    <3>1. PICK new : new = [flow[f] EXCEPT !.at = to]
      OBVIOUS
    <3>2. flow' = [flow EXCEPT ![f] = new]
      BY <2>1, <3>1
    <3>3. new.at = to /\ new.kind = flow[f].kind
      BY <2>2, <3>1
    <3> QED  BY <3>2, <3>3, ArrivalShapes DEF ArrivalInv
  <2>4. f \in Doing(FlowKinds \ {"fetch"}, {"running", "rewriting", "settled"})'
    BY <2>1, <2>2, <2>3 DEF Doing
  <2>5. WillRead'
    BY <2>4 DEF WillRead
  <2>6. \A g \in Doing(FlowKinds \ {"fetch"}, {"running", "rewriting", "settled"}) :
          g \in Doing(FlowKinds \ {"fetch"}, {"running", "rewriting", "settled"})'
    BY <2>3, <2>4 DEF Doing
  <2>7. PICK r \in Repos : r = flow[f].repo
    BY <2>2
  <2>8. Changes(r)
    BY <2>1, <2>7
  <2> QED  BY <2>1, <2>5, <2>6, <2>8, ArrivalEdit
<1>2. CASE Refreshes(f)
  <2>1. UNCHANGED <<disk, view, opening, changed, news>>
    BY <1>2 DEF Refreshes
  <2>2. CASE RefreshAll(f)
    BY <2>1, <2>2, ARefreshWillRead DEF Arrives
  <2>3. CASE flow[f].kind = "fetch" /\ flow[f].at = "running" /\ At(f, "running", "refreshing") /\ UNCHANGED <<loads, lost>>
    <3>1. \A g \in FlowIds \ {f} : flow'[g] = flow[g]
      BY <2>3, ArrivalShapes DEF At, ArrivalInv
    <3>2. \A g \in Doing(FlowKinds \ {"fetch"}, {"running", "rewriting", "settled"}) :
            g \in Doing(FlowKinds \ {"fetch"}, {"running", "rewriting", "settled"})'
      BY <2>3, <3>1 DEF Doing
    <3> QED  BY <2>1, <2>3, <3>2, NothingIsTaken DEF Arrives
  <2> QED  BY <1>2, <2>2, <2>3 DEF Refreshes
<1>3. CASE FlowEnds(f)
  <2>1. /\ flow[f].at = "refreshing" /\ flow' = [flow EXCEPT ![f] = Idle] /\ Ended(f)
        /\ UNCHANGED <<disk, opening, loads, changed, news, lost>>
    BY <1>3 DEF FlowEnds
  <2>2. view'.path = view.path /\ view'.seq = view.seq /\ view'.shown = view.shown
    BY <2>1, ArrivalShapes DEF Ended, ArrivalInv, Views
  <2>3. \A g \in FlowIds \ {f} : flow'[g] = flow[g]
    BY <2>1, ArrivalShapes DEF ArrivalInv
  <2>4. \A g \in Doing(FlowKinds \ {"fetch"}, {"running", "rewriting", "settled"}) :
          g \in Doing(FlowKinds \ {"fetch"}, {"running", "rewriting", "settled"})'
    BY <2>1, <2>3 DEF Doing
  <2> QED  BY <2>1, <2>2, <2>4, NothingIsTaken DEF Arrives
<1>4. CASE FlowFails(f)
  <2>1. lost' = TRUE /\ loads' = loads /\ disk' = disk
    BY <1>4 DEF FlowFails
  <2> QED  BY <2>1 DEF ArrivalInv, ReadsAreNotAhead, ChangesShowUp, Arrives
<1> QED  BY <1>1, <1>2, <1>3, <1>4

(* A read that lands shows the tree as it is, or another is on its way, or *)
(* it puts back an older picture, which is one of the exceptions.          *)
LEMMA ArrivalRead ==
  ASSUME ArrivalInv, NEW l \in LoadIds, LoadReads(l) \/ LoadLands(l) \/ ReadFails(l)
  PROVE  Arrives
<1>1. CASE LoadReads(l)
  <2>1. /\ loads[l].at = "asked" /\ loads[l].seq = view.seq
        /\ UNCHANGED <<disk, view, opening, flow, changed, news, lost>>
    BY <1>1 DEF LoadReads
  <2>2. PICK r \in Repos : r = loads[l].repo
    BY <2>1, ArrivalShapes DEF ArrivalInv
  <2> DEFINE middle == \E f \in Doing({"checkout"}, {"running", "rewriting"}) : flow[f].repo = loads[l].repo
             read == [at |-> "read", repo |-> loads[l].repo, seq |-> loads[l].seq, by |-> loads[l].by,
                      ver |-> disk[loads[l].repo], era |-> era[loads[l].repo], mid |-> middle]
  <2>10. loads' = [loads EXCEPT ![l] = read]
    BY <1>1 DEF LoadReads
  <2>11. read.at = "read" /\ read.repo = r /\ read.seq = loads[l].seq /\ read.ver = disk[r]
    BY <2>2
  <2> HIDE DEF read, middle
  <2>3. PICK new : /\ loads' = [loads EXCEPT ![l] = new]
                   /\ new.at = "read" /\ new.repo = r /\ new.seq = loads[l].seq /\ new.ver = disk[r]
    BY <2>10, <2>11
  <2>4. loads'[l] = new /\ \A k \in LoadIds \ {l} : loads'[k] = loads[k]
    BY <2>3, ArrivalShapes DEF ArrivalInv
  <2>5. disk[r] \in Nat
    BY ArrivalShapes DEF ArrivalInv
  <2>6. ReadsAreNotAhead'
    BY <2>1, <2>3, <2>4, <2>5 DEF ArrivalInv, ReadsAreNotAhead
  <2>7. UpToDate => UpToDate'
    BY <2>1 DEF UpToDate
  <2>8. CASE r = view.path
    <3>1. /\ loads'[l].at = "read" /\ loads'[l].ver = disk'[view'.path]
          /\ loads'[l].repo = view'.path /\ loads'[l].seq = view'.seq
      BY <2>1, <2>3, <2>4, <2>8
    <3>2. OnItsWay'
      BY <3>1 DEF OnItsWay, IsCurrent
    <3> QED  BY <2>1, <2>6, <3>2 DEF ArrivalInv, ChangesShowUp, Arrives
  <2>9. CASE r # view.path
    <3>1. ~IsCurrent(loads[l])
      BY <2>2, <2>9 DEF IsCurrent
    <3>2. OnItsWay => OnItsWay'
      BY <2>1, <2>4, <3>1 DEF OnItsWay, WillRead, IsCurrent, Doing
    <3> QED  BY <2>1, <2>6, <2>7, <3>2 DEF ArrivalInv, ChangesShowUp, Arrives
  <2> QED  BY <2>8, <2>9
<1>2. CASE LoadLands(l)
  <2>1. /\ loads' = [loads EXCEPT ![l] = Idle]
        /\ UNCHANGED <<disk, opening, flow, changed, news>>
    BY <1>2 DEF LoadLands
  <2>2. loads'[l].at = "idle" /\ \A k \in LoadIds \ {l} : loads'[k] = loads[k]
    BY <2>1, ArrivalShapes DEF ArrivalInv, Idle
  <2>3. ReadsAreNotAhead'
    BY <2>1, <2>2 DEF ArrivalInv, ReadsAreNotAhead
  <2>4. CASE ~IsCurrent(loads[l])
    <3>1. UNCHANGED <<view, lost>>
      BY <1>2, <2>4 DEF LoadLands
    <3>2. OnItsWay => OnItsWay'
      BY <2>1, <2>2, <2>4, <3>1 DEF OnItsWay, WillRead, IsCurrent, Doing
    <3>3. UpToDate => UpToDate'
      BY <2>1, <3>1 DEF UpToDate
    <3> QED  BY <2>3, <3>1, <3>2, <3>3 DEF ArrivalInv, ChangesShowUp, Arrives
  <2>5. CASE IsCurrent(loads[l])
    <3>1. /\ loads[l].at = "read" /\ loads[l].repo = view.path
          /\ view' = [view EXCEPT !.shown = Picture(loads[l])]
          /\ lost' = (lost \/ (view.shown # NoTree /\ loads[l].ver < view.shown.ver))
      BY <1>2, <2>5 DEF LoadLands, IsCurrent
    <3>2. PICK shown : shown = Picture(loads[l])
      OBVIOUS
    <3>3. view'.shown = shown /\ view'.path = view.path /\ view'.seq = view.seq
      BY <3>1, <3>2, ArrivalShapes DEF ArrivalInv, Views
    <3>4. loads[l].ver \in Nat /\ disk[view.path] \in Nat /\ loads[l].ver <= disk[view.path]
      BY <3>1, ArrivalShapes DEF ArrivalInv, ReadsAreNotAhead
    <3>5. shown.ver = loads[l].ver /\ shown # NoTree
      <4>1. loads[l] \in [at : {"read"}, repo : Repos, seq : Nat, by : Nat, ver : Nat, era : Nat, mid : BOOLEAN]
        BY <3>1, ArrivalShapes DEF ArrivalInv, Loads, Idle
      <4>2. Picture(loads[l]) \in Tree
        BY <4>1 DEF Picture, Tree
      <4> QED  BY <3>2, <4>2, NoTreeIsNoPicture DEF Picture
    <3>6. loads[l].ver = disk[view.path] => UpToDate'
      BY <2>1, <3>3, <3>5 DEF UpToDate
    <3>7. OnItsWay /\ loads[l].ver # disk[view.path] => OnItsWay'
      BY <2>1, <2>2, <3>1, <3>3 DEF OnItsWay, WillRead, IsCurrent, Doing
    <3>8. UpToDate /\ loads[l].ver # disk[view.path] => lost'
      <4> SUFFICES ASSUME UpToDate, loads[l].ver # disk[view.path]  PROVE lost'
        OBVIOUS
      <4>1. view.shown # NoTree /\ loads[l].ver < view.shown.ver
        BY <3>4 DEF UpToDate
      <4> QED  BY <3>1, <4>1 DEF ArrivalInv
    <3>9. ~lost' => ~lost
      BY <3>1 DEF ArrivalInv
    <3> QED  BY <2>3, <3>1, <3>6, <3>7, <3>8, <3>9 DEF ArrivalInv, ChangesShowUp, Arrives
  <2> QED  BY <2>4, <2>5
<1>3. CASE ReadFails(l)
  <2>1. lost' = TRUE /\ loads' = [loads EXCEPT ![l] = Idle] /\ disk' = disk
    BY <1>3 DEF ReadFails
  <2>2. loads'[l].at = "idle" /\ \A k \in LoadIds \ {l} : loads'[k] = loads[k]
    BY <2>1, ArrivalShapes DEF ArrivalInv, Idle
  <2> QED  BY <2>1, <2>2 DEF ArrivalInv, ReadsAreNotAhead, ChangesShowUp, Arrives
<1> QED  BY <1>1, <1>2, <1>3

LEMMA ArrivalStep == ArrivalInv /\ ViewInv' /\ [ViewNext]_viewVars => ArrivalInv'
<1> SUFFICES ASSUME ArrivalInv, ViewInv', [ViewNext]_viewVars PROVE Arrives
  BY DEF ArrivalInv, Arrives
<1>1. CASE EditTree
  <2>1. PICK r \in Repos : r = view.path
    BY ArrivalShapes DEF ArrivalInv
  <2>2. Changes(r) /\ UNCHANGED <<view, opening, loads, flow, news>>
    BY <1>1, <2>1 DEF EditTree
  <2> QED  BY <2>1, <2>2, ArrivalEdit DEF Doing
<1>2. CASE UNCHANGED viewVars
  <2>1. UNCHANGED <<disk, view, opening, loads, flow, changed, news, lost>>
    BY <1>2 DEF viewVars
  <2> QED  BY <2>1, NothingIsTaken DEF Doing, Arrives
<1>3. CASE WatchStarts \/ WatchFails
  <2>1. UNCHANGED <<disk, view, opening, loads, flow, changed, news, lost>>
    BY <1>3 DEF WatchStarts, WatchFails, WatchMoves
  <2> QED  BY <2>1, NothingIsTaken DEF Doing, Arrives
<1> QED  BY <1>1, <1>2, <1>3, ArrivalOpen, ArrivalBegin, ArrivalWatch, ArrivalOperation, ArrivalRead DEF ViewNext

(* ChangesShowUp, for any projects, operations and reads: what is on       *)
(* screen is the tree as it is, or what it lacks is on its way, unless one *)
(* of the losses the property names has happened (App.tsx's gate,          *)
(* repoStore's reads and RepoWatcher's announcements).                     *)
THEOREM ChangesAlwaysShowUp == ViewSpec => []ChangesShowUp
<1>1. ViewInit => ArrivalInv
  <2> SUFFICES ASSUME ViewInit PROVE ArrivalInv
    OBVIOUS
  <2>1. opening[view.path] = 1 /\ lost = FALSE
    BY RepoViewConstants DEF ViewInit
  <2>2. \A l \in LoadIds : loads[l].at = "idle"
    BY DEF ViewInit, Idle
  <2>3. WillRead
    BY <2>1 DEF WillRead
  <2> QED  BY <2>1, <2>2, <2>3, ViewInits DEF ArrivalInv, ReadsAreNotAhead, ChangesShowUp, OnItsWay
<1>2. ArrivalInv => ChangesShowUp
  BY DEF ArrivalInv
<1>3. ArrivalInv /\ [ViewNext]_viewVars => ArrivalInv'
  BY ViewStep, ArrivalStep DEF ArrivalInv
<1> QED  BY <1>1, <1>2, <1>3, PTL DEF ViewSpec

(* The watcher's three sets are of projects, and it is on or not.          *)
Watched == lost \in BOOLEAN /\ watch \in {"starting", "on", "failed"} /\ UNION {changed, cooling, news} \subseteq Repos

(* Every field of the store, the watcher and the gate between them keeps   *)
(* its type, however reads, operations and announcements interleave.       *)
THEOREM ViewTypeCorrect == ViewSpec => []ViewTypeOK
<1>1. ViewInit => ViewInv /\ Watched
  BY ViewInits DEF ViewInit, Watched
<1>2. ViewInv /\ ViewInv' /\ Watched /\ [ViewNext]_viewVars => Watched'
  <2> SUFFICES ASSUME ViewInv, ViewInv', Watched, [ViewNext]_viewVars
               PROVE  Watched'
    OBVIOUS
  <2>1. view.path \in Repos /\ \A f \in FlowIds : flow[f].at # "idle" => flow[f].repo \in Repos
    BY ArrivalShapes
  <2>2. lost' \in BOOLEAN
    BY DEF ViewNext, viewVars, OpenRepo, BeginCheckout, BeginRemote, BeginAct, Begin, EditTree, Changes, Notice, Unseen,
      WatchStarts, WatchFails, WatchMoves, Announce, CoolDown, NewsArrives, RefreshAll, Rewrites, Refreshes, FlowEnds, FlowFails, RepoOpened, LoadReads, LoadLands, ReadFails, Watched
  <2>3. \A r \in Repos : Changes(r) => changed' \subseteq Repos
    BY DEF Changes, Notice, Watched
  <2>5. watch' \in {"starting", "on", "failed"}
    BY DEF ViewNext, viewVars, OpenRepo, BeginCheckout, BeginRemote, BeginAct, Begin, EditTree, Announce, WatchStarts,
      WatchFails, WatchMoves, CoolDown, NewsArrives, Rewrites, Refreshes, FlowEnds, FlowFails, RepoOpened, LoadReads,
      LoadLands, ReadFails, Watched
  <2>4. changed' \subseteq Repos /\ cooling' \subseteq Repos /\ news' \subseteq Repos
    BY <2>1, <2>3 DEF ViewNext, viewVars, OpenRepo, BeginCheckout, BeginRemote, BeginAct, Begin, EditTree, Announce,
      WatchStarts, WatchFails, WatchMoves, CoolDown, NewsArrives, Rewrites, Refreshes, FlowEnds, FlowFails, RepoOpened, LoadReads, LoadLands, ReadFails,
      Watched
  <2> QED  BY <2>2, <2>4, <2>5 DEF Watched
<1>3. ViewInv /\ Watched => ViewTypeOK
  <2> SUFFICES ASSUME ViewInv, Watched  PROVE ViewTypeOK  OBVIOUS
  <2>1. view \in Views /\ loads \in [LoadIds -> Loads] /\ flow \in [FlowIds -> Operations] /\ disk \in [Repos -> Nat]
    BY DEF ViewInv, ViewShapes
  <2>2. \A l \in LoadIds : loads[l].at \in {"idle", "asked", "read"}
    BY <2>1 DEF Loads, Idle
  <2>3. \A f \in FlowIds : flow[f].at \in {"idle", "running", "rewriting", "settled", "refreshing"}
    BY <2>1 DEF Operations, Idle
  <2> QED  BY <2>1, <2>2, <2>3 DEF Views, Watched, ViewTypeOK
<1> QED  BY <1>1, <1>2, <1>3, ViewStep, PTL DEF ViewSpec

------------------------------------------------------------------------------
(* Of GraphLayout.                                                         *)

AwaitsItsParent ==
  \A row \in DOMAIN laneOf :
    parentsOf[row] # <<>> /\ Len(laneOf) < parentsOf[row][1] =>
      laneOf[row] \in DOMAIN activeLanes /\ activeLanes[laneOf[row]] = parentsOf[row][1]

LaneInv ==
  /\ GraphTypeOK
  /\ Len(parentsOf) = Len(laneOf)
  /\ AwaitsItsParent
  /\ FirstParentLinesAreClear

Slots == 1 .. Window + Beyond \cup {NoCommit}

\* A set of numbers that is not empty has a least one, which Min returns.
LEMMA LeastNatural ==
  ASSUME NEW T \in SUBSET Nat, T # {}
  PROVE  Min(T) \in T
<1> DEFINE Below == {pair \in Nat \X Nat : pair[1] < pair[2]}
<1>1. IsWellFoundedOn(Below, Nat)
  BY NatLessThanWellFounded DEF OpToRel
<1> HIDE DEF Below
<1>2. PICK x \in T : \A y \in T : ~(<<y, x>> \in Below)
  BY <1>1, WFMin
<1>3. ASSUME NEW y \in T PROVE x =< y
  <2>1. x \in Nat /\ y \in Nat
    OBVIOUS
  <2>2. ~(y < x)
    BY <1>2, <2>1 DEF Below
  <2> QED BY <2>1, <2>2
<1> QED BY <1>3 DEF Min

\* findFreeLane returns a lane that waits for nothing, or the next new one.
LEMMA FreeLaneIsFree ==
  ASSUME NEW lanes \in Seq(Slots)
  PROVE  FindFreeLane(lanes) \in FreeLanes(lanes)
<1>1. Len(lanes) + 1 \in FreeLanes(lanes) /\ FreeLanes(lanes) \subseteq Nat
  BY DEF FreeLanes
<1> QED BY <1>1, LeastNatural DEF FindFreeLane

\* Giving a lane to a commit, or freeing it, touches no other lane.
LEMMA HoldTouchesOneLane ==
  ASSUME NEW lanes \in Seq(Slots), NEW lane \in 1 .. Len(lanes) + 1, NEW commit \in Slots
  PROVE  /\ Hold(lanes, lane, commit) \in Seq(Slots)
         /\ lane \in DOMAIN Hold(lanes, lane, commit) /\ Hold(lanes, lane, commit)[lane] = commit
         /\ \A i \in DOMAIN lanes :
              i # lane => i \in DOMAIN Hold(lanes, lane, commit) /\ Hold(lanes, lane, commit)[i] = lanes[i]
<1>1. CASE lane > Len(lanes)
  BY <1>1 DEF Hold
<1>2. CASE lane =< Len(lanes)
  BY <1>2 DEF Hold
<1> QED BY <1>1, <1>2

\* A further parent takes a free lane, so that the lanes in use keep what they wait for.
LEMMA TrackTouchesFreeLanes ==
  ASSUME NEW lanes \in Seq(Slots), NEW parent \in 1 .. Window + Beyond
  PROVE  /\ Track(lanes, parent) \in Seq(Slots)
         /\ \A i \in DOMAIN lanes : lanes[i] # NoCommit =>
              i \in DOMAIN Track(lanes, parent) /\ Track(lanes, parent)[i] = lanes[i]
<1>1. parent \in Slots
  BY DEF Slots
<1>2. FindFreeLane(lanes) \in 1 .. Len(lanes) + 1
  BY FreeLaneIsFree DEF FreeLanes
<1>3. \A i \in DOMAIN lanes : lanes[i] # NoCommit => i # FindFreeLane(lanes)
  BY FreeLaneIsFree DEF FreeLanes
<1> QED BY <1>1, <1>2, <1>3, HoldTouchesOneLane DEF Track

LEMMA LaneInit == GraphInit => LaneInv
BY DEF GraphInit, LaneInv, GraphTypeOK, AwaitsItsParent, FirstParentLinesAreClear

LEMMA LaneStep == LaneInv /\ [GraphNext]_graphVars => LaneInv'
<1> SUFFICES ASSUME LaneInv, [GraphNext]_graphVars PROVE LaneInv'
  OBVIOUS
<1> USE GraphConstants DEF GraphConstants
<1>1. CASE UNCHANGED graphVars
  BY <1>1 DEF graphVars, LaneInv, GraphTypeOK, AwaitsItsParent, FirstParentLinesAreClear
<1>2. CASE GraphNext
  <2> DEFINE row == Len(laneOf) + 1
             held == {i \in DOMAIN activeLanes : activeLanes[i] = row}
             lane == IF held # {} THEN Min(held) ELSE FindFreeLane(activeLanes)
  <2>1. PICK n \in 0 .. 2 : \E parents \in [1 .. n -> Len(laneOf) + 2 .. Window + Beyond] : PlaceCommit(parents)
    BY <1>2 DEF GraphNext
  <2>2. PICK parents \in [1 .. n -> Len(laneOf) + 2 .. Window + Beyond] : PlaceCommit(parents)
    BY <2>1
  <2> DEFINE awaited == IF parents = <<>> THEN NoCommit ELSE parents[1]
             taken == Hold(activeLanes, lane, awaited)
  <2>3. /\ laneOf \in Seq(Nat) /\ parentsOf \in Seq(Seq(Nat)) /\ activeLanes \in Seq(Slots)
        /\ Len(parentsOf) = Len(laneOf) /\ row \in Nat /\ row # NoCommit /\ Len(laneOf) < Window
    BY <1>2 DEF LaneInv, GraphTypeOK, Slots, GraphNext
  <2>4. /\ parents \in Seq(Nat) /\ Len(parents) = n
        /\ \A i \in 1 .. n : parents[i] \in 1 .. Window + Beyond /\ parents[i] > row
    BY <2>2, <2>3
  <2>5. /\ parentsOf' = Append(parentsOf, parents) /\ laneOf' = Append(laneOf, lane)
        /\ activeLanes' = IF Len(parents) = 2 THEN Track(taken, parents[2]) ELSE taken
    BY <2>2 DEF PlaceCommit
  \* The lane taken waits for this commit, or for nothing.
  <2>6. /\ lane \in 1 .. Len(activeLanes) + 1
        /\ lane \in DOMAIN activeLanes => activeLanes[lane] \in {row, NoCommit}
    <3>1. CASE held # {}
      <4>1. held \in SUBSET Nat
        BY <2>3
      <4>2. Min(held) \in held /\ lane = Min(held)
        BY <3>1, <4>1, LeastNatural
      <4> QED BY <2>3, <4>2
    <3>2. CASE held = {}
      BY <2>3, <3>2, FreeLaneIsFree DEF FreeLanes
    <3> QED BY <3>1, <3>2
  <2> HIDE DEF lane
  <2>7. /\ taken \in Seq(Slots) /\ lane \in DOMAIN taken
        /\ taken[lane] = awaited
        /\ \A i \in DOMAIN activeLanes : i # lane => i \in DOMAIN taken /\ taken[i] = activeLanes[i]
    <3>1. awaited \in Slots
      BY <2>4 DEF Slots
    <3> HIDE DEF awaited
    <3> QED BY <2>3, <2>6, <3>1, HoldTouchesOneLane
  <2> HIDE DEF taken
  <2>8. /\ activeLanes' \in Seq(Slots)
        /\ \A i \in DOMAIN taken : taken[i] # NoCommit => i \in DOMAIN activeLanes' /\ activeLanes'[i] = taken[i]
    <3>1. CASE Len(parents) = 2
      BY <2>4, <2>5, <2>7, <3>1, TrackTouchesFreeLanes
    <3>2. CASE Len(parents) # 2
      BY <2>5, <2>7, <3>2
    <3> QED BY <3>1, <3>2
  \* A commit placed before, whose first parent is this one or still to come.
  <2>9. ASSUME NEW q \in DOMAIN laneOf, parentsOf[q] # <<>>, row < parentsOf[q][1]
        PROVE  /\ laneOf[q] \in DOMAIN activeLanes /\ activeLanes[laneOf[q]] = parentsOf[q][1]
               /\ laneOf[q] # lane /\ parentsOf[q][1] \in Nat
    <3>1. parentsOf[q] \in Seq(Nat) /\ parentsOf[q][1] \in Nat
      <4>1. q \in 1 .. Len(parentsOf)
        BY <2>3
      <4>2. parentsOf[q] \in Seq(Nat)
        BY <2>3, <4>1
      <4>3. Len(parentsOf[q]) > 0
        BY <2>9, <4>2
      <4> QED BY <4>2, <4>3
    <3>2. laneOf[q] \in DOMAIN activeLanes /\ activeLanes[laneOf[q]] = parentsOf[q][1]
      <4>1. Len(laneOf) < parentsOf[q][1]
        BY <2>3, <2>9, <3>1
      <4> QED BY <2>9, <4>1 DEF LaneInv, AwaitsItsParent
    <3>3. parentsOf[q][1] # row
      BY <2>3, <2>9, <3>1
    <3>4. parentsOf[q][1] # NoCommit
      BY <3>1 DEF GraphConstants
    <3> QED BY <2>6, <3>1, <3>2, <3>3, <3>4
  <2>10. (GraphTypeOK /\ Len(parentsOf) = Len(laneOf))'
    BY <2>3, <2>4, <2>5, <2>6, <2>8 DEF GraphTypeOK, Slots
  <2>11. AwaitsItsParent'
    <3> SUFFICES ASSUME NEW q \in DOMAIN laneOf', parentsOf'[q] # <<>>, Len(laneOf') < parentsOf'[q][1]
                 PROVE  laneOf'[q] \in DOMAIN activeLanes' /\ activeLanes'[laneOf'[q]] = parentsOf'[q][1]
      BY DEF AwaitsItsParent
    <3>1. CASE q = row
      <4>1. parentsOf'[q] = parents /\ laneOf'[q] = lane
        BY <2>3, <2>4, <2>5, <2>6, <3>1
      <4>2. taken[lane] = parents[1] /\ taken[lane] # NoCommit
        BY <2>4, <2>7, <4>1
      <4> QED BY <2>7, <2>8, <4>1, <4>2
    <3>2. CASE q \in DOMAIN laneOf
      <4>1. parentsOf'[q] = parentsOf[q] /\ laneOf'[q] = laneOf[q] /\ Len(laneOf') = row
        BY <2>3, <2>4, <2>5, <2>6, <3>2
      <4>2. /\ laneOf[q] \in DOMAIN activeLanes /\ activeLanes[laneOf[q]] = parentsOf[q][1]
            /\ laneOf[q] # lane /\ parentsOf[q][1] \in Nat
        BY <2>9, <3>2, <4>1
      <4> QED BY <2>7, <2>8, <4>1, <4>2
    <3>3. q = row \/ q \in DOMAIN laneOf
      BY <2>3, <2>5, <2>6
    <3> QED BY <3>1, <3>2, <3>3
  <2>12. FirstParentLinesAreClear'
    <3> SUFFICES ASSUME NEW q \in DOMAIN laneOf', parentsOf'[q] # <<>>,
                        NEW k \in q + 1 .. Len(laneOf'), k < parentsOf'[q][1]
                 PROVE  laneOf'[k] # laneOf'[q]
      BY DEF FirstParentLinesAreClear
    <3>1. q \in DOMAIN laneOf /\ parentsOf'[q] = parentsOf[q] /\ laneOf'[q] = laneOf[q] /\ Len(laneOf') = row
      <4>1. Len(laneOf') = row /\ DOMAIN laneOf' = 1 .. row
        BY <2>3, <2>5, <2>6
      <4>2. q \in 1 .. row /\ q < row
        BY <2>3, <4>1
      <4>3. q \in 1 .. Len(laneOf) /\ q \in 1 .. Len(parentsOf)
        BY <2>3, <4>2
      <4> QED BY <2>3, <2>4, <2>5, <2>6, <4>1, <4>3
    <3>2. CASE k = row
      <4>1. laneOf'[k] = lane
        BY <2>3, <2>5, <2>6, <3>2
      <4> QED BY <2>9, <3>1, <3>2, <4>1
    <3>3. CASE k # row
      <4>1. k \in q + 1 .. Len(laneOf)
        <5>1. PICK len \in Nat : len = Len(laneOf) /\ row = len + 1 /\ q \in 1 .. len
          BY <2>3, <3>1
        <5>2. k \in q + 1 .. len + 1 /\ k # len + 1
          BY <3>1, <3>3, <5>1
        <5>3. k \in q + 1 .. len
          BY <5>1, <5>2
        <5> QED BY <5>1, <5>3
      <4>2. laneOf'[k] = laneOf[k]
        BY <2>3, <2>5, <2>6, <3>1, <4>1
      <4> QED BY <3>1, <4>1, <4>2 DEF LaneInv, FirstParentLinesAreClear
    <3> QED BY <3>2, <3>3
  <2> QED BY <2>10, <2>11, <2>12 DEF LaneInv
<1> QED BY <1>1, <1>2

\* The line drawn from a commit down its lane to its first parent meets no other
\* commit, however many are loaded: computeGraphLayout keeps the lane for the parent.
THEOREM LinesAreClear == GraphSpec => []FirstParentLinesAreClear
<1>1. LaneInv => FirstParentLinesAreClear
  BY DEF LaneInv
<1> QED BY <1>1, LaneInit, LaneStep, PTL DEF GraphSpec

\* The lanes hold commits that are loaded or beyond, or nothing.
THEOREM GraphTypeCorrect == GraphSpec => []GraphTypeOK
<1>1. LaneInv => GraphTypeOK
  BY DEF LaneInv
<1> QED BY <1>1, LaneInit, LaneStep, PTL DEF GraphSpec

==============================================================================
