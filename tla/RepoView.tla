------------------------------- MODULE RepoView -------------------------------
(***************************************************************************)
(* What the working tree on screen is a picture of: repoStore.ts, its      *)
(* operations and its reads, RepoWatcher.cs, and the gate between them in  *)
(* App.tsx and repoRefreshGate.ts.                                         *)
(*                                                                         *)
(* A tree is a version number, one more for every change.  Of the seven    *)
(* reads of refreshAll the one of the status is modelled, the others only  *)
(* take time.  An event is on its way until it is handled; two of one      *)
(* repository on their way at once count as one.                           *)
(***************************************************************************)
EXTENDS Naturals, FiniteSets

CONSTANTS
  Repos, FirstRepo, NoTree,
  MaxLoads, MaxFlows, MaxViewOps  \* bounds: reads in flight, operations, what the user
                                  \* does and what fails

ASSUME RepoViewConstants == FirstRepo \in Repos

VARIABLES
  disk,     \* the version of each working tree
  view,     \* repoStore: path, seq, checking, remoteOp and the tree shown
  opening,  \* answers of is_git_repo on their way, by repository
  loads,    \* refreshStatus in flight
  flow,     \* the operations the user started
  watch,    \* RepoWatcher: the watch of the open project: "starting", "on" or "failed"
  changed,  \* RepoWatcher: a change it has seen and not announced yet
  cooling,  \* RepoWatcher: less than 400 ms since the last announcement
  news,     \* repo:fs-changed events on their way
  lost,     \* history: what the screen lacks may not be on its way
  era,      \* history: the checkouts begun in each repository
  entangled,  \* history: a project was opened, or an operation begun, during a checkout
  viewOps

viewVars == <<disk, view, opening, loads, flow, watch, changed, cooling, news, lost, era, entangled, viewOps>>

FlowIds == 1 .. MaxFlows
LoadIds == 1 .. MaxLoads
FlowKinds == {"checkout", "pull", "fetch", "act"}
Tree == [repo : Repos, ver : Nat, mid : BOOLEAN, era : Nat]   \* mid: read during a checkout
Idle == [at |-> "idle"]

ASSUME NoTreeIsNoPicture == NoTree \notin Tree

ViewTypeOK ==
  /\ disk \in [Repos -> Nat] /\ UNION {changed, cooling, news} \subseteq Repos /\ lost \in BOOLEAN
  /\ watch \in {"starting", "on", "failed"}
  /\ view.path \in Repos /\ view.seq \in Nat
  /\ view.checking \in BOOLEAN /\ view.remoteOp \in BOOLEAN
  /\ view.shown \in Tree \cup {NoTree}
  /\ \A l \in LoadIds : loads[l].at \in {"idle", "asked", "read"}
  /\ \A f \in FlowIds : flow[f].at \in {"idle", "running", "rewriting", "settled", "refreshing"}

ViewInit ==
  /\ disk = [r \in Repos |-> 0]
  /\ view = [path |-> FirstRepo, seq |-> 0, checking |-> FALSE, remoteOp |-> FALSE, shown |-> NoTree]
  /\ opening = [r \in Repos |-> IF r = FirstRepo THEN 1 ELSE 0]
  /\ loads = [l \in LoadIds |-> Idle] /\ flow = [f \in FlowIds |-> Idle]
  /\ watch = "starting" /\ changed = {} /\ cooling = {} /\ news = {} /\ lost = FALSE
  /\ era = [r \in Repos |-> 0] /\ entangled = FALSE /\ viewOps = 0

Doing(kinds, steps) == {f \in FlowIds : flow[f].at \in steps /\ flow[f].kind \in kinds}
InProgress(kinds) == Doing(kinds, {"running", "rewriting", "settled", "refreshing"})
IsCurrent(load) == load.repo = view.path /\ load.seq = view.seq

\* A read of the open project that has not begun: what has changed by now it shows.
WillRead ==
  \/ opening[view.path] > 0
  \/ \E l \in LoadIds : loads[l].at = "asked" /\ IsCurrent(loads[l])
  \/ Doing(FlowKinds \ {"fetch"}, {"running", "rewriting", "settled"}) # {}

\* refreshAll; by: the operation that awaits it, 0 if none does.
RefreshAll(by) ==
  \E l \in LoadIds :
    /\ loads[l].at = "idle" /\ \A k \in 1 .. l - 1 : loads[k].at # "idle"
    /\ loads' = [loads EXCEPT ![l] = [at |-> "asked", repo |-> view.path, seq |-> view.seq, by |-> by]]
    /\ lost' = FALSE

(* ------------------------------- the user -------------------------------- *)

\* App.tsx: the store follows the selected project; that it be watched is asked for
\* in a call of its own, which nobody awaits.
OpenRepo(r) ==
  /\ r # view.path
  /\ view' = [view EXCEPT !.path = r, !.shown = NoTree]
  /\ opening' = [opening EXCEPT ![r] = @ + 1]
  /\ watch' = "starting" /\ changed' = {} /\ cooling' = {} /\ lost' = FALSE
  /\ entangled' = (entangled \/ InProgress({"checkout"}) # {})
  /\ UNCHANGED <<disk, loads, flow, news, era>>

Begin(kind) ==
  /\ kind \in {"pull", "fetch"} => ~view.remoteOp
  /\ \E f \in FlowIds :
       /\ flow[f].at = "idle" /\ \A g \in 1 .. f - 1 : flow[g].at # "idle"
       /\ flow' = [flow EXCEPT ![f] = [at |-> "running", kind |-> kind, repo |-> view.path]]
  /\ entangled' = \/ entangled \/ InProgress({"checkout"}) # {}
                  \/ (kind = "checkout" /\ (InProgress(FlowKinds) # {} \/ \E r \in Repos : opening[r] > 0))
  /\ UNCHANGED <<disk, opening, loads, watch, changed, cooling, news, lost>>

BeginCheckout == /\ Begin("checkout")
                 /\ view' = [view EXCEPT !.checking = TRUE, !.seq = @ + 1, !.shown = NoTree]
                 /\ era' = [era EXCEPT ![view.path] = @ + 1]
BeginRemote(kind) == Begin(kind) /\ view' = [view EXCEPT !.remoteOp = TRUE] /\ UNCHANGED era
BeginAct == Begin("act") /\ UNCHANGED <<view, era>>

(* ------------------------- the trees and the watcher --------------------- *)

\* The watch is on, or cannot be: an error is shown, and nothing is tried again.
WatchMoves(to) ==
  /\ watch = "starting" /\ watch' = to
  /\ UNCHANGED <<disk, view, opening, loads, flow, changed, cooling, news, lost, era, entangled>>
WatchStarts == WatchMoves("on")
WatchFails == WatchMoves("failed")

\* What no watch sees is on screen if it is read yet.
Unseen(r) == lost' = (lost \/ (r = view.path /\ watch # "on" /\ ~WillRead))
Seen(r) == r = view.path /\ watch = "on"

\* Faulty variant: within 400 ms of an announcement a change is dropped.
NoticeAtOnce(r) ==
  /\ changed' = IF Seen(r) /\ r \notin cooling THEN changed \cup {r} ELSE changed
  /\ Unseen(r)
Notice(r) == changed' = (IF Seen(r) THEN changed \cup {r} ELSE changed) /\ Unseen(r)
Changes(r) == disk' = [disk EXCEPT ![r] = @ + 1] /\ Notice(r)

\* An editor, a terminal, an agent; in the project that is open.
EditTree ==
  /\ Changes(view.path)
  /\ UNCHANGED <<view, opening, loads, flow, watch, cooling, news, era, entangled>>

Announce(r) ==
  /\ r \in changed \ cooling
  /\ changed' = changed \ {r} /\ cooling' = cooling \cup {r} /\ news' = news \cup {r}
  /\ UNCHANGED <<disk, view, opening, loads, flow, watch, lost, era, entangled>>

CoolDown(r) ==
  /\ r \in cooling /\ cooling' = cooling \ {r}
  /\ UNCHANGED <<disk, view, opening, loads, flow, watch, changed, news, lost, era, entangled>>

\* Faulty variant: only a remote operation closes the gate.
MayRefreshInCheckout == ~view.remoteOp
WatcherMayRefresh == ~view.checking /\ ~view.remoteOp

NewsArrives(r) ==
  /\ r \in news /\ news' = news \ {r}
  /\ \/ r = view.path /\ WatcherMayRefresh /\ RefreshAll(0)
     \/ r = view.path /\ ~WatcherMayRefresh /\ UNCHANGED loads
        /\ lost' = (lost \/ ~WillRead)
     \/ r # view.path /\ UNCHANGED <<loads, lost>>
  /\ UNCHANGED <<disk, view, opening, flow, watch, changed, cooling, era, entangled>>

(* ------------------------------ operations ------------------------------- *)

At(f, from, to) == flow[f].at = from /\ flow' = [flow EXCEPT ![f].at = to]

\* A rewrite is a burst of changes: the first one, and the last.
Rewrites(f) ==
  /\ flow[f].at # "idle" /\ flow[f].kind # "fetch"
  /\ At(f, "running", "rewriting") \/ At(f, "rewriting", "settled")
  /\ Changes(flow[f].repo)
  /\ UNCHANGED <<view, opening, loads, watch, cooling, news, era, entangled>>

\* The command returns, and the store reads whatever project is open by now.  A
\* dialog that is cancelled ends a checkout the same way, with nothing rewritten;
\* fetch, and push, read no working tree.
Refreshes(f) ==
  /\ \/ At(f, "settled", "refreshing") /\ RefreshAll(f)
     \/ flow[f].at = "running" /\ flow[f].kind = "checkout" /\ At(f, "running", "refreshing")
        /\ RefreshAll(f)
     \/ flow[f].at = "running" /\ flow[f].kind = "fetch" /\ At(f, "running", "refreshing")
        /\ UNCHANGED <<loads, lost>>
  /\ UNCHANGED <<disk, view, opening, watch, changed, cooling, news, era, entangled>>

\* The finally blocks of checkoutGuarded, pull and fetch, whoever else is at it.
Ended(f) ==
  view' = [view EXCEPT !.checking = @ /\ flow[f].kind # "checkout",
                       !.remoteOp = @ /\ flow[f].kind \notin {"pull", "fetch"}]

FlowEnds(f) ==
  /\ flow[f].at = "refreshing" /\ ~\E l \in LoadIds : loads[l].at # "idle" /\ loads[l].by = f
  /\ Ended(f) /\ flow' = [flow EXCEPT ![f] = Idle]
  /\ UNCHANGED <<disk, opening, loads, watch, changed, cooling, news, lost, era, entangled>>

\* Nothing is read again after a failure.
FlowFails(f) ==
  /\ flow[f].at \in {"running", "rewriting"}
  /\ Ended(f) /\ flow' = [flow EXCEPT ![f] = Idle] /\ lost' = TRUE
  /\ UNCHANGED <<disk, opening, loads, watch, changed, cooling, news, era, entangled>>

(* -------------------------------- reads ---------------------------------- *)

RepoOpened(r) ==
  /\ opening[r] > 0 /\ opening' = [opening EXCEPT ![r] = @ - 1]
  /\ IF r = view.path THEN RefreshAll(0) ELSE UNCHANGED <<loads, lost>>
  /\ UNCHANGED <<disk, view, flow, watch, changed, cooling, news, era, entangled>>

LoadReads(l) ==
  /\ loads[l].at = "asked" /\ loads[l].seq = view.seq
  /\ LET r == loads[l].repo
     IN  loads' = [loads EXCEPT ![l] =
           [at |-> "read", repo |-> r, seq |-> loads[l].seq, by |-> loads[l].by,
            ver |-> disk[r], era |-> era[r],
            mid |-> \E f \in Doing({"checkout"}, {"running", "rewriting"}) : flow[f].repo = r]]
  /\ UNCHANGED <<disk, view, opening, flow, watch, changed, cooling, news, lost, era, entangled>>

Picture(load) == [repo |-> load.repo, ver |-> load.ver, mid |-> load.mid, era |-> load.era]

\* Faulty variant: only the project is compared.
LoadLandsHere(l) ==
  /\ loads[l].at = "read" /\ loads' = [loads EXCEPT ![l] = Idle]
  /\ view' = IF loads[l].repo = view.path
             THEN [view EXCEPT !.shown = Picture(loads[l])] ELSE view
  /\ UNCHANGED <<disk, opening, flow, watch, changed, cooling, news, lost, era, entangled>>
\* What was read for a generation that is over makes no difference.
LoadLands(l) ==
  /\ loads[l].at = "read" \/ (loads[l].at = "asked" /\ loads[l].seq # view.seq)
  /\ loads' = [loads EXCEPT ![l] = Idle]
  /\ IF IsCurrent(loads[l])
     THEN /\ view' = [view EXCEPT !.shown = Picture(loads[l])]
          /\ lost' = (lost \/ (view.shown # NoTree /\ loads[l].ver < view.shown.ver))
     ELSE UNCHANGED <<view, lost>>
  /\ UNCHANGED <<disk, opening, flow, watch, changed, cooling, news, era, entangled>>

\* Failed twice, 300 ms apart.
ReadFails(l) ==
  /\ loads[l].at = "asked" /\ loads' = [loads EXCEPT ![l] = Idle] /\ lost' = TRUE
  /\ UNCHANGED <<disk, view, opening, flow, watch, changed, cooling, news, era, entangled>>

ViewNext ==
  \/ /\ viewOps < MaxViewOps /\ viewOps' = viewOps + 1
     /\ \/ \E r \in Repos : OpenRepo(r)
        \/ WatchFails \/ EditTree \/ BeginCheckout \/ BeginRemote("pull") \/ BeginRemote("fetch") \/ BeginAct
        \/ \E f \in FlowIds : FlowFails(f)
        \/ \E l \in LoadIds : ReadFails(l)
  \/ /\ UNCHANGED viewOps
     /\ \/ WatchStarts
        \/ \E r \in Repos : Announce(r) \/ CoolDown(r) \/ NewsArrives(r) \/ RepoOpened(r)
        \/ \E f \in FlowIds : Rewrites(f) \/ Refreshes(f) \/ FlowEnds(f)
        \/ \E l \in LoadIds : LoadReads(l) \/ LoadLands(l)

ViewSpec == ViewInit /\ [][ViewNext]_viewVars

(* ------------------------------- properties ------------------------------ *)

\* The flicker: what is on screen was read after the last checkout of its
\* repository began, and not while it was rewriting the tree.  The latter is only
\* kept while nothing else is begun during a checkout: a project opened, or a
\* second operation, reads the tree whatever the gate says, in the generation the
\* checkout started.
TheTreeLeftStaysGone ==
  view.shown # NoTree =>
    view.shown.era = era[view.shown.repo] /\ (view.shown.mid => entangled)

UpToDate == view.shown # NoTree /\ view.shown.ver = disk[view.path]
OnItsWay ==
  \/ WillRead \/ view.path \in changed \cup news
  \/ \E l \in LoadIds : loads[l].at = "read" /\ IsCurrent(loads[l]) /\ loads[l].ver = disk[view.path]

\* What is on screen is the tree as it is, or the change it lacks is on its way.
\* Excepted are a read, or an operation, that failed; two reads of one generation
\* answered out of order; an event that comes during an operation which reads no
\* working tree any more: fetch and push read none, and the others only once; and a
\* change that nothing is to read any more and that no watch saw, as the watch of
\* the project was not on yet or could not be started.
ChangesShowUp == ~lost => UpToDate \/ OnItsWay
==============================================================================
