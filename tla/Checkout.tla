------------------------------ MODULE Checkout ------------------------------
(***************************************************************************)
(* Uncommitted work across checkouts: the working trees and stash lists    *)
(* that Git/Branches.cs and Git/Stash.cs act on, and the flow of           *)
(* repoStore's checkoutGuarded that carries blocked work over to another   *)
(* branch or parks it.  The user goes on working, from the sidebar, the    *)
(* editor and the command line, while the flow runs, and may open another  *)
(* project.                                                                *)
(*                                                                         *)
(* Each command of the core is one step: two that overlap within one       *)
(* repository are not modelled, nor are merges and resets to a commit.     *)
(***************************************************************************)
EXTENDS Naturals, SequencesExt

CONSTANTS Repos, Branches, Flows, NoRepo,
          Works,       \* pieces of uncommitted content
          Home,        \* Home[w]: the repository of the file that w is about
          Colliding,   \* the works on a file that differs between branches
          Has,         \* Has[b]: the works whose content branch b has already
          MaxStashes   \* bound: stash entries ever made

ASSUME WorksAssumption ==
  /\ Colliding \subseteq Works /\ Has \in [Branches -> SUBSET Works]
  /\ Home \in [Works -> Repos]
  /\ NoRepo \notin Repos /\ MaxStashes \in Nat

VARIABLES
  head,     \* the branch checked out
  work,     \* the works in the working tree
  marked,   \* those a conflicting apply brought, until they are resolved
  stash,    \* the stash list, newest first
  oids,     \* stash commits made
  made,     \* every work there has been
  settled,  \* those committed, or given up by the user
  aside,    \* stash commits the flow made and no click has removed
  open,     \* the project on screen (repoPath)
  flow,     \* each run of checkoutGuarded
  asked     \* the one whose question the dialog shows (confirmStore's request)

tree == <<head, work, marked>>
repoVars == <<tree, stash, oids, made, settled, aside>>
vars == <<repoVars, open, flow, asked>>

Idle == [pc |-> "idle", repo |-> NoRepo, to |-> "none", carry |-> FALSE]

Init ==
  /\ head \in [Repos -> Branches]
  /\ work = [r \in Repos |-> {}] /\ marked = [r \in Repos |-> {}]
  /\ stash = [r \in Repos |-> <<>>]
  /\ oids = 0 /\ made = {} /\ settled = {} /\ aside = {}
  /\ open \in Repos /\ flow = [f \in Flows |-> Idle] /\ asked = {}

-----------------------------------------------------------------------------
(* The repository: what the core's commands do to it. *)

(* A safe checkout refuses to overwrite uncommitted content. *)
Blocked(r, b) == marked[r] # {} \/ (work[r] \ Has[b]) \cap Colliding # {}

CheckoutTree(r, b) ==
  /\ head' = [head EXCEPT ![r] = b]
  /\ work' = [work EXCEPT ![r] = @ \ Has[b]]
  /\ UNCHANGED marked

(* Stash.Save takes everything, untracked files included; of a clean tree  *)
(* it makes nothing.                                                       *)
Save(r) ==
  /\ oids < MaxStashes /\ marked[r] = {}
  /\ \/ /\ work[r] # {}
        /\ stash' = [stash EXCEPT ![r] = Cons([oid |-> oids + 1, works |-> work[r]], @)]
        /\ oids' = oids + 1
        /\ work' = [work EXCEPT ![r] = {}]
     \/ work[r] = {} /\ UNCHANGED <<stash, oids, work>>

(* Stash.Apply and its outcome. *)
ApplyTo(r, i, outcome) ==
  LET entry == stash[r][i].works IN
  \/ /\ outcome = "applied" /\ i <= Len(stash[r]) /\ marked[r] = {}
     /\ work' = [work EXCEPT ![r] = @ \cup (entry \ Has[head[r]])]
     /\ UNCHANGED marked
  \/ /\ outcome = "conflicts" /\ i <= Len(stash[r]) /\ entry \cap Colliding # {}
     /\ work' = [work EXCEPT ![r] = @ \cup entry]
     /\ marked' = [marked EXCEPT ![r] = @ \cup entry]
  \/ /\ outcome = "refused" /\ (i > Len(stash[r]) \/ work[r] # {})
     /\ UNCHANGED <<work, marked>>

Outcomes == {"applied", "conflicts", "refused"}

DropEntry(r, i) ==
  /\ stash' = [stash EXCEPT ![r] = RemoveAt(@, i)]
  /\ aside' = aside \ {stash[r][i].oid}

(* Faulty variant: the library's Pop, which drops what it could not apply. *)
PopAnyway(r, i) ==
  /\ i <= Len(stash[r])
  /\ \E outcome \in Outcomes : ApplyTo(r, i, outcome)
  /\ DropEntry(r, i)
  /\ UNCHANGED <<head, oids, made, settled, open, flow, asked>>

(* Stash.Pop: dropped only after a clean apply. *)
Pop(r, i) ==
  /\ i <= Len(stash[r])
  /\ \E outcome \in Outcomes :
       /\ ApplyTo(r, i, outcome)
       /\ \/ outcome = "applied" /\ DropEntry(r, i)
          \/ outcome # "applied" /\ UNCHANGED <<stash, aside>>
  /\ UNCHANGED <<head, oids, made, settled, open, flow, asked>>

-----------------------------------------------------------------------------
(* The user, on the open project or on one left a moment ago.  A sidebar   *)
(* click names an entry by the index it had when the list was last read,   *)
(* so any index may arrive.                                                *)

Apply(r, i) ==
  /\ i <= Len(stash[r])
  /\ \E outcome \in Outcomes : ApplyTo(r, i, outcome)
  /\ UNCHANGED <<head, stash, oids, made, settled, aside, open, flow, asked>>

Drop(r, i) ==
  /\ i <= Len(stash[r])
  /\ DropEntry(r, i)
  /\ settled' = settled \cup stash[r][i].works
  /\ UNCHANGED <<tree, oids, made, open, flow, asked>>

(* Stash.Rename drops the entry and appends its commit anew: it surfaces. *)
Rename(r, i) ==
  /\ i \in 2..Len(stash[r])
  /\ stash' = [stash EXCEPT ![r] = Cons(@[i], RemoveAt(@, i))]
  /\ UNCHANGED <<tree, oids, made, settled, aside, open, flow, asked>>

StashSave(r) ==
  /\ work[r] # {} /\ Save(r)
  /\ UNCHANGED <<head, marked, made, settled, aside, open, flow, asked>>

(* An edit by hand or by an agent; a commit; the conflicts resolved. *)
Edit(r, w) ==
  /\ Home[w] = r
  /\ w \in Works \ (made \cup Has[head[r]])
  /\ work' = [work EXCEPT ![r] = @ \cup {w}] /\ made' = made \cup {w}
  /\ UNCHANGED <<head, marked, stash, oids, settled, aside, open, flow, asked>>

Commit(r) ==
  /\ work[r] # {} /\ marked[r] = {}
  /\ settled' = settled \cup work[r]
  /\ work' = [work EXCEPT ![r] = {}]
  /\ UNCHANGED <<head, marked, stash, oids, made, aside, open, flow, asked>>

Resolve(r) ==
  /\ marked[r] # {}
  /\ marked' = [marked EXCEPT ![r] = {}]
  /\ UNCHANGED <<head, work, stash, oids, made, settled, aside, open, flow, asked>>

(* discardConflicted, a hard reset: the edits on top are given up, except  *)
(* files git does not track; what the stash brought stays in the stash.    *)
DiscardConflicted(r) ==
  /\ marked[r] # {}
  /\ \E untracked \in SUBSET (work[r] \ marked[r]) :
       /\ settled' = settled \cup (work[r] \ (marked[r] \cup untracked))
       /\ work' = [work EXCEPT ![r] = untracked]
  /\ marked' = [marked EXCEPT ![r] = {}]
  /\ UNCHANGED <<head, stash, oids, made, aside, open, flow, asked>>

(* Opening another project clears the view, not the flow. *)
SetRepoPath(r) ==
  /\ r # open
  /\ open' = r
  /\ UNCHANGED <<repoVars, flow, asked>>

-----------------------------------------------------------------------------
(* checkoutGuarded.  The sidebar's buttons are disabled while it runs, the  *)
(* command palette's entries and a finding's fix are not.                  *)

Goes(f, pc) == flow' = [flow EXCEPT ![f].pc = pc]
Ends(f) == flow' = [flow EXCEPT ![f] = Idle]

Start(f, b) ==
  /\ flow[f].pc = "idle" /\ b # head[open]
  /\ flow' = [flow EXCEPT ![f] = [Idle EXCEPT !.pc = "running", !.repo = open, !.to = b]]
  /\ UNCHANGED <<repoVars, open, asked>>

(* run, which may be the second attempt. *)
Run(f) ==
  /\ flow[f].pc \in {"running", "retrying"}
  /\ ~Blocked(flow[f].repo, flow[f].to)
  /\ CheckoutTree(flow[f].repo, flow[f].to)
  /\ IF flow[f].carry THEN Goes(f, "carrying") ELSE Ends(f)
  /\ UNCHANGED <<stash, oids, made, settled, aside, open, asked>>

(* There is one dialog: a later question replaces the one it shows, and    *)
(* the flow that put that one waits for ever.                              *)
RunBlocked(f) ==
  /\ flow[f].pc \in {"running", "retrying"}
  /\ Blocked(flow[f].repo, flow[f].to)
  /\ \/ flow[f].pc = "running" /\ Goes(f, "asking") /\ asked' = {f}
     \/ flow[f].pc = "retrying" /\ Ends(f) /\ UNCHANGED asked
  /\ UNCHANGED <<repoVars, open>>

(* Any other failure, of a checkout, the save or the apply, ends the flow, *)
(* as does the end of the app.                                             *)
Fail(f) ==
  /\ flow[f].pc \in {"running", "saving", "retrying", "carrying"}
  /\ Ends(f)
  /\ UNCHANGED <<repoVars, open, asked>>

Answer(f) ==
  /\ f \in asked
  /\ asked' = {}
  /\ \/ \E c \in BOOLEAN : flow' = [flow EXCEPT ![f].pc = "saving", ![f].carry = c]
     \/ Ends(f)
  /\ UNCHANGED <<repoVars, open>>

SaveAside(f) ==
  /\ flow[f].pc = "saving"
  /\ Save(flow[f].repo)
  /\ Goes(f, "retrying")
  /\ aside' = aside \cup ({oids'} \ {oids})
  /\ UNCHANGED <<head, marked, made, settled, open, asked>>

(* Faulty variant: the entry is popped. *)
CarryPops(f) ==
  /\ flow[f].pc = "carrying"
  /\ \E outcome \in Outcomes :
       /\ ApplyTo(open, 1, outcome)
       /\ \/ outcome = "applied" /\ stash' = [stash EXCEPT ![open] = Tail(@)]
          \/ outcome # "applied" /\ UNCHANGED stash
  /\ Ends(f)
  /\ UNCHANGED <<head, oids, made, settled, aside, open, asked>>

(* carryStashOver asks the store again which repository it is about. *)
Carry(f) ==
  /\ flow[f].pc = "carrying"
  /\ \E outcome \in Outcomes : ApplyTo(open, 1, outcome)
  /\ Ends(f)
  /\ UNCHANGED <<head, stash, oids, made, settled, aside, open, asked>>

-----------------------------------------------------------------------------
UserNext ==
  \/ \E r \in Repos :
       \/ StashSave(r) \/ Commit(r) \/ Resolve(r) \/ DiscardConflicted(r) \/ SetRepoPath(r)
       \/ \E w \in Works : Edit(r, w)
       \/ \E i \in 1..MaxStashes : Apply(r, i) \/ Pop(r, i) \/ Drop(r, i) \/ Rename(r, i)

FlowNext ==
  \E f \in Flows :
    \/ \E b \in Branches : Start(f, b)
    \/ Run(f) \/ RunBlocked(f) \/ Fail(f) \/ Answer(f)
    \/ SaveAside(f) \/ Carry(f)

Next == UserNext \/ FlowNext

Spec == Init /\ [][Next]_vars

-----------------------------------------------------------------------------
(* Properties. *)

Checkout == [pc : {"idle", "running", "asking", "saving", "retrying", "carrying"},
             repo : Repos \cup {NoRepo}, to : Branches \cup {"none"}, carry : BOOLEAN]
Entry == [oid : 1..MaxStashes, works : (SUBSET Works) \ {{}}]

(* Types; and what conflicts is in the tree. *)
TypeOK ==
  /\ head \in [Repos -> Branches]
  /\ work \in [Repos -> SUBSET Works] /\ marked \in [Repos -> SUBSET Works]
  /\ \A r \in Repos : marked[r] \subseteq work[r]
  /\ stash \in [Repos -> Seq(Entry)] /\ oids \in 0..MaxStashes
  /\ made \subseteq Works /\ settled \subseteq made /\ aside \subseteq 1..oids
  /\ open \in Repos /\ flow \in [Flows -> Checkout] /\ asked \subseteq Flows

Stashed(r) == UNION {stash[r][i].works : i \in DOMAIN stash[r]}

(* Whatever is clicked while a checkout is blocked, saved, retried, carried *)
(* over, conflicts or fails, no uncommitted work disappears that the user  *)
(* neither committed nor gave up: it is in a tree, in a stash, or is what  *)
(* a branch holds anyway (04-git.md, GIT-003 and GIT-015).                 *)
NoWorkIsLost ==
  \A w \in made \ settled :
    (\E r \in Repos : w \in work[r] \cup Stashed(r)) \/ (\E b \in Branches : w \in Has[b])

(* repoStore.ts:326: what the flow set aside stays in a list until a click *)
(* removes it; the working tree is never its only copy.                    *)
AsideStaysAside ==
  \A o \in aside : \E r \in Repos : \E i \in DOMAIN stash[r] : stash[r][i].oid = o

(* What a comment claims and the code does not keep.                       *)

(* repoStore.ts:324: carrying applies the stash the checkout just made, so  *)
(* what it brings, it brings to the project of that checkout.              *)
CarryAppliesItsOwn ==
  [][\A f \in Flows :
       Carry(f) /\ (work' # work \/ marked' # marked) => open = flow[f].repo]_vars
=============================================================================
