----------------------------- MODULE RequestTree -----------------------------
(***************************************************************************)
(* The tree of an API collection twice: the rows of the database           *)
(* (ApiTreeStore.cs) and the ones apiTreeStore.ts shows, which it changes  *)
(* by itself, a move even before the core has answered, instead of reading *)
(* them again.  The second workspace has no collections.                   *)
(*                                                                         *)
(* A node is a folder or a request; its place is a collection, a parent    *)
(* and an order among the siblings of its kind.  The core's database has   *)
(* one gate: a call takes effect when it is placed and `answers' come back *)
(* in that order.  Names and specs are one version number.                 *)
(***************************************************************************)
EXTENDS Naturals, Sequences, SequencesExt, FiniteSets, FiniteSetsExt

CONSTANTS
  Collections, Planted,         \* Planted[n]: the nodes there are at first
  Drafted,                      \* the requests that may be created or copied
  MaxAnswers, MaxTreeOps, Root  \* bounds, and the parent of what has none

Nodes == DOMAIN Planted \cup Drafted
Node == [kind : {"folder", "request"}, col : Collections, parent : Nodes \cup {Root}, order : Nat, version : Nat]

SamePlace(n, m, t) == t[n].kind = t[m].kind /\ t[n].col = t[m].col /\ t[n].parent = t[m].parent

\* What is in a folder is in the collection of the folder.
Housed(t) == \A n \in DOMAIN t : t[n].parent # Root =>
  /\ t[n].parent \in DOMAIN t /\ t[t[n].parent].kind = "folder"
  /\ t[t[n].parent].col = t[n].col

ASSUME RequestTreeConstants ==
  /\ MaxAnswers \in Nat /\ IsFiniteSet(Nodes) /\ DOMAIN Planted \cap Drafted = {} /\ Root \notin Nodes
  /\ Planted \in [DOMAIN Planted -> Node] /\ Housed(Planted)
  /\ \A n, m \in DOMAIN Planted : SamePlace(n, m, Planted) /\ n # m => Planted[n].order # Planted[m].order

VARIABLES
  home,     \* the workspace with the collections is the one shown
  db, ui,   \* the rows, and the rows on screen, by id
  answers,  \* calls the core has carried out, or refused
  raced,    \* history: one of the races named below has happened
  treeOps   \* how many things the user has done

treeVars == <<home, db, ui, answers, raced, treeOps>>

IsTree(t) == DOMAIN t \subseteq Nodes /\ \A n \in DOMAIN t : t[n] \in Node

TreeTypeOK == home \in BOOLEAN /\ IsTree(db) /\ IsTree(ui) /\ Len(answers) <= MaxAnswers

TreeInit ==
  /\ home = TRUE /\ db = Planted /\ ui = Planted
  /\ answers = <<>> /\ raced = FALSE /\ treeOps = 0

PositionOf(n, list) == CHOOSE i \in DOMAIN list : list[i] = n
Under(t, kind, col, parent) == {n \in DOMAIN t : t[n].kind = kind /\ t[n].col = col /\ t[n].parent = parent}
ByOrder(order) ==
  CHOOSE list \in [1 .. Cardinality(DOMAIN order) -> DOMAIN order] :
    Range(list) = DOMAIN order /\ \A i, j \in DOMAIN list : i < j => order[list[i]] <= order[list[j]]
InOrder(t, ns) == ByOrder([n \in ns |-> t[n].order])
Prune(t, gone) == [n \in DOMAIN t \ gone |-> t[n]]

\* descendantFolderIds and the requests in them; also SQLite's cascade.
Reach(t, found) == found \cup {n \in DOMAIN t : t[n].parent \in found}
Subtree(t, n) ==
  LET grown[i \in 0 .. Cardinality(DOMAIN t)] == IF i = 0 THEN {n} ELSE Reach(t, grown[i - 1])
  IN  grown[Cardinality(DOMAIN t)] \cap (DOMAIN t \cup {n})

\* renumber: the children of the destination get their places, no one else.
Renumber(t, list) ==
  [n \in DOMAIN t |-> IF Contains(list, n) THEN [t[n] EXCEPT !.order = PositionOf(n, list) - 1] ELSE t[n]]
Clamp(index, length) == Min({index, length})
Splice(t, n, col, parent, index) ==
  LET siblings == InOrder(t, Under(t, t[n].kind, col, parent) \ {n})
  IN  Renumber([t EXCEPT ![n].col = col, ![n].parent = parent], InsertAt(siblings, Clamp(index, Len(siblings)) + 1, n))

\* moveFolderLocally and moveRequestLocally.
\* Faulty variant: what is in a folder stays in the collection it was in.
MoveOneLocally(n, col, parent, index) == Splice(ui, n, col, parent, index)
MoveLocally(n, col, parent, index) ==
  LET spliced == Splice(ui, n, col, parent, index)
      carried == IF ui[n].kind = "folder" /\ ui[n].col # col THEN Subtree(spliced, n) ELSE {}
  IN  [m \in DOMAIN spliced |-> IF m \in carried THEN [spliced[m] EXCEPT !.col = col] ELSE spliced[m]]

\* MoveNode: refused when a row it names is gone or the folder would be under
\* itself; otherwise the whole subtree goes, then the destination is renumbered.
Movable(n, parent) ==
  /\ n \in DOMAIN db /\ parent \in DOMAIN db \cup {Root}
  /\ db[n].kind = "folder" => parent \notin Subtree(db, n)
MoveNode(n, col, parent, index) ==
  LET carried == IF db[n].kind = "folder" THEN Subtree(db, n) ELSE {}
      placed  == [m \in DOMAIN db |-> IF m \in carried THEN [db[m] EXCEPT !.col = col] ELSE db[m]]
  IN  Splice(placed, n, col, parent, index)

Read == IF home THEN db ELSE <<>>
Place(call) == Len(answers) < MaxAnswers /\ answers' = Append(answers, call)
Pending(kinds) == \E i \in DOMAIN answers : answers[i].kind \in kinds

(* ------------------------------- the user ------------------------------- *)

\* NextChildOrder: behind the last sibling.
Born(n, col, parent, version) ==
  [kind |-> "request", col |-> col, parent |-> parent, version |-> version,
   order |-> Max({0} \cup {db[m].order + 1 : m \in Under(db, "request", col, parent)})]

\* The folder is in this collection on screen only: its move was refused.
Misfiled(parent, col) == parent \in DOMAIN db /\ db[parent].col # col

Insert(n, row) ==
  /\ db' = [m \in DOMAIN db \cup {n} |-> IF m = n THEN row ELSE db[m]]
  /\ Place([kind |-> "create", node |-> n, row |-> row, home |-> home])
  /\ raced' = (raced \/ Misfiled(row.parent, row.col))
  /\ UNCHANGED <<home, ui>>

\* A fresh id is one nothing mentions.
Unused == Drafted \ (DOMAIN db \cup DOMAIN ui)
CreateRequest(col, parent) ==
  \E n \in Unused :
    /\ home /\ parent \in {Root} \cup {f \in DOMAIN ui \cap DOMAIN db : ui[f].kind = "folder" /\ ui[f].col = col}
    /\ Insert(n, Born(n, col, parent, 0))
DuplicateRequest(q) ==
  \E n \in Unused :
    /\ q \in DOMAIN ui \cap DOMAIN db /\ db[q].kind = "request"
    /\ Insert(n, Born(n, db[q].col, db[q].parent, db[q].version))

DeleteNode(n) ==
  /\ n \in DOMAIN ui
  /\ db' = Prune(db, Subtree(db, n))
  /\ Place([kind |-> "delete", node |-> n])
  /\ UNCHANGED <<home, ui, raced>>

\* updateRequest and updateFolder send the row as it was when the edit began;
\* the core takes its contents only, the renderer the whole row.
UpdateNode(n) ==
  /\ n \in DOMAIN ui /\ ui[n].version = 0
  /\ db' = IF n \in DOMAIN db THEN [db EXCEPT ![n].version = 1] ELSE db
  /\ Place([kind |-> "update", node |-> n, row |-> [ui[n] EXCEPT !.version = 1]])
  /\ UNCHANGED <<home, ui, raced>>

\* beginDrag's drop on a gap of the list as it is rendered.  Races: the tree is
\* being read, or the answer of another change than a move is on its way.
StoreIndex(gap, at) == IF at > 0 /\ gap >= at THEN gap - 1 ELSE gap
CanDrop(n, col, parent) ==
  /\ parent # Root => parent \in DOMAIN ui /\ ui[parent].kind = "folder" /\ ui[parent].col = col
  /\ ui[n].kind = "folder" => parent \notin Subtree(ui, n)
Drop(n, col, parent, gap) ==
  LET siblings == InOrder(ui, Under(ui, ui[n].kind, col, parent))
      at       == IF Contains(siblings, n) THEN PositionOf(n, siblings) ELSE 0
      index    == StoreIndex(gap, at)
  IN  /\ n \in DOMAIN ui /\ CanDrop(n, col, parent) /\ gap \in 0 .. Len(siblings)
      /\ at = 0 \/ index # at - 1
      /\ ui' = MoveLocally(n, col, parent, index)
      /\ raced' = (raced \/ Misfiled(parent, col) \/ Pending({"create", "update", "delete", "read"}))
      /\ \/ /\ Movable(n, parent) /\ db' = MoveNode(n, col, parent, index)
            /\ Place([kind |-> "move", ok |-> TRUE])
         \/ /\ UNCHANGED db   \* refused, or the call itself failed
            /\ Place([kind |-> "move", ok |-> FALSE, before |-> ui, home |-> home])
      /\ UNCHANGED home

\* duplicateCollection, whose rows are left out, and an import end in a reload.
ReloadTree ==
  /\ Place([kind |-> "read", tree |-> Read, load |-> FALSE, home |-> home])
  /\ UNCHANGED <<home, db, ui, raced>>

SetShown ==
  /\ home' = ~home /\ ui' = <<>>
  /\ Place([kind |-> "read", tree |-> IF home THEN <<>> ELSE db, load |-> TRUE, home |-> ~home])
  /\ UNCHANGED <<db, raced>>

(* ------------------------------ the answers ------------------------------ *)

\* Of all answers only the one of a load looks at the workspace it was for.
Answered(call) ==
  \/ /\ call.kind = "create" /\ ui' = [m \in DOMAIN ui \cup {call.node} |-> IF m = call.node THEN call.row ELSE ui[m]]
     /\ raced' = (raced \/ call.home # home) /\ answers' = Tail(answers)
  \/ /\ call.kind = "delete" /\ ui' = Prune(ui, Subtree(ui, call.node))
     /\ UNCHANGED raced /\ answers' = Tail(answers)
  \/ /\ call.kind = "update"
     /\ ui' = IF call.node \in DOMAIN ui THEN [ui EXCEPT ![call.node] = call.row] ELSE ui
     /\ raced' = (raced \/ (call.node \in DOMAIN ui /\ [ui[call.node] EXCEPT !.version = 1] # call.row))
     /\ answers' = Tail(answers)
  \/ /\ call.kind = "read" /\ (call.load => call.home = home)
     /\ ui' = call.tree
     /\ raced' = (raced \/ call.home # home) /\ answers' = Tail(answers)
  \/ /\ call.kind = "read" /\ call.load /\ call.home # home
     /\ UNCHANGED <<ui, raced>> /\ answers' = Tail(answers)
  \/ /\ call.kind = "move" /\ call.ok /\ UNCHANGED <<ui, raced>> /\ answers' = Tail(answers)
     \* the snapshot comes back over whatever was done since, then a reload
  \/ /\ call.kind = "move" /\ ~call.ok
     /\ ui' = call.before
     /\ \/ /\ raced' = (raced \/ call.home # home)
           /\ answers' = Append(Tail(answers), [kind |-> "read", tree |-> Read, load |-> FALSE, home |-> home])
        \/ raced' = TRUE /\ answers' = Tail(answers)  \* which fails

AnswerArrives == answers # <<>> /\ Answered(Head(answers)) /\ UNCHANGED <<home, db>>

TreeNext ==
  \/ /\ treeOps < MaxTreeOps /\ treeOps' = treeOps + 1
     /\ \/ \E col \in Collections :
             \/ \E parent \in DOMAIN ui \cup {Root} :
                  \/ CreateRequest(col, parent)
                  \/ \E n \in DOMAIN ui, gap \in 0 .. Cardinality(DOMAIN ui) : Drop(n, col, parent, gap)
        \/ \E n \in DOMAIN ui : DuplicateRequest(n) \/ DeleteNode(n) \/ UpdateNode(n)
        \/ ReloadTree \/ SetShown
  \/ UNCHANGED treeOps /\ AnswerArrives

TreeSpec == TreeInit /\ [][TreeNext]_treeVars

(* ------------------------------- properties ------------------------------ *)

SameTree(t, u) ==
  /\ DOMAIN t = DOMAIN u
  /\ \A n \in DOMAIN t : /\ [t[n] EXCEPT !.order = 0] = [u[n] EXCEPT !.order = 0]
                         /\ \A m \in DOMAIN t \ {n} : SamePlace(n, m, t) =>
                              (t[n].order < t[m].order <=> u[n].order < u[m].order)

\* Once every call is answered the tree on screen is the one that is stored,
\* with every node in its collection, under its parent and in its place.  Excepted
\* is what the store has no guard for: a drag while the tree is being read or
\* another change is on its way, a refused one whose reload fails, anything put
\* into a folder that has moved on screen only, a row that an update puts back
\* where it was before a drag, and an answer in another workspace.
TheTreeShownIsStored == answers = <<>> /\ ~raced => SameTree(ui, Read)
==============================================================================
