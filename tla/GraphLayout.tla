------------------------------ MODULE GraphLayout ------------------------------
(***************************************************************************)
(* The lanes of the commit graph: computeGraphLayout of graphLayout.ts,    *)
(* one step for each commit.  The commits loaded are numbered in the order *)
(* they come in, children before parents; those beyond are not loaded.     *)
(* A commit has two parents at most: octopus merges are left out.          *)
(***************************************************************************)
EXTENDS Naturals, Sequences, SequencesExt, FiniteSets, FiniteSetsExt

CONSTANTS Window, Beyond, NoCommit  \* how many commits are, and are not, loaded

ASSUME GraphConstants == Window \in Nat /\ Beyond \in Nat /\ NoCommit \notin Nat

VARIABLES
  parentsOf,    \* of the commits placed so far
  laneOf,       \* their lanes
  activeLanes   \* what each lane waits for

graphVars == <<parentsOf, laneOf, activeLanes>>

GraphTypeOK ==
  /\ parentsOf \in Seq(Seq(Nat)) /\ laneOf \in Seq(Nat)
  /\ activeLanes \in Seq(1 .. Window + Beyond \cup {NoCommit})

GraphInit == parentsOf = <<>> /\ laneOf = <<>> /\ activeLanes = <<>>

FreeLanes(lanes) == {i \in 1 .. Len(lanes) + 1 : i > Len(lanes) \/ lanes[i] = NoCommit}
FindFreeLane(lanes) == Min(FreeLanes(lanes))
Hold(lanes, lane, commit) ==
  IF lane > Len(lanes) THEN Append(lanes, commit) ELSE [lanes EXCEPT ![lane] = commit]

\* A parent of a merge, other than its first.
Track(lanes, parent) ==
  IF parent \in ToSet(lanes) THEN lanes ELSE Hold(lanes, FindFreeLane(lanes), parent)

\* Faulty variant: the lane is given to the first parent only once the others have theirs.
PlaceCommitLater(parents) ==
  LET row == Len(laneOf) + 1
      held == {i \in DOMAIN activeLanes : activeLanes[i] = row}
      lane == IF held # {} THEN Min(held) ELSE FindFreeLane(activeLanes)
      freed == Hold(activeLanes, lane, NoCommit)
      tracked == IF Len(parents) = 2 THEN Track(freed, parents[2]) ELSE freed
  IN  /\ parentsOf' = Append(parentsOf, parents) /\ laneOf' = Append(laneOf, lane)
      /\ activeLanes' = IF parents = <<>> \/ tracked[lane] # NoCommit THEN tracked ELSE Hold(tracked, lane, parents[1])

\* Only one of the lanes that wait for a commit is freed when it comes, and its
\* first parent takes over its lane whether or not another waits for that parent.
PlaceCommit(parents) ==
  LET row == Len(laneOf) + 1
      held == {i \in DOMAIN activeLanes : activeLanes[i] = row}
      lane == IF held # {} THEN Min(held) ELSE FindFreeLane(activeLanes)
      taken == Hold(activeLanes, lane, IF parents = <<>> THEN NoCommit ELSE parents[1])
  IN  /\ parentsOf' = Append(parentsOf, parents) /\ laneOf' = Append(laneOf, lane)
      /\ activeLanes' = IF Len(parents) = 2 THEN Track(taken, parents[2]) ELSE taken

GraphNext ==
  /\ Len(laneOf) < Window
  /\ \E n \in 0 .. 2 : \E parents \in [1 .. n -> Len(laneOf) + 2 .. Window + Beyond] :
       IsInjective(parents) /\ PlaceCommit(parents)

GraphSpec == GraphInit /\ [][GraphNext]_graphVars

(* ------------------------------- properties ------------------------------ *)

\* The line from a commit to its first parent, drawn down the commit's lane, meets
\* no other commit; one whose first parent is not loaded keeps its lane to the end.
FirstParentLinesAreClear ==
  \A row \in DOMAIN laneOf : parentsOf[row] # <<>> =>
    \A k \in row + 1 .. Len(laneOf) : k < parentsOf[row][1] => laneOf[k] # laneOf[row]
==============================================================================
