----------------------------- MODULE MCCheckout -----------------------------
(***************************************************************************)
(* What keeps uncommitted work: checkouts with their stashes, and the undo *)
(* list; `mover' names the one that moves.                                 *)
(*                                                                         *)
(* Of Checkout: two projects and two branches, and two works: one that     *)
(* collides and that no branch has, and one that collides with nothing and *)
(* that topic has already.  Either both are in one project, the other      *)
(* being only looked at, or there is one in each.  Of the undo list: two   *)
(* files, one of which is committed with the text a replacement looks for. *)
(***************************************************************************)
EXTENDS Checkout, Checkpoints, TLC

CONSTANTS r1, r2, main, topic, f1, f2, w1, w2, name

VARIABLE mover

AllInR1 == [w \in {w1, w2} |-> r1]
OneInEach == (w1 :> r1) @@ (w2 :> r2)
OnlyTopicHasW2 == (main :> {}) @@ (topic :> {w2})
Symmetry == Permutations(Flows)

MoversInit ==
  /\ mover \in {"checkout", "undo"} /\ Init /\ CheckpointsInit
  /\ mover # "checkout" => (\A r \in Repos : head[r] = main) /\ open = r1
  /\ committed[name] = Found /\ (mover # "undo" => \A f \in Files : committed[f] = Found)
MoversNext ==
  /\ UNCHANGED mover
  /\ \/ mover = "checkout" /\ Next /\ UNCHANGED undoVars
     \/ mover = "undo" /\ CheckpointsNext /\ UNCHANGED vars

MoversSpec == MoversInit /\ [][MoversNext]_<<mover, vars, undoVars>>
=============================================================================
