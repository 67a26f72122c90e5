-------------------------- MODULE MCReviewPosting --------------------------
(***************************************************************************)
(* Instances of ReviewMemory and ReviewPosting: one place twice on one     *)
(* file, or two places on two files.  A pull request is either only        *)
(* reviewed, three times and at two levels, or posted to as well: on       *)
(* GitHub two findings collide on one place of one run, with a deletion in *)
(* between; on Azure it is reviewed again while a batch is posted.  A      *)
(* finding without a file is a first review's whole answer, and not        *)
(* posted; what may fail before the model is asked fails where nothing is  *)
(* posted.                                                                 *)
(***************************************************************************)
EXTENDS ReviewPosting
CONSTANTS p1, p2, f1, f2, j1, j2

VARIABLE posted

OneFile == [p \in Place |-> f1]
OneWithout == [p \in Place |-> IF p = p1 THEN f1 ELSE NoFile]
TwoFiles == [p \in Place |-> IF p = p1 THEN f1 ELSE f2]

Deleted == {r \in DOMAIN runs : ~runs[r].live}
Within ==
  /\ Len(runs) < 2 \/ \A j \in Jobs : jobs[j].pc = "idle"
  /\ \A j \in Jobs : jobs[j].pc \in {"idle", "fetched"} \/ jobs[j].level = 1
  /\ \A j \in Jobs : jobs[j].pc = "fetched" => jobs[j].sha = head
  /\ \A j \in Jobs : jobs[j].pc = "asking" /\ jobs[j].base # 0 => jobs[j].changed # Unknown
  /\ host = "github" => runs = <<>> \/ (Len(runs) = 1 /\ \A j \in Jobs : jobs[j].pc = "idle")
  /\ host = "azure" => /\ Deleted = {} /\ Len(threads) <= 2
                       /\ \A j \in Jobs : jobs[j].pc \in {"counted", "storing"} =>
                                            \A n \in DOMAIN jobs[j].found : n = 1 /\ jobs[j].found[n].id = 1

Alone ==
  \A j \in Jobs : jobs[j].pc \in {"counted", "storing"} =>
    \A n \in DOMAIN jobs[j].found : FileOf[jobs[j].found[n].place] = NoFile =>
      Len(jobs[j].found) = 1 /\ runs = <<>> /\ ~posted

ReviewInit == PInit /\ posted \in BOOLEAN /\ (~posted => host = "github")
ReviewNext ==
  /\ UNCHANGED posted
  /\ (posted /\ Next /\ Within') \/ (~posted /\ MemoryNext /\ UNCHANGED postVars)
  /\ Alone'
ReviewSpec == ReviewInit /\ [][ReviewNext]_<<vars, posted>>
=============================================================================
