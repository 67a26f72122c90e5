---------------------------- MODULE ReviewPosting ----------------------------
(***************************************************************************)
(* Posting a run's findings to the pull request (Review/ReviewPosting.cs,  *)
(* Providers/PostItem.cs and the two hosts), composed with ReviewMemory:   *)
(* reviews, marks and deletions go on while a batch is on the network.     *)
(*                                                                         *)
(* The panel's posting flag (prStore.ts) lets one batch be out at a time,  *)
(* so there is one; a thread is its position in threads, and remembers the *)
(* finding its first comment is about.                                     *)
(***************************************************************************)
EXTENDS ReviewMemory, Lists

CONSTANTS Hosts,       \* "github" and "azure"
          MaxThreads,  \* bound: threads ever opened
          MaxBatches,  \* bound: batches the user posts
          Faults       \* answers of the host get lost and the sidecar may die

ASSUME HostAssumption == Hosts \subseteq {"github", "azure"}
ASSUME FaultsAssumption == Faults \in BOOLEAN
ASSUME PostBoundsAssumption == MaxThreads \in Nat /\ MaxBatches \in Nat

VARIABLES host,     \* the pull request's host
          threads,  \* the pull request's threads, oldest first
          post,     \* the latest batch
          batches   \* how many there were

postVars == <<host, threads, post, batches>>
vars == <<memoryVars, postVars>>

Resting == {"none", "refused", "done", "died"}

(* Azure's conversation runs newest first, so its summary goes last. *)
DiscussionNewestFirst == host = "azure"

-----------------------------------------------------------------------------
(* The pure steps of a batch. *)

(* The stored finding each item refers to: the first of its place that no  *)
(* earlier item claimed, 0 for none.                                       *)
IndexOf(findings, places, m, k) ==
  FirstOf(Same(findings, places[k]) \ {m[n] : n \in 1..(k - 1)})

Matches(findings, places) ==
  LET m[k \in 0..Len(places)] ==
        IF k = 0 THEN <<>> ELSE Append(m[k - 1], IndexOf(findings, places, m[k - 1], k))
  IN  m[Len(places)]

(* The thread item k continues: the one its finding had, else one this     *)
(* batch opened for the same place; an unmatched item is never linked.     *)
ForNew(p, k) == p.opened[p.places[k]]
For(p, k) ==
  CASE p.matches[k] = 0 -> NoThread
    [] p.matches[k] > 0 /\ p.snapshot[p.matches[k]].thread # NoThread ->
         p.snapshot[p.matches[k]].thread
    [] OTHER -> p.opened[p.places[k]]

(* What the outcomes do to the snapshot. *)
Applied(p) ==
  [i \in DOMAIN p.snapshot |->
     LET mine == {k \in DOMAIN p.outcomes : p.matches[k] = i /\ p.outcomes[k] > 0}
         f    == p.snapshot[i]
     IN  IF mine = {} THEN f
         ELSE [f EXCEPT !.thread = p.outcomes[Max(mine)],
                        !.estado = IF @ = "abierto" THEN "posteado" ELSE @]]

-----------------------------------------------------------------------------
PInit ==
  /\ Init
  /\ host \in Hosts
  /\ threads = <<>>
  /\ post = [pc |-> "none"]
  /\ batches = 0

(* What the panel offers to post: the restated findings of the last review's run. *)
Offered(r) == 1..runs[r].shown

(* Post: the stored findings and the analysed commit are read and matched. *)
(* A run that was deleted in the meantime matches nothing.                 *)
Publish(r, chosen, anchored, summary) ==
  LET items    == Picked([i \in Offered(r) |-> i], chosen)
      places   == [k \in DOMAIN items |-> runs[r].findings[items[k]].place]
      snapshot == IF runs[r].live THEN runs[r].findings ELSE <<>>
  IN  /\ post.pc \in Resting /\ batches < MaxBatches
      /\ \A j \in Jobs : jobs[j].pc = "idle"
      /\ r = Len(runs) /\ chosen \subseteq Offered(r) /\ (chosen # {} \/ summary)
      /\ post' = [pc |-> "checking", run |-> r, anchored |-> anchored, summary |-> summary,
                  about |-> [k \in DOMAIN items |-> runs[r].findings[items[k]].id],
                  places |-> places, snapshot |-> snapshot,
                  matches |-> Matches(snapshot, places),
                  analysed |-> IF runs[r].live THEN runs[r].sha ELSE 0,
                  outcomes |-> <<>>, opened |-> [p \in Place |-> NoThread], sent |-> <<>>]
      /\ batches' = batches + 1
      /\ UNCHANGED <<memoryVars, threads>>

(* GitHub's freshness check reads the head once; a head it cannot read,    *)
(* or a run without one, cannot be checked.  Azure checks nothing.         *)
Moved(seen) ==
  host = "github" /\ post.anchored /\ post.analysed # 0 /\ seen # 0 /\ seen # post.analysed

AfterCheck == IF DiscussionNewestFirst THEN "posting" ELSE "summary"

EnsureUnchanged(seen) ==
  /\ post.pc = "checking"
  /\ post' = [post EXCEPT !.pc = IF Moved(seen) THEN "refused" ELSE AfterCheck]
  /\ UNCHANGED <<memoryVars, threads, batches>>

(* The summary comment, before the findings or after them; its failure is  *)
(* collected with theirs.                                                  *)
PostSummary(lands) ==
  /\ post.pc = "summary"
  /\ post' = [post EXCEPT !.pc = IF DiscussionNewestFirst THEN "writing" ELSE "posting",
                          !.sent = IF post.summary /\ lands THEN Append(@, "summary") ELSE @]
  /\ UNCHANGED <<memoryVars, threads, batches>>

Next1 == Len(post.outcomes) + 1

(* The next item opens a thread; the host may have done so and still fail, *)
(* or answer too late, and then nothing of it is known.                    *)
OpenThread(answered) ==
  LET k == Next1
  IN  /\ post.pc = "posting" /\ k <= Len(post.places)
      /\ For(post, k) = NoThread
      /\ Len(threads) < MaxThreads /\ (answered \/ Faults)
      /\ threads' = Append(threads, post.about[k])
      /\ post' = [post EXCEPT
            !.outcomes = Append(@, IF answered THEN Len(threads) + 1 ELSE -1),
            !.opened[post.places[k]] =
                 IF answered /\ post.matches[k] # 0 THEN Len(threads) + 1 ELSE @,
            !.sent = Append(@, "finding")]
      /\ UNCHANGED <<memoryVars, batches>>

ReplyRecorded ==
  LET k == Next1
  IN  /\ post.pc = "posting" /\ k <= Len(post.places)
      /\ For(post, k) # NoThread
      /\ post' = [post EXCEPT !.outcomes = Append(@, For(post, k)), !.sent = Append(@, "finding")]
      /\ UNCHANGED <<memoryVars, threads, batches>>

(* It replies on the thread it continues: nothing to record. *)
Reply ==
  LET k == Next1
  IN  /\ post.pc = "posting" /\ k <= Len(post.places)
      /\ For(post, k) # NoThread
      /\ post' = [post EXCEPT !.outcomes = Append(@, 0), !.sent = Append(@, "finding")]
      /\ UNCHANGED <<memoryVars, threads, batches>>

(* It does not land at all; the items after it are attempted all the same. *)
ItemFails ==
  /\ post.pc = "posting" /\ Next1 <= Len(post.places)
  /\ post' = [post EXCEPT !.outcomes = Append(@, -1)]
  /\ UNCHANGED <<memoryVars, threads, batches>>

ItemsDone ==
  /\ post.pc = "posting" /\ Next1 > Len(post.places)
  /\ post' = [post EXCEPT !.pc = IF DiscussionNewestFirst THEN "summary" ELSE "writing"]
  /\ UNCHANGED <<memoryVars, threads, batches>>

(* The whole list is written back over the run's row, if it still exists. *)
WriteBackOnSuccess(r, findings) ==
  IF runs[r].live /\ \A k \in DOMAIN post.outcomes : post.outcomes[k] # -1
  THEN findings ELSE runs[r].findings
WriteBack(r, findings) == IF runs[r].live THEN findings ELSE runs[r].findings

SetFindings ==
  /\ post.pc = "writing"
  /\ runs' = [runs EXCEPT ![post.run].findings = WriteBack(post.run, Applied(post))]
  /\ post' = [post EXCEPT !.pc = "done"]
  /\ last' = Nothing
  /\ UNCHANGED <<head, touched, jobs, marks, threads, batches>>

(* The sidecar goes away, or an error no host names: the batch is dropped  *)
(* where it is, reviews in flight with it.                                 *)
Die ==
  /\ Faults
  /\ post.pc \notin Resting
  /\ post' = [post EXCEPT !.pc = "died"]
  /\ jobs' = [j \in Jobs |-> NoJob]
  /\ last' = Nothing
  /\ UNCHANGED <<runs, head, touched, marks, threads, batches>>

PostNext ==
  \/ \E r \in DOMAIN runs : \E chosen \in SUBSET Offered(r), anchored, summary \in BOOLEAN :
       Publish(r, chosen, anchored, summary)
  \/ \E seen \in {head, 0} : EnsureUnchanged(seen)
  \/ \E lands \in BOOLEAN : PostSummary(lands)
  \/ \E answered \in BOOLEAN : OpenThread(answered)
  \/ Reply \/ ItemFails \/ ItemsDone \/ SetFindings \/ Die

Next == (MemoryNext /\ UNCHANGED postVars) \/ (PostNext /\ UNCHANGED host)

Spec == PInit /\ [][Next]_vars

-----------------------------------------------------------------------------
(* Properties. *)

(* When a batch ends, failed items or not, every thread that was opened    *)
(* for a stored finding is on that finding, whatever happened to the row   *)
(* while the batch was on the network.                                     *)
SuccessIsRemembered ==
  post.pc = "done" /\ runs[post.run].live =>
    \A k \in DOMAIN post.outcomes :
      post.outcomes[k] > 0 /\ post.matches[k] # 0 =>
        runs[post.run].findings[post.matches[k]].thread = post.outcomes[k]

(* Two findings of one run never own the same conversation.                *)
ThreadsAreNotShared ==
  \A r \in Live : \A i, k \in DOMAIN runs[r].findings :
    runs[r].findings[i].thread = runs[r].findings[k].thread
      => i = k \/ runs[r].findings[i].thread = NoThread

(* No thread is opened for a finding whose row already has one: a retry    *)
(* replies where the first attempt posted.                                 *)
NoSecondThreadForARow ==
  [][ threads' # threads /\ runs[post.run].live /\ post.matches[Next1] # 0
        => runs[post.run].findings[post.matches[Next1]].thread = NoThread ]_vars

(* What the comments claim and the code does not keep. *)

(* 07-review-pipeline.md:1016: only a person sets or lifts a discard, so   *)
(* the write that ends a batch leaves it standing.                         *)
MarksSurvivePosting ==
  post.pc = "writing" =>
    \A i \in DOMAIN runs[post.run].findings :
      runs[post.run].findings[i].estado \in Discards =>
        WriteBack(post.run, Applied(post))[i].estado = runs[post.run].findings[i].estado
=============================================================================
