-------------------------------- MODULE Jobs --------------------------------
(***************************************************************************)
(* The jobs of one project: the list of jobsStore.ts, in memory, and the   *)
(* rows of job_history, which the core writes when a run ends.  A job is   *)
(* known by one id in both; sorting and labels are left out.               *)
(***************************************************************************)
EXTENDS Naturals, Sequences, SequencesExt, FiniteSets, Lists

CONSTANTS
  JobIds, StoredJobs,  \* every job, and those of earlier sessions
  MaxJobOps            \* a bound: what the user does

ASSUME JobsConstants == StoredJobs \subseteq JobIds /\ IsFiniteSet(StoredJobs)

VARIABLES
  jobs,      \* the list: [id, status], newest first
  filed,      \* the ids in job_history
  tasks,     \* what the runs of this session have come to, by id
  reading,   \* answers of list_job_history on their way
  removing,  \* answers of delete_job_history_entry on their way
  hydrated,    \* the project's history counts as read
  missed,    \* history: that read failed
  dropped,  \* history: those that were to be deleted
  jobOps     \* how many things the user has done

jobVars == <<jobs, filed, tasks, reading, removing, hydrated, missed, dropped, jobOps>>

JobStatuses == {"running", "done", "error", "cancelled"}
JobsTypeOK ==
  /\ jobs \in Seq([id : JobIds, status : JobStatuses])
  /\ filed \subseteq JobIds /\ tasks \in [JobIds -> JobStatuses \cup {"none", "told", "decided"}]
  /\ \A read \in reading : read.filed \subseteq JobIds

JobsInit ==
  /\ jobs = <<>> /\ filed = StoredJobs /\ tasks = [j \in JobIds |-> "none"]
  /\ reading = {} /\ removing = {} /\ hydrated = FALSE
  /\ missed = FALSE /\ dropped = {} /\ jobOps = 0

Ids(list) == {list[i].id : i \in DOMAIN list}
OffList(list, id) == Picked(list, {j \in ToSet(list) : j.id # id})
NewIds == {j \in JobIds \ StoredJobs : tasks[j] = "none"}

(* ------------------------------- the user ------------------------------- *)

RunJob(j) ==
  /\ j \in NewIds
  /\ jobs' = <<[id |-> j, status |-> "running"]>> \o jobs /\ tasks' = [tasks EXCEPT ![j] = "running"]
  /\ UNCHANGED <<filed, reading, removing, hydrated, missed, dropped>>

\* A decision on a pull request, which the core files before it is recorded.
DecideJob(j) ==
  /\ j \in NewIds
  /\ filed' = filed \cup {j} /\ tasks' = [tasks EXCEPT ![j] = "decided"]
  /\ UNCHANGED <<jobs, reading, removing, hydrated, missed, dropped>>

\* Marked as read before it is.
LoadJobs ==
  /\ ~hydrated /\ hydrated' = TRUE
  /\ reading' = {[filed |-> filed]}
  /\ UNCHANGED <<jobs, filed, tasks, removing, missed, dropped>>

\* Its own failure is swallowed, the row is off the list all the same.
RemoveJob(j) ==
  /\ j \in Ids(jobs)
  /\ filed' \in {filed \ {j}, filed} /\ removing' = removing \cup {j}
  /\ dropped' = dropped \cup {j}
  /\ UNCHANGED <<jobs, tasks, reading, hydrated, missed>>

(* ------------------------- the core and its answers ---------------------- *)

\* A stopped run, and a refusal, leave no row.
JobEnds(j) ==
  /\ tasks[j] = "running"
  /\ \/ \E outcome \in {"done", "error"} : tasks' = [tasks EXCEPT ![j] = outcome] /\ filed' = filed \cup {j}
     \/ \E outcome \in {"error", "cancelled"} : tasks' = [tasks EXCEPT ![j] = outcome] /\ UNCHANGED filed
  /\ UNCHANGED <<jobs, reading, removing, hydrated, missed, dropped>>

\* Faulty variant: without the row that is listed already.
RecordOnTop(j) ==
  /\ tasks[j] = "decided" /\ tasks' = [tasks EXCEPT ![j] = "told"]
  /\ jobs' = <<[id |-> j, status |-> "done"]>> \o jobs
  /\ UNCHANGED <<filed, reading, removing, hydrated, missed, dropped>>
RecordJob(j) ==
  /\ tasks[j] = "decided" /\ tasks' = [tasks EXCEPT ![j] = "told"]
  /\ jobs' = <<[id |-> j, status |-> "done"]>> \o OffList(jobs, j)
  /\ UNCHANGED <<filed, reading, removing, hydrated, missed, dropped>>

SettleJob(j) ==
  /\ tasks[j] \in {"done", "error", "cancelled"}
  /\ jobs' = [i \in DOMAIN jobs |-> IF jobs[i].id = j THEN [jobs[i] EXCEPT !.status = tasks[j]] ELSE jobs[i]]
  /\ tasks' = [tasks EXCEPT ![j] = "told"]
  /\ UNCHANGED <<filed, reading, removing, hydrated, missed, dropped>>

\* What is in memory already stays as it is there.
JobsRead(read) ==
  /\ reading' = reading \ {read}
  /\ \/ /\ jobs' = SetToSeq({[id |-> j, status |-> "done"] : j \in read.filed \ Ids(jobs)}) \o jobs
        /\ UNCHANGED missed
     \/ missed' = TRUE /\ UNCHANGED jobs
  /\ UNCHANGED <<filed, tasks, removing, hydrated, dropped>>

Removed(j) ==
  /\ removing' = removing \ {j} /\ jobs' = OffList(jobs, j)
  /\ UNCHANGED <<filed, tasks, reading, hydrated, missed, dropped>>

JobsNext ==
  \/ /\ jobOps < MaxJobOps /\ jobOps' = jobOps + 1
     /\ LoadJobs \/ \E j \in JobIds : RunJob(j) \/ DecideJob(j) \/ RemoveJob(j)
  \/ /\ UNCHANGED jobOps
     /\ \/ \E j \in JobIds : JobEnds(j) \/ SettleJob(j) \/ RecordJob(j)
        \/ \E read \in reading : JobsRead(read)
        \/ \E j \in removing : Removed(j)

JobsSpec == JobsInit /\ [][JobsNext]_jobVars

(* ------------------------------- properties ------------------------------ *)

\* Wherever a run, a decision, a removal and the one read of the history meet,
\* no job is listed twice, a job that has ended is not shown as running, and
\* once the history is read every row the renderer was told of is listed.
\* Excepted are a read that fails, which is not repeated, and what is removed
\* while it runs or is being read.
JobsAreListedOnce ==
  /\ Cardinality(Ids(jobs)) = Len(jobs)
  /\ \A i \in DOMAIN jobs : jobs[i].status = "running" => tasks[jobs[i].id] # "told"
  /\ hydrated /\ reading = {} /\ ~missed => {j \in filed \ dropped : tasks[j] # "decided"} \subseteq Ids(jobs)
==============================================================================
