---------------------------- MODULE ReviewMemory ----------------------------
(***************************************************************************)
(* The memory of one pull request's reviews: Review/ReviewRun.cs (what a   *)
(* re-review reads and what it stores), Review/ReviewMemory.cs (matching   *)
(* a run's findings to the previous run's), Review/ReviewRunStore.cs (the  *)
(* rows of review_runs) and the marks a person puts on a finding.          *)
(*                                                                         *)
(* A finding is known by its place, a file and a category, which several   *)
(* findings may share; the F-NNN correlative is a number.  The model's     *)
(* answer is any short list of places.  A commit is its number in the      *)
(* order of the pushes, 0 for a ref that does not resolve.                 *)
(***************************************************************************)
EXTENDS Integers, Sequences, FiniteSets, SequencesExt

CONSTANTS
  File,       \* the files of the pull request's diff
  Place,      \* {file}|{category}, the key findings are matched by
  FileOf,     \* the file of each place,
  NoFile,     \* or NoFile: the heading of the finding named none
  SuffixOf,   \* <<f, g>>: the path of one ends with the path of the other
  Level,      \* review levels in use: 1 basico, 2 completo, 3 ultra, 0 unranked
  Jobs,       \* reviews of this pull request that may be in flight at once
  MaxRuns,    \* bound: rows ever stored
  MaxFound,   \* bound: findings in one answer
  MaxPushes,  \* bound: commits pushed while it is reviewed
  MaxMarks,   \* bound: times a person marks a finding
  Numbered,   \* the model numbers the findings of an answer 1, 2, ...
  Omits,      \* the prompt's budget may leave files out
  MaxDeletes, \* bound: saved runs the user deletes
  Unknown     \* changedFiles is null: a full review

ASSUME FilesAssumption == FileOf \in [Place -> File \cup {NoFile}] /\ SuffixOf \subseteq File \X File
ASSUME NoFileAssumption == NoFile \notin File
ASSUME UnknownAssumption == \A S \in SUBSET File : Unknown # S
ASSUME LevelAssumption == Level \subseteq 0..3
ASSUME BoundsAssumption == MaxRuns \in Nat /\ MaxFound \in Nat /\ MaxPushes \in Nat /\ MaxMarks \in Nat
                            /\ MaxDeletes \in Nat
ASSUME SwitchAssumption == {Numbered, Omits} \subseteq BOOLEAN

NoThread == 0

States == {"abierto", "posteado", "resuelto", "falso_positivo", "ignorado"}
Discards == {"falso_positivo", "ignorado"}

VARIABLES
  runs,     \* rows of review_runs, oldest first; a deleted row is not live
  head,     \* the pull request's current commit
  touched,  \* the files each push changed
  jobs,     \* the reviews in flight
  marks,    \* how many marks there were
  last      \* history: the inputs and the result of the latest reconciliation

memoryVars == <<runs, head, touched, jobs, marks, last>>

-----------------------------------------------------------------------------
(* Reconciliation: pure functions of the stored and the new findings. *)

IsActive(f) == f.estado \in {"abierto", "posteado"}

Ids(findings) == {f.id : f \in ToSet(findings)}

MaxIdNumber(findings) == Max(Ids(findings) \cup {0})

Same(prev, place) == {i \in DOMAIN prev : prev[i].place = place}

(* An unclaimed previous finding of the place, one not resolved first; 0 for none. *)
FirstOf(indices) == IF indices = {} THEN 0 ELSE Min(indices)
ClaimByKey(prev, claimed, place) == FirstOf(Same(prev, place))
ClaimInOrder(prev, claimed, place) == FirstOf(Same(prev, place) \ claimed)
ClaimPrevious(prev, claimed, place) ==
  LET free  == Same(prev, place) \ claimed
      alive == {i \in free : prev[i].estado # "resuelto"}
  IN  FirstOf(IF alive # {} THEN alive ELSE free)

Finding(id, place, level) ==
  [id |-> id, place |-> place, estado |-> "abierto", thread |-> NoThread, nivel |-> level]

(* What a restated finding keeps of the one it continues. *)
Kept(f, level) == [f EXCEPT !.nivel = level]

(* Pass 1: one finding of the answer, in order.  A match that was resolved is left *)
(* unclaimed, and the finding starts over under a fresh number.                    *)
Restate(prev, level, acc, place) ==
  LET i == ClaimPrevious(prev, acc.claimed, place)
  IN  IF i = 0 \/ (i > 0 /\ prev[i].estado = "resuelto")
      THEN [acc EXCEPT !.merged = Append(@, Finding(acc.nextId, place, level)),
                       !.nextId = @ + 1, !.nuevos = @ + 1]
      ELSE [acc EXCEPT !.merged = Append(@, Kept(prev[i], level)),
                       !.claimed = @ \cup {i},
                       !.persisten = @ + (IF IsActive(prev[i]) THEN 1 ELSE 0)]

LooksShallower(now, found) == now > 0 /\ found > 0 /\ now < found

FileInChanged(file, changed) ==
  \E c \in changed : c = file \/ <<c, file>> \in SuffixOf \/ <<file, c>> \in SuffixOf

(* Without the changed files every file counts as touched, and so does no file at all. *)
FileTouched(f, changed) ==
  changed = Unknown \/ FileOf[f.place] = NoFile \/ FileInChanged(FileOf[f.place], changed)

(* Whether a finding the answer does not restate counts as gone. *)
GoneWhenSilent(f, level, changed) == FileTouched(f, changed) /\ ~LooksShallower(level, f.nivel)
GoneUnread(f, level, changed) == IsActive(f) /\ ~LooksShallower(level, f.nivel)
Gone(f, level, changed) ==
  IsActive(f) /\ FileTouched(f, changed) /\ ~LooksShallower(level, f.nivel)

(* Pass 2: one finding of the previous run that nothing restated. *)
CarryForward(prev, level, changed, acc, i) ==
  LET f == prev[i]
  IN  IF i \in acc.claimed \/ f.id \in Ids(acc.merged) THEN acc
      ELSE IF Gone(f, level, changed)
      THEN [acc EXCEPT !.merged = Append(@, [f EXCEPT !.estado = "resuelto"]),
                       !.resueltos = @ + 1]
      ELSE [acc EXCEPT !.merged = Append(@, f),
                       !.persisten = @ + (IF IsActive(f) THEN 1 ELSE 0)]

(* The number a new finding gets first. *)
NextOfPrevious(prev, found) == Len(prev) + 1
NextId(prev, found) == Max({MaxIdNumber(prev), MaxIdNumber(found)}) + 1

(* The whole answer, then the whole previous run. *)
Restated(prev, found, level) ==
  LET empty == [merged |-> <<>>, claimed |-> {}, nextId |-> NextId(prev, found),
                nuevos |-> 0, persisten |-> 0, resueltos |-> 0]
      upTo[n \in 0 .. Len(found)] ==
        IF n = 0 THEN empty ELSE Restate(prev, level, upTo[n - 1], found[n].place)
  IN  upTo[Len(found)]

Reconcile(prev, found, level, changed) ==
  LET upTo[i \in 0 .. Len(prev)] ==
        IF i = 0 THEN Restated(prev, found, level)
        ELSE CarryForward(prev, level, changed, upTo[i - 1], i)
  IN  upTo[Len(prev)]

(* A pull request's first review: nothing to match, the model's own numbers stand. *)
FirstReview(found, level) == [i \in DOMAIN found |-> Finding(found[i].id, found[i].place, level)]

-----------------------------------------------------------------------------
(* The rows. *)

Live == {r \in DOMAIN runs : runs[r].live}

Latest == Max(Live \cup {0})

LatestHead == IF Latest = 0 THEN 0 ELSE runs[Latest].sha

LatestFindings == IF Latest = 0 THEN <<>> ELSE runs[Latest].findings

(* The files between two commits; there is no comparison without a previous run. *)
ChangedFilesBetween(old, new) ==
  IF old = 0 THEN Unknown
  ELSE UNION {touched[n] : n \in {m \in DOMAIN touched :
                Min({old, new}) <= m /\ m < Max({old, new})}}

(* What the prompt is built from: the moved files, or all of them. *)
Narrow(changed) == IF changed = Unknown \/ changed \cap File = {} THEN File ELSE changed \cap File

Nothing == [kind |-> "none"]

NoJob == [pc |-> "idle"]

Answers ==
  {a \in UNION {[1..n -> [place : Place, id : 1..MaxFound]] : n \in 0..MaxFound} :
     Numbered => \A i \in DOMAIN a : a[i].id = i}

Init ==
  /\ runs = <<>>
  /\ head = 1
  /\ touched = <<>>
  /\ jobs = [j \in Jobs |-> NoJob]
  /\ marks = 0
  /\ last = Nothing

(* The author pushes; touched[n] is what separates commits n and n + 1. *)
Push(files) ==
  /\ Len(touched) < MaxPushes
  /\ touched' = Append(touched, files)
  /\ head' = head + 1
  /\ last' = Nothing
  /\ UNCHANGED <<runs, jobs, marks>>

(* The review fetches the pull request's ref and resolves it: a failed fetch leaves *)
(* the ref at any commit seen before, or the ref does not resolve.                  *)
ResolveHead(j) ==
  /\ jobs[j].pc = "idle"
  /\ Len(runs) < MaxRuns
  /\ \E sha \in 0..head : jobs' = [jobs EXCEPT ![j] = [pc |-> "fetched", sha |-> sha]]
  /\ last' = Nothing
  /\ UNCHANGED <<runs, head, touched, marks>>

(* The commit the latest run saw: no model call. *)
NothingChanged(j) ==
  /\ jobs[j].pc = "fetched"
  /\ jobs[j].sha # 0 /\ LatestHead = jobs[j].sha
  /\ jobs' = [jobs EXCEPT ![j] = NoJob]
  /\ last' = Nothing
  /\ UNCHANGED <<runs, head, touched, marks>>

(* Another one.  What changed since the previous head is compared with the ref, by  *)
(* now maybe further on; the head or the comparison may fail, which gives Unknown.  *)
(* The prompt is shaped from it, within its budget; no diff without a commit.       *)
Ask(j, level) ==
  /\ jobs[j].pc = "fetched" /\ jobs[j].sha # 0
  /\ \E at \in jobs[j].sha..head : \E changed \in {Unknown, ChangedFilesBetween(LatestHead, at)} :
       /\ LatestHead = jobs[j].sha => changed = Unknown
       /\ \E read \in IF Omits THEN (SUBSET Narrow(changed)) \ {{}} ELSE {Narrow(changed)} :
            jobs' = [jobs EXCEPT ![j] = [pc |-> "asking", sha |-> @.sha, at |-> at, level |-> level,
                                         base |-> Latest, changed |-> changed, read |-> read]]
  /\ last' = Nothing
  /\ UNCHANGED <<runs, head, touched, marks>>

(* The answer arrives; PersistAsync counts the runs there are, *)
Answer(j, found) ==
  /\ jobs[j].pc = "asking"
  /\ jobs' = [jobs EXCEPT ![j] =
                [pc |-> IF Live = {} THEN "storing" ELSE "counted", sha |-> @.sha, at |-> @.at,
                 level |-> @.level, base |-> @.base, changed |-> @.changed, read |-> @.read,
                 found |-> found, first |-> Live = {}, prev |-> <<>>, row |-> 0]]
  /\ last' = Nothing
  /\ UNCHANGED <<runs, head, touched, marks>>

(* then reads the latest findings, if it counted any, *)
LoadPrevious(j) ==
  /\ jobs[j].pc = "counted"
  /\ jobs' = [jobs EXCEPT ![j].pc = "storing", ![j].prev = LatestFindings,
                           ![j].row = Latest]
  /\ last' = Nothing
  /\ UNCHANGED <<runs, head, touched, marks>>

(* and stores the reconciled ones as a row of their own. *)
Store(j) ==
  LET job    == jobs[j]
      rec    == Reconcile(job.prev, job.found, job.level, job.changed)
      merged == IF job.first THEN FirstReview(job.found, job.level) ELSE rec.merged
  IN  /\ job.pc = "storing"
      /\ Len(runs) < MaxRuns
      /\ runs' = Append(runs, [live |-> TRUE, sha |-> job.sha, findings |-> merged,
                               shown |-> Len(job.found)])
      /\ last' = IF job.first THEN Nothing
                 ELSE [kind |-> "delta", prev |-> job.prev, found |-> job.found,
                       base |-> job.base, row |-> job.row, at |-> job.at,
                       level |-> job.level, changed |-> job.changed, read |-> job.read,
                       merged |-> merged, nuevos |-> rec.nuevos,
                       persisten |-> rec.persisten, resueltos |-> rec.resueltos]
      /\ jobs' = [jobs EXCEPT ![j] = NoJob]
      /\ UNCHANGED <<head, touched, marks>>

(* The engine fails or is stopped, or the memory cannot be written: nothing is stored. *)
Drop(j) ==
  /\ jobs[j].pc # "idle"
  /\ jobs' = [jobs EXCEPT ![j] = NoJob]
  /\ last' = Nothing
  /\ UNCHANGED <<runs, head, touched, marks>>

(* mark_review_finding: one write, on the first finding with the number. *)
Unmarked(f) == IF f.thread = NoThread THEN "abierto" ELSE "posteado"
MarkFinding(r, id, estado) ==
  LET i == Min({k \in DOMAIN runs[r].findings : runs[r].findings[k].id = id})
  IN  /\ r \in Live /\ id \in Ids(runs[r].findings)
      /\ runs' = [runs EXCEPT ![r].findings[i].estado =
                    IF estado \in Discards THEN estado ELSE Unmarked(runs[r].findings[i])]
      /\ marks < MaxMarks /\ marks' = marks + 1
      /\ last' = Nothing
      /\ UNCHANGED <<head, touched, jobs>>

(* delete_review_run, and delete_review_runs_for_pr with the workspace purge. *)
Delete(rows) ==
  /\ rows # {} /\ rows \subseteq Live
  /\ Cardinality((DOMAIN runs \ Live) \cup rows) <= MaxDeletes
  /\ Cardinality(rows) = 1 \/ rows = Live
  /\ runs' = [r \in DOMAIN runs |-> [runs[r] EXCEPT !.live = @ /\ r \notin rows]]
  /\ last' = Nothing
  /\ UNCHANGED <<head, touched, jobs, marks>>

MemoryNext ==
  \/ \E files \in SUBSET File : Push(files)
  \/ \E j \in Jobs :
       \/ ResolveHead(j) \/ NothingChanged(j) \/ LoadPrevious(j) \/ Store(j) \/ Drop(j)
       \/ \E level \in Level : Ask(j, level)
       \/ \E found \in Answers : Answer(j, found)
  \/ \E r \in Live : \E id \in Ids(runs[r].findings), estado \in Discards \cup {"abierto"} :
       MarkFinding(r, id, estado)
  \/ \E rows \in SUBSET Live : Delete(rows)

MemorySpec == Init /\ [][MemoryNext]_memoryVars

-----------------------------------------------------------------------------
(* Properties. *)

Findings ==
  [id : Nat, place : Place, estado : States, thread : Nat, nivel : 0..3]

(* Types, and that a finding cannot be posted without a thread to prove it. *)
MemoryTypeOK ==
  /\ head = Len(touched) + 1
  /\ \A n \in DOMAIN touched : touched[n] \subseteq File
  /\ \A r \in DOMAIN runs :
       /\ runs[r].live \in BOOLEAN /\ runs[r].sha \in 1..head
       /\ \A f \in ToSet(runs[r].findings) :
            f \in Findings /\ (f.estado = "posteado" => f.thread # NoThread)
  /\ \A j \in Jobs : jobs[j].pc \in {"idle", "fetched", "asking", "counted", "storing"}

(* Stable ids are stable because they are unique: two findings of one run  *)
(* never share a number, whatever collided on file and category            *)
(* (BUG-REVIEW-b).                                                         *)
IdsAreDistinct ==
  \A r \in DOMAIN runs : \A i, k \in DOMAIN runs[r].findings :
    runs[r].findings[i].id = runs[r].findings[k].id => i = k

(* A re-review forgets nothing: every finding of the run it continued is   *)
(* in the new one under the same number, with its thread, with the human   *)
(* decision or resolution it had; an active one stays as it was or is      *)
(* resolved.                                                               *)
MemoryIsCarried ==
  last.kind = "delta" =>
    \A f \in ToSet(last.prev) : \E g \in ToSet(last.merged) :
      /\ g.id = f.id /\ g.place = f.place /\ g.thread = f.thread
      /\ g.estado = f.estado \/ (IsActive(f) /\ g.estado = "resuelto")

(* A finding that was not active in the previous run and is reported again *)
(* as new starts clean: an unused number, open, no thread.                 *)
ReappearingStartsOver ==
  last.kind = "delta" =>
    \A i \in DOMAIN last.merged : last.merged[i].id \notin Ids(last.prev) =>
      /\ i <= Len(last.found)
      /\ last.merged[i].estado = "abierto" /\ last.merged[i].thread = NoThread
      /\ \A n \in Ids(last.prev) \cup Ids(last.found) : last.merged[i].id > n

(* An open finding the answer restates is never filed as new while its     *)
(* open row is left to be resolved: for each place, as many open rows are  *)
(* kept as the answer restates, up to the number there were.               *)
RestatedIsNotRefiled ==
  last.kind = "delta" =>
    \A p \in Place :
      LET open(fs) == {f.id : f \in {g \in ToSet(fs) : g.place = p /\ g.estado # "resuelto"}}
          restated == {i \in DOMAIN last.found : last.found[i].place = p}
          kept     == open(last.merged) \cap open(last.prev)
      IN  Cardinality(kept) >= Min({Cardinality(restated), Cardinality(open(last.prev))})

Resolved(f) ==
  IsActive(f) /\ \E g \in ToSet(last.merged) : g.id = f.id /\ g.estado = "resuelto"

(* A finding is resolved only if its file moved, up to path suffixes,      *)
(* between the commit of the run whose findings these are and the commit   *)
(* compared with it, when that run is the one the diff was taken against:  *)
(* no other one was stored, and it was not deleted, while the model was    *)
(* thinking.  Two findings are not covered, as the code resolves both on   *)
(* silence alone: one of a review whose comparison failed, which counts as *)
(* a full review (ReviewRun.cs:137-138), and one that names no file.       *)
ResolvedMeansMoved ==
  last.kind = "delta" /\ last.base = last.row /\ last.changed # Unknown =>
    \A f \in ToSet(last.prev) :
      Resolved(f) /\ FileOf[f.place] # NoFile =>
        FileInChanged(FileOf[f.place], ChangedFilesBetween(runs[last.row].sha, last.at))

(* What the comments claim and the code does not keep. *)

(* ReviewMemory.cs:364: resolved means its file was re-reviewed.           *)
ResolvedWasReviewed ==
  last.kind = "delta" =>
    \A f \in ToSet(last.prev) : Resolved(f) => FileOf[f.place] \in last.read \cup {NoFile}
=============================================================================
