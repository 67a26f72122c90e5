-------------------------------- MODULE Runner --------------------------------
(***************************************************************************)
(* The collection runner: one loop over the iterations of a list of        *)
(* requests, each of which may fail or name the request to run next, with  *)
(* a ceiling on what is executed, a Stop button, and a modal that can be   *)
(* closed while the loop goes on.  A request is its place in the list; a   *)
(* scope is the set of the iterations that wrote in it.                    *)
(***************************************************************************)
EXTENDS Naturals, Sequences

CONSTANTS
  PlanLength, Iterations,  \* requests chosen, and iterations asked for
  ExecutionCap,            \* 2000 in the code
  MaxRuns, MaxModals, MaxRunnerOps  \* bounds

\* The Run button asks for a request, and run for an iteration at least.
ASSUME RunnerPlan ==
  {PlanLength, Iterations} \subseteq Nat \ {0} /\ {ExecutionCap, MaxRuns, MaxModals, MaxRunnerOps} \subseteq Nat

VARIABLES
  modal,          \* the modals opened so far: the last one may be on screen
  modalOpen,
  abortRef,       \* abortRef[m]: the ref of modal m, shared by its runs
  runs,           \* the runs started so far
  runnerRunning, runnerReport,  \* apiRuntimeStore; the report is named by its run
  runnerOps       \* how many things the user and the scripts have decided

runnerVars == <<modal, modalOpen, abortRef, runs, runnerRunning, runnerReport, runnerOps>>

Item == [iteration : 1 .. Iterations, request : 1 .. PlanLength]
Ends == {"plan", "stopped", "failed", "cap"}

RunnerTypeOK ==
  /\ modal \in 0 .. MaxModals /\ modalOpen \in BOOLEAN
  /\ abortRef \in [1 .. MaxModals -> BOOLEAN]
  /\ Len(runs) <= MaxRuns
  /\ \A r \in DOMAIN runs : /\ runs[r].modal \in 1 .. modal /\ runs[r].at \in {"loop", "executing"} \cup Ends
                            /\ runs[r].executed \in 0 .. ExecutionCap
                            /\ \A i \in DOMAIN runs[r].items : runs[r].items[i] \in Item
  /\ runnerRunning \in BOOLEAN /\ runnerReport \in 0 .. Len(runs) /\ runnerOps \in 0 .. MaxRunnerOps

RunnerInit ==
  /\ modal = 0 /\ modalOpen = FALSE /\ abortRef = [m \in 1 .. MaxModals |-> FALSE]
  /\ runs = <<>> /\ runnerRunning = FALSE /\ runnerReport = 0 /\ runnerOps = 0

(* ------------------------------- the modal ------------------------------- *)

OpenRunner ==
  /\ ~modalOpen /\ modal < MaxModals
  /\ modal' = modal + 1 /\ modalOpen' = TRUE
  /\ UNCHANGED <<abortRef, runs, runnerRunning, runnerReport>>

\* Unmounting tells the loop to stop, which it does at its next check.
CloseRunner ==
  /\ modalOpen /\ modalOpen' = FALSE
  /\ abortRef' = [abortRef EXCEPT ![modal] = TRUE]
  /\ runnerRunning' = FALSE
  /\ UNCHANGED <<modal, runs, runnerReport>>

StopRun ==
  /\ modalOpen /\ runnerRunning
  /\ abortRef' = [abortRef EXCEPT ![modal] = TRUE]
  /\ UNCHANGED <<modal, modalOpen, runs, runnerRunning, runnerReport>>

StartRun(stopOnError) ==
  /\ modalOpen /\ ~runnerRunning /\ Len(runs) < MaxRuns
  /\ runs' = Append(runs, [modal |-> modal, stopOnError |-> stopOnError, at |-> "loop", iteration |-> 1,
                           index |-> 1, executed |-> 0, items |-> <<>>, jumped |-> FALSE, locals |-> {}])
  /\ abortRef' = [abortRef EXCEPT ![modal] = FALSE]
  /\ runnerRunning' = TRUE /\ runnerReport' = 0
  /\ UNCHANGED <<modal, modalOpen>>

(* -------------------------------- the loop ------------------------------- *)

\* The report goes to the store whoever started a run since.
Finish(r, why) ==
  /\ runs' = [runs EXCEPT ![r].at = why]
  /\ runnerReport' = r /\ runnerRunning' = FALSE
  /\ UNCHANGED <<modal, modalOpen, abortRef>>

Aborts(r) == runs[r].at = "loop" /\ abortRef[runs[r].modal] /\ Finish(r, "stopped")

AtCap(r) ==
  /\ runs[r].at = "loop" /\ ~abortRef[runs[r].modal]
  /\ runs[r].executed >= ExecutionCap /\ Finish(r, "cap")

Execute(r) ==
  /\ runs[r].at = "loop" /\ ~abortRef[runs[r].modal]
  /\ runs[r].executed < ExecutionCap
  /\ runs' = [runs EXCEPT ![r].at = "executing", ![r].executed = @ + 1]
  /\ UNCHANGED <<modal, modalOpen, abortRef, runnerRunning, runnerReport>>

Executed(r) == [runs[r] EXCEPT !.items = Append(@, [iteration |-> runs[r].iteration, request |-> runs[r].index]),
                               !.locals = @ \cup {runs[r].iteration}, !.at = "loop"]

\* A failed request or assertion ends the run when it was asked to.
FailAndStop(r) ==
  /\ runs[r].at = "executing" /\ runs[r].stopOnError
  /\ runs' = [runs EXCEPT ![r] = [Executed(r) EXCEPT !.at = "failed"]]
  /\ runnerReport' = r /\ runnerRunning' = FALSE
  /\ UNCHANGED <<modal, modalOpen, abortRef>>

\* setNextRequest, forward or back, within the list of this iteration.
Jump(r, target) ==
  /\ runs[r].at = "executing"
  /\ runs' = [runs EXCEPT ![r] = [Executed(r) EXCEPT !.index = target, !.jumped = TRUE]]
  /\ UNCHANGED <<modal, modalOpen, abortRef, runnerRunning, runnerReport>>

GoOn(r) ==
  /\ runs[r].at = "executing" /\ runs[r].index < PlanLength
  /\ runs' = [runs EXCEPT ![r] = [Executed(r) EXCEPT !.index = @ + 1]]
  /\ UNCHANGED <<modal, modalOpen, abortRef, runnerRunning, runnerReport>>

\* Locals are per iteration.
\* Faulty variant: they are carried into the next one, as the other scopes are.
NextIterationCarried(r) ==
  /\ runs[r].at = "executing" /\ runs[r].index = PlanLength /\ runs[r].iteration < Iterations
  /\ runs' = [runs EXCEPT ![r] = [Executed(r) EXCEPT !.index = 1, !.iteration = @ + 1]]
  /\ UNCHANGED <<modal, modalOpen, abortRef, runnerRunning, runnerReport>>
NextIteration(r) ==
  /\ runs[r].at = "executing" /\ runs[r].index = PlanLength /\ runs[r].iteration < Iterations
  /\ runs' = [runs EXCEPT ![r] = [Executed(r) EXCEPT !.index = 1, !.iteration = @ + 1, !.locals = {}]]
  /\ UNCHANGED <<modal, modalOpen, abortRef, runnerRunning, runnerReport>>

PlanDone(r) ==
  /\ runs[r].at = "executing" /\ runs[r].index = PlanLength /\ runs[r].iteration = Iterations
  /\ runs' = [runs EXCEPT ![r] = [Executed(r) EXCEPT !.at = "plan"]]
  /\ runnerReport' = r /\ runnerRunning' = FALSE
  /\ UNCHANGED <<modal, modalOpen, abortRef>>

RunnerNext ==
  \/ /\ runnerOps < MaxRunnerOps /\ runnerOps' = runnerOps + 1
     /\ \/ OpenRunner \/ CloseRunner \/ StopRun
        \/ \E stopOnError \in BOOLEAN : StartRun(stopOnError)
        \/ \E r \in DOMAIN runs, target \in 1 .. PlanLength : Jump(r, target)
  \/ /\ UNCHANGED runnerOps
     /\ \E r \in DOMAIN runs :
          \/ Aborts(r) \/ AtCap(r) \/ Execute(r) \/ FailAndStop(r)
          \/ GoOn(r) \/ NextIteration(r) \/ PlanDone(r)

RunnerSpec == RunnerInit /\ [][RunnerNext]_runnerVars

(* ------------------------------- properties ------------------------------ *)

WholePlan == [i \in 1 .. Iterations * PlanLength |->
  [iteration |-> (i - 1) \div PlanLength + 1, request |-> ((i - 1) % PlanLength) + 1]]

\* A run executes at most the ceiling, whatever its scripts jump to; one that
\* ends by itself without a jump has executed every request of every iteration
\* once, in order; and no request sees a local of another iteration.
ARunKeepsToItsPlan ==
  \A r \in DOMAIN runs :
    /\ Len(runs[r].items) <= ExecutionCap
    /\ runs[r].at = "plan" /\ ~runs[r].jumped => runs[r].items = WholePlan
    /\ runs[r].at = "executing" => runs[r].locals \subseteq {runs[r].iteration}

==============================================================================
