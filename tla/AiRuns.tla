------------------------------- MODULE AiRuns -------------------------------
(***************************************************************************)
(* One AI invocation from the command that asks for it to the outcome the  *)
(* renderer sees: Ai/AiEngineRunner.cs (attempts, the single retry, the    *)
(* scratch files) around Ai/AiRunRegistry.cs (the stop handle, the child   *)
(* process, its two pipe readers, the silence deadline) and the stop       *)
(* button of renderer/src/state/aiRunStore.ts.                             *)
(*                                                                         *)
(* Run ids are minted per invocation (newRunId, the job id), so a run is   *)
(* identified with its id; the two attempts of one invocation share it.    *)
(***************************************************************************)
EXTENDS Naturals

CONSTANTS Runs,      \* the invocations
          MaxLines   \* bound: lines the children of one invocation print

ASSUME MaxLinesAssumption == MaxLines \in Nat

Streams == {"stdout", "stderr"}

(* AiEngineRunner makes one attempt and at most one more. *)
MaxAttempts == 2

VARIABLES
  pc,         \* where the invocation is
  transport,  \* "process" (a CLI) or "http" (Ollama, OpenAI-compatible)
  writes,     \* AutoApproveEdits: the run may edit files
  attempt,    \* calls of RunAsync made so far; also names the call's source
  runs,       \* the registry: the call whose source the id maps to, 0 if none
  child,      \* the child process of the current attempt
  code,       \* how that child ended, as Interpret will read it
  held,       \* a descendant of an exited child keeps its pipes open
  pumps,      \* the two pipe readers of the current attempt
  scratch,    \* the attempt's scratch files exist
  stopped,    \* the current source was cancelled by the stop button
  expired,    \* the current silence deadline fired
  dropped,    \* the caller's own token was cancelled
  cause,      \* history: which of the three cancelled this attempt first
  recorded,   \* lines in the run's trace
  published,  \* ai:output events sent
  stop,       \* the stop request: not made, asked, looked up, answered
  target,     \* the call whose source Cancel found
  result      \* what the invocation ended with

askVars    == <<stop, target>>
signalVars == <<stopped, expired, dropped, cause>>
traceVars  == <<recorded, published>>
childVars  == <<child, code, held>>
fixedVars  == <<transport, writes>>
vars == <<pc, attempt, runs, pumps, scratch, result,
          fixedVars, childVars, signalVars, traceVars, askVars>>

Codes == {"ok", "partial", "error", "unreachable"}

TypeOK ==
  /\ pc \in [Runs -> {"idle", "setup", "http", "between", "registered", "running",
                      "draining", "killing", "quiescing", "leaving", "settled"}]
  /\ transport \in [Runs -> {"process", "http"}]
  /\ writes \in [Runs -> BOOLEAN]
  /\ attempt \in [Runs -> 0..MaxAttempts]
  /\ runs \in [Runs -> 0..MaxAttempts]
  /\ child \in [Runs -> {"none", "running", "exited", "killed", "refused"}]
  /\ code \in [Runs -> Codes \cup {"none", "launch", "cancelled", "timeout"}]
  /\ held \in [Runs -> BOOLEAN]
  /\ pumps \in [Runs -> [Streams -> {"none", "reading", "emitting", "done", "failed"}]]
  /\ scratch \in [Runs -> BOOLEAN]
  /\ stopped \in [Runs -> BOOLEAN]
  /\ expired \in [Runs -> BOOLEAN]
  /\ dropped \in [Runs -> BOOLEAN]
  /\ cause \in [Runs -> {"none", "stop", "deadline", "caller"}]
  /\ recorded \in [Runs -> 0..MaxLines]
  /\ published \in [Runs -> 0..MaxLines]
  /\ stop \in [Runs -> {"none", "asked", "found", "true", "false"}]
  /\ target \in [Runs -> 0..MaxAttempts]
  /\ result \in [Runs -> {"none", "reply", "failed", "cancelled", "timeout"}]

Init ==
  /\ pc = [r \in Runs |-> "idle"]
  /\ transport \in [Runs -> {"process", "http"}]
  /\ writes \in [Runs -> BOOLEAN]
  /\ attempt = [r \in Runs |-> 0]
  /\ runs = [r \in Runs |-> 0]
  /\ child = [r \in Runs |-> "none"]
  /\ code = [r \in Runs |-> "none"]
  /\ held = [r \in Runs |-> FALSE]
  /\ pumps = [r \in Runs |-> [s \in Streams |-> "none"]]
  /\ scratch = [r \in Runs |-> FALSE]
  /\ stopped = [r \in Runs |-> FALSE]
  /\ expired = [r \in Runs |-> FALSE]
  /\ dropped = [r \in Runs |-> FALSE]
  /\ cause = [r \in Runs |-> "none"]
  /\ recorded = [r \in Runs |-> 0]
  /\ published = [r \in Runs |-> 0]
  /\ stop = [r \in Runs |-> "none"]
  /\ target = [r \in Runs |-> 0]
  /\ result = [r \in Runs |-> "none"]

-----------------------------------------------------------------------------
(* `lifetime` is linked to the caller's token and to the deadline, and the *)
(* registry hands it to Cancel: any of the three cancels it.               *)
Signalled(r) == stopped[r] \/ expired[r] \/ dropped[r]

(* The `using` sources of a call are disposed once RunAsync has returned.  *)
Disposed(r, n) == n < attempt[r] \/ pc[r] \in {"between", "settled"}

(* RunAsync of the current attempt is on the stack. *)
InCall(r) == pc[r] \in {"registered", "running", "draining", "killing",
                        "quiescing", "leaving"}

-----------------------------------------------------------------------------
(* The invocation.                                                         *)

(* The command is dispatched; it reads settings and builds its payload.    *)
Start(r) ==
  /\ pc[r] = "idle"
  /\ pc' = [pc EXCEPT ![r] = "setup"]
  /\ UNCHANGED <<attempt, runs, pumps, scratch, result, fixedVars, childVars,
                 signalVars, traceVars, askVars>>

(* Nothing to summarise, a missing project, an unreadable setting.         *)
SetupFails(r) ==
  /\ pc[r] = "setup"
  /\ pc' = [pc EXCEPT ![r] = "settled"]
  /\ result' = [result EXCEPT ![r] = "failed"]
  /\ UNCHANGED <<attempt, runs, pumps, scratch, fixedVars, childVars,
                 signalVars, traceVars, askVars>>

(* The HTTP transports never reach the registry. *)
SendHttp(r) ==
  /\ pc[r] = "setup" /\ transport[r] = "http"
  /\ pc' = [pc EXCEPT ![r] = "http"]
  /\ UNCHANGED <<attempt, runs, pumps, scratch, result, fixedVars, childVars,
                 signalVars, traceVars, askVars>>

HttpSettles(r) ==
  /\ pc[r] = "http"
  /\ pc' = [pc EXCEPT ![r] = "settled"]
  /\ \E o \in {"reply", "failed"} \cup (IF dropped[r] THEN {"cancelled"} ELSE {}) :
        result' = [result EXCEPT ![r] = o]
  /\ UNCHANGED <<attempt, runs, pumps, scratch, fixedVars, childVars,
                 signalVars, traceVars, askVars>>

(* AttemptAsync writes the scratch files and calls RunAsync, which         *)
(* registers its source under the id before it spawns anything.            *)
Attempt(r) ==
  /\ \/ pc[r] = "setup" /\ transport[r] = "process"
     \/ pc[r] = "between"
  /\ attempt' = [attempt EXCEPT ![r] = @ + 1]
  /\ runs' = [runs EXCEPT ![r] = attempt[r] + 1]
  /\ pc' = [pc EXCEPT ![r] = "registered"]
  /\ scratch' = [scratch EXCEPT ![r] = TRUE]
  /\ child' = [child EXCEPT ![r] = "none"]
  /\ code' = [code EXCEPT ![r] = "none"]
  /\ held' = [held EXCEPT ![r] = FALSE]
  /\ pumps' = [pumps EXCEPT ![r] = [s \in Streams |-> "none"]]
  /\ stopped' = [stopped EXCEPT ![r] = FALSE]
  /\ expired' = [expired EXCEPT ![r] = FALSE]
  /\ cause' = [cause EXCEPT ![r] = IF dropped[r] THEN "caller" ELSE "none"]
  /\ UNCHANGED <<dropped, result, fixedVars, traceVars, askVars>>

(* Process.Start throws before the try block: RunAsync leaves with its     *)
(* entry still in the registry.                                            *)
SpawnFails(r) ==
  /\ pc[r] = "registered"
  /\ code' = [code EXCEPT ![r] = "launch"]
  /\ pc' = [pc EXCEPT ![r] = "leaving"]
  /\ UNCHANGED <<attempt, runs, child, held, pumps, scratch, result, fixedVars,
                 signalVars, traceVars, askVars>>

Spawn(r) ==
  /\ pc[r] = "registered"
  /\ child' = [child EXCEPT ![r] = "running"]
  /\ pumps' = [pumps EXCEPT ![r] = [s \in Streams |-> "reading"]]
  /\ pc' = [pc EXCEPT ![r] = "running"]
  /\ UNCHANGED <<attempt, runs, code, held, scratch, result, fixedVars,
                 signalVars, traceVars, askVars>>

(* WaitForExitAsync answers, or observes the cancelled source.             *)
WaitReturns(r) ==
  /\ pc[r] = "running" /\ child[r] = "exited"
  /\ pc' = [pc EXCEPT ![r] = "draining"]
  /\ UNCHANGED <<attempt, runs, pumps, scratch, result, fixedVars, childVars,
                 signalVars, traceVars, askVars>>

WaitInterrupted(r) ==
  /\ pc[r] = "running" /\ Signalled(r)
  /\ pc' = [pc EXCEPT ![r] = "killing"]
  /\ UNCHANGED <<attempt, runs, pumps, scratch, result, fixedVars, childVars,
                 signalVars, traceVars, askVars>>

(* Faulty variant: the reply does not wait for stderr. *)
DrainReturnsEarly(r) ==
  /\ pc[r] = "draining"
  /\ pumps[r]["stdout"] = "done"
  /\ runs' = [runs EXCEPT ![r] = 0]
  /\ pc' = [pc EXCEPT ![r] = "leaving"]
  /\ UNCHANGED <<attempt, pumps, scratch, result, fixedVars, childVars,
                 signalVars, traceVars, askVars>>

(* The readers are awaited in order, and not against the source.  The      *)
(* finally block takes the id out of the registry.                         *)
DrainReturns(r) ==
  /\ pc[r] = "draining"
  /\ \A s \in Streams : pumps[r][s] = "done"
  /\ runs' = [runs EXCEPT ![r] = 0]
  /\ pc' = [pc EXCEPT ![r] = "leaving"]
  /\ UNCHANGED <<attempt, pumps, scratch, result, fixedVars, childVars,
                 signalVars, traceVars, askVars>>

DrainFails(r) ==
  /\ pc[r] = "draining"
  /\ \/ pumps[r]["stdout"] = "failed"
     \/ pumps[r]["stdout"] = "done" /\ pumps[r]["stderr"] = "failed"
  /\ pc' = [pc EXCEPT ![r] = "killing"]
  /\ UNCHANGED <<attempt, runs, pumps, scratch, result, fixedVars, childVars,
                 signalVars, traceVars, askVars>>

(* Faulty variant: the child is not signalled at all. *)
KillSkipped(r) ==
  /\ pc[r] = "killing" /\ child[r] = "running"
  /\ pc' = [pc EXCEPT ![r] = "quiescing"]
  /\ UNCHANGED <<attempt, runs, pumps, scratch, result, fixedVars, childVars,
                 signalVars, traceVars, askVars>>

(* TryKillTree: nothing if the child has exited, and a refusal of the      *)
(* platform is swallowed.                                                  *)
KillTree(r) ==
  /\ pc[r] = "killing" /\ child[r] = "running"
  /\ \E refused \in BOOLEAN :
       /\ child' = [child EXCEPT ![r] = IF refused THEN "refused" ELSE "killed"]
       /\ held' = [held EXCEPT ![r] = refused]
  /\ pc' = [pc EXCEPT ![r] = "quiescing"]
  /\ UNCHANGED <<attempt, runs, code, pumps, scratch, result, fixedVars,
                 signalVars, traceVars, askVars>>

KillNobody(r) ==
  /\ pc[r] = "killing" /\ child[r] # "running"
  /\ pc' = [pc EXCEPT ![r] = "quiescing"]
  /\ UNCHANGED <<attempt, runs, pumps, scratch, result, fixedVars, childVars,
                 signalVars, traceVars, askVars>>

(* Faulty variants: the readers awaited outright, and a verdict that asks  *)
(* only whether the caller is still there.                                 *)
QuiescedOutright(r) ==
  /\ pc[r] = "quiescing"
  /\ \A s \in Streams : pumps[r][s] \in {"none", "done", "failed"}
  /\ code' = [code EXCEPT ![r] =
                IF expired[r] /\ ~dropped[r] THEN "timeout" ELSE "cancelled"]
  /\ runs' = [runs EXCEPT ![r] = 0]
  /\ pc' = [pc EXCEPT ![r] = "leaving"]
  /\ UNCHANGED <<attempt, child, held, pumps, scratch, result, fixedVars,
                 signalVars, traceVars, askVars>>

QuiescedMisread(r) ==
  /\ pc[r] = "quiescing"
  /\ code' = [code EXCEPT ![r] = IF dropped[r] THEN "cancelled" ELSE "timeout"]
  /\ runs' = [runs EXCEPT ![r] = 0]
  /\ pc' = [pc EXCEPT ![r] = "leaving"]
  /\ UNCHANGED <<attempt, child, held, pumps, scratch, result, fixedVars,
                 signalVars, traceVars, askVars>>

(* QuiesceAsync waits for both readers or for its grace period, whichever  *)
(* comes first; then the verdict, and the id leaves the registry.          *)
Quiesced(r) ==
  /\ pc[r] = "quiescing"
  /\ code' = [code EXCEPT ![r] =
                IF expired[r] /\ ~dropped[r] THEN "timeout" ELSE "cancelled"]
  /\ runs' = [runs EXCEPT ![r] = 0]
  /\ pc' = [pc EXCEPT ![r] = "leaving"]
  /\ UNCHANGED <<attempt, child, held, pumps, scratch, result, fixedVars,
                 signalVars, traceVars, askVars>>

(* SubprocessAsync repeats an attempt that never reached the network, once *)
(* and only when the run could not have edited anything.                   *)
Repeatable(r) == ~writes[r] /\ code[r] = "unreachable" /\ attempt[r] < MaxAttempts

Outcome(r) ==
  CASE code[r] = "ok" -> "reply"
    [] code[r] = "timeout" -> "timeout"
    [] code[r] = "cancelled" -> "cancelled"
    [] OTHER -> "failed"

(* RunAsync returns, disposing its sources; AttemptAsync interprets what   *)
(* it got and deletes the scratch files on every way out.                  *)
Repeat(r) ==
  /\ pc[r] = "leaving" /\ Repeatable(r)
  /\ scratch' = [scratch EXCEPT ![r] = FALSE]
  /\ pc' = [pc EXCEPT ![r] = "between"]
  /\ UNCHANGED <<attempt, runs, pumps, result, fixedVars, childVars, signalVars,
                 traceVars, askVars>>

Settle(r) ==
  /\ pc[r] = "leaving" /\ ~Repeatable(r)
  /\ scratch' = [scratch EXCEPT ![r] = FALSE]
  /\ pc' = [pc EXCEPT ![r] = "settled"]
  /\ result' = [result EXCEPT ![r] = Outcome(r)]
  /\ UNCHANGED <<attempt, runs, pumps, fixedVars, childVars, signalVars,
                 traceVars, askVars>>

-----------------------------------------------------------------------------
(* The child process and the readers of its pipes.                         *)

ChildExits(r) ==
  /\ child[r] = "running"
  /\ child' = [child EXCEPT ![r] = "exited"]
  /\ \E c \in Codes, h \in BOOLEAN :
        /\ code' = [code EXCEPT ![r] = c]
        /\ held' = [held EXCEPT ![r] = h]
  /\ UNCHANGED <<pc, attempt, runs, pumps, scratch, result, fixedVars,
                 signalVars, traceVars, askVars>>

DescendantExits(r) ==
  /\ held[r] /\ child[r] = "exited"
  /\ held' = [held EXCEPT ![r] = FALSE]
  /\ UNCHANGED <<pc, attempt, runs, child, code, pumps, scratch, result,
                 fixedVars, signalVars, traceVars, askVars>>

(* A read: the deadline starts over (nothing, once it has fired), and the  *)
(* line joins the trace.                                                   *)
PumpReads(r, s) ==
  /\ pumps[r][s] = "reading"
  /\ recorded[r] < MaxLines
  /\ recorded' = [recorded EXCEPT ![r] = @ + 1]
  /\ pumps' = [pumps EXCEPT ![r][s] = "emitting"]
  /\ UNCHANGED <<pc, attempt, runs, scratch, result, published, fixedVars,
                 childVars, signalVars, askVars>>

PumpPublishes(r, s) ==
  /\ pumps[r][s] = "emitting"
  /\ published' = [published EXCEPT ![r] = @ + 1]
  /\ pumps' = [pumps EXCEPT ![r][s] = "reading"]
  /\ UNCHANGED <<pc, attempt, runs, scratch, result, recorded, fixedVars,
                 childVars, signalVars, askVars>>

(* A cancelled publish throws; a cancelled read may, but a blocked one is  *)
(* not reliably interruptible.  Closing the process closes the streams.    *)
PumpInterrupted(r, s) ==
  /\ pumps[r][s] \in {"reading", "emitting"}
  /\ Signalled(r)
  /\ pumps' = [pumps EXCEPT ![r][s] = "failed"]
  /\ UNCHANGED <<pc, attempt, runs, scratch, result, fixedVars, childVars,
                 signalVars, traceVars, askVars>>

(* End of file, once nobody holds the writing end. *)
PumpEnds(r, s) ==
  /\ pumps[r][s] = "reading"
  /\ child[r] \in {"exited", "killed"} /\ ~held[r]
  /\ pumps' = [pumps EXCEPT ![r][s] = "done"]
  /\ UNCHANGED <<pc, attempt, runs, scratch, result, fixedVars, childVars,
                 signalVars, traceVars, askVars>>

-----------------------------------------------------------------------------
(* The three ways of cancelling.                                           *)

Blame(r, c) == [cause EXCEPT ![r] = IF Signalled(r) THEN @ ELSE c]

(* Faulty variant: the first line disarms the deadline for good. *)
DeadlineDisarmed(r) ==
  /\ InCall(r) /\ ~expired[r] /\ recorded[r] = 0
  /\ expired' = [expired EXCEPT ![r] = TRUE]
  /\ cause' = Blame(r, "deadline")
  /\ UNCHANGED <<pc, attempt, runs, pumps, scratch, result, stopped, dropped,
                 fixedVars, childVars, traceVars, askVars>>

(* The deadline bounds silence, so it may fire at any point of a call whose *)
(* child has stopped talking.                                              *)
DeadlineFires(r) ==
  /\ InCall(r) /\ ~expired[r]
  /\ expired' = [expired EXCEPT ![r] = TRUE]
  /\ cause' = Blame(r, "deadline")
  /\ UNCHANGED <<pc, attempt, runs, pumps, scratch, result, stopped, dropped,
                 fixedVars, childVars, traceVars, askVars>>

CallerDrops(r) ==
  /\ pc[r] \notin {"idle", "settled"} /\ ~dropped[r]
  /\ dropped' = [dropped EXCEPT ![r] = TRUE]
  /\ cause' = Blame(r, "caller")
  /\ UNCHANGED <<pc, attempt, runs, pumps, scratch, result, stopped, expired,
                 fixedVars, childVars, traceVars, askVars>>

(* aiRunStore.cancel: the button is there while the run is active, and     *)
(* disabled after the first press.                                         *)
AskStop(r) ==
  /\ pc[r] \notin {"idle", "settled"} /\ stop[r] = "none"
  /\ stop' = [stop EXCEPT ![r] = "asked"]
  /\ UNCHANGED <<pc, attempt, runs, pumps, scratch, result, target, fixedVars,
                 childVars, signalVars, traceVars>>

(* AiRunRegistry.Cancel: look the source up, then cancel it; a source      *)
(* disposed in between answers false.                                      *)
CancelMisses(r) ==
  /\ stop[r] = "asked" /\ runs[r] = 0
  /\ stop' = [stop EXCEPT ![r] = "false"]
  /\ UNCHANGED <<pc, attempt, runs, pumps, scratch, result, target, fixedVars,
                 childVars, signalVars, traceVars>>

CancelFinds(r) ==
  /\ stop[r] = "asked" /\ runs[r] # 0
  /\ stop' = [stop EXCEPT ![r] = "found"]
  /\ target' = [target EXCEPT ![r] = runs[r]]
  /\ UNCHANGED <<pc, attempt, runs, pumps, scratch, result, fixedVars,
                 childVars, signalVars, traceVars>>

CancelTooLate(r) ==
  /\ stop[r] = "found" /\ Disposed(r, target[r])
  /\ stop' = [stop EXCEPT ![r] = "false"]
  /\ UNCHANGED <<pc, attempt, runs, pumps, scratch, result, target, fixedVars,
                 childVars, signalVars, traceVars>>

CancelSignals(r) ==
  /\ stop[r] = "found" /\ ~Disposed(r, target[r])
  /\ stop' = [stop EXCEPT ![r] = "true"]
  /\ stopped' = [stopped EXCEPT ![r] = TRUE]
  /\ cause' = Blame(r, "stop")
  /\ UNCHANGED <<pc, attempt, runs, pumps, scratch, result, target, expired,
                 dropped, fixedVars, childVars, traceVars>>

-----------------------------------------------------------------------------
Invocation(r) ==
  \/ Start(r) \/ SetupFails(r) \/ SendHttp(r) \/ HttpSettles(r)
  \/ Attempt(r) \/ SpawnFails(r) \/ Spawn(r)
  \/ WaitReturns(r) \/ WaitInterrupted(r)
  \/ DrainReturns(r) \/ DrainFails(r)
  \/ KillTree(r) \/ KillNobody(r) \/ Quiesced(r)
  \/ Repeat(r) \/ Settle(r)

Pump(r, s) ==
  PumpReads(r, s) \/ PumpPublishes(r, s) \/ PumpInterrupted(r, s) \/ PumpEnds(r, s)

Environment(r) == ChildExits(r) \/ DescendantExits(r) \/ DeadlineFires(r) \/ CallerDrops(r)

Cancel(r) ==
  CancelMisses(r) \/ CancelFinds(r) \/ CancelTooLate(r) \/ CancelSignals(r)

Next ==
  \E r \in Runs :
    \/ Invocation(r)
    \/ \E s \in Streams : Pump(r, s)
    \/ Environment(r)
    \/ AskStop(r) \/ Cancel(r)

Spec == Init /\ [][Next]_vars

(* The task scheduler runs every continuation that is ready, the deadline  *)
(* is a timer, a pipe nobody holds ends.  Nothing makes a child exit, a    *)
(* descendant exit, a blocked read give up or the HTTP server answer.      *)
Fairness ==
  \A r \in Runs :
    /\ WF_vars(SetupFails(r) \/ SendHttp(r) \/ Attempt(r))
    /\ WF_vars(SpawnFails(r) \/ Spawn(r))
    /\ WF_vars(WaitReturns(r) \/ WaitInterrupted(r))
    /\ WF_vars(DrainReturns(r) \/ DrainFails(r))
    /\ WF_vars(KillTree(r) \/ KillNobody(r) \/ Quiesced(r))
    /\ WF_vars(Repeat(r) \/ Settle(r))
    /\ WF_vars(DeadlineFires(r))
    /\ WF_vars(Cancel(r))
    /\ \A s \in Streams :
         /\ WF_vars(PumpPublishes(r, s))
         /\ WF_vars(PumpEnds(r, s))

FairSpec == Spec /\ Fairness

-----------------------------------------------------------------------------
(* Safety.                                                                 *)

(* While a child of the run is alive its call is still on the stack, with  *)
(* its own source under the id: there is never a child the stop button     *)
(* cannot reach, nor two children of one run (AiRunRegistry registers      *)
(* before the spawn and deregisters in the finally).                       *)
LiveChildIsReachable ==
  \A r \in Runs : child[r] = "running" =>
    pc[r] \in {"running", "killing"} /\ runs[r] = attempt[r] /\ attempt[r] # 0

(* A run that ended by itself is over: both readers have finished, every   *)
(* recorded line was published, and nothing can join its trace later       *)
(* (RunAsync awaits the readers before it returns).                        *)
CompletedRunIsQuiet ==
  \A r \in Runs : result[r] \in {"reply", "failed"} =>
    /\ \A s \in Streams : pumps[r][s] \in {"none", "done"}
    /\ recorded[r] = published[r]

(* The verdict names a cause that exists: "cancelled" needs a stop that    *)
(* was answered true or a caller that went away, "timeout" needs a         *)
(* deadline that fired before the caller went away.                        *)
OutcomeHasACause ==
  \A r \in Runs :
    /\ result[r] = "cancelled" => dropped[r] \/ stop[r] = "true"
    /\ result[r] = "timeout" => expired[r] /\ cause[r] \in {"deadline", "stop"}

(* A run that may edit files is attempted once: repeating it could apply   *)
(* one change twice (AiEngineRunner.Repeatable).                           *)
WritesAreNeverRepeated ==
  \A r \in Runs : writes[r] => attempt[r] <= 1

(* The scratch files a command names outlive the child and nothing else    *)
(* (AttemptAsync's finally).                                               *)
ScratchSpansTheChild ==
  \A r \in Runs :
    /\ child[r] = "running" => scratch[r]
    /\ pc[r] \in {"between", "settled"} => ~scratch[r]

-----------------------------------------------------------------------------
(* Liveness.                                                               *)

(* A stop answered true ends the invocation, however the child and its     *)
(* pipes behave, unless the child had exited by itself and a descendant of *)
(* it still holds the pipes.                    *)
Drained(r) == pc[r] = "draining" /\ held[r]

StopEndsTheRun ==
  \A r \in Runs : stop[r] = "true" ~> (pc[r] = "settled" \/ Drained(r))

(* So does silence: no child, however stuck, keeps its invocation open.    *)
SilenceEndsTheRun ==
  \A r \in Runs : pc[r] = "registered" ~> (pc[r] = "settled" \/ Drained(r))

-----------------------------------------------------------------------------
(* What comments and docs of the repository say, and the code does not do. *)

(* docs/business-rules/05-ai-engines.md, AI-055: "A cancellation never     *)
(* reaches here", so a run that was stopped is never repeated.             *)
StoppedRunIsNotRepeated ==
  \A r \in Runs : stop[r] = "true" => target[r] = attempt[r]
=============================================================================
