---------------------------- MODULE AiRunsProofs ----------------------------
(* The safety of AiRuns for any set of invocations and any amount of       *)
(* output, from one inductive invariant.                                   *)
EXTENDS AiRuns, TLAPS

(* Lines read by a pump and not yet published. *)
Emitting(r) == (IF pumps[r]["stdout"] = "emitting" THEN 1 ELSE 0)
             + (IF pumps[r]["stderr"] = "emitting" THEN 1 ELSE 0)

(* Where the invocation is says how many attempts there were and which     *)
(* source the id maps to.                                                  *)
Attempts(r) ==
  /\ pc[r] \in {"idle", "setup", "http"} => attempt[r] = 0
  /\ pc[r] = "between" => attempt[r] = 1 /\ ~writes[r]
  /\ InCall(r) => attempt[r] # 0
  /\ InCall(r) /\ pc[r] # "leaving" => runs[r] = attempt[r]
  /\ writes[r] => attempt[r] <= 1

(* What is alive during which part of the call. *)
Lifetimes(r) ==
  /\ child[r] = "running" => pc[r] \in {"running", "killing"}
  /\ InCall(r) <=> scratch[r]
  /\ pc[r] # "settled" => result[r] = "none"
  /\ pc[r] = "draining" => child[r] = "exited"
  /\ pc[r] \in {"running", "draining"} /\ child[r] = "exited" => code[r] \in Codes

(* A line is recorded, then published, unless its reader was cut short;    *)
(* and readers are only cut short in a cancelled attempt.                  *)
Trace(r) ==
  /\ published[r] + Emitting(r) <= recorded[r]
  /\ (\A s \in Streams : pumps[r][s] # "failed") => recorded[r] = published[r] + Emitting(r)
  /\ \A s \in Streams : pumps[r][s] = "failed" => Signalled(r)
  /\ pc[r] \in {"idle", "setup", "http", "registered"} =>
        \A s \in Streams : pumps[r][s] = "none"
  /\ pc[r] = "between" \/ (pc[r] = "leaving" /\ code[r] \notin {"timeout", "cancelled"})
        \/ (pc[r] = "settled" /\ result[r] \in {"reply", "failed"}) =>
        \A s \in Streams : pumps[r][s] \in {"none", "done"}

(* Every cancellation has its cause, and every verdict its cancellation.   *)
Causes(r) ==
  /\ stopped[r] => stop[r] = "true"
  /\ Signalled(r) => cause[r] # "none"
  /\ cause[r] = "caller" => dropped[r]
  /\ pc[r] \in {"killing", "quiescing"} => Signalled(r)
  /\ code[r] = "cancelled" \/ result[r] = "cancelled" => dropped[r] \/ stop[r] = "true"
  /\ (pc[r] = "leaving" /\ code[r] = "timeout") \/ result[r] = "timeout" =>
        expired[r] /\ cause[r] \in {"deadline", "stop"}

IInv == /\ TypeOK
        /\ \A r \in Runs : Attempts(r) /\ Lifetimes(r) /\ Trace(r) /\ Causes(r)

(* Each step of the invocation keeps the invariant. *)
LEMMA InvocationStep ==
  ASSUME IInv, NEW r \in Runs, Invocation(r)
  PROVE  IInv'
<1>1. CASE Start(r)
  BY <1>1, MaxLinesAssumption DEF Start,
     IInv, TypeOK, Attempts, Lifetimes, Trace, Causes, Emitting, InCall, Signalled,
     Streams, MaxAttempts, Codes,
     askVars, signalVars, traceVars, childVars, fixedVars
<1>2. CASE SetupFails(r)
  BY <1>2, MaxLinesAssumption DEF SetupFails,
     IInv, TypeOK, Attempts, Lifetimes, Trace, Causes, Emitting, InCall, Signalled,
     Streams, MaxAttempts, Codes,
     askVars, signalVars, traceVars, childVars, fixedVars
<1>3. CASE SendHttp(r)
  BY <1>3, MaxLinesAssumption DEF SendHttp,
     IInv, TypeOK, Attempts, Lifetimes, Trace, Causes, Emitting, InCall, Signalled,
     Streams, MaxAttempts, Codes,
     askVars, signalVars, traceVars, childVars, fixedVars
<1>4. CASE HttpSettles(r)
  BY <1>4, MaxLinesAssumption DEF HttpSettles,
     IInv, TypeOK, Attempts, Lifetimes, Trace, Causes, Emitting, InCall, Signalled,
     Streams, MaxAttempts, Codes,
     askVars, signalVars, traceVars, childVars, fixedVars
<1>5. CASE Attempt(r)
  <2>1. TypeOK'
    BY <1>5, MaxLinesAssumption DEF Attempt, IInv, TypeOK, MaxAttempts, Codes, Attempts,
     askVars, signalVars, traceVars, childVars, fixedVars
  <2>2. ASSUME NEW q \in Runs PROVE (Attempts(q) /\ Lifetimes(q))'
    <3>1. CASE q = r
      BY <1>5, <3>1 DEF Attempt, IInv, TypeOK, Attempts, Lifetimes, InCall, MaxAttempts, Codes,
     askVars, signalVars, traceVars, childVars, fixedVars
    <3>2. CASE q # r
      BY <1>5, <3>2 DEF Attempt, IInv, TypeOK, Attempts, Lifetimes, InCall, MaxAttempts, Codes,
     askVars, signalVars, traceVars, childVars, fixedVars
    <3>3. QED
      BY <3>1, <3>2
  <2>3. ASSUME NEW q \in Runs PROVE Trace(q)'
    <3>1. CASE q = r
      <4>1. recorded[r] = published[r] /\ recorded' = recorded /\ published' = published
        <5>1. \A s \in Streams : pumps[r][s] \in {"none", "done"}
          BY <1>5 DEF Attempt, IInv, Trace
        <5>2. Emitting(r) = 0 /\ recorded[r] = published[r] + Emitting(r)
          BY <5>1 DEF IInv, Trace, Emitting, Streams
        <5>3. QED
          BY <1>5, <5>2, MaxLinesAssumption DEF Attempt, IInv, TypeOK, traceVars
      <4>2. /\ \A s \in Streams : pumps'[r][s] = "none"
            /\ pc'[r] = "registered"
        BY <1>5 DEF Attempt, IInv, TypeOK
      <4>3. Emitting(r)' = 0
        BY <4>2 DEF Emitting, Streams
      <4>4. published'[r] + 0 <= recorded'[r] /\ recorded'[r] = published'[r] + 0
        BY <4>1, MaxLinesAssumption DEF IInv, TypeOK
      <4>5. QED
        BY <3>1, <4>2, <4>3, <4>4 DEF Trace
    <3>2. CASE q # r
      BY <1>5, <3>2, MaxLinesAssumption DEF Attempt, IInv, TypeOK, Trace, Emitting, Signalled, Lifetimes, Attempts, InCall, Streams, Codes,
     askVars, signalVars, traceVars, childVars, fixedVars
    <3>3. QED
      BY <3>1, <3>2
  <2>4. ASSUME NEW q \in Runs PROVE Causes(q)'
    <3>1. CASE q = r
      <4>1. result'[r] = "none" /\ code'[r] = "none" /\ pc'[r] = "registered"
        BY <1>5 DEF Attempt, IInv, TypeOK, Lifetimes
      <4>2. ~stopped'[r] /\ ~expired'[r] /\ dropped' = dropped
        BY <1>5 DEF Attempt, IInv, TypeOK
      <4>3. cause'[r] = IF dropped[r] THEN "caller" ELSE "none"
        BY <1>5 DEF Attempt, IInv, TypeOK
      <4>4. QED
        BY <3>1, <4>1, <4>2, <4>3 DEF Causes, Signalled
    <3>2. CASE q # r
      BY <1>5, <3>2 DEF Attempt, IInv, TypeOK, Causes, Signalled, Lifetimes, InCall, Codes,
     askVars, signalVars, traceVars, childVars, fixedVars
    <3>3. QED
      BY <3>1, <3>2
  <2>5. QED
    BY <2>1, <2>2, <2>3, <2>4 DEF IInv
<1>6. CASE SpawnFails(r)
  BY <1>6, MaxLinesAssumption DEF SpawnFails,
     IInv, TypeOK, Attempts, Lifetimes, Trace, Causes, Emitting, InCall, Signalled,
     Streams, MaxAttempts, Codes,
     askVars, signalVars, traceVars, childVars, fixedVars
<1>7. CASE Spawn(r)
  BY <1>7, MaxLinesAssumption DEF Spawn,
     IInv, TypeOK, Attempts, Lifetimes, Trace, Causes, Emitting, InCall, Signalled,
     Streams, MaxAttempts, Codes,
     askVars, signalVars, traceVars, childVars, fixedVars
<1>8. CASE WaitReturns(r)
  BY <1>8, MaxLinesAssumption DEF WaitReturns,
     IInv, TypeOK, Attempts, Lifetimes, Trace, Causes, Emitting, InCall, Signalled,
     Streams, MaxAttempts, Codes,
     askVars, signalVars, traceVars, childVars, fixedVars
<1>9. CASE WaitInterrupted(r)
  BY <1>9, MaxLinesAssumption DEF WaitInterrupted,
     IInv, TypeOK, Attempts, Lifetimes, Trace, Causes, Emitting, InCall, Signalled,
     Streams, MaxAttempts, Codes,
     askVars, signalVars, traceVars, childVars, fixedVars
<1>10. CASE DrainReturns(r)
  <2>1. TypeOK'
    BY <1>10, MaxLinesAssumption DEF DrainReturns, IInv, TypeOK, MaxAttempts, Codes,
     askVars, signalVars, traceVars, childVars, fixedVars
  <2>2. ASSUME NEW q \in Runs PROVE (Attempts(q) /\ Lifetimes(q))'
    <3>1. CASE q = r
      BY <1>10, <3>1 DEF DrainReturns, IInv, TypeOK, Attempts, Lifetimes, InCall, MaxAttempts, Codes,
     askVars, signalVars, traceVars, childVars, fixedVars
    <3>2. CASE q # r
      BY <1>10, <3>2 DEF DrainReturns, IInv, TypeOK, Attempts, Lifetimes, InCall, MaxAttempts, Codes,
     askVars, signalVars, traceVars, childVars, fixedVars
    <3>3. QED
      BY <3>1, <3>2
  <2>3. ASSUME NEW q \in Runs PROVE Trace(q)'
    <3>1. CASE q = r
      BY <1>10, <3>1, MaxLinesAssumption DEF DrainReturns, IInv, TypeOK, Trace, Emitting, Signalled, Lifetimes, Attempts, InCall, Streams, Codes,
     askVars, signalVars, traceVars, childVars, fixedVars
    <3>2. CASE q # r
      BY <1>10, <3>2, MaxLinesAssumption DEF DrainReturns, IInv, TypeOK, Trace, Emitting, Signalled, Lifetimes, Attempts, InCall, Streams, Codes,
     askVars, signalVars, traceVars, childVars, fixedVars
    <3>3. QED
      BY <3>1, <3>2
  <2>4. ASSUME NEW q \in Runs PROVE Causes(q)'
    <3>1. CASE q = r
      <4>1. code[r] \in Codes
        BY <1>10 DEF DrainReturns, IInv, Lifetimes
      <4>2. code[r] \notin {"timeout", "cancelled"} /\ pc'[r] = "leaving"
        BY <1>10, <4>1 DEF DrainReturns, IInv, TypeOK, Codes
      <4>3. UNCHANGED <<code, result, stop, stopped, expired, dropped, cause>>
        BY <1>10 DEF DrainReturns, childVars, signalVars, askVars
      <4>4. QED
        BY <3>1, <4>2, <4>3 DEF IInv, Causes, Signalled
    <3>2. CASE q # r
      BY <1>10, <3>2 DEF DrainReturns, IInv, TypeOK, Causes, Signalled, Lifetimes, InCall, Codes,
     askVars, signalVars, traceVars, childVars, fixedVars
    <3>3. QED
      BY <3>1, <3>2
  <2>5. QED
    BY <2>1, <2>2, <2>3, <2>4 DEF IInv
<1>11. CASE DrainFails(r)
  BY <1>11, MaxLinesAssumption DEF DrainFails,
     IInv, TypeOK, Attempts, Lifetimes, Trace, Causes, Emitting, InCall, Signalled,
     Streams, MaxAttempts, Codes,
     askVars, signalVars, traceVars, childVars, fixedVars
<1>12. CASE KillTree(r)
  <2>1. TypeOK'
    BY <1>12, MaxLinesAssumption DEF KillTree, IInv, TypeOK, MaxAttempts, Codes,
     askVars, signalVars, traceVars, childVars, fixedVars
  <2>2. ASSUME NEW q \in Runs PROVE (Attempts(q) /\ Lifetimes(q))'
    <3>1. CASE q = r
      BY <1>12, <3>1 DEF KillTree, IInv, TypeOK, Attempts, Lifetimes, InCall, MaxAttempts, Codes,
     askVars, signalVars, traceVars, childVars, fixedVars
    <3>2. CASE q # r
      BY <1>12, <3>2 DEF KillTree, IInv, TypeOK, Attempts, Lifetimes, InCall, MaxAttempts, Codes,
     askVars, signalVars, traceVars, childVars, fixedVars
    <3>3. QED
      BY <3>1, <3>2
  <2>3. ASSUME NEW q \in Runs PROVE Trace(q)'
    <3>1. CASE q = r
      BY <1>12, <3>1, MaxLinesAssumption DEF KillTree, IInv, TypeOK, Trace, Emitting, Signalled, Lifetimes, Attempts, InCall, Streams, Codes,
     askVars, signalVars, traceVars, childVars, fixedVars
    <3>2. CASE q # r
      BY <1>12, <3>2, MaxLinesAssumption DEF KillTree, IInv, TypeOK, Trace, Emitting, Signalled, Lifetimes, Attempts, InCall, Streams, Codes,
     askVars, signalVars, traceVars, childVars, fixedVars
    <3>3. QED
      BY <3>1, <3>2
  <2>4. ASSUME NEW q \in Runs PROVE Causes(q)'
    <3>1. CASE q = r
      BY <1>12, <3>1 DEF KillTree, IInv, TypeOK, Causes, Signalled, Lifetimes, InCall, Codes,
     askVars, signalVars, traceVars, childVars, fixedVars
    <3>2. CASE q # r
      BY <1>12, <3>2 DEF KillTree, IInv, TypeOK, Causes, Signalled, Lifetimes, InCall, Codes,
     askVars, signalVars, traceVars, childVars, fixedVars
    <3>3. QED
      BY <3>1, <3>2
  <2>5. QED
    BY <2>1, <2>2, <2>3, <2>4 DEF IInv
<1>13. CASE KillNobody(r)
  BY <1>13, MaxLinesAssumption DEF KillNobody,
     IInv, TypeOK, Attempts, Lifetimes, Trace, Causes, Emitting, InCall, Signalled,
     Streams, MaxAttempts, Codes,
     askVars, signalVars, traceVars, childVars, fixedVars
<1>14. CASE Quiesced(r)
  BY <1>14, MaxLinesAssumption DEF Quiesced,
     IInv, TypeOK, Attempts, Lifetimes, Trace, Causes, Emitting, InCall, Signalled,
     Streams, MaxAttempts, Codes,
     askVars, signalVars, traceVars, childVars, fixedVars
<1>15. CASE Repeat(r)
  <2>1. TypeOK'
    BY <1>15, MaxLinesAssumption DEF Repeat, Repeatable, IInv, TypeOK, MaxAttempts, Codes,
     askVars, signalVars, traceVars, childVars, fixedVars
  <2>2. ASSUME NEW q \in Runs PROVE (Attempts(q) /\ Lifetimes(q))'
    <3>1. CASE q = r
      <4>1. attempt[r] = 1 /\ ~writes[r] /\ result[r] = "none"
        BY <1>15 DEF Repeat, Repeatable, IInv, TypeOK, Attempts, Lifetimes, InCall, MaxAttempts
      <4>2. pc'[r] = "between" /\ ~scratch'[r]
        BY <1>15 DEF Repeat, IInv, TypeOK
      <4>3. child[r] # "running"
        BY <1>15 DEF Repeat, IInv, Lifetimes
      <4>4. UNCHANGED <<attempt, writes, result, child>>
        BY <1>15 DEF Repeat, childVars, fixedVars
      <4>5. QED
        BY <3>1, <4>1, <4>2, <4>3, <4>4 DEF Attempts, Lifetimes, InCall
    <3>2. CASE q # r
      BY <1>15, <3>2 DEF Repeat, Repeatable, IInv, TypeOK, Attempts, Lifetimes, InCall, MaxAttempts, Codes,
     askVars, signalVars, traceVars, childVars, fixedVars
    <3>3. QED
      BY <3>1, <3>2
  <2>3. ASSUME NEW q \in Runs PROVE Trace(q)'
    <3>1. CASE q = r
      BY <1>15, <3>1, MaxLinesAssumption DEF Repeat, Repeatable, IInv, TypeOK, Trace, Emitting, Signalled, Lifetimes, Attempts, InCall, Streams, Codes,
     askVars, signalVars, traceVars, childVars, fixedVars
    <3>2. CASE q # r
      BY <1>15, <3>2, MaxLinesAssumption DEF Repeat, Repeatable, IInv, TypeOK, Trace, Emitting, Signalled, Lifetimes, Attempts, InCall, Streams, Codes,
     askVars, signalVars, traceVars, childVars, fixedVars
    <3>3. QED
      BY <3>1, <3>2
  <2>4. ASSUME NEW q \in Runs PROVE Causes(q)'
    <3>1. CASE q = r
      BY <1>15, <3>1 DEF Repeat, Repeatable, IInv, TypeOK, Causes, Signalled, Lifetimes, InCall, Codes,
     askVars, signalVars, traceVars, childVars, fixedVars
    <3>2. CASE q # r
      BY <1>15, <3>2 DEF Repeat, Repeatable, IInv, TypeOK, Causes, Signalled, Lifetimes, InCall, Codes,
     askVars, signalVars, traceVars, childVars, fixedVars
    <3>3. QED
      BY <3>1, <3>2
  <2>5. QED
    BY <2>1, <2>2, <2>3, <2>4 DEF IInv
<1>16. CASE Settle(r)
  <2>1. TypeOK'
    BY <1>16, MaxLinesAssumption DEF Settle, Repeatable, Outcome, IInv, TypeOK, MaxAttempts, Codes,
     askVars, signalVars, traceVars, childVars, fixedVars
  <2>2. ASSUME NEW q \in Runs PROVE (Attempts(q) /\ Lifetimes(q))'
    <3>1. CASE q = r
      BY <1>16, <3>1 DEF Settle, Repeatable, Outcome, IInv, TypeOK, Attempts, Lifetimes, InCall, MaxAttempts, Codes,
     askVars, signalVars, traceVars, childVars, fixedVars
    <3>2. CASE q # r
      BY <1>16, <3>2 DEF Settle, Repeatable, Outcome, IInv, TypeOK, Attempts, Lifetimes, InCall, MaxAttempts, Codes,
     askVars, signalVars, traceVars, childVars, fixedVars
    <3>3. QED
      BY <3>1, <3>2
  <2>3. ASSUME NEW q \in Runs PROVE Trace(q)'
    <3>1. CASE q = r
      BY <1>16, <3>1, MaxLinesAssumption DEF Settle, Repeatable, Outcome, IInv, TypeOK, Trace, Emitting, Signalled, Lifetimes, Attempts, InCall, Streams, Codes,
     askVars, signalVars, traceVars, childVars, fixedVars
    <3>2. CASE q # r
      BY <1>16, <3>2, MaxLinesAssumption DEF Settle, Repeatable, Outcome, IInv, TypeOK, Trace, Emitting, Signalled, Lifetimes, Attempts, InCall, Streams, Codes,
     askVars, signalVars, traceVars, childVars, fixedVars
    <3>3. QED
      BY <3>1, <3>2
  <2>4. ASSUME NEW q \in Runs PROVE Causes(q)'
    <3>1. CASE q = r
      BY <1>16, <3>1 DEF Settle, Repeatable, Outcome, IInv, TypeOK, Causes, Signalled, Lifetimes, InCall, Codes,
     askVars, signalVars, traceVars, childVars, fixedVars
    <3>2. CASE q # r
      BY <1>16, <3>2 DEF Settle, Repeatable, Outcome, IInv, TypeOK, Causes, Signalled, Lifetimes, InCall, Codes,
     askVars, signalVars, traceVars, childVars, fixedVars
    <3>3. QED
      BY <3>1, <3>2
  <2>5. QED
    BY <2>1, <2>2, <2>3, <2>4 DEF IInv
<1>17. QED
  BY <1>1, <1>2, <1>3, <1>4, <1>5, <1>6, <1>7, <1>8, <1>9, <1>10, <1>11, <1>12, <1>13, <1>14, <1>15, <1>16 DEF Invocation

(* So does each step of a reader. *)
LEMMA PumpStep ==
  ASSUME IInv, NEW r \in Runs, NEW s \in Streams, Pump(r, s)
  PROVE  IInv'
<1>1. CASE PumpReads(r, s)
  <2>1. TypeOK'
    BY <1>1, MaxLinesAssumption DEF PumpReads, IInv, TypeOK, MaxAttempts, Codes,
     askVars, signalVars, traceVars, childVars, fixedVars
  <2>2. ASSUME NEW q \in Runs PROVE (Attempts(q) /\ Lifetimes(q))'
    <3>1. CASE q = r
      BY <1>1, <3>1 DEF PumpReads, IInv, TypeOK, Attempts, Lifetimes, InCall, MaxAttempts, Codes,
     askVars, signalVars, traceVars, childVars, fixedVars
    <3>2. CASE q # r
      BY <1>1, <3>2 DEF PumpReads, IInv, TypeOK, Attempts, Lifetimes, InCall, MaxAttempts, Codes,
     askVars, signalVars, traceVars, childVars, fixedVars
    <3>3. QED
      BY <3>1, <3>2
  <2>3. ASSUME NEW q \in Runs PROVE Trace(q)'
    <3>1. CASE q = r
      BY <1>1, <3>1, MaxLinesAssumption DEF PumpReads, IInv, TypeOK, Trace, Emitting, Signalled, Lifetimes, Attempts, InCall, Streams, Codes,
     askVars, signalVars, traceVars, childVars, fixedVars
    <3>2. CASE q # r
      BY <1>1, <3>2, MaxLinesAssumption DEF PumpReads, IInv, TypeOK, Trace, Emitting, Signalled, Lifetimes, Attempts, InCall, Streams, Codes,
     askVars, signalVars, traceVars, childVars, fixedVars
    <3>3. QED
      BY <3>1, <3>2
  <2>4. ASSUME NEW q \in Runs PROVE Causes(q)'
    <3>1. CASE q = r
      BY <1>1, <3>1 DEF PumpReads, IInv, TypeOK, Causes, Signalled, Lifetimes, InCall, Codes,
     askVars, signalVars, traceVars, childVars, fixedVars
    <3>2. CASE q # r
      BY <1>1, <3>2 DEF PumpReads, IInv, TypeOK, Causes, Signalled, Lifetimes, InCall, Codes,
     askVars, signalVars, traceVars, childVars, fixedVars
    <3>3. QED
      BY <3>1, <3>2
  <2>5. QED
    BY <2>1, <2>2, <2>3, <2>4 DEF IInv
<1>2. CASE PumpPublishes(r, s)
  <2>1. TypeOK'
    BY <1>2, MaxLinesAssumption DEF PumpPublishes, IInv, TypeOK, MaxAttempts, Codes, Trace, Emitting, Streams,
     askVars, signalVars, traceVars, childVars, fixedVars
  <2>2. ASSUME NEW q \in Runs PROVE (Attempts(q) /\ Lifetimes(q))'
    <3>1. CASE q = r
      BY <1>2, <3>1 DEF PumpPublishes, IInv, TypeOK, Attempts, Lifetimes, InCall, MaxAttempts, Codes,
     askVars, signalVars, traceVars, childVars, fixedVars
    <3>2. CASE q # r
      BY <1>2, <3>2 DEF PumpPublishes, IInv, TypeOK, Attempts, Lifetimes, InCall, MaxAttempts, Codes,
     askVars, signalVars, traceVars, childVars, fixedVars
    <3>3. QED
      BY <3>1, <3>2
  <2>3. ASSUME NEW q \in Runs PROVE Trace(q)'
    <3>1. CASE q = r
      <4>1. published'[r] = published[r] + 1 /\ recorded' = recorded
        BY <1>2 DEF PumpPublishes, IInv, TypeOK
      <4>2. Emitting(r) = Emitting(r)' + 1 /\ Emitting(r)' \in Nat
        BY <1>2 DEF PumpPublishes, IInv, TypeOK, Emitting, Streams
      <4>3. published[r] + Emitting(r) = published'[r] + Emitting(r)'
        BY <4>1, <4>2, MaxLinesAssumption DEF IInv, TypeOK
      <4>4. UNCHANGED <<pc, code, result, stopped, expired, dropped>>
        BY <1>2 DEF PumpPublishes, childVars, signalVars
      <4>5. /\ \A t \in Streams : pumps'[r][t] = "failed" <=> pumps[r][t] = "failed"
            /\ pumps[r][s] = "emitting"
        BY <1>2 DEF PumpPublishes, IInv, TypeOK
      <4>6. QED
        BY <3>1, <4>1, <4>3, <4>4, <4>5 DEF IInv, Trace, Signalled
    <3>2. CASE q # r
      BY <1>2, <3>2, MaxLinesAssumption DEF PumpPublishes, IInv, TypeOK, Trace, Emitting, Signalled, Lifetimes, Attempts, InCall, Streams, Codes,
     askVars, signalVars, traceVars, childVars, fixedVars
    <3>3. QED
      BY <3>1, <3>2
  <2>4. ASSUME NEW q \in Runs PROVE Causes(q)'
    <3>1. CASE q = r
      BY <1>2, <3>1 DEF PumpPublishes, IInv, TypeOK, Causes, Signalled, Lifetimes, InCall, Codes,
     askVars, signalVars, traceVars, childVars, fixedVars
    <3>2. CASE q # r
      BY <1>2, <3>2 DEF PumpPublishes, IInv, TypeOK, Causes, Signalled, Lifetimes, InCall, Codes,
     askVars, signalVars, traceVars, childVars, fixedVars
    <3>3. QED
      BY <3>1, <3>2
  <2>5. QED
    BY <2>1, <2>2, <2>3, <2>4 DEF IInv
<1>3. CASE PumpInterrupted(r, s)
  BY <1>3, MaxLinesAssumption DEF PumpInterrupted,
     IInv, TypeOK, Attempts, Lifetimes, Trace, Causes, Emitting, InCall, Signalled,
     Streams, MaxAttempts, Codes,
     askVars, signalVars, traceVars, childVars, fixedVars
<1>4. CASE PumpEnds(r, s)
  BY <1>4, MaxLinesAssumption DEF PumpEnds,
     IInv, TypeOK, Attempts, Lifetimes, Trace, Causes, Emitting, InCall, Signalled,
     Streams, MaxAttempts, Codes,
     askVars, signalVars, traceVars, childVars, fixedVars
<1>5. QED
  BY <1>1, <1>2, <1>3, <1>4 DEF Pump

(* So does the world around it. *)
LEMMA EnvironmentStep ==
  ASSUME IInv, NEW r \in Runs, Environment(r)
  PROVE  IInv'
<1>1. CASE ChildExits(r)
  BY <1>1, MaxLinesAssumption DEF ChildExits,
     IInv, TypeOK, Attempts, Lifetimes, Trace, Causes, Emitting, InCall, Signalled,
     Streams, MaxAttempts, Codes,
     askVars, signalVars, traceVars, childVars, fixedVars
<1>2. CASE DescendantExits(r)
  BY <1>2, MaxLinesAssumption DEF DescendantExits,
     IInv, TypeOK, Attempts, Lifetimes, Trace, Causes, Emitting, InCall, Signalled,
     Streams, MaxAttempts, Codes,
     askVars, signalVars, traceVars, childVars, fixedVars
<1>3. CASE DeadlineFires(r)
  BY <1>3, MaxLinesAssumption DEF DeadlineFires, Blame,
     IInv, TypeOK, Attempts, Lifetimes, Trace, Causes, Emitting, InCall, Signalled,
     Streams, MaxAttempts, Codes,
     askVars, signalVars, traceVars, childVars, fixedVars
<1>4. CASE CallerDrops(r)
  BY <1>4, MaxLinesAssumption DEF CallerDrops, Blame,
     IInv, TypeOK, Attempts, Lifetimes, Trace, Causes, Emitting, InCall, Signalled,
     Streams, MaxAttempts, Codes,
     askVars, signalVars, traceVars, childVars, fixedVars
<1>5. QED
  BY <1>1, <1>2, <1>3, <1>4 DEF Environment

(* Pressing the button only asks. *)
LEMMA AskStopStep ==
  ASSUME IInv, NEW r \in Runs, AskStop(r)
  PROVE  IInv'
BY DEF AskStop, IInv, TypeOK, Attempts, Lifetimes, Trace, Causes, Emitting,
   InCall, Signalled, Streams, childVars, fixedVars, signalVars, traceVars

(* So does the stop command. *)
LEMMA CancelStep ==
  ASSUME IInv, NEW r \in Runs, Cancel(r)
  PROVE  IInv'
<1>1. CASE CancelMisses(r)
  BY <1>1, MaxLinesAssumption DEF CancelMisses,
     IInv, TypeOK, Attempts, Lifetimes, Trace, Causes, Emitting, InCall, Signalled,
     Streams, MaxAttempts, Codes,
     askVars, signalVars, traceVars, childVars, fixedVars
<1>2. CASE CancelFinds(r)
  BY <1>2, MaxLinesAssumption DEF CancelFinds,
     IInv, TypeOK, Attempts, Lifetimes, Trace, Causes, Emitting, InCall, Signalled,
     Streams, MaxAttempts, Codes,
     askVars, signalVars, traceVars, childVars, fixedVars
<1>3. CASE CancelTooLate(r)
  BY <1>3, MaxLinesAssumption DEF CancelTooLate, Disposed,
     IInv, TypeOK, Attempts, Lifetimes, Trace, Causes, Emitting, InCall, Signalled,
     Streams, MaxAttempts, Codes,
     askVars, signalVars, traceVars, childVars, fixedVars
<1>4. CASE CancelSignals(r)
  <2>1. TypeOK'
    BY <1>4, MaxLinesAssumption DEF CancelSignals, Blame, Disposed, IInv, TypeOK, MaxAttempts, Codes,
     askVars, signalVars, traceVars, childVars, fixedVars
  <2>2. ASSUME NEW q \in Runs PROVE (Attempts(q) /\ Lifetimes(q))'
    <3>1. CASE q = r
      BY <1>4, <3>1 DEF CancelSignals, Blame, Disposed, IInv, TypeOK, Attempts, Lifetimes, InCall, MaxAttempts, Codes,
     askVars, signalVars, traceVars, childVars, fixedVars
    <3>2. CASE q # r
      BY <1>4, <3>2 DEF CancelSignals, Blame, Disposed, IInv, TypeOK, Attempts, Lifetimes, InCall, MaxAttempts, Codes,
     askVars, signalVars, traceVars, childVars, fixedVars
    <3>3. QED
      BY <3>1, <3>2
  <2>3. ASSUME NEW q \in Runs PROVE Trace(q)'
    <3>1. CASE q = r
      BY <1>4, <3>1, MaxLinesAssumption DEF CancelSignals, Blame, Disposed, IInv, TypeOK, Trace, Emitting, Signalled, Lifetimes, Attempts, InCall, Streams, Codes,
     askVars, signalVars, traceVars, childVars, fixedVars
    <3>2. CASE q # r
      BY <1>4, <3>2, MaxLinesAssumption DEF CancelSignals, Blame, Disposed, IInv, TypeOK, Trace, Emitting, Signalled, Lifetimes, Attempts, InCall, Streams, Codes,
     askVars, signalVars, traceVars, childVars, fixedVars
    <3>3. QED
      BY <3>1, <3>2
  <2>4. ASSUME NEW q \in Runs PROVE Causes(q)'
    <3>1. CASE q = r
      BY <1>4, <3>1 DEF CancelSignals, Blame, Disposed, IInv, TypeOK, Causes, Signalled, Lifetimes, InCall, Codes,
     askVars, signalVars, traceVars, childVars, fixedVars
    <3>2. CASE q # r
      BY <1>4, <3>2 DEF CancelSignals, Blame, Disposed, IInv, TypeOK, Causes, Signalled, Lifetimes, InCall, Codes,
     askVars, signalVars, traceVars, childVars, fixedVars
    <3>3. QED
      BY <3>1, <3>2
  <2>5. QED
    BY <2>1, <2>2, <2>3, <2>4 DEF IInv
<1>5. QED
  BY <1>1, <1>2, <1>3, <1>4 DEF Cancel

(* The invariant holds in every reachable state.                           *)
THEOREM Invariance == Spec => []IInv
<1>1. Init => IInv
  BY MaxLinesAssumption DEF Init, IInv, TypeOK, Attempts, Lifetimes, Trace, Causes,
     Emitting, InCall, Signalled, Streams, MaxAttempts, Codes
<1>2. IInv /\ [Next]_vars => IInv'
  <2>1. ASSUME IInv, Next PROVE IInv'
    BY <2>1, InvocationStep, PumpStep, EnvironmentStep,
       AskStopStep, CancelStep DEF Next
  <2>2. ASSUME IInv, UNCHANGED vars PROVE IInv'
    BY <2>2 DEF vars, askVars, signalVars, traceVars, childVars, fixedVars, IInv,
       TypeOK, Attempts, Lifetimes, Trace, Causes, Emitting, InCall, Signalled
  <2>3. QED
    BY <2>1, <2>2
<1>3. QED
  BY <1>1, <1>2, PTL DEF Spec

(* Every variable keeps its type: no invocation is attempted a third time, *)
(* and no more lines are published than were read.                         *)
THEOREM TypeCorrect == Spec => []TypeOK
<1>1. IInv => TypeOK
  BY DEF IInv
<1>2. QED
  BY <1>1, Invariance, PTL

(* A live child always has its stop handle under the run's id, whatever    *)
(* the stop command, the deadline and the readers do meanwhile.            *)
THEOREM LiveChildIsAlwaysReachable == Spec => []LiveChildIsReachable
<1>1. IInv => LiveChildIsReachable
  BY DEF IInv, Attempts, Lifetimes, InCall, LiveChildIsReachable
<1>2. QED
  BY <1>1, Invariance, PTL

(* A reply or a failure is final: nothing is read or published after it.   *)
THEOREM CompletedRunIsAlwaysQuiet == Spec => []CompletedRunIsQuiet
<1>1. ASSUME IInv, NEW r \in Runs, result[r] \in {"reply", "failed"}
      PROVE  /\ \A s \in Streams : pumps[r][s] \in {"none", "done"}
             /\ recorded[r] = published[r]
  <2>1. pc[r] = "settled"
    BY <1>1 DEF IInv, Lifetimes
  <2>2. \A s \in Streams : pumps[r][s] \in {"none", "done"}
    BY <1>1, <2>1 DEF IInv, Trace
  <2>3. Emitting(r) = 0 /\ \A s \in Streams : pumps[r][s] # "failed"
    BY <2>2 DEF Emitting, Streams
  <2>4. recorded[r] = published[r] + Emitting(r)
    BY <1>1, <2>3 DEF IInv, Trace
  <2>5. published[r] \in Nat
    BY <1>1, MaxLinesAssumption DEF IInv, TypeOK
  <2>6. QED
    BY <2>2, <2>3, <2>4, <2>5
<1>2. IInv => CompletedRunIsQuiet
  BY <1>1 DEF CompletedRunIsQuiet
<1>3. QED
  BY <1>2, Invariance, PTL

(* Every verdict of cancellation or expiry has its cause.                  *)
THEOREM OutcomeAlwaysHasACause == Spec => []OutcomeHasACause
<1>1. IInv => OutcomeHasACause
  BY DEF IInv, Causes, OutcomeHasACause
<1>2. QED
  BY <1>1, Invariance, PTL

(* A run that may edit files is never attempted twice.                     *)
THEOREM WritesAreAttemptedOnce == Spec => []WritesAreNeverRepeated
<1>1. IInv => WritesAreNeverRepeated
  BY DEF IInv, Attempts, WritesAreNeverRepeated
<1>2. QED
  BY <1>1, Invariance, PTL

(* Scratch files exist while a child may read them, and not afterwards.    *)
THEOREM ScratchAlwaysSpansTheChild == Spec => []ScratchSpansTheChild
<1>1. IInv => ScratchSpansTheChild
  BY DEF IInv, Lifetimes, InCall, ScratchSpansTheChild
<1>2. QED
  BY <1>1, Invariance, PTL
=============================================================================
