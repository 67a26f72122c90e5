------------------------------- MODULE PromptDiff -------------------------------
(***************************************************************************)
(* What of a diff is given to a model: PromptDiff.cs, its sharing of the   *)
(* budget between files and its trimming of a hunk, on a diff that grows   *)
(* file by file, or line by line.  A file is the length of its rendering,  *)
(* a line whether it is one of the changed ones.                           *)
(***************************************************************************)
EXTENDS Integers, Sequences, FiniteSets, FiniteSetsExt

CONSTANTS
  ContextLines, DeclarableGap,
  Lengths, Budgets, MaxFiles, MaxHunk  \* bounds: in units of the model's, not of a character

ASSUME PromptConstants ==
  ContextLines \in Nat /\ DeclarableGap \in Nat /\ Lengths \subseteq Nat \ {0} /\ Budgets \subseteq Nat

VARIABLES
  costs,     \* the renderings of the files that are kept
  hunk       \* the lines of one hunk: TRUE for one added or removed

promptVars == <<costs, hunk>>

PromptTypeOK == costs \in Seq(Lengths) /\ hunk \in Seq(BOOLEAN)
PromptInit == costs = <<>> /\ hunk = <<>>

(* ------------------------------ the budget ------------------------------- *)

\* Faulty variant: in the order the files come in.
FirstWaiting(list, waiting) == Min(waiting)
\* Of the files still waiting the cheapest, and of those of one length the first.
Cheapest(list, waiting) ==
  CHOOSE i \in waiting : \A j \in waiting : list[i] < list[j] \/ (list[i] = list[j] /\ i <= j)

Unshared(list, budget) == [shares |-> [i \in DOMAIN list |-> 0], remaining |-> budget, waiting |-> DOMAIN list]

\* One file is offered an equal share of what is left, and takes what it needs of it.
Grant(done, list) ==
  LET i == Cheapest(list, done.waiting)
      share == Min({list[i], done.remaining \div Cardinality(done.waiting)})
  IN  [shares |-> [done.shares EXCEPT ![i] = share], remaining |-> done.remaining - share,
       waiting |-> done.waiting \ {i}]

Share(list, budget) ==
  LET upTo[n \in 0 .. Len(list)] == IF n = 0 THEN Unshared(list, budget) ELSE Grant(upTo[n - 1], list)
  IN  upTo[Len(list)].shares

(* ------------------------------- the lines ------------------------------- *)

Near == {i \in DOMAIN hunk : \E j \in DOMAIN hunk : hunk[j] /\ j - i \in -ContextLines .. ContextLines}
RunOf(i, among) == {j \in among : Min({i, j}) .. Max({i, j}) \subseteq among}

\* Faulty variant: a gap is declared however short.
KeptNear == Near
KeptLines == Near \cup {i \in DOMAIN hunk \ Near : Cardinality(RunOf(i, DOMAIN hunk \ Near)) <= DeclarableGap}

\* What is written: the runs of lines kept, each under its anchor, and the gaps
\* between them; of a hunk without any change, nothing.
KeptRuns == {RunOf(i, KeptLines) : i \in KeptLines}
Gaps == IF KeptLines = {} THEN {} ELSE {RunOf(i, DOMAIN hunk \ KeptLines) : i \in DOMAIN hunk \ KeptLines}

(* ---------------------------- the specification -------------------------- *)

PromptNext ==
  \/ /\ hunk = <<>> /\ Len(costs) < MaxFiles /\ UNCHANGED hunk
     /\ \E length \in Lengths : costs' = Append(costs, length)
  \/ /\ costs = <<>> /\ Len(hunk) < MaxHunk /\ UNCHANGED costs
     /\ \E isChange \in BOOLEAN : hunk' = Append(hunk, isChange)

PromptSpec == PromptInit /\ [][PromptNext]_promptVars

(* ------------------------------- properties ------------------------------ *)

SumOf(shares) ==
  LET upTo[n \in 0 .. Len(shares)] == IF n = 0 THEN 0 ELSE upTo[n - 1] + shares[n]
  IN  upTo[Len(shares)]

\* Where a file sits does not matter: no file gets more than it needs, one that is
\* cut gets as much as any other, but for the remainder of a division, and when any
\* is cut the budget is spent to the last character.
FairlyShared(list, shares, budget) ==
  LET cut == {i \in DOMAIN list : shares[i] < list[i]}
  IN  /\ \A i \in DOMAIN list : shares[i] <= list[i]
      /\ \A i \in cut, j \in DOMAIN list : shares[j] <= shares[i] + 1
      /\ IF cut = {} THEN SumOf(shares) <= budget ELSE SumOf(shares) = budget
TheBudgetIsShared == \A budget \in Budgets : FairlyShared(costs, Share(costs, budget), budget)

\* Every changed line is written, with its three lines of context; runs and gaps
\* together are the hunk; and a gap is longer than what it takes to declare it.
EveryChangeIsShown ==
  /\ \A i \in DOMAIN hunk : hunk[i] =>
       \E run \in KeptRuns : {j \in DOMAIN hunk : j - i \in -ContextLines .. ContextLines} \subseteq run
  /\ \A gap \in Gaps : Cardinality(gap) > DeclarableGap
  /\ (\E i \in DOMAIN hunk : hunk[i]) => UNION (KeptRuns \cup Gaps) = DOMAIN hunk
==============================================================================
