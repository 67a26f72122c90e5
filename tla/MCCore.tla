------------------------------- MODULE MCCore -------------------------------
(***************************************************************************)
(* The independent models of the core, side by side: `side' names the one  *)
(* that moves, and those that stand still have one initial state each.     *)
(* Nothing that fairness asks for is enabled in it, so it asks nothing of  *)
(* them.                                                                   *)
(***************************************************************************)
EXTENDS Ipc, Terminal, PromptDiff, Migrations

VARIABLE side

sidesVars == <<side, ipcVars, terminalVars, promptVars, migrationVars>>

SidesInit ==
  /\ side \in {"ipc", "terminal", "prompt", "launches"}
  /\ IpcInit /\ TerminalInit /\ PromptInit /\ MigrationInit
  /\ side # "launches" =>
       /\ workspaces = <<>> /\ shape["collections"] = "none" /\ contexts.rows = {} /\ contexts.columns = {}
       /\ files = NoTable /\ standards = NoTable /\ column /\ \A w \in Workspaces : prompts[w] = "none"
SidesNext ==
  /\ UNCHANGED side
  /\ \/ side = "ipc" /\ IpcNext /\ UNCHANGED <<terminalVars, promptVars, migrationVars>>
     \/ side = "terminal" /\ TerminalNext /\ UNCHANGED <<ipcVars, promptVars, migrationVars>>
     \/ side = "prompt" /\ PromptNext /\ UNCHANGED <<ipcVars, terminalVars, migrationVars>>
     \/ side = "launches" /\ MigrationNext /\ UNCHANGED <<ipcVars, terminalVars, promptVars>>

SidesSpec == SidesInit /\ [][SidesNext]_sidesVars /\ IpcFairness /\ TerminalFairness
=============================================================================
