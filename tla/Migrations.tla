----------------------------- MODULE Migrations -----------------------------
(***************************************************************************)
(* The launches of one database file: Storage/Migrations.cs, run by        *)
(* Database.Open before any command is served.  There is no version table: *)
(* each step looks at the tables to see whether it already ran, statements *)
(* commit one by one unless a transaction is opened, and the process may   *)
(* die between any two.                                                    *)
(*                                                                         *)
(* A row is its id and its home, the workspace it belongs to.  The fifteen *)
(* columns that are only added are one; the seeds of the three prompts are *)
(* those of the review standard.                                           *)
(***************************************************************************)
EXTENDS Naturals, Sequences

CONSTANTS
  Workspaces,       \* bound: the workspaces ever made
  NoHome, NoTable

\* The four roots of the API client, in the order they are moved aside.
Roots == <<"collections", "environments", "history", "cookies">>
RootTables == {Roots[i] : i \in DOMAIN Roots}
\* The schema indexes these two by workspace.
Indexed == {"history", "cookies"}

VARIABLES
  launch,     \* the statement the launch is at, or "down", "failed", "up"
  root,       \* how many of the four roots that statement is past
  shape,      \* of each root: "none", "old" (without a workspace), "new"
  stored,     \* its rows
  legacy,      \* the rows of its _legacy copy, NoTable if there is none
  contexts,   \* review_contexts: its columns and its rows
  files,      \* the rows of workspace_md_files, NoTable once dropped
  standards,  \* the workspaces with a row in workspace_review_standards, or NoTable
  prompts,    \* the review standard in workspace_prompts
  column,     \* a column that later versions added is there
  workspaces  \* in the order they were made

databaseVars == <<shape, stored, legacy, contexts, files, standards, prompts, column>>
migrationVars == <<launch, root, databaseVars, workspaces>>

Row(id, home) == [id |-> id, home |-> home]
Ids(rows) == {row.id : row \in rows}
AllWorkspaces == {workspaces[i] : i \in DOMAIN workspaces}

(***************************************************************************)
(* Files of any age.  The rows that can have a home have one: only the     *)
(* contexts of a project that is gone do not.                              *)
(***************************************************************************)
OldRows(table) == {Row(table, NoHome)} \cup IF table = "environments" THEN {Row("globals", NoHome)} ELSE {}

ASSUME MigrationConstants == \A t \in RootTables : OldRows(t) # NoTable

MigrationInit ==
  /\ launch = "down" /\ root = 0
  /\ workspaces \in {<<>>} \cup {<<w>> : w \in Workspaces}
  /\ \E age \in {"none", "old"} :
       /\ shape = [t \in RootTables |-> age]
       /\ stored = [t \in RootTables |-> IF age = "old" THEN OldRows(t) ELSE {}]
  /\ legacy = [t \in RootTables |-> NoTable]
  /\ contexts \in {[columns |-> {}, rows |-> {}]} \cup
       {[columns |-> {"project"}, rows |-> {Row("gone", NoHome)} \cup {Row("context", w) : w \in AllWorkspaces}]}
  /\ files \in {NoTable, {Row("file", w) : w \in AllWorkspaces}}
  /\ standards \in {NoTable, AllWorkspaces}
  /\ prompts \in {[w \in Workspaces |-> "none"],
                  [w \in Workspaces |-> IF w \in AllWorkspaces THEN "former" ELSE "none"]}
  /\ standards # NoTable => prompts = [w \in Workspaces |-> "none"]
  /\ column \in BOOLEAN

(* ------------------------------ the statements --------------------------- *)

\* The steps of Run after the copy, in their order.  Faulty variant: the defaults
\* are seeded before the user's own standards are taken over.
SeededFirst ==
  <<"globals", "add home", "fill home", "delete homeless", "drop project", "insert files", "drop files",
    "backfill", "insert standards", "drop standards", "refresh", "add column", "up">>
Steps ==
  <<"globals", "add home", "fill home", "delete homeless", "drop project", "insert files", "drop files",
    "insert standards", "drop standards", "backfill", "refresh", "add column", "up">>
After(step) == Steps[1 + CHOOSE i \in DOMAIN Steps : Steps[i] = step]

At(step) == launch = step /\ launch' = After(step) /\ UNCHANGED <<root, workspaces>>
SkipTo(step, later) == launch = step /\ launch' = later /\ UNCHANGED <<root, workspaces, databaseVars>>

\* MigrateApiTablesBegin looks at the first of the four only.
Open ==
  /\ launch \in {"down", "failed"} /\ root' = 0
  /\ launch' = IF shape["collections"] = "old" THEN "rename" ELSE "schema"
  /\ UNCHANGED <<workspaces, databaseVars>>

RenameRoot ==
  LET t == Roots[root + 1]
  IN  /\ launch = "rename" /\ root' = (root + 1) % Len(Roots)
      /\ launch' = IF root' = 0 THEN "schema" ELSE "rename"
      /\ shape' = [shape EXCEPT ![t] = "none"] /\ stored' = [stored EXCEPT ![t] = {}]
      /\ legacy' = [legacy EXCEPT ![t] = stored[t]]
      /\ UNCHANGED <<contexts, files, standards, prompts, column, workspaces>>

\* CREATE TABLE IF NOT EXISTS, and for two of the four an index on a column that
\* only the new shape has.
CreateRoot ==
  LET t == Roots[root + 1]
  IN  /\ launch = "schema" /\ ~(shape[t] = "old" /\ t \in Indexed)
      /\ root' = (root + 1) % Len(Roots) /\ launch' = IF root' = 0 THEN "finish" ELSE "schema"
      /\ shape' = [shape EXCEPT ![t] = IF @ = "none" THEN "new" ELSE @]
      /\ contexts' = [contexts EXCEPT !.columns = IF @ = {} THEN {"workspace"} ELSE @]
      /\ UNCHANGED <<stored, legacy, files, standards, prompts, column, workspaces>>
SchemaFails ==
  /\ launch = "schema" /\ shape[Roots[root + 1]] = "old" /\ Roots[root + 1] \in Indexed
  /\ launch' = "failed" /\ UNCHANGED <<root, workspaces, databaseVars>>

\* INSERT OR IGNORE of what was set aside, to the oldest workspace; the old
\* Globals is left behind, its variables with it.
Copied(t) == {Row(id, workspaces[1]) : id \in Ids(legacy[t]) \ (Ids(stored[t]) \cup {"globals"})}

\* One transaction: all four copies and all four drops, or none.
CopyLegacyApiTables ==
  /\ launch = "finish" /\ workspaces # <<>> /\ \A t \in RootTables : legacy[t] # NoTable
  /\ stored' = [t \in RootTables |-> stored[t] \cup Copied(t)]
  /\ legacy' = [t \in RootTables |-> NoTable] /\ launch' = "globals"
  /\ UNCHANGED <<root, shape, contexts, files, standards, prompts, column, workspaces>>
NothingToCopy == (legacy["collections"] = NoTable \/ workspaces = <<>>) /\ SkipTo("finish", "globals")

WithoutGlobals == {w \in AllWorkspaces : Row("globals", w) \notin stored["environments"]}
EnsureGlobalsEnvironment ==
  /\ At("globals")
  /\ stored' = [stored EXCEPT !["environments"] = @ \cup {Row("globals", w) : w \in WithoutGlobals}]
  /\ UNCHANGED <<shape, legacy, contexts, files, standards, prompts, column>>

\* MigrateReviewContextsToWorkspace: four statements under one guard.
ContextsAreNew == "project" \notin contexts.columns /\ SkipTo("add home", "insert files")
AddHome ==
  /\ "project" \in contexts.columns /\ "workspace" \notin contexts.columns
  /\ At("add home") /\ contexts' = [contexts EXCEPT !.columns = @ \cup {"workspace"}]
  /\ UNCHANGED <<shape, stored, legacy, files, standards, prompts, column>>
AddHomeFails ==
  /\ launch = "add home" /\ {"project", "workspace"} \subseteq contexts.columns
  /\ launch' = "failed" /\ UNCHANGED <<root, workspaces, databaseVars>>
FillHome == At("fill home") /\ UNCHANGED databaseVars
DeleteHomeless ==
  /\ At("delete homeless") /\ contexts' = [contexts EXCEPT !.rows = {row \in @ : row.home # NoHome}]
  /\ UNCHANGED <<shape, stored, legacy, files, standards, prompts, column>>
DropProject ==
  /\ At("drop project") /\ contexts' = [contexts EXCEPT !.columns = @ \ {"project"}]
  /\ UNCHANGED <<shape, stored, legacy, files, standards, prompts, column>>

NoFiles == files = NoTable /\ SkipTo("insert files", After("drop files"))
InsertFiles ==
  /\ files # NoTable /\ At("insert files")
  /\ contexts' = [contexts EXCEPT !.rows = @ \cup {row \in files : row.id \notin Ids(@)}]
  /\ UNCHANGED <<shape, stored, legacy, files, standards, prompts, column>>
DropFiles ==
  /\ At("drop files") /\ files' = NoTable
  /\ UNCHANGED <<shape, stored, legacy, contexts, standards, prompts, column>>

NoStandards == standards = NoTable /\ SkipTo("insert standards", After("drop standards"))
InsertStandards ==
  /\ standards # NoTable /\ At("insert standards")
  /\ prompts' = [w \in Workspaces |-> IF w \in standards /\ prompts[w] = "none" THEN "edited" ELSE prompts[w]]
  /\ UNCHANGED <<shape, stored, legacy, contexts, files, standards, column>>
DropStandards ==
  /\ At("drop standards") /\ standards' = NoTable
  /\ UNCHANGED <<shape, stored, legacy, contexts, files, prompts, column>>

BackfillWorkspacePrompts ==
  /\ At("backfill")
  /\ prompts' = [w \in Workspaces |-> IF w \in AllWorkspaces /\ prompts[w] = "none" THEN "default" ELSE prompts[w]]
  /\ UNCHANGED <<shape, stored, legacy, contexts, files, standards, column>>
RefreshUneditedSeededPrompts ==
  /\ At("refresh") /\ prompts' = [w \in Workspaces |-> IF prompts[w] = "former" THEN "default" ELSE prompts[w]]
  /\ UNCHANGED <<shape, stored, legacy, contexts, files, standards, column>>
AddColumn ==
  /\ At("add column") /\ column' = TRUE
  /\ UNCHANGED <<shape, stored, legacy, contexts, files, standards, prompts>>

(* ------------------------- the application, and death -------------------- *)

Create(w, seeded) ==
  /\ launch = "up" /\ w \in Workspaces \ AllWorkspaces
  /\ workspaces' = Append(workspaces, w) /\ launch' = IF seeded THEN "up" ELSE "down"
  /\ prompts' = [prompts EXCEPT ![w] = IF seeded THEN "default" ELSE @]
  /\ UNCHANGED <<root, shape, stored, legacy, contexts, files, standards, column>>
EditStandard(w) ==
  /\ launch = "up" /\ w \in AllWorkspaces /\ prompts' = [prompts EXCEPT ![w] = "edited"]
  /\ UNCHANGED <<launch, root, shape, stored, legacy, contexts, files, standards, column, workspaces>>
Dies ==
  /\ launch \notin {"down", "failed"} /\ launch' = "down" /\ root' = 0
  /\ UNCHANGED <<workspaces, databaseVars>>

Statement ==
  \/ RenameRoot \/ CreateRoot \/ SchemaFails \/ CopyLegacyApiTables \/ NothingToCopy
  \/ EnsureGlobalsEnvironment
  \/ ContextsAreNew \/ AddHome \/ AddHomeFails \/ FillHome \/ DeleteHomeless \/ DropProject
  \/ NoFiles \/ InsertFiles \/ DropFiles \/ NoStandards \/ InsertStandards \/ DropStandards
  \/ BackfillWorkspacePrompts \/ RefreshUneditedSeededPrompts \/ AddColumn
MigrationNext ==
  \/ Open \/ Statement \/ Dies
  \/ \E w \in Workspaces : EditStandard(w) \/ \E seeded \in BOOLEAN : Create(w, seeded)
MigrationSpec == MigrationInit /\ [][MigrationNext]_migrationVars

(* ------------------------------- properties ------------------------------ *)

Kept(t) == Ids(stored[t]) \cup IF legacy[t] = NoTable THEN {} ELSE Ids(legacy[t])
Texts == {row \in contexts.rows \cup (IF files = NoTable THEN {} ELSE files) : row.home # NoHome}
OwnStandard(w) == prompts[w] = "edited" \/ (standards # NoTable /\ w \in standards)

NothingIsLost ==
  /\ \A t \in RootTables : Kept(t) \ {"globals"} \subseteq Kept(t)'
  /\ Texts \subseteq Texts'
  /\ \A w \in Workspaces : OwnStandard(w) => OwnStandard(w)'
Migrated ==
  /\ \A t \in RootTables : shape[t] = "new" /\ (workspaces # <<>> => legacy[t] = NoTable)
  /\ contexts.columns = {"workspace"} /\ files = NoTable /\ standards = NoTable /\ column
  /\ WithoutGlobals = {} /\ \A w \in AllWorkspaces : prompts[w] \in {"default", "edited"}

(* No statement of any launch, and no death between two, loses what a user *)
(* wrote: every row of the request client stays in its table or in the     *)
(* copy set aside (but for the old Globals), every context and instruction *)
(* file that has a workspace stays in it, and an edited review standard is *)
(* never replaced by the default (Migrations.cs, ordering 2 of 3).  And a  *)
(* launch that comes up has finished the work of all those that died       *)
(* before it, wherever each of them stopped.                               *)
LaunchesAreUpgrades ==
  [][NothingIsLost /\ (launch # "up" /\ launch' = "up" => Migrated')]_migrationVars

(* "upgrade-safe by construction, works on a database of any age"          *)
(* (Migrations.cs:13).  It is not: a launch that dies between two of the   *)
(* four renames, or after review_contexts got its second column, leaves a  *)
(* file that no later launch gets through.                                 *)
EveryLaunchCompletes == launch # "failed"
=============================================================================
