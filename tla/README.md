# Verification of CodeFlow

CodeFlow is a desktop client for code review and Git. This directory holds TLA+
models of the parts whose correctness depends on the order in which things
happen, TLC runs that check them on small instances, and TLAPS proofs of the
properties that matter most. `PROJECT.json` lists the components, the runs, the
mutants, the source lines each definition stands for, the hazards and the
theorems.

1. [The system](#the-system)
2. [Inventory](#inventory)
3. [Plan](#plan)
4. [The modules](#the-modules)
5. [The runs](#the-runs)
6. [Proofs](#proofs)
7. [Disagreements](#disagreements)
8. [What is not modelled](#what-is-not-modelled)

## The system

Three processes cooperate.

- The **shell** (`shell/src`, Electron) starts the core, relays the renderer's
  commands to it and its events to the renderer, and ends it on quit.
- The **core** (`src/CodeFlow.App`, .NET) does the work. It runs AI command-line
  tools and terminals as children, keeps one SQLite database behind a semaphore,
  acts on repositories through libgit2 and the git program, and calls GitHub,
  Azure DevOps, model servers and work-item trackers.
- The **renderer** (`renderer/src`, React) shows it. Its zustand stores hold what
  the user sees and drive the longer flows: a guarded checkout, posting findings,
  a conversation.

They interact in four ways.

- *Calls.* A renderer's `call` goes over the bridge to the shell's `IpcClient`,
  is written as a frame on the **rpc** socket, dispatched by the core without
  being awaited, and answered by a frame with the same id.
- *Events.* The core publishes on the **stream** socket: AI output, terminal
  data and exit, file changes, stream messages. There is no acknowledgement.
- *Shared state.* Handlers of the core share the database (each transaction
  atomic, a read and a later write of one handler not), registries keyed by id
  (AI runs, terminals, API requests, streams) and the repositories on disk, which
  the user's own git and editor change as well.
- *Callbacks.* A store function awaits a call and then acts on the store as it is
  by then; dialogs are promises settled by a click.

Nothing in the core serialises two commands about one pull request, one
repository or one work item. What a handler read before an await may be stale
when it writes, and almost every hazard below has this shape.

## Inventory

What each component with a model keeps, does and promises. The others are at the
[end](#what-is-not-modelled), with the reason.

| Component | State | Operations | Hard behaviour | Correct when |
|---|---|---|---|---|
| AI runs | registry id → cancellation source; child, two pipe readers, silence deadline; run trace | start, attempt, spawn, read, publish, stop, expire, kill tree, quiesce, retry, settle | three ways to cancel race each other and the child's end; a retry reuses the id; descendants keep pipes | a live child can be stopped; a finished run is quiet; a verdict has its cause; stop and silence end the run |
| Review memory | `review_runs` rows: findings with id, state, thread, level; the analysed commit | review (fetch, compare, ask, answer, reconcile, store), mark, delete | colliding keys, shallower levels, files not examined, concurrent reviews | ids unique, nothing forgotten, "resolved" means gone |
| Review posting | the batch on the network; the threads of the pull request | freshness check, summary, open or reply per finding, write back | lost answers, one step of several failing, stale snapshot written back | what landed is remembered, no second thread for a row |
| Shell and core (IPC) | shell status, sockets, pending calls; core connections, handlers, host token | start, dial, hello, invoke, dispatch, reply, drop, crash, interrupt, quit | two processes notice each other's end in any order, over two channels and timers | every promise settles; the core does not outlive the shell it served |
| Terminal sessions | pseudo-terminal, bounded channel, two tasks | open, read, publish, exit, close | a full channel, a close at any point, an exit that overtakes output | nothing dropped or reordered, exit once and last, close returns |
| Checkouts and stashes | head, working tree, stash list per repository; the dialog | guarded checkout (run, ask, save, retry, carry), stash save/apply/pop/drop/rename, commit, discard, project switch | positions used as names, the stash as the only copy, replies after the user moved on | uncommitted work never disappears; what was set aside stays |
| Checkpoints | refs with a snapshot of a tree | checkpoint around a turn or a replacement, prune, remove, restore | a restore fails half-way; edits, renames and commits since; a turn ends while another starts | a restored path holds what it held |
| Migrations | schema and rows of one file | each statement of each launch, the application in between | death between two statements, of a file of any age | what a user wrote is kept, and a launch that comes up finished the work |
| Prompt diffs | the budget and its shares; a hunk | share, trim, declare gaps | zero, exact fits, files dearer than their share | the budget is used and shared fairly, changes are shown |
| Repository view and watcher | generations of reads, throttled announcements, the refresh gate | open, refresh, announce, operate | reads resolving out of order, the last change of a burst, events held back | what is shown is of this checkout, and changes show up |
| Commit graph | lanes, and what each waits for | place a commit | merges, shared parents, parents beyond the window | a line to a first parent crosses no commit |
| API client: tabs | open tabs, drafts, the setting that keeps them | load, edit, save, close, switch workspace, persist after a delay | answers after the workspace changed | a tab without a mark is saved; tabs are there after a switch |
| API client: sends | stages of a send, spinner, reply, history, cookies, variables | send, cancel, switch, close, fail | one async function reads stores that change under it | the history is the workspace's own; the spinner tells the truth |
| API client: runner | one loop, the modal, the report | run, jump, stop, close, reopen | a loop that outlives its modal, a second one beside it | a run executes what was planned, up to its ceiling |
| API client: tree | rows in the database and on screen | create, rename, move, copy, delete, reload | changes shown before the core has answered | what is shown when all is answered is stored |
| API client: streams | registry id → connection; a tab's connection | connect, dial, fail, drop, disconnect, close tab | a disconnect while dialling, ids used again | a status reaches the tab it is about, a connection has one end |
| Chat | conversations, turns, log rows, the engine | send, new, open, archive, rename, delete, route | a reply after its conversation changed | one conversation is shown, and filed as shown |
| Jobs | the list, the history rows | start, settle, read history, remove | a list read while jobs end | every job is listed once |
| Editor | open files, panes, the question | open, type, save, split, close, switch project, react to the disk | answers after the file or the project changed | what is open is shown; what is clean is on disk |

The hazards are in `PROJECT.json`, each at its line, with the properties that
would catch it or a note saying why none does. A few rarer ones of the same
kinds are only named here: the scratch files of a failed spawn
(`AiEngineRunner.cs:136`; `ScratchAlwaysSpansTheChild` is proved), a stop between
registration and spawn (`AiRunRegistry.cs:206`), the head resolved before the
diff (`ReviewRun.cs:150`), a batch written over a deleted run
(`ReviewPosting.cs:116`), a session opened while all are disposed
(`TerminalRegistry.cs:96`), output before its pane exists (`TerminalPane.tsx:45`),
the two calls of a stash rename (`Stash.cs:145`), a hard reset to a cached branch
(`repoStore.ts:737`), a request registered twice (`ApiRegistry.cs:50`), a list of
pull requests answered late (`prStore.ts:158`).

## Plan

The order was by what a user loses when it goes wrong and by how far a test is
from reaching it: a process that cannot be stopped, a decision that is
forgotten, a comment posted twice, a promise that never settles, work that
disappears, a screen that shows something else than what there is.

| | Module | Composes | Abstract specification | Theorems |
|---|---|---|---|---|
| 1 | `AiRuns` | registry, runner, transports, stop button | – | `AiRunsProofs` |
| 2 | `ReviewMemory` | – | – | `ReviewProofs` |
| 3 | `ReviewPosting` | `ReviewMemory` | – | `ReviewProofs` |
| 4 | `Ipc` | shell and core | – | `CoreProofs` |
| 5 | `TerminalStream`, `Terminal` | – | `TerminalStream` | `CoreProofs`, the refinement among them |
| 6 | `Checkout` | core, store, dialog, user | – | `WorkingTreeProofs` |
| 7 | `Checkpoints` | turn, replacement, restore, user | – | `WorkingTreeProofs` |
| 8 | `Migrations` | launches and the application between them | – | `CoreProofs` |
| 9 | `PromptDiff` | – | – | `CoreProofs` |
| 10 | `RepoView` | watcher, gate, `repoStore` | – | `RepositoryProofs` |
| 11 | `GraphLayout` | – | – | `RepositoryProofs` |
| 12 | `Workbench`, `Sends`, `Runner`, `RequestTree`, `Sockets` | stores of the API client, and the core's tables | – | `ApiClientProofs` |
| 13 | `Conversations`, `Jobs` | stores, and the core's log | – | `PanelsProofs` |
| 14 | `Editor` | – | – | `PanelsProofs` |

What is left of it, in the order of its worth: `Merges` (commits, an index and
conflicts on top of `Checkout`), `Tickets` (a cache and a mirror with two syncs),
and the two calls inside a stash rename.
The modules are written for proofs: functions and records with
types, no RECURSIVE operator, one action per operation, bounds as constants with
named assumptions.

## The modules

Each module's header says which files it is about and what it leaves out; the
lines each definition stands for are in `PROJECT.json`, `map`.

### `AiRuns`: one AI invocation

From the command that asks for it to the outcome the renderer sees:
`AiEngineRunner.SubprocessAsync` (attempts, the one retry, the scratch files)
around `AiRunRegistry.RunAsync` (registration, spawn, pipe readers, silence
deadline, kill, grace period, verdict), the HTTP transports, and the stop button
of `aiRunStore.ts` with `AiRunRegistry.Cancel`.

| Variable | Code |
|---|---|
| `pc` | the statement the invocation awaits in `SubprocessAsync` / `RunAsync` |
| `runs`, `attempt` | `_runs[id]`, by the number of the call whose source it holds |
| `child`, `code`, `held` | the process, what `Interpret` will make of it, a descendant that keeps its pipes |
| `pumps`, `recorded`, `published` | the two reader tasks, the trace, the `ai:output` events |
| `stopped`, `expired`, `dropped` | the registered source, the deadline's source, the caller's token; `cause` remembers which fired first |
| `stop`, `target` | `Cancel`: asked, source found, signalled or too late |
| `scratch`, `writes` | files written for the attempt; `AutoApproveEdits` |

Each await is a step boundary. `Cancel` is two steps, because looking the source
up and cancelling it are not atomic: in between the call may end, dispose it and
be followed by the retry. A read that blocks may or may not be interrupted by
the token (`PumpInterrupted` is never fair); a publish is. The text of the
output is abstracted to the verdict it leads to (`Codes`).

### `ReviewMemory`: what re-reviews remember

`ReviewRun` (commit, comparison, prompt, storing), `ReviewMemory.Reconcile` and
its helpers, `ReviewRunStore` (rows, latest, marks, deletions). A finding is
known by its *place*, file and category, which several findings share; that is
what makes reconciliation hard and is kept. Its text is not. `Reconcile` is two
recursive functions, one for each loop of the code: the answer in order
(`Restated`), then the previous findings nothing claimed (`CarryForward`). A review
is five steps, for the awaits between them: the commit is read (`ResolveHead`), the
prompt is shaped from what changed since the latest run (`Ask`), the answer arrives
and the rows are counted (`Answer`), the previous findings are read
(`LoadPrevious`), the result is stored (`Store`). `last` is a history variable with
the inputs and the result of the latest reconciliation.

What the code reads on a best effort may go wrong each time. A fetch that fails
leaves any commit seen before, or a ref that does not resolve, and then there is no
diff and no review. The comparison names the ref, which may have moved on since the
commit was read. The previous head may be unreadable and the comparison may fail:
both are `Unknown`, and then every file counts as touched. A finding may also name
no file (`NoFile`), and it counts as touched always.

### `ReviewPosting`: a batch on the network

Extends `ReviewMemory` and interleaves with all of it. `Publish` reads the stored
findings and the analysed commit and matches the chosen items
(`Matches`); `EnsureUnchanged` is GitHub's freshness check;
`OpenThread`, `Reply` and `ItemFails` are the outcomes of one item, of which
"opened, but the answer was lost" is one; `PostSummary` comes before or after by
host; `SetFindings` writes the whole list back; `Die` is the end of the process
at any point. Threads are external: GitHub and Azure keep them.

### `Ipc`: two processes, two channels

`IpcClient` and the startup and quit of `main.ts` on one side, `IpcServer`,
`IpcConnection` and `Program`'s host token on the other. Both ends of each
channel and the connection between them are separate variables (`sock`, `wire`,
`conn`), because each side learns of its end at a different time. Frames in
flight are sets: ids are never reused and nothing depends on their order.
`linked` is the state of the token source that `PumpAsync` hands its handlers:
live, cancelled or disposed.

### `TerminalStream`, `Terminal`: a session and its promise

`TerminalStream` is the abstract specification: chunks delivered one by one and
in order, one announcement of the end after the last of them, and only a close
may cut the output short. `Terminal` is the pseudo-terminal, the reader task,
the bounded channel and the publisher task of `TerminalRegistry`, with
`CloseAsync` in three steps. It implements the promise under the mapping
`out <- written, gone <- (shell = "exited"), closed <- Cancelled`.

### `Checkout`: uncommitted work across branches

`repoStore.checkoutGuarded` as a flow of steps (`Start`, `Run` or `RunBlocked`,
`Answer`, `SaveAside`, `Run` again, `Carry`) over the working trees and stash
lists that `Branches.Checkout` and `Stash.*` act on, with the user's clicks,
edits and commits, the single dialog of `confirmStore.ts` and the project switch
in between. Work is a set of pieces; a piece may be on a file that differs
between branches (`Colliding`) and may be what a branch holds already (`Has`).
The stash list is a sequence because the code names its entries by position.
libgit2's checkout, stash and apply are modelled from how `Stash.cs` and
`Branches.cs` read their results.

### `Checkpoints`: the undo list

`Checkpoints.cs` around the two operations that take one: an agent's turn
(`CheckpointBefore`, the agent's edits, `CheckpointAfter`, `RemoveUnchanged`) and
a replacement in all files (`Plan`, `TryCheckpoint`, `WriteAllText` file by file).
A restore goes file by file too (`Restore`, `PutBack`, `PutBackFails`,
`Restored`), with a user who edits, renames and commits all along. A file is its
content; of the index only that it decides how a rename is paired. `touched` is a
history variable: the paths somebody wrote since the restore began.

### `Migrations`: the launches of one file

There is no version table: each statement looks at what it finds. The program
counter `launch` is the statement of `Migrations.Run` the launch is at, `Dies` may
happen at every one, and `Open` begins again. `MigrationInit` holds files of any
age the code names: with and without the API client's tables, in their old shape
or not, contexts by project, instruction files, standards in a table of their own
or among the prompts.

### `PromptDiff`, `GraphLayout`: two algorithms

`PromptDiff` is the sharing of the budget between files, a recursive function that
always serves the cheapest of those that wait, and the trimming of a hunk, on a
list of costs that grows file by file, and a hunk line by line; its properties
compare with what a fair sharing is. `GraphLayout` places one commit per
step, in every order of commits in which children precede parents.

### `RepoView`: which tree is on screen

A version number for each working tree; the generations (`seq`) that reads are
checked against when they come back (`LoadLands`); the watch of the selected project,
which is asked for in a call of its own and may come late or fail (`WatchStarts`,
`WatchFails`), and its throttle (`Announce`, `CoolDown`); the gate of `repoRefreshGate.ts` in front of what it
announces (`NewsArrives`); and the operations that close the gate, rewrite the
tree (`Rewrites`) and refresh (`Refreshes`). `entangled` and `lost` are history
variables for the cases named under [disagreements](#disagreements).

### `Workbench`, `Sends`, `Runner`, `RequestTree`, `Sockets`: the API client

The core's database has one gate, so a call takes effect when it is placed and
what varies is when its answer is seen. `Workbench` has the open tabs, the
setting that keeps them per workspace, and the delayed `persist` with its timer
(`armed`); `typed` is history, what the user left in each tab. The setting may fail to
be read; that it fails to be written is left out. `Sends` is one
`runSend`, await by await (`SendRequest`, `Resolved`, `Replied`, `FileCookies`,
`RecordReply`, `SendEnds`), each reading the stores as they are by then. `Runner` is
the loop of the collection runner with the modal that started it. `RequestTree`
has the rows twice, in the database and on screen, because the store changes the
latter by itself. `Sockets` follows the id of a connection from the panel through
the store to the registry and back with an event.

### `Conversations`, `Jobs`: what was asked, and what runs

`Conversations` has the panel, the rows of the log, the turns under way and the
reads, whose answers arrive in any order; the engine of the chat can be changed.
`Jobs` is the list in memory and the history in the database, which the core
writes when a run ends.

### `Editor`: open files and panes

The registry of `EditorView.tsx` and the arithmetic of `editorGroups.ts`: a file is
open once and shown in any number of panes, read and written by calls in flight,
changed by others on the disk. `closedStale` is a history variable for a close whose
outcome was computed before its question was answered.

`Lists` has what `Array.filter` leaves of a list, for the panels and for the items of
a batch.

### The MC modules

Components that share no state are checked as a sum: one runs, then the next, so
that their states add up instead of multiplying. `MCCore` is `Ipc`, `Terminal`,
`PromptDiff` and `Migrations`; `MCCheckout` is `Checkout` and `Checkpoints`;
`MCRenderer` is the ten models of the renderer. `MCReviewPosting` is the review
memory with and without posting. Each also declares what a `.cfg` cannot write:
functions such as `FileOf`, `Home`, `Has`, and the symmetry of `MCCheckout`.
`MCReviewMemory` has the constants for the run with an omitted file. `AiRuns` and
the modules of the single violations need none.

Operators introduced as a *faulty variant* are plausible mistakes in the
definition that follows them. No action uses them. Each property is shown to
reject at least one: `PROJECT.json`, `mutants`.

## The runs

| Run | States | Asks |
|---|---|---|
| `AiRuns` | 168,728 | three invariants and two liveness properties over every interleaving of one invocation |
| `Core` | 103,222 | `Ipc`: two calls over two channels, with crashes, breaks, interrupts and quitting: nobody is left waiting; `Terminal`: the session implements its promise, is bounded, ends; `PromptDiff`: the budget is shared, changes shown; `Migrations`: every launch is an upgrade, wherever the earlier ones died |
| `Review` | 3,059,608 | what three reviews remember, with a push, a mark and a deletion between any two steps; two batches of colliding findings with lost answers, failures and deaths |
| `Checkout` | 2,254,996 | two flows, two pieces of work, clicks at stale positions: nothing is lost; a turn, a replacement and a restore: an undo puts back |
| `Renderer` | 2,999,445 | the ten models of the renderer: calls answered late, out of order or not at all |
| `AiRunsRepeat` | violation | is a stopped run ever repeated? |
| `ReviewMemoryOmitted` | violation | was what is called resolved examined? |
| `ReviewPostingMarks` | violation | does a mark made during a batch survive it? |
| `CheckoutCarry` | violation | is the carried work applied where it came from? |
| `ConversationsEngine` | violation | is a conversation only resumed by the engine that has it? |
| `Migrations` | violation | does every launch get through? |
| `Checkpoints` | violation | does a snapshot record what was absent? |

The properties of the passing runs, by module:

| Module | Properties |
|---|---|
| `AiRuns` | `LiveChildIsReachable`, `CompletedRunIsQuiet`, `OutcomeHasACause`; `StopEndsTheRun`, `SilenceEndsTheRun` |
| `Ipc` | `NobodyIsLeftWaiting`; `EveryCallSettles`, `CoreEndsWithItsShell` |
| `Terminal` | `Backpressure`; `KeepsItsPromise` (the refinement), `ExitIsAnnounced`, `CloseAlwaysReturns` |
| `PromptDiff` | `TheBudgetIsShared`, `EveryChangeIsShown` |
| `Migrations` | `LaunchesAreUpgrades` |
| `ReviewMemory` | `IdsAreDistinct`, `MemoryIsCarried`, `ReappearingStartsOver`, `RestatedIsNotRefiled`, `ResolvedMeansMoved` |
| `ReviewPosting` | `SuccessIsRemembered`, `ThreadsAreNotShared`; `NoSecondThreadForARow` |
| `Checkout` | `NoWorkIsLost`, `AsideStaysAside` |
| `Checkpoints` | `UndoPutsBack` |
| `Workbench` | `CleanTabsAreSaved`, `NoDraftIsLost` |
| `Sends` | `HistoryStaysHome`, `SpinnerTellsTheTruth` |
| `Sockets` | `SocketsAreAddressed` |
| `Runner` | `ARunKeepsToItsPlan` |
| `RequestTree` | `TheTreeShownIsStored` |
| `Conversations` | `OneConversationIsShown` |
| `Jobs` | `JobsAreListedOnce` |
| `RepoView` | `TheTreeLeftStaysGone`, `ChangesShowUp` |
| `Editor` | `OpenFilesAreShown`, `CleanIsOnDisk` |
| `GraphLayout` | `FirstParentLinesAreClear` |

The shapes of the variables are proved, model by model (`TypeCorrect`,
`IpcTypeCorrect`, `TreeTypeCorrect` and so on), and so are not run.

Bounds, and why they are enough:

- **`AiRuns`**: one invocation, since invocations share nothing but the registry,
  whose entries are keyed by id. `MaxLines = 2` lets one reader hold a line while
  the other has finished, or both hold one. `MaxAttempts = 2` is the code's.
- **`Core`**: two calls, one of which may be answered while the other waits, is
  pending or runs. Channel and pseudo-terminal of depth 2, so that each can be
  empty, partly full and full, and eight chunks, more than all the buffers and
  hands hold together. Up to four files of four lengths and budgets that are
  zero, too small, exact and ample; hunks of ten lines, with room for two changes
  whose context touches, just fits or leaves a gap. Two workspaces, the second
  made by a later launch or session.
- **`Review`**: one place and answers of at most two findings make every finding
  collide; three stored runs let a finding be resolved, reappear and be
  reconciled again; levels 1 and 3 are shallow and deep. One job at a time reads
  and stores while marks, pushes and deletions happen at any of its steps; the
  theorems have any number of jobs, though of a run that another one was stored
  beside `ResolvedMeansMoved` says nothing (see [disagreements](#disagreements)). A
  second place has no file; it is a first review's whole answer, which the next two
  restate or leave. Stale commits and failed comparisons are where nothing is
  posted. Where there is posting there are two reviews at one level, a batch and its
  retry, and three threads, one more than there are findings, so that a duplicate
  can be opened; on Azure the batch has one finding and a review may run beside it.
- **`Checkout`**: one work that blocks and one that does not and that the other
  branch has; two entries in the stash list, the least for which a position can
  be wrong; two flows for the dialog that is replaced. Two files, two contents
  and two edits, which is a rename and an edit of either of its names; a list of
  one checkpoint, so that the second of two prunes the first.
- **`Renderer`**: two of everything that is chosen between (workspaces, projects,
  repositories, tabs, engines, panes), two calls in flight, which can come back in
  either order (three of the request client's, so that a tab can be saved twice
  while a load is on its way), three dials and three jobs so that one can end while another is
  there and a third begins, and three to seven things the user does or that fail, enough for
  every race the history variables name. Five commits of the graph hold
  two merges and a commit beyond the window.

Deadlock is not checked, because each of these systems may come to rest: a
settled invocation, a closed session, both processes gone, a bound reached.

Fairness is assumed only of what the code's scheduling gives:

- **`AiRuns`**: ready continuations run, the deadline is a timer, a pipe nobody
  holds ends. Not fair: the child or its descendant exiting, a blocked read
  giving up, an HTTP answer, any request of the user.
- **`Ipc`**: events that are due are delivered, timers fire, handlers end, a
  process that was signalled ends. Not fair: the core starting to listen, a
  link breaking, a process dying, anyone quitting.
- **`Terminal`**: both tasks run, a publish ends, and a close that began
  continues. Not fair: the shell writing or exiting, the user closing.

No other module has a liveness property: what the renderer must do eventually
depends on answers of the network or a user, which nothing makes fair.
`ChangesShowUp` says as a safety property what would be one there: a change that
is not on screen is on its way to it.

`StopEndsTheRun` and `SilenceEndsTheRun` exclude one state by name, `Drained`:
the child exited by itself and a descendant of it still holds the pipes. The code
awaits the readers there without the token, and neither property holds.

Several properties of the renderer except a case by a history variable
(`orphans`, `tangled`, `raced`, `crossed`, `spoilt`, `strayed`, `missed`, `lost`,
`entangled`, `closedStale`). Each case is a race in which the code does go wrong, named at the
variable and listed under [disagreements](#disagreements); the property says that
nothing else goes wrong.

## Proofs

The theorems hold for every value of the constants, from the named assumptions
only, which the runs also evaluate:

- bounds are numbers, and where the code divides or waits on them positive ones:
  `MaxLinesAssumption`, `DepthAssumption`, `GraphConstants`, `SocketBounds`, `RunnerPlan`,
  `PromptConstants`, `BoundsAssumption`, `LevelAssumption`, `PostBoundsAssumption`, and among
  others `SendConstants`, `ConversationsConstants`, `WorkbenchConstants` and
  `RequestTreeConstants`;
- what is selected at first is one of those there are: `SendConstants`,
  `RepoViewConstants`, `WorkbenchConstants`, `ConversationsConstants`, `EditorConstants`;
- a value that stands for nothing is none of the others: `NoTreeIsNoPicture`,
  `MigrationConstants`, `CheckpointsAssumption`, `UnknownAssumption` and again
  `WorkbenchConstants`, `EditorConstants`;
- the tables given are tables: `WorksAssumption`, `FilesAssumption`, `JobsConstants`;
- the collections that are there at first are finite trees, every node in the
  collection of its folder and no two siblings of a kind at one place
  (`RequestTreeConstants`): what `MoveNode`, `NextChildOrder` and `renumber` keep so;
  and the switches of the review's model are switches: `SwitchAssumption`,
  `HostAssumption`, `FaultsAssumption`.

A module of proofs belongs to a part of the system, with a section for each of its
models.

### `AiRunsProofs`

None of the six invariants is inductive by itself: that a
finished run is quiet, say, needs to know where its readers can have failed. The
invariant `IInv` is `TypeOK` and four conjuncts for each run:

- `Attempts`: the program counter determines how many attempts there were, and
  within a call the id maps to the current attempt's source;
- `Lifetimes`: a running child implies the call is in its middle, the scratch
  files exist exactly during the call, no result before the end;
- `Trace`: `recorded = published + the lines in the readers' hands`, unless a
  reader was cut short, which only happens in a cancelled attempt;
- `Causes`: every cancellation has an author, every verdict a cancellation.

One lemma per group of actions (`InvocationStep`, `PumpStep`,
`EnvironmentStep`, `AskStopStep`, `CancelStep`) shows that it is kept, and
`Invariance` combines them. `TypeCorrect`, `LiveChildIsAlwaysReachable`,
`CompletedRunIsAlwaysQuiet`, `OutcomeAlwaysHasACause`, `WritesAreAttemptedOnce`
and `ScratchAlwaysSpansTheChild` follow from it.

### `ReviewProofs`

First the reconciliation, of any answer and any previous run, step by step. An
invariant of each of its passes says which rows of the previous run are claimed and
what the new list holds by then: `RestateKeeps` for the answer, `CarryForwardKeeps`
for what nothing claimed; `ReconcileKeeps` joins them into `Reconciled`, from which
`ThreadsStayApart`, `NothingIsForgotten`, `NewRowsStartOver` and `ResolvedIsTouched`
are read off. `RestatedStayOpen` is a counting argument: each finding of the answer
that claims an open row of its place claims another one, so that the open rows of a
place that come out are as many as were restated, or as there were.

`ReviewInv` is then about the runs: each stored run has distinct numbers and
threads; a job holds a run that was stored so, and the files that moved from the
commit of that run to the one compared with it, or nothing where that failed; a batch is the list it read, whose rows nobody else gives a
thread, with the threads it opened, newer than all on that list and each opened
once. It is kept by every step of a review (`ResolveHeadStep` to `StoreStep`), of a
batch (`PublishStep` to `SetFindingsStep`) and of the user and the pull request.

Every theorem of this part has one hypothesis, `Numbered`: the model numbers the
findings of an answer 1, 2, .... A first review is stored with those very numbers
(`ReviewRun.cs` renumbers only where there is a previous run), so that nothing else
could keep them apart; the runs assume the same.

### `CoreProofs`

**`Ipc`.** `NobodyIsLeftWaiting` is what `EveryCallSettles` comes to without fairness: of
a running shell, each pending call has a reply on its way or a close event due, and the
client is still the one that will hear it. It is not inductive. `EndsAgree` says that
neither end of a channel knows of more than there is: who has closed has a broken
wire, and a process that is gone has no open one. `ShellKeepsPace` says that a client
that is ready has one socket at least whose close it will hear. That one may be the
stream's alone, when the rpc channel broke while the client was still connecting: so the
close of *either* socket has to fail the pending calls, as `ipc-client.ts` does, and
not only the close of the one the calls went out on (`SocketClosesOfCalls` is that
mistake, and the run finds it). `CoreKeepsPace` says that an rpc channel which
breaks before it was ever served breaks with a process that is gone or leaving, or
after the client gave up. That is why a core need not be told to leave by a
channel that it never served. `IpcSteps` goes through the twenty-three actions.

**`PromptDiff`.** Of a hunk: the lines kept fall into runs, and a run is the same from
whichever of its lines it is computed (`RunsAreOne`), so that a gap and a run never
share a line and every changed line is inside one. Of the budget: at each turn of the
loop one of two things holds. Either nobody is cut so far, and what was given can
be given to each that waits (`Plenty`); or everyone from here on is given `s` or
`s + 1` (`Scarce`). The turn from one to the other is the only division that leaves
a remainder, and `SumGrows` adds up what was given.

**`Migrations`.** What a launch may rely on depends on the statement it is at,
and comes from the statements before it or from launches that got further. The
tables fall into three groups that no statement mixes, each with an invariant and
step lemmas of its own: the roots (`RootsInv`: they are moved aside in order, and no
launch gets past the schema unless all of them were), the contexts and their files
(`ContextsInv`: every file is a context when its table is dropped) and the prompts
(`PromptsInv`: the user's own standards are taken over before the defaults are
filled in). `LaunchStep` combines them with what each action keeps, `UpIsLast` and
`UpIsMigrated` are about the launch that comes up.

**`Terminal`.** The argument is where each chunk is:
`shown <= taken <= read <= written`. `QueueIsTheGap` says that the channel holds
exactly the chunks between `taken` and the one in the reader's hand, without a
hole; `PublisherKeepsUp` that the publisher is at most one chunk behind and leaves
nothing behind it unless the session was closed; `EndsAreReasoned` that the
reader ends after the last chunk or because of a close; `GapsAreBounded` bounds
each gap. `TypeCorrectness` and `MemoryIsBounded` follow, and `SessionIsAStream`:
the session implements `TerminalStream`. The lemma `DrainedMeansShown` is its
heart: a publisher that finds the channel complete and empty, in a session
nobody closed, has shown all that was written.

### `WorkingTreeProofs`

**`Checkout`.** `NoWorkIsLost` is not inductive: giving up a conflict removes
from the tree what an apply brought, and only that it is still in the stash, or was
given up by hand since, keeps it. `MarksAreKept` says so. `WorkInv` adds to it the
shapes of trees, lists and flows, that every piece of work is held somewhere and
that every entry set aside is listed. The lemmas about sequences (`JoinedEntries`,
`RemovedEntry`, `ConsedEntry`) say what joining, removing and adding do to the set of
entries, those about operations (`SaveKeeps`, `ApplyKeeps`, `DropTakesOne`) what they
conserve; `ClickStep`, `TreeStep` and `FlowStep` go through the actions.

**`Checkpoints`.** `UndoPutsBack` says nothing of the checkpoints no restore has
reached yet. `UndoInv` adds that each of them is faithful to the disk it was taken
of, but for renames, and that what a restore is through with, and nobody else
has written, holds what its checkpoint has.

### `RepositoryProofs`

**`RepoView`.** `ViewInv` adds to `TheTreeLeftStaysGone` what every read in flight
carries: one of the current generation was made in the current era of its repository
(`ReadsAreOfTheEra`), and during a checkout nothing else is under way unless it was
begun then (`CheckoutsAreUndisturbed`). That is the argument for comparing `seq` when
a read comes back and for raising it when a checkout begins. `ArrivalInv` is for
`ChangesShowUp`: what a read has seen is never newer than the tree
(`ReadsAreNotAhead`), and a change that no watch sees is either read by something that
has not begun or counted as `lost`, so that what the screen lacks is still on its way.

**`GraphLayout`.** `LaneInv`: as long as the first parent of a commit is to come, the
commit's lane waits for it (`AwaitsItsParent`), so that the lane is neither free nor
held for another, and nobody else is placed in it. `Min` of the library is a CHOOSE;
`LeastNatural` shows that there is something to choose.

### `ApiClientProofs`

**`Sends`.** Of one tab that was never released with a send under way, every send
but the last is over, since the Send button asks the spinner. So the send that ends
is the one the spinner turns for, and the one that replies is the last. `SendInv` is
that, and that a history entry names the workspace of its tab.

**`Sockets`.** `SocketInv`: of a tab that met no race at most one attempt has not
settled, and none while a connection of it lives (`OneAtATime`); the object of a dial
is disposed of in step with how far the dial is (`DisposedInStep`).

**`Runner`.** `RunnerInv`: a run that never jumped has executed as many items of its
plan as it has gone through, and those in order; none is past the ceiling.

**`Workbench`.** `CleanTabsAreSaved` speaks of the screen only, but a clean tab on screen
was a row of the tree when it was opened, a list in a setting when its workspace was
left, or part of an answer. `BenchInv` says of every list of tabs, on screen, in the
setting of a workspace that is left, or in a load under way, that it *fits* the rows
(`Fits`: the requests are rows of its workspace, no two tabs have one, clean tabs have
their spec); of the tree, on screen or in a load, that it is as the rows are unless a
save of the request comes later in the queue; of a save under way, that it is what the
row holds unless another draft is saved after it; and that nothing mentions the
request of a scratch tab before its save is answered. `QueueMoves` shows once for all
that the queue keeps its part when its head is answered or a load is added; a save,
a creation and a deletion have their own lemmas (`SavingKeeps`, `FilingKeeps`,
`DeletingKeeps`), since they change rows under the calls that wait. `DraftInv` is for
`NoDraftIsLost`: a load under way that brings the setting of a workspace nothing was
written over is the only one of its kind, brings what was typed there, and is for the
workspace on screen, which shows no tabs yet (`LoadsTell`); where tabs are shown there
is none (`ShownIsQuiet`). So a load never puts an older list over a newer one, and
`persistNow` writes what was typed or spoils the workspace (`PersistingTells`).

**`RequestTree`.** The property speaks of the moments with no call under way, the
invariant must speak of the others: `Foreseen` says that the answers under way,
applied to what is shown one after another, lead to the very rows of the database,
unless one of them will be a race. A refused move has no place in that order, since
its reload is only asked for when it is answered; until then nothing is said, and the
reload starts over. So a call that is placed has to change the rows as its answer will
change what is foreseen (`ForeseenAfter`), an answer to do what was foreseen
(`ForeseenAnswered`), and a read settles the matter (`ForeseenAtARead`). A drop changes
the screen at once, under the answers to come; outside of the races those are moves,
which change nothing, so the two trees are the same when it is made. There
`MovesAgree`: the renderer splices first and then takes what is under a folder to its
new collection if that is another one, the core takes it there in any case and then
splices, and both give the same rows. That rests on the subtree, which both compute
level by level: `SubtreeIsClosed` (there are not more levels than nodes),
`SubtreeIsLeast`, `SubtreeMoves`; on the siblings at the destination being none of what
is carried along (`SiblingsStay`); and on everything in a folder being in the folder's
collection (`Housed`), which the invariant keeps too.

The types of the rows are a matter of their own, since `moveNode` and
`NextChildOrder` sort the children of a place. The sorted list is a CHOOSE among the
enumerations without a descent; `SortedExists` shows that there is one, by adding the
greatest to a list of the others, and `InOrderIs`, `PlacedIs` and `PlacesAreApart`
that it holds every child once, so that each is renumbered to a place of its own
(`TreeTypeCorrect`). From that comes `SiblingsNeverShareAnOrder`, which no constraint
of the database ensures: two children of one place never have one order. The exception
is `raced`, and it is needed: after a request was filed in another collection than its folder's, a
move can put it beside a row of the same order.

### `PanelsProofs`, with `ListsProofs`

**`ListsProofs`** is what the others need of sequences and recursion.
The library states induction for an operator, which cannot be instantiated here;
`NatSetInduction` states it for a *set* of numbers and has it from the pigeonhole
principle of the library's theorems about finite sets. From it come the least and the
greatest of a set (`LeastOfNats`, `GreatestOfNats`), that a function defined by
recursion along a list exists (`FoldExists`, `StepsExist`), and what a filter
leaves: the rows that pass, each once, in their order (`PickedPlaces`, `PickedRows`).

**`Jobs`.** `JobsInv`: what runs or has ended is listed until the renderer is told, and
an entry leaves the list only by filtering; it adds who knows of a job, the list, the
file, or an answer on its way.

**`Conversations`.** `TalkInv`: a row of the log keeps the conversation and the session
its turn ended with, what is opened is all the rows of one conversation, and unless
something strayed the panel holds the rows of its own.

**`Editor`.** `CleanInv`: what a read or a write brings back was on disk when it was
answered, and nothing else makes a tab clean. `PanesInv`: the panes are a row of strips,
no file twice on one, none empty beside others; every step keeps it a row, and what it
takes off the last strip that shows a file, it closes. `InStep` has the two directions
apart: that no open file is out of sight holds always, even when a group is closed by
an answer about panes that have changed since it was asked, for what was asked
about was itself such a row (`Full(question.asked)`); that every tab has its file
holds but for that case.

### What is only model-checked

- Liveness (`StopEndsTheRun`, `SilenceEndsTheRun`, `EveryCallSettles`,
  `CoreEndsWithItsShell`, `ExitIsAnnounced`, `CloseAlwaysReturns`): the prover handles
  neither fairness nor ENABLED. Of `Ipc`, `NobodyIsLeftWaiting` is the part that is safety.

Every other property of a passing run, the thirty-one invariants, the refinement and the
two action properties, is a theorem.

## Disagreements

Where the code does not do what a comment, a document or a test of the repository
says, or does something a user would not expect. The first seven have a run that
ends in a counterexample.

1. **A stop is forgotten by the retry** (`AiRunsRepeat`,
   `AiEngineRunner.cs:106`). A stop answered true while the output of a child
   that died of a network failure is drained cancels that attempt's source only;
   the failure is repeatable, and a second child starts.
   `docs/business-rules/05-ai-engines.md:1529`: "A cancellation never reaches
   here".
2. **Omitted counts as re-reviewed** (`ReviewMemoryOmitted`,
   `ReviewMemory.cs:362`). `Reconcile` is given the changed files and not which of
   them fitted the prompt, so the findings of an omitted file become resolved.
   The comment two lines below: "Its file was re-reviewed and the finding is
   gone".
3. **A batch undoes marks** (`ReviewPostingMarks`, `ReviewPosting.cs:142`). The
   list written at the end is the one read before the network calls.
   `docs/business-rules/07-review-pipeline.md:1016` keeps those states for people.
4. **Work is carried into another project** (`CheckoutCarry`,
   `repoStore.ts:336`). `carryStashOver` asks the store again which repository is
   open, after a dialog and three commands. The comment at line 324: "Applies the
   stash the checkout just made onto the branch now checked out".
5. **A conversation resumes another engine's session** (`ConversationsEngine`,
   `AiTurn.cs:352`). A turn that another engine failed is filed under that engine
   while the renderer still holds the token of the engine before it, and the next
   turn finds the two engines equal.
6. **An upgrade that dies may never complete** (`Migrations`,
   `Migrations.cs:109`). The four renames commit one by one and only the first is
   looked at; the `ADD COLUMN` of `review_contexts` is guarded by another column.
   The comment at line 13: "upgrade-safe by construction, works on a database of
   any age".
7. **An undo brings back a renamed file** (`Checkpoints`, `Checkpoints.cs:193`). The
   snapshot's status pairs a rename and names the new path only. The comment at
   line 203: "The snapshot has to record its absence, or restoring would resurrect
   a file the user themselves removed".

Met while modelling, without a run of their own. Those within a module are
behaviours it has, and where a property excepts one, a history variable names it;
the others are outside the models.

*AI runs*
- `Cancel` answers false before the registration, between two attempts and during
  an HTTP run, and the run goes on (`AiRunRegistry.cs:131`, `:206`).
- The reader of a killed run may outlive the grace period of two seconds and add
  lines afterwards (`:113`).
- A deadline that fires while a stop is carried out makes it a timeout, though the
  comment at `:249` says "Expiry, not a stop the user pressed".
- Neither a stop nor silence ends a run while a descendant of an exited child
  holds its pipes (`:232`).

*Reviews*
- A review whose comparison failed resolves every open finding it does not restate,
  whether or not its file moved, and any review does so to a finding whose heading
  named no file (`ReviewRun.cs:137-143`, `ReviewMemory.cs:349`); the comment at
  `ReviewMemory.cs:364` says "Its file was re-reviewed". `ResolvedMeansMoved` excepts
  both.
- With two reviews of one pull request in flight, or a batch and a review, the
  findings of the one stored last replace the other's, and what `ResolvedMeansMoved`
  and one thread per finding promise does not hold (`ReviewRun.cs:335`).
- `PersistingSection` (`ReviewMemory.cs:408`) matches restated findings by place:
  a silent open finding that collides with a restated one is not named, and "no
  changes in that file" is also said of findings outside the level's scope.
- `Narrow` (`ReviewRun.cs:433`) compares paths exactly and `FileInChanged` by
  suffix, so a file that was skipped may have its findings resolved.
- The second finding of one place in a batch replies into the thread the first
  just opened (`PostItem.cs:89`), against `ReviewPosting.cs:67`.
- A mark, or a post, acts on the first of two findings that collide.

*IPC*
- Handlers outlive their shell (`IpcServer.cs:195`): their token belongs to a source
  that the pump disposes as it ends, and the lifetime that is cancelled afterwards
  reaches nobody. The comment at `IpcConnection.cs:45-48`: "its AI subprocesses and
  PTYs must die with it".
- Events published between the shell's "ready" and the core's processing of the
  stream's hello are dropped.
- A publish cancelled while it flushes may leave half a frame.
- Calls that wait for readiness are left to their timer when the core is marked
  down.
- A core whose shell dies before it connects listens for ever, and a hello that
  times out is abandoned without closing the host.
- SIGTERM ends the core without unwinding, so its children are orphaned; the
  SIGKILL timer of `stopSidecar` is unreferenced and does not fire.

*Checkouts and merges*
- A second question replaces the first, whose promise never settles
  (`confirmStore.ts:45`): its checkout never ends.
- A click on a stash names a position, which may be another entry's by then
  (`GitSection.tsx:162`).
- If the tree was cleaned while the dialog was open, nothing is saved and an older
  entry is carried over (`repoStore.ts:339`).
- `useResolveWithAi` goes on after a checkout that failed or was declined, on
  whatever branch is checked out (`FindingCard.tsx:107`).
- A fast-forward is a hard reset and overwrites uncommitted edits
  (`Merge.cs:31`: "matching plain git merge"); merging another branch in the middle
  of a merge throws the first away (`ProjectRow.tsx:223`); an abort trusts the
  cached `merging`.

*Checkpoints*
- A checkpoint pruned or removed during its run makes `CheckpointAfter` throw an
  exception `IsSnapshotFailure` does not name, so that the turn fails and its reply
  is not recorded (`AiTurn.cs:377`).
- A restore puts back every path that differs, those the user edited while the agent
  worked included (`Checkpoints.cs:27`).
- libgit2's merged comparison may list paths whose content agrees, so a run that
  changed nothing may keep its checkpoint; the model leaves it open.
- A replacement writes what it planned before it took its checkpoint.

*Migrations*
- The variables of the old Globals are not carried over and are lost
  (`Migrations.cs:206`); `NothingIsLost` excepts them.
- The column `workspace_id` added to old contexts has no REFERENCES and does not
  cascade; an old cookie with the domain, path and name of a newer one is ignored
  though their ids differ (`:151`).

*Prompts and the commit graph*
- The reserve for omitted files under-counts (`PromptDiff.cs:173`: "can only
  over-count"), and a truncated file exceeds its share by the note that says so.
- A first parent that another lane waits for is put in a second lane too, which is
  never freed, so that the graph widens (`graphLayout.ts:61`).

*The view of the repository*
- The watch of a project is asked for in a call nobody awaits (`App.tsx:302`), so a
  change after the status was read and before the watch is on waits for the next read. If it
  cannot be started the user sees one general toast (`main.tsx:46`), nothing tries again,
  and changes made elsewhere show up with the app's own operations only; the comment at `RepoWatcher.cs:45` says that is
  "the caller's problem to hear about, not something to swallow" (`lost`).
- Events during a fetch or a push, or after an operation's own read, are dropped
  (`repoRefreshGate.ts:16`, `repoStore.ts:795`), and an operation that fails reads
  nothing again (`lost`).
- Two loads of one generation may land in either order and leave the older tree.
- A checkout that fails otherwise than by uncommitted work leaves the cleared view
  (`repoStore.ts:293`, against `:251`).
- Opening another project and coming back, or a second operation, during a checkout
  reads a half-written tree (`entangled`); the first of two checkouts clears
  `checkingOutBranch` for the second.

*The API client*
- Stream events are keyed `id`, `data`, `event` by the core and read as
  `connection_id`, `payload`, `channel` (`StreamModels.cs:17`, `types/api.ts:792`);
  sent frames are shown twice (`StreamRegistry.cs:257`, `WebSocketPanel.tsx:85`);
  configured MQTT topics are never subscribed.
- A disconnect during a dial disposes the connection twice
  (`StreamRegistry.cs:79`: "disposed exactly once"); a dial that succeeds after it
  pumps a connection nobody lists (`tangled`).
- The setting that keeps a workspace's tabs is overwritten before they were shown, and
  they are lost, when the workspace is left again before its load has published, since
  `flushPersist` always writes (`apiTabsStore.ts:104`), or when a tab is opened or a late
  save answered meanwhile; so they are after a load that failed, and after a setting
  that could not be read, which counts as none (`apiStore.ts:75`) (`spoilt`). A setting
  that cannot be written is lost in silence (`apiTabsStore.ts:272`).
- A save answered late lands in another workspace's tree (`crossed`); an edit during a
  save is marked clean (`raced`).
- Cookies and variables are filed by the workspace and environment of the moment
  the send ends (`RequestBuilder.tsx:421`); Cancel may cancel another tab's send
  (`trackRef`); the end of a send whose tab was released resets the spinner of a newer
  one (`orphans`); a download that fails after a successful send records a second
  entry.
- Closing the runner's modal says that no run is under way while the loop goes on; a
  late end overwrites a newer run's report (`RunnerModal.tsx:277`); variables are
  persisted after an abort, too.
- `reloadTree` does not check its workspace; an update puts the captured row back; a
  refused move restores a snapshot older than the other changes in flight
  (`raced`).

*Chat and jobs*
- A reply lands in whatever conversation is shown (`chatStore.ts:139`); a stopped
  first turn makes the next list clear the panel (`ChatPanel.tsx:184`); a
  conversation deleted while its turn runs is filed anew; archived rows answered late
  overwrite newer messages (`strayed`).
- A history that could not be read is not read again (`missed`); a row removed while
  it is read comes back (`dropped`).

*Editor*
- A late read patches by path whatever project is open (`EditorView.tsx:200`,
  against `:326`); a file opened, closed and opened again gets two answers, the
  later of which overwrites what was typed.
- The message of a failed read becomes the file's clean text and can be saved.
- A group is closed by what had been computed before its question, and may show a
  path without a tab (`closedStale`); events while a file loads or is dirty are
  skipped and not made up for; a project switch drops unsaved edits unasked.

*Work items*
- Nothing orders two syncs of one item (`TicketSync.cs:100`): the answer that is
  later stays, and the mirror and the cache may disagree.

## What is not modelled

| Component | Why |
|---|---|
| Merges and conflicts | libgit2's merge and a conflict view over its result; `Checkout` has uncommitted work but no commits. First in what is left of the plan |
| Work items | one request per sync and a mirror; no protocol orders two of them, so there is nothing to keep but the last answer |
| Git over the network, pull-request providers | a child process or a request per command, whose result is git's or the service's; publishing is `ReviewPosting` |
| AI engines, routing and prompts | argument lists and text; the process they run in is `AiRuns` |
| Workspaces, projects, settings and skills | rows with foreign keys and copied files, one at a time |
| Diagrams, search, credentials, secret scan | stateless functions of their inputs |
| Updates, retries, diagnostics, window, menus, packaging | short sequences without concurrency, and configuration |
| Screens of the renderer | components over the stores, which are modelled with what they drive |

The map covers a small share of the repository's lines: most of it is translations,
code generation, importers and exporters, the scripts' sandbox, types and screens,
where nothing depends on an order of events.

Within the modelled components: text and layout everywhere; the prompt, the
footer, export and the review of a bare link (`ReviewMemory`); publishing from a
link and line anchors (`ReviewPosting`); events, the bytes of a frame and the
ten-second hello (`Ipc`); typing and resizing, which do not change a session's
state, the decoding of split characters and the registry of sessions
(`Terminal`); commits as objects, merges, the network and the refreshes of the
view (`Checkout`), where each command of the core is one step, so that two that
overlap within one repository are not explored; the executable bit and ignored
files (`Checkpoints`); the steps that repeat themselves whole at each launch
(`Migrations`); what libgit2 computes and how diffs are drawn (`PromptDiff`,
`GraphLayout`); six of the seven reads of a refresh, which differ in what they
read, and folders that are no repository (`RepoView`); which tab has the focus
(`Workbench`), the HTTP exchange and the scripts (`Sends`, `Runner`), names and specs
but for their version (`RequestTree`), frames and subscriptions (`Sockets`); search
and export of the log (`Conversations`), sorting and labels (`Jobs`); files the
explorer moves and what a pane draws (`Editor`).
