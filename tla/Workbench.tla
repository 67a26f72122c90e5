------------------------------ MODULE Workbench ------------------------------
(***************************************************************************)
(* The API client's open tabs and the workspace they belong to: the stores *)
(* apiTabsStore, apiStore and the request rows of apiTreeStore, with the   *)
(* two tables behind them (requests, and the settings row that holds the   *)
(* tabs of each workspace).                                                *)
(*                                                                         *)
(* The core's database has one gate, so a call takes effect when it is     *)
(* placed and the answers come back in that order: `calls' is the queue of *)
(* answers the renderer has not seen.  A draft is the number of edits it   *)
(* holds; which tab has the focus is left out.  That a write of the        *)
(* settings fails, which nobody hears of, is left out as well.             *)
(***************************************************************************)
EXTENDS Naturals, Sequences, SequencesExt, FiniteSets

CONSTANTS
  Workspaces, Filed,  \* Filed[q]: the workspace request q is in from the start
  Fresh,              \* ids of the requests the run may create
  MaxEdits, MaxTabs, MaxCalls, MaxOps,  \* bounds
  FirstWorkspace, Nil

ASSUME WorkbenchConstants ==
  /\ Range(Filed) \cup {FirstWorkspace} \subseteq Workspaces
  /\ Nil \notin Workspaces \cup Fresh \cup DOMAIN Filed
  /\ {MaxEdits, MaxTabs, MaxCalls, MaxOps} \subseteq Nat

VARIABLES
  ws,     \* workspaceId of the three stores: setWorkspace's resets and init's set
          \* follow one another without an await
  shown,  \* the load of ws has published
  tabs,   \* openTabs, by id
  armed,  \* the debounced persist is due
  blob,   \* the api_open_tabs setting of each workspace
  rows,   \* the request rows, each with its workspace and its spec
  tree,   \* the rows apiTreeStore shows
  ops,    \* how many things the user has done
  calls,  \* answers on their way to the renderer
  crossed, \* history: requests that reached another workspace's tree
  typed,  \* history: what the user left in each tab of each workspace
  spoilt  \* history: workspaces whose setting was written before it was shown,
          \* or could not be read

benchVars == <<ws, shown, tabs, armed, blob, rows, tree, calls, crossed, typed, spoilt, ops>>

Requests == Fresh \cup DOMAIN Filed
TabIds == 1 .. MaxTabs + 1
Drafts == 0 .. MaxEdits
\* raced is history: the tab met one of the interleavings named below.
Tab == [req : Requests \cup {Nil}, draft : Drafts, dirty : BOOLEAN, raced : BOOLEAN]
IsTabList(f) == DOMAIN f \subseteq TabIds /\ Cardinality(DOMAIN f) <= MaxTabs /\ Range(f) \subseteq Tab

WorkbenchTypeOK ==
  /\ ws \in Workspaces /\ shown \in BOOLEAN
  /\ IsTabList(tabs) /\ \A w \in Workspaces : IsTabList(blob[w])
  /\ \A q \in DOMAIN rows : q \in Requests /\ rows[q] \in [ws : Workspaces, spec : Drafts]
  /\ \A q \in DOMAIN tree : q \in Requests /\ tree[q] \in Drafts
  /\ Len(calls) <= MaxCalls /\ crossed \subseteq Requests /\ ops \in 0 .. MaxOps
  /\ armed \in BOOLEAN /\ spoilt \subseteq Workspaces
  /\ \A w \in Workspaces : DOMAIN typed[w] \subseteq TabIds /\ Range(typed[w]) \subseteq Drafts

InFlight(kind) == {calls[i] : i \in {j \in DOMAIN calls : calls[j].kind = kind}}
Writing(q) == \E c \in InFlight("save") : c.req = q
Without(f, q) == [p \in DOMAIN f \ {q} |-> f[p]]
With(f, q, v) == [p \in DOMAIN f \cup {q} |-> IF p = q THEN v ELSE f[p]]
\* The row a write reaches; a row that is gone is not written.
Write(q, draft) == rows' = IF q \in DOMAIN rows THEN [rows EXCEPT ![q].spec = draft] ELSE rows
Queue(call) == Len(calls) < MaxCalls /\ calls' = Append(calls, call)

\* History: a row is written after a load under way has read the tabs it brings.
Outdated(q) ==
  [k \in DOMAIN calls |->
     IF calls[k].kind # "load" THEN calls[k]
     ELSE LET raw == calls[k].raw
          IN  [calls[k] EXCEPT !.raw = [i \in DOMAIN raw |-> [raw[i] EXCEPT !.raced = @ \/ raw[i].req = q]]]]
\* Another save of its request, with another draft, follows the one that is answered.
SavedAgain(call) ==
  \E k \in 2 .. Len(calls) : calls[k].kind = "save" /\ calls[k].req = call.req /\ calls[k].draft # call.draft

\* Ids are random in the code: a new one is one that nothing mentions.
TabLists == {tabs} \cup Range(blob) \cup {c.raw : c \in InFlight("load")}
NewTabs == IF Cardinality(DOMAIN tabs) = MaxTabs THEN {}
           ELSE TabIds \ (UNION {DOMAIN l : l \in TabLists} \cup {c.tab : c \in InFlight("save")})
NewRequests ==
  Fresh \ (DOMAIN rows \cup DOMAIN tree \cup {c.req : c \in UNION {InFlight(k) : k \in {"save", "delete"}}}
           \cup {t.req : t \in UNION {Range(l) : l \in TabLists}})

BenchInit ==
  /\ ws = FirstWorkspace /\ shown = TRUE
  /\ tabs = <<>> /\ blob = [w \in Workspaces |-> <<>>]
  /\ rows = [q \in DOMAIN Filed |-> [ws |-> Filed[q], spec |-> 0]]
  /\ tree = [q \in {p \in DOMAIN Filed : Filed[p] = ws} |-> 0]
  /\ armed = FALSE /\ typed = [w \in Workspaces |-> <<>>] /\ spoilt = {}
  /\ calls = <<>> /\ crossed = {} /\ ops = 0

\* persistNow writes the list that is on screen now, under the key of the
\* workspace that is selected now, and cancels the timer.
Spoils == spoilt' = IF shown THEN spoilt ELSE spoilt \cup {ws}  \* history
PersistNow(list) ==
  tabs' = list /\ blob' = [blob EXCEPT ![ws] = list] /\ armed' = FALSE /\ Spoils
Types(i, draft) == typed' = [typed EXCEPT ![ws] = With(@, i, draft)]

(* ------------------------------- the tabs ------------------------------- *)

OpenTab(q, draft) ==
  \E i \in NewTabs :
    /\ \A j \in NewTabs : i <= j
    /\ PersistNow(With(tabs, i, [req |-> q, draft |-> draft, dirty |-> FALSE, raced |-> Writing(q)]))
    /\ Types(i, draft)
    /\ UNCHANGED <<ws, shown, rows, tree, calls, crossed>>

OpenRequest(q) ==
  /\ q \in DOMAIN tree
  /\ \A i \in DOMAIN tabs : tabs[i].req # q
  /\ OpenTab(q, tree[q])

OpenScratchTab == OpenTab(Nil, 0)

CloseTab(i) ==
  /\ PersistNow(Without(tabs, i))
  /\ typed' = [typed EXCEPT ![ws] = Without(@, i)]
  /\ UNCHANGED <<ws, shown, rows, tree, calls, crossed>>

\* updateDraft and renameTab: the setting waits for the debounce.
UpdateDraft(i) ==
  /\ tabs[i].draft < MaxEdits
  /\ tabs' = [tabs EXCEPT ![i].draft = @ + 1, ![i].dirty = TRUE, ![i].raced = FALSE]
  /\ armed' = TRUE /\ Types(i, tabs[i].draft + 1)
  /\ UNCHANGED <<ws, shown, blob, rows, tree, calls, crossed, spoilt>>

DebounceFires ==
  /\ armed
  /\ PersistNow(tabs)
  /\ UNCHANGED <<ws, shown, rows, tree, calls, crossed, typed>>

(* ------------------------------ saving a tab ----------------------------- *)

\* saveTab on the tab of a request: the write goes out, the flag waits.
SaveRequest(i) ==
  LET tab == tabs[i] IN
  /\ tab.req \in DOMAIN tree
  /\ Write(tab.req, tab.draft)
  /\ Len(calls) < MaxCalls
  /\ calls' = Append(Outdated(tab.req),
                [kind |-> "save", tab |-> i, req |-> tab.req, draft |-> tab.draft, new |-> FALSE])
  /\ UNCHANGED <<ws, shown, tabs, armed, blob, tree, crossed, typed, spoilt>>

\* saveTab on a scratch tab, with a collection of its own or the picker's.
SaveScratch(i) ==
  \E q \in NewRequests :
    /\ tabs[i].req = Nil
    /\ rows' = With(rows, q, [ws |-> ws, spec |-> tabs[i].draft])
    /\ Queue([kind |-> "save", tab |-> i, req |-> q, draft |-> tabs[i].draft, new |-> TRUE])
    /\ UNCHANGED <<ws, shown, tabs, armed, blob, tree, crossed, typed, spoilt>>

\* The rest of saveTab: the row reaches the tree and the tab is clean, even
\* when the user has typed since (which is one of the races).
\* Faulty variant: every tab is marked clean, not only the one that was saved.
SaveAnsweredForAll(call) ==
  /\ tree' = With(tree, call.req, call.draft)
  /\ PersistNow([i \in DOMAIN tabs |->
       [tabs[i] EXCEPT !.dirty = FALSE, !.raced = @ \/ (i = call.tab /\ tabs[i].draft # call.draft)]])
  /\ crossed' = crossed \cup {q \in {call.req} \cap DOMAIN rows : rows[q].ws # ws}
  /\ UNCHANGED <<ws, shown, rows, typed>>
SaveAnswered(call) ==
  /\ tree' = With(tree, call.req, call.draft)
  /\ crossed' = crossed \cup {q \in {call.req} \cap DOMAIN rows : rows[q].ws # ws}
  /\ PersistNow([i \in DOMAIN tabs |->
       IF i # call.tab THEN tabs[i]
       ELSE [req |-> IF call.new THEN call.req ELSE tabs[i].req, draft |-> tabs[i].draft,
             dirty |-> FALSE,
             raced |-> \/ tabs[i].draft # call.draft \/ SavedAgain(call)
                       \/ tabs[i].req # (IF call.new THEN Nil ELSE call.req)]])
  /\ UNCHANGED <<ws, shown, rows, typed>>

(* -------------------------- deleting from the tree ------------------------- *)

DeleteRequest(q) ==
  /\ q \in DOMAIN tree
  /\ rows' = Without(rows, q)
  /\ Queue([kind |-> "delete", req |-> q])
  /\ UNCHANGED <<ws, shown, tabs, armed, blob, tree, crossed, typed, spoilt>>

\* detachRequests: the tab of a deleted request turns back into a scratch tab.
DeleteAnswered(call) ==
  /\ tree' = Without(tree, call.req)
  /\ \/ /\ \E i \in DOMAIN tabs : tabs[i].req = call.req
        /\ PersistNow([i \in DOMAIN tabs |->
             IF tabs[i].req = call.req THEN [tabs[i] EXCEPT !.req = Nil, !.dirty = TRUE] ELSE tabs[i]])
     \/ /\ \A i \in DOMAIN tabs : tabs[i].req # call.req
        /\ UNCHANGED <<tabs, armed, blob, spoilt>>
  /\ UNCHANGED <<ws, shown, rows, crossed, typed>>

(* -------------------------- switching workspaces ------------------------- *)

\* setWorkspace up to its first await: flushPersist, the resets, and the read
\* of the incoming workspace's tabs.
\* Faulty variant: nothing is flushed, the timer is only cancelled.
SetWorkspaceUnflushed(w) ==
  /\ w # ws
  /\ ws' = w /\ shown' = FALSE /\ tabs' = <<>> /\ armed' = FALSE /\ tree' = <<>>
  /\ Queue([kind |-> "load", ws |-> w, raw |-> blob[w], asked |-> FALSE, rows |-> <<>>])
  /\ UNCHANGED <<blob, rows, crossed, typed, spoilt>>
SetWorkspace(w) ==
  /\ w # ws
  /\ blob' = [blob EXCEPT ![ws] = tabs] /\ Spoils
  /\ ws' = w /\ shown' = FALSE /\ tabs' = <<>> /\ armed' = FALSE /\ tree' = <<>>
  /\ Queue([kind |-> "load", ws |-> w, raw |-> blob[w], asked |-> FALSE, rows |-> <<>>])
  /\ UNCHANGED <<rows, crossed, typed>>

\* init: the tree is read once the settings are in.  A setting that could not be
\* read is taken for one that is not there.
SettingsAnswered(call) ==
  LET read == [q \in {p \in DOMAIN rows : rows[p].ws = call.ws} |-> rows[q].spec] IN
  /\ \/ /\ calls' = Append(Tail(calls), [call EXCEPT !.asked = TRUE, !.rows = read])
        /\ UNCHANGED spoilt
     \/ /\ calls' = Append(Tail(calls), [call EXCEPT !.asked = TRUE, !.rows = read, !.raw = <<>>])
        /\ spoilt' = spoilt \cup {call.ws}
  /\ UNCHANGED <<ws, shown, tabs, armed, blob, rows, tree, crossed, typed>>

\* init: a load publishes if its workspace is still the selected one.  One of an
\* earlier stay in that workspace puts older tabs over newer ones.
\* Faulty variant: it publishes whichever workspace is selected.
PublishAlways(call) ==
  /\ tabs' = call.raw /\ tree' = call.rows /\ shown' = TRUE
  /\ UNCHANGED <<ws, armed, blob, rows, crossed, typed, spoilt>>
Publish(call) ==
  /\ \/ /\ call.ws = ws
        /\ tabs' = call.raw /\ tree' = call.rows /\ shown' = TRUE
     \/ call.ws # ws /\ UNCHANGED <<tabs, tree, shown>>
  /\ UNCHANGED <<ws, armed, blob, rows, crossed, typed, spoilt>>

Answer ==
  /\ calls # <<>>
  /\ LET call == Head(calls) IN
     \/ call.kind = "save" /\ SaveAnswered(call) /\ calls' = Tail(calls)
     \/ call.kind = "delete" /\ DeleteAnswered(call) /\ calls' = Tail(calls)
     \/ call.kind = "load" /\ ~call.asked /\ SettingsAnswered(call)
     \/ call.kind = "load" /\ call.asked /\ Publish(call) /\ calls' = Tail(calls)

\* Any other of the load's reads may fail: the stores stay empty.
LoadFails ==
  /\ calls # <<>> /\ Head(calls).kind = "load"
  /\ calls' = Tail(calls)
  /\ UNCHANGED <<ws, shown, tabs, armed, blob, rows, tree, crossed, typed, spoilt>>

ByTheUser ==
  \/ \E q \in Requests : OpenRequest(q) \/ DeleteRequest(q)
  \/ \E i \in DOMAIN tabs : CloseTab(i) \/ UpdateDraft(i) \/ SaveRequest(i) \/ SaveScratch(i)
  \/ OpenScratchTab
  \/ \E w \in Workspaces : SetWorkspace(w)

BenchNext ==
  \/ ops < MaxOps /\ ops' = ops + 1 /\ ByTheUser
  \/ UNCHANGED ops /\ (DebounceFires \/ Answer \/ LoadFails)

BenchSpec == BenchInit /\ [][BenchNext]_benchVars

(* ------------------------------- properties ------------------------------ *)

\* Closing a clean tab asks nothing, so a clean tab holds what the database
\* has.  `raced' excepts what the stores have no guard for: a tab edited or
\* detached while its save is in flight, one opened meanwhile, and one that a
\* load read before its request was saved; `crossed', a request that the answer
\* of its save put in the tree of the workspace selected since, where it can be
\* opened a second time.
CleanTabsAreSaved ==
  \A i \in DOMAIN tabs :
    ~tabs[i].dirty /\ ~tabs[i].raced /\ tabs[i].req \in DOMAIN rows \ crossed =>
      tabs[i].draft = rows[tabs[i].req].spec

\* What the user typed outlives any order of edits, switches, saves, loads and
\* timers: the tabs of the workspace on screen hold it, and so does the setting of
\* every workspace, but for the edits of this one that an armed timer still owes.
\* `spoilt' excepts a workspace whose setting was written before its own tabs were
\* shown (by leaving it again, by a save that is answered, or by a tab opened there)
\* and one whose setting could not be read, which shows no tabs and then writes that.
DraftsOf(list) == [i \in DOMAIN list |-> list[i].draft]
NoDraftIsLost ==
  \A w \in Workspaces \ spoilt :
    /\ (w = ws /\ armed) \/ DraftsOf(blob[w]) = typed[w]
    /\ w = ws /\ shown => DraftsOf(tabs) = typed[w]

==============================================================================
