-------------------------------- MODULE Editor --------------------------------
(***************************************************************************)
(* The files open in the editor: EditorView.tsx and the arithmetic of its  *)
(* panes, editorGroups.ts.  A text is known by the project it comes from   *)
(* and a number; typing and saving make new ones.  Left out: the explorer  *)
(* moving an open file, what a pane draws, Monaco's models.                *)
(***************************************************************************)
EXTENDS Naturals, Sequences, SequencesExt, FiniteSets, FiniteSetsExt, Lists

CONSTANTS
  Projects, FirstProject, Files, NoFile, NoProject,
  MaxPanes, MaxFileCalls, MaxEditorOps  \* bounds: splits, calls in flight, what the
                                        \* user and the disk do and what fails

ASSUME EditorConstants == FirstProject \in Projects /\ NoProject \notin Projects /\ NoFile \notin Files

VARIABLES
  project,      \* the selected one
  onDisk,       \* its files' texts, and the other projects'
  buffers,      \* the registry of open files
  panes,        \* the groups, left to right
  focus,        \* the id of the group that has it
  nextPane,
  question,     \* what the confirmation on screen is about
  fileCalls,    \* reads and writes in flight
  fsChanged,    \* a repo:fs-changed of the open project is on its way
  everOnDisk,   \* history: the texts a file of this name has had
  closedStale,  \* history: a group was closed by what had been computed before others moved
  editorOps

editorVars == <<project, onDisk, buffers, panes, focus, nextPane, question, fileCalls, fsChanged,
                everOnDisk, closedStale, editorOps>>

Text == [of : Projects \cup {NoProject}, n : Nat]
Blank == [of |-> NoProject, n |-> 0]
ErrorText == [of |-> NoProject, n |-> 1]
NoQuestion == [kind |-> "none"]

EditorTypeOK ==
  /\ project \in Projects /\ onDisk \in [Projects -> [Files -> Text]]
  /\ DOMAIN buffers \subseteq Files
  /\ \A f \in DOMAIN buffers : buffers[f] \in
       [content : Text, original : Text, loading : BOOLEAN, preview : BOOLEAN]
  /\ panes \in Seq([id : Nat, files : Seq(Files), active : Files \cup {NoFile}])
  /\ focus \in Nat /\ question.kind \in {"none", "tab", "group"}
  /\ \A c \in fileCalls : c.at \in {"asked", "answered"} /\ c.kind \in {"open", "reload", "save"}

EmptyPane(id) == [id |-> id, files |-> <<>>, active |-> NoFile]

EditorInit ==
  /\ project = FirstProject
  /\ onDisk = [p \in Projects |-> [f \in Files |-> [of |-> p, n |-> 0]]]
  /\ buffers = <<>> /\ panes = <<EmptyPane(1)>> /\ focus = 1 /\ nextPane = 2
  /\ question = NoQuestion /\ fileCalls = {} /\ fsChanged = FALSE
  /\ everOnDisk = [f \in Files |-> {[of |-> p, n |-> 0] : p \in Projects}]
  /\ closedStale = FALSE /\ editorOps = 0

(* -------------------------------- the panes ------------------------------ *)

Shown(groups) == UNION {ToSet(groups[k].files) : k \in DOMAIN groups}
PaneOf(groups, id) == {k \in DOMAIN groups : groups[k].id = id}
Kept(files) == [f \in DOMAIN buffers \cap files |-> buffers[f]]
Dirty(f) == f \in DOMAIN buffers /\ buffers[f].content # buffers[f].original
OffStrip(files, f) == Picked(files, Files \ {f})

\* neighbourOf: what slid into its place, or what was to its left.
Adjacent(files, f) ==
  LET rest == OffStrip(files, f)
      i == Min({k \in DOMAIN files : files[k] = f})
  IN  IF rest = <<>> THEN NoFile ELSE rest[Min({i, Len(rest)})]

TakenOut(pane, f) ==
  [pane EXCEPT !.files = OffStrip(@, f), !.active = IF @ = f THEN Adjacent(pane.files, f) ELSE @]
Folded(groups) ==
  IF Len(groups) > 1 THEN Picked(groups, {g \in ToSet(groups) : g.files # <<>>}) ELSE groups

CloseTabInGroups(groups, id, f) ==
  IF \E k \in PaneOf(groups, id) : f \in ToSet(groups[k].files)
  THEN Folded([k \in DOMAIN groups |-> IF groups[k].id = id THEN TakenOut(groups[k], f) ELSE groups[k]])
  ELSE groups

CloseGroupInGroups(groups, id) == Picked(groups, {g \in ToSet(groups) : g.id # id})
Survivor(groups, id) ==
  LET k == Min(PaneOf(groups, id)) IN CloseGroupInGroups(groups, id)[IF k > 1 THEN k - 1 ELSE 1].id

(* ------------------------------ calls ------------------------------------ *)

\* readFileText or writeFileText, one of its kind for each of these files.
AskCore(kind, files, text) ==
  LET Free(f) == Min({i \in 1 .. MaxFileCalls + 1 :
                       \A c \in fileCalls : c.kind = kind /\ c.file = f => c.id # i})
  IN  /\ Cardinality(fileCalls) + Cardinality(files) <= MaxFileCalls
      /\ fileCalls' = fileCalls \cup {[at |-> "asked", kind |-> kind, file |-> f, project |-> project,
                                       text |-> text, id |-> Free(f)] : f \in files}

(* ------------------------------- the user -------------------------------- *)

\* A click in the tree takes over the pane's preview tab, if it has one.
OpenFile(f, pin) ==
  LET k == IF PaneOf(panes, focus) = {} THEN 1 ELSE Min(PaneOf(panes, focus))
      strip == panes[k].files
      previews == {i \in DOMAIN strip : ~pin /\ f \notin ToSet(strip) /\ strip[i] \in DOMAIN buffers
                                        /\ buffers[strip[i]].preview}
      evicted == IF previews = {} THEN {} ELSE {strip[Min(previews)]}
      opened == CASE f \in ToSet(strip) -> strip
                  [] previews # {} -> [strip EXCEPT ![Min(previews)] = f]
                  [] OTHER -> Append(strip, f)
      next == [panes EXCEPT ![k].files = opened, ![k].active = f]
      kept == Kept(Files \ (evicted \ Shown(next)))
  IN  /\ panes' = next
      /\ IF f \in DOMAIN buffers
         THEN /\ buffers' = IF pin THEN [kept EXCEPT ![f].preview = FALSE] ELSE kept
              /\ UNCHANGED fileCalls
         ELSE /\ buffers' = [g \in DOMAIN kept \cup {f} |-> IF g # f THEN kept[g] ELSE
                     [content |-> Blank, original |-> Blank, loading |-> TRUE, preview |-> ~pin]]
              /\ AskCore("open", {f}, Blank)
      /\ UNCHANGED <<project, onDisk, focus, nextPane, question, fsChanged, everOnDisk, closedStale>>

\* Faulty variant: a view closed is the file closed.
CloseFile(id, f) ==
  /\ panes' = CloseTabInGroups(panes, id, f) /\ buffers' = Kept(Files \ {f})
  /\ focus' = IF PaneOf(panes', focus) # {} THEN focus ELSE panes'[1].id
CloseView(id, f) ==
  /\ panes' = CloseTabInGroups(panes, id, f)
  /\ focus' = IF PaneOf(panes', focus) # {} THEN focus ELSE panes'[1].id
  /\ buffers' = IF f \in Shown(panes') THEN buffers ELSE Kept(Files \ {f})

\* Ctrl+W reaches the window behind a confirmation; a second one replaces the first,
\* whose answer never comes.
CloseFileTab(id, f) ==
  /\ f \in DOMAIN buffers
  /\ IF Cardinality({k \in DOMAIN panes : f \in ToSet(panes[k].files)}) <= 1 /\ Dirty(f)
     THEN question' = [kind |-> "tab", pane |-> id, file |-> f] /\ UNCHANGED <<buffers, panes, focus>>
     ELSE CloseView(id, f) /\ UNCHANGED question
  /\ UNCHANGED <<project, onDisk, nextPane, fileCalls, fsChanged, everOnDisk, closedStale>>

CloseAll(groups, id) ==
  /\ panes' = CloseGroupInGroups(groups, id) /\ focus' = Survivor(groups, id)
  /\ buffers' = Kept(Shown(panes'))

CloseGroup(id) ==
  /\ Len(panes) > 1
  /\ IF \E f \in Files \ Shown(CloseGroupInGroups(panes, id)) : Dirty(f)
     THEN question' = [kind |-> "group", pane |-> id, asked |-> panes] /\ UNCHANGED <<buffers, panes, focus>>
     ELSE CloseAll(panes, id) /\ UNCHANGED question
  /\ UNCHANGED <<project, onDisk, nextPane, fileCalls, fsChanged, everOnDisk, closedStale>>

\* closeTab looks at the groups again, closeGroup does not.
Confirm ==
  /\ question.kind # "none" /\ question' = NoQuestion
  /\ IF question.kind = "tab" THEN CloseView(question.pane, question.file) /\ UNCHANGED closedStale
     ELSE CloseAll(question.asked, question.pane)
          /\ closedStale' = (closedStale \/ panes # question.asked)
  /\ UNCHANGED <<project, onDisk, nextPane, fileCalls, fsChanged, everOnDisk>>

Decline ==
  /\ question.kind # "none" /\ question' = NoQuestion
  /\ UNCHANGED <<project, onDisk, buffers, panes, focus, nextPane, fileCalls, fsChanged, everOnDisk,
                 closedStale>>

Rearranged == UNCHANGED <<project, onDisk, buffers, question, fileCalls, fsChanged, everOnDisk, closedStale>>

SplitGroup(k) ==
  /\ panes[k].active # NoFile /\ Len(panes) < MaxPanes
  /\ panes' = InsertAt(panes, k + 1, [id |-> nextPane, files |-> <<panes[k].active>>,
                                       active |-> panes[k].active])
  /\ focus' = nextPane /\ nextPane' = nextPane + 1 /\ Rearranged

\* moveTabInGroups, to before place i of the strip without the tab.
DropTab(k, f, to, i) ==
  LET strip == OffStrip(panes[to].files, f)
      moved == [panes EXCEPT ![k] = TakenOut(@, f),
                             ![to].files = InsertAt(strip, i, f), ![to].active = f]
  IN  /\ f \in ToSet(panes[k].files) /\ i \in 1 .. Len(strip) + 1
      /\ k = to => panes[k].files[i] # f
      /\ panes' = Folded(moved) /\ focus' = panes[to].id
      /\ UNCHANGED nextPane /\ Rearranged

SetGroupActive(k, f) ==
  /\ f \in ToSet(panes[k].files) /\ <<focus, panes[k].active>> # <<panes[k].id, f>>
  /\ panes' = [panes EXCEPT ![k].active = f] /\ focus' = panes[k].id
  /\ UNCHANGED nextPane /\ Rearranged

\* The editor's onChange.
TypeIn(f) ==
  /\ f \in DOMAIN buffers /\ ~buffers[f].loading
  /\ buffers' = [buffers EXCEPT ![f].content = [of |-> @.of, n |-> editorOps + 2], ![f].preview = FALSE]
  /\ UNCHANGED <<project, onDisk, panes, focus, nextPane, question, fileCalls, fsChanged, everOnDisk,
                 closedStale>>

Save(f) ==
  /\ Dirty(f) /\ AskCore("save", {f}, buffers[f].content)
  /\ UNCHANGED <<project, onDisk, buffers, panes, focus, nextPane, question, fsChanged, everOnDisk,
                 closedStale>>

\* Unsaved text goes without a question.
SelectProject(p) ==
  /\ p # project /\ project' = p
  /\ buffers' = <<>> /\ panes' = <<EmptyPane(nextPane)>> /\ focus' = nextPane /\ nextPane' = nextPane + 1
  /\ fsChanged' = FALSE
  /\ UNCHANGED <<onDisk, question, fileCalls, everOnDisk, closedStale>>

(* ------------------------------- the disk -------------------------------- *)

WriteFile(p, f, text) ==
  /\ onDisk' = [onDisk EXCEPT ![p][f] = text] /\ everOnDisk' = [everOnDisk EXCEPT ![f] = @ \cup {text}]
  /\ fsChanged' = (fsChanged \/ p = project)

EditElsewhere(f) ==
  /\ WriteFile(project, f, [of |-> project, n |-> editorOps + 2])
  /\ UNCHANGED <<project, buffers, panes, focus, nextPane, question, fileCalls, closedStale>>

\* Every clean file is read again.
FsChangedArrives ==
  /\ fsChanged /\ fsChanged' = FALSE
  /\ AskCore("reload", {f \in DOMAIN buffers : ~buffers[f].loading /\ ~Dirty(f)}, Blank)
  /\ UNCHANGED <<project, onDisk, buffers, panes, focus, nextPane, question, everOnDisk, closedStale>>

Reply(c, text) == fileCalls' = (fileCalls \ {c}) \cup {[c EXCEPT !.at = "answered", !.text = text]}

FileRead(c) ==
  /\ c.at = "asked" /\ c.kind # "save" /\ Reply(c, onDisk[c.project][c.file])
  /\ UNCHANGED <<onDisk, everOnDisk, fsChanged>>
FileWritten(c) ==
  /\ c.at = "asked" /\ c.kind = "save" /\ WriteFile(c.project, c.file, c.text) /\ Reply(c, c.text)
\* What a tab shows of a failed read is the message; nothing hears of the other failures.
CallFails(c) ==
  /\ c.at = "asked"
  /\ IF c.kind = "open" THEN Reply(c, ErrorText) ELSE fileCalls' = fileCalls \ {c}
  /\ UNCHANGED <<project, onDisk, buffers, panes, focus, nextPane, question, fsChanged, everOnDisk,
                 closedStale>>

Patch(f, value) == buffers' = [buffers EXCEPT ![f] = value]

\* Faulty variant: a save makes clean whatever the tab holds by then.
LandsOnWhatIsThere(c) ==
  LET f == c.file
  IN  IF f \in DOMAIN buffers /\ c.kind = "save"
      THEN Patch(f, [buffers[f] EXCEPT !.original = buffers[f].content])
      ELSE IF f \in DOMAIN buffers /\ (c.kind = "open" \/ ~Dirty(f))
      THEN Patch(f, [buffers[f] EXCEPT !.content = c.text, !.original = c.text, !.loading = @ /\ c.kind = "reload"])
      ELSE UNCHANGED buffers
\* The tab is looked up by its path, whatever project is open.
Lands(c) ==
  LET f == c.file
  IN  IF f \in DOMAIN buffers /\ c.kind = "save"
      THEN Patch(f, [buffers[f] EXCEPT !.original = c.text])
      ELSE IF f \in DOMAIN buffers /\ (c.kind = "open" \/ ~Dirty(f))
      THEN Patch(f, [buffers[f] EXCEPT !.content = c.text, !.original = c.text, !.loading = @ /\ c.kind = "reload"])
      ELSE UNCHANGED buffers

CallLands(c) == c.at = "answered" /\ fileCalls' = fileCalls \ {c} /\ Lands(c)

(* ---------------------------- the specification -------------------------- *)

\* While a confirmation is up only the keyboard reaches the editor.
EditorNext ==
  \/ /\ editorOps < MaxEditorOps /\ editorOps' = editorOps + 1
     /\ \/ /\ question.kind = "none"
           /\ \/ \E f \in Files, pin \in BOOLEAN : OpenFile(f, pin)
              \/ \E k \in DOMAIN panes : CloseGroup(panes[k].id)
              \/ \E k, to \in DOMAIN panes, f \in Files, i \in 1 .. Cardinality(Files) : DropTab(k, f, to, i)
              \/ \E k \in DOMAIN panes, f \in Files : SetGroupActive(k, f)
              \/ \E k \in PaneOf(panes, focus) : TypeIn(panes[k].active)
        \/ \E k \in DOMAIN panes : CloseFileTab(panes[k].id, panes[k].active)
        \/ \E k \in DOMAIN panes : SplitGroup(k)
        \/ \E k \in PaneOf(panes, focus) : Save(panes[k].active)
        \/ \E p \in Projects : SelectProject(p)
        \/ \E f \in Files : EditElsewhere(f)
        \/ \E c \in fileCalls : CallFails(c)
  \/ /\ UNCHANGED editorOps
     /\ \/ Confirm \/ Decline \/ FsChangedArrives
        \/ /\ \E c \in fileCalls : FileRead(c) \/ FileWritten(c)
           /\ UNCHANGED <<project, buffers, panes, focus, nextPane, question, closedStale>>
        \/ /\ \E c \in fileCalls : CallLands(c)
           /\ UNCHANGED <<project, onDisk, panes, focus, nextPane, question, fsChanged, everOnDisk, closedStale>>

EditorSpec == EditorInit /\ [][EditorNext]_editorVars

(* ------------------------------- properties ------------------------------ *)

\* No open file is out of sight, whatever is closed and in whatever order: it has a
\* tab in some pane, no pane is left empty beside others, each shows one of its tabs,
\* and one of them has the focus.  The converse, that every tab has its open file, is
\* lost when a group is closed by an answer that comes after the groups have moved
\* on: closeGroup, unlike closeTab, does not look at them again.
OpenFilesAreShown ==
  /\ DOMAIN buffers \subseteq Shown(panes) /\ (closedStale \/ Shown(panes) \subseteq DOMAIN buffers)
  /\ PaneOf(panes, focus) # {}
  /\ \A k \in DOMAIN panes :
       /\ IsInjective(panes[k].files) /\ (panes[k].files = <<>> => Len(panes) = 1)
       /\ panes[k].active \in IF panes[k].files = <<>> THEN {NoFile} ELSE ToSet(panes[k].files)

\* A tab without the mark of unsaved text holds one that has been on disk: what was
\* typed while a save was under way, or was never written, still carries the mark.
CleanIsOnDisk ==
  \A f \in DOMAIN buffers :
    ~buffers[f].loading => buffers[f].original \in everOnDisk[f] \cup {ErrorText}
==============================================================================
