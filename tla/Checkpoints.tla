----------------------------- MODULE Checkpoints ----------------------------
(***************************************************************************)
(* The undo list: Git/Checkpoints.cs around what rewrites a working tree,  *)
(* an agent's turn (Ai/AiTurn.cs, Ai/AiCommands.cs) and a replacement in   *)
(* all files (Files/Search.cs), with a user who edits, renames and commits *)
(* all along.                                                              *)
(*                                                                         *)
(* A file is its content or Absent.  Of the index only this is kept: what  *)
(* it holds decides whether git pairs a deleted path with a new one of the *)
(* same content, as a rename, and whether it lists a path whose content is *)
(* that of the snapshot; both are left open.                               *)
(***************************************************************************)
EXTENDS Naturals, FiniteSets, Functions

CONSTANTS
  Files, Contents, Absent,
  Found, Replaced,        \* the content a replacement looks for, and what it leaves
  MaxCheckpoints,
  MaxIds, MaxEdits        \* bounds: the checkpoints ever taken, the edits, renames and commits

ASSUME CheckpointsAssumption ==
  /\ {Found, Replaced} \subseteq Contents /\ Absent \notin Contents /\ Found # Replaced
  /\ MaxCheckpoints \in Nat \ {0} /\ MaxIds \in Nat /\ MaxEdits \in Nat

VARIABLES
  committed,        \* the content of each file in the last commit
  disk,        \* and in the working tree
  checkpoints, \* the refs, in the order of their ids
  taken,       \* how many were ever taken
  edits,       \* how often the user or the agent wrote, renamed or committed
  agent,       \* the agent's turn: its stage and the checkpoint it holds, 0 for none
  replacing,   \* the replacement: its stage and the files it is still to write
  undo         \* the restore: its stage, its checkpoint, the paths still to put back
               \* and, history, those somebody else wrote meanwhile

undoVars == <<committed, disk, checkpoints, taken, edits, agent, replacing, undo>>

Trees == [Files -> Contents \cup {Absent}]
NoCheckpoint == [id |-> 0, tree |-> [f \in Files |-> Absent], was |-> [f \in Files |-> Absent]]
NoUndo == [stage |-> "idle", checkpoint |-> NoCheckpoint, todo |-> {}, touched |-> {}]

CheckpointsInit ==
  /\ committed \in Trees /\ disk = committed /\ checkpoints = {}
  /\ taken = 0 /\ edits = 0
  /\ agent = [stage |-> "idle", id |-> 0] /\ replacing = [stage |-> "idle", todo |-> {}]
  /\ undo = NoUndo

(* ------------------------------- snapshots ------------------------------- *)

\* HEAD's tree with every path of the status replaced by what is on disk.  The
\* status names a rename by its new path only, so the old one stays as in HEAD.
RenamedTo(f, g) == committed[f] # Absent /\ disk[f] = Absent /\ committed[g] = Absent /\ disk[g] = committed[f]
Renames == {old \in SUBSET Files : \E new \in Injection(old, Files) : \A f \in old : RenamedTo(f, new[f])}
Snapshots == {[f \in Files |-> IF f \in old THEN committed[f] ELSE disk[f]] : old \in Renames}

\* Create, with its pruning.
Take(snapshot) ==
  /\ taken < MaxIds /\ taken' = taken + 1
  /\ LET new == [id |-> taken', tree |-> snapshot, was |-> disk]
         all == checkpoints \cup {new}
     IN  checkpoints' = {c \in all : Cardinality({d \in all : d.id > c.id}) < MaxCheckpoints}

\* What differs now.  Faulty variant: renames are detected here too, and the old
\* path of one is not listed.
RenamesAsOne(c) ==
  {f \in Files : disk[f] # c.tree[f] /\ ~(disk[f] = Absent /\ \E g \in Files : c.tree[g] = Absent /\ disk[g] = c.tree[f])}
ChangedPaths(c) == {f \in Files : disk[f] # c.tree[f]}
\* A path that agrees may be listed as well, when the index holds something else.
Compared(c) == {ChangedPaths(c) \cup more : more \in SUBSET {f \in Files : c.tree[f] # Absent}}

Forget(id) == checkpoints' = {c \in checkpoints : c.id # id}

(* ---------------------------- who writes the tree ------------------------ *)

\* Content that is not the restore's reaches a file.
Put(f, content) ==
  /\ disk' = [disk EXCEPT ![f] = content]
  /\ undo' = IF undo.stage = "idle" THEN undo ELSE [undo EXCEPT !.touched = @ \cup {f}]

\* The user, or the agent while its turn lasts.
Edited == edits < MaxEdits /\ edits' = edits + 1 /\ UNCHANGED <<checkpoints, taken, agent, replacing>>
EditFile(f, content) == Edited /\ disk[f] # content /\ Put(f, content) /\ UNCHANGED committed
RenameFile(f, g) ==
  /\ Edited /\ disk[f] # Absent /\ disk[g] = Absent
  /\ disk' = [disk EXCEPT ![f] = Absent, ![g] = disk[f]]
  /\ undo' = IF undo.stage = "idle" THEN undo ELSE [undo EXCEPT !.touched = @ \cup {f, g}]
  /\ UNCHANGED committed
CommitAll == Edited /\ committed # disk /\ committed' = disk /\ UNCHANGED <<disk, undo>>

(* ------------------------------- an agent's turn ------------------------- *)

CheckpointBefore ==
  /\ agent.stage = "idle"
  /\ \/ \E snapshot \in Snapshots : Take(snapshot) /\ agent' = [stage |-> "working", id |-> taken']
     \/ agent' = [stage |-> "working", id |-> 0] /\ UNCHANGED <<checkpoints, taken>>
  /\ UNCHANGED <<edits, committed, disk, replacing, undo>>

\* RemoveIfUnchanged compares, closes the repository and removes.  A checkpoint
\* that is gone fails the turn.
CheckpointAfter ==
  /\ agent.stage = "working"
  /\ \/ /\ agent.id = 0 \/ \A c \in checkpoints : c.id # agent.id
        /\ agent' = [stage |-> "idle", id |-> 0]
     \/ \E c \in checkpoints : c.id = agent.id /\ \E paths \in Compared(c) :
          agent' = IF paths = {} THEN [agent EXCEPT !.stage = "unchanged"] ELSE [stage |-> "idle", id |-> 0]
  /\ UNCHANGED <<edits, committed, disk, checkpoints, taken, replacing, undo>>
RemoveUnchanged ==
  /\ agent.stage = "unchanged" /\ Forget(agent.id) /\ agent' = [stage |-> "idle", id |-> 0]
  /\ UNCHANGED <<edits, committed, disk, taken, replacing, undo>>

(* --------------------------- a replacement in all files ------------------ *)

Plan ==
  LET planned == {f \in Files : disk[f] = Found}
  IN  /\ replacing.stage = "idle" /\ planned # {} /\ replacing' = [stage |-> "planned", todo |-> planned]
      /\ UNCHANGED <<edits, committed, disk, checkpoints, taken, agent, undo>>
TryCheckpoint ==
  /\ replacing.stage = "planned" /\ replacing' = [replacing EXCEPT !.stage = "writing"]
  /\ (\E snapshot \in Snapshots : Take(snapshot)) \/ UNCHANGED <<checkpoints, taken>>
  /\ UNCHANGED <<edits, committed, disk, agent, undo>>
WriteAllText(f) ==
  LET rest == replacing.todo \ {f}
  IN  /\ replacing.stage = "writing" /\ f \in replacing.todo /\ Put(f, Replaced)
      /\ replacing' = IF rest = {} THEN [stage |-> "idle", todo |-> {}] ELSE [replacing EXCEPT !.todo = rest]
      /\ UNCHANGED <<edits, committed, checkpoints, taken, agent>>
WriteFails ==
  /\ replacing.stage = "writing" /\ replacing' = [stage |-> "idle", todo |-> {}]
  /\ UNCHANGED <<edits, committed, disk, checkpoints, taken, agent, undo>>

(* ------------------------------- the undo list --------------------------- *)

Restore(c) ==
  /\ undo.stage # "restoring"
  /\ \E paths \in Compared(c) : undo' = [stage |-> "restoring", checkpoint |-> c, todo |-> paths, touched |-> {}]
  /\ UNCHANGED <<edits, committed, disk, checkpoints, taken, agent, replacing>>
PutBack(f) ==
  /\ undo.stage = "restoring" /\ f \in undo.todo
  /\ disk' = [disk EXCEPT ![f] = undo.checkpoint.tree[f]] /\ undo' = [undo EXCEPT !.todo = @ \ {f}]
  /\ UNCHANGED <<edits, committed, checkpoints, taken, agent, replacing>>
PutBackFails ==
  /\ undo.stage = "restoring" /\ undo.todo # {} /\ undo' = NoUndo
  /\ UNCHANGED <<edits, committed, disk, checkpoints, taken, agent, replacing>>
Restored ==
  /\ undo.stage = "restoring" /\ undo.todo = {} /\ undo' = NoUndo
  /\ UNCHANGED <<edits, committed, disk, checkpoints, taken, agent, replacing>>
RemoveCheckpoint(c) == Forget(c.id) /\ UNCHANGED <<edits, committed, disk, taken, agent, replacing, undo>>

CheckpointsNext ==
  \/ \E f \in Files, content \in Contents \cup {Absent} : EditFile(f, content)
  \/ (\E f, g \in Files : RenameFile(f, g)) \/ CommitAll
  \/ CheckpointBefore \/ CheckpointAfter \/ RemoveUnchanged
  \/ Plan \/ TryCheckpoint \/ WriteFails \/ \E f \in Files : WriteAllText(f) \/ PutBack(f)
  \/ PutBackFails \/ Restored \/ \E c \in checkpoints : Restore(c) \/ RemoveCheckpoint(c)
CheckpointsSpec == CheckpointsInit /\ [][CheckpointsNext]_undoVars

(* ------------------------------- properties ------------------------------ *)

(* Whatever happened since, also a commit or a rename, and whoever else    *)
(* writes meanwhile: a path that the restore has dealt with, and nobody    *)
(* else has written, holds what it held when the checkpoint was taken      *)
(* (Checkpoints.cs, Restore; the old path of a rename that was pending     *)
(* then is the exception SnapshotRecordsAbsence shows).                    *)
UndoPutsBack ==
  undo.stage = "restoring" =>
    \A f \in Files \ (undo.todo \cup undo.touched) :
      disk[f] = undo.checkpoint.was[f] \/ (undo.checkpoint.was[f] = Absent /\ undo.checkpoint.tree[f] # Absent)

(* "The snapshot has to record its absence, or restoring would resurrect a *)
(* file the user themselves removed" (Checkpoints.cs:203).  Not of a file  *)
(* the user renamed.                                                       *)
SnapshotRecordsAbsence == \A c \in checkpoints, f \in Files : c.was[f] = Absent => c.tree[f] = Absent
=============================================================================
