------------------------------ MODULE Terminal ------------------------------
(***************************************************************************)
(* One session of Terminal/TerminalRegistry.cs, from the moment its reader *)
(* and its publisher are started: the shell behind the pseudo-terminal,    *)
(* the two tasks, the bounded channel between them, and the close that may *)
(* cancel all of it at any point.  Sessions share only the dictionary      *)
(* their ids are looked up in, so one is modelled.  Chunks are numbered in *)
(* the order the shell writes them.                                        *)
(***************************************************************************)
EXTENDS Naturals, FiniteSets

CONSTANTS PtyDepth,   \* chunks the operating system buffers
          Depth,      \* chunks the channel holds
          MaxChunks   \* bound: chunks the shell writes

ASSUME DepthAssumption == PtyDepth \in Nat \ {0} /\ Depth \in Nat \ {0} /\ MaxChunks \in Nat

VARIABLES
  shell,    \* the child behind the pseudo-terminal
  written,  \* chunks it wrote
  read,     \* chunks the reader took out
  reader,   \* the reader task
  queue,    \* the chunks in the channel
  complete, \* the channel's writer is completed
  writer,   \* the publisher task
  taken,    \* the chunk it took last
  shown,    \* the chunk published last
  exits,    \* terminal:exit events published
  closing   \* how far CloseAsync has come

shellVars  == <<shell, written>>
readerVars == <<read, reader, complete>>
writerVars == <<writer, taken, shown, exits>>
terminalVars == <<shellVars, readerVars, queue, writerVars, closing>>

TerminalInit ==
  /\ shell = "running" /\ written = 0
  /\ read = 0 /\ reader = "reading" /\ complete = FALSE
  /\ queue = {}
  /\ writer = "waiting" /\ taken = 0 /\ shown = 0 /\ exits = 0
  /\ closing = "open"

Cancelled == closing # "open"

-----------------------------------------------------------------------------
(* The shell; a full pseudo-terminal stalls it. *)

ShellWrites ==
  /\ shell = "running"
  /\ written - read < PtyDepth /\ written < MaxChunks
  /\ written' = written + 1
  /\ UNCHANGED <<shell, readerVars, queue, writerVars, closing>>

ShellExits ==
  /\ shell = "running"
  /\ shell' = "exited"
  /\ UNCHANGED <<written, readerVars, queue, writerVars, closing>>

-----------------------------------------------------------------------------
(* ReadAsync. *)

Read ==
  /\ reader = "reading" /\ closing \in {"open", "cancelled"}
  /\ read < written
  /\ read' = read + 1
  /\ reader' = "writing"
  /\ UNCHANGED <<shellVars, complete, queue, writerVars, closing>>

(* Faulty variant: a channel without a bound. *)
EnqueueAlways ==
  /\ reader = "writing"
  /\ queue' = queue \cup {read}
  /\ reader' = "reading"
  /\ UNCHANGED <<shellVars, read, complete, writerVars, closing>>

(* A full channel stalls the reader. *)
Enqueue ==
  /\ reader = "writing" /\ Cardinality(queue) < Depth
  /\ queue' = queue \cup {read}
  /\ reader' = "reading"
  /\ UNCHANGED <<shellVars, read, complete, writerVars, closing>>

(* The shell's side is closed and drained, or the session's lifetime is    *)
(* over; the chunk in hand, if any, is dropped with it.                    *)
ReadEnds ==
  /\ \/ reader = "reading" /\ shell = "exited" /\ read = written
     \/ reader \in {"reading", "writing"} /\ Cancelled
  /\ reader' = "ended" /\ complete' = TRUE
  /\ UNCHANGED <<shellVars, read, queue, writerVars, closing>>

-----------------------------------------------------------------------------
(* PublishAsync. *)

Take ==
  /\ writer = "waiting"
  /\ \E c \in queue :
       /\ \A d \in queue : c <= d
       /\ taken' = c /\ queue' = queue \ {c}
  /\ writer' = "publishing"
  /\ UNCHANGED <<shellVars, readerVars, shown, exits, closing>>

Publish ==
  /\ writer = "publishing"
  /\ shown' = taken
  /\ writer' = "waiting"
  /\ UNCHANGED <<shellVars, readerVars, queue, taken, exits, closing>>

(* Faulty variant: the end of the shell ends the loop. *)
LoopEndsWithShell ==
  /\ \/ writer = "waiting" /\ shell = "exited"
     \/ writer \in {"waiting", "publishing"} /\ Cancelled
  /\ writer' = "leaving"
  /\ UNCHANGED <<shellVars, readerVars, queue, taken, shown, exits, closing>>

(* The channel is completed and drained, or the token cancels a wait or a  *)
(* publish.                                                                *)
LoopEnds ==
  /\ \/ writer = "waiting" /\ complete /\ queue = {}
     \/ writer \in {"waiting", "publishing"} /\ Cancelled
  /\ writer' = "leaving"
  /\ UNCHANGED <<shellVars, readerVars, queue, taken, shown, exits, closing>>

(* Faulty variant: the exit is published with the token that ended the loop. *)
PublishExitCancellable ==
  /\ writer = "leaving"
  /\ exits' = IF Cancelled THEN exits ELSE exits + 1
  /\ writer' = "done"
  /\ UNCHANGED <<shellVars, readerVars, queue, taken, shown, closing>>

PublishExit ==
  /\ writer = "leaving"
  /\ exits' = exits + 1
  /\ writer' = "done"
  /\ UNCHANGED <<shellVars, readerVars, queue, taken, shown, closing>>

-----------------------------------------------------------------------------
(* CloseAsync: the id is taken out of the dictionary, so only one caller   *)
(* gets this far; cancel, dispose the connection, await both tasks.        *)

Close ==
  /\ closing = "open"
  /\ closing' = "cancelled"
  /\ UNCHANGED <<shellVars, readerVars, queue, writerVars>>

DisposeConnection ==
  /\ closing = "cancelled"
  /\ closing' = "disposed"
  /\ shell' = "exited"
  /\ UNCHANGED <<written, readerVars, queue, writerVars>>

(* Faulty variant: the tasks are not cancelled but left to finish. *)
CloseAwaitsDrain ==
  /\ closing = "disposed" /\ reader = "ended" /\ writer = "done" /\ shown = written
  /\ closing' = "closed"
  /\ UNCHANGED <<shellVars, readerVars, queue, writerVars>>

CloseReturns ==
  /\ closing = "disposed" /\ reader = "ended" /\ writer = "done"
  /\ closing' = "closed"
  /\ UNCHANGED <<shellVars, readerVars, queue, writerVars>>

-----------------------------------------------------------------------------
TerminalNext ==
  \/ ShellWrites \/ ShellExits
  \/ Read \/ Enqueue \/ ReadEnds
  \/ Take \/ Publish \/ LoopEnds \/ PublishExit
  \/ Close \/ DisposeConnection \/ CloseReturns

TerminalSpec == TerminalInit /\ [][TerminalNext]_terminalVars

(* Both tasks run, a publish ends, a disposed connection ends its read.    *)
(* Nothing makes the shell write or exit, or the user close.               *)
TerminalFairness ==
  /\ WF_terminalVars(Read \/ ReadEnds) /\ WF_terminalVars(Enqueue \/ ReadEnds)
  /\ WF_terminalVars(Take \/ LoopEnds) /\ WF_terminalVars(Publish \/ LoopEnds) /\ WF_terminalVars(PublishExit)
  /\ WF_terminalVars(DisposeConnection) /\ WF_terminalVars(CloseReturns)

TerminalFairSpec == TerminalSpec /\ TerminalFairness

-----------------------------------------------------------------------------
(* Properties. *)

(* Types, and that nothing is carried that the shell did not write. *)
TerminalTypeOK ==
  /\ shell \in {"running", "exited"} /\ written \in Nat
  /\ read \in 0..written /\ reader \in {"reading", "writing", "ended"} /\ complete \in BOOLEAN
  /\ queue \subseteq 1..written
  /\ writer \in {"waiting", "publishing", "leaving", "done"}
  /\ taken \in 0..written /\ shown \in 0..written /\ exits \in 0..1
  /\ closing \in {"open", "cancelled", "disposed", "closed"}

(* A shell that prints for ever while the pane falls behind costs a        *)
(* bounded number of chunks: the channel, the two hands and the            *)
(* pseudo-terminal (TerminalRegistry.cs:21).                               *)
Backpressure == written - shown <= PtyDepth + Depth + 2

(* The session keeps the promise of TerminalStream: no chunk is dropped,   *)
(* doubled or overtaken, and the exit is published once and last.          *)
Stream == INSTANCE TerminalStream WITH
  out <- written, gone <- (shell = "exited"), closed <- Cancelled

KeepsItsPromise == Stream!StreamSpec

(* However the session ends, the pane is told.                             *)
ExitIsAnnounced == (shell = "exited" \/ Cancelled) ~> exits = 1

(* Closing a session returns, whatever its tasks were doing.               *)
CloseAlwaysReturns == Cancelled ~> closing = "closed"
=============================================================================
