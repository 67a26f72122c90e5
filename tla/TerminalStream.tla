--------------------------- MODULE TerminalStream ---------------------------
(***************************************************************************)
(* What a terminal session promises the pane that shows it: the shell's    *)
(* chunks one by one, in the order they were written and none left out,    *)
(* and one announcement of its end, after the last of them.  Only closing  *)
(* the session may cut the output short.                                   *)
(***************************************************************************)
EXTENDS Naturals

VARIABLES out,     \* chunks the shell has written
          shown,   \* how many of them were published
          gone,    \* the shell has ended
          closed,  \* the user closed the session
          exits    \* announcements of the end

streamVars == <<out, shown, gone, closed, exits>>

StreamInit == out = 0 /\ shown = 0 /\ gone = FALSE /\ closed = FALSE /\ exits = 0

Produce == ~gone /\ out' = out + 1 /\ UNCHANGED <<shown, gone, closed, exits>>

Deliver ==
  /\ exits = 0 /\ shown < out
  /\ shown' = shown + 1
  /\ UNCHANGED <<out, gone, closed, exits>>

End == gone' = TRUE /\ UNCHANGED <<out, shown, closed, exits>>

CutShort == closed' = TRUE /\ UNCHANGED <<out, shown, gone, exits>>

Announce ==
  /\ exits = 0
  /\ closed \/ (gone /\ shown = out)
  /\ exits' = 1
  /\ UNCHANGED <<out, shown, gone, closed>>

StreamSpec ==
  StreamInit /\ [][Produce \/ Deliver \/ End \/ CutShort \/ Announce]_streamVars
=============================================================================
