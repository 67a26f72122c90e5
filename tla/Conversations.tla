---------------------------- MODULE Conversations ----------------------------
(***************************************************************************)
(* The chat of one project: chatStore.ts and ChatPanel.tsx, the history    *)
(* list of activityStore.ts, and what AiTurn.cs does with a turn around    *)
(* the engine's run (AiRuns).  The database has one gate, but handlers run *)
(* side by side: their answers arrive in any order.                        *)
(*                                                                         *)
(* A conversation is a number.  A successful turn mints the engine session *)
(* with its own number; 0 is no conversation, turn or session.             *)
(***************************************************************************)
EXTENDS Naturals, Sequences, SequencesExt, FiniteSets, FiniteSetsExt, Lists

CONSTANTS
  Engines, FirstEngine,              \* what the chat can be routed to
  MaxTurns, MaxReads, MaxChatOps     \* bounds: turns, reads in flight, the user

ASSUME ConversationsConstants == FirstEngine \in Engines /\ MaxTurns \in Nat

VARIABLES
  chat,     \* what the panel shows
  turns,    \* every turn sent
  log,      \* the rows of activity_log
  archive,  \* the conversations listed, and whether they have been read
  reads,    \* answers of the core on their way, other than turns
  engine,   \* the chat's routing
  strayed,    \* history: something landed in a conversation it was not meant for
  chatOps   \* how many things the user has done

chatVars == <<chat, turns, log, archive, reads, engine, strayed, chatOps>>

EmptyChat == [conv |-> 0, session |-> 0, messages |-> <<>>, sending |-> FALSE]

\* outcome: none while the run lasts, then what it ended with; told: the answer
\* has reached the renderer.
Turn == [conv : Nat, asked : Nat, resumed : Nat, engine : Engines \cup {"none"},
         outcome : {"none", "ok", "error", "stopped"}, told : BOOLEAN]

ChatTypeOK ==
  /\ chat.conv \in Nat /\ chat.session \in Nat /\ chat.sending \in BOOLEAN
  /\ chat.messages \in Seq([turn : 1 .. MaxTurns, role : {"user", "assistant"}])
  /\ turns \in Seq(Turn) /\ Len(turns) <= MaxTurns
  /\ engine \in Engines

ChatInit ==
  /\ chat = EmptyChat /\ turns = <<>> /\ log = <<>> /\ reads = {}
  /\ archive = [read |-> FALSE, convs |-> {}]
  /\ engine = FirstEngine /\ strayed = FALSE /\ chatOps = 0

RowsOf(conv) == Picked(log, {row \in ToSet(log) : row.conv = conv})
Listed == {log[i].conv : i \in DOMAIN log}
Ask(read) == Cardinality(reads) < MaxReads /\ reads' = reads \cup {read}

(* ------------------------------- the user ------------------------------- *)

\* The first message names the conversation, which then keeps its name.
FreshConv == 1 + Max({0} \cup {turns[t].conv : t \in DOMAIN turns})
ChatSend ==
  LET conv == IF chat.conv = 0 THEN FreshConv ELSE chat.conv
      t    == Len(turns) + 1
  IN  /\ ~chat.sending /\ t <= MaxTurns
      /\ turns' = Append(turns, [conv |-> conv, asked |-> chat.session, resumed |-> 0, engine |-> "none",
                                 outcome |-> "none", told |-> FALSE])
      /\ chat' = [chat EXCEPT !.conv = conv, !.sending = TRUE,
                              !.messages = Append(@, [turn |-> t, role |-> "user"])]
      /\ UNCHANGED <<log, archive, reads, engine, strayed>>

\* Faulty variant: a new chat keeps the session.
ClearTranscript == chat' = [EmptyChat EXCEPT !.session = chat.session] /\ UNCHANGED <<turns, log, archive, reads, engine, strayed>>
ClearChat == chat' = EmptyChat /\ UNCHANGED <<turns, log, archive, reads, engine, strayed>>

SwitchTo(conv) ==
  /\ Ask([kind |-> "open", conv |-> conv, rows |-> RowsOf(conv)])
  /\ UNCHANGED <<chat, turns, log, archive, engine, strayed>>

LoadHistory ==
  /\ Ask([kind |-> "list", convs |-> Listed])
  /\ UNCHANGED <<chat, turns, log, archive, engine, strayed>>

RemoveConversation(conv) ==
  /\ log' = Picked(log, {row \in ToSet(log) : row.conv # conv})
  /\ Ask([kind |-> "removed", conv |-> conv])
  /\ UNCHANGED <<chat, turns, archive, engine, strayed>>

\* The settings, or another agent of the workspace.
RouteTo(e) == engine' = e /\ UNCHANGED <<chat, turns, log, archive, reads, strayed>>

(* ------------------------------- the core -------------------------------- *)

\* The provider that answered last, if any turn of the conversation is filed.
SessionForProvider(turn) ==
  LET rows == RowsOf(turn.conv)
  IN  IF rows # <<>> /\ Last(rows).engine # engine THEN 0 ELSE turn.asked

StartTurn(t) ==
  /\ turns[t].engine = "none"
  /\ turns' = [turns EXCEPT ![t].engine = engine, ![t].resumed = SessionForProvider(turns[t])]
  /\ UNCHANGED <<chat, log, archive, reads, engine, strayed>>

\* The row of a failure carries the session it ran under; a stopped turn has none.
TurnEnds(t) ==
  /\ turns[t].engine # "none" /\ turns[t].outcome = "none"
  /\ \E outcome \in {"ok", "error", "stopped"} :
       /\ turns' = [turns EXCEPT ![t].outcome = outcome]
       /\ LET row == [turn |-> t, conv |-> turns[t].conv, engine |-> turns[t].engine,
                      session |-> IF outcome = "ok" THEN t ELSE turns[t].resumed]
          IN  \/ outcome # "stopped" /\ log' = Append(log, row)
              \/ outcome # "error" /\ UNCHANGED log   \* not filed, or the write failed
  /\ UNCHANGED <<chat, archive, reads, engine, strayed>>

(* ------------------------------- answers --------------------------------- *)

\* The reply joins whatever the panel shows by now.
TurnAnswered(t) ==
  /\ turns[t].outcome # "none" /\ ~turns[t].told
  /\ turns' = [turns EXCEPT ![t].told = TRUE]
  /\ chat' = [chat EXCEPT !.messages = Append(@, [turn |-> t, role |-> "assistant"]), !.sending = FALSE,
                          !.session = IF turns[t].outcome = "ok" THEN t ELSE @]
  /\ IF turns[t].outcome = "stopped" THEN UNCHANGED reads ELSE Ask([kind |-> "list", convs |-> Listed])
  /\ strayed' = (strayed \/ turns[t].conv # chat.conv)
  /\ UNCHANGED <<log, archive, engine>>

\* ChatSection's effect, when it is mounted: a conversation that is not in the
\* list is taken to be deleted.
Healed(list) ==
  IF list.read /\ ~chat.sending /\ chat.messages # <<>> /\ chat.conv # 0 /\ chat.conv \notin list.convs
  THEN EmptyChat ELSE chat
ShowList(list) ==
  /\ archive' = list
  /\ chat' \in {chat, Healed(list)}
  /\ UNCHANGED <<turns, log, engine, strayed>>

\* switchTo: the conversation continues in the last session any row has.
SessionOf(rows) == LET some == Picked(rows, {row \in ToSet(rows) : row.session # 0})
                   IN  IF some = <<>> THEN 0 ELSE Last(some).session

\* Both halves of every exchange.
Transcript(rows) ==
  [k \in 1 .. 2 * Len(rows) |-> [turn |-> rows[(k + 1) \div 2].turn,
                                 role |-> IF k % 2 = 1 THEN "user" ELSE "assistant"]]
Opened(read) ==
  /\ chat' = [conv |-> read.conv, session |-> SessionOf(read.rows), sending |-> FALSE,
              messages |-> Transcript(read.rows)]
  /\ strayed' = (strayed \/ read.rows # RowsOf(read.conv))
  /\ UNCHANGED <<turns, log, archive, engine>>

ReadArrives ==
  \E read \in reads :
    /\ reads' = reads \ {read}
    /\ \/ read.kind = "open" /\ Opened(read)
       \/ read.kind = "list" /\ ShowList([read |-> TRUE, convs |-> read.convs])
       \/ read.kind = "removed" /\ ShowList([archive EXCEPT !.convs = @ \ {read.conv}])

ChatNext ==
  \/ /\ chatOps < MaxChatOps /\ chatOps' = chatOps + 1
     /\ \/ ChatSend \/ ClearChat \/ LoadHistory
        \/ \E conv \in archive.convs : SwitchTo(conv) \/ RemoveConversation(conv)
        \/ \E e \in Engines \ {engine} : RouteTo(e)
  \/ /\ UNCHANGED chatOps
     /\ \/ \E t \in DOMAIN turns : StartTurn(t) \/ TurnEnds(t) \/ TurnAnswered(t)
        \/ ReadArrives

ChatSpec == ChatInit /\ [][ChatNext]_chatVars

(* ------------------------------- properties ------------------------------ *)

\* While nothing has landed in a conversation it was not meant for, the panel
\* shows one conversation and all its answers that are filed, and neither the next
\* turn nor any turn sent so far continues the session of another one.
\* chatStore.ts has no guard against the rest: a reply after `new chat' or a
\* switch, and an archived conversation that arrives after it has changed.
OneConversationIsShown ==
  ~strayed =>
    /\ \A i \in DOMAIN chat.messages : turns[chat.messages[i].turn].conv = chat.conv
    /\ chat.session # 0 => turns[chat.session].conv = chat.conv
    /\ \A t \in DOMAIN turns : \A s \in {turns[t].asked, turns[t].resumed} \ {0} : turns[s].conv = turns[t].conv
    /\ \A i \in DOMAIN log : log[i].conv = chat.conv /\ turns[log[i].turn].told =>
         \E j \in DOMAIN chat.messages : chat.messages[j].turn = log[i].turn

\* AiTurn.cs: a token "minted by a different engine than the one about to run"
\* is dropped.  Not counting answers that are not on record, whose engine cannot
\* be determined, and the races above.
TokensStayWithTheirEngine ==
  ~strayed => \A t \in DOMAIN turns : \A i \in DOMAIN log :
    turns[t].resumed = log[i].turn => turns[t].engine = log[i].engine
==============================================================================
