--------------------------- MODULE ApiClientProofs ---------------------------
(***************************************************************************)
(* The request client: its sends, its runner, its tabs and its streams.    *)
(*                                                                         *)
(* Sends: of one tab that was never released with a send under way, every  *)
(* send but the last is over, since the Send button asks the spinner. So   *)
(* the send that ends is the one it turns for, and the one that replies is *)
(* the last.                                                               *)
(*                                                                         *)
(* Sockets: of a tab that met no race, there is at most one attempt that   *)
(* has not settled, and none while a connection of it lives; so what lives *)
(* is what the tab shows.                                                  *)
(*                                                                         *)
(* Runner: a run that never jumped has executed as many items of its plan  *)
(* as it has gone through, and those in order.                             *)
(*                                                                         *)
(* Workbench: every list of tabs, on screen, in the settings or on its way *)
(* there, fits the rows of its workspace, as does the tree but for saves whose    *)
(* answers are to come. BenchInv says so of each call in the queue, and    *)
(* QueueMoves that it stays so as the head is answered or a load added. A  *)
(* load brings what was typed in the workspace that waits for it, unless   *)
(* its setting was written over (DraftInv).                                *)
(*                                                                         *)
(* RequestTree: the answers under way lead from what is shown to the rows, *)
(* one after another, unless one of them is a race or a refused move's     *)
(* reload is to come (Foreseen). A move on screen is the core's move where *)
(* both sides agree (MovesAgree), for they compute the same subtree and    *)
(* put the node among the same siblings.  TreeTypes needs what ByOrder     *)
(* chooses to exist (SortedExists); then each child of a destination gets  *)
(* a place of its own, and siblings never share one.                       *)
(***************************************************************************)
EXTENDS Sends, Sockets, Runner, Workbench, RequestTree, ListsProofs

------------------------------------------------------------------------------
(* Of Sends.                                                               *)

SendShapes ==
  /\ space \in Spaces
  /\ builder \in BuilderTabs \cup {None}
  /\ activeEnv \in Environments \cup {None}
  /\ track \in {0} \cup DOMAIN sent
  /\ sent \in Seq(Sent)
  /\ orphans \subseteq DOMAIN sent
  /\ sending \in [BuilderTabs -> BOOLEAN] /\ reply \in [BuilderTabs -> Nat]

EntriesAreHome ==
  \A entry \in history :
    entry \in (DOMAIN sent) \X Spaces /\ entry[2] = HomeOf[sent[entry[1]].tab]

Strays == {sent[s].tab : s \in orphans}
OnlyTheLastIsUnderway(t) ==
  \A s, later \in DOMAIN sent :
    s < later /\ sent[s].tab = t /\ sent[later].tab = t => sent[s].at = "over"
Spins(t) == sending[t] <=> \E s \in DOMAIN sent : sent[s].tab = t /\ sent[s].at # "over"
ShowsTheLast(t) == reply[t] # 0 => \A s \in DOMAIN sent : sent[s].tab = t => s <= reply[t]
TabInv(t) == OnlyTheLastIsUnderway(t) /\ Spins(t) /\ ShowsTheLast(t)

SendInv == SendShapes /\ EntriesAreHome /\ \A t \in BuilderTabs \ Strays : TabInv(t)

(* A stage of one send changes nothing of another, and never the tab.      *)
LEMMA StageOfOne ==
  ASSUME SendShapes, NEW s \in DOMAIN sent, NEW stage \in Stages, GoTo(s, stage)
  PROVE  /\ sent' \in Seq(Sent) /\ DOMAIN sent' = DOMAIN sent
         /\ \A i \in DOMAIN sent : sent'[i].tab = sent[i].tab
         /\ \A i \in DOMAIN sent \ {s} : sent'[i].at = sent[i].at
         /\ sent'[s].at = stage
<1>1. sent \in [1 .. Len(sent) -> Sent] /\ DOMAIN sent = 1 .. Len(sent) /\ Len(sent) \in Nat
  BY DEF SendShapes
<1>2. sent[s] \in Sent
  BY <1>1
<1>3. [sent[s] EXCEPT !.at = stage] \in Sent /\ [sent[s] EXCEPT !.at = stage].tab = sent[s].tab
      /\ [sent[s] EXCEPT !.at = stage].at = stage
  BY <1>2 DEF Sent
<1>4. sent' = [sent EXCEPT ![s] = [sent[s] EXCEPT !.at = stage]]
  BY DEF GoTo
<1>5. /\ DOMAIN sent' = DOMAIN sent /\ sent'[s] = [sent[s] EXCEPT !.at = stage]
      /\ \A i \in DOMAIN sent \ {s} : sent'[i] = sent[i]
  BY <1>1, <1>4
<1>6. sent' \in [1 .. Len(sent) -> Sent]
  BY <1>1, <1>3, <1>4
<1>7. sent' \in Seq(Sent)
  BY <1>1, <1>6
<1>8. \A i \in DOMAIN sent : sent'[i].tab = sent[i].tab
  BY <1>3, <1>5
<1>9. \A i \in DOMAIN sent \ {s} : sent'[i].at = sent[i].at
  BY <1>5
<1> QED  BY <1>3, <1>5, <1>7, <1>8, <1>9

(* A send that goes on to a stage other than the last disturbs nothing but *)
(* what the action says of replies, which must be those of sends under way.*)
LEMMA GoingOn ==
  ASSUME SendInv, NEW s \in DOMAIN sent, sent[s].at # "over",
         NEW stage \in Stages \ {"over"}, GoTo(s, stage),
         sending' = sending, orphans' = orphans,
         \A entry \in history' : entry \in history \/ entry = <<s, HomeOf[sent[s].tab]>>,
         reply' = reply \/ reply' = [reply EXCEPT ![sent[s].tab] = s],
         UNCHANGED <<space, builder, activeEnv, track>>
  PROVE  SendInv'
<1>1. /\ sent' \in Seq(Sent) /\ DOMAIN sent' = DOMAIN sent
      /\ \A i \in DOMAIN sent : sent'[i].tab = sent[i].tab
      /\ \A i \in DOMAIN sent \ {s} : sent'[i].at = sent[i].at
      /\ sent'[s].at = stage
  BY StageOfOne DEF SendInv
<1>2. DOMAIN sent \subseteq Nat /\ sent[s] \in Sent
  BY DEF SendInv, SendShapes
<1> sent[s].tab \in BuilderTabs /\ HomeOf[sent[s].tab] \in Spaces
  BY <1>2, SendConstants DEF Sent, BuilderTabs
<1>3. SendShapes'
  BY <1>1, <1>2 DEF SendInv, SendShapes
<1>4. EntriesAreHome'
  BY <1>1 DEF SendInv, EntriesAreHome
<1>5. Strays' = Strays
  <2>1. orphans' = orphans /\ \A i \in orphans : sent'[i].tab = sent[i].tab
    BY <1>1 DEF SendInv, SendShapes
  <2> QED  BY <2>1 DEF Strays
<1>6. ASSUME NEW t \in BuilderTabs \ Strays PROVE TabInv(t)'
  <2>1. TabInv(t)
    BY DEF SendInv
  <2>2. OnlyTheLastIsUnderway(t)'
    BY <1>1, <1>2, <2>1 DEF TabInv, OnlyTheLastIsUnderway
  <2>3. Spins(t)'
    BY <1>1, <2>1 DEF TabInv, Spins
  <2>4. ASSUME sent[s].tab = t, NEW r \in DOMAIN sent, sent[r].tab = t PROVE r <= s
    BY <1>2, <2>1, <2>4 DEF TabInv, OnlyTheLastIsUnderway
  <2>5. ShowsTheLast(t)'
    <3>1. CASE reply' = reply
      BY <3>1, <1>1, <2>1 DEF TabInv, ShowsTheLast
    <3>2. CASE reply' = [reply EXCEPT ![sent[s].tab] = s]
      <4>1. reply'[t] = IF t = sent[s].tab THEN s ELSE reply[t]
        BY <3>2 DEF SendInv, SendShapes
      <4> QED  BY <1>1, <2>1, <2>4, <4>1 DEF TabInv, ShowsTheLast
    <3> QED  BY <3>1, <3>2
  <2> QED  BY <2>2, <2>3, <2>5 DEF TabInv
<1> QED  BY <1>3, <1>4, <1>5, <1>6 DEF SendInv
(* Released tabs are stray from then on if a send of theirs is under way,  *)
(* and otherwise show nothing.                                             *)
LEMMA Releasing ==
  ASSUME SendInv, NEW released \in SUBSET BuilderTabs, Release(released),
         sent' = sent, history' = history, space' \in Spaces, track' \in {0, track},
         builder' \in BuilderTabs \cup {None}, activeEnv' \in Environments \cup {None}
  PROVE  SendInv'
<1>1. /\ \A t \in BuilderTabs : sending'[t] = (sending[t] /\ t \notin released)
      /\ \A t \in BuilderTabs : reply'[t] = IF t \in released THEN 0 ELSE reply[t]
      /\ orphans' = orphans \cup {s \in DOMAIN sent : sent[s].tab \in released /\ sent[s].at # "over"}
  BY DEF Release, Underway
<1>2. SendShapes'
  <2>1. sending' \in [BuilderTabs -> BOOLEAN]
    BY DEF Release, SendInv, SendShapes
  <2>2. reply' \in [BuilderTabs -> Nat]
    BY DEF Release, SendInv, SendShapes
  <2> QED  BY <1>1, <2>1, <2>2 DEF SendInv, SendShapes
<1>3. EntriesAreHome'
  BY DEF SendInv, EntriesAreHome
<1>4. ASSUME NEW t \in BuilderTabs \ Strays' PROVE TabInv(t)'
  <2>1. /\ t \notin Strays
        /\ t \in released => \A s \in DOMAIN sent : sent[s].tab = t => sent[s].at = "over"
    BY <1>1 DEF Strays
  <2>2. TabInv(t)
    BY <2>1 DEF SendInv
  <2>3. OnlyTheLastIsUnderway(t)'
    BY <2>2 DEF TabInv, OnlyTheLastIsUnderway
  <2>4. Spins(t)'
    <3>1. CASE t \in released
      BY <3>1, <1>1, <2>1 DEF Spins
    <3>2. CASE t \notin released
      BY <3>2, <1>1, <2>2 DEF TabInv, Spins
    <3> QED  BY <3>1, <3>2
  <2>5. ShowsTheLast(t)'
    BY <1>1, <2>2 DEF TabInv, ShowsTheLast
  <2> QED  BY <2>3, <2>4, <2>5 DEF TabInv
<1> QED  BY <1>2, <1>3, <1>4 DEF SendInv

(* A new send of the tab on screen, which is not spinning.                 *)
LEMMA Sending ==
  ASSUME SendInv, NEW download \in BOOLEAN, Send(download)
  PROVE  SendInv'
<1> DEFINE new == [tab |-> builder, env |-> activeEnv, download |-> download, at |-> "resolving"]
<1> DEFINE n == Len(sent) + 1
<1>1. /\ builder \in BuilderTabs /\ new \in Sent /\ n \in Nat /\ n # 0
      /\ sent' = Append(sent, new) /\ track' = Len(sent')
  BY DEF Send, SendInv, SendShapes, Sent, Stages
<1>2. /\ sent' \in Seq(Sent) /\ DOMAIN sent = 1 .. n - 1 /\ DOMAIN sent' = 1 .. n /\ track' = n
      /\ sent'[n] = new /\ \A i \in DOMAIN sent : sent'[i] = sent[i]
  BY <1>1 DEF SendInv, SendShapes
<1> HIDE DEF n
<1>3. /\ sending' = [sending EXCEPT ![builder] = TRUE] /\ reply' = [reply EXCEPT ![builder] = 0]
      /\ sending[builder] = FALSE /\ UNCHANGED <<space, builder, activeEnv, orphans, history>>
  BY DEF Send, SendInv, SendShapes
<1>4. SendShapes'
  BY <1>1, <1>2, <1>3 DEF SendInv, SendShapes
<1>5. EntriesAreHome'
  BY <1>1, <1>2, <1>3 DEF SendInv, EntriesAreHome
<1>6. Strays' = Strays
  <2>1. orphans' = orphans /\ \A i \in orphans : sent'[i].tab = sent[i].tab
    BY <1>2, <1>3 DEF SendInv, SendShapes
  <2> QED  BY <2>1 DEF Strays
<1>7. ASSUME NEW t \in BuilderTabs \ Strays PROVE TabInv(t)'
  <2>1. TabInv(t)
    BY DEF SendInv
  <2>2. CASE t # builder
    <3>1. sending'[t] = sending[t] /\ reply'[t] = reply[t] /\ new.tab # t
      BY <1>3, <2>2 DEF SendInv, SendShapes
    <3>2. \A i \in DOMAIN sent' : sent'[i].tab = t => i \in DOMAIN sent
      BY <1>1, <1>2, <3>1
    <3>3. OnlyTheLastIsUnderway(t)'
      BY <1>2, <2>1, <3>2 DEF TabInv, OnlyTheLastIsUnderway
    <3>4. Spins(t)'
      BY <1>1, <1>2, <2>1, <3>1, <3>2 DEF TabInv, Spins
    <3>5. ShowsTheLast(t)'
      BY <1>2, <2>1, <3>1, <3>2 DEF TabInv, ShowsTheLast
    <3> QED  BY <3>3, <3>4, <3>5 DEF TabInv
  <2>3. CASE t = builder
    <3>1. sending'[t] = TRUE /\ reply'[t] = 0 /\ new.tab = t /\ new.at # "over"
      BY <1>1, <1>3, <2>3 DEF SendInv, SendShapes
    <3>2. \A i \in DOMAIN sent : sent[i].tab = t => sent[i].at = "over"
      BY <1>3, <2>1, <2>3 DEF TabInv, Spins
    <3>3. \A i \in DOMAIN sent' : i = n \/ (i \in DOMAIN sent /\ i < n)
      BY <1>1, <1>2
    <3>4. OnlyTheLastIsUnderway(t)'
      BY <1>1, <1>2, <3>2, <3>3 DEF OnlyTheLastIsUnderway
    <3>5. n \in DOMAIN sent' /\ sent'[n].tab = t /\ sent'[n].at # "over"
      BY <1>1, <1>2, <3>1
    <3>6. Spins(t)'
      BY <3>1, <3>5 DEF Spins
    <3>7. ShowsTheLast(t)'
      BY <3>1 DEF ShowsTheLast
    <3> QED  BY <3>4, <3>6, <3>7 DEF TabInv
  <2> QED  BY <2>2, <2>3
<1> QED  BY <1>4, <1>5, <1>6, <1>7 DEF SendInv
(* The end of a send that nothing was under way behind stops the spinner.  *)
LEMMA Ending ==
  ASSUME SendInv, NEW s \in DOMAIN sent, SendEnds(s)
  PROVE  SendInv'
<1>1. /\ sent' \in Seq(Sent) /\ DOMAIN sent' = DOMAIN sent
      /\ \A i \in DOMAIN sent : sent'[i].tab = sent[i].tab
      /\ \A i \in DOMAIN sent \ {s} : sent'[i].at = sent[i].at
      /\ sent'[s].at = "over"
  BY StageOfOne DEF SendInv, SendEnds, Stages
<1>2. /\ sending' = [sending EXCEPT ![sent[s].tab] = FALSE] /\ sent[s].at # "over"
      /\ UNCHANGED <<space, builder, activeEnv, orphans, history, reply>> /\ track' \in {0, track}
  BY DEF SendEnds
<1>3. DOMAIN sent \subseteq Nat
  BY DEF SendInv, SendShapes
<1>4. SendShapes'
  BY <1>1, <1>2 DEF SendInv, SendShapes
<1>5. EntriesAreHome'
  BY <1>1, <1>2 DEF SendInv, EntriesAreHome
<1>6. Strays' = Strays
  <2>1. orphans' = orphans /\ \A i \in orphans : sent'[i].tab = sent[i].tab
    BY <1>1, <1>2 DEF SendInv, SendShapes
  <2> QED  BY <2>1 DEF Strays
<1>7. ASSUME NEW t \in BuilderTabs \ Strays PROVE TabInv(t)'
  <2>1. TabInv(t)
    BY DEF SendInv
  <2>2. OnlyTheLastIsUnderway(t)'
    BY <1>1, <2>1 DEF TabInv, OnlyTheLastIsUnderway
  <2>3. ShowsTheLast(t)'
    BY <1>1, <1>2, <2>1 DEF TabInv, ShowsTheLast
  <2>4. Spins(t)'
    <3>1. CASE t # sent[s].tab
      <4>1. sending'[t] = sending[t]
        BY <1>2, <3>1 DEF SendInv, SendShapes
      <4> QED  BY <1>1, <2>1, <3>1, <4>1 DEF TabInv, Spins
    <3>2. CASE t = sent[s].tab
      <4>1. sending'[t] = FALSE
        BY <1>2, <3>2 DEF SendInv, SendShapes
      <4>2. \A r \in DOMAIN sent \ {s} : sent[r].tab = t => sent[r].at = "over"
        BY <1>2, <1>3, <2>1, <3>2 DEF TabInv, OnlyTheLastIsUnderway
      <4> QED  BY <1>1, <4>1, <4>2 DEF Spins
    <3> QED  BY <3>1, <3>2
  <2> QED  BY <2>2, <2>3, <2>4 DEF TabInv
<1> QED  BY <1>4, <1>5, <1>6, <1>7 DEF SendInv

LEMMA SendsBegin == SendInit => SendInv
<1> SUFFICES ASSUME SendInit PROVE SendInv
  OBVIOUS
<1>1. sent = <<>> /\ DOMAIN sent = {}
  BY DEF SendInit
<1>2. SendShapes
  BY <1>1, SendConstants DEF SendInit, SendShapes
<1>3. \A t \in BuilderTabs : TabInv(t)
  BY <1>1 DEF SendInit, TabInv, OnlyTheLastIsUnderway, Spins, ShowsTheLast
<1> QED  BY <1>2, <1>3 DEF SendInit, SendInv, EntriesAreHome

LEMMA SendsGoOn == SendInv /\ [SendNext]_sendVars => SendInv'
<1> SUFFICES ASSUME SendInv, [SendNext]_sendVars
             PROVE  SendInv'
  OBVIOUS
<1> DEFINE Still == UNCHANGED <<track, sent, orphans, sending, reply, history>>
<1>1. ASSUME Still, space' \in Spaces, builder' \in BuilderTabs \cup {None},
             activeEnv' \in Environments \cup {None}
      PROVE  SendInv'
  BY <1>1 DEF SendInv, SendShapes, EntriesAreHome, Strays, TabInv, OnlyTheLastIsUnderway, Spins, ShowsTheLast
<1>2. /\ space \in Spaces /\ builder \in BuilderTabs \cup {None} /\ activeEnv \in Environments \cup {None}
      /\ OpenTabs \subseteq BuilderTabs
  BY DEF SendInv, SendShapes, OpenTabs
<1>3. ASSUME NEW t \in BuilderTabs, ShowTab(t)
      PROVE  SendInv'
  BY <1>1, <1>2, <1>3 DEF ShowTab
<1>4. ASSUME NEW download \in BOOLEAN, Send(download)
      PROVE  SendInv'
  BY <1>4, Sending
<1>5. CASE CancelSend
  <2>1. track \in DOMAIN sent
    BY <1>5 DEF CancelSend, SendInv, SendShapes
  <2> QED  BY <1>5, <2>1, GoingOn DEF CancelSend, Stages
<1>6. CASE CloseShownTab
  <2>1. builder \in BuilderTabs /\ builder' \in BuilderTabs \cup {None}
    BY <1>6, <1>2 DEF CloseShownTab
  <2> QED  BY <1>6, <1>2, <2>1, Releasing DEF CloseShownTab
<1>7. ASSUME NEW e \in Environments \cup {None}, SetActiveEnvironment(e)
      PROVE  SendInv'
  BY <1>1, <1>2, <1>7 DEF SetActiveEnvironment
<1>8. ASSUME NEW w \in Spaces, LeaveFor(w)
      PROVE  SendInv'
  BY <1>8, <1>2, Releasing DEF LeaveFor
<1>9. CASE Loaded
  BY <1>1, <1>2, <1>9 DEF Loaded
<1>10. ASSUME NEW s \in DOMAIN sent, Resolved(s) \/ SendFails(s)
       PROVE  SendInv'
  BY <1>10, GoingOn DEF Resolved, SendFails, Stages
<1>11. ASSUME NEW s \in DOMAIN sent, Replied(s) \/ FileCookies(s)
       PROVE  SendInv'
  BY <1>11, GoingOn DEF Replied, FileCookies, Stages
<1>12. ASSUME NEW s \in DOMAIN sent, RecordReply(s) \/ RecordFailure(s)
       PROVE  SendInv'
  <2>1. \A entry \in history' : entry \in history \/ entry = <<s, HomeOf[sent[s].tab]>>
    BY <1>12 DEF RecordReply, RecordFailure, RecordHistory, OpenTabs
  <2>2. sent[s].at # "over" /\ \E stage \in Stages \ {"over"} : GoTo(s, stage)
    BY <1>12 DEF RecordReply, RecordFailure, Stages
  <2>3. /\ UNCHANGED <<space, builder, activeEnv, track, orphans, sending>>
        /\ reply' = reply \/ reply' = [reply EXCEPT ![sent[s].tab] = s]
    BY <1>12 DEF RecordReply, RecordFailure
  <2> QED  BY <2>1, <2>2, <2>3, GoingOn
<1>13. ASSUME NEW s \in DOMAIN sent, SendEnds(s)
       PROVE  SendInv'
  BY <1>13, Ending
<1>14. CASE UNCHANGED sendVars
  BY <1>1, <1>2, <1>14 DEF sendVars
<1> QED
  BY <1>3, <1>4, <1>5, <1>6, <1>7, <1>8, <1>9, <1>10, <1>11, <1>12, <1>13, <1>14 DEF SendNext

(* An entry of the history is in the workspace of the tab it was sent      *)
(* from, whatever was selected meanwhile (RequestBuilder.tsx,              *)
(* recordHistory).                                                         *)
THEOREM HistoryAlwaysStaysHome == SendSpec => []HistoryStaysHome
<1>1. SendInv => HistoryStaysHome
  BY DEF SendInv, EntriesAreHome, HistoryStaysHome
<1> QED  BY SendsBegin, SendsGoOn, <1>1, PTL DEF SendSpec

(* The spinner of a tab turns exactly while a send of it is under way, and *)
(* the reply under it is that of the last send (RequestBuilder.tsx,        *)
(* apiRuntimeStore.ts), but for the tabs released with a send under way.   *)
THEOREM SpinnerAlwaysTellsTheTruth == SendSpec => []SpinnerTellsTheTruth
<1>1. SendInv => SpinnerTellsTheTruth
  BY DEF SendInv, Strays, TabInv, Spins, ShowsTheLast, SpinnerTellsTheTruth, Underway
<1> QED  BY SendsBegin, SendsGoOn, <1>1, PTL DEF SendSpec
(* What the types add to that: the number of sends is bounded, a reply and *)
(* a cookie are of a send there was.                                       *)
SendLimits ==
  /\ loaded \in BOOLEAN /\ closedTabs \subseteq BuilderTabs
  /\ content \in [Environments -> Environments]
  /\ Len(sent) <= MaxSends
  /\ jar \subseteq (DOMAIN sent) \X Spaces /\ \A t \in BuilderTabs : reply[t] <= Len(sent)

LEMMA LimitsOfSends == SendInv /\ SendLimits /\ [SendNext]_sendVars => SendLimits'
<1> SUFFICES ASSUME SendInv, SendLimits, [SendNext]_sendVars  PROVE SendLimits'
  OBVIOUS
<1>1. /\ sent \in Seq(Sent) /\ Len(sent) \in Nat /\ DOMAIN sent = 1 .. Len(sent) /\ space \in Spaces
      /\ reply \in [BuilderTabs -> Nat] /\ builder \in BuilderTabs \cup {None} /\ MaxSends \in Nat
  BY SendConstants DEF SendInv, SendShapes
<1>2. ASSUME Len(sent') = Len(sent), DOMAIN sent' = DOMAIN sent, UNCHANGED <<loaded, closedTabs>>,
             content' = content \/ \E e, f \in Environments : content' = [content EXCEPT ![e] = content[f]],
             jar' = jar \/ \E s \in DOMAIN sent : jar' = jar \cup {<<s, space>>},
             reply' = reply \/ \E s \in DOMAIN sent : reply' = [reply EXCEPT ![sent[s].tab] = s]
      PROVE  SendLimits'
  <2>1. content' \in [Environments -> Environments]
    BY <1>2 DEF SendLimits
  <2>2. jar' \subseteq (DOMAIN sent') \X Spaces
    BY <1>1, <1>2 DEF SendLimits
  <2>3. ASSUME NEW t \in BuilderTabs PROVE reply'[t] <= Len(sent')
    BY <1>1, <1>2 DEF SendLimits
  <2> QED  BY <1>2, <2>1, <2>2, <2>3 DEF SendLimits
<1>3. ASSUME NEW s \in DOMAIN sent, NEW stage, GoTo(s, stage)
      PROVE  Len(sent') = Len(sent) /\ DOMAIN sent' = DOMAIN sent
  BY <1>1, <1>3 DEF GoTo
<1>4. CASE UNCHANGED sendVars
  BY <1>2, <1>4 DEF sendVars
<1>5. ASSUME \/ \E t \in BuilderTabs : ShowTab(t)
             \/ \E e \in Environments \cup {None} : SetActiveEnvironment(e)
      PROVE  SendLimits'
  BY <1>2, <1>5 DEF ShowTab, SetActiveEnvironment
<1>6. ASSUME NEW download \in BOOLEAN, Send(download)
      PROVE  SendLimits'
  <2>1. Len(sent') = Len(sent) + 1 /\ DOMAIN sent' = 1 .. Len(sent) + 1 /\ Len(sent) < MaxSends
    BY <1>1, <1>6 DEF Send
  <2>2. \A t \in BuilderTabs : reply'[t] <= Len(sent')
    BY <1>1, <1>6, <2>1 DEF Send, SendLimits
  <2>3. jar' \subseteq (DOMAIN sent') \X Spaces
    BY <1>1, <1>6, <2>1 DEF Send, SendLimits
  <2> QED  BY <1>1, <1>6, <2>1, <2>2, <2>3 DEF Send, SendLimits
<1>7. CASE CancelSend
  <2>1. track \in DOMAIN sent
    BY <1>7 DEF CancelSend, SendInv, SendShapes
  <2> QED  BY <1>2, <1>3, <1>7, <2>1 DEF CancelSend
<1>8. ASSUME CloseShownTab \/ \E w \in Spaces : LeaveFor(w)
      PROVE  SendLimits'
  <2>1. closedTabs' \subseteq BuilderTabs /\ loaded' \in BOOLEAN /\ UNCHANGED <<content, sent, jar>>
    BY <1>1, <1>8 DEF CloseShownTab, LeaveFor, SendLimits
  <2>2. ASSUME NEW t \in BuilderTabs PROVE reply'[t] <= Len(sent')
    <3>1. \E released : reply' = [u \in BuilderTabs |-> IF u \in released THEN 0 ELSE reply[u]]
      BY <1>8 DEF CloseShownTab, LeaveFor, Release
    <3> QED  BY <1>1, <2>1, <3>1 DEF SendLimits
  <2> QED  BY <2>1, <2>2 DEF SendLimits
<1>9. CASE Loaded
  BY <1>9 DEF Loaded, SendLimits
<1>10. ASSUME NEW s \in DOMAIN sent,
              \/ Resolved(s) \/ SendFails(s) \/ Replied(s) \/ FileCookies(s)
              \/ RecordReply(s) \/ RecordFailure(s) \/ SendEnds(s)
       PROVE  SendLimits'
  <2>1. \E stage : GoTo(s, stage)
    BY <1>10 DEF Resolved, SendFails, Replied, FileCookies, RecordReply, RecordFailure, SendEnds
  <2>2. sent[s] \in Sent
    BY <1>1
  <2>3. content' = content \/ \E e, f \in Environments : content' = [content EXCEPT ![e] = content[f]]
    <3>1. sent[s].env \in Environments \cup {None} /\ activeEnv \in Environments \cup {None}
      BY <2>2 DEF Sent, SendInv, SendShapes
    <3> QED
      BY <1>10, <3>1 DEF Resolved, SendFails, Replied, FileCookies, RecordReply, RecordFailure, SendEnds
  <2>4. /\ UNCHANGED <<loaded, closedTabs>>
        /\ jar' = jar \/ jar' = jar \cup {<<s, space>>}
        /\ reply' = reply \/ reply' = [reply EXCEPT ![sent[s].tab] = s]
    BY <1>10 DEF Resolved, SendFails, Replied, FileCookies, RecordReply, RecordFailure, SendEnds
  <2> QED  BY <1>2, <1>3, <2>1, <2>3, <2>4
<1> QED  BY <1>4, <1>5, <1>6, <1>7, <1>8, <1>9, <1>10 DEF SendNext

(* The builder's stores keep their types: the spinner is of a send there   *)
(* is, and a cookie or an entry of the history of one of the workspaces.   *)
THEOREM SendsWellTyped == SendSpec => []SendTypeOK
<1>1. SendInit => SendLimits
  BY SendConstants DEF SendInit, SendLimits
<1>2. SendInv /\ SendLimits => SendTypeOK
  <2> SUFFICES ASSUME SendInv, SendLimits  PROVE SendTypeOK  OBVIOUS
  <2>1. sent \in Seq(Sent) /\ Len(sent) \in Nat /\ MaxSends \in Nat
    BY SendConstants DEF SendInv, SendShapes
  <2>2. \A i \in DOMAIN sent : sent[i] \in Sent
    BY <2>1
  <2>3. reply \in [BuilderTabs -> 0 .. MaxSends]
    BY <2>1 DEF SendInv, SendShapes, SendLimits
  <2>4. jar \cup history \subseteq (DOMAIN sent) \X Spaces
    BY DEF SendInv, EntriesAreHome, SendLimits
  <2> QED  BY <2>2, <2>3, <2>4 DEF SendInv, SendShapes, SendLimits, SendTypeOK
<1> QED  BY SendsBegin, SendsGoOn, LimitsOfSends, <1>1, <1>2, PTL DEF SendSpec

------------------------------------------------------------------------------
(* Of Sockets.                                                             *)

Attempts == 1 .. Len(dials)
SocketShapes ==
  /\ shut \cup tangled \subseteq StreamTabs
  /\ conn \in [StreamTabs -> [id : Nat, status : Statuses]]
  /\ dials \in Seq(Dial)
  /\ live \subseteq DOMAIN dials
  /\ leaving \in [StreamTabs -> Nat]
  /\ streamOps \in Nat

IsUnsettled(k) == dials[k].at \in {"resolving", "dialling", "failed"}

\* A connection is disposed of once by a disconnect and once by its own failure.
DisposedInStep ==
  \A k \in DOMAIN dials :
    /\ k \in live => dials[k].at \in {"dialling", "open"} /\ dials[k].disposed = 0
    /\ dials[k].at \in {"resolving", "open"} => dials[k].disposed = 0
    /\ dials[k].at = "dialling" => dials[k].disposed \in 0 .. 1

\* Of one tab that met no race: what is live is what it shows, and it is alone.
OneAtATime(t) ==
  /\ \A k \in live : dials[k].tab = t => conn[t].id = k /\ leaving[t] = 0
  /\ \A k \in DOMAIN dials : dials[k].tab = t /\ dials[k].at = "resolving" => conn[t].id = 0 /\ leaving[t] = 0
  /\ \A k, j \in DOMAIN dials :
       dials[k].tab = t /\ dials[j].tab = t /\ IsUnsettled(k) /\ (IsUnsettled(j) \/ j \in live) => j = k

SocketInv == SocketShapes /\ DisposedInStep /\ \A t \in StreamTabs \ tangled : OneAtATime(t)

SocketLimits ==
  /\ Len(dials) <= MaxDials /\ streamOps <= MaxStreamOps
  /\ \A t \in StreamTabs : conn[t].id \in 0 .. Len(dials) /\ leaving[t] <= streamOps

(* The attempts of a step of one: the others stay, and all keep their tab. *)
LEMMA AttemptStep ==
  ASSUME SocketShapes, NEW k \in DOMAIN dials, NEW d \in Dial, d.tab = dials[k].tab,
         dials' = [dials EXCEPT ![k] = d]
  PROVE  /\ dials' \in Seq(Dial) /\ DOMAIN dials' = DOMAIN dials /\ Len(dials') = Len(dials)
         /\ dials'[k] = d
         /\ \A j \in DOMAIN dials : j # k => dials'[j] = dials[j]
         /\ \A j \in DOMAIN dials : dials'[j].tab = dials[j].tab
  <1>1. dials \in Seq(Dial)  BY DEF SocketShapes
  <1> QED  BY <1>1

LEMMA HeardKeepsTheIds ==
  ASSUME SocketShapes, NEW k, NEW status \in Statuses
  PROVE  /\ Heard(k, status) \in [StreamTabs -> [id : Nat, status : Statuses]]
         /\ \A t \in StreamTabs : Heard(k, status)[t].id = conn[t].id
  <1> DEFINE event == [id |-> k, status |-> status]
             h == Heard(k, status)
  <1>1. conn \in [StreamTabs -> [id : Nat, status : Statuses]]  BY DEF SocketShapes
  <1>2. h = [t \in StreamTabs |-> IF t \in TabForConnection(event) THEN [conn[t] EXCEPT !.status = event.status] ELSE conn[t]]
    BY DEF Heard
  <1>3. event.status = status  OBVIOUS
  <1> HIDE DEF h, event
  <1>4. ASSUME NEW t \in StreamTabs  PROVE h[t] \in [id : Nat, status : Statuses] /\ h[t].id = conn[t].id
    <2>1. conn[t] \in [id : Nat, status : Statuses]  BY <1>1
    <2>2. CASE t \in TabForConnection(event)
      <3>1. h[t] = [conn[t] EXCEPT !.status = status]  BY <1>2, <1>3, <2>2
      <3> QED  BY <2>1, <3>1
    <2>3. CASE t \notin TabForConnection(event)
      <3>1. h[t] = conn[t]  BY <1>2, <2>3
      <3> QED  BY <2>1, <3>1
    <2> QED  BY <2>2, <2>3
  <1>5. h \in [StreamTabs -> [id : Nat, status : Statuses]]
    <2>1. h \in [StreamTabs -> [id : Nat, status : Statuses]] <=> h = [t \in StreamTabs |-> h[t]] /\ \A t \in StreamTabs : h[t] \in [id : Nat, status : Statuses]
      BY <1>2, <1>4
    <2> QED  BY <1>2, <1>4
  <1> QED  BY <1>4, <1>5 DEF h

LEMMA SocketsStart == SocketInit => SocketInv /\ SocketLimits
  <1> SUFFICES ASSUME SocketInit PROVE SocketInv /\ SocketLimits  OBVIOUS
  <1>1. dials = <<>> /\ DOMAIN dials = {} /\ live = {} /\ Len(dials) = 0 /\ streamOps = 0
    BY DEF SocketInit
  <1>2. conn \in [StreamTabs -> [id : Nat, status : Statuses]] /\ leaving \in [StreamTabs -> Nat]
        /\ \A t \in StreamTabs : conn[t].id = 0 /\ leaving[t] = 0
    BY DEF SocketInit, NoConnection, Statuses
  <1>3. SocketShapes  BY <1>1, <1>2 DEF SocketInit, SocketShapes
  <1>4. DisposedInStep /\ \A t \in StreamTabs : OneAtATime(t)
    BY <1>1 DEF DisposedInStep, OneAtATime
  <1>5. SocketLimits  BY <1>1, <1>2, SocketBounds DEF SocketLimits
  <1> QED  BY <1>3, <1>4, <1>5 DEF SocketInv

(* What Disconnected does to the attempts, whichever object it is given.   *)
LEMMA DisconnectedStep ==
  ASSUME SocketInv, NEW c, Disconnected(c)
  PROVE  /\ dials' \in Seq(Dial) /\ DOMAIN dials' = DOMAIN dials /\ Len(dials') = Len(dials)
         /\ live' = live \ {c}
         /\ \A j \in DOMAIN dials : dials'[j].tab = dials[j].tab
         /\ \A j \in DOMAIN dials : j # c => dials'[j] = dials[j]
         /\ \A j \in DOMAIN dials : dials'[j].at = dials[j].at \/ (dials[j].at = "open" /\ dials'[j].at = "over")
         /\ \A j \in DOMAIN dials : dials'[j].disposed = dials[j].disposed
              \/ (j = c /\ dials'[j].disposed = 1 /\ dials'[j].at \in {"dialling", "over"})
  <1> USE DEF SocketInv
  <1>1. CASE c \notin live
    <2>1. dials' = dials /\ live' = live \ {c}  BY <1>1 DEF Disconnected
    <2>2. dials' \in Seq(Dial)  BY <2>1 DEF SocketShapes
    <2> HIDE DEF SocketInv
    <2> QED  BY <2>1, <2>2
  <1>2. CASE c \in live
    <2> DEFINE d == [tab |-> dials[c].tab, at |-> IF dials[c].at = "open" THEN "over" ELSE dials[c].at, disposed |-> 1]
    <2>1. c \in DOMAIN dials /\ dials \in Seq(Dial)  BY <1>2 DEF SocketShapes
    <2>3. dials[c] \in Dial /\ dials[c].at \in {"dialling", "open"} /\ dials[c].disposed = 0
      BY <1>2, <2>1 DEF DisposedInStep
    <2>9. [dials[c] EXCEPT !.disposed = @ + 1, !.at = IF @ = "open" THEN "over" ELSE @] = d
      <3>1. PICK r \in Dial : r = dials[c]  BY <2>3
      <3>2. r = [tab |-> r.tab, at |-> r.at, disposed |-> r.disposed] /\ r.disposed = 0  BY <3>1, <2>3 DEF Dial
      <3>3. PICK at2 : at2 = IF r.at = "open" THEN "over" ELSE r.at  OBVIOUS
      <3>4. [r EXCEPT !.disposed = @ + 1, !.at = IF @ = "open" THEN "over" ELSE @]
            = [[r EXCEPT !.disposed = 1] EXCEPT !.at = at2]
        BY <3>2, <3>3
      <3>5. [r EXCEPT !.disposed = 1] = [tab |-> r.tab, at |-> r.at, disposed |-> 1]  BY <3>2
      <3>6. [[tab |-> r.tab, at |-> r.at, disposed |-> 1] EXCEPT !.at = at2] = [tab |-> r.tab, at |-> at2, disposed |-> 1]
        OBVIOUS
      <3>7. d = [tab |-> r.tab, at |-> at2, disposed |-> 1]  BY <3>1, <3>3
      <3> QED  BY <3>1, <3>4, <3>5, <3>6, <3>7
    <2>2. dials' = [dials EXCEPT ![c] = d] /\ live' = live \ {c}
      <3>1. dials' = [dials EXCEPT ![c].disposed = @ + 1, ![c].at = IF @ = "open" THEN "over" ELSE @]
        BY <1>2 DEF Disconnected
      <3> HIDE DEF d
      <3>2. dials' = [dials EXCEPT ![c] = [dials[c] EXCEPT !.disposed = @ + 1, !.at = IF @ = "open" THEN "over" ELSE @]]
        BY <3>1, <2>1
      <3> QED  BY <2>9, <3>2, <1>2 DEF Disconnected
    <2>4. /\ d.tab = dials[c].tab /\ d.disposed = 1
          /\ d.at = IF dials[c].at = "open" THEN "over" ELSE dials[c].at
      OBVIOUS
    <2>6. d \in Dial  BY <2>3 DEF Dial
    <2> HIDE DEF d
    <2>7. d.at \in {"dialling", "over"} /\ (d.at = dials[c].at \/ (dials[c].at = "open" /\ d.at = "over"))
      BY <2>3, <2>4
    <2>8. /\ dials' \in Seq(Dial) /\ DOMAIN dials' = DOMAIN dials /\ Len(dials') = Len(dials)
          /\ dials'[c] = d
          /\ \A j \in DOMAIN dials : j # c => dials'[j] = dials[j]
          /\ \A j \in DOMAIN dials : dials'[j].tab = dials[j].tab
      BY <2>1, <2>2, <2>4, <2>6, AttemptStep
    <2> HIDE DEF SocketInv
    <2> QED  BY <2>1, <2>2, <2>4, <2>7, <2>8
  <1> QED  BY <1>1, <1>2

(* A connect adds an attempt; of a tab it does not tangle, the only one.   *)
LEMMA ConnectKeeps ==
  ASSUME SocketInv, NEW t \in StreamTabs, Connect(t), streamOps' \in Nat
  PROVE  SocketInv'
  <1> USE DEF SocketInv
  <1> DEFINE d == [tab |-> t, at |-> "resolving", disposed |-> 0]
             n == Len(dials) + 1
  <1>1. /\ dials \in Seq(Dial) /\ live \subseteq DOMAIN dials
        /\ conn \in [StreamTabs -> [id : Nat, status : Statuses]] /\ leaving \in [StreamTabs -> Nat]
    BY DEF SocketShapes
  <1>2. /\ dials' = Append(dials, d) /\ live' = live /\ conn' = conn /\ leaving' = leaving /\ shut' = shut
        /\ conn[t].id = 0 /\ t \notin shut
    BY DEF Connect
  <1>3. d \in Dial /\ d.tab = t /\ d.at = "resolving" /\ d.disposed = 0  BY DEF Dial
  <1> HIDE DEF d
  <1>4. /\ dials' \in Seq(Dial) /\ DOMAIN dials' = DOMAIN dials \cup {n} /\ n \notin DOMAIN dials
        /\ dials'[n] = d /\ \A k \in DOMAIN dials : dials'[k] = dials[k]
    BY <1>1, <1>2, <1>3
  <1> HIDE DEF n
  <1>5. tangled' \subseteq tangled \cup {t} /\ tangled \subseteq tangled'
        /\ (t \notin tangled' => Unsettled(t) = {} /\ leaving[t] = 0)
    <2>1. leaving[t] \in Nat  BY <1>1
    <2>2. tangled' = IF Unsettled(t) # {} \/ leaving[t] > 0 THEN tangled \cup {t} ELSE tangled  BY DEF Connect
    <2>3. leaving[t] = 0 \/ leaving[t] > 0  BY <2>1
    <2> QED  BY <2>2, <2>3
  <1>6. SocketShapes'
    <2>1. shut' \cup tangled' \subseteq StreamTabs  BY <1>2, <1>5 DEF SocketShapes
    <2> QED  BY <1>1, <1>2, <1>4, <2>1 DEF SocketShapes
  <1>7. DisposedInStep'
    <2> SUFFICES ASSUME NEW k \in DOMAIN dials'
                 PROVE  /\ k \in live => dials'[k].at \in {"dialling", "open"} /\ dials'[k].disposed = 0
                        /\ dials'[k].at \in {"resolving", "open"} => dials'[k].disposed = 0
                        /\ dials'[k].at = "dialling" => dials'[k].disposed \in 0 .. 1
      BY <1>2 DEF DisposedInStep
    <2>1. CASE k = n  BY <1>1, <1>3, <1>4, <2>1
    <2>2. CASE k \in DOMAIN dials  BY <1>4, <2>2 DEF DisposedInStep
    <2> QED  BY <1>4, <2>1, <2>2
  <1>8. ASSUME NEW u \in StreamTabs \ tangled'  PROVE OneAtATime(u)'
    <2>1. OneAtATime(u)  BY <1>5
    <2>2. CASE u # t
      <3>1. \A k \in DOMAIN dials' : dials'[k].tab = u => k \in DOMAIN dials /\ dials'[k] = dials[k]
        BY <1>3, <1>4, <2>2
      <3>2. \A k \in DOMAIN dials' : dials'[k].tab = u => (IsUnsettled(k)' <=> IsUnsettled(k))
        BY <3>1 DEF IsUnsettled
      <3>3. live \subseteq DOMAIN dials'  BY <1>1, <1>4
      <3>4. \A k \in live : dials'[k].tab = u => conn[u].id = k /\ leaving[u] = 0
        BY <3>1, <3>3, <2>1 DEF OneAtATime
      <3>5. \A k \in DOMAIN dials' : dials'[k].tab = u /\ dials'[k].at = "resolving" => conn[u].id = 0 /\ leaving[u] = 0
        BY <3>1, <2>1 DEF OneAtATime
      <3>6. \A k, j \in DOMAIN dials' :
              dials'[k].tab = u /\ dials'[j].tab = u /\ IsUnsettled(k)' /\ (IsUnsettled(j)' \/ j \in live) => j = k
        BY <3>1, <3>2, <2>1 DEF OneAtATime
      <3> QED  BY <1>2, <3>4, <3>5, <3>6 DEF OneAtATime
    <2>3. CASE u = t
      <3>1. Unsettled(t) = {} /\ leaving[t] = 0  BY <1>5, <2>3
      <3>2. \A k \in DOMAIN dials : dials[k].tab = t => ~IsUnsettled(k)
        BY <3>1 DEF Unsettled, DialsOf, IsUnsettled
      <3>3. \A k \in live : dials[k].tab # t
        <4> SUFFICES ASSUME NEW k \in live, dials[k].tab = t PROVE FALSE  OBVIOUS
        <4>1. conn[t].id = k  BY <2>1, <2>3 DEF OneAtATime
        <4>2. k \in 1 .. Len(dials)  BY <1>1
        <4> QED  BY <4>1, <4>2, <1>2
      <3>4. \A k \in live : dials'[k].tab # t  BY <3>3, <1>1, <1>4
      <3>5. \A k \in DOMAIN dials' : dials'[k].tab = t /\ IsUnsettled(k)' => k = n
        BY <3>2, <1>4 DEF IsUnsettled
      <3> QED  BY <1>2, <2>3, <3>1, <3>4, <3>5 DEF OneAtATime
    <2> QED  BY <2>2, <2>3
  <1> QED  BY <1>6, <1>7, <1>8
(* A tab none of whose attempts comes to life keeps what holds of it, as   *)
(* long as what it shows and its clicks change only when nothing is live.  *)
Gone(u) == \A k \in live : dials[k].tab # u
Resolving(u) == \E k \in DOMAIN dials : dials[k].tab = u /\ dials[k].at = "resolving"

LEMMA QuietTabKeeps ==
  ASSUME SocketInv, NEW u \in StreamTabs \ tangled,
         DOMAIN dials' = DOMAIN dials, live' \subseteq live,
         \A k \in DOMAIN dials : dials'[k].tab = dials[k].tab,
         \A k \in DOMAIN dials : dials[k].tab = u =>
           /\ IsUnsettled(k)' => IsUnsettled(k)
           /\ dials'[k].at = "resolving" => dials[k].at = "resolving",
         conn'[u].id = conn[u].id \/ (conn'[u].id = 0 /\ Gone(u)'),
         leaving'[u] = leaving[u] \/ (Gone(u)' /\ ~Resolving(u))
  PROVE  OneAtATime(u)'
  <1>1. OneAtATime(u)  BY DEF SocketInv
  <1>2. live \subseteq DOMAIN dials  BY DEF SocketInv, SocketShapes
  <1>3. \A k \in live' : dials'[k].tab = u => conn'[u].id = k /\ leaving'[u] = 0
    BY <1>1, <1>2 DEF OneAtATime, Gone
  <1>4. \A k \in DOMAIN dials' : dials'[k].tab = u /\ dials'[k].at = "resolving" => conn'[u].id = 0 /\ leaving'[u] = 0
    BY <1>1 DEF OneAtATime, Resolving
  <1>5. \A k, j \in DOMAIN dials' :
          dials'[k].tab = u /\ dials'[j].tab = u /\ IsUnsettled(k)' /\ (IsUnsettled(j)' \/ j \in live') => j = k
    BY <1>1, <1>2 DEF OneAtATime
  <1> QED  BY <1>3, <1>4, <1>5 DEF OneAtATime

(* The request is resolved: nothing else of its tab is live.               *)
LEMMA ResolveKeeps ==
  ASSUME SocketInv, NEW k \in DOMAIN dials, Resolve(k), streamOps' \in Nat
  PROVE  SocketInv'
  <1> USE DEF SocketInv
  <1> DEFINE t == dials[k].tab
             d == [dials[k] EXCEPT !.at = "dialling"]
             c == [id |-> k, status |-> "connecting"]
  <1>1. /\ dials \in Seq(Dial) /\ live \subseteq DOMAIN dials /\ k \in Nat
        /\ conn \in [StreamTabs -> [id : Nat, status : Statuses]] /\ leaving \in [StreamTabs -> Nat]
        /\ dials[k] \in Dial /\ dials[k].at = "resolving" /\ dials[k].disposed = 0 /\ t \in StreamTabs
    <2>1. dials \in Seq(Dial) /\ dials[k].at = "resolving"  BY DEF SocketShapes, Resolve
    <2>2. dials[k] \in Dial /\ k \in Nat  BY <2>1
    <2>3. t \in StreamTabs  BY <2>2 DEF Dial
    <2> QED  BY <2>1, <2>2, <2>3 DEF SocketShapes, DisposedInStep
  <1>2. /\ dials' = [dials EXCEPT ![k] = d] /\ live' = live \cup {k} /\ leaving' = leaving
        /\ conn' = [conn EXCEPT ![t] = c] /\ shut' = shut /\ tangled' = tangled
    BY <1>1 DEF Resolve
  <1>3. d \in Dial /\ d.tab = t /\ d.at = "dialling" /\ d.disposed = 0  BY <1>1 DEF Dial
  <1>4. c \in [id : Nat, status : Statuses] /\ c.id = k  BY <1>1 DEF Statuses
  <1> HIDE DEF d, c
  <1>5. /\ dials' \in Seq(Dial) /\ DOMAIN dials' = DOMAIN dials /\ Len(dials') = Len(dials) /\ dials'[k] = d
        /\ \A j \in DOMAIN dials : j # k => dials'[j] = dials[j]
        /\ \A j \in DOMAIN dials : dials'[j].tab = dials[j].tab
    BY <1>2, <1>3, AttemptStep
  <1> HIDE DEF t
  <1>6. SocketShapes'
    <2>1. conn' \in [StreamTabs -> [id : Nat, status : Statuses]]  BY <1>1, <1>2, <1>4
    <2>2. live' \subseteq DOMAIN dials'  BY <1>1, <1>2, <1>5
    <2> QED  BY <1>1, <1>2, <1>5, <2>1, <2>2 DEF SocketShapes
  <1>7. DisposedInStep'
    <2> SUFFICES ASSUME NEW j \in DOMAIN dials
                 PROVE  /\ j \in live' => dials'[j].at \in {"dialling", "open"} /\ dials'[j].disposed = 0
                        /\ dials'[j].at \in {"resolving", "open"} => dials'[j].disposed = 0
                        /\ dials'[j].at = "dialling" => dials'[j].disposed \in 0 .. 1
      BY <1>5 DEF DisposedInStep
    <2>1. CASE j = k  BY <1>3, <1>5, <2>1
    <2>2. CASE j # k  BY <1>2, <1>5, <2>2 DEF DisposedInStep
    <2> QED  BY <2>1, <2>2
  <1>8. ASSUME NEW u \in StreamTabs \ tangled  PROVE OneAtATime(u)'
    <2>1. OneAtATime(u)  OBVIOUS
    <2>2. CASE u # t
      <3>1. \A j \in live' : dials'[j].tab = u => j \in live /\ j # k  BY <1>2, <1>5, <2>2 DEF t
      <3>2. conn'[u] = conn[u]  BY <1>1, <1>2, <2>2
      <3>3. \A j \in DOMAIN dials : dials[j].tab = u => dials'[j] = dials[j]  BY <1>5, <2>2 DEF t
      <3>4. \A j \in DOMAIN dials : dials[j].tab = u => (IsUnsettled(j)' <=> IsUnsettled(j))
        BY <3>3 DEF IsUnsettled
      <3>5. \A j \in live' : dials'[j].tab = u => conn'[u].id = j /\ leaving'[u] = 0
        BY <1>1, <1>2, <1>5, <2>1, <3>1, <3>2 DEF OneAtATime
      <3>6. \A j \in DOMAIN dials' : dials'[j].tab = u /\ dials'[j].at = "resolving" => conn'[u].id = 0 /\ leaving'[u] = 0
        BY <1>2, <1>5, <2>1, <3>2, <3>3 DEF OneAtATime
      <3>7. \A i, j \in DOMAIN dials' :
              dials'[i].tab = u /\ dials'[j].tab = u /\ IsUnsettled(i)' /\ (IsUnsettled(j)' \/ j \in live') => j = i
        BY <1>5, <2>1, <3>1, <3>4 DEF OneAtATime
      <3> QED  BY <3>5, <3>6, <3>7 DEF OneAtATime
    <2>3. CASE u = t
      <3>1. dials[k].tab = u /\ IsUnsettled(k) /\ leaving[u] = 0  BY <1>1, <2>1, <2>3 DEF t, OneAtATime, IsUnsettled
      <3>2. \A j \in DOMAIN dials : dials[j].tab = u /\ (IsUnsettled(j) \/ j \in live) => j = k
        BY <2>1, <3>1 DEF OneAtATime
      <3>3. \A j \in DOMAIN dials : dials[j].tab = u /\ j # k => ~IsUnsettled(j)' /\ j \notin live'
        BY <1>2, <1>5, <3>2 DEF IsUnsettled
      <3>4. conn'[u].id = k /\ leaving'[u] = 0 /\ dials'[k].at = "dialling"
        BY <1>1, <1>2, <1>3, <1>4, <1>5, <2>3, <3>1
      <3>5. \A j \in live' : dials'[j].tab = u => conn'[u].id = j /\ leaving'[u] = 0
        BY <1>1, <1>2, <1>5, <3>3, <3>4
      <3>6. \A j \in DOMAIN dials' : dials'[j].tab = u => dials'[j].at # "resolving"
        BY <1>5, <3>3, <3>4 DEF IsUnsettled
      <3>7. \A i, j \in DOMAIN dials' :
              dials'[i].tab = u /\ dials'[j].tab = u /\ IsUnsettled(i)' /\ (IsUnsettled(j)' \/ j \in live') => j = i
        BY <1>5, <3>3
      <3> QED  BY <3>5, <3>6, <3>7 DEF OneAtATime
    <2> QED  BY <2>2, <2>3
  <1> QED  BY <1>2, <1>6, <1>7, <1>8
(* One attempt moves on, nothing comes to life, and a tab forgets its      *)
(* connection only when it has none left.                                  *)
LEMMA AttemptMovesOn ==
  ASSUME SocketInv, NEW k \in DOMAIN dials, NEW d \in Dial, d.tab = dials[k].tab,
         dials' = [dials EXCEPT ![k] = d], live' \subseteq live,
         d.at # "resolving", IsUnsettled(k) \/ d.at \notin {"dialling", "failed"},
         k \in live' => d.at \in {"dialling", "open"} /\ d.disposed = 0,
         d.at = "open" => d.disposed = 0, d.at = "dialling" => d.disposed \in 0 .. 1,
         conn' \in [StreamTabs -> [id : Nat, status : Statuses]],
         \A u \in StreamTabs \ tangled : conn'[u].id = conn[u].id \/ (conn'[u].id = 0 /\ Gone(u)'),
         UNCHANGED <<shut, leaving, tangled>>, streamOps' \in Nat
  PROVE  SocketInv'
  <1> USE DEF SocketInv
  <1>1. /\ dials' \in Seq(Dial) /\ DOMAIN dials' = DOMAIN dials /\ Len(dials') = Len(dials) /\ dials'[k] = d
        /\ \A j \in DOMAIN dials : j # k => dials'[j] = dials[j]
        /\ \A j \in DOMAIN dials : dials'[j].tab = dials[j].tab
    BY AttemptStep
  <1>2. SocketShapes'
    <2>1. live' \subseteq DOMAIN dials'  BY <1>1 DEF SocketShapes
    <2> QED  BY <1>1, <2>1 DEF SocketShapes
  <1>3. DisposedInStep'
    <2> SUFFICES ASSUME NEW j \in DOMAIN dials
                 PROVE  /\ j \in live' => dials'[j].at \in {"dialling", "open"} /\ dials'[j].disposed = 0
                        /\ dials'[j].at \in {"resolving", "open"} => dials'[j].disposed = 0
                        /\ dials'[j].at = "dialling" => dials'[j].disposed \in 0 .. 1
      BY <1>1 DEF DisposedInStep
    <2>1. CASE j = k  BY <1>1, <2>1
    <2>2. CASE j # k  BY <1>1, <2>2 DEF DisposedInStep
    <2> QED  BY <2>1, <2>2
  <1>4. ASSUME NEW u \in StreamTabs \ tangled  PROVE OneAtATime(u)'
    <2>1. d.at \in {"dialling", "failed"} \/ d.at \in {"open", "over"}  BY DEF Dial
    <2>2. \A j \in DOMAIN dials : /\ IsUnsettled(j)' => IsUnsettled(j)
                                  /\ dials'[j].at = "resolving" => dials[j].at = "resolving"
      BY <1>1, <2>1 DEF IsUnsettled
    <2> QED  BY <1>1, <2>2, QuietTabKeeps
  <1> QED  BY <1>2, <1>3, <1>4

LEMMA ConnectFailsKeeps ==
  ASSUME SocketInv, NEW k \in DOMAIN dials, ConnectFails(k), streamOps' \in Nat
  PROVE  SocketInv'
  <1> USE DEF SocketInv
  <1> DEFINE d == [dials[k] EXCEPT !.at = "over"]
  <1>1. /\ dials \in Seq(Dial) /\ live \subseteq DOMAIN dials
        /\ conn \in [StreamTabs -> [id : Nat, status : Statuses]]
        /\ dials[k].at \in {"resolving", "failed"}
    BY DEF SocketShapes, ConnectFails
  <1>2. dials[k] \in Dial /\ dials[k].tab \in StreamTabs
    <2>1. dials[k] \in Dial  BY <1>1
    <2> QED  BY <2>1 DEF Dial
  <1>3. PICK t \in StreamTabs : t = dials[k].tab  BY <1>2
  <1>4. /\ dials' = [dials EXCEPT ![k] = d] /\ live' = live /\ conn' = [conn EXCEPT ![t] = NoConnection]
        /\ UNCHANGED <<shut, leaving, tangled>>
    BY <1>3 DEF ConnectFails
  <1>5. d \in Dial /\ d.tab = dials[k].tab /\ d.at = "over"  BY <1>2 DEF Dial
  <1>6. k \notin live /\ IsUnsettled(k)  BY <1>1 DEF DisposedInStep, IsUnsettled
  <1>7. NoConnection \in [id : Nat, status : Statuses] /\ NoConnection.id = 0  BY DEF NoConnection, Statuses
  <1>8. conn' \in [StreamTabs -> [id : Nat, status : Statuses]]  BY <1>1, <1>4, <1>7
  <1>9. ASSUME NEW u \in StreamTabs \ tangled
        PROVE  conn'[u].id = conn[u].id \/ (conn'[u].id = 0 /\ Gone(u)')
    <2>1. CASE u # t  BY <1>1, <1>4, <2>1
    <2>2. CASE u = t
      <3>1. conn'[u].id = 0  BY <1>1, <1>4, <1>7, <2>2
      <3>2. \A j \in live : dials[j].tab = u => j = k  BY <1>1, <1>3, <1>6, <2>2 DEF OneAtATime
      <3>3. \A j \in live : dials'[j] = dials[j]  BY <1>1, <1>4, <1>6
      <3> QED  BY <1>4, <1>6, <3>1, <3>2, <3>3 DEF Gone
    <2> QED  BY <2>1, <2>2
  <1> HIDE DEF d
  <1> QED  BY <1>4, <1>5, <1>6, <1>8, <1>9, AttemptMovesOn

LEMMA OpensKeeps ==
  ASSUME SocketInv, NEW k \in DOMAIN dials, Opens(k), streamOps' \in Nat
  PROVE  SocketInv'
  <1> USE DEF SocketInv
  <1> DEFINE d == [dials[k] EXCEPT !.at = "open"]
  <1>1. /\ dials \in Seq(Dial) /\ dials[k].at = "dialling" /\ dials[k].disposed = 0
    BY DEF SocketShapes, Opens
  <1>2. dials[k] \in Dial  BY <1>1
  <1>3. /\ dials' = [dials EXCEPT ![k] = d] /\ live' = live /\ conn' = Heard(k, "open")
        /\ UNCHANGED <<shut, leaving, tangled>>
    BY DEF Opens
  <1>4. d \in Dial /\ d.tab = dials[k].tab /\ d.at = "open" /\ d.disposed = 0  BY <1>1, <1>2 DEF Dial
  <1>5. conn' \in [StreamTabs -> [id : Nat, status : Statuses]] /\ \A u \in StreamTabs : conn'[u].id = conn[u].id
    BY <1>3, HeardKeepsTheIds DEF Statuses
  <1> HIDE DEF d
  <1> QED  BY <1>3, <1>4, <1>5, AttemptMovesOn

LEMMA DialFailsKeeps ==
  ASSUME SocketInv, NEW k \in DOMAIN dials, DialFails(k), streamOps' \in Nat
  PROVE  SocketInv'
  <1> USE DEF SocketInv
  <1> DEFINE d == [tab |-> dials[k].tab, at |-> "failed", disposed |-> dials[k].disposed + 1]
  <1>1. /\ dials \in Seq(Dial) /\ dials[k].at = "dialling" /\ dials[k].disposed \in 0 .. 1
    BY DEF SocketShapes, DialFails, DisposedInStep
  <1>2. dials[k] \in Dial  BY <1>1
  <1>3. [dials[k] EXCEPT !.at = "failed", !.disposed = @ + 1] = d
    <2>1. PICK r \in Dial : r = dials[k]  BY <1>2
    <2>2. r = [tab |-> r.tab, at |-> r.at, disposed |-> r.disposed]  BY <2>1 DEF Dial
    <2>3. [r EXCEPT !.at = "failed", !.disposed = @ + 1] = [[r EXCEPT !.at = "failed"] EXCEPT !.disposed = r.disposed + 1]
      BY <2>2
    <2>4. [r EXCEPT !.at = "failed"] = [tab |-> r.tab, at |-> "failed", disposed |-> r.disposed]  BY <2>2
    <2>5. [[tab |-> r.tab, at |-> "failed", disposed |-> r.disposed] EXCEPT !.disposed = r.disposed + 1]
          = [tab |-> r.tab, at |-> "failed", disposed |-> r.disposed + 1]
      OBVIOUS
    <2> QED  BY <2>1, <2>3, <2>4, <2>5
  <1> HIDE DEF d
  <1>4. /\ dials' = [dials EXCEPT ![k] = d] /\ live' = live \ {k} /\ conn' = Heard(k, "error")
        /\ UNCHANGED <<shut, leaving, tangled>>
    <2>1. dials' = [dials EXCEPT ![k].at = "failed", ![k].disposed = @ + 1]  BY DEF DialFails
    <2>2. dials' = [dials EXCEPT ![k] = [dials[k] EXCEPT !.at = "failed", !.disposed = @ + 1]]  BY <1>1, <2>1
    <2> QED  BY <1>3, <2>2 DEF DialFails
  <1>5. d \in Dial /\ d.tab = dials[k].tab /\ d.at = "failed"  BY <1>1, <1>2 DEF Dial, d
  <1>6. conn' \in [StreamTabs -> [id : Nat, status : Statuses]] /\ \A u \in StreamTabs : conn'[u].id = conn[u].id
    BY <1>4, HeardKeepsTheIds DEF Statuses
  <1>7. IsUnsettled(k)  BY <1>1 DEF IsUnsettled
  <1> QED  BY <1>4, <1>5, <1>6, <1>7, AttemptMovesOn

LEMMA DropsKeeps ==
  ASSUME SocketInv, NEW k \in DOMAIN dials, Drops(k), streamOps' \in Nat
  PROVE  SocketInv'
  <1> USE DEF SocketInv
  <1> DEFINE d == [dials[k] EXCEPT !.at = "over"]
  <1>1. dials \in Seq(Dial)  BY DEF SocketShapes
  <1>2. dials[k] \in Dial  BY <1>1
  <1>3. /\ dials' = [dials EXCEPT ![k] = d] /\ live' = live \ {k} /\ UNCHANGED <<shut, leaving, tangled>>
    BY DEF Drops
  <1>4. PICK status \in {"closed", "error"} : conn' = Heard(k, status)  BY DEF Drops
  <1>5. d \in Dial /\ d.tab = dials[k].tab /\ d.at = "over"  BY <1>2 DEF Dial
  <1>6. conn' \in [StreamTabs -> [id : Nat, status : Statuses]] /\ \A u \in StreamTabs : conn'[u].id = conn[u].id
    BY <1>4, HeardKeepsTheIds DEF Statuses
  <1> HIDE DEF d
  <1> QED  BY <1>3, <1>5, <1>6, AttemptMovesOn
(* A disconnect or a close of a tab: what it shows is dropped, and what is *)
(* live of a tab that met no race is what it shows.                        *)
LEMMA DisconnectsKeep ==
  ASSUME SocketInv, NEW t \in StreamTabs, Disconnected(conn[t].id) \/ (UNCHANGED <<dials, live>> /\ conn[t].id = 0),
         shut' \subseteq StreamTabs, tangled' \subseteq StreamTabs, tangled \subseteq tangled',
         conn' \in [StreamTabs -> [id : Nat, status : Statuses]],
         leaving' \in [StreamTabs -> Nat], streamOps' \in Nat,
         \A u \in StreamTabs \ {t} : conn'[u].id = conn[u].id /\ leaving'[u] = leaving[u],
         conn'[t].id \in {0, conn[t].id},
         leaving'[t] = leaving[t] \/ conn[t].id # 0
  PROVE  SocketInv'
  <1> USE DEF SocketInv
  <1>1. /\ dials \in Seq(Dial) /\ live \subseteq DOMAIN dials /\ DOMAIN dials = 1 .. Len(dials)
        /\ conn \in [StreamTabs -> [id : Nat, status : Statuses]]
    BY DEF SocketShapes
  <1>2. /\ dials' \in Seq(Dial) /\ DOMAIN dials' = DOMAIN dials /\ live' = live \ {conn[t].id}
        /\ \A j \in DOMAIN dials : dials'[j].tab = dials[j].tab
        /\ \A j \in live' : dials'[j] = dials[j]
        /\ \A j \in DOMAIN dials : dials'[j].at = dials[j].at \/ (dials[j].at = "open" /\ dials'[j].at = "over")
        /\ \A j \in DOMAIN dials : dials'[j].disposed = dials[j].disposed
              \/ (dials'[j].disposed = 1 /\ dials'[j].at \in {"dialling", "over"})
    <2>1. CASE Disconnected(conn[t].id)
      <3>1. PICK c : c = conn[t].id  OBVIOUS
      <3>2. Disconnected(c)  BY <2>1, <3>1
      <3> HIDE DEF SocketInv
      <3>3. /\ dials' \in Seq(Dial) /\ DOMAIN dials' = DOMAIN dials /\ live' = live \ {c}
            /\ \A j \in DOMAIN dials : dials'[j].tab = dials[j].tab
            /\ \A j \in DOMAIN dials : j # c => dials'[j] = dials[j]
            /\ \A j \in DOMAIN dials : dials'[j].at = dials[j].at \/ (dials[j].at = "open" /\ dials'[j].at = "over")
            /\ \A j \in DOMAIN dials : dials'[j].disposed = dials[j].disposed
                  \/ (dials'[j].disposed = 1 /\ dials'[j].at \in {"dialling", "over"})
        BY <3>2, DisconnectedStep
      <3>4. live' \subseteq DOMAIN dials /\ c \notin live'  BY <1>1, <3>3
      <3>5. \A j \in live' : dials'[j] = dials[j]  BY <3>3, <3>4
      <3> QED  BY <3>1, <3>3, <3>5
    <2>2. CASE UNCHANGED <<dials, live>> /\ conn[t].id = 0
      <3>1. 0 \notin live  BY <1>1
      <3>2. dials' \in Seq(Dial) /\ dials' = dials /\ live' = live  BY <1>1, <2>2
      <3> HIDE DEF SocketInv
      <3> QED  BY <2>2, <3>1, <3>2
    <2> QED  BY <2>1, <2>2
  <1>3. SocketShapes'
    <2>1. live' \subseteq DOMAIN dials'  BY <1>1, <1>2
    <2> QED  BY <1>2, <2>1 DEF SocketShapes
  <1>4. DisposedInStep'
    <2> SUFFICES ASSUME NEW j \in DOMAIN dials
                 PROVE  /\ j \in live' => dials'[j].at \in {"dialling", "open"} /\ dials'[j].disposed = 0
                        /\ dials'[j].at \in {"resolving", "open"} => dials'[j].disposed = 0
                        /\ dials'[j].at = "dialling" => dials'[j].disposed \in 0 .. 1
      BY <1>2 DEF DisposedInStep
    <2>1. j \in live' => dials'[j].at \in {"dialling", "open"} /\ dials'[j].disposed = 0
      BY <1>2 DEF DisposedInStep
    <2>2. dials'[j].at = dials[j].at \/ dials'[j].at = "over"  BY <1>2
    <2>3. dials'[j].disposed = dials[j].disposed \/ (dials'[j].disposed = 1 /\ dials'[j].at \in {"dialling", "over"})
      BY <1>2
    <2> QED  BY <2>1, <2>2, <2>3 DEF DisposedInStep
  <1>5. ASSUME NEW u \in StreamTabs \ tangled'  PROVE OneAtATime(u)'
    <2>1. OneAtATime(u) /\ u \notin tangled  OBVIOUS
    <2>2. \A j \in DOMAIN dials : /\ IsUnsettled(j)' => IsUnsettled(j)
                                  /\ dials'[j].at = "resolving" => dials[j].at = "resolving"
      BY <1>2 DEF IsUnsettled
    <2>3. CASE u # t  BY <1>2, <2>1, <2>2, <2>3, QuietTabKeeps
    <2>4. CASE u = t
      <3>1. Gone(u)'
        <4> SUFFICES ASSUME NEW j \in live', dials'[j].tab = u PROVE FALSE  BY DEF Gone
        <4>1. j \in live /\ dials[j].tab = u /\ j # conn[u].id  BY <1>1, <1>2, <2>4
        <4> QED  BY <2>1, <4>1 DEF OneAtATime
      <3>2. leaving'[u] = leaving[u] \/ ~Resolving(u)  BY <2>1, <2>4 DEF OneAtATime, Resolving
      <3>3. conn'[u].id = conn[u].id \/ (conn'[u].id = 0 /\ Gone(u)')  BY <2>4, <3>1
      <3> QED  BY <1>2, <2>1, <2>2, <3>1, <3>2, <3>3, QuietTabKeeps
    <2> QED  BY <2>3, <2>4
  <1> QED  BY <1>3, <1>4, <1>5

LEMMA DisconnectKeeps ==
  ASSUME SocketInv, NEW t \in StreamTabs, Disconnect(t), streamOps' \in Nat
  PROVE  SocketInv'
  <1>1. /\ conn \in [StreamTabs -> [id : Nat, status : Statuses]] /\ leaving \in [StreamTabs -> Nat]
        /\ shut \cup tangled \subseteq StreamTabs
    BY DEF SocketInv, SocketShapes
  <1>2. /\ conn[t].id # 0 /\ Disconnected(conn[t].id) /\ shut' = shut /\ tangled' = tangled
        /\ leaving' = [leaving EXCEPT ![t] = @ + 1]
        /\ conn' = conn \/ conn' = Heard(conn[t].id, "closed")
    BY DEF Disconnect
  <1>3. leaving' \in [StreamTabs -> Nat] /\ \A u \in StreamTabs \ {t} : leaving'[u] = leaving[u]  BY <1>1, <1>2
  <1>4. conn' \in [StreamTabs -> [id : Nat, status : Statuses]] /\ \A u \in StreamTabs : conn'[u].id = conn[u].id
    <2>1. CASE conn' = conn  BY <1>1, <2>1
    <2>2. CASE conn' = Heard(conn[t].id, "closed")
      <3>1. PICK c : c = conn[t].id  OBVIOUS
      <3>2. /\ Heard(c, "closed") \in [StreamTabs -> [id : Nat, status : Statuses]]
            /\ \A u \in StreamTabs : Heard(c, "closed")[u].id = conn[u].id
        BY HeardKeepsTheIds DEF SocketInv, Statuses
      <3> QED  BY <2>2, <3>1, <3>2
    <2> QED  BY <1>2, <2>1, <2>2
  <1> QED  BY <1>1, <1>2, <1>3, <1>4, DisconnectsKeep

LEMMA ReleaseTabKeeps ==
  ASSUME SocketInv, NEW t \in StreamTabs, ReleaseTab(t), streamOps' \in Nat
  PROVE  SocketInv'
  <1>1. /\ conn \in [StreamTabs -> [id : Nat, status : Statuses]] /\ leaving \in [StreamTabs -> Nat]
        /\ shut \cup tangled \subseteq StreamTabs
    BY DEF SocketInv, SocketShapes
  <1>2. /\ Disconnected(conn[t].id) \/ (UNCHANGED <<dials, live>> /\ conn[t].id = 0)
        /\ shut' = shut \cup {t} /\ tangled' \in {tangled, tangled \cup {t}} /\ leaving' = leaving
        /\ conn' = [conn EXCEPT ![t] = NoConnection]
    BY DEF ReleaseTab
  <1>3. NoConnection \in [id : Nat, status : Statuses] /\ NoConnection.id = 0  BY DEF NoConnection, Statuses
  <1>4. /\ conn' \in [StreamTabs -> [id : Nat, status : Statuses]] /\ conn'[t].id = 0
        /\ \A u \in StreamTabs \ {t} : conn'[u].id = conn[u].id
    BY <1>1, <1>2, <1>3
  <1> QED  BY <1>1, <1>2, <1>4, DisconnectsKeep

(* The answer forgets what the tab shows: nothing of it is live by then.   *)
LEMMA DisconnectAnsweredKeeps ==
  ASSUME SocketInv, NEW t \in StreamTabs, DisconnectAnswered(t), streamOps' \in Nat
  PROVE  SocketInv'
  <1> USE DEF SocketInv
  <1>1. /\ conn \in [StreamTabs -> [id : Nat, status : Statuses]] /\ leaving \in [StreamTabs -> Nat]
        /\ dials \in Seq(Dial)
    BY DEF SocketShapes
  <1>2. /\ leaving[t] > 0 /\ leaving' = [leaving EXCEPT ![t] = @ - 1]
        /\ conn' = [conn EXCEPT ![t] = NoConnection]
        /\ UNCHANGED <<shut, dials, live, tangled>>
    BY DEF DisconnectAnswered
  <1>3. NoConnection \in [id : Nat, status : Statuses] /\ NoConnection.id = 0  BY DEF NoConnection, Statuses
  <1>4. /\ conn' \in [StreamTabs -> [id : Nat, status : Statuses]] /\ conn'[t].id = 0
        /\ \A u \in StreamTabs \ {t} : conn'[u].id = conn[u].id
    BY <1>1, <1>2, <1>3
  <1>5. leaving[t] \in Nat /\ leaving[t] - 1 \in Nat
    <2>1. leaving[t] \in Nat  BY <1>1
    <2> QED  BY <1>2, <2>1
  <1>6. leaving' \in [StreamTabs -> Nat] /\ \A u \in StreamTabs \ {t} : leaving'[u] = leaving[u]
    BY <1>1, <1>2, <1>5
  <1>7. SocketShapes'  BY <1>2, <1>4, <1>6 DEF SocketShapes
  <1>8. DisposedInStep'  BY <1>2 DEF DisposedInStep
  <1>9. ASSUME NEW u \in StreamTabs \ tangled  PROVE OneAtATime(u)'
    <2>1. OneAtATime(u)  OBVIOUS
    <2>2. \A j \in DOMAIN dials : IsUnsettled(j)' <=> IsUnsettled(j)  BY <1>2 DEF IsUnsettled
    <2>3. CASE u # t  BY <1>2, <1>4, <1>6, <2>2, <2>3, QuietTabKeeps
    <2>4. CASE u = t
      <3>1. Gone(u)' /\ ~Resolving(u)  BY <1>2, <2>1, <2>4 DEF OneAtATime, Gone, Resolving
      <3> QED  BY <1>2, <1>4, <2>2, <2>4, <3>1, QuietTabKeeps
    <2> QED  BY <2>3, <2>4
  <1> QED  BY <1>2, <1>7, <1>8, <1>9
SocketStep ==
  \/ \E t \in StreamTabs : Connect(t) \/ Disconnect(t) \/ ReleaseTab(t) \/ DisconnectAnswered(t)
  \/ \E k \in DOMAIN dials : Resolve(k) \/ ConnectFails(k) \/ Opens(k) \/ DialFails(k) \/ Drops(k)

LEMMA SocketInvariant == SocketSpec => []SocketInv
  <1>1. SocketInit => SocketInv  BY SocketsStart
  <1>2. SocketInv /\ [SocketNext]_streamVars => SocketInv'
    <2> SUFFICES ASSUME SocketInv, [SocketNext]_streamVars  PROVE SocketInv'  OBVIOUS
    <2>1. CASE SocketNext
      <3>1. streamOps' \in Nat  BY <2>1 DEF SocketNext, SocketInv, SocketShapes
      <3>2. SocketStep  BY <2>1 DEF SocketNext, SocketStep
      <3>3. CASE \E t \in StreamTabs : Connect(t) \/ Disconnect(t) \/ ReleaseTab(t) \/ DisconnectAnswered(t)
        BY <3>1, <3>3, ConnectKeeps, DisconnectKeeps, ReleaseTabKeeps, DisconnectAnsweredKeeps
      <3>4. CASE \E k \in DOMAIN dials : Resolve(k) \/ ConnectFails(k) \/ Opens(k) \/ DialFails(k) \/ Drops(k)
        BY <3>1, <3>4, ResolveKeeps, ConnectFailsKeeps, OpensKeeps, DialFailsKeeps, DropsKeeps
      <3> QED  BY <3>2, <3>3, <3>4 DEF SocketStep
    <2>2. CASE UNCHANGED streamVars
      <3>1. UNCHANGED <<shut, conn, dials, live, leaving, tangled, streamOps>>  BY <2>2 DEF streamVars
      <3> QED  BY <3>1 DEF SocketInv, SocketShapes, DisposedInStep, OneAtATime, IsUnsettled
    <2> QED  BY <2>1, <2>2
  <1> QED  BY <1>1, <1>2, PTL DEF SocketSpec

\* SocketsAreAddressed, for any tabs: a connection the core holds is the one
\* its tab shows, unless the tab connected over something unanswered or was
\* closed while a request was being resolved.
THEOREM SocketsAlwaysAddressed == SocketSpec => []SocketsAreAddressed
  <1>1. SocketInv => SocketsAreAddressed
    <2> SUFFICES ASSUME SocketInv, NEW k \in live, dials[k].tab \notin tangled
                 PROVE  conn[dials[k].tab].id = k
      BY DEF SocketsAreAddressed
    <2>1. k \in DOMAIN dials /\ dials \in Seq(Dial)  BY DEF SocketInv, SocketShapes
    <2>2. dials[k] \in Dial  BY <2>1
    <2>3. PICK t \in StreamTabs : t = dials[k].tab  BY <2>2 DEF Dial
    <2>4. OneAtATime(t)  BY <2>3 DEF SocketInv
    <2> QED  BY <2>3, <2>4 DEF OneAtATime
  <1> QED  BY <1>1, SocketInvariant, PTL

(* The ids a step can give a tab, and the clicks it can leave unanswered.  *)
LEMMA LimitsHold ==
  ASSUME SocketInv, SocketInv', SocketLimits, SocketNext
  PROVE  SocketLimits'
  <1> DEFINE Ids == \A t \in StreamTabs : conn'[t].id \in 0 .. Len(dials')
             Clicks == \A t \in StreamTabs : leaving'[t] <= streamOps'
  <1>1. /\ dials \in Seq(Dial) /\ Len(dials) \in Nat /\ DOMAIN dials = 1 .. Len(dials)
        /\ conn \in [StreamTabs -> [id : Nat, status : Statuses]] /\ leaving \in [StreamTabs -> Nat]
        /\ Len(dials) <= MaxDials /\ streamOps \in Nat
        /\ \A t \in StreamTabs : conn[t].id \in 0 .. Len(dials) /\ leaving[t] <= streamOps
    BY DEF SocketInv, SocketShapes, SocketLimits
  <1>2. dials' \in Seq(Dial) /\ DOMAIN dials' = 1 .. Len(dials') /\ Len(dials') \in Nat
    <2>1. dials' \in Seq(Dial)  BY DEF SocketInv, SocketShapes
    <2> QED  BY <2>1
  <1>3. streamOps' <= MaxStreamOps /\ streamOps' >= streamOps /\ streamOps' \in Nat
    BY <1>1, SocketBounds DEF SocketNext, SocketLimits
  <1>4. NoConnection.id = 0  BY DEF NoConnection
  <1>5. ASSUME NEW c, NEW status \in Statuses, conn' = Heard(c, status)
        PROVE  \A t \in StreamTabs : conn'[t].id = conn[t].id
    BY <1>5, HeardKeepsTheIds DEF SocketInv
  <1>6. ASSUME NEW c, Disconnected(c)  PROVE Len(dials') = Len(dials)
    BY <1>6, DisconnectedStep
  <1>7. ASSUME NEW t \in StreamTabs, Connect(t)  PROVE Len(dials') <= MaxDials /\ Ids /\ Clicks
    <2> DEFINE d == [tab |-> t, at |-> "resolving", disposed |-> 0]
    <2>1. /\ dials' = Append(dials, d) /\ Len(dials) < MaxDials /\ conn' = conn /\ leaving' = leaving
      BY <1>7 DEF Connect
    <2> HIDE DEF d
    <2>2. Len(dials') = Len(dials) + 1  BY <1>1, <2>1
    <2> QED  BY <1>1, <1>2, <1>3, <2>1, <2>2, SocketBounds
  <1>8. ASSUME NEW t \in StreamTabs, Disconnect(t)  PROVE Len(dials') <= MaxDials /\ Ids /\ Clicks
    <2>1. /\ Disconnected(conn[t].id) /\ leaving' = [leaving EXCEPT ![t] = @ + 1]
          /\ conn' = conn \/ conn' = Heard(conn[t].id, "closed")
      BY <1>8 DEF Disconnect
    <2>2. PICK c : c = conn[t].id  OBVIOUS
    <2>3. Len(dials') = Len(dials)  BY <1>6, <2>1, <2>2
    <2>4. \A u \in StreamTabs : conn'[u].id = conn[u].id  BY <1>5, <2>1, <2>2 DEF Statuses
    <2>5. streamOps' = streamOps + 1 \/ UNCHANGED streamOps  BY DEF SocketNext
    <2>6. streamOps' = streamOps + 1
      <3> SUFFICES ASSUME UNCHANGED streamOps  PROVE FALSE  BY <2>5
      <3>1. SocketNext /\ streamOps' # streamOps + 1  BY <1>1
      <3>2. \/ \E k \in DOMAIN dials : Resolve(k) \/ ConnectFails(k) \/ Opens(k) \/ DialFails(k) \/ Drops(k)
            \/ \E u \in StreamTabs : DisconnectAnswered(u)
        BY <3>1 DEF SocketNext
      <3>3. leaving'[t] = leaving[t] + 1  BY <1>1, <2>1
      <3>4. leaving' = leaving \/ \E u \in StreamTabs : leaving' = [leaving EXCEPT ![u] = @ - 1]
        BY <3>2 DEF Resolve, ConnectFails, Opens, DialFails, Drops, DisconnectAnswered
      <3>5. leaving'[t] = leaving[t] \/ leaving'[t] = leaving[t] - 1  BY <1>1, <3>4
      <3> QED  BY <1>1, <3>3, <3>5
    <2>7. Clicks  BY <1>1, <2>1, <2>6
    <2> QED  BY <1>1, <2>3, <2>4, <2>7
  <1>9. ASSUME NEW t \in StreamTabs, ReleaseTab(t)  PROVE Len(dials') <= MaxDials /\ Ids /\ Clicks
    <2>1. /\ Disconnected(conn[t].id) \/ dials' = dials
          /\ leaving' = leaving /\ conn' = [conn EXCEPT ![t] = NoConnection]
      BY <1>9 DEF ReleaseTab
    <2>2. PICK c : c = conn[t].id  OBVIOUS
    <2>3. Len(dials') = Len(dials)  BY <1>6, <2>1, <2>2
    <2>4. Ids  BY <1>1, <1>4, <2>1, <2>3
    <2> QED  BY <1>1, <1>3, <2>1, <2>3, <2>4
  <1>10. ASSUME NEW t \in StreamTabs, DisconnectAnswered(t)  PROVE Len(dials') <= MaxDials /\ Ids /\ Clicks
    <2>1. /\ dials' = dials /\ leaving' = [leaving EXCEPT ![t] = @ - 1]
          /\ conn' = [conn EXCEPT ![t] = NoConnection]
      BY <1>10 DEF DisconnectAnswered
    <2>2. Ids  BY <1>1, <1>4, <2>1
    <2>3. Clicks  BY <1>1, <1>3, <2>1
    <2> QED  BY <1>1, <2>1, <2>2, <2>3
  <1>11. ASSUME NEW k \in DOMAIN dials, Resolve(k) \/ ConnectFails(k) \/ Opens(k) \/ DialFails(k) \/ Drops(k)
         PROVE  Len(dials') <= MaxDials /\ Ids /\ Clicks
    <2>1. leaving' = leaving /\ Len(dials') = Len(dials)
      <3>1. \E d : dials' = [dials EXCEPT ![k] = d]
        BY <1>1, <1>11 DEF Resolve, ConnectFails, Opens, DialFails, Drops
      <3> QED  BY <1>1, <1>2, <1>11, <3>1 DEF Resolve, ConnectFails, Opens, DialFails, Drops
    <2>2. CASE Resolve(k) \/ ConnectFails(k)
      <3>1. \/ conn' = [conn EXCEPT ![dials[k].tab] = [id |-> k, status |-> "connecting"]]
            \/ conn' = [conn EXCEPT ![dials[k].tab] = NoConnection]
        BY <2>2 DEF Resolve, ConnectFails
      <3>2. PICK c : c \in {[id |-> k, status |-> "connecting"], NoConnection} /\ conn' = [conn EXCEPT ![dials[k].tab] = c]
        BY <3>1
      <3>3. c.id \in 0 .. Len(dials)  BY <1>1, <1>4, <3>2
      <3>4. \A t \in StreamTabs : conn'[t].id \in 0 .. Len(dials)  BY <1>1, <3>2, <3>3
      <3>5. Clicks  BY <1>1, <1>3, <2>1
      <3> QED  BY <1>1, <2>1, <3>4, <3>5
    <2>3. CASE Opens(k) \/ DialFails(k) \/ Drops(k)
      <3>1. \E status \in Statuses : conn' = Heard(k, status)  BY <2>3 DEF Opens, DialFails, Drops, Statuses
      <3>2. \A t \in StreamTabs : conn'[t].id = conn[t].id  BY <1>5, <3>1
      <3> QED  BY <1>1, <1>3, <2>1, <3>2
    <2> QED  BY <1>11, <2>2, <2>3
  <1>12. SocketStep  BY DEF SocketNext, SocketStep
  <1>13. Len(dials') <= MaxDials /\ Ids /\ Clicks
    <2> HIDE DEF Ids, Clicks
    <2> QED  BY <1>7, <1>8, <1>9, <1>10, <1>11, <1>12 DEF SocketStep
  <1> QED  BY <1>3, <1>13 DEF SocketLimits

\* The connections stay well-typed: the object of a dial is disposed of at most
\* twice, once by a disconnect and once by its own failure.
THEOREM SocketsWellTyped == SocketSpec => []SocketTypeOK
  <1>1. SocketInit => SocketLimits  BY SocketsStart
  <1>2. SocketInv /\ SocketInv' /\ SocketLimits /\ [SocketNext]_streamVars => SocketLimits'
    <2>1. UNCHANGED streamVars /\ SocketLimits => SocketLimits'  BY DEF streamVars, SocketLimits
    <2> QED  BY <2>1, LimitsHold
  <1>3. SocketInv /\ SocketLimits => SocketTypeOK
    <2> SUFFICES ASSUME SocketInv, SocketLimits  PROVE SocketTypeOK  OBVIOUS
    <2>1. /\ dials \in Seq(Dial) /\ Len(dials) \in Nat /\ Len(dials) <= MaxDials /\ streamOps \in Nat
          /\ conn \in [StreamTabs -> [id : Nat, status : Statuses]] /\ leaving \in [StreamTabs -> Nat]
          /\ shut \cup tangled \subseteq StreamTabs /\ live \subseteq DOMAIN dials
      BY DEF SocketInv, SocketShapes, SocketLimits
    <2>2. \A k \in DOMAIN dials : dials[k] \in Dial  BY <2>1
    <2>3. \A t \in StreamTabs : conn[t].id \in 0 .. MaxDials /\ leaving[t] \in 0 .. MaxStreamOps
      <3> TAKE t \in StreamTabs
      <3>1. conn[t].id \in 0 .. Len(dials) /\ leaving[t] <= streamOps /\ streamOps <= MaxStreamOps  BY DEF SocketLimits
      <3>2. leaving[t] \in Nat  BY <2>1
      <3> QED  BY <2>1, <3>1, <3>2, SocketBounds
    <2>4. \A t \in StreamTabs : conn[t] \in [id : 0 .. MaxDials, status : Statuses]
      <3> TAKE t \in StreamTabs
      <3>1. conn[t] \in [id : Nat, status : Statuses]  BY <2>1
      <3> QED  BY <2>3, <3>1
    <2>5. conn \in [StreamTabs -> [id : 0 .. MaxDials, status : Statuses]]  BY <2>1, <2>4
    <2>6. leaving \in [StreamTabs -> 0 .. MaxStreamOps]  BY <2>1, <2>3
    <2> QED  BY <2>1, <2>2, <2>5, <2>6 DEF SocketTypeOK
  <1> QED  BY <1>1, <1>2, <1>3, SocketInvariant, PTL DEF SocketSpec

------------------------------------------------------------------------------
(* Of Runner.                                                              *)

Run == [modal : Nat, stopOnError : BOOLEAN, at : {"loop", "executing"} \cup Ends,
        iteration : 1 .. Iterations, index : 1 .. PlanLength, executed : Nat,
        items : Seq(Item), jumped : BOOLEAN, locals : SUBSET (1 .. Iterations)]

Planned(i) == [iteration |-> (i - 1) \div PlanLength + 1, request |-> ((i - 1) % PlanLength) + 1]
OnPlan(items) == \A i \in 1 .. Len(items) : items[i] = Planned(i)
Goes(run) == run.at \in {"loop", "executing"}

\* A run that never jumped is as far in the plan as its items are many.
InStep(run) ==
  /\ run.executed = Len(run.items) + (IF run.at = "executing" THEN 1 ELSE 0)
  /\ run.executed <= ExecutionCap
  /\ Goes(run) => run.locals \subseteq {run.iteration}
  /\ Goes(run) /\ ~run.jumped =>
       OnPlan(run.items) /\ Len(run.items) = (run.iteration - 1) * PlanLength + run.index - 1
  /\ run.at = "plan" /\ ~run.jumped => run.items = WholePlan

RunnerInv == modal \in Nat /\ runs \in Seq(Run) /\ \A r \in DOMAIN runs : InStep(runs[r])

LEMMA MoreIterations ==
  ASSUME NEW p \in Nat \ {0}, NEW a \in Nat, NEW b \in Nat, a < b
  PROVE  a * p + p <= b * p
  <1>1. PICK c \in Nat : b = a + 1 + c  BY b - a - 1 \in Nat
  <1>2. c * p \in Nat  BY <1>1
  <1>3. b * p = a * p + p + c * p  BY <1>1
  <1> QED  BY <1>2, <1>3

LEMMA PlaceInThePlan ==
  ASSUME NEW p \in Nat \ {0}, NEW q \in Nat, NEW m \in 0 .. p - 1
  PROVE  (q * p + m) \div p = q /\ (q * p + m) % p = m
  <1>1. PICK x \in Nat : x = q * p + m  OBVIOUS
  <1>2. PICK d, e : d = x \div p /\ e = x % p  OBVIOUS
  <1>3. d \in Nat /\ e \in 0 .. p - 1 /\ x = d * p + e  BY <1>1, <1>2
  <1>4. ~(d < q)
    <2> SUFFICES ASSUME d < q  PROVE FALSE  OBVIOUS
    <2>1. d * p + p <= q * p  BY <1>3, MoreIterations
    <2> QED  BY <1>1, <1>3, <2>1
  <1>5. ~(q < d)
    <2> SUFFICES ASSUME q < d  PROVE FALSE  OBVIOUS
    <2>1. q * p + p <= d * p  BY <1>3, MoreIterations
    <2> QED  BY <1>1, <1>3, <2>1
  <1>6. d = q  BY <1>3, <1>4, <1>5
  <1>7. e = m  BY <1>1, <1>3, <1>6
  <1> QED  BY <1>1, <1>2, <1>6, <1>7

LEMMA OneRunMovesOn ==
  ASSUME RunnerInv, modal' = modal, NEW r \in DOMAIN runs, NEW y \in Run, InStep(y), runs' = [runs EXCEPT ![r] = y]
  PROVE  RunnerInv'
  <1>1. runs \in Seq(Run)  BY DEF RunnerInv
  <1>2. runs' \in Seq(Run) /\ DOMAIN runs' = DOMAIN runs /\ runs'[r] = y
        /\ \A i \in DOMAIN runs : i # r => runs'[i] = runs[i]
    BY <1>1
  <1> QED  BY <1>2 DEF RunnerInv

LEMMA RunnersStart == RunnerInit => RunnerInv
  BY DEF RunnerInit, RunnerInv

LEMMA StartRunKeeps ==
  ASSUME RunnerInv, NEW stopOnError \in BOOLEAN, StartRun(stopOnError)
  PROVE  RunnerInv'
  <1> DEFINE y == [modal |-> modal, stopOnError |-> stopOnError, at |-> "loop", iteration |-> 1,
                   index |-> 1, executed |-> 0, items |-> <<>>, jumped |-> FALSE, locals |-> {}]
  <1>1. runs \in Seq(Run)  BY DEF RunnerInv
  <1>2. runs' = Append(runs, y)  BY DEF StartRun
  <1>3. y \in Run
    <2>1. 1 \in 1 .. Iterations /\ 1 \in 1 .. PlanLength  BY RunnerPlan
    <2>2. <<>> \in Seq(Item) /\ {} \in SUBSET (1 .. Iterations)  OBVIOUS
    <2> QED  BY <2>1, <2>2 DEF Run, RunnerInv
  <1>4. InStep(y)
    <2>1. y.executed = 0 /\ y.at = "loop" /\ y.items = <<>> /\ y.locals = {} /\ y.iteration = 1 /\ y.index = 1
      OBVIOUS
    <2>2. Len(y.items) = 0  BY <2>1
    <2> HIDE DEF y
    <2>3. OnPlan(y.items)  BY <2>2 DEF OnPlan
    <2>4. (y.iteration - 1) * PlanLength + y.index - 1 = 0  BY <2>1, RunnerPlan
    <2> QED  BY <2>1, <2>2, <2>3, <2>4, RunnerPlan DEF InStep
  <1> HIDE DEF y
  <1>5. runs' \in Seq(Run) /\ DOMAIN runs' = DOMAIN runs \cup {Len(runs) + 1} /\ runs'[Len(runs) + 1] = y
        /\ \A i \in DOMAIN runs : runs'[i] = runs[i]
    BY <1>1, <1>2, <1>3
  <1> QED  BY <1>4, <1>5 DEF RunnerInv, StartRun

LEMMA EndsKeep ==
  ASSUME RunnerInv, modal' = modal, NEW r \in DOMAIN runs, NEW why \in {"stopped", "cap"}, runs[r].at = "loop",
         runs' = [runs EXCEPT ![r].at = why]
  PROVE  RunnerInv'
  <1>1. runs \in Seq(Run)  BY DEF RunnerInv
  <1>2. PICK x \in Run : x = runs[r]  BY <1>1
  <1>3. InStep(x) /\ x.at = "loop"  BY <1>2 DEF RunnerInv
  <1> DEFINE y == [x EXCEPT !.at = why]
  <1>4. y \in Run  BY DEF Run, Ends
  <1>5. /\ y.at = why /\ y.executed = x.executed /\ y.items = x.items /\ y.jumped = x.jumped
    BY DEF Run
  <1>6. runs' = [runs EXCEPT ![r] = y]  BY <1>1, <1>2
  <1> HIDE DEF y
  <1>7. InStep(y)  BY <1>3, <1>5 DEF InStep, Goes
  <1> QED  BY <1>4, <1>6, <1>7, OneRunMovesOn

LEMMA ExecuteKeeps ==
  ASSUME RunnerInv, NEW r \in DOMAIN runs, Execute(r)
  PROVE  RunnerInv'
  <1>1. runs \in Seq(Run)  BY DEF RunnerInv
  <1>2. PICK x \in Run : x = runs[r]  BY <1>1
  <1>3. InStep(x) /\ x.at = "loop" /\ x.executed < ExecutionCap  BY <1>2 DEF RunnerInv, Execute
  <1> DEFINE z == [x EXCEPT !.at = "executing"]
             y == [z EXCEPT !.executed = x.executed + 1]
  <1>4. z \in Run /\ x.executed + 1 \in Nat  BY DEF Run
  <1>5. /\ z.at = "executing" /\ z.executed = x.executed /\ z.items = x.items /\ z.jumped = x.jumped
        /\ z.locals = x.locals /\ z.iteration = x.iteration /\ z.index = x.index
    BY DEF Run
  <1>6. [x EXCEPT !.at = "executing", !.executed = @ + 1] = y  OBVIOUS
  <1> HIDE DEF z
  <1>7. y \in Run  BY <1>4 DEF Run
  <1>8. /\ y.at = z.at /\ y.executed = x.executed + 1 /\ y.items = z.items /\ y.jumped = z.jumped
        /\ y.locals = z.locals /\ y.iteration = z.iteration /\ y.index = z.index
    BY <1>4 DEF Run
  <1>9. runs' = [runs EXCEPT ![r] = y]
    <2> HIDE DEF y
    <2>1. runs' = [runs EXCEPT ![r] = [runs[r] EXCEPT !.at = "executing", !.executed = @ + 1]]
      BY <1>1 DEF Execute
    <2> QED  BY <1>2, <1>6, <2>1
  <1> HIDE DEF y
  <1>10. Len(x.items) \in Nat /\ x.executed \in Nat  BY DEF Run
  <1>11. InStep(y)
    <2>1. Goes(x) /\ Goes(y) /\ y.at # "plan"  BY <1>3, <1>5, <1>8 DEF Goes
    <2>2. x.executed = Len(x.items)  BY <1>3, <1>10 DEF InStep
    <2>3. y.executed = Len(y.items) + 1 /\ y.executed <= ExecutionCap  BY <1>3, <1>5, <1>8, <1>10, <2>2, RunnerPlan
    <2> QED  BY <1>3, <1>5, <1>8, <2>1, <2>3 DEF InStep
  <1>12. modal' = modal  BY DEF Execute
  <1> QED  BY <1>7, <1>9, <1>11, <1>12, OneRunMovesOn

(* A request executed: one item more, and of a run that never jumped the   *)
(* item is the one the plan has next.                                      *)
LEMMA RequestExecuted ==
  ASSUME RunnerInv, NEW r \in DOMAIN runs, runs[r].at = "executing"
  PROVE  \E x, e \in Run :
           /\ x = runs[r] /\ e = Executed(r) /\ InStep(x)
           /\ e.modal = x.modal /\ e.stopOnError = x.stopOnError /\ e.at = "loop" /\ e.iteration = x.iteration
           /\ e.index = x.index /\ e.executed = x.executed /\ e.jumped = x.jumped
           /\ e.locals \subseteq {x.iteration}
           /\ e.executed = Len(e.items) /\ e.executed <= ExecutionCap
           /\ ~x.jumped => OnPlan(e.items) /\ Len(e.items) = (x.iteration - 1) * PlanLength + x.index
  <1>1. runs \in Seq(Run)  BY DEF RunnerInv
  <1>2. PICK x \in Run : x = runs[r]  BY <1>1
  <1>3. InStep(x) /\ x.at = "executing"  BY <1>2 DEF RunnerInv
  <1> DEFINE item == [iteration |-> x.iteration, request |-> x.index]
             items2 == Append(x.items, item)
             locals2 == x.locals \cup {x.iteration}
             a == [x EXCEPT !.items = items2]
             b == [a EXCEPT !.locals = locals2]
             e == [b EXCEPT !.at = "loop"]
  <1>4. /\ x.items \in Seq(Item) /\ Len(x.items) \in Nat /\ x.iteration \in 1 .. Iterations /\ x.index \in 1 .. PlanLength
        /\ x.executed \in Nat /\ x.locals \subseteq 1 .. Iterations
    BY DEF Run
  <1>5. item \in Item  BY <1>4 DEF Item
  <1>6. items2 \in Seq(Item) /\ locals2 \in SUBSET (1 .. Iterations)
    <2> HIDE DEF item
    <2> QED  BY <1>4, <1>5
  <1>7. [x EXCEPT !.items = Append(@, item), !.locals = @ \cup {x.iteration}, !.at = "loop"] = e  OBVIOUS
  <1>8. Executed(r) = e
    <2>1. Executed(r) = [x EXCEPT !.items = Append(@, item), !.locals = @ \cup {x.iteration}, !.at = "loop"]
      BY <1>2 DEF Executed
    <2> HIDE DEF e, item
    <2> QED  BY <1>7, <2>1
  <1> HIDE DEF items2, locals2
  <1>9. /\ a \in Run /\ a.items = items2
        /\ a.modal = x.modal /\ a.stopOnError = x.stopOnError /\ a.iteration = x.iteration
        /\ a.index = x.index /\ a.executed = x.executed /\ a.jumped = x.jumped
    <2>1. a \in Run  BY <1>6 DEF Run
    <2> QED  BY <2>1 DEF Run
  <1> HIDE DEF a
  <1>10. /\ b \in Run /\ b.items = items2 /\ b.locals = locals2
         /\ b.modal = x.modal /\ b.stopOnError = x.stopOnError /\ b.iteration = x.iteration
         /\ b.index = x.index /\ b.executed = x.executed /\ b.jumped = x.jumped
    <2>1. b \in Run  BY <1>6, <1>9 DEF Run
    <2> QED  BY <1>9, <2>1 DEF Run
  <1> HIDE DEF b
  <1>11. /\ e \in Run /\ e.items = items2 /\ e.locals = locals2 /\ e.at = "loop"
         /\ e.modal = x.modal /\ e.stopOnError = x.stopOnError /\ e.iteration = x.iteration
         /\ e.index = x.index /\ e.executed = x.executed /\ e.jumped = x.jumped
    <2>1. e \in Run  BY <1>10 DEF Run
    <2> QED  BY <1>10, <2>1 DEF Run
  <1> HIDE DEF e
  <1>12. locals2 \subseteq {x.iteration}  BY <1>3 DEF InStep, Goes, locals2
  <1>13. Len(items2) = Len(x.items) + 1 /\ items2[Len(x.items) + 1] = item
         /\ \A i \in 1 .. Len(x.items) : items2[i] = x.items[i]
    <2> HIDE DEF item
    <2> QED  BY <1>4, <1>5 DEF items2
  <1>14. x.executed = Len(x.items) + 1 /\ x.executed <= ExecutionCap  BY <1>3 DEF InStep
  <1>15. ASSUME ~x.jumped  PROVE OnPlan(items2) /\ Len(items2) = (x.iteration - 1) * PlanLength + x.index
    <2>1. OnPlan(x.items) /\ Len(x.items) = (x.iteration - 1) * PlanLength + x.index - 1
      BY <1>3, <1>15 DEF InStep, Goes
    <2>2. PICK q \in Nat, m \in 0 .. PlanLength - 1 : q = x.iteration - 1 /\ m = x.index - 1
      BY <1>4, RunnerPlan
    <2>3. PlanLength \in Nat \ {0}  BY RunnerPlan
    <2>4. PICK n \in Nat : n = Len(x.items)  BY <1>4
    <2>5. n = q * PlanLength + m
      <3>1. q * PlanLength \in Nat  BY <2>3
      <3> QED  BY <1>4, <2>1, <2>2, <2>3, <2>4, <3>1
    <2>6. n \div PlanLength = q /\ n % PlanLength = m  BY <2>3, <2>5, PlaceInThePlan
    <2>7. Planned(n + 1) = item
      <3>1. (n + 1) - 1 = n  OBVIOUS
      <3>2. Planned(n + 1) = [iteration |-> q + 1, request |-> m + 1]  BY <2>6, <3>1 DEF Planned
      <3> QED  BY <1>4, <2>2, <3>2
    <2>8. \A i \in 1 .. n + 1 : items2[i] = Planned(i)
      <3> SUFFICES ASSUME NEW i \in 1 .. n + 1 PROVE items2[i] = Planned(i)  OBVIOUS
      <3>1. CASE i = n + 1  BY <1>13, <2>4, <2>7, <3>1
      <3>2. CASE i \in 1 .. n  BY <1>13, <2>1, <2>4, <3>2 DEF OnPlan
      <3> QED  BY <3>1, <3>2
    <2>9. OnPlan(items2)  BY <1>13, <2>4, <2>8 DEF OnPlan
    <2>10. Len(items2) = (x.iteration - 1) * PlanLength + x.index
      <3>1. (x.iteration - 1) * PlanLength = q * PlanLength /\ q * PlanLength \in Nat  BY <2>2, <2>3
      <3>2. Len(items2) = q * PlanLength + m + 1 /\ x.index = m + 1  BY <1>4, <1>13, <2>2, <2>4, <2>5, <3>1
      <3> QED  BY <2>2, <3>1, <3>2
    <2> QED  BY <2>9, <2>10
  <1>16. e.executed = Len(e.items) /\ e.executed <= ExecutionCap  BY <1>11, <1>13, <1>14
  <1> QED  BY <1>2, <1>3, <1>8, <1>11, <1>12, <1>15, <1>16

LEMMA FailAndStopKeeps ==
  ASSUME RunnerInv, NEW r \in DOMAIN runs, FailAndStop(r)
  PROVE  RunnerInv'
  <1>1. runs[r].at = "executing" /\ modal' = modal  BY DEF FailAndStop
  <1>2. PICK x, e \in Run : /\ x = runs[r] /\ e = Executed(r) /\ e.executed = Len(e.items) /\ e.executed <= ExecutionCap
    BY <1>1, RequestExecuted
  <1> DEFINE y == [e EXCEPT !.at = "failed"]
  <1>3. y \in Run /\ y.at = "failed" /\ y.executed = e.executed /\ y.items = e.items  BY DEF Run, Ends
  <1>4. runs' = [runs EXCEPT ![r] = y]  BY <1>2 DEF FailAndStop
  <1> HIDE DEF y
  <1>5. Len(e.items) \in Nat  BY DEF Run
  <1>6. InStep(y)  BY <1>2, <1>3, <1>5 DEF InStep, Goes
  <1> QED  BY <1>1, <1>3, <1>4, <1>6, OneRunMovesOn

LEMMA JumpKeeps ==
  ASSUME RunnerInv, NEW r \in DOMAIN runs, NEW target \in 1 .. PlanLength, Jump(r, target)
  PROVE  RunnerInv'
  <1>1. runs[r].at = "executing" /\ modal' = modal  BY DEF Jump
  <1>2. PICK x, e \in Run : /\ x = runs[r] /\ e = Executed(r) /\ e.executed = Len(e.items) /\ e.executed <= ExecutionCap
                            /\ e.locals \subseteq {e.iteration} /\ e.at = "loop"
    BY <1>1, RequestExecuted
  <1> DEFINE z == [e EXCEPT !.index = target]
             y == [z EXCEPT !.jumped = TRUE]
  <1>3. z \in Run /\ z.at = e.at /\ z.executed = e.executed /\ z.items = e.items /\ z.locals = e.locals /\ z.iteration = e.iteration
    BY DEF Run
  <1>4. [e EXCEPT !.index = target, !.jumped = TRUE] = y  OBVIOUS
  <1> HIDE DEF z
  <1>5. y \in Run /\ y.at = z.at /\ y.executed = z.executed /\ y.items = z.items /\ y.locals = z.locals /\ y.iteration = z.iteration
        /\ y.jumped = TRUE
    BY <1>3 DEF Run
  <1>6. runs' = [runs EXCEPT ![r] = y]  
    <2> HIDE DEF y
    <2> QED  BY <1>2, <1>4 DEF Jump
  <1> HIDE DEF y
  <1>7. Len(e.items) \in Nat  BY DEF Run
  <1>8. InStep(y)  BY <1>2, <1>3, <1>5, <1>7 DEF InStep, Goes
  <1> QED  BY <1>1, <1>5, <1>6, <1>8, OneRunMovesOn

LEMMA GoOnKeeps ==
  ASSUME RunnerInv, NEW r \in DOMAIN runs, GoOn(r)
  PROVE  RunnerInv'
  <1>1. runs[r].at = "executing" /\ modal' = modal /\ runs[r].index < PlanLength  BY DEF GoOn
  <1>2. PICK x, e \in Run :
           /\ x = runs[r] /\ e = Executed(r) /\ e.at = "loop" /\ e.iteration = x.iteration
           /\ e.index = x.index /\ e.executed = x.executed /\ e.jumped = x.jumped
           /\ e.locals \subseteq {x.iteration}
           /\ e.executed = Len(e.items) /\ e.executed <= ExecutionCap
           /\ ~x.jumped => OnPlan(e.items) /\ Len(e.items) = (x.iteration - 1) * PlanLength + x.index
    BY <1>1, RequestExecuted
  <1> DEFINE y == [e EXCEPT !.index = e.index + 1]
  <1>3. e.index + 1 \in 1 .. PlanLength /\ e.index \in Nat
    <2>1. e.index \in 1 .. PlanLength  BY DEF Run
    <2> QED  BY <1>1, <1>2, <2>1, RunnerPlan
  <1>4. y \in Run  BY <1>3 DEF Run
  <1>5. /\ y.at = e.at /\ y.executed = e.executed /\ y.items = e.items /\ y.locals = e.locals /\ y.iteration = e.iteration
        /\ y.jumped = e.jumped /\ y.index = e.index + 1
    BY DEF Run
  <1>6. runs' = [runs EXCEPT ![r] = y]  BY <1>2 DEF GoOn
  <1> HIDE DEF y
  <1>7. Len(e.items) \in Nat /\ e.iteration \in Nat /\ e.iteration - 1 \in Nat
    <2>1. e.iteration \in 1 .. Iterations /\ e.items \in Seq(Item)  BY DEF Run
    <2> QED  BY <2>1, RunnerPlan
  <1>8. ~y.jumped => Len(y.items) = (y.iteration - 1) * PlanLength + y.index - 1
    <2>1. (y.iteration - 1) * PlanLength \in Nat  BY <1>5, <1>7, RunnerPlan
    <2> QED  BY <1>2, <1>3, <1>5, <2>1
  <1>9. InStep(y)  BY <1>2, <1>5, <1>7, <1>8 DEF InStep, Goes
  <1> QED  BY <1>1, <1>4, <1>6, <1>9, OneRunMovesOn
LEMMA NextIterationKeeps ==
  ASSUME RunnerInv, NEW r \in DOMAIN runs, NextIteration(r)
  PROVE  RunnerInv'
  <1>1. /\ runs[r].at = "executing" /\ modal' = modal
        /\ runs[r].index = PlanLength /\ runs[r].iteration < Iterations
    BY DEF NextIteration
  <1>2. PICK x, e \in Run :
           /\ x = runs[r] /\ e = Executed(r) /\ e.at = "loop" /\ e.iteration = x.iteration
           /\ e.index = x.index /\ e.executed = x.executed /\ e.jumped = x.jumped
           /\ e.executed = Len(e.items) /\ e.executed <= ExecutionCap
           /\ ~x.jumped => OnPlan(e.items) /\ Len(e.items) = (x.iteration - 1) * PlanLength + x.index
    BY <1>1, RequestExecuted
  <1> DEFINE a == [e EXCEPT !.index = 1]
             b == [a EXCEPT !.iteration = e.iteration + 1]
             y == [b EXCEPT !.locals = {}]
  <1>3. [e EXCEPT !.index = 1, !.iteration = @ + 1, !.locals = {}] = y  OBVIOUS
  <1>4. runs' = [runs EXCEPT ![r] = y]
    <2> HIDE DEF y
    <2> QED  BY <1>2, <1>3 DEF NextIteration
  <1>5. e.iteration + 1 \in 1 .. Iterations /\ e.iteration \in Nat \ {0} /\ Len(e.items) \in Nat
    <2>1. e.iteration \in 1 .. Iterations /\ e.items \in Seq(Item)  BY DEF Run
    <2> QED  BY <1>1, <1>2, <2>1, RunnerPlan
  <1>6. /\ a \in Run /\ a.at = e.at /\ a.executed = e.executed /\ a.items = e.items /\ a.index = 1
        /\ a.jumped = e.jumped
    <2>1. 1 \in 1 .. PlanLength  BY RunnerPlan
    <2> QED  BY <2>1 DEF Run
  <1> HIDE DEF a
  <1>7. /\ b \in Run /\ b.at = e.at /\ b.executed = e.executed /\ b.items = e.items /\ b.index = 1
        /\ b.jumped = e.jumped /\ b.iteration = e.iteration + 1
    BY <1>5, <1>6 DEF Run
  <1> HIDE DEF b
  <1>8. /\ y \in Run /\ y.at = e.at /\ y.executed = e.executed /\ y.items = e.items /\ y.index = 1
        /\ y.jumped = e.jumped /\ y.iteration = e.iteration + 1 /\ y.locals = {}
    BY <1>7 DEF Run
  <1> HIDE DEF y
  <1>9. ~y.jumped => Len(y.items) = (y.iteration - 1) * PlanLength + y.index - 1
    <2>1. SUFFICES ASSUME ~y.jumped  PROVE Len(y.items) = (y.iteration - 1) * PlanLength + y.index - 1  OBVIOUS
    <2>2. PICK q \in Nat : e.iteration = q + 1  BY <1>5
    <2>3. PICK p \in Nat \ {0} : p = PlanLength  BY RunnerPlan
    <2>4. Len(e.items) = q * p + p  BY <1>1, <1>2, <1>8, <2>1, <2>2, <2>3
    <2>5. (y.iteration - 1) * PlanLength = (q + 1) * p  BY <1>8, <2>2, <2>3
    <2>6. (q + 1) * p = q * p + p /\ q * p + p \in Nat  BY <2>3
    <2> QED  BY <1>8, <2>4, <2>5, <2>6
  <1>10. InStep(y)  BY <1>2, <1>5, <1>8, <1>9 DEF InStep, Goes
  <1> QED  BY <1>1, <1>4, <1>8, <1>10, OneRunMovesOn

(* The last request of the last iteration: as many items as the plan has.  *)
LEMMA PlanDoneKeeps ==
  ASSUME RunnerInv, NEW r \in DOMAIN runs, PlanDone(r)
  PROVE  RunnerInv'
  <1>1. /\ runs[r].at = "executing" /\ modal' = modal
        /\ runs[r].index = PlanLength /\ runs[r].iteration = Iterations
    BY DEF PlanDone
  <1>2. PICK x, e \in Run :
           /\ x = runs[r] /\ e = Executed(r) /\ e.executed = x.executed /\ e.jumped = x.jumped
           /\ e.executed = Len(e.items) /\ e.executed <= ExecutionCap
           /\ ~x.jumped => OnPlan(e.items) /\ Len(e.items) = (x.iteration - 1) * PlanLength + x.index
    BY <1>1, RequestExecuted
  <1> DEFINE y == [e EXCEPT !.at = "plan"]
  <1>3. /\ y \in Run /\ y.at = "plan" /\ y.executed = e.executed /\ y.items = e.items /\ y.jumped = e.jumped
    BY DEF Run, Ends
  <1>4. runs' = [runs EXCEPT ![r] = y]  BY <1>2 DEF PlanDone
  <1> HIDE DEF y
  <1>5. e.items \in Seq(Item) /\ Len(e.items) \in Nat
    <2>1. e.items \in Seq(Item)  BY DEF Run
    <2> QED  BY <2>1
  <1>6. ASSUME ~y.jumped  PROVE y.items = WholePlan
    <2>1. PICK q \in Nat : Iterations = q + 1  BY RunnerPlan
    <2>2. PICK p \in Nat \ {0} : p = PlanLength  BY RunnerPlan
    <2>3. Len(e.items) = q * p + p /\ OnPlan(e.items)  BY <1>1, <1>2, <1>3, <1>6, <2>1, <2>2
    <2>4. Iterations * PlanLength = q * p + p  BY <2>1, <2>2
    <2>5. e.items = [i \in 1 .. Len(e.items) |-> e.items[i]]  BY <1>5
    <2>6. \A i \in 1 .. Len(e.items) : e.items[i] = [iteration |-> (i - 1) \div PlanLength + 1, request |-> ((i - 1) % PlanLength) + 1]
      BY <2>3 DEF OnPlan, Planned
    <2>7. e.items = WholePlan
      <3>1. PICK n \in Nat : n = Len(e.items) /\ n = Iterations * PlanLength  BY <1>5, <2>3, <2>4
      <3> QED  BY <2>5, <2>6, <3>1 DEF WholePlan
    <2> QED  BY <1>3, <2>7
  <1>7. InStep(y)  BY <1>2, <1>3, <1>5, <1>6 DEF InStep, Goes
  <1> QED  BY <1>1, <1>3, <1>4, <1>7, OneRunMovesOn

LEMMA RunnerInvariant == RunnerSpec => []RunnerInv
  <1>1. RunnerInv /\ [RunnerNext]_runnerVars => RunnerInv'
    <2> SUFFICES ASSUME RunnerInv, [RunnerNext]_runnerVars  PROVE RunnerInv'  OBVIOUS
    <2>1. CASE OpenRunner \/ CloseRunner \/ StopRun \/ UNCHANGED runnerVars
      <3>1. runs' = runs /\ modal' \in Nat
        BY <2>1 DEF OpenRunner, CloseRunner, StopRun, runnerVars, RunnerInv
      <3> QED  BY <3>1 DEF RunnerInv
    <2>2. CASE \E stopOnError \in BOOLEAN : StartRun(stopOnError)  BY <2>2, StartRunKeeps
    <2>3. CASE \E r \in DOMAIN runs, target \in 1 .. PlanLength : Jump(r, target)  BY <2>3, JumpKeeps
    <2>4. ASSUME NEW r \in DOMAIN runs, Aborts(r) \/ AtCap(r)  PROVE RunnerInv'
      <3>1. PICK why \in {"stopped", "cap"} : runs[r].at = "loop" /\ Finish(r, why)  BY <2>4 DEF Aborts, AtCap
      <3> QED  BY <3>1, EndsKeep DEF Finish
    <2>5. ASSUME NEW r \in DOMAIN runs, Execute(r) \/ FailAndStop(r) \/ GoOn(r) \/ NextIteration(r) \/ PlanDone(r)
          PROVE  RunnerInv'
      BY <2>5, ExecuteKeeps, FailAndStopKeeps, GoOnKeeps, NextIterationKeeps, PlanDoneKeeps
    <2> QED  BY <2>1, <2>2, <2>3, <2>4, <2>5 DEF RunnerNext
  <1> QED  BY <1>1, RunnersStart, PTL DEF RunnerSpec

\* ARunKeepsToItsPlan, for any plan, iterations and ceiling: no run goes past
\* the ceiling, one that never jumped and ends by itself has executed the whole
\* plan in order, and no request sees a local of another iteration.
THEOREM RunsKeepToTheirPlan == RunnerSpec => []ARunKeepsToItsPlan
  <1>1. RunnerInv => ARunKeepsToItsPlan
    <2> SUFFICES ASSUME RunnerInv, NEW r \in DOMAIN runs
                 PROVE  /\ Len(runs[r].items) <= ExecutionCap
                        /\ runs[r].at = "plan" /\ ~runs[r].jumped => runs[r].items = WholePlan
                        /\ runs[r].at = "executing" => runs[r].locals \subseteq {runs[r].iteration}
      BY DEF ARunKeepsToItsPlan
    <2>1. runs \in Seq(Run)  BY DEF RunnerInv
    <2>2. PICK x \in Run : x = runs[r]  BY <2>1
    <2>3. InStep(x)  BY <2>2 DEF RunnerInv
    <2>4. x.items \in Seq(Item) /\ x.executed \in Nat  BY DEF Run
    <2>5. Len(x.items) \in Nat  BY <2>4
    <2>6. Len(x.items) <= ExecutionCap
      <3>1. (x.executed = Len(x.items) \/ x.executed = Len(x.items) + 1) /\ x.executed <= ExecutionCap
        <4>1. x.executed = Len(x.items) + (IF x.at = "executing" THEN 1 ELSE 0) /\ x.executed <= ExecutionCap
          BY <2>3 DEF InStep
        <4>2. PICK n \in Nat : n = Len(x.items)  BY <2>5
        <4>3. CASE x.at = "executing"  BY <4>1, <4>2, <4>3
        <4>4. CASE x.at # "executing"  BY <4>1, <4>2, <4>4
        <4> QED  BY <4>3, <4>4
      <3> QED  BY <2>4, <2>5, <3>1, RunnerPlan
    <2> QED  BY <2>2, <2>3, <2>6 DEF InStep, Goes
  <1> QED  BY <1>1, RunnerInvariant, PTL
\* What the types add to that: a run belongs to a modal that was opened.
RunnerLimits ==
  /\ modal \in 0 .. MaxModals /\ modalOpen \in BOOLEAN /\ (modalOpen => modal # 0)
  /\ abortRef \in [1 .. MaxModals -> BOOLEAN]
  /\ Len(runs) <= MaxRuns /\ \A r \in DOMAIN runs : runs[r].modal \in 1 .. modal
  /\ runnerRunning \in BOOLEAN /\ runnerReport \in 0 .. Len(runs) /\ runnerOps \in 0 .. MaxRunnerOps

LEMMA LimitsOfRuns == RunnerInv /\ RunnerLimits /\ [RunnerNext]_runnerVars => RunnerLimits'
  <1> SUFFICES ASSUME RunnerInv, RunnerLimits, [RunnerNext]_runnerVars  PROVE RunnerLimits'  OBVIOUS
  <1>1. /\ runs \in Seq(Run) /\ Len(runs) \in Nat /\ DOMAIN runs = 1 .. Len(runs)
        /\ \A r \in DOMAIN runs : runs[r] \in Run
        /\ modal \in Nat /\ {MaxRuns, MaxModals, MaxRunnerOps} \subseteq Nat
    BY RunnerPlan DEF RunnerInv
  <1>2. runnerOps' \in 0 .. MaxRunnerOps
    BY <1>1 DEF RunnerNext, runnerVars, RunnerLimits
  <1>3. CASE UNCHANGED runnerVars
    BY <1>3 DEF runnerVars, RunnerLimits
  <1>4. CASE OpenRunner \/ CloseRunner \/ StopRun
    <2> modal \in 0 .. MaxModals /\ runnerRunning \in BOOLEAN /\ modalOpen \in BOOLEAN /\ (modalOpen => modal # 0)
      BY DEF RunnerLimits
    <2>1. runs' = runs /\ runnerReport' = runnerReport /\ runnerRunning' \in BOOLEAN
          /\ modalOpen' \in BOOLEAN /\ modal' \in modal .. MaxModals /\ (modalOpen' => modal' # 0)
      <3>1. CASE OpenRunner  BY <1>1, <3>1 DEF OpenRunner
      <3>2. CASE CloseRunner
        <4>1. UNCHANGED <<runs, runnerReport, modal>> /\ modalOpen' = FALSE /\ runnerRunning' = FALSE  BY <3>2 DEF CloseRunner
        <4>2. modalOpen' \in BOOLEAN /\ runnerRunning' \in BOOLEAN /\ (modalOpen' => modal' # 0)  BY <4>1, Zenon
        <4> QED  BY <1>1, <4>1, <4>2
      <3>3. CASE StopRun  BY <1>1, <3>3 DEF StopRun
      <3> QED  BY <1>4, <3>1, <3>2, <3>3
    <2>2. abortRef' \in [1 .. MaxModals -> BOOLEAN]
      BY <1>4 DEF OpenRunner, CloseRunner, StopRun, RunnerLimits
    <2>3. \A r \in DOMAIN runs' : runs'[r].modal \in 1 .. modal'
      BY <1>1, <2>1 DEF RunnerLimits
    <2> QED  BY <1>1, <1>2, <2>1, <2>2, <2>3 DEF RunnerLimits
  <1>5. ASSUME NEW stopOnError \in BOOLEAN, StartRun(stopOnError)  PROVE RunnerLimits'
    <2> DEFINE y == [modal |-> modal, stopOnError |-> stopOnError, at |-> "loop", iteration |-> 1,
                     index |-> 1, executed |-> 0, items |-> <<>>, jumped |-> FALSE, locals |-> {}]
    <2>1. runs' = Append(runs, y) /\ y.modal = modal  BY <1>5 DEF StartRun
    <2> HIDE DEF y
    <2>2. Len(runs') = Len(runs) + 1 /\ DOMAIN runs' = 1 .. Len(runs) + 1
          /\ runs'[Len(runs) + 1] = y /\ \A r \in 1 .. Len(runs) : runs'[r] = runs[r]
      BY <1>1, <2>1
    <2>3. modal \in 1 .. modal  BY <1>1, <1>5 DEF StartRun, RunnerLimits
    <2>4. \A r \in DOMAIN runs' : runs'[r].modal \in 1 .. modal
      BY <1>1, <2>1, <2>2, <2>3 DEF RunnerLimits
    <2>5. abortRef' \in [1 .. MaxModals -> BOOLEAN]
      BY <1>5 DEF StartRun, RunnerLimits
    <2> QED  BY <1>1, <1>2, <1>5, <2>2, <2>4, <2>5 DEF StartRun, RunnerLimits
  <1>6. ASSUME NEW r \in DOMAIN runs,
               \/ \E target \in 1 .. PlanLength : Jump(r, target)
               \/ Aborts(r) \/ AtCap(r) \/ Execute(r) \/ FailAndStop(r)
               \/ GoOn(r) \/ NextIteration(r) \/ PlanDone(r)
        PROVE  RunnerLimits'
    <2>1. PICK y : runs' = [runs EXCEPT ![r] = y] /\ y.modal = runs[r].modal
      <3>1. PICK x \in Run : x = runs[r]  BY <1>1
      <3>2. ASSUME Aborts(r) \/ AtCap(r)  PROVE \E y : runs' = [runs EXCEPT ![r] = y] /\ y.modal = runs[r].modal
        <4>1. PICK why : runs' = [runs EXCEPT ![r].at = why]  BY <3>2 DEF Aborts, AtCap, Finish
        <4> DEFINE y == [x EXCEPT !.at = why]
        <4>2. y.modal = x.modal  BY DEF Run
        <4>3. runs' = [runs EXCEPT ![r] = y]  BY <1>1, <3>1, <4>1
        <4> HIDE DEF y
        <4> QED  BY <3>1, <4>2, <4>3
      <3>3. ASSUME Execute(r)  PROVE \E y : runs' = [runs EXCEPT ![r] = y] /\ y.modal = runs[r].modal
        <4> DEFINE z == [x EXCEPT !.at = "executing"]
                   y == [z EXCEPT !.executed = x.executed + 1]
        <4>1. runs' = [runs EXCEPT ![r] = [runs[r] EXCEPT !.at = "executing", !.executed = @ + 1]]
          BY <1>1, <3>3 DEF Execute
        <4>2. [x EXCEPT !.at = "executing", !.executed = @ + 1] = y  OBVIOUS
        <4>3. z.modal = x.modal /\ y.modal = z.modal  BY DEF Run
        <4> HIDE DEF y
        <4> QED  BY <3>1, <4>1, <4>2, <4>3
      <3>4. ASSUME runs[r].at = "executing"
            PROVE  \E e \in Run : e = Executed(r) /\ e.modal = runs[r].modal
        BY <3>4, RequestExecuted
      <3>5. ASSUME FailAndStop(r) \/ PlanDone(r) \/ GoOn(r)
            PROVE  \E y : runs' = [runs EXCEPT ![r] = y] /\ y.modal = runs[r].modal
        <4>1. PICK e \in Run : e = Executed(r) /\ e.modal = runs[r].modal
          BY <3>4, <3>5 DEF FailAndStop, PlanDone, GoOn
        <4>2. \/ \E why : runs' = [runs EXCEPT ![r] = [e EXCEPT !.at = why]]
              \/ \E target : runs' = [runs EXCEPT ![r] = [e EXCEPT !.index = target]]
          BY <3>5, <4>1 DEF FailAndStop, PlanDone, GoOn
        <4>3. \A v : [e EXCEPT !.at = v].modal = e.modal /\ [e EXCEPT !.index = v].modal = e.modal  BY DEF Run
        <4>4. CASE \E why : runs' = [runs EXCEPT ![r] = [e EXCEPT !.at = why]]
          <5>1. PICK why : runs' = [runs EXCEPT ![r] = [e EXCEPT !.at = why]]  BY <4>4
          <5> QED  BY <4>1, <4>3, <5>1
        <4>5. CASE \E target : runs' = [runs EXCEPT ![r] = [e EXCEPT !.index = target]]
          <5>1. PICK target : runs' = [runs EXCEPT ![r] = [e EXCEPT !.index = target]]  BY <4>5
          <5> QED  BY <4>1, <4>3, <5>1
        <4> QED  BY <4>2, <4>4, <4>5
      <3>6. ASSUME NEW target \in 1 .. PlanLength, Jump(r, target)
            PROVE  \E y : runs' = [runs EXCEPT ![r] = y] /\ y.modal = runs[r].modal
        <4>1. PICK e \in Run : e = Executed(r) /\ e.modal = runs[r].modal  BY <3>4, <3>6 DEF Jump
        <4> DEFINE z == [e EXCEPT !.index = target]
                   y == [z EXCEPT !.jumped = TRUE]
        <4>2. [e EXCEPT !.index = target, !.jumped = TRUE] = y  OBVIOUS
        <4>3. z.modal = e.modal /\ y.modal = z.modal  BY DEF Run
        <4> HIDE DEF y
        <4> QED  BY <3>6, <4>1, <4>2, <4>3 DEF Jump
      <3>7. ASSUME NextIteration(r)  PROVE \E y : runs' = [runs EXCEPT ![r] = y] /\ y.modal = runs[r].modal
        <4>1. PICK e \in Run : e = Executed(r) /\ e.modal = runs[r].modal  BY <3>4, <3>7 DEF NextIteration
        <4> DEFINE w == [e EXCEPT !.index = 1]
                   z == [w EXCEPT !.iteration = e.iteration + 1]
                   y == [z EXCEPT !.locals = {}]
        <4>2. [e EXCEPT !.index = 1, !.iteration = @ + 1, !.locals = {}] = y  BY DEF Run
        <4>3. w.modal = e.modal /\ z.modal = w.modal /\ y.modal = z.modal  BY DEF Run
        <4> HIDE DEF y
        <4> QED  BY <3>7, <4>1, <4>2, <4>3 DEF NextIteration
      <3> QED  BY <1>6, <3>2, <3>3, <3>5, <3>6, <3>7
    <2>2. Len(runs') = Len(runs) /\ DOMAIN runs' = DOMAIN runs
          /\ \A i \in DOMAIN runs : runs'[i].modal = runs[i].modal
      BY <1>1, <2>1
    <2>3. runnerReport \in 0 .. Len(runs) /\ r \in 0 .. Len(runs) /\ runnerRunning \in BOOLEAN
      BY <1>1 DEF RunnerLimits
    <2>4. /\ UNCHANGED <<modal, modalOpen, abortRef>>
          /\ runnerRunning' \in {runnerRunning, FALSE} /\ runnerReport' \in {runnerReport, r}
      BY <1>6 DEF Jump, Aborts, AtCap, Finish, Execute, FailAndStop, GoOn, NextIteration, PlanDone
    <2> QED  BY <1>1, <1>2, <2>2, <2>3, <2>4 DEF RunnerLimits
  <1> QED  BY <1>3, <1>4, <1>5, <1>6 DEF RunnerNext

\* The modal, its runs and what the store keeps of them keep their types: a run is of
\* a modal that was opened, the report of a run that was begun, and no run executes
\* more than the ceiling.
THEOREM RunsWellTyped == RunnerSpec => []RunnerTypeOK
  <1>1. RunnerInit => RunnerLimits
    <2> SUFFICES ASSUME RunnerInit  PROVE RunnerLimits  OBVIOUS
    <2>1. {MaxRuns, MaxModals, MaxRunnerOps} \subseteq Nat  BY RunnerPlan
    <2>2. runs = <<>> /\ Len(runs) = 0 /\ DOMAIN runs = {}  BY DEF RunnerInit
    <2>3. abortRef \in [1 .. MaxModals -> BOOLEAN]  BY DEF RunnerInit
    <2>4. modal = 0 /\ modalOpen = FALSE /\ runnerRunning = FALSE /\ runnerReport = 0 /\ runnerOps = 0  BY DEF RunnerInit
    <2>5. modalOpen \in BOOLEAN /\ runnerRunning \in BOOLEAN /\ (modalOpen => modal # 0)  BY <2>4, Zenon
    <2> QED  BY <2>1, <2>2, <2>3, <2>4, <2>5 DEF RunnerLimits
  <1>2. RunnerInv /\ RunnerLimits => RunnerTypeOK
    <2> SUFFICES ASSUME RunnerInv, RunnerLimits  PROVE RunnerTypeOK  OBVIOUS
    <2>1. ASSUME NEW r \in DOMAIN runs
          PROVE  /\ runs[r].at \in {"loop", "executing"} \cup Ends /\ runs[r].executed \in 0 .. ExecutionCap
                 /\ \A i \in DOMAIN runs[r].items : runs[r].items[i] \in Item
      <3>1. runs \in Seq(Run) /\ InStep(runs[r])  BY DEF RunnerInv
      <3>2. PICK x \in Run : x = runs[r]  BY <3>1
      <3>3. x.executed <= ExecutionCap /\ ExecutionCap \in Nat  BY <3>1, <3>2, RunnerPlan DEF InStep
      <3>4. x.at \in {"loop", "executing"} \cup Ends /\ x.executed \in Nat /\ x.items \in Seq(Item)  BY DEF Run
      <3>5. \A i \in DOMAIN x.items : x.items[i] \in Item  BY <3>4
      <3> QED  BY <3>2, <3>3, <3>4, <3>5
    <2> QED  BY <2>1 DEF RunnerLimits, RunnerTypeOK
  <1>3. RunnerSpec => []RunnerLimits
    BY <1>1, LimitsOfRuns, RunnerInvariant, PTL DEF RunnerSpec
  <1> QED  BY <1>2, <1>3, RunnerInvariant, PTL

------------------------------------------------------------------------------
(* Of Workbench.                                                           *)

OneTab == [req : Requests \cup {Nil}, draft : Drafts, dirty : BOOLEAN, raced : BOOLEAN]
TabList == UNION {[D -> OneTab] : D \in SUBSET TabIds}
Row == [ws : Workspaces, spec : Drafts]
RowTable == UNION {[D -> Row] : D \in SUBSET Requests}
Shown == UNION {[D -> Drafts] : D \in SUBSET Requests}
SaveCall == [kind : {"save"}, tab : TabIds, req : Requests, draft : Drafts, new : BOOLEAN]
DeleteCall == [kind : {"delete"}, req : Requests]
LoadCall == [kind : {"load"}, ws : Workspaces, raw : TabList, asked : BOOLEAN, rows : Shown]
Call == SaveCall \cup DeleteCall \cup LoadCall

\* A list of tabs of workspace w, against the rows there are.
Fits(list, w, table, except) ==
  /\ \A i \in DOMAIN list : list[i].req \in DOMAIN table \ except =>
       /\ table[list[i].req].ws = w
       /\ ~list[i].dirty /\ ~list[i].raced => list[i].draft = table[list[i].req].spec
  /\ \A i, j \in DOMAIN list : list[i].req = list[j].req => i = j \/ list[i].req \in except \cup {Nil}
Mentions(list, q) == \E i \in DOMAIN list : list[i].req = q

Saves(queue, k, q) == queue[k].kind = "save" /\ queue[k].req = q
SavedAfter(queue, k, q) == \E l \in DOMAIN queue : k < l /\ Saves(queue, l, q)
Outwritten(queue, k, q, draft) == \E l \in DOMAIN queue : k < l /\ Saves(queue, l, q) /\ queue[l].draft # draft
DeletedAfter(queue, k, q) == \E l \in DOMAIN queue : k < l /\ queue[l].kind = "delete" /\ queue[l].req = q

\* What is on screen of w is what the table has, or is about to be.
TreeFits(shownTree, w, table, except, queue) ==
  \A q \in (DOMAIN shownTree \cap DOMAIN table) \ except :
    table[q].ws = w /\ (shownTree[q] = table[q].spec \/ SavedAfter(queue, 0, q))

LoadFits(queue, k, table, except) ==
  queue[k].kind = "load" =>
    /\ Fits(queue[k].raw, queue[k].ws, table, except)
    /\ \A q \in DOMAIN queue[k].rows :
         IF q \in DOMAIN table
         THEN table[q].ws = queue[k].ws /\ (queue[k].rows[q] = table[q].spec \/ SavedAfter(queue, k, q))
         ELSE DeletedAfter(queue, k, q)
\* Unless another draft is saved after it, a row is as a save under way wrote it.
SaveFits(queue, k, table) ==
  queue[k].kind = "save" =>
    (queue[k].req \in DOMAIN table /\ ~Outwritten(queue, k, queue[k].req, queue[k].draft) =>
       table[queue[k].req].spec = queue[k].draft)
\* Nothing mentions a new request before its save is answered.
NewIsUnknown(queue, k, list, lists, shownTree) ==
  queue[k].kind = "save" /\ queue[k].new =>
    /\ queue[k].req \notin DOMAIN shownTree /\ ~Mentions(list, queue[k].req)
    /\ \A w \in Workspaces : ~Mentions(lists[w], queue[k].req)
    /\ \A l \in DOMAIN queue :
         /\ Saves(queue, l, queue[k].req) => l = k
         /\ queue[l].kind = "load" =>
              ~Mentions(queue[l].raw, queue[k].req) /\ (l < k => queue[k].req \notin DOMAIN queue[l].rows)

BenchShapes ==
  /\ ws \in Workspaces /\ tabs \in TabList /\ blob \in [Workspaces -> TabList]
  /\ rows \in RowTable /\ tree \in Shown /\ calls \in Seq(Call) /\ crossed \subseteq Requests
QueueInv(queue, table, except, list, lists, shownTree) ==
  \A k \in DOMAIN queue :
    /\ LoadFits(queue, k, table, except) /\ SaveFits(queue, k, table)
    /\ NewIsUnknown(queue, k, list, lists, shownTree)
BenchInv ==
  /\ BenchShapes
  /\ Fits(tabs, ws, rows, crossed) /\ \A w \in Workspaces \ {ws} : Fits(blob[w], w, rows, crossed)
  /\ TreeFits(tree, ws, rows, crossed, calls)
  /\ QueueInv(calls, rows, crossed, tabs, blob, tree)

LEMMA ListIs ==
  ASSUME NEW list \in TabList
  PROVE  DOMAIN list \subseteq TabIds /\ list = [i \in DOMAIN list |-> list[i]] /\ \A i \in DOMAIN list : list[i] \in OneTab
<1>1. PICK D \in SUBSET TabIds : list \in [D -> OneTab]
  BY DEF TabList
<1> QED
  BY <1>1

LEMMA TreeIs ==
  ASSUME NEW t \in Shown
  PROVE  DOMAIN t \subseteq Requests /\ t = [q \in DOMAIN t |-> t[q]] /\ \A q \in DOMAIN t : t[q] \in Drafts
<1>1. PICK D \in SUBSET Requests : t \in [D -> Drafts]
  BY DEF Shown
<1> QED
  BY <1>1

LEMMA TableIs ==
  ASSUME NEW t \in RowTable
  PROVE  DOMAIN t \subseteq Requests /\ t = [q \in DOMAIN t |-> t[q]] /\ \A q \in DOMAIN t : t[q] \in Row
<1>1. PICK D \in SUBSET Requests : t \in [D -> Row]
  BY DEF RowTable
<1> QED
  BY <1>1

LEMMA NoList == <<>> \in TabList /\ <<>> \in Shown /\ DOMAIN <<>> = {}
<1>1. <<>> = [i \in {} |-> i] /\ DOMAIN <<>> = {}
  OBVIOUS
<1>2. <<>> \in [{} -> OneTab] /\ <<>> \in [{} -> Drafts]
  BY <1>1
<1>3. {} \in SUBSET TabIds /\ {} \in SUBSET Requests
  OBVIOUS
<1> QED
  BY <1>1, <1>2, <1>3 DEF TabList, Shown

LEMMA NilIsNone == Nil \notin Requests
BY WorkbenchConstants DEF Requests

LEMMA NoEdits == 0 \in Drafts
BY WorkbenchConstants DEF Drafts

(* ------------------------------- the queue ------------------------------- *)

\* t is s without its first d calls, and perhaps with another at its end.
Follows(s, t, d) ==
  /\ DOMAIN s \subseteq Nat \ {0} /\ DOMAIN t \subseteq Nat \ {0}
  /\ \A k \in DOMAIN s : k > d => k - d \in DOMAIN t /\ t[k - d] = s[k]
  /\ \A k \in DOMAIN t : k + d \in DOMAIN s \/ \A l \in DOMAIN t : l <= k

LEMMA QueueAppended ==
  ASSUME NEW s \in Seq(Call), NEW c \in Call
  PROVE  /\ Append(s, c) \in Seq(Call) /\ Follows(s, Append(s, c), 0)
         /\ Append(s, c)[Len(s) + 1] = c /\ Len(s) + 1 \in DOMAIN Append(s, c)
         /\ DOMAIN Append(s, c) = DOMAIN s \cup {Len(s) + 1}
         /\ \A k \in DOMAIN s : k \in Nat /\ k < Len(s) + 1 /\ Append(s, c)[k] = s[k]
<1>1. Append(s, c) \in Seq(Call) /\ Len(Append(s, c)) = Len(s) + 1
  BY AppendProperties
<1>2. Append(s, c)[Len(s) + 1] = c /\ \A k \in 1 .. Len(s) : Append(s, c)[k] = s[k]
  BY AppendProperties
<1>3. Len(s) \in Nat /\ DOMAIN s = 1 .. Len(s) /\ DOMAIN Append(s, c) = 1 .. Len(Append(s, c))
  BY <1>1, LenProperties
<1> DEFINE n == Len(s)
           t == Append(s, c)
<1> HIDE DEF n, t
<1>4. n \in Nat /\ DOMAIN s = 1 .. n /\ DOMAIN t = 1 .. n + 1 /\ t[n + 1] = c /\ \A k \in 1 .. n : t[k] = s[k]
  BY <1>1, <1>2, <1>3 DEF n, t
<1>5. Follows(s, t, 0)
  BY <1>4 DEF Follows
<1>6. DOMAIN t = DOMAIN s \cup {n + 1} /\ \A k \in DOMAIN s : k \in Nat /\ k < n + 1 /\ t[k] = s[k]
  BY <1>4
<1> QED
  BY <1>1, <1>4, <1>5, <1>6 DEF n, t

LEMMA QueueAnswered ==
  ASSUME NEW s \in Seq(Call), s # <<>>
  PROVE  /\ Tail(s) \in Seq(Call) /\ Follows(s, Tail(s), 1) /\ Head(s) = s[1] /\ 1 \in DOMAIN s /\ s[1] \in Call
         /\ \A k \in DOMAIN Tail(s) : k + 1 \in DOMAIN s
<1>1. /\ Tail(s) \in Seq(Call) /\ Len(Tail(s)) = Len(s) - 1 /\ Head(s) \in Call
      /\ \A i \in 1 .. Len(Tail(s)) : Tail(s)[i] = s[i+1]
  BY HeadTailProperties
<1>2. Len(s) \in Nat /\ DOMAIN s = 1 .. Len(s) /\ DOMAIN Tail(s) = 1 .. Len(Tail(s))
  BY <1>1, LenProperties
<1>3. Len(s) # 0 /\ Head(s) = s[1]
  BY <1>2, EmptySeq
<1> DEFINE n == Len(s)
           t == Tail(s)
<1> HIDE DEF n, t
<1>4. n \in Nat /\ n # 0 /\ DOMAIN s = 1 .. n /\ DOMAIN t = 1 .. n - 1 /\ \A k \in 1 .. n - 1 : t[k] = s[k + 1]
  BY <1>1, <1>2, <1>3 DEF n, t
<1>5. \A k \in 1 .. n : k > 1 => k - 1 \in 1 .. n - 1 /\ t[k - 1] = s[k]
  <2> SUFFICES ASSUME NEW k \in 1 .. n, k > 1 PROVE k - 1 \in 1 .. n - 1 /\ t[k - 1] = s[k]
    OBVIOUS
  <2>1. k - 1 \in 1 .. n - 1 /\ (k - 1) + 1 = k
    BY <1>4
  <2> QED
    BY <1>4, <2>1
<1>6. Follows(s, t, 1)
  BY <1>4, <1>5 DEF Follows
<1>7. 1 \in DOMAIN s /\ \A k \in DOMAIN t : k + 1 \in DOMAIN s
  BY <1>4
<1> QED
  BY <1>1, <1>3, <1>6, <1>7 DEF n, t

LEMMA Later ==
  ASSUME NEW s, NEW t, NEW d \in Nat, Follows(s, t, d), NEW k \in Nat, NEW q
  PROVE  /\ SavedAfter(s, k + d, q) => SavedAfter(t, k, q)
         /\ \A draft : Outwritten(s, k + d, q, draft) => Outwritten(t, k, q, draft)
         /\ DeletedAfter(s, k + d, q) => DeletedAfter(t, k, q)
<1>1. ASSUME NEW l \in DOMAIN s, k + d < l PROVE l - d \in DOMAIN t /\ k < l - d /\ t[l - d] = s[l]
  <2>1. l \in Nat /\ l > d
    BY <1>1 DEF Follows
  <2> QED
    BY <1>1, <2>1 DEF Follows
<1> QED
  BY <1>1 DEF SavedAfter, Outwritten, DeletedAfter, Saves

\* What the new requests under way to their first answer are not in.
Unseen(queue, d, list, lists, shownTree) ==
  \A k \in DOMAIN queue : k > d /\ queue[k].kind = "save" /\ queue[k].new =>
    /\ queue[k].req \notin DOMAIN shownTree /\ ~Mentions(list, queue[k].req)
    /\ \A w \in Workspaces : ~Mentions(lists[w], queue[k].req)
\* What t has more than s is a load of what there is.
OnlyLoads(s, t, d, table, except) ==
  \A k \in DOMAIN t : k + d \notin DOMAIN s =>
    /\ t[k].kind = "load" /\ LoadFits(t, k, table, except)
    /\ \A l \in DOMAIN s : l > d /\ s[l].kind = "save" /\ s[l].new => ~Mentions(t[k].raw, s[l].req)

LEMMA FitsExcept ==
  ASSUME NEW list, NEW w, NEW table, NEW ex, NEW ex2, ex \subseteq ex2, Fits(list, w, table, ex)
  PROVE  Fits(list, w, table, ex2)
BY DEF Fits

LEMMA QueueMoves ==
  ASSUME NEW s, NEW t, NEW d \in Nat, Follows(s, t, d),
         NEW table, NEW ex, NEW ex2, NEW list, NEW lists, NEW tr, NEW list2, NEW lists2, NEW tr2,
         ex \subseteq ex2, QueueInv(s, table, ex, list, lists, tr),
         Unseen(s, d, list2, lists2, tr2), OnlyLoads(s, t, d, table, ex2)
  PROVE  QueueInv(t, table, ex2, list2, lists2, tr2)
<1> SUFFICES ASSUME NEW k \in DOMAIN t
    PROVE  LoadFits(t, k, table, ex2) /\ SaveFits(t, k, table) /\ NewIsUnknown(t, k, list2, lists2, tr2)
  BY DEF QueueInv
<1>1. CASE k + d \notin DOMAIN s
  BY <1>1 DEF OnlyLoads, SaveFits, NewIsUnknown
<1>2. CASE k + d \in DOMAIN s
  <2>1. k \in Nat /\ k + d > d /\ (k + d) - d = k
    BY DEF Follows
  <2>2. t[k] = s[k + d]
    BY <1>2, <2>1 DEF Follows
  <2>3. LoadFits(s, k + d, table, ex) /\ SaveFits(s, k + d, table) /\ NewIsUnknown(s, k + d, list, lists, tr)
    BY <1>2 DEF QueueInv
  <2>4. \A q : /\ SavedAfter(s, k + d, q) => SavedAfter(t, k, q)
               /\ \A draft : Outwritten(s, k + d, q, draft) => Outwritten(t, k, q, draft)
               /\ DeletedAfter(s, k + d, q) => DeletedAfter(t, k, q)
    BY <2>1, Later
  <2>5. LoadFits(t, k, table, ex2)
    BY <2>2, <2>3, <2>4, FitsExcept DEF LoadFits
  <2>6. SaveFits(t, k, table)
    BY <2>2, <2>3, <2>4 DEF SaveFits
  <2>7. ASSUME t[k].kind = "save", t[k].new, NEW l \in DOMAIN t
        PROVE  /\ Saves(t, l, t[k].req) => l = k
               /\ t[l].kind = "load" =>
                    ~Mentions(t[l].raw, t[k].req) /\ (l < k => t[k].req \notin DOMAIN t[l].rows)
    <3>1. CASE l + d \notin DOMAIN s
      <4>1. k <= l
        BY <3>1 DEF Follows
      <4> QED
        BY <1>2, <2>1, <2>2, <2>7, <3>1, <4>1 DEF OnlyLoads, Saves, Follows
    <3>2. CASE l + d \in DOMAIN s
      <4>1. l \in Nat /\ l + d > d /\ (l + d) - d = l
        BY DEF Follows
      <4>2. t[l] = s[l + d]
        BY <3>2, <4>1 DEF Follows
      <4>3. /\ Saves(s, l + d, t[k].req) => l + d = k + d
            /\ s[l + d].kind = "load" =>
                 ~Mentions(s[l + d].raw, t[k].req) /\ (l + d < k + d => t[k].req \notin DOMAIN s[l + d].rows)
        BY <2>2, <2>3, <2>7, <3>2 DEF NewIsUnknown
      <4> QED
        BY <2>1, <4>1, <4>2, <4>3 DEF Saves
    <3> QED
      BY <3>1, <3>2
  <2>8. NewIsUnknown(t, k, list2, lists2, tr2)
    BY <1>2, <2>1, <2>2, <2>7 DEF NewIsUnknown, Unseen
  <2> QED
    BY <2>5, <2>6, <2>8
<1> QED
  BY <1>1, <1>2

LEMMA ListMade ==
  ASSUME NEW list, list = [i \in DOMAIN list |-> list[i]],
         DOMAIN list \subseteq TabIds, \A i \in DOMAIN list : list[i] \in OneTab
  PROVE  list \in TabList
<1>1. list \in [DOMAIN list -> OneTab]
  OBVIOUS
<1> QED
  BY <1>1 DEF TabList

LEMMA TreeMade ==
  ASSUME NEW t, t = [q \in DOMAIN t |-> t[q]],
         DOMAIN t \subseteq Requests, \A q \in DOMAIN t : t[q] \in Drafts
  PROVE  t \in Shown
<1>1. t \in [DOMAIN t -> Drafts]
  OBVIOUS
<1> QED
  BY <1>1 DEF Shown

LEMMA TableMade ==
  ASSUME NEW t, t = [q \in DOMAIN t |-> t[q]],
         DOMAIN t \subseteq Requests, \A q \in DOMAIN t : t[q] \in Row
  PROVE  t \in RowTable
<1>1. t \in [DOMAIN t -> Row]
  OBVIOUS
<1> QED
  BY <1>1 DEF RowTable

LEMMA CallIs ==
  ASSUME NEW queue \in Seq(Call), NEW k \in DOMAIN queue
  PROVE  /\ k \in Nat /\ k > 0 /\ queue[k] \in Call
         /\ queue[k].kind = "save" => queue[k] \in SaveCall
         /\ queue[k].kind = "delete" => queue[k] \in DeleteCall
         /\ queue[k].kind = "load" => queue[k] \in LoadCall
<1>1. k \in Nat /\ k > 0 /\ queue[k] \in Call
  BY LenProperties
<1> QED
  BY <1>1 DEF Call, SaveCall, DeleteCall, LoadCall

LEMMA SameQueue ==
  ASSUME BenchInv, NEW ex
  PROVE  Follows(calls, calls, 0) /\ OnlyLoads(calls, calls, 0, rows, ex)
<1>1. calls \in Seq(Call)
  BY DEF BenchInv, BenchShapes
<1>2. \A k \in DOMAIN calls : k \in Nat /\ k > 0
  BY <1>1, CallIs
<1> QED
  BY <1>2 DEF Follows, OnlyLoads

\* What is on screen changes, and is perhaps written to the settings.
LEMMA ListKeeps ==
  ASSUME BenchInv, NEW list \in TabList,
         PersistNow(list) \/ (tabs' = list /\ UNCHANGED blob),
         UNCHANGED <<ws, rows, tree, calls, crossed>>, Fits(list, ws, rows, crossed),
         \A i \in DOMAIN list : list[i].req = Nil \/ Mentions(tabs, list[i].req) \/ list[i].req \in DOMAIN tree
  PROVE  BenchInv'
<1>1. BenchShapes /\ tabs' = list /\ \A w \in Workspaces : blob'[w] = blob[w] \/ blob'[w] = list
  BY DEF PersistNow, BenchInv, BenchShapes
<1>2. BenchShapes'
  BY <1>1 DEF BenchShapes, PersistNow
<1>3. \A w \in Workspaces \ {ws} : blob'[w] = blob[w]
  BY <1>1 DEF PersistNow, BenchShapes
<1>4. Unseen(calls, 0, tabs', blob', tree')
  <2> SUFFICES ASSUME NEW k \in DOMAIN calls, calls[k].kind = "save", calls[k].new
      PROVE  /\ calls[k].req \notin DOMAIN tree' /\ ~Mentions(tabs', calls[k].req)
             /\ \A w \in Workspaces : ~Mentions(blob'[w], calls[k].req)
    BY DEF Unseen
  <2>1. calls[k].req \in Requests
    BY <1>1, CallIs DEF BenchShapes, SaveCall
  <2>2. NewIsUnknown(calls, k, tabs, blob, tree)
    BY DEF BenchInv, QueueInv
  <2>3. ~Mentions(list, calls[k].req)
    BY <2>1, <2>2, NilIsNone DEF NewIsUnknown, Mentions
  <2> QED
    BY <1>1, <2>2, <2>3 DEF NewIsUnknown
<1>5. QueueInv(calls', rows', crossed', tabs', blob', tree')
  BY <1>4, SameQueue, QueueMoves DEF BenchInv
<1> QED
  BY <1>1, <1>2, <1>3, <1>5 DEF BenchInv

LEMMA NewTabsAreFree == \A i \in NewTabs : i \in TabIds /\ i \notin DOMAIN tabs
BY DEF NewTabs, TabLists

LEMMA OpenTabKeeps ==
  ASSUME BenchInv, NEW q \in Requests \cup {Nil}, NEW draft \in Drafts, OpenTab(q, draft),
         q # Nil => q \in DOMAIN tree /\ draft = tree[q] /\ ~Mentions(tabs, q)
  PROVE  BenchInv'
<1>1. PICK i \in NewTabs :
        /\ PersistNow(With(tabs, i, [req |-> q, draft |-> draft, dirty |-> FALSE, raced |-> Writing(q)]))
        /\ UNCHANGED <<ws, shown, rows, tree, calls, crossed>>
  BY DEF OpenTab
<1> DEFINE tab == [req |-> q, draft |-> draft, dirty |-> FALSE, raced |-> Writing(q)]
           list == With(tabs, i, tab)
<1>2. BenchShapes /\ i \in TabIds /\ i \notin DOMAIN tabs
  BY <1>1, NewTabsAreFree DEF BenchInv
<1>3. tabs \in TabList
  BY <1>2 DEF BenchShapes
<1>4. Writing(q) \in BOOLEAN
  BY DEF Writing
<1>5. tab \in OneTab
  BY <1>4 DEF OneTab
<1>6. /\ DOMAIN list = DOMAIN tabs \cup {i} /\ list = [j \in DOMAIN list |-> list[j]]
      /\ list[i] = tab /\ \A j \in DOMAIN tabs : j # i /\ list[j] = tabs[j]
  BY <1>2 DEF With
<1> HIDE DEF list
<1>7. list \in TabList
  BY <1>2, <1>3, <1>5, <1>6, ListIs, ListMade
<1>8. Fits(list, ws, rows, crossed)
  <2>1. Fits(tabs, ws, rows, crossed) /\ TreeFits(tree, ws, rows, crossed, calls)
    BY DEF BenchInv
  <2>2. ASSUME q \in DOMAIN rows \ crossed
        PROVE  rows[q].ws = ws /\ (~tab.dirty /\ ~tab.raced => tab.draft = rows[q].spec)
    <3>1. q # Nil
      BY <1>2, <2>2, TableIs, NilIsNone DEF BenchShapes
    <3>2. rows[q].ws = ws /\ (draft = rows[q].spec \/ SavedAfter(calls, 0, q))
      BY <2>1, <2>2, <3>1 DEF TreeFits
    <3>3. SavedAfter(calls, 0, q) => Writing(q)
      BY DEF SavedAfter, Saves, Writing, InFlight
    <3> QED
      BY <3>2, <3>3
  <2>3. \A j \in DOMAIN list : list[j].req \in DOMAIN rows \ crossed =>
          /\ rows[list[j].req].ws = ws
          /\ ~list[j].dirty /\ ~list[j].raced => list[j].draft = rows[list[j].req].spec
    BY <1>6, <2>1, <2>2 DEF Fits
  <2>4. \A j, l \in DOMAIN list : list[j].req = list[l].req => j = l \/ list[j].req \in crossed \cup {Nil}
    BY <1>6, <2>1 DEF Fits, Mentions
  <2> QED
    BY <2>3, <2>4 DEF Fits
<1>9. \A j \in DOMAIN list : list[j].req = Nil \/ Mentions(tabs, list[j].req) \/ list[j].req \in DOMAIN tree
  BY <1>6 DEF Mentions
<1>10. PersistNow(list)
  BY <1>1 DEF list
<1> QED
  BY <1>1, <1>7, <1>8, <1>9, <1>10, ListKeeps

LEMMA OpeningKeeps ==
  ASSUME BenchInv, OpenScratchTab \/ \E q \in Requests : OpenRequest(q)
  PROVE  BenchInv'
<1>1. CASE OpenScratchTab
  BY <1>1, NoEdits, OpenTabKeeps DEF OpenScratchTab
<1>2. ASSUME NEW q \in Requests, OpenRequest(q) PROVE BenchInv'
  <2>1. tree[q] \in Drafts /\ q \in DOMAIN tree /\ ~Mentions(tabs, q)
    BY <1>2, TreeIs DEF OpenRequest, BenchInv, BenchShapes, Mentions
  <2> QED
    BY <1>2, <2>1, OpenTabKeeps, NilIsNone DEF OpenRequest
<1> QED
  BY <1>1, <1>2

LEMMA EditingKeeps ==
  ASSUME BenchInv, NEW i \in DOMAIN tabs, CloseTab(i) \/ UpdateDraft(i), UNCHANGED calls
  PROVE  BenchInv'
<1>1. tabs \in TabList /\ Fits(tabs, ws, rows, crossed) /\ BenchShapes
  BY DEF BenchInv, BenchShapes
<1>2. DOMAIN tabs \subseteq TabIds /\ \A j \in DOMAIN tabs : tabs[j] \in OneTab
  BY <1>1, ListIs
<1>3. CASE CloseTab(i)
  <2> DEFINE list == Without(tabs, i)
  <2>1. /\ DOMAIN list = DOMAIN tabs \ {i} /\ list = [j \in DOMAIN list |-> list[j]]
        /\ \A j \in DOMAIN list : j \in DOMAIN tabs /\ list[j] = tabs[j]
    BY DEF Without
  <2> HIDE DEF list
  <2>2. list \in TabList
    BY <1>2, <2>1, ListMade
  <2>3. Fits(list, ws, rows, crossed)
    BY <1>1, <2>1 DEF Fits
  <2>4. PersistNow(list) /\ UNCHANGED <<ws, rows, tree, calls, crossed>>
    BY <1>3 DEF CloseTab, list
  <2>5. \A j \in DOMAIN list : Mentions(tabs, list[j].req)
    BY <2>1 DEF Mentions
  <2> QED
    BY <2>2, <2>3, <2>4, <2>5, ListKeeps
<1>4. CASE UpdateDraft(i)
  <2> DEFINE list == [tabs EXCEPT ![i].draft = @ + 1, ![i].dirty = TRUE, ![i].raced = FALSE]
  <2>1. /\ DOMAIN list = DOMAIN tabs /\ list = [j \in DOMAIN list |-> list[j]]
        /\ \A j \in DOMAIN tabs : j # i => list[j] = tabs[j]
    BY <1>1, ListIs
  <2>2. list[i].req = tabs[i].req /\ list[i].dirty /\ list[i] \in OneTab
    <3>1. list[i] = [tabs[i] EXCEPT !.draft = @ + 1, !.dirty = TRUE, !.raced = FALSE]
      BY <1>1, ListIs
    <3> HIDE DEF list
    <3>2. tabs[i] \in OneTab
      BY <1>2
    <3>3. list[i] = [req |-> tabs[i].req, draft |-> tabs[i].draft + 1, dirty |-> TRUE, raced |-> FALSE]
      BY <3>1, <3>2 DEF OneTab
    <3>4. tabs[i].req \in Requests \cup {Nil} /\ tabs[i].draft + 1 \in Drafts
      BY <1>4, <3>2, WorkbenchConstants DEF OneTab, Drafts, UpdateDraft
    <3>5. list[i].req = tabs[i].req /\ list[i].dirty
      BY <3>3
    <3> QED
      BY <3>3, <3>4, <3>5 DEF OneTab
  <2> HIDE DEF list
  <2>3. list \in TabList
    BY <1>2, <2>1, <2>2, ListMade
  <2>4. \A j \in DOMAIN tabs : list[j].req = tabs[j].req /\ (list[j].dirty \/ list[j] = tabs[j])
    BY <2>1, <2>2
  <2>5. Fits(list, ws, rows, crossed)
    BY <1>1, <2>1, <2>4 DEF Fits
  <2>6. tabs' = list /\ UNCHANGED <<blob, ws, rows, tree, calls, crossed>>
    BY <1>4 DEF UpdateDraft, list
  <2>7. \A j \in DOMAIN list : Mentions(tabs, list[j].req)
    BY <2>1, <2>4 DEF Mentions
  <2> QED
    BY <2>3, <2>5, <2>6, <2>7, ListKeeps
<1> QED
  BY <1>3, <1>4

LEMMA DebounceKeeps ==
  ASSUME BenchInv, DebounceFires
  PROVE  BenchInv'
<1>1. tabs \in TabList /\ Fits(tabs, ws, rows, crossed)
  BY DEF BenchInv, BenchShapes
<1>2. \A j \in DOMAIN tabs : Mentions(tabs, tabs[j].req)
  BY DEF Mentions
<1> QED
  BY <1>1, <1>2, ListKeeps DEF DebounceFires

\* A load of workspace w with these tabs and rows.
LoadOf(w, raw, asked, read) == [kind |-> "load", ws |-> w, raw |-> raw, asked |-> asked, rows |-> read]

LEMMA LoadIs ==
  ASSUME NEW w \in Workspaces, NEW raw \in TabList, NEW asked \in BOOLEAN, NEW read \in Shown
  PROVE  LoadOf(w, raw, asked, read) \in Call
BY DEF LoadOf, Call, LoadCall

LEMMA SwitchKeeps ==
  ASSUME BenchInv, NEW w \in Workspaces, SetWorkspace(w)
  PROVE  BenchInv'
<1>1. BenchShapes /\ calls \in Seq(Call) /\ ws \in Workspaces /\ tabs \in TabList /\ blob \in [Workspaces -> TabList]
  BY DEF BenchInv, BenchShapes
<1> DEFINE call == LoadOf(w, blob[w], FALSE, <<>>)
<1>2. /\ w # ws /\ ws' = w /\ tabs' = <<>> /\ tree' = <<>> /\ blob' = [blob EXCEPT ![ws] = tabs]
      /\ rows' = rows /\ crossed' = crossed /\ calls' = Append(calls, call)
  BY DEF SetWorkspace, Queue, LoadOf
<1>3. call \in Call
  BY <1>1, LoadIs, NoList
<1>4. call.kind = "load" /\ call.ws = w /\ call.raw = blob[w] /\ call.rows = <<>>
  BY DEF LoadOf
<1> HIDE DEF call
<1>5. BenchShapes'
  BY <1>1, <1>2, <1>3, NoList, QueueAppended DEF BenchShapes
<1>6. Fits(tabs', ws', rows', crossed') /\ TreeFits(tree', ws', rows', crossed', calls')
  BY <1>2, NoList DEF Fits, TreeFits
<1>7. ASSUME NEW v \in Workspaces \ {ws'} PROVE Fits(blob'[v], v, rows', crossed')
  BY <1>1, <1>2, <1>7 DEF BenchInv
<1>8. Follows(calls, calls', 0) /\ \A k \in DOMAIN calls' : k + 0 \notin DOMAIN calls => calls'[k] = call
  <2>1. /\ Follows(calls, calls', 0) /\ calls'[Len(calls) + 1] = call
        /\ DOMAIN calls' = DOMAIN calls \cup {Len(calls) + 1}
    BY <1>1, <1>2, <1>3, QueueAppended
  <2>2. \A k \in DOMAIN calls' : k \in Nat
    BY <2>1 DEF Follows
  <2> QED
    BY <2>1, <2>2
<1>9. Unseen(calls, 0, tabs', blob', tree')
  BY <1>1, <1>2, NoList DEF Unseen, BenchInv, QueueInv, NewIsUnknown, Mentions
<1>10. OnlyLoads(calls, calls', 0, rows, crossed)
  <2>1. Fits(blob[w], w, rows, crossed)
    BY <1>2 DEF BenchInv
  <2>2. \A k \in DOMAIN calls' : calls'[k] = call => LoadFits(calls', k, rows, crossed)
    BY <1>4, <2>1, NoList DEF LoadFits
  <2> QED
    BY <1>4, <1>8, <2>2 DEF OnlyLoads, BenchInv, QueueInv, NewIsUnknown
<1>11. QueueInv(calls', rows', crossed', tabs', blob', tree')
  BY <1>2, <1>8, <1>9, <1>10, QueueMoves DEF BenchInv
<1> QED
  BY <1>5, <1>6, <1>7, <1>11 DEF BenchInv

LEMMA FitsLess ==
  ASSUME NEW list, NEW w, NEW table, NEW ex, Fits(list, w, table, ex), NEW q
  PROVE  Fits(list, w, Without(table, q), ex)
BY DEF Fits, Without

LEMMA DeletingKeeps ==
  ASSUME BenchInv, NEW q \in Requests, DeleteRequest(q)
  PROVE  BenchInv'
<1>1. BenchShapes /\ calls \in Seq(Call) /\ rows \in RowTable
  BY DEF BenchInv, BenchShapes
<1> DEFINE call == [kind |-> "delete", req |-> q]
           less == Without(rows, q)
<1>2. /\ UNCHANGED <<ws, tabs, blob, tree, crossed>> /\ rows' = less /\ calls' = Append(calls, call)
      /\ q \in DOMAIN tree
  BY DEF DeleteRequest, Queue
<1>3. call \in Call /\ call.kind = "delete" /\ call.req = q
  BY DEF Call, DeleteCall
<1> HIDE DEF call
<1>4. DOMAIN less = DOMAIN rows \ {q} /\ less = [p \in DOMAIN less |-> less[p]] /\ \A p \in DOMAIN less : less[p] = rows[p]
  BY DEF Without
<1>5. less \in RowTable
  <2> HIDE DEF less
  <2> QED
    BY <1>1, <1>4, TableIs, TableMade
<1>6. BenchShapes'
  BY <1>1, <1>2, <1>3, <1>5, QueueAppended DEF BenchShapes
<1>7. Fits(tabs', ws', rows', crossed') /\ \A v \in Workspaces \ {ws'} : Fits(blob'[v], v, rows', crossed')
  BY <1>2, FitsLess DEF BenchInv
<1>8. /\ Len(calls) + 1 \in Nat /\ calls'[Len(calls) + 1] = call
      /\ DOMAIN calls' = DOMAIN calls \cup {Len(calls) + 1}
      /\ \A k \in DOMAIN calls : k \in Nat /\ k < Len(calls) + 1 /\ calls'[k] = calls[k]
  BY <1>1, <1>2, <1>3, QueueAppended, LenProperties
<1> DEFINE n == Len(calls) + 1
           t == calls'
<1> HIDE DEF n, t, less
<1>9. \A k \in DOMAIN calls : \A p : /\ SavedAfter(t, k, p) <=> SavedAfter(calls, k, p)
                                     /\ \A draft : Outwritten(calls, k, p, draft) => Outwritten(t, k, p, draft)
                                     /\ DeletedAfter(calls, k, p) => DeletedAfter(t, k, p)
                                     /\ DeletedAfter(t, k, q)
  BY <1>3, <1>8 DEF n, t, SavedAfter, Outwritten, DeletedAfter, Saves
<1>10. \A p : SavedAfter(calls, 0, p) => SavedAfter(t, 0, p)
  BY <1>8 DEF n, t, SavedAfter, Saves
<1>11. TreeFits(tree', ws', rows', crossed', t)
  BY <1>2, <1>4, <1>10 DEF TreeFits, BenchInv
<1>12. ASSUME NEW k \in DOMAIN t
       PROVE  LoadFits(t, k, less, crossed) /\ SaveFits(t, k, less) /\ NewIsUnknown(t, k, tabs, blob, tree)
  <2>1. CASE k = n
    BY <1>3, <1>8, <2>1 DEF n, t, LoadFits, SaveFits, NewIsUnknown
  <2>2. CASE k \in DOMAIN calls
    <3>1. LoadFits(calls, k, rows, crossed) /\ SaveFits(calls, k, rows) /\ NewIsUnknown(calls, k, tabs, blob, tree)
      BY <2>2 DEF BenchInv, QueueInv
    <3>2. t[k] = calls[k]
      BY <1>8, <2>2 DEF t
    <3>3. SaveFits(t, k, less)
      BY <1>4, <1>9, <2>2, <3>1, <3>2 DEF SaveFits
    <3>4. t[k].kind = "load" => Fits(t[k].raw, t[k].ws, less, crossed)
      BY <3>1, <3>2, FitsLess DEF LoadFits, less
    <3>5. LoadFits(t, k, less, crossed)
      BY <1>4, <1>9, <2>2, <3>1, <3>2, <3>4 DEF LoadFits
    <3>6. NewIsUnknown(t, k, tabs, blob, tree)
      BY <1>3, <1>8, <2>2, <3>1, <3>2 DEF NewIsUnknown, Saves, n, t
    <3> QED
      BY <3>3, <3>5, <3>6
  <2> QED
    BY <1>8, <2>1, <2>2 DEF n, t
<1>13. QueueInv(calls', rows', crossed', tabs', blob', tree')
  BY <1>2, <1>12 DEF QueueInv, t
<1> QED
  BY <1>6, <1>7, <1>11, <1>13 DEF BenchInv, t

\* other has the rows of table, with another spec for q.
SpecOf(table, other, q, spec) ==
  /\ DOMAIN other = DOMAIN table
  /\ \A p \in DOMAIN table : /\ other[p].ws = table[p].ws
                             /\ other[p].spec = IF p = q THEN spec ELSE table[p].spec
\* late has the tabs of list, those of q raced.
RacedFor(list, late, q) ==
  /\ DOMAIN late = DOMAIN list
  /\ \A i \in DOMAIN list : /\ late[i].req = list[i].req /\ late[i].draft = list[i].draft
                            /\ late[i].dirty <=> list[i].dirty
                            /\ late[i].raced <=> list[i].raced \/ list[i].req = q
\* after is the queue before, with the tabs of q raced in every load.
RacedIn(before, after, q) ==
  /\ DOMAIN after = DOMAIN before
  /\ \A k \in DOMAIN before :
       IF before[k].kind = "load"
       THEN /\ after[k].kind = "load" /\ after[k].ws = before[k].ws /\ after[k].rows = before[k].rows
            /\ RacedFor(before[k].raw, after[k].raw, q)
       ELSE after[k] = before[k]

LEMMA FitsRaced ==
  ASSUME NEW list, NEW late, NEW w, NEW table, NEW other, NEW ex, NEW q, NEW spec,
         Fits(list, w, table, ex), SpecOf(table, other, q, spec), RacedFor(list, late, q)
  PROVE  Fits(late, w, other, ex)
BY DEF Fits, SpecOf, RacedFor

LEMMA RacedList ==
  ASSUME NEW raw \in TabList, NEW q,
         NEW late, late = [i \in DOMAIN raw |-> [raw[i] EXCEPT !.raced = @ \/ raw[i].req = q]]
  PROVE  late \in TabList /\ RacedFor(raw, late, q)
<1>1. DOMAIN raw \subseteq TabIds /\ \A i \in DOMAIN raw : raw[i] \in OneTab
  BY ListIs
<1>2. DOMAIN late = DOMAIN raw /\ \A i \in DOMAIN raw : late[i] = [raw[i] EXCEPT !.raced = @ \/ raw[i].req = q]
  OBVIOUS
<1>3. ASSUME NEW i \in DOMAIN raw
      PROVE  /\ late[i] \in OneTab /\ late[i].req = raw[i].req /\ late[i].draft = raw[i].draft
             /\ late[i].dirty = raw[i].dirty
             /\ late[i].raced = (raw[i].raced \/ raw[i].req = q)
  <2> PICK r \in BOOLEAN : r = (raw[i].raced \/ raw[i].req = q)
    OBVIOUS
  <2>1. late[i] = [raw[i] EXCEPT !.raced = r]
    BY <1>2
  <2>2. raw[i] \in OneTab
    BY <1>1
  <2> QED
    BY <2>1, <2>2 DEF OneTab
<1>4. late = [i \in DOMAIN late |-> late[i]]
  OBVIOUS
<1>5. late \in TabList
  BY <1>1, <1>2, <1>3, <1>4, ListMade
<1>6. RacedFor(raw, late, q)
  BY <1>2, <1>3 DEF RacedFor
<1> QED
  BY <1>5, <1>6

LEMMA QueueRaced ==
  ASSUME BenchShapes, NEW q
  PROVE  Outdated(q) \in Seq(Call) /\ RacedIn(calls, Outdated(q), q)
<1>1. calls \in Seq(Call) /\ Len(calls) \in Nat /\ DOMAIN calls = 1 .. Len(calls)
  BY LenProperties DEF BenchShapes
<1> DEFINE o == Outdated(q)
           late(k) == [i \in DOMAIN calls[k].raw |->
                         [calls[k].raw[i] EXCEPT !.raced = @ \/ calls[k].raw[i].req = q]]
<1>2. DOMAIN o = DOMAIN calls /\ o = [k \in DOMAIN o |-> o[k]]
  BY DEF Outdated
<1>3. \A k \in DOMAIN calls : calls[k].kind # "load" => o[k] = calls[k]
  BY DEF Outdated
<1>4. \A k \in DOMAIN calls : calls[k].kind = "load" => o[k] = [calls[k] EXCEPT !.raw = late(k)]
  BY DEF Outdated
<1> HIDE DEF o
<1>5. ASSUME NEW k \in DOMAIN calls, calls[k].kind = "load"
      PROVE  /\ o[k] \in Call /\ o[k].kind = "load" /\ o[k].ws = calls[k].ws /\ o[k].rows = calls[k].rows
             /\ RacedFor(calls[k].raw, o[k].raw, q)
  <2>1. calls[k] \in LoadCall
    BY <1>1, <1>5, CallIs
  <2>2. calls[k].raw \in TabList
    BY <2>1 DEF LoadCall
  <2>3. PICK l : l = late(k)
    OBVIOUS
  <2>4. l \in TabList /\ RacedFor(calls[k].raw, l, q)
    BY <2>2, <2>3, RacedList
  <2>5. o[k] = [calls[k] EXCEPT !.raw = l]
    BY <1>4, <1>5, <2>3
  <2>6. o[k] \in LoadCall /\ o[k].kind = "load" /\ o[k].ws = calls[k].ws /\ o[k].rows = calls[k].rows /\ o[k].raw = l
    BY <2>1, <2>4, <2>5 DEF LoadCall
  <2> QED
    BY <2>4, <2>6 DEF Call
<1>6. \A k \in DOMAIN calls : o[k] \in Call
  BY <1>1, <1>3, <1>5, CallIs
<1>7. o \in [1 .. Len(calls) -> Call]
  BY <1>1, <1>2, <1>6
<1>8. o \in Seq(Call)
  BY <1>1, <1>7, SeqDef
<1>9. RacedIn(calls, o, q)
  BY <1>2, <1>3, <1>5 DEF RacedIn
<1> QED
  BY <1>8, <1>9 DEF o

LEMMA Written ==
  ASSUME rows \in RowTable, NEW q, NEW draft \in Drafts, Write(q, draft)
  PROVE  rows' \in RowTable /\ SpecOf(rows, rows', q, draft)
<1>1. DOMAIN rows \subseteq Requests /\ rows = [p \in DOMAIN rows |-> rows[p]] /\ \A p \in DOMAIN rows : rows[p] \in Row
  BY TableIs
<1>2. CASE q \notin DOMAIN rows
  BY <1>2 DEF Write, SpecOf
<1>3. CASE q \in DOMAIN rows
  <2>1. rows' = [rows EXCEPT ![q].spec = draft]
    BY <1>3 DEF Write
  <2>2. DOMAIN rows' = DOMAIN rows /\ rows' = [p \in DOMAIN rows' |-> rows'[p]]
    BY <1>1, <2>1
  <2>3. \A p \in DOMAIN rows : p # q => rows'[p] = rows[p]
    BY <1>1, <2>1
  <2>4. rows'[q] = [rows[q] EXCEPT !.spec = draft]
    BY <1>1, <1>3, <2>1
  <2>5. rows'[q] \in Row /\ rows'[q].ws = rows[q].ws /\ rows'[q].spec = draft
    BY <1>1, <1>3, <2>4 DEF Row
  <2>6. rows' \in RowTable
    BY <1>1, <2>2, <2>3, <2>5, TableMade
  <2> QED
    BY <1>3, <2>2, <2>3, <2>5, <2>6 DEF SpecOf
<1> QED
  BY <1>2, <1>3

LEMMA SavingKeeps ==
  ASSUME BenchInv, NEW i \in DOMAIN tabs, SaveRequest(i)
  PROVE  BenchInv'
<1>1. /\ BenchShapes /\ calls \in Seq(Call) /\ rows \in RowTable /\ tabs \in TabList /\ tree \in Shown
      /\ ws \in Workspaces
  BY DEF BenchInv, BenchShapes
<1>2. PICK q, draft : q = tabs[i].req /\ draft = tabs[i].draft
  OBVIOUS
<1> DEFINE call == [kind |-> "save", tab |-> i, req |-> q, draft |-> draft, new |-> FALSE]
           o == Outdated(q)
           t == calls'
<1>3. /\ q \in DOMAIN tree /\ Write(q, draft) /\ t = Append(o, call)
      /\ UNCHANGED <<ws, tabs, blob, tree, crossed>>
  BY <1>2 DEF SaveRequest
<1>4. q \in Requests /\ draft \in Drafts /\ i \in TabIds
  BY <1>1, <1>2, <1>3, TreeIs, ListIs DEF OneTab
<1>5. call \in Call /\ call.kind = "save" /\ call.req = q /\ call.draft = draft /\ call.new = FALSE
  BY <1>4 DEF Call, SaveCall
<1>6. rows' \in RowTable /\ SpecOf(rows, rows', q, draft)
  BY <1>1, <1>3, <1>4, Written
<1>7. o \in Seq(Call) /\ RacedIn(calls, o, q)
  BY <1>1, QueueRaced
<1> HIDE DEF o, t, call
<1>8. t \in Seq(Call)
  BY <1>3, <1>5, <1>7, QueueAppended
<1>9. BenchShapes'
  BY <1>1, <1>3, <1>6, <1>8 DEF BenchShapes, t
<1> DEFINE n == Len(o) + 1
<1>10. /\ t[n] = call /\ DOMAIN t = DOMAIN calls \cup {n} /\ n \in Nat
       /\ \A k \in DOMAIN calls : k \in Nat /\ 0 < k /\ k < n /\ t[k] = o[k]
  <2>1. /\ t[n] = call /\ DOMAIN t = DOMAIN o \cup {n} /\ n \in Nat
        /\ \A k \in DOMAIN o : k \in Nat /\ k < n /\ t[k] = o[k]
    BY <1>3, <1>5, <1>7, QueueAppended, LenProperties
  <2> QED
    BY <1>1, <1>7, <2>1, CallIs DEF RacedIn
<1> HIDE DEF n
<1>11. \A k \in DOMAIN calls : /\ t[k].kind = calls[k].kind
                               /\ calls[k].kind # "load" => t[k] = calls[k]
                               /\ calls[k].kind = "load" =>
                                    /\ t[k].ws = calls[k].ws /\ t[k].rows = calls[k].rows
                                    /\ RacedFor(calls[k].raw, t[k].raw, q)
  BY <1>7, <1>10 DEF RacedIn
<1>12. /\ \A k \in Nat : \A p : SavedAfter(calls, k, p) => SavedAfter(t, k, p)
       /\ \A k \in Nat : \A p : DeletedAfter(calls, k, p) => DeletedAfter(t, k, p)
       /\ \A k \in Nat : \A p, spec : Outwritten(calls, k, p, spec) => Outwritten(t, k, p, spec)
       /\ \A k \in DOMAIN calls : \A spec : SavedAfter(t, k, q) /\ (spec # draft => Outwritten(t, k, q, spec))
       /\ SavedAfter(t, 0, q)
  <2>1. \A k \in DOMAIN calls : k \in DOMAIN t /\ (calls[k].kind # "load" => t[k] = calls[k])
    BY <1>10, <1>11
  <2>2. n \in DOMAIN t /\ n > 0 /\ Saves(t, n, q) /\ t[n].draft = draft /\ \A k \in DOMAIN calls : k < n
    <3>1. n > 0
      BY <1>7, LenProperties DEF n
    <3> QED
      BY <1>5, <1>10, <3>1 DEF Saves
  <2> QED
    BY <2>1, <2>2 DEF SavedAfter, Outwritten, DeletedAfter, Saves
<1>13. Fits(tabs, ws, rows', crossed)
  <2>1. Fits(tabs, ws, rows, crossed)
    BY DEF BenchInv
  <2>2. \A j \in DOMAIN tabs : tabs[j].req = q => j = i \/ q \in crossed
    BY <1>2, <1>4, <2>1, NilIsNone DEF Fits
  <2> QED
    BY <1>2, <1>6, <2>1, <2>2 DEF Fits, SpecOf
<1>14. ASSUME NEW v \in Workspaces \ {ws} PROVE Fits(blob[v], v, rows', crossed)
  <2>1. Fits(tabs, ws, rows, crossed) /\ Fits(blob[v], v, rows, crossed)
    BY <1>14 DEF BenchInv
  <2>2. \A j \in DOMAIN blob[v] : blob[v][j].req = q => q \notin DOMAIN rows \ crossed
    BY <1>2, <1>14, <2>1 DEF Fits
  <2> QED
    BY <1>6, <2>1, <2>2 DEF Fits, SpecOf
<1>15. TreeFits(tree, ws, rows', crossed, t)
  BY <1>6, <1>12 DEF TreeFits, SpecOf, BenchInv
<1>16. ASSUME NEW k \in DOMAIN t
       PROVE  LoadFits(t, k, rows', crossed) /\ SaveFits(t, k, rows') /\ NewIsUnknown(t, k, tabs, blob, tree)
  <2>1. CASE k = n
    BY <1>5, <1>6, <1>10, <2>1 DEF LoadFits, SaveFits, NewIsUnknown, SpecOf
  <2>2. CASE k \in DOMAIN calls
    <3>1. LoadFits(calls, k, rows, crossed) /\ SaveFits(calls, k, rows) /\ NewIsUnknown(calls, k, tabs, blob, tree)
      BY <2>2 DEF BenchInv, QueueInv
    <3>2. k \in Nat
      BY <1>10, <2>2
    <3>3. SaveFits(t, k, rows')
      BY <1>6, <1>11, <1>12, <2>2, <3>1, <3>2 DEF SaveFits, SpecOf
    <3>4. t[k].kind = "load" => Fits(t[k].raw, t[k].ws, rows', crossed)
      BY <1>6, <1>11, <2>2, <3>1, FitsRaced DEF LoadFits
    <3>5. LoadFits(t, k, rows', crossed)
      BY <1>6, <1>11, <1>12, <2>2, <3>1, <3>2, <3>4 DEF LoadFits, SpecOf
    <3>6. ASSUME t[k].kind = "save", t[k].new, NEW l \in DOMAIN t
          PROVE  /\ Saves(t, l, t[k].req) => l = k
                 /\ t[l].kind = "load" =>
                      ~Mentions(t[l].raw, t[k].req) /\ (l < k => t[k].req \notin DOMAIN t[l].rows)
      <4>1. t[k] = calls[k] /\ t[k].req # q
        BY <1>3, <1>11, <2>2, <3>1, <3>6 DEF NewIsUnknown
      <4>2. CASE l = n
        BY <1>5, <1>10, <4>1, <4>2 DEF Saves
      <4>3. CASE l \in DOMAIN calls
        BY <1>11, <3>1, <3>6, <4>1, <4>3 DEF NewIsUnknown, Saves, Mentions, RacedFor
      <4> QED
        BY <1>10, <4>2, <4>3
    <3>7. NewIsUnknown(t, k, tabs, blob, tree)
      BY <1>11, <2>2, <3>1, <3>6 DEF NewIsUnknown
    <3> QED
      BY <3>3, <3>5, <3>7
  <2> QED
    BY <1>10, <2>1, <2>2
<1>17. QueueInv(t, rows', crossed, tabs, blob, tree)
  BY <1>16 DEF QueueInv
<1> QED
  BY <1>3, <1>9, <1>13, <1>14, <1>15, <1>17 DEF BenchInv, t

\* No list, no call and no row knows a new request.
LEMMA NewIsNew ==
  ASSUME BenchInv, NEW q \in NewRequests
  PROVE  /\ q \in Requests /\ q \notin DOMAIN rows /\ q \notin DOMAIN tree /\ ~Mentions(tabs, q)
         /\ \A w \in Workspaces : ~Mentions(blob[w], q)
         /\ \A k \in DOMAIN calls : /\ ~Saves(calls, k, q)
                                    /\ calls[k].kind = "delete" => calls[k].req # q
                                    /\ calls[k].kind = "load" => ~Mentions(calls[k].raw, q) /\ q \notin DOMAIN calls[k].rows
<1>1. \A l \in TabLists : ~Mentions(l, q)
  <2> SUFFICES ASSUME NEW l \in TabLists, NEW i \in DOMAIN l, l[i].req = q PROVE FALSE
    BY DEF Mentions
  <2>1. l[i] \in Range(l)
    BY DEF Range
  <2> QED
    BY <2>1 DEF NewRequests
<1>2. DOMAIN blob = Workspaces
  BY DEF BenchInv, BenchShapes
<1>3. tabs \in TabLists /\ \A w \in Workspaces : blob[w] \in TabLists
  BY <1>2 DEF TabLists, Range
<1>4. \A k \in DOMAIN calls : calls[k].kind = "load" => calls[k].raw \in TabLists
  BY DEF TabLists, InFlight
<1>5. \A k \in DOMAIN calls : calls[k].kind \in {"save", "delete"} => calls[k].req # q
  BY DEF NewRequests, InFlight
<1>6. q \in Requests /\ q \notin DOMAIN rows /\ q \notin DOMAIN tree
  BY DEF NewRequests, Requests
<1>7. \A k \in DOMAIN calls : calls[k].kind = "load" => q \notin DOMAIN calls[k].rows
  <2> SUFFICES ASSUME NEW k \in DOMAIN calls, calls[k].kind = "load", q \in DOMAIN calls[k].rows PROVE FALSE
    OBVIOUS
  <2>1. DeletedAfter(calls, k, q)
    BY <1>6 DEF BenchInv, QueueInv, LoadFits
  <2> QED
    BY <1>5, <2>1 DEF DeletedAfter
<1> QED
  BY <1>1, <1>3, <1>4, <1>5, <1>6, <1>7 DEF Saves

\* Another row changes nothing for a list that does not mention it.
LEMMA FitsMore ==
  ASSUME NEW list, NEW w, NEW table, NEW ex, NEW q, NEW v, Fits(list, w, table, ex), ~Mentions(list, q)
  PROVE  Fits(list, w, With(table, q, v), ex)
BY DEF Fits, With, Mentions

LEMMA FilingKeeps ==
  ASSUME BenchInv, NEW i \in DOMAIN tabs, SaveScratch(i)
  PROVE  BenchInv'
<1>1. /\ BenchShapes /\ calls \in Seq(Call) /\ rows \in RowTable /\ tabs \in TabList /\ ws \in Workspaces
  BY DEF BenchInv, BenchShapes
<1>2. PICK draft : draft = tabs[i].draft
  OBVIOUS
<1>3. PICK q \in NewRequests :
        /\ rows' = With(rows, q, [ws |-> ws, spec |-> draft])
        /\ calls' = Append(calls, [kind |-> "save", tab |-> i, req |-> q, draft |-> draft, new |-> TRUE])
        /\ UNCHANGED <<ws, tabs, blob, tree, crossed>>
  BY <1>2 DEF SaveScratch, Queue
<1> DEFINE call == [kind |-> "save", tab |-> i, req |-> q, draft |-> draft, new |-> TRUE]
           row == [ws |-> ws, spec |-> draft]
           t == calls'
           n == Len(calls) + 1
<1>4. draft \in Drafts /\ i \in TabIds
  BY <1>1, <1>2, ListIs DEF OneTab
<1>5. /\ q \in Requests /\ q \notin DOMAIN rows /\ q \notin DOMAIN tree /\ ~Mentions(tabs, q)
      /\ \A w \in Workspaces : ~Mentions(blob[w], q)
      /\ \A k \in DOMAIN calls : /\ ~Saves(calls, k, q)
                                 /\ calls[k].kind = "delete" => calls[k].req # q
                                 /\ calls[k].kind = "load" => ~Mentions(calls[k].raw, q) /\ q \notin DOMAIN calls[k].rows
  BY NewIsNew
<1>6. call \in Call /\ call.kind = "save" /\ call.req = q /\ call.draft = draft /\ call.new
  BY <1>4, <1>5 DEF Call, SaveCall
<1>7. row \in Row /\ row.ws = ws /\ row.spec = draft
  BY <1>1, <1>4 DEF Row
<1>8. t = Append(calls, call) /\ rows' = With(rows, q, row)
  BY <1>3
<1> HIDE DEF call, row
<1>9. /\ t \in Seq(Call) /\ t[n] = call /\ DOMAIN t = DOMAIN calls \cup {n} /\ n \in Nat
      /\ \A k \in DOMAIN calls : k \in Nat /\ k < n /\ t[k] = calls[k]
  BY <1>1, <1>6, <1>8, QueueAppended, LenProperties
<1>10. /\ DOMAIN rows' = DOMAIN rows \cup {q} /\ rows' = [p \in DOMAIN rows' |-> rows'[p]]
       /\ rows'[q] = row /\ \A p \in DOMAIN rows : p # q /\ rows'[p] = rows[p]
  BY <1>5, <1>8 DEF With
<1>11. rows' \in RowTable
  BY <1>1, <1>5, <1>7, <1>10, TableIs, TableMade
<1>12. BenchShapes'
  BY <1>1, <1>3, <1>9, <1>11 DEF BenchShapes, t
<1> HIDE DEF n, t
<1>13. Fits(tabs, ws, rows', crossed) /\ \A v \in Workspaces \ {ws} : Fits(blob[v], v, rows', crossed)
  BY <1>5, <1>8, FitsMore DEF BenchInv
<1>14. /\ \A k \in Nat : \A p : SavedAfter(calls, k, p) => SavedAfter(t, k, p)
       /\ \A k \in Nat : \A p, spec : Outwritten(calls, k, p, spec) => Outwritten(t, k, p, spec)
       /\ \A k \in Nat : \A p : DeletedAfter(calls, k, p) => DeletedAfter(t, k, p)
  BY <1>9 DEF SavedAfter, Outwritten, DeletedAfter, Saves
<1>15. TreeFits(tree, ws, rows', crossed, t)
  BY <1>5, <1>10, <1>14 DEF TreeFits, BenchInv
<1>16. ASSUME NEW k \in DOMAIN t
       PROVE  LoadFits(t, k, rows', crossed) /\ SaveFits(t, k, rows') /\ NewIsUnknown(t, k, tabs, blob, tree)
  <2>1. CASE k = n
    <3>1. LoadFits(t, k, rows', crossed) /\ SaveFits(t, k, rows')
      BY <1>6, <1>7, <1>9, <1>10, <2>1 DEF LoadFits, SaveFits
    <3>2. NewIsUnknown(t, k, tabs, blob, tree)
      BY <1>5, <1>6, <1>9, <2>1 DEF NewIsUnknown, Saves
    <3> QED
      BY <3>1, <3>2
  <2>2. CASE k \in DOMAIN calls
    <3>1. LoadFits(calls, k, rows, crossed) /\ SaveFits(calls, k, rows) /\ NewIsUnknown(calls, k, tabs, blob, tree)
      BY <2>2 DEF BenchInv, QueueInv
    <3>2. k \in Nat /\ t[k] = calls[k]
      BY <1>9, <2>2
    <3>3. t[k].kind = "save" => t[k].req # q
      BY <1>5, <2>2, <3>2 DEF Saves
    <3>4. SaveFits(t, k, rows')
      BY <1>10, <1>14, <3>1, <3>2, <3>3 DEF SaveFits
    <3>5. t[k].kind = "load" => Fits(t[k].raw, t[k].ws, rows', crossed)
      BY <1>5, <1>8, <2>2, <3>1, <3>2, FitsMore DEF LoadFits
    <3>6. LoadFits(t, k, rows', crossed)
      BY <1>5, <1>10, <1>14, <2>2, <3>1, <3>2, <3>5 DEF LoadFits
    <3>7. NewIsUnknown(t, k, tabs, blob, tree)
      BY <1>6, <1>9, <2>2, <3>1, <3>2, <3>3 DEF NewIsUnknown, Saves
    <3> QED
      BY <3>4, <3>6, <3>7
  <2> QED
    BY <1>9, <2>1, <2>2
<1>17. QueueInv(t, rows', crossed, tabs, blob, tree)
  BY <1>16 DEF QueueInv
<1> QED
  BY <1>3, <1>12, <1>13, <1>15, <1>17 DEF BenchInv, t

(* ------------------------------- answers -------------------------------- *)

LEMMA HeadOfQueue ==
  ASSUME BenchInv, calls # <<>>
  PROVE  /\ Head(calls) = calls[1] /\ 1 \in DOMAIN calls /\ Tail(calls) \in Seq(Call) /\ Follows(calls, Tail(calls), 1)
         /\ \A ex : OnlyLoads(calls, Tail(calls), 1, rows, ex)
         /\ \A q : SavedAfter(calls, 1, q) => SavedAfter(Tail(calls), 0, q)
         /\ \A q : SavedAfter(calls, 0, q) => Saves(calls, 1, q) \/ SavedAfter(Tail(calls), 0, q)
<1>1. calls \in Seq(Call)
  BY DEF BenchInv, BenchShapes
<1>2. /\ Head(calls) = calls[1] /\ 1 \in DOMAIN calls /\ Tail(calls) \in Seq(Call) /\ Follows(calls, Tail(calls), 1)
      /\ \A k \in DOMAIN Tail(calls) : k + 1 \in DOMAIN calls
  BY <1>1, QueueAnswered
<1>3. \A q : SavedAfter(calls, 0 + 1, q) => SavedAfter(Tail(calls), 0, q)
  BY <1>2, Later
<1>4. \A q : SavedAfter(calls, 0, q) => Saves(calls, 1, q) \/ SavedAfter(calls, 1, q)
  BY <1>1, CallIs DEF SavedAfter
<1> QED
  BY <1>2, <1>3, <1>4 DEF OnlyLoads

LEMMA SavedAgainIs ==
  ASSUME BenchInv, NEW call
  PROVE  SavedAgain(call) <=> Outwritten(calls, 1, call.req, call.draft)
<1>1. calls \in Seq(Call) /\ DOMAIN calls = 1 .. Len(calls) /\ Len(calls) \in Nat
  BY LenProperties DEF BenchInv, BenchShapes
<1> QED
  BY <1>1 DEF SavedAgain, Outwritten, Saves

LEMMA LoadFailsKeeps ==
  ASSUME BenchInv, LoadFails
  PROVE  BenchInv'
<1>1. /\ calls # <<>> /\ Head(calls).kind = "load" /\ calls' = Tail(calls)
      /\ UNCHANGED <<ws, tabs, blob, rows, tree, crossed>>
  BY DEF LoadFails
<1>2. /\ Head(calls) = calls[1] /\ 1 \in DOMAIN calls /\ Tail(calls) \in Seq(Call) /\ Follows(calls, Tail(calls), 1)
      /\ OnlyLoads(calls, Tail(calls), 1, rows, crossed)
      /\ \A q : SavedAfter(calls, 0, q) => Saves(calls, 1, q) \/ SavedAfter(Tail(calls), 0, q)
  BY <1>1, HeadOfQueue
<1>3. BenchShapes'
  BY <1>1, <1>2 DEF BenchShapes, BenchInv
<1>4. TreeFits(tree, ws, rows, crossed, Tail(calls))
  BY <1>1, <1>2 DEF TreeFits, Saves, BenchInv
<1>5. Unseen(calls, 1, tabs, blob, tree)
  BY DEF Unseen, BenchInv, QueueInv, NewIsUnknown
<1>6. QueueInv(Tail(calls), rows, crossed, tabs, blob, tree)
  BY <1>2, <1>5, QueueMoves DEF BenchInv
<1> QED
  BY <1>1, <1>3, <1>4, <1>6 DEF BenchInv

LEMMA PublishKeeps ==
  ASSUME BenchInv, calls # <<>>, NEW call, call = Head(calls), call.kind = "load",
         Publish(call), calls' = Tail(calls)
  PROVE  BenchInv'
<1>1. /\ call = calls[1] /\ 1 \in DOMAIN calls /\ Tail(calls) \in Seq(Call) /\ Follows(calls, Tail(calls), 1)
      /\ OnlyLoads(calls, Tail(calls), 1, rows, crossed)
      /\ \A q : SavedAfter(calls, 1, q) => SavedAfter(Tail(calls), 0, q)
      /\ \A q : SavedAfter(calls, 0, q) => Saves(calls, 1, q) \/ SavedAfter(Tail(calls), 0, q)
  BY HeadOfQueue
<1>2. call \in LoadCall
  BY <1>1, CallIs DEF BenchInv, BenchShapes
<1>3. UNCHANGED <<ws, blob, rows, crossed>>
  BY DEF Publish
<1>4. CASE call.ws # ws
  <2>1. UNCHANGED <<tabs, tree>>
    BY <1>4 DEF Publish
  <2>2. BenchShapes'
    BY <1>1, <1>3, <2>1 DEF BenchShapes, BenchInv
  <2>3. TreeFits(tree, ws, rows, crossed, Tail(calls))
    BY <1>1 DEF TreeFits, Saves, BenchInv
  <2>4. Unseen(calls, 1, tabs, blob, tree)
    BY DEF Unseen, BenchInv, QueueInv, NewIsUnknown
  <2>5. QueueInv(Tail(calls), rows, crossed, tabs, blob, tree)
    BY <1>1, <2>4, QueueMoves DEF BenchInv
  <2> QED
    BY <1>3, <2>1, <2>2, <2>3, <2>5 DEF BenchInv
<1>5. CASE call.ws = ws
  <2>1. tabs' = call.raw /\ tree' = call.rows
    BY <1>5 DEF Publish
  <2>2. call.raw \in TabList /\ call.rows \in Shown
    BY <1>2 DEF LoadCall
  <2>3. BenchShapes'
    BY <1>1, <1>3, <2>1, <2>2 DEF BenchShapes, BenchInv
  <2>4. LoadFits(calls, 1, rows, crossed)
    BY <1>1 DEF BenchInv, QueueInv
  <2>5. Fits(call.raw, ws, rows, crossed)
    BY <1>1, <1>5, <2>4 DEF LoadFits
  <2>6. TreeFits(call.rows, ws, rows, crossed, Tail(calls))
    BY <1>1, <1>5, <2>4 DEF LoadFits, TreeFits
  <2>7. Unseen(calls, 1, call.raw, blob, call.rows)
    BY <1>1 DEF Unseen, BenchInv, QueueInv, NewIsUnknown
  <2>8. QueueInv(Tail(calls), rows, crossed, call.raw, blob, call.rows)
    BY <1>1, <2>7, QueueMoves DEF BenchInv
  <2> QED
    BY <1>3, <2>1, <2>3, <2>5, <2>6, <2>8 DEF BenchInv
<1> QED
  BY <1>4, <1>5

\* The load goes back into the queue with the rows there are now, and without the tabs
\* it was asked for when their setting could not be read.
LEMMA SettingsBring ==
  ASSUME BenchInv, calls # <<>>, NEW call, call = Head(calls), call.kind = "load",
         SettingsAnswered(call)
  PROVE  /\ call \in LoadCall /\ UNCHANGED <<ws, shown, tabs, armed, blob, rows, tree, crossed, typed>>
         /\ \E load \in LoadCall :
              /\ calls' = Append(Tail(calls), load) /\ load.ws = call.ws
              /\ \/ load.raw = call.raw /\ spoilt' = spoilt
                 \/ load.raw = <<>> /\ spoilt' = spoilt \cup {call.ws}
              /\ \A q \in DOMAIN load.rows :
                   q \in DOMAIN rows /\ rows[q].ws = call.ws /\ load.rows[q] = rows[q].spec
<1>1. call = calls[1] /\ 1 \in DOMAIN calls
  BY HeadOfQueue
<1>2. call \in LoadCall /\ rows \in RowTable
  BY <1>1, CallIs DEF BenchInv, BenchShapes
<1> DEFINE read == [q \in {p \in DOMAIN rows : rows[p].ws = call.ws} |-> rows[q].spec]
<1>3. UNCHANGED <<ws, shown, tabs, armed, blob, rows, tree, crossed, typed>>
  BY DEF SettingsAnswered
<1>4. read \in Shown
  <2>1. DOMAIN read \subseteq Requests /\ \A q \in DOMAIN read : read[q] \in Drafts
    BY <1>2, TableIs DEF Row
  <2>2. read = [q \in DOMAIN read |-> read[q]]
    OBVIOUS
  <2> HIDE DEF read
  <2> QED
    BY <2>1, <2>2, TreeMade
<1>5. \A q \in DOMAIN read : q \in DOMAIN rows /\ rows[q].ws = call.ws /\ read[q] = rows[q].spec
  OBVIOUS
<1>6. \/ calls' = Append(Tail(calls), [call EXCEPT !.asked = TRUE, !.rows = read]) /\ spoilt' = spoilt
      \/ /\ calls' = Append(Tail(calls), [call EXCEPT !.asked = TRUE, !.rows = read, !.raw = <<>>])
         /\ spoilt' = spoilt \cup {call.ws}
  BY DEF SettingsAnswered
<1> HIDE DEF read
<1>7. PICK b \in BOOLEAN : b = TRUE
  OBVIOUS
<1>8. CASE calls' = Append(Tail(calls), [call EXCEPT !.asked = TRUE, !.rows = read]) /\ spoilt' = spoilt
  <2>1. PICK load : load = [call EXCEPT !.asked = b, !.rows = read]
    OBVIOUS
  <2>2. load \in LoadCall /\ load.ws = call.ws /\ load.raw = call.raw /\ load.rows = read
    BY <1>2, <1>4, <2>1 DEF LoadCall
  <2>3. calls' = Append(Tail(calls), load)
    BY <1>7, <1>8, <2>1
  <2> QED
    BY <1>2, <1>3, <1>5, <1>8, <2>2, <2>3
<1>9. CASE /\ calls' = Append(Tail(calls), [call EXCEPT !.asked = TRUE, !.rows = read, !.raw = <<>>])
           /\ spoilt' = spoilt \cup {call.ws}
  <2>0. PICK none : none = <<>> /\ none \in TabList
    BY NoList
  <2>1. PICK load : load = [call EXCEPT !.asked = b, !.rows = read, !.raw = none]
    OBVIOUS
  <2>2. load \in LoadCall /\ load.ws = call.ws /\ load.raw = none /\ load.rows = read
    BY <1>2, <1>4, <2>0, <2>1 DEF LoadCall
  <2>3. calls' = Append(Tail(calls), load)
    BY <1>7, <1>9, <2>0, <2>1
  <2> QED
    BY <1>2, <1>3, <1>5, <1>9, <2>0, <2>2, <2>3
<1> QED
  BY <1>6, <1>8, <1>9

LEMMA SettingsKeeps ==
  ASSUME BenchInv, calls # <<>>, NEW call, call = Head(calls), call.kind = "load",
         SettingsAnswered(call)
  PROVE  BenchInv'
<1>1. /\ call = calls[1] /\ 1 \in DOMAIN calls /\ Tail(calls) \in Seq(Call) /\ Follows(calls, Tail(calls), 1)
      /\ \A k \in DOMAIN Tail(calls) : k + 1 \in DOMAIN calls
      /\ \A q : SavedAfter(calls, 0, q) => Saves(calls, 1, q) \/ SavedAfter(Tail(calls), 0, q)
  BY HeadOfQueue, QueueAnswered DEF BenchInv, BenchShapes
<1>2. PICK load \in LoadCall :
        /\ calls' = Append(Tail(calls), load) /\ load.ws = call.ws
        /\ load.raw = call.raw \/ load.raw = <<>>
        /\ \A q \in DOMAIN load.rows :
             q \in DOMAIN rows /\ rows[q].ws = call.ws /\ load.rows[q] = rows[q].spec
  BY SettingsBring
<1> DEFINE t == calls'
<1>3. t = Append(Tail(calls), load) /\ UNCHANGED <<ws, tabs, blob, rows, tree, crossed>>
  BY <1>2, SettingsBring
<1>4. load.kind = "load"
  BY DEF LoadCall
<1>5. \A q : ~Mentions(<<>>, q)
  BY NoList DEF Mentions
<1>6. \A w : Fits(<<>>, w, rows, crossed)
  BY NoList DEF Fits
<1>7. load \in Call
  BY DEF Call
<1> DEFINE n == Len(Tail(calls)) + 1
<1>8. /\ t \in Seq(Call) /\ t[n] = load /\ DOMAIN t = DOMAIN Tail(calls) \cup {n} /\ n \in Nat
      /\ \A k \in DOMAIN Tail(calls) : k \in Nat /\ k < n /\ t[k] = Tail(calls)[k]
  BY <1>1, <1>3, <1>7, QueueAppended, LenProperties
<1> HIDE DEF n, t
<1>9. BenchShapes'
  BY <1>3, <1>8 DEF BenchShapes, BenchInv, t
<1>10. Follows(calls, t, 1)
  <2>1. n # 0
    BY <1>1, LenProperties DEF n
  <2> QED
    BY <1>1, <1>8, <2>1 DEF Follows
<1>11. \A k \in DOMAIN t : k + 1 \notin DOMAIN calls => t[k] = load
  BY <1>1, <1>8
<1>12. LoadFits(calls, 1, rows, crossed)
  BY <1>1 DEF BenchInv, QueueInv
<1>13. \A k \in DOMAIN t : t[k] = load => LoadFits(t, k, rows, crossed)
  BY <1>1, <1>2, <1>4, <1>6, <1>12 DEF LoadFits
<1>14. OnlyLoads(calls, t, 1, rows, crossed)
  BY <1>1, <1>2, <1>4, <1>5, <1>11, <1>13 DEF OnlyLoads, BenchInv, QueueInv, NewIsUnknown
<1>15. \A q : SavedAfter(Tail(calls), 0, q) => SavedAfter(t, 0, q)
  BY <1>8 DEF SavedAfter, Saves
<1>16. TreeFits(tree, ws, rows, crossed, t)
  BY <1>1, <1>15 DEF TreeFits, Saves, BenchInv
<1>17. Unseen(calls, 1, tabs, blob, tree)
  BY DEF Unseen, BenchInv, QueueInv, NewIsUnknown
<1>18. QueueInv(t, rows, crossed, tabs, blob, tree)
  BY <1>10, <1>14, <1>17, QueueMoves DEF BenchInv
<1> QED
  BY <1>3, <1>9, <1>16, <1>18 DEF BenchInv, t

\* A new list of tabs on screen as a call is answered, and in the settings unless
\* they are left alone.
LEMMA AnsweredKeeps ==
  ASSUME BenchInv, calls # <<>>, calls' = Tail(calls), UNCHANGED <<ws, rows>>,
         crossed \subseteq crossed', crossed' \subseteq Requests,
         tree' \in Shown, NEW list \in TabList, PersistNow(list) \/ (tabs' = list /\ UNCHANGED blob),
         Fits(list, ws, rows, crossed'), TreeFits(tree', ws, rows, crossed', calls'),
         \A k \in DOMAIN calls : k > 1 /\ calls[k].kind = "save" /\ calls[k].new =>
           calls[k].req \notin DOMAIN tree' /\ ~Mentions(list, calls[k].req)
  PROVE  BenchInv'
<1>1. BenchShapes /\ tabs' = list /\ \A w \in Workspaces : blob'[w] = blob[w] \/ blob'[w] = list
  BY DEF PersistNow, BenchInv, BenchShapes
<1>2. Tail(calls) \in Seq(Call) /\ Follows(calls, calls', 1) /\ OnlyLoads(calls, calls', 1, rows, crossed')
  BY HeadOfQueue
<1>3. BenchShapes'
  BY <1>1, <1>2 DEF BenchShapes, PersistNow
<1>4. \A w \in Workspaces \ {ws} : blob'[w] = blob[w]
  BY <1>1 DEF PersistNow, BenchShapes
<1>5. Unseen(calls, 1, tabs', blob', tree')
  BY <1>1 DEF Unseen, BenchInv, QueueInv, NewIsUnknown
<1>6. QueueInv(calls', rows, crossed', list, blob', tree')
  BY <1>1, <1>2, <1>5, QueueMoves DEF BenchInv
<1>7. \A w \in Workspaces \ {ws} : Fits(blob'[w], w, rows, crossed')
  BY <1>4, FitsExcept DEF BenchInv
<1> QED
  BY <1>1, <1>3, <1>6, <1>7 DEF BenchInv

LEMMA DeleteAnsweredKeeps ==
  ASSUME BenchInv, calls # <<>>, NEW call, call = Head(calls), call.kind = "delete",
         DeleteAnswered(call), calls' = Tail(calls)
  PROVE  BenchInv'
<1>1. /\ call = calls[1] /\ 1 \in DOMAIN calls
      /\ \A q : SavedAfter(calls, 0, q) => Saves(calls, 1, q) \/ SavedAfter(Tail(calls), 0, q)
  BY HeadOfQueue
<1>2. BenchShapes /\ tabs \in TabList /\ tree \in Shown /\ calls \in Seq(Call) /\ crossed \subseteq Requests
  BY DEF BenchInv, BenchShapes
<1>3. call.req \in Requests
  BY <1>1, <1>2, CallIs DEF DeleteCall
<1>4. tree' = Without(tree, call.req) /\ UNCHANGED <<ws, rows, crossed>>
  BY DEF DeleteAnswered
<1>5. /\ DOMAIN tree' = DOMAIN tree \ {call.req} /\ tree' = [q \in DOMAIN tree' |-> tree'[q]]
      /\ \A q \in DOMAIN tree' : tree'[q] = tree[q]
  BY <1>4 DEF Without
<1>6. tree' \in Shown
  BY <1>2, <1>5, TreeIs, TreeMade
<1>7. TreeFits(tree', ws, rows, crossed, calls')
  BY <1>1, <1>5 DEF TreeFits, Saves, BenchInv
<1> DEFINE list == [i \in DOMAIN tabs |->
             IF tabs[i].req = call.req THEN [tabs[i] EXCEPT !.req = Nil, !.dirty = TRUE] ELSE tabs[i]]
<1>8. CASE UNCHANGED <<tabs, blob>>
  <2>1. Fits(tabs, ws, rows, crossed)
    BY DEF BenchInv
  <2>2. \A k \in DOMAIN calls : calls[k].kind = "save" /\ calls[k].new =>
          calls[k].req \notin DOMAIN tree' /\ ~Mentions(tabs, calls[k].req)
    BY <1>5 DEF BenchInv, QueueInv, NewIsUnknown
  <2> QED
    BY <1>2, <1>4, <1>6, <1>7, <1>8, <2>1, <2>2, AnsweredKeeps
<1>9. CASE PersistNow(list)
  <2>1. DOMAIN tabs \subseteq TabIds /\ \A i \in DOMAIN tabs : tabs[i] \in OneTab
    BY <1>2, ListIs
  <2>2. DOMAIN list = DOMAIN tabs /\ list = [i \in DOMAIN list |-> list[i]]
    OBVIOUS
  <2>3. \A i \in DOMAIN tabs : tabs[i].req # call.req => list[i] = tabs[i]
    OBVIOUS
  <2>4. ASSUME NEW i \in DOMAIN tabs, tabs[i].req = call.req
        PROVE  list[i] \in OneTab /\ list[i].req = Nil
    <3>1. list[i] = [tabs[i] EXCEPT !.req = Nil, !.dirty = TRUE]
      BY <2>4
    <3> HIDE DEF list
    <3> QED
      BY <2>1, <3>1 DEF OneTab
  <2> HIDE DEF list
  <2>5. list \in TabList
    BY <2>1, <2>2, <2>3, <2>4, ListMade
  <2>6. Fits(tabs, ws, rows, crossed) /\ Nil \notin DOMAIN rows
    BY <1>2, TableIs, NilIsNone DEF BenchInv, BenchShapes
  <2>7. Fits(list, ws, rows, crossed)
    <3>1. \A i \in DOMAIN list : list[i].req = Nil \/ list[i] = tabs[i]
      BY <2>2, <2>3, <2>4
    <3> QED
      BY <2>2, <2>6, <3>1 DEF Fits
  <2>8. \A k \in DOMAIN calls : calls[k].kind = "save" /\ calls[k].new =>
          calls[k].req \notin DOMAIN tree' /\ ~Mentions(list, calls[k].req)
    <3> SUFFICES ASSUME NEW k \in DOMAIN calls, calls[k].kind = "save", calls[k].new
                 PROVE  calls[k].req \notin DOMAIN tree' /\ ~Mentions(list, calls[k].req)
      OBVIOUS
    <3>1. calls[k].req # Nil
      BY <1>2, CallIs, NilIsNone DEF SaveCall
    <3>2. calls[k].req \notin DOMAIN tree /\ ~Mentions(tabs, calls[k].req)
      BY DEF BenchInv, QueueInv, NewIsUnknown
    <3> QED
      BY <1>5, <2>2, <2>3, <2>4, <3>1, <3>2 DEF Mentions
  <2> QED
    BY <1>2, <1>4, <1>6, <1>7, <1>9, <2>5, <2>7, <2>8, AnsweredKeeps
<1> QED
  BY <1>8, <1>9 DEF DeleteAnswered

LEMMA SaveAnsweredKeeps ==
  ASSUME BenchInv, calls # <<>>, NEW call, call = Head(calls), call.kind = "save",
         SaveAnswered(call), calls' = Tail(calls)
  PROVE  BenchInv'
<1>1. /\ call = calls[1] /\ 1 \in DOMAIN calls
      /\ \A q : SavedAfter(calls, 1, q) => SavedAfter(Tail(calls), 0, q)
      /\ \A q : SavedAfter(calls, 0, q) => Saves(calls, 1, q) \/ SavedAfter(Tail(calls), 0, q)
  BY HeadOfQueue
<1>2. /\ BenchShapes /\ tabs \in TabList /\ tree \in Shown /\ calls \in Seq(Call) /\ crossed \subseteq Requests
      /\ Fits(tabs, ws, rows, crossed)
  BY DEF BenchInv, BenchShapes
<1>3. call \in SaveCall
  BY <1>1, <1>2, CallIs
<1> DEFINE q == call.req
<1>4. q \in Requests /\ call.draft \in Drafts /\ call.tab \in TabIds /\ call.new \in BOOLEAN
  BY <1>3 DEF SaveCall
<1>5. SaveFits(calls, 1, rows) /\ NewIsUnknown(calls, 1, tabs, blob, tree)
  BY <1>1 DEF BenchInv, QueueInv
<1>6. /\ q \in DOMAIN rows /\ ~Outwritten(calls, 1, q, call.draft) => rows[q].spec = call.draft
      /\ Outwritten(calls, 1, q, call.draft) => SavedAfter(calls, 1, q)
  BY <1>1, <1>5 DEF SaveFits, Outwritten, SavedAfter
<1>7. tree' = With(tree, q, call.draft) /\ UNCHANGED <<ws, rows>>
  BY DEF SaveAnswered
<1>8. /\ DOMAIN tree' = DOMAIN tree \cup {q} /\ tree' = [p \in DOMAIN tree' |-> tree'[p]]
      /\ tree'[q] = call.draft /\ \A p \in DOMAIN tree : p # q => tree'[p] = tree[p]
  BY <1>7 DEF With
<1>9. tree' \in Shown
  BY <1>2, <1>4, <1>8, TreeIs, TreeMade
<1>10. /\ crossed \subseteq crossed' /\ crossed' \subseteq Requests
       /\ q \in DOMAIN rows \ crossed' => rows[q].ws = ws
  <2>1. crossed' = crossed \cup {p \in {q} \cap DOMAIN rows : rows[p].ws # ws}
    BY DEF SaveAnswered
  <2> QED
    BY <1>2, <1>4, <2>1
<1>11. TreeFits(tree', ws, rows, crossed', calls')
  <2> SUFFICES ASSUME NEW p \in (DOMAIN tree' \cap DOMAIN rows) \ crossed'
               PROVE  rows[p].ws = ws /\ (tree'[p] = rows[p].spec \/ SavedAfter(Tail(calls), 0, p))
    BY DEF TreeFits
  <2>1. CASE p = q
    BY <1>1, <1>6, <1>8, <1>10, <2>1
  <2>2. CASE p # q
    <3>1. p \in DOMAIN tree /\ tree'[p] = tree[p] /\ p \notin crossed
      BY <1>8, <1>10, <2>2
    <3>2. rows[p].ws = ws /\ (tree[p] = rows[p].spec \/ SavedAfter(calls, 0, p))
      BY <3>1 DEF BenchInv, TreeFits
    <3> QED
      BY <1>1, <2>2, <3>1, <3>2 DEF Saves
  <2> QED
    BY <2>1, <2>2
<1> DEFINE Late(i) == \/ tabs[i].draft # call.draft \/ SavedAgain(call)
                      \/ tabs[i].req # (IF call.new THEN Nil ELSE call.req)
           list == [i \in DOMAIN tabs |->
             IF i # call.tab THEN tabs[i]
             ELSE [req |-> IF call.new THEN call.req ELSE tabs[i].req, draft |-> tabs[i].draft,
                   dirty |-> FALSE, raced |-> Late(i)]]
<1>12. PersistNow(list)
  BY DEF SaveAnswered
<1>13. DOMAIN tabs \subseteq TabIds /\ \A i \in DOMAIN tabs : tabs[i] \in OneTab
  BY <1>2, ListIs
<1>14. /\ DOMAIN list = DOMAIN tabs /\ list = [i \in DOMAIN list |-> list[i]]
       /\ \A i \in DOMAIN tabs : i # call.tab => list[i] = tabs[i]
  OBVIOUS
<1>15. ASSUME NEW i \in DOMAIN tabs, i = call.tab
       PROVE  /\ list[i] \in OneTab /\ list[i].draft = tabs[i].draft /\ list[i].raced = Late(i)
              /\ list[i].req = IF call.new THEN q ELSE tabs[i].req
  <2>1. PICK late \in BOOLEAN : late = Late(i)
    OBVIOUS
  <2>2. PICK r \in Requests \cup {Nil} : r = IF call.new THEN q ELSE tabs[i].req
    BY <1>4, <1>13 DEF OneTab
  <2>3. list[i] = [req |-> r, draft |-> tabs[i].draft, dirty |-> FALSE, raced |-> late]
    BY <1>15, <2>1, <2>2
  <2>4. tabs[i].draft \in Drafts
    BY <1>13 DEF OneTab
  <2> HIDE DEF list, Late
  <2> QED
    BY <2>1, <2>2, <2>3, <2>4 DEF OneTab
<1> HIDE DEF list
<1>16. list \in TabList
  BY <1>13, <1>14, <1>15, ListMade
<1>17. call.new => ~Mentions(tabs, q)
  BY <1>1, <1>5 DEF NewIsUnknown
<1>18. ASSUME NEW i \in DOMAIN list, list[i].req \in DOMAIN rows \ crossed'
       PROVE  /\ rows[list[i].req].ws = ws
              /\ ~list[i].dirty /\ ~list[i].raced => list[i].draft = rows[list[i].req].spec
  <2>1. CASE i # call.tab
    BY <1>2, <1>10, <1>14, <1>18, <2>1 DEF Fits
  <2>2. CASE i = call.tab
    <3>1. /\ list[i].draft = tabs[i].draft /\ list[i].raced = Late(i)
          /\ list[i].req = IF call.new THEN q ELSE tabs[i].req
      BY <1>14, <1>15, <2>2
    <3>2. rows[list[i].req].ws = ws
      BY <1>2, <1>10, <1>14, <1>18, <3>1 DEF Fits
    <3>3. ~Late(i) => tabs[i].draft = call.draft /\ ~Outwritten(calls, 1, q, call.draft) /\ list[i].req = q
      BY <3>1, SavedAgainIs
    <3> HIDE DEF Late
    <3> QED
      BY <1>6, <1>18, <3>1, <3>2, <3>3
  <2> QED
    BY <2>1, <2>2
<1>19. \A i, j \in DOMAIN list : list[i].req = list[j].req => i = j \/ list[i].req \in crossed' \cup {Nil}
  <2>1. \A i \in DOMAIN list : list[i].req = tabs[i].req \/ (call.new /\ i = call.tab /\ list[i].req = q)
    BY <1>14, <1>15
  <2> QED
    BY <1>2, <1>10, <1>14, <1>17, <2>1 DEF Fits, Mentions
<1>20. Fits(list, ws, rows, crossed')
  BY <1>18, <1>19 DEF Fits
<1>21. ASSUME NEW k \in DOMAIN calls, k > 1, calls[k].kind = "save", calls[k].new
       PROVE  calls[k].req \notin DOMAIN tree' /\ ~Mentions(list, calls[k].req)
  <2>1. NewIsUnknown(calls, k, tabs, blob, tree)
    BY DEF BenchInv, QueueInv
  <2>2. calls[k].req # q
    BY <1>1, <1>21, <2>1 DEF NewIsUnknown, Saves
  <2> QED
    BY <1>8, <1>14, <1>15, <1>21, <2>1, <2>2 DEF NewIsUnknown, Mentions
<1> QED
  BY <1>7, <1>9, <1>10, <1>11, <1>12, <1>16, <1>20, <1>21, AnsweredKeeps

LEMMA BenchAtFirst == BenchInit => BenchInv
<1> SUFFICES ASSUME BenchInit PROVE BenchInv
  OBVIOUS
<1>1. /\ ws \in Workspaces /\ tabs = <<>> /\ blob = [w \in Workspaces |-> <<>>]
      /\ calls = <<>> /\ crossed = {}
  BY WorkbenchConstants DEF BenchInit
<1>2. \A q \in DOMAIN Filed : q \in Requests /\ Filed[q] \in Workspaces
  BY WorkbenchConstants DEF Requests, Range
<1>3. /\ DOMAIN rows = DOMAIN Filed /\ rows = [q \in DOMAIN rows |-> rows[q]]
      /\ \A q \in DOMAIN rows : rows[q].ws = Filed[q] /\ rows[q].spec = 0 /\ rows[q] \in Row
  BY <1>2, NoEdits DEF BenchInit, Row
<1>4. /\ tree = [q \in DOMAIN tree |-> tree[q]]
      /\ \A q \in DOMAIN tree : q \in DOMAIN Filed /\ Filed[q] = ws /\ tree[q] = 0
  BY DEF BenchInit
<1>5. rows \in RowTable /\ tree \in Shown
  BY <1>2, <1>3, <1>4, NoEdits, TableMade, TreeMade
<1>6. BenchShapes
  BY <1>1, <1>5, NoList, EmptySeq DEF BenchShapes
<1>7. \A w : Fits(<<>>, w, rows, crossed)
  BY NoList DEF Fits
<1>8. Fits(tabs, ws, rows, crossed) /\ \A w \in Workspaces \ {ws} : Fits(blob[w], w, rows, crossed)
  BY <1>1, <1>7
<1>9. TreeFits(tree, ws, rows, crossed, calls)
  BY <1>3, <1>4 DEF TreeFits
<1>10. QueueInv(calls, rows, crossed, tabs, blob, tree)
  BY <1>1, NoList DEF QueueInv
<1> QED
  BY <1>6, <1>8, <1>9, <1>10 DEF BenchInv

LEMMA AnswersKeep ==
  ASSUME BenchInv, Answer
  PROVE  BenchInv'
<1>1. PICK call : calls # <<>> /\ call = Head(calls)
  BY DEF Answer
<1>2. CASE call.kind = "save" /\ SaveAnswered(call) /\ calls' = Tail(calls)
  BY <1>1, <1>2, SaveAnsweredKeeps
<1>3. CASE call.kind = "delete" /\ DeleteAnswered(call) /\ calls' = Tail(calls)
  BY <1>1, <1>3, DeleteAnsweredKeeps
<1>4. CASE call.kind = "load" /\ SettingsAnswered(call)
  BY <1>1, <1>4, SettingsKeeps
<1>5. CASE call.kind = "load" /\ Publish(call) /\ calls' = Tail(calls)
  BY <1>1, <1>5, PublishKeeps
<1> QED
  BY <1>1, <1>2, <1>3, <1>4, <1>5 DEF Answer

LEMMA UserKeeps ==
  ASSUME BenchInv, ByTheUser
  PROVE  BenchInv'
<1>1. CASE OpenScratchTab \/ \E q \in Requests : OpenRequest(q)
  BY <1>1, OpeningKeeps
<1>2. CASE \E q \in Requests : DeleteRequest(q)
  BY <1>2, DeletingKeeps
<1>3. ASSUME NEW i \in DOMAIN tabs, CloseTab(i) \/ UpdateDraft(i) PROVE BenchInv'
  <2>1. UNCHANGED calls
    BY <1>3 DEF CloseTab, UpdateDraft
  <2> QED
    BY <1>3, <2>1, EditingKeeps
<1>4. CASE \E i \in DOMAIN tabs : SaveRequest(i)
  BY <1>4, SavingKeeps
<1>5. CASE \E i \in DOMAIN tabs : SaveScratch(i)
  BY <1>5, FilingKeeps
<1>6. CASE \E w \in Workspaces : SetWorkspace(w)
  BY <1>6, SwitchKeeps
<1> QED
  BY <1>1, <1>2, <1>3, <1>4, <1>5, <1>6 DEF ByTheUser

LEMMA BenchGoesOn == BenchInv /\ [BenchNext]_benchVars => BenchInv'
<1> SUFFICES ASSUME BenchInv, [BenchNext]_benchVars PROVE BenchInv'
  OBVIOUS
<1>1. CASE ByTheUser
  BY <1>1, UserKeeps
<1>2. CASE DebounceFires
  BY <1>2, DebounceKeeps
<1>3. CASE Answer
  BY <1>3, AnswersKeep
<1>4. CASE LoadFails
  BY <1>4, LoadFailsKeeps
<1>5. CASE UNCHANGED benchVars
  <2>1. UNCHANGED <<ws, tabs, blob, rows, tree, calls, crossed>>
    BY <1>5 DEF benchVars
  <2> QED
    BY <2>1 DEF BenchInv, BenchShapes
<1> QED
  BY <1>1, <1>2, <1>3, <1>4, <1>5 DEF BenchNext

\* A clean tab holds what the database has, for any workspaces, requests and bounds:
\* what a save wrote, its answer marks clean only if nothing was typed or saved
\* since, and the tree a tab is opened from is as new as the rows but for saves that
\* are under way, which are answered in their order.
THEOREM CleanTabsAreAlwaysSaved == BenchSpec => []CleanTabsAreSaved
<1>1. BenchInv => CleanTabsAreSaved
  BY DEF BenchInv, Fits, CleanTabsAreSaved
<1> QED
  BY <1>1, BenchAtFirst, BenchGoesOn, PTL DEF BenchSpec

(* ----------------------------- what was typed ---------------------------- *)

Told == UNION {[D -> Drafts] : D \in SUBSET TabIds}
IsLoad(queue, k) == queue[k].kind = "load"
\* A load of tabs nothing was written over brings what was typed, to the workspace
\* that waits for it, and there is one.
LoadsTell(queue, except, here, told) ==
  \A k \in DOMAIN queue : IsLoad(queue, k) /\ queue[k].ws \notin except =>
    /\ queue[k].ws = here /\ DraftsOf(queue[k].raw) = told
    /\ \A l \in DOMAIN queue : IsLoad(queue, l) /\ queue[l].ws = here => l = k
NoLoads(queue, except) == \A k \in DOMAIN queue : IsLoad(queue, k) => queue[k].ws \in except
DraftInv ==
  /\ armed \in BOOLEAN /\ spoilt \subseteq Workspaces /\ typed \in [Workspaces -> Told]
  /\ ws \notin spoilt /\ ~shown => tabs = <<>>
  /\ shown => NoLoads(calls, spoilt)
  /\ LoadsTell(calls, spoilt, ws, typed[ws])
  /\ NoDraftIsLost

LEMMA ToldIs ==
  ASSUME NEW t \in Told
  PROVE  DOMAIN t \subseteq TabIds /\ t = [i \in DOMAIN t |-> t[i]] /\ \A i \in DOMAIN t : t[i] \in Drafts
<1>1. PICK D \in SUBSET TabIds : t \in [D -> Drafts]
  BY DEF Told
<1> QED
  BY <1>1

LEMMA ToldMade ==
  ASSUME NEW t, t = [i \in DOMAIN t |-> t[i]],
         DOMAIN t \subseteq TabIds, \A i \in DOMAIN t : t[i] \in Drafts
  PROVE  t \in Told
<1>1. t \in [DOMAIN t -> Drafts]
  OBVIOUS
<1> QED
  BY <1>1 DEF Told

LEMMA ToldWith ==
  ASSUME NEW t \in Told, NEW i \in TabIds, NEW draft \in Drafts
  PROVE  With(t, i, draft) \in Told
<1>1. PICK o : o = With(t, i, draft)
  OBVIOUS
<1>2. DOMAIN o = DOMAIN t \cup {i} /\ o = [j \in DOMAIN o |-> o[j]]
      /\ \A j \in DOMAIN o : o[j] = IF j = i THEN draft ELSE t[j]
  BY <1>1 DEF With
<1> QED
  BY <1>1, <1>2, ToldIs, ToldMade

LEMMA ToldWithout ==
  ASSUME NEW t \in Told, NEW i
  PROVE  Without(t, i) \in Told
<1>1. PICK o : o = Without(t, i)
  OBVIOUS
<1>2. DOMAIN o = DOMAIN t \ {i} /\ o = [j \in DOMAIN o |-> o[j]] /\ \A j \in DOMAIN o : o[j] = t[j]
  BY <1>1 DEF Without
<1> QED
  BY <1>1, <1>2, ToldIs, ToldMade

LEMMA ShownIsQuiet ==
  ASSUME DraftInv, shown \/ ws \in spoilt
  PROVE  NoLoads(calls, spoilt)
BY DEF DraftInv, NoLoads, LoadsTell

LEMMA NoLoadsTell ==
  ASSUME NEW queue, NEW except, NEW here, NEW told, NoLoads(queue, except)
  PROVE  LoadsTell(queue, except, here, told)
BY DEF NoLoads, LoadsTell

LEMMA FewerLoads ==
  ASSUME NEW queue, NEW ex, NEW ex2, ex \subseteq ex2, NoLoads(queue, ex)
  PROVE  NoLoads(queue, ex2)
BY DEF NoLoads

LEMMA TailTells ==
  ASSUME NEW queue \in Seq(Call), queue # <<>>
  PROVE  /\ \A ex : NoLoads(queue, ex) => NoLoads(Tail(queue), ex)
         /\ \A ex, here, told : LoadsTell(queue, ex, here, told) => LoadsTell(Tail(queue), ex, here, told)
         /\ \A ex, here, told : /\ LoadsTell(queue, ex, here, told) /\ here \notin ex
                                /\ IsLoad(queue, 1) /\ queue[1].ws = here
                                => NoLoads(Tail(queue), ex)
<1>1. PICK t : t = Tail(queue)
  OBVIOUS
<1>2. \A k \in DOMAIN t : k \in Nat /\ k > 0 /\ k + 1 \in DOMAIN queue /\ t[k] = queue[k + 1]
  BY <1>1
<1>3. 1 \in DOMAIN queue
  BY QueueAnswered
<1>4. \A k, l \in DOMAIN t : k + 1 = l + 1 => k = l
  BY <1>2
<1>5. \A k \in DOMAIN t : k + 1 # 1
  BY <1>2
<1>6. ASSUME NEW ex, NoLoads(queue, ex) PROVE NoLoads(t, ex)
  BY <1>2, <1>6 DEF NoLoads, IsLoad
<1>7. ASSUME NEW ex, NEW here, NEW told, LoadsTell(queue, ex, here, told) PROVE LoadsTell(t, ex, here, told)
  BY <1>2, <1>4, <1>7 DEF LoadsTell, IsLoad
<1>8. ASSUME NEW ex, NEW here, NEW told, LoadsTell(queue, ex, here, told), here \notin ex,
             IsLoad(queue, 1), queue[1].ws = here
      PROVE  NoLoads(t, ex)
  BY <1>2, <1>3, <1>5, <1>8 DEF LoadsTell, NoLoads, IsLoad
<1> QED
  BY <1>1, <1>6, <1>7, <1>8

LEMMA AppendTells ==
  ASSUME NEW queue \in Seq(Call), NEW call \in Call
  PROVE  /\ \A ex : NoLoads(queue, ex) /\ (call.kind = "load" => call.ws \in ex) => NoLoads(Append(queue, call), ex)
         /\ \A ex, here, told :
              LoadsTell(queue, ex, here, told) /\ (call.kind = "load" => call.ws \in ex /\ call.ws # here) =>
                LoadsTell(Append(queue, call), ex, here, told)
         /\ \A ex, here, told :
              /\ NoLoads(queue, ex) /\ here \notin ex
              /\ call.kind = "load" => call.ws = here /\ DraftsOf(call.raw) = told
              => LoadsTell(Append(queue, call), ex, here, told)
<1>1. PICK t, n : t = Append(queue, call) /\ n = Len(queue) + 1
  OBVIOUS
<1>2. /\ DOMAIN t = DOMAIN queue \cup {n} /\ t[n] = call
      /\ \A k \in DOMAIN queue : k # n /\ t[k] = queue[k]
  BY <1>1, QueueAppended
<1>3. ASSUME NEW ex, NoLoads(queue, ex), call.kind = "load" => call.ws \in ex PROVE NoLoads(t, ex)
  BY <1>2, <1>3 DEF NoLoads, IsLoad
<1>4. ASSUME NEW ex, NEW here, NEW told, LoadsTell(queue, ex, here, told),
             call.kind = "load" => call.ws \in ex /\ call.ws # here
      PROVE  LoadsTell(t, ex, here, told)
  BY <1>2, <1>4 DEF LoadsTell, IsLoad
<1>5. ASSUME NEW ex, NEW here, NEW told, NoLoads(queue, ex), here \notin ex,
             call.kind = "load" => call.ws = here /\ DraftsOf(call.raw) = told
      PROVE  LoadsTell(t, ex, here, told)
  BY <1>2, <1>5 DEF LoadsTell, NoLoads, IsLoad
<1> QED
  BY <1>1, <1>3, <1>4, <1>5

\* persistNow: either the list is what was typed in the workspace shown, or the
\* workspace is spoilt.
LEMMA PersistingTells ==
  ASSUME BenchInv, DraftInv, NEW list \in TabList, PersistNow(list), UNCHANGED <<ws, shown>>,
         UNCHANGED calls \/ (calls # <<>> /\ calls' = Tail(calls)),
         typed' \in [Workspaces -> Told], \A w \in Workspaces \ {ws} : typed'[w] = typed[w],
         shown /\ ws \notin spoilt => typed'[ws] = DraftsOf(list)
  PROVE  DraftInv'
<1>1. ws \in Workspaces /\ blob \in [Workspaces -> TabList] /\ calls \in Seq(Call)
  BY DEF BenchInv, BenchShapes
<1>2. /\ tabs' = list /\ blob' = [blob EXCEPT ![ws] = list] /\ armed' = FALSE
      /\ spoilt' = IF shown THEN spoilt ELSE spoilt \cup {ws}
  BY DEF PersistNow, Spoils
<1>3. spoilt \subseteq spoilt' /\ spoilt' \subseteq Workspaces
  BY <1>1, <1>2 DEF DraftInv
<1>4. NoLoads(calls, spoilt')
  <2>1. CASE shown \/ ws \in spoilt
    BY <1>3, <2>1, ShownIsQuiet, FewerLoads
  <2>2. CASE ~shown /\ ws \notin spoilt
    <3>1. ws \in spoilt'
      BY <1>2, <2>2
    <3> QED
      BY <1>3, <3>1 DEF DraftInv, NoLoads, LoadsTell
  <2> QED
    BY <2>1, <2>2
<1>5. NoLoads(calls', spoilt')
  BY <1>1, <1>4, TailTells
<1>6. LoadsTell(calls', spoilt', ws', typed'[ws'])
  BY <1>5, NoLoadsTell
<1>7. ASSUME NEW w \in Workspaces \ spoilt'
      PROVE  DraftsOf(blob'[w]) = typed'[w] /\ (w = ws => DraftsOf(tabs') = typed'[w])
  <2>1. w \notin spoilt
    BY <1>3, <1>7
  <2>2. CASE w = ws
    <3>1. shown
      BY <1>2, <1>7, <2>2
    <3> QED
      BY <1>1, <1>2, <2>1, <2>2, <3>1
  <2>3. CASE w # ws
    BY <1>1, <1>2, <1>7, <2>1, <2>3 DEF DraftInv, NoDraftIsLost
  <2> QED
    BY <2>2, <2>3
<1>8. NoDraftIsLost'
  BY <1>7 DEF NoDraftIsLost, DraftsOf
<1>9. ws' \notin spoilt' => shown'
  BY <1>2
<1> QED
  BY <1>2, <1>3, <1>5, <1>6, <1>8, <1>9 DEF DraftInv

\* Nothing but the queue changes, and in it a call that is not a load.
LEMMA QueuesTell ==
  ASSUME DraftInv, UNCHANGED <<ws, shown, tabs, armed, blob, typed, spoilt>>,
         NoLoads(calls, spoilt) => NoLoads(calls', spoilt),
         LoadsTell(calls, spoilt, ws, typed[ws]) => LoadsTell(calls', spoilt, ws, typed[ws])
  PROVE  DraftInv'
BY DEF DraftInv, NoDraftIsLost, DraftsOf

LEMMA OpeningTells ==
  ASSUME BenchInv, DraftInv, NEW q \in Requests \cup {Nil}, NEW draft \in Drafts, OpenTab(q, draft)
  PROVE  DraftInv'
<1>1. PICK i \in NewTabs :
        /\ PersistNow(With(tabs, i, [req |-> q, draft |-> draft, dirty |-> FALSE, raced |-> Writing(q)]))
        /\ Types(i, draft) /\ UNCHANGED <<ws, shown, calls>>
  BY DEF OpenTab
<1>2. PICK tab, list : /\ tab = [req |-> q, draft |-> draft, dirty |-> FALSE, raced |-> Writing(q)]
                       /\ list = With(tabs, i, tab)
  OBVIOUS
<1>3. i \in TabIds /\ i \notin DOMAIN tabs /\ tabs \in TabList /\ ws \in Workspaces
  BY NewTabsAreFree DEF BenchInv, BenchShapes
<1>4. Writing(q) \in BOOLEAN
  BY DEF Writing
<1>5. tab \in OneTab /\ tab.draft = draft
  BY <1>2, <1>4 DEF OneTab
<1>6. /\ DOMAIN list = DOMAIN tabs \cup {i} /\ list = [j \in DOMAIN list |-> list[j]]
      /\ list[i] = tab /\ \A j \in DOMAIN tabs : j # i /\ list[j] = tabs[j]
  BY <1>2, <1>3 DEF With
<1>7. list \in TabList
  BY <1>3, <1>5, <1>6, ListIs, ListMade
<1>8. typed' = [typed EXCEPT ![ws] = With(typed[ws], i, draft)] /\ typed \in [Workspaces -> Told]
  BY <1>1 DEF Types, DraftInv
<1>9. With(typed[ws], i, draft) \in Told
  BY <1>3, <1>8, ToldWith
<1>10. ASSUME shown, ws \notin spoilt PROVE typed'[ws] = DraftsOf(list)
  <2>1. typed[ws] = DraftsOf(tabs)
    BY <1>3, <1>10 DEF DraftInv, NoDraftIsLost
  <2>2. With(DraftsOf(tabs), i, draft) = DraftsOf(list)
    BY <1>3, <1>5, <1>6 DEF With, DraftsOf
  <2> QED
    BY <1>3, <1>8, <2>1, <2>2
<1>11. /\ typed' \in [Workspaces -> Told] /\ \A w \in Workspaces \ {ws} : typed'[w] = typed[w]
       /\ PersistNow(list)
  BY <1>1, <1>2, <1>8, <1>9
<1> QED
  BY <1>1, <1>7, <1>10, <1>11, PersistingTells

LEMMA ClosingTells ==
  ASSUME BenchInv, DraftInv, NEW i \in DOMAIN tabs, CloseTab(i)
  PROVE  DraftInv'
<1>1. PICK list : list = Without(tabs, i) /\ PersistNow(list)
  BY DEF CloseTab
<1>2. tabs \in TabList /\ ws \in Workspaces /\ UNCHANGED <<ws, shown, calls>>
  BY DEF BenchInv, BenchShapes, CloseTab
<1>3. /\ DOMAIN list = DOMAIN tabs \ {i} /\ list = [j \in DOMAIN list |-> list[j]]
      /\ \A j \in DOMAIN list : list[j] = tabs[j]
  BY <1>1 DEF Without
<1>4. list \in TabList
  BY <1>2, <1>3, ListIs, ListMade
<1>5. typed' = [typed EXCEPT ![ws] = Without(typed[ws], i)] /\ typed \in [Workspaces -> Told]
  BY DEF CloseTab, DraftInv
<1>6. Without(typed[ws], i) \in Told
  BY <1>2, <1>5, ToldWithout
<1>7. ASSUME shown, ws \notin spoilt PROVE typed'[ws] = DraftsOf(list)
  <2>1. typed[ws] = DraftsOf(tabs)
    BY <1>2, <1>7 DEF DraftInv, NoDraftIsLost
  <2>2. Without(DraftsOf(tabs), i) = DraftsOf(list)
    BY <1>3 DEF Without, DraftsOf
  <2> QED
    BY <1>2, <1>5, <2>1, <2>2
<1>8. typed' \in [Workspaces -> Told] /\ \A w \in Workspaces \ {ws} : typed'[w] = typed[w]
  BY <1>2, <1>5, <1>6
<1> QED
  BY <1>1, <1>2, <1>4, <1>7, <1>8, PersistingTells

LEMMA TypingTells ==
  ASSUME BenchInv, DraftInv, NEW i \in DOMAIN tabs, UpdateDraft(i)
  PROVE  DraftInv'
<1>1. tabs \in TabList /\ ws \in Workspaces /\ UNCHANGED <<ws, shown, calls, blob, spoilt>>
  BY DEF BenchInv, BenchShapes, UpdateDraft
<1>2. i \in TabIds /\ tabs[i] \in OneTab
  BY <1>1, ListIs
<1>3. PICK d : d = tabs[i].draft + 1
  OBVIOUS
<1>4. d \in Drafts
  BY <1>2, <1>3, WorkbenchConstants DEF OneTab, Drafts, UpdateDraft
<1>5. DOMAIN tabs' = DOMAIN tabs /\ tabs'[i].draft = d /\ \A j \in DOMAIN tabs \ {i} : tabs'[j] = tabs[j]
  BY <1>2, <1>3 DEF UpdateDraft, OneTab
<1>6. typed' = [typed EXCEPT ![ws] = With(typed[ws], i, d)] /\ typed \in [Workspaces -> Told] /\ armed' = TRUE
  BY <1>3 DEF UpdateDraft, Types, DraftInv
<1>7. With(typed[ws], i, d) \in Told
  BY <1>1, <1>2, <1>4, <1>6, ToldWith
<1>8. shown \/ ws \in spoilt
  BY NoList DEF DraftInv
<1>9. NoLoads(calls, spoilt)
  BY <1>8, ShownIsQuiet
<1>10. ASSUME NEW w \in Workspaces \ spoilt
       PROVE  ((w = ws /\ armed') \/ DraftsOf(blob[w]) = typed'[w]) /\ (w = ws => DraftsOf(tabs') = typed'[w])
  <2>1. CASE w # ws
    BY <1>1, <1>6, <1>10, <2>1 DEF DraftInv, NoDraftIsLost
  <2>2. CASE w = ws
    <3>1. typed[ws] = DraftsOf(tabs)
      BY <1>1, <1>8, <1>10, <2>2 DEF DraftInv, NoDraftIsLost
    <3>2. With(DraftsOf(tabs), i, d) = DraftsOf(tabs')
      BY <1>5 DEF With, DraftsOf
    <3> QED
      BY <1>1, <1>6, <2>2, <3>1, <3>2
  <2> QED
    BY <2>1, <2>2
<1>11. NoDraftIsLost'
  BY <1>1, <1>10 DEF NoDraftIsLost, DraftsOf
<1>12. LoadsTell(calls, spoilt, ws, typed'[ws])
  BY <1>9, NoLoadsTell
<1>13. typed' \in [Workspaces -> Told]
  BY <1>6, <1>7
<1> QED
  BY <1>1, <1>6, <1>8, <1>9, <1>11, <1>12, <1>13 DEF DraftInv

LEMMA SavingTells ==
  ASSUME BenchInv, DraftInv, NEW i \in DOMAIN tabs, SaveRequest(i)
  PROVE  DraftInv'
<1>1. tabs \in TabList /\ BenchShapes /\ UNCHANGED <<ws, shown, tabs, armed, blob, typed, spoilt>>
  BY DEF BenchInv, BenchShapes, SaveRequest
<1>2. PICK call : /\ call = [kind |-> "save", tab |-> i, req |-> tabs[i].req, draft |-> tabs[i].draft, new |-> FALSE]
                  /\ calls' = Append(Outdated(tabs[i].req), call) /\ tabs[i].req \in DOMAIN tree
  BY DEF SaveRequest
<1>3. call \in Call /\ call.kind = "save"
  <2>1. tabs[i] \in OneTab /\ i \in TabIds
    BY <1>1, ListIs
  <2>2. tabs[i].req \in Requests
    BY <1>1, <1>2, TreeIs DEF BenchShapes
  <2>3. tabs[i].draft \in Drafts
    BY <2>1 DEF OneTab
  <2> QED
    BY <1>2, <2>1, <2>2, <2>3 DEF Call, SaveCall
<1>4. PICK o : o = Outdated(tabs[i].req) /\ o \in Seq(Call) /\ RacedIn(calls, o, tabs[i].req)
  BY <1>1, QueueRaced
<1>5. NoLoads(calls, spoilt)
  BY NoList, ShownIsQuiet DEF DraftInv
<1>6. NoLoads(o, spoilt)
  BY <1>4, <1>5 DEF NoLoads, IsLoad, RacedIn
<1>7. NoLoads(calls', spoilt)
  BY <1>2, <1>3, <1>4, <1>6, AppendTells
<1> QED
  BY <1>1, <1>7, NoLoadsTell, QueuesTell

LEMMA FilingTells ==
  ASSUME BenchInv, DraftInv, (\E i \in DOMAIN tabs : SaveScratch(i)) \/ \E q \in Requests : DeleteRequest(q)
  PROVE  DraftInv'
<1>1. BenchShapes /\ calls \in Seq(Call)
  BY DEF BenchInv, BenchShapes
<1>2. ASSUME NEW call \in Call, call.kind # "load", Queue(call),
             UNCHANGED <<ws, shown, tabs, armed, blob, typed, spoilt>>
      PROVE  DraftInv'
  BY <1>1, <1>2, AppendTells, QueuesTell DEF Queue
<1>3. ASSUME NEW i \in DOMAIN tabs, SaveScratch(i) PROVE DraftInv'
  <2>1. PICK q \in NewRequests : /\ Queue([kind |-> "save", tab |-> i, req |-> q, draft |-> tabs[i].draft, new |-> TRUE])
                                 /\ UNCHANGED <<ws, shown, tabs, armed, blob, typed, spoilt>>
    BY <1>3 DEF SaveScratch
  <2>2. tabs[i] \in OneTab /\ i \in TabIds /\ q \in Requests
    BY <1>1, ListIs DEF BenchShapes, NewRequests, Requests
  <2>3. tabs[i].draft \in Drafts
    BY <2>2 DEF OneTab
  <2>4. [kind |-> "save", tab |-> i, req |-> q, draft |-> tabs[i].draft, new |-> TRUE] \in Call
    BY <2>2, <2>3 DEF Call, SaveCall
  <2> QED
    BY <2>1, <2>4, <1>2
<1>4. ASSUME NEW q \in Requests, DeleteRequest(q) PROVE DraftInv'
  <2>1. [kind |-> "delete", req |-> q] \in Call
    BY DEF Call, DeleteCall
  <2> QED
    BY <1>2, <1>4, <2>1 DEF DeleteRequest
<1> QED
  BY <1>3, <1>4

\* The switch: what is left is written while it is still on screen, and the load that
\* is asked for reads a setting that nothing else is about to write.
LEMMA SwitchTells ==
  ASSUME BenchInv, DraftInv, NEW w \in Workspaces, SetWorkspace(w)
  PROVE  DraftInv'
<1>1. ws \in Workspaces /\ blob \in [Workspaces -> TabList] /\ calls \in Seq(Call)
  BY DEF BenchInv, BenchShapes
<1>2. /\ w # ws /\ ws' = w /\ shown' = FALSE /\ tabs' = <<>> /\ armed' = FALSE /\ typed' = typed
      /\ blob' = [blob EXCEPT ![ws] = tabs] /\ spoilt' = IF shown THEN spoilt ELSE spoilt \cup {ws}
  BY DEF SetWorkspace, Spoils
<1>3. spoilt \subseteq spoilt' /\ spoilt' \subseteq Workspaces /\ (w \in spoilt' <=> w \in spoilt)
  BY <1>1, <1>2 DEF DraftInv
<1>4. NoLoads(calls, spoilt')
  <2>1. CASE shown \/ ws \in spoilt
    BY <1>3, <2>1, ShownIsQuiet, FewerLoads
  <2>2. CASE ~shown /\ ws \notin spoilt
    <3>1. ws \in spoilt'
      BY <1>2, <2>2
    <3> QED
      BY <1>3, <3>1 DEF DraftInv, NoLoads, LoadsTell
  <2> QED
    BY <2>1, <2>2
<1>5. ASSUME NEW v \in Workspaces \ spoilt' PROVE DraftsOf(blob'[v]) = typed[v]
  <2>1. CASE v = ws
    BY <1>1, <1>2, <1>5, <2>1 DEF DraftInv, NoDraftIsLost
  <2>2. CASE v # ws
    BY <1>1, <1>2, <1>3, <1>5, <2>2 DEF DraftInv, NoDraftIsLost
  <2> QED
    BY <2>1, <2>2
<1>6. NoDraftIsLost'
  BY <1>2, <1>5 DEF NoDraftIsLost, DraftsOf
<1>7. PICK raw : raw = blob[w] /\ raw \in TabList
  BY <1>1
<1>8. PICK load : load = [kind |-> "load", ws |-> w, raw |-> raw, asked |-> FALSE, rows |-> <<>>]
  OBVIOUS
<1>9. load \in Call /\ load.kind = "load" /\ load.ws = w /\ load.raw = raw
  BY <1>7, <1>8, NoList DEF Call, LoadCall
<1>10. calls' = Append(calls, load)
  BY <1>7, <1>8 DEF SetWorkspace, Queue
<1>11. LoadsTell(calls', spoilt', w, typed[w])
  <2>1. CASE w \in spoilt'
    BY <1>1, <1>4, <1>9, <1>10, <2>1, AppendTells, NoLoadsTell
  <2>2. CASE w \notin spoilt'
    <3>1. DraftsOf(raw) = typed[w]
      BY <1>2, <1>3, <1>7, <2>2 DEF DraftInv, NoDraftIsLost
    <3> QED
      BY <1>1, <1>4, <1>9, <1>10, <2>2, <3>1, AppendTells
  <2> QED
    BY <2>1, <2>2
<1> QED
  BY <1>2, <1>3, <1>6, <1>11 DEF DraftInv

LEMMA FiledTells ==
  ASSUME BenchInv, DraftInv, calls # <<>>, calls' = Tail(calls), UNCHANGED <<ws, shown, typed>>,
         NEW list \in TabList, PersistNow(list), DraftsOf(list) = DraftsOf(tabs)
  PROVE  DraftInv'
<1>1. ws \in Workspaces
  BY DEF BenchInv, BenchShapes
<1>2. shown /\ ws \notin spoilt => typed'[ws] = DraftsOf(list)
  BY <1>1 DEF DraftInv, NoDraftIsLost
<1>3. typed' \in [Workspaces -> Told] /\ \A w \in Workspaces \ {ws} : typed'[w] = typed[w]
  BY DEF DraftInv
<1> QED
  BY <1>2, <1>3, PersistingTells

LEMMA AnswersTell ==
  ASSUME BenchInv, BenchInv', DraftInv, Answer
  PROVE  DraftInv'
<1>1. PICK call : calls # <<>> /\ call = Head(calls)
  BY DEF Answer
<1>2. /\ call = calls[1] /\ 1 \in DOMAIN calls /\ calls \in Seq(Call) /\ Tail(calls) \in Seq(Call)
      /\ ws \in Workspaces /\ tabs' \in TabList
  BY <1>1, HeadOfQueue DEF BenchInv, BenchShapes
<1>3. CASE SaveAnswered(call) /\ calls' = Tail(calls)
  <2>1. PICK list : /\ PersistNow(list) /\ DOMAIN list = DOMAIN tabs
                    /\ list = [i \in DOMAIN tabs |->
                         IF i # call.tab THEN tabs[i]
                         ELSE [req |-> IF call.new THEN call.req ELSE tabs[i].req, draft |-> tabs[i].draft,
                               dirty |-> FALSE,
                               raced |-> \/ tabs[i].draft # call.draft \/ SavedAgain(call)
                                         \/ tabs[i].req # (IF call.new THEN Nil ELSE call.req)]]
    BY <1>3 DEF SaveAnswered
  <2>2. \A i \in DOMAIN tabs : list[i].draft = tabs[i].draft
    BY <2>1
  <2>3. DraftsOf(list) = DraftsOf(tabs) /\ list \in TabList
    BY <1>2, <2>1, <2>2 DEF DraftsOf, PersistNow
  <2>4. UNCHANGED <<ws, shown, typed>>
    BY <1>3 DEF SaveAnswered
  <2> QED
    BY <1>1, <1>3, <2>1, <2>3, <2>4, FiledTells
<1>4. CASE DeleteAnswered(call) /\ calls' = Tail(calls)
  <2>0. UNCHANGED <<ws, shown, typed>>
    BY <1>4 DEF DeleteAnswered
  <2>1. CASE UNCHANGED <<tabs, armed, blob, spoilt>>
    BY <1>1, <1>2, <1>4, <2>0, <2>1, TailTells, QueuesTell
  <2>2. PICK list : /\ DOMAIN list = DOMAIN tabs
                    /\ list = [i \in DOMAIN tabs |->
                         IF tabs[i].req = call.req THEN [tabs[i] EXCEPT !.req = Nil, !.dirty = TRUE] ELSE tabs[i]]
    OBVIOUS
  <2>3. CASE PersistNow(list)
    <3>1. ASSUME NEW i \in DOMAIN tabs PROVE list[i].draft = tabs[i].draft
      <4>1. tabs[i] \in OneTab /\ tabs \in TabList
        BY ListIs DEF BenchInv, BenchShapes
      <4>2. list[i] = tabs[i] \/ list[i] = [tabs[i] EXCEPT !.req = Nil, !.dirty = TRUE]
        BY <2>2
      <4> QED
        BY <4>1, <4>2 DEF OneTab
    <3>2. DraftsOf(list) = DraftsOf(tabs) /\ list \in TabList
      BY <1>2, <2>2, <2>3, <3>1 DEF DraftsOf, PersistNow
    <3> QED
      BY <1>1, <1>4, <2>0, <2>3, <3>2, FiledTells
  <2> QED
    BY <1>4, <2>1, <2>2, <2>3 DEF DeleteAnswered
<1>5. CASE call.kind = "load" /\ SettingsAnswered(call)
  <2>1. PICK load \in LoadCall :
          /\ calls' = Append(Tail(calls), load) /\ load.ws = call.ws
          /\ \/ load.raw = call.raw /\ spoilt' = spoilt
             \/ load.raw = <<>> /\ spoilt' = spoilt \cup {call.ws}
    BY <1>1, <1>5, SettingsBring
  <2>2. call \in LoadCall /\ UNCHANGED <<ws, shown, tabs, armed, blob, typed>>
    BY <1>1, <1>5, SettingsBring
  <2>3. load \in Call /\ load.kind = "load" /\ IsLoad(calls, 1)
    BY <1>2, <1>5 DEF Call, LoadCall, IsLoad
  <2>4. spoilt \subseteq spoilt' /\ spoilt' \subseteq Workspaces
    BY <2>1, <2>2 DEF DraftInv, LoadCall
  <2>5. ASSUME NoLoads(calls, spoilt) PROVE NoLoads(calls', spoilt')
    <3>1. load.ws \in spoilt'
      BY <1>2, <2>1, <2>3, <2>4, <2>5 DEF NoLoads
    <3>2. NoLoads(Tail(calls), spoilt')
      BY <1>1, <1>2, <2>4, <2>5, TailTells, FewerLoads
    <3> QED
      BY <1>2, <2>1, <2>3, <3>1, <3>2, AppendTells
  <2>6. LoadsTell(calls', spoilt', ws, typed[ws])
    <3>1. CASE NoLoads(calls, spoilt)
      BY <2>5, <3>1, NoLoadsTell
    <3>2. CASE ~NoLoads(calls, spoilt)
      <4>1. ws \notin spoilt /\ ~shown
        BY <3>2, ShownIsQuiet
      <4>2. CASE call.ws = ws
        <5>1. LoadsTell(calls, spoilt, ws, typed[ws])
          BY DEF DraftInv
        <5>2. NoLoads(Tail(calls), spoilt)
          BY <1>1, <1>2, <2>3, <4>1, <4>2, <5>1, TailTells
        <5>3. CASE load.raw = call.raw /\ spoilt' = spoilt
          <6>1. DraftsOf(load.raw) = typed[ws]
            BY <1>2, <2>3, <4>1, <4>2, <5>1, <5>3 DEF LoadsTell
          <6> QED
            BY <1>2, <2>1, <2>3, <4>1, <4>2, <5>2, <5>3, <6>1, AppendTells
        <5>4. CASE spoilt' = spoilt \cup {call.ws}
          <6>1. NoLoads(Tail(calls), spoilt') /\ load.ws \in spoilt'
            BY <2>1, <2>4, <5>2, <5>4, FewerLoads
          <6> QED
            BY <1>2, <2>1, <2>3, <6>1, AppendTells, NoLoadsTell
        <5> QED
          BY <2>1, <5>3, <5>4
      <4>3. CASE call.ws # ws
        <5>1. LoadsTell(calls, spoilt, ws, typed[ws])
          BY DEF DraftInv
        <5>2. call.ws \in spoilt
          BY <1>2, <2>3, <4>3, <5>1 DEF LoadsTell
        <5>3. spoilt' = spoilt
          BY <2>1, <5>2
        <5>4. LoadsTell(Tail(calls), spoilt, ws, typed[ws])
          BY <1>1, <1>2, <5>1, TailTells
        <5> QED
          BY <1>2, <2>1, <2>3, <4>3, <5>2, <5>3, <5>4, AppendTells
      <4> QED
        BY <4>2, <4>3
    <3> QED
      BY <3>1, <3>2
  <2>7. NoDraftIsLost'
    BY <2>2, <2>4 DEF DraftInv, NoDraftIsLost, DraftsOf
  <2> QED
    BY <2>2, <2>4, <2>5, <2>6, <2>7 DEF DraftInv
<1>6. CASE call.kind = "load" /\ Publish(call) /\ calls' = Tail(calls)
  <2>1. UNCHANGED <<ws, armed, blob, typed, spoilt>> /\ IsLoad(calls, 1)
    BY <1>2, <1>6 DEF Publish, IsLoad
  <2>2. CASE call.ws # ws
    <3>1. UNCHANGED <<tabs, shown>>
      BY <1>6, <2>2 DEF Publish
    <3> QED
      BY <1>1, <1>2, <1>6, <2>1, <3>1, TailTells, QueuesTell
  <2>3. CASE call.ws = ws
    <3>1. tabs' = call.raw /\ shown' = TRUE
      BY <1>6, <2>3 DEF Publish
    <3>2. LoadsTell(calls, spoilt, ws, typed[ws])
      BY DEF DraftInv
    <3>3. NoLoads(Tail(calls), spoilt)
      <4>1. CASE ws \in spoilt
        BY <1>1, <1>2, <4>1, ShownIsQuiet, TailTells
      <4>2. CASE ws \notin spoilt
        BY <1>1, <1>2, <2>1, <2>3, <3>2, <4>2, TailTells
      <4> QED
        BY <4>1, <4>2
    <3>4. ws \notin spoilt => DraftsOf(call.raw) = typed[ws]
      BY <1>2, <2>1, <2>3, <3>2 DEF LoadsTell
    <3>5. NoDraftIsLost'
      BY <2>1, <3>1, <3>4 DEF DraftInv, NoDraftIsLost, DraftsOf
    <3> QED
      BY <1>6, <2>1, <3>1, <3>3, <3>5, NoLoadsTell DEF DraftInv
  <2> QED
    BY <2>2, <2>3
<1> QED
  BY <1>1, <1>3, <1>4, <1>5, <1>6 DEF Answer

LEMMA DraftAtFirst == BenchInit => DraftInv
<1> SUFFICES ASSUME BenchInit PROVE DraftInv
  OBVIOUS
<1>1. /\ ws \in Workspaces /\ tabs = <<>> /\ blob = [w \in Workspaces |-> <<>>] /\ calls = <<>> /\ armed = FALSE
      /\ shown = TRUE /\ typed = [w \in Workspaces |-> <<>>] /\ spoilt = {}
  BY WorkbenchConstants DEF BenchInit
<1>2. <<>> = [i \in DOMAIN <<>> |-> <<>>[i]] /\ DOMAIN <<>> = {}
  OBVIOUS
<1>3. <<>> \in Told
  BY <1>2, ToldMade
<1>4. DraftsOf(<<>>) = <<>>
  BY <1>2 DEF DraftsOf
<1>5. NoLoads(calls, spoilt)
  BY <1>1, NoList DEF NoLoads
<1>6. NoDraftIsLost
  BY <1>1, <1>4 DEF NoDraftIsLost
<1> QED
  BY <1>1, <1>3, <1>5, <1>6, NoLoadsTell DEF DraftInv

LEMMA DraftGoesOn == BenchInv /\ DraftInv /\ [BenchNext]_benchVars => DraftInv'
<1> SUFFICES ASSUME BenchInv, DraftInv, [BenchNext]_benchVars PROVE DraftInv'
  OBVIOUS
<1>0. BenchInv' /\ BenchShapes /\ BenchShapes'
  BY BenchGoesOn DEF BenchInv
<1>1. CASE \E q \in Requests : OpenRequest(q)
  <2>1. PICK q \in Requests : OpenRequest(q)
    BY <1>1
  <2>2. tree[q] \in Drafts
    BY <1>0, <2>1, TreeIs DEF OpenRequest, BenchShapes
  <2> QED
    BY <2>1, <2>2, OpeningTells DEF OpenRequest
<1>2. CASE OpenScratchTab
  BY <1>2, NoEdits, OpeningTells DEF OpenScratchTab
<1>3. CASE \E i \in DOMAIN tabs : CloseTab(i) \/ UpdateDraft(i) \/ SaveRequest(i)
  BY <1>3, ClosingTells, TypingTells, SavingTells
<1>4. CASE (\E i \in DOMAIN tabs : SaveScratch(i)) \/ \E q \in Requests : DeleteRequest(q)
  BY <1>4, FilingTells
<1>5. CASE \E w \in Workspaces : SetWorkspace(w)
  BY <1>5, SwitchTells
<1>6. CASE DebounceFires
  <2>1. PersistNow(tabs) /\ UNCHANGED <<ws, shown, typed, calls>> /\ tabs \in TabList /\ ws \in Workspaces
    BY <1>0, <1>6 DEF DebounceFires, BenchShapes
  <2>2. typed' \in [Workspaces -> Told] /\ \A w \in Workspaces \ {ws} : typed'[w] = typed[w]
    BY <2>1 DEF DraftInv
  <2>3. shown /\ ws \notin spoilt => typed'[ws] = DraftsOf(tabs)
    BY <2>1 DEF DraftInv, NoDraftIsLost
  <2> QED
    BY <2>1, <2>2, <2>3, PersistingTells
<1>7. CASE Answer
  BY <1>0, <1>7, AnswersTell
<1>8. CASE LoadFails
  <2>1. calls # <<>> /\ calls' = Tail(calls) /\ UNCHANGED <<ws, shown, tabs, armed, blob, typed, spoilt>>
    BY <1>8 DEF LoadFails
  <2>2. calls \in Seq(Call)
    BY <1>0 DEF BenchShapes
  <2> QED
    BY <2>1, <2>2, TailTells, QueuesTell
<1>9. CASE UNCHANGED benchVars
  BY <1>9 DEF benchVars, DraftInv, NoLoads, LoadsTell, IsLoad, NoDraftIsLost, DraftsOf
<1> QED
  BY <1>1, <1>2, <1>3, <1>4, <1>5, <1>6, <1>7, <1>8, <1>9 DEF BenchNext, ByTheUser

\* What the user typed is never lost, for any workspaces, requests and bounds: a tab
\* changes only where it is shown, every change either reaches the setting at once or
\* arms the timer, the switch writes what the timer owes while it is on screen, and a
\* load brings back a setting that nothing has been written over since it was read.
THEOREM NoDraftIsEverLost == BenchSpec => []NoDraftIsLost
<1>1. DraftInv => NoDraftIsLost
  BY DEF DraftInv
<1> QED
  BY <1>1, BenchAtFirst, BenchGoesOn, DraftAtFirst, DraftGoesOn, PTL DEF BenchSpec

(* ---------------------------- how long they are --------------------------- *)

Short(list) == DOMAIN list \subseteq TabIds /\ Cardinality(DOMAIN list) <= MaxTabs
ShortLoads(queue) == \A k \in DOMAIN queue : queue[k].kind = "load" => Short(queue[k].raw)
ListsAreShort == Short(tabs) /\ \A w \in Workspaces : Short(blob[w])
BenchBounds ==
  /\ shown \in BOOLEAN /\ ops \in 0 .. MaxOps
  /\ ListsAreShort /\ ShortLoads(calls) /\ Len(calls) <= MaxCalls

LEMMA ShortLists ==
  ASSUME NEW list, Short(list)
  PROVE  /\ \A other : DOMAIN other \subseteq DOMAIN list => Short(other)
         /\ Cardinality(DOMAIN list) # MaxTabs =>
              \A i \in TabIds \ DOMAIN list : \A other : DOMAIN other = DOMAIN list \cup {i} => Short(other)
<1>1. MaxTabs \in Nat
  BY WorkbenchConstants
<1>2. IsFiniteSet(TabIds)
  BY <1>1, FS_Interval DEF TabIds
<1>3. IsFiniteSet(DOMAIN list) /\ Cardinality(DOMAIN list) \in Nat
  BY <1>2, FS_Subset, FS_CardinalityType DEF Short
<1>4. ASSUME NEW other, DOMAIN other \subseteq DOMAIN list PROVE Short(other)
  <2>1. Cardinality(DOMAIN other) <= Cardinality(DOMAIN list) /\ Cardinality(DOMAIN other) \in Nat
    BY <1>3, <1>4, FS_Subset, FS_CardinalityType
  <2> QED
    BY <1>1, <1>3, <1>4, <2>1 DEF Short
<1>5. ASSUME Cardinality(DOMAIN list) # MaxTabs,
             NEW i \in TabIds \ DOMAIN list, NEW other, DOMAIN other = DOMAIN list \cup {i}
      PROVE  Short(other)
  <2>1. Cardinality(DOMAIN other) = Cardinality(DOMAIN list) + 1
    BY <1>3, <1>5, FS_AddElement
  <2> QED
    BY <1>1, <1>3, <1>5, <2>1 DEF Short
<1> QED
  BY <1>4, <1>5

LEMMA PersistingShort ==
  ASSUME BenchShapes, ListsAreShort, NEW list, Short(list), PersistNow(list), ws' = ws
  PROVE  ListsAreShort'
BY DEF BenchShapes, ListsAreShort, PersistNow, Short

LEMMA QueuedShort ==
  ASSUME NEW queue \in Seq(Call), ShortLoads(queue), Len(queue) < MaxCalls,
         NEW call \in Call, call.kind = "load" => Short(call.raw)
  PROVE  ShortLoads(Append(queue, call)) /\ Len(Append(queue, call)) <= MaxCalls
<1>1. PICK t : t = Append(queue, call)
  OBVIOUS
<1>2. Len(t) = Len(queue) + 1 /\ DOMAIN t = 1 .. Len(t) /\ DOMAIN queue = 1 .. Len(queue) /\ Len(queue) \in Nat
      /\ \A k \in DOMAIN t : t[k] = IF k = Len(queue) + 1 THEN call ELSE queue[k]
  BY <1>1
<1>3. ShortLoads(t)
  BY <1>2 DEF ShortLoads
<1>4. Len(t) <= MaxCalls
  BY <1>2, WorkbenchConstants
<1> QED
  BY <1>1, <1>3, <1>4

LEMMA AnsweredShort ==
  ASSUME calls \in Seq(Call), calls # <<>>, ShortLoads(calls), Len(calls) <= MaxCalls
  PROVE  /\ ShortLoads(Tail(calls)) /\ Tail(calls) \in Seq(Call) /\ Len(Tail(calls)) < MaxCalls
         /\ Head(calls) \in Call /\ (Head(calls).kind = "load" => Short(Head(calls).raw))
<1>1. PICK t : t = Tail(calls)
  OBVIOUS
<1>2. /\ t \in Seq(Call) /\ Len(t) = Len(calls) - 1 /\ DOMAIN t = 1 .. Len(t) /\ Len(calls) \in Nat /\ Len(calls) > 0
      /\ \A k \in DOMAIN t : t[k] = calls[k + 1] /\ k + 1 \in DOMAIN calls
      /\ Head(calls) = calls[1] /\ 1 \in DOMAIN calls /\ Head(calls) \in Call
  BY <1>1
<1>3. ShortLoads(t)
  BY <1>2 DEF ShortLoads
<1>4. Len(t) < MaxCalls
  BY <1>2, WorkbenchConstants
<1> QED
  BY <1>1, <1>2, <1>3, <1>4 DEF ShortLoads

\* The actions of the user: one list grows by a tab where there is room for it, one call
\* is queued where there is room for it.
LEMMA TheUserKeepsShort ==
  ASSUME BenchInv, BenchBounds, ByTheUser
  PROVE  shown' \in BOOLEAN /\ ListsAreShort' /\ ShortLoads(calls') /\ Len(calls') <= MaxCalls
<1> DEFINE Goal == shown' \in BOOLEAN /\ ListsAreShort' /\ ShortLoads(calls') /\ Len(calls') <= MaxCalls
<1>0. BenchShapes /\ calls \in Seq(Call) /\ Short(tabs) /\ ws \in Workspaces
  BY DEF BenchInv, BenchShapes, BenchBounds, ListsAreShort
<1>1. ASSUME NEW list, Short(list), PersistNow(list), UNCHANGED <<ws, shown, calls>> PROVE Goal
  BY <1>0, <1>1, PersistingShort DEF BenchBounds
<1>2. ASSUME NEW q, NEW draft, OpenTab(q, draft) PROVE Goal
  <2>1. PICK i, tab : i \in NewTabs /\ PersistNow(With(tabs, i, tab)) /\ UNCHANGED <<ws, shown, calls>>
    BY <1>2 DEF OpenTab
  <2>2. i \in TabIds /\ i \notin DOMAIN tabs /\ Cardinality(DOMAIN tabs) # MaxTabs
    BY <2>1, NewTabsAreFree DEF NewTabs
  <2>3. DOMAIN With(tabs, i, tab) = DOMAIN tabs \cup {i}
    BY DEF With
  <2>4. Short(With(tabs, i, tab))
    BY <1>0, <2>2, <2>3, ShortLists
  <2> QED
    BY <2>1, <2>4, <1>1
<1>3. ASSUME NEW i, CloseTab(i) PROVE Goal
  <2>1. DOMAIN Without(tabs, i) \subseteq DOMAIN tabs
    BY DEF Without
  <2>2. Short(Without(tabs, i))
    BY <1>0, <2>1, ShortLists
  <2> QED
    BY <1>3, <2>2, <1>1 DEF CloseTab
<1>4. ASSUME NEW i, UpdateDraft(i) PROVE Goal
  <2>1. DOMAIN tabs' = DOMAIN tabs /\ UNCHANGED <<shown, blob, calls>>
    BY <1>4 DEF UpdateDraft
  <2> QED
    BY <2>1 DEF BenchBounds, ListsAreShort, Short
<1>5. ASSUME NEW i \in DOMAIN tabs, SaveRequest(i) PROVE Goal
  <2>1. PICK call : /\ call = [kind |-> "save", tab |-> i, req |-> tabs[i].req, draft |-> tabs[i].draft, new |-> FALSE]
                    /\ Len(calls) < MaxCalls /\ calls' = Append(Outdated(tabs[i].req), call)
                    /\ tabs[i].req \in DOMAIN tree /\ UNCHANGED <<shown, tabs, blob, ws>>
    BY <1>5 DEF SaveRequest
  <2>2. call \in Call
    <3>1. tabs[i] \in OneTab /\ i \in TabIds
      BY <1>0, ListIs DEF BenchShapes
    <3>2. tabs[i].req \in Requests
      BY <1>0, <2>1, TreeIs DEF BenchShapes
    <3>3. tabs[i].draft \in Drafts
      BY <3>1 DEF OneTab
    <3> QED
      BY <2>1, <3>1, <3>2, <3>3 DEF Call, SaveCall
  <2>3. PICK o : o = Outdated(tabs[i].req) /\ o \in Seq(Call) /\ RacedIn(calls, o, tabs[i].req)
    BY <1>0, QueueRaced
  <2>4. Len(o) = Len(calls)
    BY <1>0, <2>3 DEF RacedIn
  <2>5. ShortLoads(o)
    BY <2>3 DEF RacedIn, RacedFor, ShortLoads, BenchBounds, Short
  <2>6. ShortLoads(calls') /\ Len(calls') <= MaxCalls
    BY <2>1, <2>2, <2>3, <2>4, <2>5, QueuedShort
  <2> QED
    BY <2>1, <2>6 DEF BenchBounds, ListsAreShort, Short
<1>6. ASSUME NEW call \in Call, Queue(call), call.kind = "load" => Short(call.raw) PROVE ShortLoads(calls') /\ Len(calls') <= MaxCalls
  BY <1>0, <1>6, QueuedShort DEF Queue, BenchBounds
<1>7. ASSUME NEW i \in DOMAIN tabs, SaveScratch(i) PROVE Goal
  <2>1. PICK q \in NewRequests : /\ Queue([kind |-> "save", tab |-> i, req |-> q, draft |-> tabs[i].draft, new |-> TRUE])
                                 /\ UNCHANGED <<ws, shown, tabs, blob>>
    BY <1>7 DEF SaveScratch
  <2>2. tabs[i] \in OneTab /\ i \in TabIds /\ q \in Requests
    BY <1>0, ListIs DEF BenchShapes, NewRequests, Requests
  <2>3. tabs[i].draft \in Drafts
    BY <2>2 DEF OneTab
  <2>4. [kind |-> "save", tab |-> i, req |-> q, draft |-> tabs[i].draft, new |-> TRUE] \in Call
    BY <2>2, <2>3 DEF Call, SaveCall
  <2> QED
    BY <2>1, <2>4, <1>6 DEF BenchBounds, ListsAreShort, Short
<1>8. ASSUME NEW q \in Requests, DeleteRequest(q) PROVE Goal
  <2>1. [kind |-> "delete", req |-> q] \in Call
    BY DEF Call, DeleteCall
  <2> QED
    BY <2>1, <1>6, <1>8 DEF DeleteRequest, BenchBounds, ListsAreShort, Short
<1>9. ASSUME NEW w \in Workspaces, SetWorkspace(w) PROVE Goal
  <2>1. PICK raw : raw = blob[w] /\ raw \in TabList /\ Short(raw)
    BY <1>0 DEF BenchShapes, BenchBounds, ListsAreShort
  <2>2. [kind |-> "load", ws |-> w, raw |-> raw, asked |-> FALSE, rows |-> <<>>] \in Call
    BY <2>1, NoList DEF Call, LoadCall
  <2>3. ShortLoads(calls') /\ Len(calls') <= MaxCalls
    BY <1>6, <1>9, <2>1, <2>2 DEF SetWorkspace
  <2>4. tabs' = <<>> /\ blob' = [blob EXCEPT ![ws] = tabs] /\ shown' = FALSE
    BY <1>9 DEF SetWorkspace
  <2>5. Short(<<>>)
    BY <1>0, NoList, ShortLists
  <2> QED
    BY <1>0, <2>3, <2>4, <2>5 DEF BenchShapes, BenchBounds, ListsAreShort, Short
<1>10. CASE \E q \in Requests : OpenRequest(q) \/ DeleteRequest(q)
  BY <1>2, <1>8, <1>10 DEF OpenRequest
<1>11. CASE OpenScratchTab
  BY <1>2, <1>11 DEF OpenScratchTab
<1> HIDE DEF Goal
<1> QED
  BY <1>3, <1>4, <1>5, <1>7, <1>9, <1>10, <1>11 DEF ByTheUser, Goal

\* The answers: a list on screen keeps its tabs, or is one that was read.
LEMMA AnswersKeepShort ==
  ASSUME BenchInv, BenchBounds, DebounceFires \/ Answer \/ LoadFails
  PROVE  shown' \in BOOLEAN /\ ListsAreShort' /\ ShortLoads(calls') /\ Len(calls') <= MaxCalls
<1> DEFINE Queued == ShortLoads(calls') /\ Len(calls') <= MaxCalls
           Lists == shown' \in BOOLEAN /\ ListsAreShort'
<1>0. BenchShapes /\ calls \in Seq(Call) /\ Short(tabs) /\ ws \in Workspaces /\ ShortLoads(calls) /\ Len(calls) <= MaxCalls
  BY DEF BenchInv, BenchShapes, BenchBounds, ListsAreShort
<1>1. CASE DebounceFires
  BY <1>0, <1>1, PersistingShort DEF DebounceFires, BenchBounds
<1>2. CASE LoadFails
  <2>1. Queued
    BY <1>0, <1>2, AnsweredShort, WorkbenchConstants DEF LoadFails
  <2> QED
    BY <1>2, <2>1 DEF LoadFails, BenchBounds, ListsAreShort, Short
<1>3. CASE Answer
  <2>0. PICK call : calls # <<>> /\ call = Head(calls)
    BY <1>3 DEF Answer
  <2>1. /\ ShortLoads(Tail(calls)) /\ Tail(calls) \in Seq(Call) /\ Len(Tail(calls)) < MaxCalls
        /\ call \in Call /\ (call.kind = "load" => Short(call.raw))
    BY <1>0, <2>0, AnsweredShort
  <2>2. ASSUME calls' = Tail(calls) PROVE Queued
    BY <2>1, <2>2, WorkbenchConstants
  <2>3. CASE SaveAnswered(call) /\ calls' = Tail(calls)
    <3>1. PICK list : PersistNow(list) /\ DOMAIN list = DOMAIN tabs /\ UNCHANGED <<ws, shown>>
      BY <2>3 DEF SaveAnswered
    <3>2. Short(list)
      BY <1>0, <3>1, ShortLists
    <3> QED
      BY <1>0, <2>2, <2>3, <3>1, <3>2, PersistingShort DEF BenchBounds
  <2>4. CASE DeleteAnswered(call) /\ calls' = Tail(calls)
    <3>1. CASE UNCHANGED <<tabs, blob, shown>>
      BY <3>1, <2>2, <2>4 DEF BenchBounds, ListsAreShort, Short
    <3>2. CASE \E list : PersistNow(list) /\ DOMAIN list = DOMAIN tabs
      <4>1. PICK list : PersistNow(list) /\ DOMAIN list = DOMAIN tabs
        BY <3>2
      <4>2. Short(list) /\ UNCHANGED <<ws, shown>>
        BY <1>0, <2>4, <4>1, ShortLists DEF DeleteAnswered
      <4> QED
        BY <1>0, <2>2, <2>4, <4>1, <4>2, PersistingShort DEF BenchBounds
    <3>3. UNCHANGED shown
      BY <2>4 DEF DeleteAnswered
    <3>4. CASE UNCHANGED <<tabs, blob>>
      BY <3>1, <3>3, <3>4
    <3>5. PICK list : /\ DOMAIN list = DOMAIN tabs
                      /\ list = [i \in DOMAIN tabs |->
                                  IF tabs[i].req = call.req THEN [tabs[i] EXCEPT !.req = Nil, !.dirty = TRUE] ELSE tabs[i]]
      OBVIOUS
    <3>6. PersistNow(list) \/ UNCHANGED <<tabs, blob>>
      BY <2>4, <3>5 DEF DeleteAnswered
    <3> QED
      BY <3>2, <3>4, <3>5, <3>6
  <2>5. CASE call.kind = "load" /\ SettingsAnswered(call)
    <3>1. PICK load \in LoadCall : calls' = Append(Tail(calls), load) /\ load.raw \in {call.raw, <<>>}
      BY <2>0, <2>5, SettingsBring
    <3>2. load \in Call /\ Short(load.raw)
      BY <1>0, <2>1, <2>5, <3>1, NoList, ShortLists DEF Call
    <3>3. UNCHANGED <<ws, shown, tabs, blob>>
      BY <2>0, <2>5, SettingsBring
    <3>4. Queued
      BY <2>1, <3>1, <3>2, QueuedShort
    <3> QED
      BY <3>3, <3>4 DEF BenchBounds, ListsAreShort, Short
  <2>6. CASE call.kind = "load" /\ Publish(call) /\ calls' = Tail(calls)
    <3>1. shown' \in BOOLEAN /\ Short(tabs') /\ blob' = blob
      BY <2>1, <2>6, <1>0 DEF Publish, BenchBounds, Short
    <3> QED
      BY <2>2, <2>6, <3>1 DEF BenchBounds, ListsAreShort, Short
  <2> QED
    BY <1>3, <2>0, <2>3, <2>4, <2>5, <2>6 DEF Answer
<1> QED
  BY <1>1, <1>2, <1>3

LEMMA BoundsGoOn == BenchInv /\ BenchBounds /\ [BenchNext]_benchVars => BenchBounds'
<1> SUFFICES ASSUME BenchInv, BenchBounds, [BenchNext]_benchVars PROVE BenchBounds'
  OBVIOUS
<1>1. CASE ops < MaxOps /\ ops' = ops + 1 /\ ByTheUser
  <2>1. ops' \in 0 .. MaxOps
    BY <1>1, WorkbenchConstants DEF BenchBounds
  <2> QED
    BY <1>1, <2>1, TheUserKeepsShort DEF BenchBounds
<1>2. CASE UNCHANGED ops /\ (DebounceFires \/ Answer \/ LoadFails)
  BY <1>2, AnswersKeepShort DEF BenchBounds
<1>3. CASE UNCHANGED benchVars
  BY <1>3 DEF benchVars, BenchBounds, ListsAreShort, ShortLoads, Short
<1> QED
  BY <1>1, <1>2, <1>3 DEF BenchNext

\* Every list of tabs, on screen, in the settings and under way between them, is within
\* its bound and of tabs, and a row and what the tree shows of it are of a workspace and
\* of edits there can be, for any workspaces, requests and bounds.
THEOREM WorkbenchTypeCorrect == BenchSpec => []WorkbenchTypeOK
<1>1. BenchInit => BenchBounds
  <2> SUFFICES ASSUME BenchInit PROVE BenchBounds
    OBVIOUS
  <2>1. Cardinality(DOMAIN <<>>) = 0 /\ DOMAIN <<>> = {}
    BY NoList, FS_EmptySet
  <2>2. Short(<<>>)
    BY <2>1, WorkbenchConstants DEF Short
  <2>3. tabs = <<>> /\ (\A w \in Workspaces : blob[w] = <<>>) /\ calls = <<>> /\ shown = TRUE /\ ops = 0
    BY DEF BenchInit
  <2>4. ops \in 0 .. MaxOps /\ Len(calls) <= MaxCalls
    BY <2>3, WorkbenchConstants
  <2> QED
    BY <2>1, <2>2, <2>3, <2>4 DEF BenchBounds, ListsAreShort, ShortLoads
<1>2. BenchInv /\ DraftInv /\ BenchBounds => WorkbenchTypeOK
  <2> SUFFICES ASSUME BenchInv, DraftInv, BenchBounds PROVE WorkbenchTypeOK
    OBVIOUS
  <2>1. /\ ws \in Workspaces /\ tabs \in TabList /\ blob \in [Workspaces -> TabList]
        /\ rows \in RowTable /\ tree \in Shown /\ crossed \subseteq Requests
    BY DEF BenchInv, BenchShapes
  <2>2. ASSUME NEW list \in TabList, Short(list) PROVE IsTabList(list)
    BY <2>2, ListIs DEF IsTabList, Short, OneTab, Tab, Range
  <2>3. IsTabList(tabs) /\ \A w \in Workspaces : IsTabList(blob[w])
    BY <2>1, <2>2 DEF BenchBounds, ListsAreShort
  <2>4. /\ \A q \in DOMAIN rows : q \in Requests /\ rows[q] \in [ws : Workspaces, spec : Drafts]
        /\ \A q \in DOMAIN tree : q \in Requests /\ tree[q] \in Drafts
    BY <2>1, TableIs, TreeIs DEF Row
  <2>5. \A w \in Workspaces : DOMAIN typed[w] \subseteq TabIds /\ Range(typed[w]) \subseteq Drafts
    BY ToldIs DEF DraftInv, Range
  <2> QED
    BY <2>1, <2>3, <2>4, <2>5 DEF WorkbenchTypeOK, BenchBounds, DraftInv
<1> QED
  BY <1>1, <1>2, BenchAtFirst, BenchGoesOn, DraftAtFirst, DraftGoesOn, BoundsGoOn, PTL DEF BenchSpec

------------------------------------------------------------------------------
(* Of RequestTree: Subtree, which both sides compute level by level, and   *)
(* the two moves.                                                          *)

\* The children of what is in S are in S.
ClosedBelow(t, S) == \A m \in DOMAIN t : t[m].parent \in S => m \in S

\* What Subtree computes, level by level.
Levels(t, n, g) ==
  /\ g[0] = {n}
  /\ \A i \in 1 .. Cardinality(DOMAIN t) : g[i] = Reach(t, g[i - 1])
  /\ \A i \in 0 .. Cardinality(DOMAIN t) : g[i] \subseteq DOMAIN t \cup {n}
  /\ Subtree(t, n) = g[Cardinality(DOMAIN t)]

LEMMA LevelsExist ==
  ASSUME NEW t, NEW n, IsFiniteSet(DOMAIN t)
  PROVE  \E g : Levels(t, n, g)
<1> DEFINE N == Cardinality(DOMAIN t)
           A == SUBSET (DOMAIN t \cup {n})
           step == [i \in 1 .. N |-> [S \in A |-> Reach(t, S)]]
           body(f, i) == IF i = 0 THEN {n} ELSE Reach(t, f[i - 1])
           grown == CHOOSE f : f = [i \in 0 .. N |-> body(f, i)]
<1>1. N \in Nat
  BY FS_CardinalityType
<1> HIDE DEF N
<1>2. {n} \in A /\ \A S \in A : Reach(t, S) \in A
  BY DEF Reach
<1>3. step \in [1 .. N -> [A -> A]] /\ \A i \in 1 .. N, S \in A : step[i][S] = Reach(t, S)
  BY <1>2
<1> HIDE DEF step, A
<1>4. PICK f : FoldOf(A, N, {n}, step, f)
  <2>1. \E f : FoldOf(A, N, {n}, step, f)
    BY <1>1, <1>2, <1>3, FoldExists
  <2> QED
    BY <2>1
<1>5. /\ f \in [0 .. N -> A] /\ f[0] = {n}
      /\ \A i \in 1 .. N : f[i] = Reach(t, f[i - 1])
  <2>1. ASSUME NEW i \in 1 .. N PROVE f[i] = Reach(t, f[i - 1])
    <3>1. i - 1 \in 0 .. N
      BY <1>1
    <3> QED
      BY <3>1, <1>3, <1>4 DEF FoldOf
  <2> QED
    BY <2>1, <1>4 DEF FoldOf
<1>6. \E h : h = [i \in 0 .. N |-> body(h, i)]
  <2>1. \A i \in 0 .. N : f[i] = body(f, i)
    BY <1>1, <1>5
  <2> HIDE DEF body
  <2>2. f = [i \in 0 .. N |-> body(f, i)]
    BY <2>1, <1>5
  <2> QED
    BY <2>2
<1>7. grown = [i \in 0 .. N |-> body(grown, i)]
  BY <1>6
<1>8. Subtree(t, n) = grown[N] \cap (DOMAIN t \cup {n})
  BY DEF Subtree, N
<1> HIDE DEF grown
<1>9. \A i \in 0 .. N : grown[i] = body(grown, i)
  <2> HIDE DEF body
  <2> QED
    BY <1>7
<1>10. grown[0] = {n} /\ \A i \in 1 .. N : grown[i] = Reach(t, grown[i - 1])
  BY <1>1, <1>9
<1> DEFINE X == {i \in Nat : i <= N => grown[i] \in A}
<1>11. N \in X /\ \A i \in 0 .. N : i \in X
  <2>1. 0 \in X
    BY <1>2, <1>10
  <2>2. ASSUME NEW i \in Nat, i \in X PROVE i + 1 \in X
    <3> SUFFICES ASSUME i + 1 <= N PROVE grown[i + 1] \in A
      OBVIOUS
    <3>1. i + 1 \in 1 .. N /\ grown[i] \in A /\ (i + 1) - 1 = i
      BY <2>2, <1>1
    <3>2. grown[i + 1] = Reach(t, grown[i])
      BY <1>10, <3>1
    <3> QED
      BY <1>2, <3>1, <3>2
  <2> HIDE DEF X
  <2> QED
    BY <1>1, <2>1, <2>2, NatSetInduction
<1>12. \A i \in 0 .. N : grown[i] \subseteq DOMAIN t \cup {n}
  <2> SUFFICES ASSUME NEW i \in 0 .. N PROVE grown[i] \in A
    BY DEF A
  <2> QED
    BY <1>1, <1>11
<1>13. Subtree(t, n) = grown[N]
  BY <1>1, <1>8, <1>12
<1>14. Levels(t, n, grown)
  BY <1>10, <1>12, <1>13 DEF Levels, N
<1> QED
  BY <1>14

\* A set with n that is closed downwards has the subtree of n.
LEMMA SubtreeIsLeast ==
  ASSUME NEW t, NEW n, IsFiniteSet(DOMAIN t), NEW P, n \in P, ClosedBelow(t, P)
  PROVE  Subtree(t, n) \subseteq P
<1>1. PICK g : Levels(t, n, g)
  BY LevelsExist
<1> DEFINE N == Cardinality(DOMAIN t)
           X == {i \in Nat : i <= N => g[i] \subseteq P}
<1>2. N \in Nat
  BY FS_CardinalityType
<1>3. g[0] = {n} /\ \A i \in 1 .. N : g[i] = Reach(t, g[i - 1])
  BY <1>1 DEF Levels
<1> HIDE DEF N
<1>4. 0 \in X
  BY <1>3
<1>5. ASSUME NEW i \in Nat, i \in X PROVE i + 1 \in X
  <2> SUFFICES ASSUME i + 1 <= N PROVE g[i + 1] \subseteq P
    OBVIOUS
  <2>1. i + 1 \in 1 .. N /\ g[i] \subseteq P /\ (i + 1) - 1 = i
    BY <1>2, <1>5
  <2>2. g[i + 1] = Reach(t, g[i])
    BY <1>3, <2>1
  <2> QED
    BY <2>1, <2>2 DEF Reach, ClosedBelow
<1> HIDE DEF X
<1>6. N \in X
  BY <1>2, <1>4, <1>5, NatSetInduction
<1>7. g[N] \subseteq P
  BY <1>2, <1>6 DEF X
<1> QED
  BY <1>1, <1>7 DEF Levels, N

\* The levels grow until one is the same as the next: then it is closed, and
\* there are not more nodes than levels.
LEMMA SubtreeIsClosed ==
  ASSUME NEW t, NEW n, IsFiniteSet(DOMAIN t)
  PROVE  /\ n \in Subtree(t, n) /\ Subtree(t, n) \subseteq DOMAIN t \cup {n}
         /\ ClosedBelow(t, Subtree(t, n))
<1>1. PICK g : Levels(t, n, g)
  BY LevelsExist
<1> DEFINE N == Cardinality(DOMAIN t)
           D == DOMAIN t \cup {n}
           Full(i) == ClosedBelow(t, g[i]) \/ Cardinality(g[i]) >= i + 1
           X == {i \in Nat : i <= N => n \in g[i] /\ Full(i)}
<1>2. N \in Nat
  BY FS_CardinalityType
<1>3. /\ g[0] = {n} /\ \A i \in 1 .. N : g[i] = Reach(t, g[i - 1])
      /\ \A i \in 0 .. N : g[i] \subseteq D
  BY <1>1 DEF Levels
<1>4. IsFiniteSet(D) /\ Cardinality(D) = IF n \in DOMAIN t THEN N ELSE N + 1
  BY FS_AddElement
<1> HIDE DEF N, D
<1>5. \A i \in 0 .. N : IsFiniteSet(g[i]) /\ Cardinality(g[i]) \in Nat
  BY <1>3, <1>4, FS_Subset, FS_CardinalityType
<1>6. 0 \in X
  <2>1. Cardinality({n}) = 1 /\ g[0] = {n}
    BY <1>3, FS_Singleton
  <2>2. n \in g[0] /\ Cardinality(g[0]) >= 0 + 1
    BY <2>1
  <2> HIDE DEF N
  <2> QED
    BY <2>2
<1>7. ASSUME NEW i \in Nat, i \in X PROVE i + 1 \in X
  <2> SUFFICES ASSUME i + 1 <= N PROVE n \in g[i + 1] /\ Full(i + 1)
    OBVIOUS
  <2>1. i \in 0 .. N /\ i + 1 \in 1 .. N /\ i + 1 \in 0 .. N /\ (i + 1) - 1 = i
    BY <1>2
  <2>2. g[i + 1] = Reach(t, g[i]) /\ n \in g[i] /\ Full(i)
    BY <1>3, <1>7, <2>1
  <2>3. g[i] \subseteq g[i + 1]
    BY <2>2 DEF Reach
  <2>4. CASE g[i + 1] = g[i]
    <3>1. ClosedBelow(t, g[i + 1])
      BY <2>2, <2>4 DEF Reach, ClosedBelow
    <3> QED
      BY <2>2, <2>3, <3>1
  <2>5. CASE g[i + 1] # g[i]
    <3>1. ~ClosedBelow(t, g[i])
      BY <2>2, <2>5 DEF Reach, ClosedBelow
    <3>2. Cardinality(g[i]) >= i + 1
      BY <2>2, <3>1
    <3>3. Cardinality(g[i]) <= Cardinality(g[i + 1]) /\ Cardinality(g[i]) # Cardinality(g[i + 1])
      BY <1>5, <2>1, <2>3, <2>5, FS_Subset
    <3>4. Cardinality(g[i + 1]) >= (i + 1) + 1
      BY <1>5, <2>1, <3>2, <3>3
    <3> QED
      BY <2>2, <2>3, <3>4
  <2> QED
    BY <2>4, <2>5
<1> HIDE DEF X
<1>8. N \in X
  BY <1>2, <1>6, <1>7, NatSetInduction
<1>9. n \in g[N] /\ Full(N) /\ g[N] \subseteq D
  BY <1>2, <1>3, <1>8 DEF X
<1>10. ClosedBelow(t, g[N])
  <2>1. CASE Cardinality(g[N]) >= N + 1
    <3>1. Cardinality(g[N]) <= Cardinality(D) /\ (Cardinality(D) = Cardinality(g[N]) => D = g[N])
      BY <1>4, <1>9, FS_Subset
    <3>2. N \in 0 .. N
      BY <1>2
    <3>3. D = g[N]
      BY <1>2, <1>4, <1>5, <2>1, <3>1, <3>2
    <3> QED
      BY <3>3 DEF ClosedBelow, D
  <2> QED
    BY <1>9, <2>1
<1> QED
  BY <1>1, <1>9, <1>10 DEF Levels, N, D

\* Whatever else is in a subtree has its parent there.
LEMMA SubtreeHasParents ==
  ASSUME NEW t, NEW n, IsFiniteSet(DOMAIN t), NEW m \in Subtree(t, n), m # n
  PROVE  m \in DOMAIN t /\ t[m].parent \in Subtree(t, n)
<1> DEFINE T == Subtree(t, n)
           P == {n} \cup {k \in DOMAIN t : t[k].parent \in T}
<1>1. n \in T /\ T \subseteq DOMAIN t \cup {n} /\ ClosedBelow(t, T)
  BY SubtreeIsClosed
<1> HIDE DEF T
<1>2. P \subseteq T
  BY <1>1 DEF ClosedBelow
<1>3. ClosedBelow(t, P)
  BY <1>2 DEF ClosedBelow
<1> HIDE DEF P
<1>4. n \in P
  BY DEF P
<1>5. T \subseteq P
  BY <1>3, <1>4, SubtreeIsLeast DEF T
<1> QED
  BY <1>5 DEF P, T

\* Moving a node, and whatever else does not touch the parents, leaves its subtree.
LEMMA SubtreeMoves ==
  ASSUME NEW t, NEW u, NEW n, IsFiniteSet(DOMAIN t), DOMAIN u = DOMAIN t,
         \A m \in DOMAIN t \ {n} : u[m].parent = t[m].parent
  PROVE  Subtree(u, n) = Subtree(t, n)
<1>1. n \in Subtree(t, n) /\ n \in Subtree(u, n)
  BY SubtreeIsClosed
<1>2. ClosedBelow(u, Subtree(t, n)) /\ ClosedBelow(t, Subtree(u, n))
  <2>1. ClosedBelow(t, Subtree(t, n)) /\ ClosedBelow(u, Subtree(u, n))
    BY SubtreeIsClosed
  <2> QED
    BY <1>1, <2>1 DEF ClosedBelow
<1>3. Subtree(u, n) \subseteq Subtree(t, n) /\ Subtree(t, n) \subseteq Subtree(u, n)
  BY <1>1, <1>2, SubtreeIsLeast
<1> QED
  BY <1>3

IsRow(r) == r = [kind |-> r.kind, col |-> r.col, parent |-> r.parent, order |-> r.order, version |-> r.version]
Rows(t) == \A n \in DOMAIN t : IsRow(t[n])
RowOf(r, col, parent, order) == [kind |-> r.kind, col |-> col, parent |-> parent, order |-> order, version |-> r.version]

\* A row of the tree with some of its places changed.
LEMMA ChangedRow ==
  ASSUME NEW r, IsRow(r), NEW col, NEW parent, NEW order
  PROVE  /\ [r EXCEPT !.col = col] = RowOf(r, col, r.parent, r.order)
         /\ [r EXCEPT !.parent = parent] = RowOf(r, r.col, parent, r.order)
         /\ [r EXCEPT !.order = order] = RowOf(r, r.col, r.parent, order)
         /\ [r EXCEPT !.version = 1] = [RowOf(r, r.col, r.parent, r.order) EXCEPT !.version = 1]
<1>1. PICK k, c, p, o, v : r = [kind |-> k, col |-> c, parent |-> p, order |-> o, version |-> v]
  BY DEF IsRow
<1> QED
  BY <1>1 DEF RowOf

LEMMA RowOfIsRow ==
  ASSUME NEW r, NEW col, NEW parent, NEW order
  PROVE  /\ IsRow(RowOf(r, col, parent, order))
         /\ RowOf(r, col, parent, order).kind = r.kind /\ RowOf(r, col, parent, order).col = col
         /\ RowOf(r, col, parent, order).parent = parent /\ RowOf(r, col, parent, order).order = order
         /\ \A c, p, o : RowOf(RowOf(r, col, parent, order), c, p, o) = RowOf(r, c, p, o)
  BY DEF RowOf, IsRow

\* Where Splice puts the node n, with the places of the others.
Moved(t, n, col, parent) == [t EXCEPT ![n].col = col, ![n].parent = parent]
LEMMA MovedRows ==
  ASSUME NEW t, Rows(t), NEW n \in DOMAIN t, NEW col, NEW parent
  PROVE  /\ DOMAIN Moved(t, n, col, parent) = DOMAIN t
         /\ Moved(t, n, col, parent)[n] = RowOf(t[n], col, parent, t[n].order)
         /\ \A m \in DOMAIN t \ {n} : Moved(t, n, col, parent)[m] = t[m]
<1> DEFINE once == [t[n] EXCEPT !.col = col]
<1>1. IsRow(t[n])
  BY DEF Rows
<1>2. once = RowOf(t[n], col, t[n].parent, t[n].order)
  BY <1>1, ChangedRow
<1>3. [once EXCEPT !.parent = parent] = RowOf(t[n], col, parent, t[n].order)
  <2>1. IsRow(once) /\ once.col = col /\ once.order = t[n].order
    BY <1>2, RowOfIsRow
  <2>2. [once EXCEPT !.parent = parent] = RowOf(once, once.col, parent, once.order)
    BY <2>1, ChangedRow
  <2>3. RowOf(once, col, parent, t[n].order) = RowOf(t[n], col, parent, t[n].order)
    BY <1>2, RowOfIsRow
  <2> QED
    BY <2>1, <2>2, <2>3
<1> HIDE DEF once
<1>4. Moved(t, n, col, parent) = [[t EXCEPT ![n] = once] EXCEPT ![n] = [once EXCEPT !.parent = parent]]
  BY DEF Moved, once
<1> QED
  BY <1>3, <1>4

\* Renumber changes the orders of those on the list.
NewOrder(t, list, m) == IF Contains(list, m) THEN PositionOf(m, list) - 1 ELSE t[m].order
LEMMA RenumberedRows ==
  ASSUME NEW t, Rows(t), NEW list, NEW m \in DOMAIN t
  PROVE  /\ DOMAIN Renumber(t, list) = DOMAIN t
         /\ Renumber(t, list)[m] = RowOf(t[m], t[m].col, t[m].parent, NewOrder(t, list, m))
<1> DEFINE p == PositionOf(m, list) - 1
<1>1. IsRow(t[m])
  BY DEF Rows
<1>2. [t[m] EXCEPT !.order = p] = RowOf(t[m], t[m].col, t[m].parent, p)
  BY <1>1, ChangedRow
<1>3. t[m] = RowOf(t[m], t[m].col, t[m].parent, t[m].order)
  BY <1>1 DEF IsRow, RowOf
<1>4. Renumber(t, list)[m] = IF Contains(list, m) THEN [t[m] EXCEPT !.order = p] ELSE t[m]
  BY DEF Renumber
<1>5. DOMAIN Renumber(t, list) = DOMAIN t
  BY DEF Renumber
<1> HIDE DEF p
<1> QED
  BY <1>2, <1>3, <1>4, <1>5 DEF NewOrder, p

\* A row is the same as another with the same five places.
LEMMA SameRow ==
  ASSUME NEW r, IsRow(r)
  PROVE  RowOf(r, r.col, r.parent, r.order) = r
  BY DEF IsRow, RowOf

\* The whole subtree of n is in the collection of n.
LEMMA SubtreeIsHoused ==
  ASSUME NEW t, IsFiniteSet(DOMAIN t), Housed(t), Root \notin DOMAIN t, NEW n \in DOMAIN t
  PROVE  \A m \in Subtree(t, n) : m \in DOMAIN t /\ t[m].col = t[n].col
<1> DEFINE P == {m \in DOMAIN t : t[m].col = t[n].col}
<1>1. n \in P
  OBVIOUS
<1>2. ClosedBelow(t, P)
  BY DEF ClosedBelow, Housed
<1> HIDE DEF P
<1>3. Subtree(t, n) \subseteq P
  BY <1>1, <1>2, SubtreeIsLeast
<1> QED
  BY <1>3 DEF P

\* What MoveNode moves into the other collection before it splices.
Carried(t, n) == IF t[n].kind = "folder" THEN Subtree(t, n) ELSE {}
Recoloured(t, n, col) == [m \in DOMAIN t |-> IF m \in Carried(t, n) THEN [t[m] EXCEPT !.col = col] ELSE t[m]]
LEMMA RecolouredRows ==
  ASSUME NEW t, Rows(t), NEW n, NEW col
  PROVE  /\ DOMAIN Recoloured(t, n, col) = DOMAIN t /\ Rows(Recoloured(t, n, col))
         /\ \A m \in DOMAIN t : Recoloured(t, n, col)[m] =
              RowOf(t[m], IF m \in Carried(t, n) THEN col ELSE t[m].col, t[m].parent, t[m].order)
<1>1. ASSUME NEW m \in DOMAIN t
      PROVE  Recoloured(t, n, col)[m] =
               RowOf(t[m], IF m \in Carried(t, n) THEN col ELSE t[m].col, t[m].parent, t[m].order)
  <2>1. IsRow(t[m])
    BY DEF Rows
  <2>2. Recoloured(t, n, col)[m] = IF m \in Carried(t, n) THEN [t[m] EXCEPT !.col = col] ELSE t[m]
    BY DEF Recoloured
  <2>3. [t[m] EXCEPT !.col = col] = RowOf(t[m], col, t[m].parent, t[m].order)
    BY <2>1, ChangedRow
  <2> QED
    BY <2>1, <2>2, <2>3, SameRow
<1>2. DOMAIN Recoloured(t, n, col) = DOMAIN t
  BY DEF Recoloured
<1> QED
  BY <1>1, <1>2, RowOfIsRow DEF Rows

\* The siblings a splice puts the node between.
Siblings(t, n, col, parent) == InOrder(t, Under(t, t[n].kind, col, parent) \ {n})
Placed(t, n, col, parent, index) ==
  InsertAt(Siblings(t, n, col, parent), Clamp(index, Len(Siblings(t, n, col, parent))) + 1, n)

LEMMA SplicedRows ==
  ASSUME NEW t, Rows(t), NEW n \in DOMAIN t, NEW col, NEW parent, NEW index
  PROVE  LET s == Splice(t, n, col, parent, index)
             list == Placed(t, n, col, parent, index)
         IN  /\ DOMAIN s = DOMAIN t /\ Rows(s)
             /\ s[n] = RowOf(t[n], col, parent, NewOrder(t, list, n))
             /\ \A m \in DOMAIN t \ {n} : s[m] = RowOf(t[m], t[m].col, t[m].parent, NewOrder(t, list, m))
<1> DEFINE s == Splice(t, n, col, parent, index)
           list == Placed(t, n, col, parent, index)
           u == Moved(t, n, col, parent)
<1>1. s = Renumber(u, list)
  BY DEF Splice, Placed, Siblings, Moved
<1>2. /\ DOMAIN u = DOMAIN t /\ u[n] = RowOf(t[n], col, parent, t[n].order)
      /\ \A m \in DOMAIN t \ {n} : u[m] = t[m]
  BY MovedRows
<1> HIDE DEF s, list, u
<1>3. Rows(u)
  BY <1>2, RowOfIsRow DEF Rows
<1>4. DOMAIN s = DOMAIN t
  BY <1>1, <1>2 DEF Renumber
<1>5. \A m \in DOMAIN t : s[m] = RowOf(u[m], u[m].col, u[m].parent, NewOrder(u, list, m))
  BY <1>1, <1>2, <1>3, RenumberedRows
<1>6. \A m \in DOMAIN t : NewOrder(u, list, m) = NewOrder(t, list, m)
  BY <1>2, RowOfIsRow DEF NewOrder
<1>7. s[n] = RowOf(t[n], col, parent, NewOrder(t, list, n))
  <2>1. s[n] = RowOf(u[n], u[n].col, u[n].parent, NewOrder(t, list, n))
    BY <1>5, <1>6
  <2>2. u[n].col = col /\ u[n].parent = parent
    BY <1>2, RowOfIsRow
  <2> QED
    BY <1>2, <2>1, <2>2, RowOfIsRow
<1>8. \A m \in DOMAIN t \ {n} : s[m] = RowOf(t[m], t[m].col, t[m].parent, NewOrder(t, list, m))
  BY <1>2, <1>5, <1>6
<1>9. Rows(s)
  BY <1>4, <1>5, RowOfIsRow DEF Rows
<1> QED
  BY <1>4, <1>7, <1>8, <1>9 DEF s, list

\* The siblings at the destination are none of what is carried along.
LEMMA SiblingsStay ==
  ASSUME NEW t, IsFiniteSet(DOMAIN t), Rows(t), NEW n \in DOMAIN t, NEW col, NEW parent,
         t[n].kind = "folder" => parent \notin Subtree(t, n)
  PROVE  Siblings(Recoloured(t, n, col), n, col, parent) = Siblings(t, n, col, parent)
<1> DEFINE u == Recoloured(t, n, col)
           k == t[n].kind
           ns == Under(t, k, col, parent) \ {n}
<1>1. DOMAIN u = DOMAIN t
  BY RecolouredRows
<1>2. \A m \in DOMAIN t :
        /\ u[m].kind = t[m].kind /\ u[m].parent = t[m].parent /\ u[m].order = t[m].order
        /\ m \notin Carried(t, n) => u[m].col = t[m].col
  BY RecolouredRows, RowOfIsRow
<1>3. \A m \in DOMAIN t \ {n} : t[m].parent = parent => m \notin Carried(t, n)
  BY SubtreeHasParents DEF Carried
<1> HIDE DEF u, k
<1>4. Under(u, k, col, parent) \ {n} = ns
  BY <1>1, <1>2, <1>3 DEF Under
<1>5. u[n].kind = k
  BY <1>2 DEF k
<1>6. [m \in ns |-> u[m].order] = [m \in ns |-> t[m].order]
  BY <1>2 DEF Under
<1> HIDE DEF ns
<1>7. Siblings(u, n, col, parent) = ByOrder([m \in ns |-> u[m].order])
  BY <1>4, <1>5 DEF Siblings, InOrder
<1>8. Siblings(t, n, col, parent) = ByOrder([m \in ns |-> t[m].order])
  BY DEF Siblings, InOrder, ns, k
<1> QED
  BY <1>6, <1>7, <1>8 DEF u

\* Where everything is after a move: n at its new place, and what is under it in
\* the collection with it.
After(t, n, col, parent, index, m) ==
  RowOf(t[m], IF m = n \/ m \in Carried(t, n) THEN col ELSE t[m].col,
        IF m = n THEN parent ELSE t[m].parent,
        NewOrder(t, Placed(t, n, col, parent, index), m))

LEMMA MoveNodeIs ==
  ASSUME IsFiniteSet(DOMAIN db), Rows(db), NEW n \in DOMAIN db, NEW col, NEW parent, NEW index,
         db[n].kind = "folder" => parent \notin Subtree(db, n)
  PROVE  LET moved == MoveNode(n, col, parent, index)
         IN  /\ moved = [m \in DOMAIN db |-> moved[m]]
             /\ \A m \in DOMAIN db : moved[m] = After(db, n, col, parent, index, m)
<1> DEFINE moved == MoveNode(n, col, parent, index)
           u == Recoloured(db, n, col)
           list == Placed(db, n, col, parent, index)
<1>1. moved = Splice(u, n, col, parent, index)
  BY DEF MoveNode, Recoloured, Carried
<1>2. /\ DOMAIN u = DOMAIN db /\ Rows(u)
      /\ \A m \in DOMAIN db : u[m] =
           RowOf(db[m], IF m \in Carried(db, n) THEN col ELSE db[m].col, db[m].parent, db[m].order)
  BY RecolouredRows
<1>3. Placed(u, n, col, parent, index) = list
  BY SiblingsStay DEF Placed
<1>4. moved = [m \in DOMAIN db |-> moved[m]]
  <2>1. Splice(u, n, col, parent, index) = Renumber(Moved(u, n, col, parent), list)
    BY <1>3 DEF Splice, Placed, Siblings, Moved
  <2>2. DOMAIN Moved(u, n, col, parent) = DOMAIN db
    BY <1>2, MovedRows
  <2> HIDE DEF u, list, moved
  <2> QED
    BY <1>1, <2>1, <2>2 DEF Renumber
<1> HIDE DEF u, list, moved
<1>5. /\ moved[n] = RowOf(u[n], col, parent, NewOrder(u, list, n))
      /\ \A m \in DOMAIN db \ {n} : moved[m] = RowOf(u[m], u[m].col, u[m].parent, NewOrder(u, list, m))
  BY <1>1, <1>2, <1>3, SplicedRows
<1>6. \A m \in DOMAIN db : NewOrder(u, list, m) = NewOrder(db, list, m)
  BY <1>2, RowOfIsRow DEF NewOrder
<1>7. ASSUME NEW m \in DOMAIN db PROVE moved[m] = After(db, n, col, parent, index, m)
  <2>1. CASE m = n
    <3>1. moved[n] = RowOf(u[n], col, parent, NewOrder(db, list, n))
      BY <1>5, <1>6
    <3>2. moved[n] = RowOf(db[n], col, parent, NewOrder(db, list, n))
      BY <1>2, <3>1, RowOfIsRow
    <3> QED
      BY <2>1, <3>2 DEF After, list
  <2>2. CASE m # n
    <3> DEFINE c == IF m \in Carried(db, n) THEN col ELSE db[m].col
    <3>1. u[m] = RowOf(db[m], c, db[m].parent, db[m].order)
      BY <1>2
    <3> HIDE DEF c
    <3>2. u[m].col = c /\ u[m].parent = db[m].parent
      BY <3>1, RowOfIsRow
    <3>3. moved[m] = RowOf(u[m], c, db[m].parent, NewOrder(db, list, m))
      BY <1>5, <1>6, <2>2, <3>2
    <3>4. moved[m] = RowOf(db[m], c, db[m].parent, NewOrder(db, list, m))
      BY <3>1, <3>3, RowOfIsRow
    <3> QED
      BY <2>2, <3>4 DEF After, list, c
  <2> QED
    BY <2>1, <2>2
<1> QED
  BY <1>4, <1>7 DEF moved

LEMMA MoveLocallyIs ==
  ASSUME IsFiniteSet(DOMAIN ui), Rows(ui), Housed(ui), Root \notin DOMAIN ui,
         NEW n \in DOMAIN ui, NEW col, NEW parent, NEW index
  PROVE  LET moved == MoveLocally(n, col, parent, index)
         IN  /\ moved = [m \in DOMAIN ui |-> moved[m]]
             /\ \A m \in DOMAIN ui : moved[m] = After(ui, n, col, parent, index, m)
<1> DEFINE moved == MoveLocally(n, col, parent, index)
           s == Splice(ui, n, col, parent, index)
           list == Placed(ui, n, col, parent, index)
           carried == IF ui[n].kind = "folder" /\ ui[n].col # col THEN Subtree(s, n) ELSE {}
<1>1. /\ DOMAIN s = DOMAIN ui /\ Rows(s) /\ s[n] = RowOf(ui[n], col, parent, NewOrder(ui, list, n))
      /\ \A m \in DOMAIN ui \ {n} : s[m] = RowOf(ui[m], ui[m].col, ui[m].parent, NewOrder(ui, list, m))
  BY SplicedRows
<1>2. moved = [m \in DOMAIN s |-> IF m \in carried THEN [s[m] EXCEPT !.col = col] ELSE s[m]]
  BY DEF MoveLocally
<1>3. carried = IF ui[n].kind = "folder" /\ ui[n].col # col THEN Subtree(ui, n) ELSE {}
  <2> HIDE DEF s
  <2>1. Subtree(s, n) = Subtree(ui, n)
    BY <1>1, RowOfIsRow, SubtreeMoves
  <2> QED
    BY <2>1
<1>4. \A m \in carried : m \in Carried(ui, n)
  BY <1>3 DEF Carried
<1>5. \A m \in Carried(ui, n) : m \in carried \/ ui[m].col = col
  BY <1>3, SubtreeIsHoused DEF Carried
<1> HIDE DEF moved, s, list, carried
<1>6. ASSUME NEW m \in DOMAIN ui PROVE moved[m] = After(ui, n, col, parent, index, m)
  <2> DEFINE at == IF m = n THEN col ELSE ui[m].col
             p == IF m = n THEN parent ELSE ui[m].parent
             o == NewOrder(ui, list, m)
  <2>1. s[m] = RowOf(ui[m], at, p, o)
    BY <1>1
  <2>2. moved[m] = IF m \in carried THEN [s[m] EXCEPT !.col = col] ELSE s[m]
    BY <1>1, <1>2
  <2> HIDE DEF at, p, o
  <2>3. [s[m] EXCEPT !.col = col] = RowOf(ui[m], col, p, o)
    <3>1. IsRow(s[m]) /\ s[m].parent = p /\ s[m].order = o
      BY <2>1, RowOfIsRow
    <3>2. [s[m] EXCEPT !.col = col] = RowOf(s[m], col, p, o)
      BY <3>1, ChangedRow
    <3> QED
      BY <2>1, <3>2, RowOfIsRow
  <2>4. moved[m] = RowOf(ui[m], IF m \in carried THEN col ELSE at, p, o)
    BY <2>1, <2>2, <2>3
  <2>5. (IF m \in carried THEN col ELSE at) = IF m = n \/ m \in Carried(ui, n) THEN col ELSE ui[m].col
    BY <1>4, <1>5 DEF at
  <2> QED
    BY <2>4, <2>5 DEF After, p, o, list
<1> QED
  BY <1>1, <1>2, <1>6 DEF moved

\* A move that the core carries out is the one that is shown.
LEMMA MovesAgree ==
  ASSUME ui = db, IsFiniteSet(DOMAIN db), Rows(db), Housed(db), Root \notin DOMAIN db,
         NEW n \in DOMAIN db, NEW col, NEW parent, NEW index,
         db[n].kind = "folder" => parent \notin Subtree(db, n)
  PROVE  MoveLocally(n, col, parent, index) = MoveNode(n, col, parent, index)
<1> DEFINE a == MoveLocally(n, col, parent, index)
           b == MoveNode(n, col, parent, index)
<1>1. a = [m \in DOMAIN db |-> a[m]] /\ \A m \in DOMAIN db : a[m] = After(db, n, col, parent, index, m)
  <2>1. IsFiniteSet(DOMAIN ui) /\ Rows(ui) /\ Housed(ui) /\ Root \notin DOMAIN ui /\ n \in DOMAIN ui
    OBVIOUS
  <2>2. a = [m \in DOMAIN ui |-> a[m]] /\ \A m \in DOMAIN ui : a[m] = After(ui, n, col, parent, index, m)
    BY <2>1, MoveLocallyIs
  <2> HIDE DEF a
  <2> QED
    BY <2>2
<1>2. b = [m \in DOMAIN db |-> b[m]] /\ \A m \in DOMAIN db : b[m] = After(db, n, col, parent, index, m)
  BY MoveNodeIs
<1> HIDE DEF a, b
<1>3. \A m \in DOMAIN db : a[m] = b[m]
  BY <1>1, <1>2
<1>4. a = b
  BY <1>1, <1>2, <1>3
<1> QED
  BY <1>4 DEF a, b

------------------------------------------------------------------------------
(* What the two sides agree on, whatever is under way.                     *)

\* A node is a folder or a request for good.
KindOf(n) == IF n \in DOMAIN Planted THEN Planted[n].kind ELSE "request"
Forest(t) == DOMAIN t \subseteq Nodes /\ \A n \in DOMAIN t : IsRow(t[n]) /\ t[n].kind = KindOf(n)

LEMMA ForestFacts ==
  ASSUME NEW t, Forest(t)
  PROVE  IsFiniteSet(DOMAIN t) /\ Rows(t) /\ Root \notin DOMAIN t
<1>1. DOMAIN t \subseteq Nodes /\ IsFiniteSet(Nodes) /\ Root \notin Nodes
  BY RequestTreeConstants DEF Forest
<1>2. IsFiniteSet(DOMAIN t)
  BY <1>1, FS_Subset
<1> QED
  BY <1>1, <1>2 DEF Forest, Rows

LEMMA MovedForests ==
  ASSUME Forest(db), Forest(ui), NEW n, NEW col, NEW parent, NEW index
  PROVE  /\ n \in DOMAIN ui => Forest(MoveLocally(n, col, parent, index))
         /\ n \in DOMAIN db /\ (db[n].kind = "folder" => parent \notin Subtree(db, n)) =>
              Forest(MoveNode(n, col, parent, index))
<1>1. ASSUME n \in DOMAIN ui PROVE Forest(MoveLocally(n, col, parent, index))
  <2> DEFINE moved == MoveLocally(n, col, parent, index)
             s == Splice(ui, n, col, parent, index)
             carried == IF ui[n].kind = "folder" /\ ui[n].col # col THEN Subtree(s, n) ELSE {}
  <2>1. Rows(ui)
    BY ForestFacts
  <2>2. DOMAIN s = DOMAIN ui /\ Rows(s) /\ \A m \in DOMAIN ui : s[m].kind = ui[m].kind
    BY <1>1, <2>1, SplicedRows, RowOfIsRow
  <2>3. moved = [m \in DOMAIN s |-> IF m \in carried THEN [s[m] EXCEPT !.col = col] ELSE s[m]]
    BY DEF MoveLocally
  <2> HIDE DEF moved, s, carried
  <2>4. ASSUME NEW m \in DOMAIN ui PROVE IsRow(moved[m]) /\ moved[m].kind = ui[m].kind
    <3>1. IsRow(s[m]) /\ s[m].kind = ui[m].kind
      BY <2>2 DEF Rows
    <3>2. [s[m] EXCEPT !.col = col] = RowOf(s[m], col, s[m].parent, s[m].order)
      BY <3>1, ChangedRow
    <3>3. moved[m] = IF m \in carried THEN [s[m] EXCEPT !.col = col] ELSE s[m]
      BY <2>2, <2>3
    <3>4. moved[m] = RowOf(s[m], col, s[m].parent, s[m].order) \/ moved[m] = s[m]
      BY <3>2, <3>3
    <3> QED
      BY <3>1, <3>4, RowOfIsRow
  <2>5. DOMAIN moved = DOMAIN ui
    BY <2>2, <2>3
  <2>6. Forest(moved)
    BY <2>4, <2>5 DEF Forest
  <2> QED
    BY <2>6 DEF moved
<1>2. ASSUME n \in DOMAIN db, db[n].kind = "folder" => parent \notin Subtree(db, n)
      PROVE  Forest(MoveNode(n, col, parent, index))
  <2> DEFINE moved == MoveNode(n, col, parent, index)
  <2>1. IsFiniteSet(DOMAIN db) /\ Rows(db)
    BY ForestFacts
  <2>2. DOMAIN moved = DOMAIN db /\ \A m \in DOMAIN db : moved[m] = After(db, n, col, parent, index, m)
    BY <1>2, <2>1, MoveNodeIs
  <2>3. \A m \in DOMAIN db : IsRow(moved[m]) /\ moved[m].kind = db[m].kind
    BY <2>2, RowOfIsRow DEF After
  <2> HIDE DEF moved
  <2>4. Forest(moved)
    BY <2>2, <2>3 DEF Forest
  <2> QED
    BY <2>4 DEF moved
<1> QED
  BY <1>1, <1>2

LEMMA MoveKeepsHoused ==
  ASSUME Forest(db), Housed(db), NEW n \in DOMAIN db, NEW col, NEW parent, NEW index,
         db[n].kind = "folder" => parent \notin Subtree(db, n),
         parent # Root => parent \in DOMAIN db /\ db[parent].kind = "folder" /\ db[parent].col = col
  PROVE  Housed(MoveNode(n, col, parent, index))
<1> DEFINE moved == MoveNode(n, col, parent, index)
           T == Subtree(db, n)
           colOf(m) == IF m = n \/ m \in Carried(db, n) THEN col ELSE db[m].col
<1>1. IsFiniteSet(DOMAIN db) /\ Rows(db) /\ Root \notin DOMAIN db
  BY ForestFacts
<1>2. DOMAIN moved = DOMAIN db /\ \A m \in DOMAIN db : moved[m] = After(db, n, col, parent, index, m)
  BY <1>1, MoveNodeIs
<1>3. \A m \in DOMAIN db : /\ moved[m].kind = db[m].kind /\ moved[m].col = colOf(m)
                           /\ moved[m].parent = IF m = n THEN parent ELSE db[m].parent
  BY <1>2, RowOfIsRow DEF After
<1>4. n \in T /\ ClosedBelow(db, T)
  BY <1>1, SubtreeIsClosed
<1>5. \A m \in T : m \in DOMAIN db
  BY <1>1, SubtreeIsHoused
<1>6. \A m \in T \ {n} : db[m].parent \in T
  BY <1>1, SubtreeHasParents
<1> HIDE DEF moved, T
<1>7. ASSUME NEW m \in DOMAIN db, moved[m].parent # Root
      PROVE  /\ moved[m].parent \in DOMAIN db /\ moved[moved[m].parent].kind = "folder"
             /\ moved[moved[m].parent].col = moved[m].col
  <2>1. CASE m = n
    <3>1. moved[m].parent = parent /\ moved[m].col = col /\ parent \in DOMAIN db /\ db[parent].kind = "folder"
      BY <1>3, <1>7, <2>1
    <3>2. colOf(parent) = col
      <4>1. db[parent].col = col
        BY <1>3, <1>7, <2>1
      <4> QED
        BY <4>1
    <3> QED
      BY <1>3, <3>1, <3>2
  <2>2. CASE m # n
    <3>1. moved[m].parent = db[m].parent /\ moved[m].col = colOf(m)
      BY <1>3, <2>2
    <3>2. db[m].parent \in DOMAIN db /\ db[db[m].parent].kind = "folder" /\ db[db[m].parent].col = db[m].col
      BY <1>7, <3>1 DEF Housed
    <3>3. colOf(db[m].parent) = colOf(m)
      <4>1. CASE db[n].kind = "folder"
        <5>1. Carried(db, n) = T
          BY <4>1 DEF Carried, T
        <5>2. m \in T <=> db[m].parent \in T
          BY <1>4, <1>6, <2>2 DEF ClosedBelow
        <5> QED
          BY <1>4, <2>2, <3>2, <5>1, <5>2
      <4>2. CASE db[n].kind # "folder"
        <5>1. Carried(db, n) = {} /\ db[m].parent # n
          BY <3>2, <4>2 DEF Carried
        <5> QED
          BY <2>2, <3>2, <5>1
      <4> QED
        BY <4>1, <4>2
    <3> QED
      BY <1>3, <3>1, <3>2, <3>3
  <2> QED
    BY <2>1, <2>2
<1>8. Housed(moved)
  BY <1>2, <1>7 DEF Housed
<1> QED
  BY <1>8 DEF moved

\* Nor does anything stay in a folder that is deleted.
LEMMA PruneKeepsHoused ==
  ASSUME Forest(db), Housed(db), NEW n
  PROVE  Housed(Prune(db, Subtree(db, n)))
<1> DEFINE T == Subtree(db, n)
           u == Prune(db, T)
<1>1. ClosedBelow(db, T)
  BY ForestFacts, SubtreeIsClosed
<1>2. DOMAIN u = DOMAIN db \ T /\ \A m \in DOMAIN u : u[m] = db[m]
  BY DEF Prune
<1> HIDE DEF T, u
<1>3. Housed(u)
  BY <1>1, <1>2 DEF Housed, ClosedBelow
<1> QED
  BY <1>3 DEF u, T

------------------------------------------------------------------------------
(* What is shown once every call under way is answered.                    *)

IsRefusal(c) == c.kind = "move" /\ ~c.ok
Refused(queue) == \E i \in 1 .. Len(queue) : IsRefusal(queue[i])

\* What is shown of t after the answer of c, in the workspace with the
\* collections (at) or in the other one; and whether that answer is a race.
Showing(c, t, at) ==
  IF c.kind = "create" THEN [m \in DOMAIN t \cup {c.node} |-> IF m = c.node THEN c.row ELSE t[m]]
  ELSE IF c.kind = "delete" THEN Prune(t, Subtree(t, c.node))
  ELSE IF c.kind = "update" THEN IF c.node \in DOMAIN t THEN [t EXCEPT ![c.node] = c.row] ELSE t
  ELSE IF c.kind = "read" THEN IF c.load /\ c.home # at THEN t ELSE c.tree
  ELSE t
Races(c, t, at) ==
  \/ c.kind = "create" /\ c.home # at
  \/ c.kind = "read" /\ ~c.load /\ c.home # at
  \/ c.kind = "update" /\ c.node \in DOMAIN t /\ [t[c.node] EXCEPT !.version = 1] # c.row

IsFold(p, start, queue, at) == p[0] = start /\ \A i \in 1 .. Len(queue) : p[i] = Showing(queue[i], p[i - 1], at)
Smooth(p, queue, at) == \A i \in 1 .. Len(queue) : ~Races(queue[i], p[i - 1], at)

\* What is to be seen of the rows.
Agrees(t, at, stored) == IF at THEN t = stored ELSE DOMAIN t = {}

\* A refused move ends in a reload; until then nothing is said.  Otherwise the
\* answers under way lead to the rows, unless one of them is a race.
Foreseen(start, queue, at, stored) ==
  Refused(queue) \/ \E p : IsFold(p, start, queue, at) /\ (Smooth(p, queue, at) => Agrees(p[Len(queue)], at, stored))

IsList(s) == \E S : s \in Seq(S)

LEMMA Appended ==
  ASSUME NEW s, IsList(s), NEW c
  PROVE  /\ IsList(Append(s, c)) /\ Len(s) \in Nat /\ Len(Append(s, c)) = Len(s) + 1
         /\ \A i \in 1 .. Len(s) : Append(s, c)[i] = s[i]
         /\ Append(s, c)[Len(s) + 1] = c /\ Append(s, c) # <<>>
<1>1. PICK S : s \in Seq(S)
  BY DEF IsList
<1> DEFINE T == S \cup {c}
<1>2. s \in Seq(T) /\ c \in T
  BY <1>1, SeqMonotonic
<1> HIDE DEF T
<1>3. Len(s) \in Nat
  BY <1>2, LenProperties
<1>4. Append(s, c) \in Seq(T) /\ Len(Append(s, c)) = Len(s) + 1 /\ Append(s, c) # <<>>
  BY <1>2, AppendProperties
<1>5. /\ \A i \in 1 .. Len(s) : Append(s, c)[i] = s[i]
      /\ Append(s, c)[Len(s) + 1] = c
  BY <1>2, AppendProperties
<1> QED
  BY <1>3, <1>4, <1>5 DEF IsList

LEMMA Rest ==
  ASSUME NEW s, IsList(s), s # <<>>
  PROVE  /\ IsList(Tail(s)) /\ Len(s) \in Nat /\ Len(s) >= 1 /\ Len(Tail(s)) = Len(s) - 1
         /\ \A i \in 1 .. Len(Tail(s)) : Tail(s)[i] = s[i + 1]
         /\ Head(s) = s[1]
<1>1. PICK S : s \in Seq(S)
  BY DEF IsList
<1>2. Len(s) \in Nat \ {0}
  BY <1>1, EmptySeq
<1>3. Tail(s) \in Seq(S) /\ Len(Tail(s)) = Len(s) - 1 /\ \A i \in 1 .. Len(Tail(s)) : Tail(s)[i] = s[i + 1]
  BY <1>1, HeadTailProperties
<1>4. Head(s) = s[1]
  BY <1>1
<1> QED
  BY <1>2, <1>3, <1>4 DEF IsList

LEMMA FoldsExist ==
  ASSUME NEW start, NEW queue, NEW at, Len(queue) \in Nat
  PROVE  \E p : IsFold(p, start, queue, at)
<1> DEFINE X == {n \in Nat : n <= Len(queue) =>
                   \E p : p[0] = start /\ \A i \in 1 .. n : p[i] = Showing(queue[i], p[i - 1], at)}
<1>1. 0 \in X
  <2>1. \E p : p[0] = start
    <3>1. [i \in {0} |-> start][0] = start
      OBVIOUS
    <3> QED
      BY <3>1
  <2>2. PICK p : p[0] = start
    BY <2>1
  <2>3. \A i \in 1 .. 0 : p[i] = Showing(queue[i], p[i - 1], at)
    OBVIOUS
  <2> QED
    BY <2>2, <2>3
<1>2. ASSUME NEW n \in Nat, n \in X PROVE n + 1 \in X
  <2> SUFFICES ASSUME n + 1 <= Len(queue)
               PROVE  \E p : p[0] = start /\ \A i \in 1 .. n + 1 : p[i] = Showing(queue[i], p[i - 1], at)
    OBVIOUS
  <2>1. PICK p : p[0] = start /\ \A i \in 1 .. n : p[i] = Showing(queue[i], p[i - 1], at)
    BY <1>2
  <2> DEFINE q == [i \in 0 .. n + 1 |-> IF i = n + 1 THEN Showing(queue[n + 1], p[n], at) ELSE p[i]]
  <2>2. q[n + 1] = Showing(queue[n + 1], p[n], at) /\ \A i \in 0 .. n : q[i] = p[i]
    OBVIOUS
  <2> HIDE DEF q
  <2>3. q[0] = start
    BY <2>1, <2>2
  <2>4. ASSUME NEW i \in 1 .. n + 1 PROVE q[i] = Showing(queue[i], q[i - 1], at)
    <3>1. CASE i = n + 1
      BY <3>1, <2>2
    <3>2. CASE i \in 1 .. n
      BY <3>2, <2>1, <2>2
    <3> QED
      BY <3>1, <3>2
  <2> QED
    BY <2>3, <2>4
<1> HIDE DEF X
<1>3. Len(queue) \in X
  BY <1>1, <1>2, NatSetInduction
<1> QED
  BY <1>3 DEF X, IsFold

\* A call is placed: it is foreseen what its answer does to what was foreseen.
LEMMA ForeseenAfter ==
  ASSUME NEW start, NEW queue, IsList(queue), NEW at, NEW stored, NEW next, NEW c,
         Foreseen(start, queue, at, stored),
         \A t : Agrees(t, at, stored) /\ ~Races(c, t, at) /\ ~IsRefusal(c) => Agrees(Showing(c, t, at), at, next)
  PROVE  Foreseen(start, Append(queue, c), at, next)
<1> DEFINE n == Len(queue)
           more == Append(queue, c)
<1>1. n \in Nat /\ Len(more) = n + 1 /\ (\A i \in 1 .. n : more[i] = queue[i]) /\ more[n + 1] = c
  BY Appended
<1> HIDE DEF n, more
<1>2. CASE Refused(queue) \/ IsRefusal(c)
  <2>1. Refused(more)
    <3>1. CASE Refused(queue)
      <4>1. PICK i \in 1 .. n : IsRefusal(queue[i])
        BY <3>1 DEF Refused, n
      <4>2. i \in 1 .. Len(more) /\ more[i] = queue[i]
        BY <1>1
      <4> QED
        BY <4>1, <4>2 DEF Refused
    <3>2. CASE IsRefusal(c)
      <4>1. n + 1 \in 1 .. Len(more)
        BY <1>1
      <4> QED
        BY <1>1, <3>2, <4>1 DEF Refused
    <3> QED
      BY <1>2, <3>1, <3>2
  <2> QED
    BY <2>1 DEF Foreseen, more
<1>3. CASE ~Refused(queue) /\ ~IsRefusal(c)
  <2>1. PICK p : IsFold(p, start, queue, at) /\ (Smooth(p, queue, at) => Agrees(p[n], at, stored))
    BY <1>3 DEF Foreseen, n
  <2> DEFINE q == [i \in 0 .. n + 1 |-> IF i = n + 1 THEN Showing(c, p[n], at) ELSE p[i]]
  <2>2. q[n + 1] = Showing(c, p[n], at) /\ \A i \in 0 .. n : q[i] = p[i]
    BY <1>1
  <2> HIDE DEF q
  <2>3. IsFold(q, start, more, at)
    <3>1. p[0] = start /\ \A i \in 1 .. n : p[i] = Showing(queue[i], p[i - 1], at)
      BY <2>1 DEF IsFold, n
    <3>2. q[0] = start
      BY <1>1, <2>2, <3>1
    <3>3. ASSUME NEW i \in 1 .. n + 1 PROVE q[i] = Showing(more[i], q[i - 1], at)
      <4>1. CASE i = n + 1
        BY <4>1, <1>1, <2>2
      <4>2. CASE i \in 1 .. n
        <5>1. i - 1 \in 0 .. n /\ i \in 0 .. n
          BY <1>1, <4>2
        <5> QED
          BY <1>1, <2>2, <3>1, <4>2, <5>1
      <4> QED
        BY <1>1, <4>1, <4>2
    <3> QED
      BY <1>1, <3>2, <3>3 DEF IsFold
  <2>4. ASSUME Smooth(q, more, at) PROVE Agrees(q[n + 1], at, next)
    <3>1. \A i \in 1 .. n + 1 : ~Races(more[i], q[i - 1], at)
      BY <1>1, <2>4 DEF Smooth
    <3>2. ~Races(c, p[n], at)
      <4>1. n + 1 \in 1 .. n + 1 /\ (n + 1) - 1 = n /\ n \in 0 .. n
        BY <1>1
      <4> QED
        BY <1>1, <2>2, <3>1, <4>1
    <3>3. Smooth(p, queue, at)
      <4> SUFFICES ASSUME NEW i \in 1 .. n PROVE ~Races(queue[i], p[i - 1], at)
        BY DEF Smooth, n
      <4>1. i \in 1 .. n + 1 /\ i - 1 \in 0 .. n
        BY <1>1
      <4> QED
        BY <1>1, <2>2, <3>1, <4>1
    <3> QED
      BY <1>3, <2>1, <2>2, <3>2, <3>3
  <2> QED
    BY <1>1, <2>3, <2>4 DEF Foreseen, more
<1> QED
  BY <1>2, <1>3

\* A read is placed: whatever was to come, it shows the rows.
LEMMA ForeseenAtARead ==
  ASSUME NEW start, NEW queue, IsList(queue), NEW at, NEW stored, NEW c,
         c.kind = "read", ~(c.load /\ c.home # at), Agrees(c.tree, at, stored)
  PROVE  Foreseen(start, Append(queue, c), at, stored)
<1> DEFINE n == Len(queue)
           more == Append(queue, c)
<1>1. n \in Nat /\ Len(more) = n + 1 /\ more[n + 1] = c
  BY Appended
<1> HIDE DEF n, more
<1>2. Len(more) \in Nat /\ n + 1 \in 1 .. Len(more)
  BY <1>1
<1>3. PICK p : IsFold(p, start, more, at)
  BY <1>2, FoldsExist
<1>4. p[n + 1] = Showing(c, p[(n + 1) - 1], at)
  BY <1>1, <1>2, <1>3 DEF IsFold
<1>5. p[n + 1] = c.tree
  BY <1>4 DEF Showing
<1> QED
  BY <1>1, <1>3, <1>5 DEF Foreseen, more

\* The first call is answered: what is shown is one step further.
LEMMA ForeseenAnswered ==
  ASSUME NEW start, NEW queue, IsList(queue), queue # <<>>, NEW at, NEW stored,
         Foreseen(start, queue, at, stored),
         ~IsRefusal(Head(queue)), ~Races(Head(queue), start, at)
  PROVE  Foreseen(Showing(Head(queue), start, at), Tail(queue), at, stored)
<1> DEFINE n == Len(queue)
           rest == Tail(queue)
           c == Head(queue)
<1>1. /\ n \in Nat /\ n >= 1 /\ Len(rest) = n - 1 /\ c = queue[1]
      /\ \A i \in 1 .. Len(rest) : rest[i] = queue[i + 1]
  BY Rest
<1> HIDE DEF n, rest, c
<1>2. CASE Refused(queue)
  <2>1. PICK i \in 1 .. n : IsRefusal(queue[i])
    BY <1>2 DEF Refused, n
  <2>2. i # 1
    BY <1>1, <2>1 DEF c
  <2>3. i - 1 \in 1 .. Len(rest) /\ (i - 1) + 1 = i
    BY <1>1, <2>2
  <2>4. rest[i - 1] = queue[i]
    BY <1>1, <2>3
  <2>5. Refused(rest)
    BY <2>1, <2>3, <2>4 DEF Refused
  <2> QED
    BY <2>5 DEF Foreseen, rest
<1>3. CASE ~Refused(queue)
  <2>1. PICK p : IsFold(p, start, queue, at) /\ (Smooth(p, queue, at) => Agrees(p[n], at, stored))
    BY <1>3 DEF Foreseen, n
  <2> DEFINE q == [i \in 0 .. n |-> p[i + 1]]
  <2>2. \A i \in 0 .. n : q[i] = p[i + 1]
    OBVIOUS
  <2> HIDE DEF q
  <2>3. p[0] = start /\ \A i \in 1 .. n : p[i] = Showing(queue[i], p[i - 1], at)
    BY <2>1 DEF IsFold, n
  <2>4. p[1] = Showing(c, start, at)
    <3>1. 1 \in 1 .. n /\ 1 - 1 = 0
      BY <1>1
    <3> QED
      BY <1>1, <2>3, <3>1
  <2>5. IsFold(q, Showing(c, start, at), rest, at)
    <3>1. q[0] = Showing(c, start, at)
      BY <1>1, <2>2, <2>4
    <3>2. ASSUME NEW i \in 1 .. Len(rest) PROVE q[i] = Showing(rest[i], q[i - 1], at)
      <4>1. i + 1 \in 1 .. n /\ (i + 1) - 1 = i /\ i \in 0 .. n /\ i - 1 \in 0 .. n /\ (i - 1) + 1 = i
        BY <1>1
      <4>2. p[i + 1] = Showing(queue[i + 1], p[i], at)
        BY <2>3, <4>1
      <4> QED
        BY <1>1, <2>2, <4>1, <4>2
    <3> QED
      BY <3>1, <3>2 DEF IsFold
  <2>6. ASSUME Smooth(q, rest, at) PROVE Agrees(q[Len(rest)], at, stored)
    <3>1. Smooth(p, queue, at)
      <4> SUFFICES ASSUME NEW i \in 1 .. n PROVE ~Races(queue[i], p[i - 1], at)
        BY DEF Smooth, n
      <4>1. CASE i = 1
        BY <1>1, <2>3, <4>1 DEF c
      <4>2. CASE i # 1
        <5>1. i - 1 \in 1 .. Len(rest) /\ (i - 1) + 1 = i /\ (i - 1) - 1 \in 0 .. n /\ ((i - 1) - 1) + 1 = i - 1
          BY <1>1, <4>2
        <5>2. ~Races(rest[i - 1], q[(i - 1) - 1], at)
          BY <2>6, <5>1 DEF Smooth
        <5> QED
          BY <1>1, <2>2, <5>1, <5>2
      <4> QED
        BY <4>1, <4>2
    <3>2. Len(rest) \in 0 .. n /\ Len(rest) + 1 = n
      BY <1>1
    <3> QED
      BY <2>1, <2>2, <3>1, <3>2
  <2> QED
    BY <2>5, <2>6 DEF Foreseen, rest, c
<1> QED
  BY <1>2, <1>3

\* The answers of moves change nothing.
AllMoves(queue) == \A i \in 1 .. Len(queue) : queue[i].kind = "move"
LEMMA MovesChangeNothing ==
  ASSUME NEW start, NEW queue, NEW at, Len(queue) \in Nat, AllMoves(queue), NEW p, IsFold(p, start, queue, at)
  PROVE  Smooth(p, queue, at) /\ p[Len(queue)] = start
<1> DEFINE X == {n \in Nat : n <= Len(queue) => p[n] = start}
<1>1. 0 \in X
  BY DEF IsFold
<1>2. ASSUME NEW n \in Nat, n \in X PROVE n + 1 \in X
  <2> SUFFICES ASSUME n + 1 <= Len(queue) PROVE p[n + 1] = start
    OBVIOUS
  <2>1. p[n] = start /\ n + 1 \in 1 .. Len(queue) /\ (n + 1) - 1 = n
    BY <1>2
  <2>2. p[n + 1] = Showing(queue[n + 1], start, at)
    BY <2>1 DEF IsFold
  <2> QED
    BY <2>1, <2>2 DEF Showing, AllMoves
<1> HIDE DEF X
<1>3. Len(queue) \in X
  BY <1>1, <1>2, NatSetInduction
<1> QED
  BY <1>3 DEF X, Smooth, Races, AllMoves

LEMMA ForeseenAcrossMoves ==
  ASSUME NEW start, NEW queue, NEW at, NEW stored, Len(queue) \in Nat, AllMoves(queue), ~Refused(queue)
  PROVE  Foreseen(start, queue, at, stored) <=> Agrees(start, at, stored)
<1>1. PICK p : IsFold(p, start, queue, at)
  BY FoldsExist
<1>2. p[Len(queue)] = start
  BY <1>1, MovesChangeNothing
<1>3. ASSUME Foreseen(start, queue, at, stored) PROVE Agrees(start, at, stored)
  <2>1. PICK q : IsFold(q, start, queue, at) /\ (Smooth(q, queue, at) => Agrees(q[Len(queue)], at, stored))
    BY <1>3 DEF Foreseen
  <2> QED
    BY <2>1, MovesChangeNothing
<1> QED
  BY <1>1, <1>2, <1>3 DEF Foreseen

------------------------------------------------------------------------------
(* The inductive invariant, TreeInv, and each step of it.                  *)

\* In the other workspace there is nothing to be seen, and nothing is read there
\* but that.
Elsewhere(c) ==
  (c.kind \in {"create", "read"} \/ IsRefusal(c)) /\ ~c.home => c.kind = "read" /\ DOMAIN c.tree = {}
CallFits(c) ==
  /\ c.kind \in {"create", "update", "delete", "read", "move"}
  /\ c.kind = "create" => c.node \in Drafted /\ IsRow(c.row) /\ c.row.kind = "request"
  /\ c.kind = "update" => IsRow(c.row) /\ c.row.kind = KindOf(c.node)
  /\ c.kind = "read" => Forest(c.tree)
  /\ IsRefusal(c) => Forest(c.before)

TreeShapes ==
  /\ home \in BOOLEAN /\ Forest(db) /\ Forest(ui) /\ IsList(answers)
  /\ \A i \in 1 .. Len(answers) : CallFits(answers[i])
TreeOrder ==
  /\ Housed(db) /\ (~home => DOMAIN ui = {})
  /\ \A i \in 1 .. Len(answers) : Elsewhere(answers[i])
  /\ Foreseen(ui, answers, home, db)
TreeInv == TreeShapes /\ (~raced => TreeOrder)

LEMMA PlacedCalls ==
  ASSUME TreeShapes, NEW c, Place(c), CallFits(c)
  PROVE  /\ IsList(answers') /\ answers' = Append(answers, c)
         /\ \A i \in 1 .. Len(answers') : CallFits(answers'[i])
         /\ Elsewhere(c) /\ (\A i \in 1 .. Len(answers) : Elsewhere(answers[i])) =>
              \A i \in 1 .. Len(answers') : Elsewhere(answers'[i])
<1>1. answers' = Append(answers, c)
  BY DEF Place
<1>2. /\ IsList(answers') /\ Len(answers) \in Nat /\ Len(answers') = Len(answers) + 1
      /\ \A i \in 1 .. Len(answers) : answers'[i] = answers[i]
      /\ answers'[Len(answers) + 1] = c
  BY <1>1, Appended DEF TreeShapes
<1>3. \A i \in 1 .. Len(answers') : i \in 1 .. Len(answers) \/ i = Len(answers) + 1
  BY <1>2
<1> QED
  BY <1>1, <1>2, <1>3 DEF TreeShapes

LEMMA CallsLeft ==
  ASSUME TreeShapes, answers # <<>>
  PROVE  /\ IsList(Tail(answers)) /\ CallFits(Head(answers))
         /\ \A i \in 1 .. Len(Tail(answers)) : CallFits(Tail(answers)[i])
         /\ (\A i \in 1 .. Len(answers) : Elsewhere(answers[i])) =>
              Elsewhere(Head(answers)) /\ \A i \in 1 .. Len(Tail(answers)) : Elsewhere(Tail(answers)[i])
<1>1. /\ IsList(Tail(answers)) /\ Len(answers) \in Nat /\ Len(answers) >= 1 /\ Len(Tail(answers)) = Len(answers) - 1
      /\ \A i \in 1 .. Len(Tail(answers)) : Tail(answers)[i] = answers[i + 1]
      /\ Head(answers) = answers[1]
  BY Rest DEF TreeShapes
<1>2. 1 \in 1 .. Len(answers) /\ \A i \in 1 .. Len(Tail(answers)) : i + 1 \in 1 .. Len(answers)
  BY <1>1
<1> QED
  BY <1>1, <1>2 DEF TreeShapes

LEMMA NoTreeIsAForest == Forest(<<>>) /\ DOMAIN <<>> = {}
  BY DEF Forest

LEMMA UpdatedRow ==
  ASSUME NEW r, IsRow(r)
  PROVE  LET u == [r EXCEPT !.version = 1]
         IN  IsRow(u) /\ u.kind = r.kind /\ u.col = r.col /\ u.parent = r.parent
<1>1. PICK k, c, p, o, v : r = [kind |-> k, col |-> c, parent |-> p, order |-> o, version |-> v]
  BY DEF IsRow
<1> QED
  BY <1>1 DEF IsRow

LEMMA InsertStep ==
  ASSUME TreeInv, NEW n \in Drafted, n \notin DOMAIN db, NEW row, IsRow(row), row.kind = "request",
         Insert(n, row), ~raced' => home,
         ~raced' /\ row.parent # Root =>
           row.parent \in DOMAIN db /\ db[row.parent].kind = "folder" /\ db[row.parent].col = row.col
  PROVE  TreeInv'
<1> PICK c : c = [kind |-> "create", node |-> n, row |-> row, home |-> home]
  OBVIOUS
<1>1. /\ db' = [m \in DOMAIN db \cup {n} |-> IF m = n THEN row ELSE db[m]]
      /\ Place(c) /\ home' = home /\ ui' = ui /\ (~raced' => ~raced)
  BY DEF Insert
<1>2. c.kind = "create" /\ c.node = n /\ c.row = row /\ c.home = home /\ ~IsRefusal(c)
  BY DEF IsRefusal
<1>3. CallFits(c)
  BY <1>2 DEF CallFits
<1>4. TreeShapes
  BY DEF TreeInv
<1>5. n \in Nodes /\ KindOf(n) = "request"
  BY RequestTreeConstants DEF Nodes, KindOf
<1>6. Forest(db')
  BY <1>1, <1>4, <1>5 DEF Forest, TreeShapes
<1>7. TreeShapes'
  BY <1>1, <1>3, <1>4, <1>6, PlacedCalls DEF TreeShapes
<1>8. ASSUME ~raced' PROVE TreeOrder'
  <2>1. TreeOrder /\ home
    BY <1>1, <1>8 DEF TreeInv
  <2>2. Housed(db')
    <3>1. DOMAIN db' = DOMAIN db \cup {n} /\ db'[n] = row /\ \A m \in DOMAIN db : db'[m] = db[m]
      BY <1>1
    <3>2. \A m \in DOMAIN db : db[m].parent # Root =>
            /\ db[m].parent \in DOMAIN db /\ db[db[m].parent].kind = "folder"
            /\ db[db[m].parent].col = db[m].col
      BY <2>1 DEF TreeOrder, Housed
    <3> QED
      BY <1>8, <3>1, <3>2 DEF Housed
  <2>3. Elsewhere(c)
    BY <1>2, <2>1 DEF Elsewhere
  <2>4. Foreseen(ui, answers', home, db')
    <3>1. ASSUME NEW t, Agrees(t, home, db) PROVE Agrees(Showing(c, t, home), home, db')
      <4>1. t = db
        BY <2>1, <3>1 DEF Agrees
      <4>2. Showing(c, t, home) = db'
        BY <1>1, <1>2, <4>1 DEF Showing
      <4> QED
        BY <2>1, <4>2 DEF Agrees
    <3>2. Foreseen(ui, answers, home, db) /\ IsList(answers) /\ answers' = Append(answers, c)
      BY <1>1, <1>3, <1>4, <2>1, PlacedCalls DEF TreeOrder, TreeShapes
    <3> QED
      BY <3>1, <3>2, ForeseenAfter
  <2> QED
    BY <1>1, <1>3, <1>4, <2>1, <2>2, <2>3, <2>4, PlacedCalls DEF TreeOrder
<1> QED
  BY <1>7, <1>8 DEF TreeInv

LEMMA BornRow ==
  ASSUME NEW n, NEW col, NEW parent, NEW version
  PROVE  LET row == Born(n, col, parent, version)
         IN  IsRow(row) /\ row.kind = "request" /\ row.col = col /\ row.parent = parent
<1> DEFINE o == Max({0} \cup {db[m].order + 1 : m \in Under(db, "request", col, parent)})
<1>1. Born(n, col, parent, version) =
        [kind |-> "request", col |-> col, parent |-> parent, order |-> o, version |-> version]
  BY DEF Born
<1> HIDE DEF o
<1> QED
  BY <1>1 DEF IsRow

LEMMA CreateStep ==
  ASSUME TreeInv, NEW col, NEW parent, CreateRequest(col, parent)
  PROVE  TreeInv'
<1>1. PICK n \in Unused :
        /\ home /\ parent \in {Root} \cup {f \in DOMAIN ui \cap DOMAIN db : ui[f].kind = "folder" /\ ui[f].col = col}
        /\ Insert(n, Born(n, col, parent, 0))
  BY DEF CreateRequest
<1>2. PICK row : row = Born(n, col, parent, 0)
  OBVIOUS
<1>3. n \in Drafted /\ n \notin DOMAIN db
  BY DEF Unused
<1>4. IsRow(row) /\ row.kind = "request" /\ row.col = col /\ row.parent = parent
  BY <1>2, BornRow
<1>5. Insert(n, row)
  BY <1>1, <1>2
<1>6. ASSUME ~raced', parent # Root
      PROVE  parent \in DOMAIN db /\ db[parent].kind = "folder" /\ db[parent].col = col
  <2>1. parent \in DOMAIN ui \cap DOMAIN db /\ ui[parent].kind = "folder"
    BY <1>1, <1>6
  <2>2. db[parent].kind = ui[parent].kind
    BY <2>1 DEF TreeInv, TreeShapes, Forest
  <2>3. ~Misfiled(parent, col)
    BY <1>4, <1>5, <1>6 DEF Insert
  <2> QED
    BY <2>1, <2>2, <2>3 DEF Misfiled
<1> QED
  BY <1>1, <1>3, <1>4, <1>5, <1>6, InsertStep

LEMMA DuplicateStep ==
  ASSUME TreeInv, NEW q, DuplicateRequest(q)
  PROVE  TreeInv'
<1>1. PICK n \in Unused :
        /\ q \in DOMAIN ui \cap DOMAIN db /\ db[q].kind = "request"
        /\ Insert(n, Born(n, db[q].col, db[q].parent, db[q].version))
  BY DEF DuplicateRequest
<1>2. PICK row : row = Born(n, db[q].col, db[q].parent, db[q].version)
  OBVIOUS
<1>3. n \in Drafted /\ n \notin DOMAIN db
  BY DEF Unused
<1>4. IsRow(row) /\ row.kind = "request" /\ row.col = db[q].col /\ row.parent = db[q].parent
  BY <1>2, BornRow
<1>5. Insert(n, row)
  BY <1>1, <1>2
<1>6. ASSUME ~raced'
      PROVE  /\ home
             /\ row.parent # Root =>
                  row.parent \in DOMAIN db /\ db[row.parent].kind = "folder" /\ db[row.parent].col = row.col
  <2>1. ~raced
    BY <1>5, <1>6 DEF Insert
  <2>2. home
    BY <1>1, <2>1 DEF TreeInv, TreeOrder
  <2>3. Housed(db)
    BY <2>1 DEF TreeInv, TreeOrder
  <2> QED
    BY <1>1, <1>4, <2>2, <2>3 DEF Housed
<1> QED
  BY <1>3, <1>4, <1>5, <1>6, InsertStep

LEMMA DeleteStep ==
  ASSUME TreeInv, NEW n, DeleteNode(n)
  PROVE  TreeInv'
<1> PICK c : c = [kind |-> "delete", node |-> n]
  OBVIOUS
<1>1. /\ n \in DOMAIN ui /\ db' = Prune(db, Subtree(db, n))
      /\ Place(c) /\ home' = home /\ ui' = ui /\ raced' = raced
  BY DEF DeleteNode
<1>2. c.kind = "delete" /\ c.node = n /\ ~IsRefusal(c) /\ CallFits(c) /\ Elsewhere(c)
  BY DEF IsRefusal, CallFits, Elsewhere
<1>3. TreeShapes
  BY DEF TreeInv
<1>4. Forest(db')
  BY <1>1, <1>3 DEF Forest, Prune, TreeShapes
<1>5. TreeShapes'
  BY <1>1, <1>2, <1>3, <1>4, PlacedCalls DEF TreeShapes
<1>6. ASSUME ~raced PROVE TreeOrder'
  <2>1. TreeOrder /\ home
    BY <1>1, <1>6 DEF TreeInv, TreeOrder
  <2>2. Housed(db')
    BY <1>1, <1>3, <2>1, PruneKeepsHoused DEF TreeOrder, TreeShapes
  <2>3. ASSUME NEW t, Agrees(t, home, db) PROVE Agrees(Showing(c, t, home), home, db')
    BY <1>1, <1>2, <2>1, <2>3 DEF Agrees, Showing
  <2>4. Foreseen(ui, answers, home, db) /\ IsList(answers) /\ answers' = Append(answers, c)
    BY <1>1, <1>2, <1>3, <2>1, PlacedCalls DEF TreeOrder, TreeShapes
  <2>5. Foreseen(ui, answers', home, db')
    BY <2>3, <2>4, ForeseenAfter
  <2> QED
    BY <1>1, <1>2, <1>3, <2>1, <2>2, <2>5, PlacedCalls DEF TreeOrder
<1> QED
  BY <1>1, <1>5, <1>6 DEF TreeInv

LEMMA UpdateStep ==
  ASSUME TreeInv, NEW n, UpdateNode(n)
  PROVE  TreeInv'
<1> PICK row : row = [ui[n] EXCEPT !.version = 1]
  OBVIOUS
<1> PICK c : c = [kind |-> "update", node |-> n, row |-> row]
  OBVIOUS
<1>1. /\ n \in DOMAIN ui /\ db' = IF n \in DOMAIN db THEN [db EXCEPT ![n].version = 1] ELSE db
      /\ Place(c) /\ home' = home /\ ui' = ui /\ raced' = raced
  BY DEF UpdateNode
<1>2. c.kind = "update" /\ c.node = n /\ c.row = row /\ ~IsRefusal(c) /\ Elsewhere(c)
  BY DEF IsRefusal, Elsewhere
<1>3. TreeShapes
  BY DEF TreeInv
<1>4. CallFits(c)
  <2>1. IsRow(ui[n]) /\ ui[n].kind = KindOf(n)
    BY <1>1, <1>3 DEF TreeShapes, Forest
  <2>2. IsRow(row) /\ row.kind = KindOf(n)
    BY <2>1, UpdatedRow
  <2> QED
    BY <1>2, <2>2 DEF CallFits
<1>5. /\ DOMAIN db' = DOMAIN db
      /\ \A m \in DOMAIN db : /\ IsRow(db'[m]) /\ db'[m].kind = db[m].kind
                              /\ db'[m].col = db[m].col /\ db'[m].parent = db[m].parent
  <2>1. ASSUME NEW m \in DOMAIN db
        PROVE  /\ IsRow(db'[m]) /\ db'[m].kind = db[m].kind
               /\ db'[m].col = db[m].col /\ db'[m].parent = db[m].parent
    <3>1. IsRow(db[m])
      BY <1>3 DEF TreeShapes, Forest
    <3>2. db'[m] = db[m] \/ db'[m] = [db[m] EXCEPT !.version = 1]
      BY <1>1
    <3> QED
      BY <3>1, <3>2, UpdatedRow
  <2> QED
    BY <1>1, <2>1
<1>6. Forest(db')
  BY <1>3, <1>5 DEF Forest, TreeShapes
<1>7. TreeShapes'
  BY <1>1, <1>3, <1>4, <1>6, PlacedCalls DEF TreeShapes
<1>8. ASSUME ~raced PROVE TreeOrder'
  <2>1. TreeOrder /\ home
    BY <1>1, <1>8 DEF TreeInv, TreeOrder
  <2>2. Housed(db')
    BY <1>5, <2>1 DEF TreeOrder, Housed
  <2>3. ASSUME NEW t, Agrees(t, home, db), ~Races(c, t, home) PROVE Agrees(Showing(c, t, home), home, db')
    <3>1. t = db
      BY <2>1, <2>3 DEF Agrees
    <3>2. Showing(c, t, home) = IF n \in DOMAIN db THEN [db EXCEPT ![n] = row] ELSE db
      BY <1>2, <3>1 DEF Showing
    <3>3. n \in DOMAIN db => [db[n] EXCEPT !.version = 1] = row
      BY <1>2, <2>3, <3>1 DEF Races
    <3>4. Showing(c, t, home) = db'
      BY <1>1, <3>2, <3>3
    <3> QED
      BY <2>1, <3>4 DEF Agrees
  <2>4. Foreseen(ui, answers, home, db) /\ IsList(answers) /\ answers' = Append(answers, c)
    BY <1>1, <1>3, <1>4, <2>1, PlacedCalls DEF TreeOrder, TreeShapes
  <2>5. Foreseen(ui, answers', home, db')
    BY <2>3, <2>4, ForeseenAfter
  <2> QED
    BY <1>1, <1>2, <1>3, <1>4, <2>1, <2>2, <2>5, PlacedCalls DEF TreeOrder
<1> QED
  BY <1>1, <1>7, <1>8 DEF TreeInv

LEMMA ReloadStep ==
  ASSUME TreeInv, ReloadTree
  PROVE  TreeInv'
<1> PICK stored : stored = Read
  OBVIOUS
<1> PICK c : c = [kind |-> "read", tree |-> stored, load |-> FALSE, home |-> home]
  OBVIOUS
<1>1. Place(c) /\ home' = home /\ ui' = ui /\ db' = db /\ raced' = raced
  BY DEF ReloadTree
<1>2. c.kind = "read" /\ c.tree = stored /\ c.home = home /\ c.load = FALSE /\ ~IsRefusal(c)
  BY DEF IsRefusal
<1>3. TreeShapes
  BY DEF TreeInv
<1>4. Forest(stored) /\ Agrees(stored, home, db)
  BY <1>3, NoTreeIsAForest DEF Read, Agrees, TreeShapes
<1>5. CallFits(c) /\ Elsewhere(c)
  BY <1>2, <1>4 DEF CallFits, Elsewhere, Agrees
<1>6. TreeShapes'
  BY <1>1, <1>3, <1>5, PlacedCalls DEF TreeShapes
<1>7. ASSUME ~raced PROVE TreeOrder'
  <2>1. IsList(answers) /\ answers' = Append(answers, c)
    BY <1>1, <1>3, <1>5, PlacedCalls DEF TreeShapes
  <2>2. Foreseen(ui, answers', home, db)
    BY <1>2, <1>4, <2>1, ForeseenAtARead
  <2> QED
    BY <1>1, <1>3, <1>5, <1>7, <2>2, PlacedCalls DEF TreeInv, TreeOrder
<1> QED
  BY <1>1, <1>6, <1>7 DEF TreeInv

LEMMA SwitchStep ==
  ASSUME TreeInv, SetShown
  PROVE  TreeInv'
<1> PICK stored : stored = IF home THEN <<>> ELSE db
  OBVIOUS
<1> PICK other \in BOOLEAN : other = ~home
  OBVIOUS
<1> PICK c : c = [kind |-> "read", tree |-> stored, load |-> TRUE, home |-> other]
  OBVIOUS
<1>1. Place(c) /\ home' = other /\ ui' = <<>> /\ db' = db /\ raced' = raced
  BY DEF SetShown
<1>2. c.kind = "read" /\ c.tree = stored /\ c.home = other /\ ~IsRefusal(c)
  BY DEF IsRefusal
<1>3. TreeShapes
  BY DEF TreeInv
<1>4. Forest(stored) /\ Agrees(stored, other, db)
  BY <1>3, NoTreeIsAForest DEF Agrees, TreeShapes
<1>5. CallFits(c) /\ Elsewhere(c)
  BY <1>2, <1>4 DEF CallFits, Elsewhere, Agrees
<1>6. TreeShapes'
  BY <1>1, <1>3, <1>5, PlacedCalls, NoTreeIsAForest DEF TreeShapes
<1>7. ASSUME ~raced PROVE TreeOrder'
  <2>1. IsList(answers) /\ answers' = Append(answers, c)
    BY <1>1, <1>3, <1>5, PlacedCalls DEF TreeShapes
  <2>2. Foreseen(ui', answers', other, db)
    BY <1>2, <1>4, <2>1, ForeseenAtARead
  <2> QED
    BY <1>1, <1>3, <1>5, <1>7, <2>2, PlacedCalls, NoTreeIsAForest DEF TreeInv, TreeOrder
<1> QED
  BY <1>1, <1>6, <1>7 DEF TreeInv

LEMMA DropStep ==
  ASSUME TreeInv, NEW n, NEW col, NEW parent, NEW gap, Drop(n, col, parent, gap)
  PROVE  TreeInv'
<1> DEFINE siblings == InOrder(ui, Under(ui, ui[n].kind, col, parent))
           at == IF Contains(siblings, n) THEN PositionOf(n, siblings) ELSE 0
<1> PICK index : index = StoreIndex(gap, at)
  OBVIOUS
<1> PICK before : before = ui
  OBVIOUS
<1> DEFINE yes == [kind |-> "move", ok |-> TRUE]
           no == [kind |-> "move", ok |-> FALSE, before |-> before, home |-> home]
<1>1. /\ n \in DOMAIN ui /\ CanDrop(n, col, parent) /\ home' = home
      /\ ui' = MoveLocally(n, col, parent, index)
      /\ raced' = (raced \/ Misfiled(parent, col) \/ Pending({"create", "update", "delete", "read"}))
      /\ \/ Movable(n, parent) /\ db' = MoveNode(n, col, parent, index) /\ Place(yes)
         \/ db' = db /\ Place(no)
  BY DEF Drop
<1> HIDE DEF siblings, at
<1>2. TreeShapes
  BY DEF TreeInv
<1>3. Forest(ui')
  BY <1>1, <1>2, MovedForests DEF TreeShapes
<1>4. ASSUME ~raced'
      PROVE  /\ TreeOrder /\ home
             /\ \A i \in 1 .. Len(answers) : answers[i].kind \notin {"create", "update", "delete", "read"}
             /\ parent # Root /\ parent \in DOMAIN db => db[parent].kind = "folder" /\ db[parent].col = col
  <2>1. ~raced /\ ~Misfiled(parent, col) /\ ~Pending({"create", "update", "delete", "read"})
    BY <1>1, <1>4
  <2>2. TreeOrder /\ home
    BY <1>1, <2>1 DEF TreeInv, TreeOrder
  <2>3. DOMAIN answers = 1 .. Len(answers)
    <3>1. PICK S : answers \in Seq(S)
      BY <1>2 DEF TreeShapes, IsList
    <3> QED
      BY <3>1, LenProperties
  <2>4. parent # Root /\ parent \in DOMAIN db => db[parent].kind = "folder" /\ db[parent].col = col
    <3> SUFFICES ASSUME parent # Root, parent \in DOMAIN db
                 PROVE  db[parent].kind = "folder" /\ db[parent].col = col
      OBVIOUS
    <3>1. parent \in DOMAIN ui /\ ui[parent].kind = "folder"
      BY <1>1 DEF CanDrop
    <3>2. db[parent].kind = ui[parent].kind
      BY <1>2, <3>1 DEF TreeShapes, Forest
    <3> QED
      BY <2>1, <3>1, <3>2 DEF Misfiled
  <2> QED
    BY <2>1, <2>2, <2>3, <2>4 DEF Pending
<1>5. CASE db' = db /\ Place(no)
  <2>1. PICK c : c = no
    OBVIOUS
  <2>2. c.kind = "move" /\ c.ok = FALSE /\ c.before = ui /\ c.home = home /\ Place(c)
    BY <1>5, <2>1
  <2>3. IsRefusal(c) /\ CallFits(c)
    BY <1>2, <2>2 DEF IsRefusal, CallFits, TreeShapes
  <2>4. TreeShapes'
    BY <1>1, <1>2, <1>3, <1>5, <2>2, <2>3, PlacedCalls DEF TreeShapes
  <2>5. ASSUME ~raced' PROVE TreeOrder'
    <3>1. TreeOrder /\ home
      BY <1>4, <2>5
    <3>2. Elsewhere(c)
      BY <2>2, <3>1 DEF Elsewhere
    <3>3. Refused(answers')
      <4>1. answers' = Append(answers, c) /\ IsList(answers)
        BY <1>2, <2>2, <2>3, PlacedCalls DEF TreeShapes
      <4>2. Len(answers) \in Nat /\ Len(answers') = Len(answers) + 1 /\ answers'[Len(answers) + 1] = c
        BY <4>1, Appended
      <4>3. Len(answers) + 1 \in 1 .. Len(answers')
        BY <4>2
      <4> QED
        BY <2>3, <4>2, <4>3 DEF Refused
    <3> QED
      BY <1>1, <1>2, <1>5, <2>2, <2>3, <3>1, <3>2, <3>3, PlacedCalls DEF TreeOrder, Foreseen
  <2> QED
    BY <2>4, <2>5 DEF TreeInv
<1>6. CASE Movable(n, parent) /\ db' = MoveNode(n, col, parent, index) /\ Place(yes)
  <2>1. PICK c : c = yes
    OBVIOUS
  <2>2. c.kind = "move" /\ c.ok = TRUE /\ Place(c)
    BY <1>6, <2>1
  <2>3. ~IsRefusal(c) /\ CallFits(c) /\ Elsewhere(c)
    BY <2>2 DEF IsRefusal, CallFits, Elsewhere
  <2>4. n \in DOMAIN db /\ parent \in DOMAIN db \cup {Root} /\ (db[n].kind = "folder" => parent \notin Subtree(db, n))
    BY <1>6 DEF Movable
  <2>5. Forest(db')
    BY <1>2, <1>6, <2>4, MovedForests DEF TreeShapes
  <2>6. TreeShapes'
    BY <1>1, <1>2, <1>3, <2>2, <2>3, <2>5, PlacedCalls DEF TreeShapes
  <2>7. ASSUME ~raced' PROVE TreeOrder'
    <3>1. /\ TreeOrder /\ home
          /\ \A i \in 1 .. Len(answers) : answers[i].kind \notin {"create", "update", "delete", "read"}
          /\ parent # Root /\ parent \in DOMAIN db => db[parent].kind = "folder" /\ db[parent].col = col
      BY <1>4, <2>7
    <3>2. Housed(db')
      BY <1>2, <1>6, <2>4, <3>1, MoveKeepsHoused DEF TreeOrder, TreeShapes
    <3>3. Foreseen(ui', answers', home, db')
      <4>1. /\ IsList(answers) /\ answers' = Append(answers, c)
            /\ \A i \in 1 .. Len(answers) : CallFits(answers[i])
        BY <1>2, <2>2, <2>3, PlacedCalls DEF TreeShapes
      <4>2. AllMoves(answers)
        BY <3>1, <4>1 DEF CallFits, AllMoves
      <4>3. /\ Len(answers) \in Nat /\ Len(answers') = Len(answers) + 1
            /\ \A i \in 1 .. Len(answers) : answers'[i] = answers[i]
            /\ answers'[Len(answers) + 1] = c
        BY <4>1, Appended
      <4>4. \A i \in 1 .. Len(answers') : i \in 1 .. Len(answers) \/ i = Len(answers) + 1
        BY <4>3
      <4>5. CASE Refused(answers)
        <5>1. PICK i \in 1 .. Len(answers) : IsRefusal(answers[i])
          BY <4>5 DEF Refused
        <5>2. i \in 1 .. Len(answers') /\ answers'[i] = answers[i]
          BY <4>3
        <5>3. Refused(answers')
          BY <5>1, <5>2 DEF Refused
        <5> QED
          BY <5>3 DEF Foreseen
      <4>6. CASE ~Refused(answers)
        <5>1. Agrees(ui, home, db)
          BY <3>1, <4>2, <4>3, <4>6, ForeseenAcrossMoves DEF TreeOrder
        <5>2. ui = db
          BY <3>1, <5>1 DEF Agrees
        <5>3. IsFiniteSet(DOMAIN db) /\ Rows(db) /\ Root \notin DOMAIN db
          BY <1>2, ForestFacts DEF TreeShapes
        <5>4. ui' = db'
          BY <1>1, <1>6, <2>4, <3>1, <5>2, <5>3, MovesAgree DEF TreeOrder
        <5>5. Agrees(ui', home, db')
          BY <3>1, <5>4 DEF Agrees
        <5>6. AllMoves(answers') /\ ~Refused(answers')
          BY <2>2, <2>3, <4>2, <4>3, <4>4, <4>6 DEF AllMoves, Refused
        <5>7. Len(answers') \in Nat
          BY <4>3
        <5> QED
          BY <1>1, <5>5, <5>6, <5>7, ForeseenAcrossMoves
      <4> QED
        BY <4>5, <4>6
    <3> QED
      BY <1>1, <1>2, <2>2, <2>3, <3>1, <3>2, <3>3, PlacedCalls DEF TreeOrder
  <2> QED
    BY <2>6, <2>7 DEF TreeInv
<1> QED
  BY <1>1, <1>5, <1>6

LEMMA AnswerStep ==
  ASSUME TreeInv, AnswerArrives
  PROVE  TreeInv'
<1> PICK c : c = Head(answers)
  OBVIOUS
<1>1. answers # <<>> /\ home' = home /\ db' = db /\ Answered(c)
  BY DEF AnswerArrives
<1>2. TreeShapes
  BY DEF TreeInv
<1>3. /\ IsList(Tail(answers)) /\ CallFits(c)
      /\ \A i \in 1 .. Len(Tail(answers)) : CallFits(Tail(answers)[i])
  BY <1>1, <1>2, CallsLeft
<1>4. ASSUME TreeOrder
      PROVE  Elsewhere(c) /\ \A i \in 1 .. Len(Tail(answers)) : Elsewhere(Tail(answers)[i])
  BY <1>1, <1>2, <1>4, CallsLeft DEF TreeOrder
<1>5. raced \/ TreeOrder
  BY DEF TreeInv
<1>6. CASE /\ c.kind = "move" /\ ~c.ok /\ ui' = c.before
           /\ raced' = (raced \/ c.home # home)
           /\ answers' = Append(Tail(answers), [kind |-> "read", tree |-> Read, load |-> FALSE, home |-> home])
  <2>1. PICK stored : stored = Read
    OBVIOUS
  <2>2. PICK d : d = [kind |-> "read", tree |-> stored, load |-> FALSE, home |-> home]
    OBVIOUS
  <2>3. d.kind = "read" /\ d.tree = stored /\ d.home = home /\ d.load = FALSE /\ answers' = Append(Tail(answers), d)
    BY <1>6, <2>1, <2>2
  <2>4. Forest(stored) /\ Agrees(stored, home, db)
    BY <1>2, <2>1, NoTreeIsAForest DEF Read, Agrees, TreeShapes
  <2>5. CallFits(d) /\ Elsewhere(d)
    BY <2>3, <2>4 DEF CallFits, Elsewhere, Agrees, IsRefusal
  <2>6. /\ IsList(answers') /\ Len(Tail(answers)) \in Nat /\ Len(answers') = Len(Tail(answers)) + 1
        /\ \A i \in 1 .. Len(Tail(answers)) : answers'[i] = Tail(answers)[i]
        /\ answers'[Len(Tail(answers)) + 1] = d
    BY <1>3, <2>3, Appended
  <2>7. \A i \in 1 .. Len(answers') : i \in 1 .. Len(Tail(answers)) \/ i = Len(Tail(answers)) + 1
    BY <2>6
  <2>8. Forest(ui')
    BY <1>3, <1>6 DEF CallFits, IsRefusal
  <2>9. TreeShapes'
    BY <1>1, <1>2, <1>3, <2>5, <2>6, <2>7, <2>8 DEF TreeShapes
  <2>10. ASSUME ~raced' PROVE TreeOrder'
    <3>1. TreeOrder /\ c.home = home
      BY <1>5, <1>6, <2>10
    <3>2. home
      BY <1>4, <1>6, <3>1 DEF Elsewhere, IsRefusal
    <3>3. Foreseen(ui', answers', home, db)
      BY <1>3, <2>3, <2>4, ForeseenAtARead
    <3>4. \A i \in 1 .. Len(answers') : Elsewhere(answers'[i])
      BY <1>4, <2>5, <2>6, <2>7, <3>1
    <3> QED
      BY <1>1, <3>1, <3>2, <3>3, <3>4 DEF TreeOrder
  <2> QED
    BY <2>9, <2>10 DEF TreeInv
<1>7. CASE c.kind = "move" /\ ~c.ok /\ ui' = c.before /\ raced' = TRUE /\ answers' = Tail(answers)
  BY <1>1, <1>2, <1>3, <1>7 DEF TreeInv, TreeShapes, CallFits, IsRefusal
<1>8. CASE /\ ~IsRefusal(c) /\ ui' = Showing(c, ui, home) /\ answers' = Tail(answers)
           /\ Forest(ui') /\ (~raced' => ~raced /\ ~Races(c, ui, home))
           /\ ~raced' /\ ~home => DOMAIN ui' = {}
  <2>1. TreeShapes'
    BY <1>1, <1>2, <1>3, <1>8 DEF TreeShapes
  <2>2. ASSUME ~raced' PROVE TreeOrder'
    <3>1. TreeOrder /\ ~Races(c, ui, home)
      BY <1>5, <1>8, <2>2
    <3>2. Foreseen(ui', answers', home, db)
      BY <1>1, <1>2, <1>8, <3>1, ForeseenAnswered DEF TreeOrder, TreeShapes
    <3> QED
      BY <1>1, <1>4, <1>8, <2>2, <3>1, <3>2 DEF TreeOrder
  <2> QED
    BY <2>1, <2>2 DEF TreeInv
<1>9. CASE /\ c.kind = "create" /\ ui' = [m \in DOMAIN ui \cup {c.node} |-> IF m = c.node THEN c.row ELSE ui[m]]
           /\ raced' = (raced \/ c.home # home) /\ answers' = Tail(answers)
  <2>1. ~IsRefusal(c) /\ ui' = Showing(c, ui, home)
    BY <1>9 DEF IsRefusal, Showing
  <2>2. Forest(ui')
    <3>1. c.node \in Drafted /\ IsRow(c.row) /\ c.row.kind = "request"
      BY <1>3, <1>9 DEF CallFits
    <3>2. c.node \in Nodes /\ KindOf(c.node) = "request"
      BY <3>1, RequestTreeConstants DEF Nodes, KindOf
    <3> QED
      BY <1>2, <1>9, <3>1, <3>2 DEF Forest, TreeShapes
  <2>3. ~raced' => ~raced /\ ~Races(c, ui, home)
    BY <1>9 DEF Races
  <2>4. ~raced' => home
    BY <1>4, <1>5, <1>9 DEF Elsewhere
  <2> QED
    BY <1>8, <1>9, <2>1, <2>2, <2>3, <2>4
<1>10. CASE c.kind = "delete" /\ ui' = Prune(ui, Subtree(ui, c.node)) /\ raced' = raced /\ answers' = Tail(answers)
  <2>1. ~IsRefusal(c) /\ ui' = Showing(c, ui, home)
    BY <1>10 DEF IsRefusal, Showing
  <2>2. Forest(ui') /\ (DOMAIN ui = {} => DOMAIN ui' = {})
    BY <1>2, <1>10 DEF Forest, TreeShapes, Prune
  <2>3. ~raced' => ~raced /\ ~Races(c, ui, home)
    BY <1>10 DEF Races
  <2>4. ~raced' /\ ~home => DOMAIN ui = {}
    BY <1>5, <1>10 DEF TreeOrder
  <2> QED
    BY <1>8, <1>10, <2>1, <2>2, <2>3, <2>4
<1>11. CASE /\ c.kind = "update"
            /\ ui' = IF c.node \in DOMAIN ui THEN [ui EXCEPT ![c.node] = c.row] ELSE ui
            /\ raced' = (raced \/ (c.node \in DOMAIN ui /\ [ui[c.node] EXCEPT !.version = 1] # c.row))
            /\ answers' = Tail(answers)
  <2>1. ~IsRefusal(c) /\ ui' = Showing(c, ui, home)
    BY <1>11 DEF IsRefusal, Showing
  <2>2. Forest(ui') /\ (DOMAIN ui = {} => DOMAIN ui' = {})
    <3>1. IsRow(c.row) /\ c.row.kind = KindOf(c.node)
      BY <1>3, <1>11 DEF CallFits
    <3>2. DOMAIN ui' = DOMAIN ui /\ \A m \in DOMAIN ui : ui'[m] = ui[m] \/ (m = c.node /\ ui'[m] = c.row)
      BY <1>11
    <3> QED
      BY <1>2, <3>1, <3>2 DEF Forest, TreeShapes
  <2>3. ~raced' => ~raced /\ ~Races(c, ui, home)
    BY <1>11 DEF Races
  <2>4. ~raced' /\ ~home => DOMAIN ui = {}
    BY <1>5, <1>11 DEF TreeOrder
  <2> QED
    BY <1>8, <1>11, <2>1, <2>2, <2>3, <2>4
<1>12. CASE /\ c.kind = "read" /\ (c.load => c.home = home) /\ ui' = c.tree
            /\ raced' = (raced \/ c.home # home) /\ answers' = Tail(answers)
  <2>1. ~IsRefusal(c) /\ ui' = Showing(c, ui, home)
    BY <1>12 DEF IsRefusal, Showing
  <2>2. Forest(ui')
    BY <1>3, <1>12 DEF CallFits
  <2>3. ~raced' => ~raced /\ ~Races(c, ui, home)
    BY <1>12 DEF Races
  <2>4. ~raced' /\ ~home => DOMAIN ui' = {}
    BY <1>4, <1>5, <1>12 DEF Elsewhere
  <2> QED
    BY <1>8, <1>12, <2>1, <2>2, <2>3, <2>4
<1>13. CASE /\ \/ c.kind = "read" /\ c.load /\ c.home # home
               \/ c.kind = "move" /\ c.ok
            /\ ui' = ui /\ raced' = raced /\ answers' = Tail(answers)
  <2>1. ~IsRefusal(c) /\ ui' = Showing(c, ui, home)
    BY <1>13 DEF IsRefusal, Showing
  <2>2. Forest(ui')
    BY <1>2, <1>13 DEF TreeShapes
  <2>3. ~raced' => ~raced /\ ~Races(c, ui, home)
    BY <1>13 DEF Races
  <2>4. ~raced' /\ ~home => DOMAIN ui' = {}
    BY <1>5, <1>13 DEF TreeOrder
  <2> QED
    BY <1>8, <1>13, <2>1, <2>2, <2>3, <2>4
<1> QED
  BY <1>1, <1>6, <1>7, <1>9, <1>10, <1>11, <1>12, <1>13 DEF Answered

LEMMA TreeInvInit == TreeInit => TreeInv
<1> SUFFICES ASSUME TreeInit PROVE TreeInv
  OBVIOUS
<1>1. home = TRUE /\ db = Planted /\ ui = Planted /\ answers = <<>>
  BY DEF TreeInit
<1>2. Forest(Planted)
  <2> SUFFICES ASSUME NEW n \in DOMAIN Planted
               PROVE  n \in Nodes /\ IsRow(Planted[n]) /\ Planted[n].kind = KindOf(n)
    BY DEF Forest
  <2>1. Planted[n] \in Node
    BY RequestTreeConstants
  <2>2. IsRow(Planted[n])
    BY <2>1 DEF Node, IsRow
  <2> QED
    BY <2>2 DEF Nodes, KindOf
<1>3. IsList(<<>>) /\ Len(<<>>) = 0
  BY EmptySeq DEF IsList
<1>4. TreeShapes
  BY <1>1, <1>2, <1>3 DEF TreeShapes
<1>5. Housed(db) /\ home
  BY <1>1, RequestTreeConstants
<1>6. Foreseen(ui, answers, home, db)
  <2>1. AllMoves(answers) /\ ~Refused(answers) /\ Len(answers) \in Nat
    BY <1>1, <1>3 DEF AllMoves, Refused
  <2>2. Agrees(ui, home, db)
    BY <1>1 DEF Agrees
  <2> QED
    BY <2>1, <2>2, ForeseenAcrossMoves
<1>7. \A i \in 1 .. Len(answers) : Elsewhere(answers[i])
  BY <1>1, <1>3
<1> QED
  BY <1>4, <1>5, <1>6, <1>7 DEF TreeInv, TreeOrder

LEMMA TreeInvStep == TreeInv /\ [TreeNext]_treeVars => TreeInv'
<1> SUFFICES ASSUME TreeInv, [TreeNext]_treeVars PROVE TreeInv'
  OBVIOUS
<1>1. CASE UNCHANGED treeVars
  BY <1>1 DEF treeVars, TreeInv, TreeShapes, TreeOrder
<1>2. CASE \E col \in Collections, parent \in DOMAIN ui \cup {Root} : CreateRequest(col, parent)
  BY <1>2, CreateStep
<1>3. CASE \E col \in Collections, parent \in DOMAIN ui \cup {Root}, n \in DOMAIN ui, gap \in 0 .. Cardinality(DOMAIN ui) :
             Drop(n, col, parent, gap)
  BY <1>3, DropStep
<1>4. CASE \E n \in DOMAIN ui : DuplicateRequest(n) \/ DeleteNode(n) \/ UpdateNode(n)
  BY <1>4, DuplicateStep, DeleteStep, UpdateStep
<1>5. CASE ReloadTree
  BY <1>5, ReloadStep
<1>6. CASE SetShown
  BY <1>6, SwitchStep
<1>7. CASE AnswerArrives
  BY <1>7, AnswerStep
<1> QED
  BY <1>1, <1>2, <1>3, <1>4, <1>5, <1>6, <1>7 DEF TreeNext

\* With no call under way, and outside of the races the store has no guard for,
\* what apiTreeStore.ts shows is the very rows that ApiTreeStore.cs has.
THEOREM TheTreeShownIsAlwaysStored == TreeSpec => []TheTreeShownIsStored
<1>1. TreeInv => TheTreeShownIsStored
  <2> SUFFICES ASSUME TreeInv, answers = <<>>, ~raced PROVE SameTree(ui, Read)
    BY DEF TheTreeShownIsStored
  <2>1. AllMoves(answers) /\ ~Refused(answers) /\ Len(answers) \in Nat
    BY EmptySeq DEF AllMoves, Refused
  <2>2. Agrees(ui, home, db)
    BY <2>1, ForeseenAcrossMoves DEF TreeInv, TreeOrder
  <2>3. CASE home
    <3>1. ui = db /\ Read = db
      BY <2>2, <2>3 DEF Agrees, Read
    <3>2. SameTree(db, db)
      BY DEF SameTree, SamePlace
    <3> QED
      BY <3>1, <3>2
  <2>4. CASE ~home
    <3>1. DOMAIN ui = {} /\ Read = <<>>
      BY <2>2, <2>4 DEF Agrees, Read
    <3> QED
      BY <3>1, NoTreeIsAForest DEF SameTree
  <2> QED
    BY <2>3, <2>4
<1>2. TreeSpec => []TreeInv
  <2>1. TreeInit => TreeInv
    BY TreeInvInit
  <2>2. TreeInv /\ [TreeNext]_treeVars => TreeInv'
    BY TreeInvStep
  <2> QED
    BY <2>1, <2>2, PTL DEF TreeSpec
<1> QED
  BY <1>1, <1>2, PTL

------------------------------------------------------------------------------
------------------------------------------------------------------------------
(* The children of a place in their order: what ByOrder chooses exists.    *)

SortedBy(order, S, list) ==
  /\ list \in [1 .. Cardinality(S) -> S] /\ Range(list) = S
  /\ \A i, j \in DOMAIN list : i < j => order[list[i]] <= order[list[j]]

LEMMA LastExists ==
  ASSUME NEW S, IsFiniteSet(S), S # {}, NEW order, \A n \in S : order[n] \in Nat
  PROVE  \E n \in S : \A m \in S : order[m] <= order[n]
<1>1. Cardinality(S) \in Nat
  BY FS_CardinalityType
<1>2. PICK f \in [1 .. Cardinality(S) -> S] : \A n \in S : \E i \in 1 .. Cardinality(S) : f[i] = n
  <2>1. ExistsBijection(1 .. Cardinality(S), S)
    BY FS_CardinalityType
  <2>2. PICK f : f \in Bijection(1 .. Cardinality(S), S)
    BY <2>1 DEF ExistsBijection
  <2> QED
    BY <2>2 DEF Bijection, Surjection
<1> DEFINE g == [i \in 1 .. Cardinality(S) |-> order[f[i]]]
           O == {order[n] : n \in S}
<1>3. \A i \in 1 .. Cardinality(S) : g[i] \in Nat
  BY <1>2
<1>4. PICK b \in Nat : \A i \in 1 .. Cardinality(S) : g[i] <= b
  <2> HIDE DEF g
  <2> QED
    BY <1>1, <1>3, BoundOfNats
<1>5. O \in SUBSET Nat /\ O # {} /\ \A x \in O : x <= b
  BY <1>2, <1>4
<1>6. PICK x \in O : \A y \in O : x >= y
  <2> HIDE DEF O
  <2> QED
    BY <1>5, GreatestOfNats
<1> QED
  BY <1>6

LEMMA SortedExists ==
  ASSUME NEW U, NEW order, \A n \in U : order[n] \in Nat
  PROVE  \A S \in SUBSET U : IsFiniteSet(S) => \E list : SortedBy(order, S, list)
<1> DEFINE X == {k \in Nat : \A S \in SUBSET U :
                   IsFiniteSet(S) /\ Cardinality(S) = k => \E list : SortedBy(order, S, list)}
<1>1. 0 \in X
  <2> SUFFICES ASSUME NEW S \in SUBSET U, IsFiniteSet(S), Cardinality(S) = 0
               PROVE  \E list : SortedBy(order, S, list)
    OBVIOUS
  <2>1. S = {}
    BY FS_EmptySet
  <2> DEFINE list == [i \in 1 .. 0 |-> 0]
  <2>2. DOMAIN list = {} /\ Range(list) = {} /\ list \in [1 .. 0 -> {}]
    BY DEF Range
  <2>3. SortedBy(order, S, list)
    <3> HIDE DEF list
    <3> QED
      BY <2>1, <2>2, FS_EmptySet DEF SortedBy
  <2> QED
    BY <2>3
<1>2. ASSUME NEW k \in Nat, k \in X PROVE k + 1 \in X
  <2> SUFFICES ASSUME NEW S \in SUBSET U, IsFiniteSet(S), Cardinality(S) = k + 1
               PROVE  \E list : SortedBy(order, S, list)
    BY <1>2
  <2>1. S # {}
    BY FS_EmptySet
  <2>2. PICK n \in S : \A m \in S : order[m] <= order[n]
    BY <2>1, LastExists
  <2> DEFINE R == S \ {n}
  <2>3. IsFiniteSet(R) /\ Cardinality(R) = k
    <3> HIDE DEF X
    <3>1. IsFiniteSet(S \ {n}) /\ Cardinality(S \ {n}) = IF n \in S THEN Cardinality(S) - 1 ELSE Cardinality(S)
      BY FS_RemoveElement, Zenon
    <3> QED
      BY <3>1
  <2>4. PICK rest : SortedBy(order, R, rest)
    BY <1>2, <2>3
  <2>5. /\ rest \in [1 .. k -> R] /\ Range(rest) = R
        /\ \A i, j \in 1 .. k : i < j => order[rest[i]] <= order[rest[j]]
    BY <2>3, <2>4 DEF SortedBy
  <2> DEFINE list == [i \in 1 .. k + 1 |-> IF i <= k THEN rest[i] ELSE n]
  <2>6. list \in [1 .. k + 1 -> S] /\ DOMAIN list = 1 .. k + 1
    BY <2>5
  <2>7. Range(list) = S
    <3>1. \A m \in S : m = n \/ \E i \in 1 .. k : rest[i] = m
      BY <2>5 DEF Range
    <3>2. \A m \in S : \E i \in 1 .. k + 1 : list[i] = m
      <4> TAKE m \in S
      <4>1. CASE m = n
        <5>1. k + 1 \in 1 .. k + 1 /\ list[k + 1] = n
          OBVIOUS
        <5> QED
          BY <4>1, <5>1
      <4>2. ASSUME NEW i \in 1 .. k, rest[i] = m PROVE \E j \in 1 .. k + 1 : list[j] = m
        <5>1. i \in 1 .. k + 1 /\ list[i] = m
          BY <4>2
        <5> QED
          BY <5>1
      <4> QED
        BY <3>1, <4>1, <4>2
    <3> QED
      BY <2>6, <3>2 DEF Range
  <2>8. \A i, j \in 1 .. k + 1 : i < j => order[list[i]] <= order[list[j]]
    <3> TAKE i, j \in 1 .. k + 1
    <3> HAVE i < j
    <3>1. i \in 1 .. k /\ list[i] = rest[i]
      OBVIOUS
    <3>2. CASE j \in 1 .. k
      BY <2>5, <3>1, <3>2
    <3>3. CASE j = k + 1
      BY <2>2, <2>5, <3>1, <3>3
    <3> QED
      BY <3>2, <3>3
  <2> HIDE DEF list
  <2>9. SortedBy(order, S, list)
    BY <2>6, <2>7, <2>8 DEF SortedBy
  <2> QED
    BY <2>9
<1> HIDE DEF X
<1>3. Nat \subseteq X
  BY <1>1, <1>2, NatSetInduction
<1> QED
  BY <1>3, FS_CardinalityType DEF X

\* What InOrder gives: the nodes, each of them, in a sequence without descents.
LEMMA InOrderIs ==
  ASSUME NEW t, NEW ns \in SUBSET DOMAIN t, IsFiniteSet(ns), \A n \in ns : t[n].order \in Nat
  PROVE  /\ InOrder(t, ns) \in Seq(ns) /\ Len(InOrder(t, ns)) = Cardinality(ns)
         /\ \A n \in ns : \E i \in 1 .. Len(InOrder(t, ns)) : InOrder(t, ns)[i] = n
<1> DEFINE order == [n \in ns |-> t[n].order]
           list == InOrder(t, ns)
<1>1. DOMAIN order = ns /\ \A n \in ns : order[n] \in Nat
  OBVIOUS
<1>2. list = CHOOSE l \in [1 .. Cardinality(ns) -> ns] :
               Range(l) = ns /\ \A i, j \in DOMAIN l : i < j => order[l[i]] <= order[l[j]]
  BY DEF InOrder, ByOrder
<1> HIDE DEF order, list
<1>3. \E l : SortedBy(order, ns, l)
  BY <1>1, SortedExists
<1>4. list \in [1 .. Cardinality(ns) -> ns] /\ Range(list) = ns
  BY <1>2, <1>3 DEF SortedBy
<1>5. Cardinality(ns) \in Nat
  BY FS_CardinalityType
<1>6. list \in Seq(ns) /\ Len(list) = Cardinality(ns) /\ DOMAIN list = 1 .. Len(list)
  BY <1>4, <1>5, IsASeq
<1> QED
  BY <1>4, <1>6 DEF list, Range

\* The children of the destination with the node put between them: each of them
\* once, for there are not more places than children.
Placing(t, n, col, parent) == (Under(t, t[n].kind, col, parent) \ {n}) \cup {n}
LEMMA PlacedIs ==
  ASSUME NEW t, IsFiniteSet(DOMAIN t), \A m \in DOMAIN t : t[m].order \in Nat,
         NEW n, NEW col, NEW parent, NEW index \in Nat
  PROVE  LET list == Placed(t, n, col, parent, index)
         IN  /\ list \in Seq(Placing(t, n, col, parent))
             /\ \A m \in Placing(t, n, col, parent) : \E i \in 1 .. Len(list) : list[i] = m
<1> DEFINE ns == Under(t, t[n].kind, col, parent) \ {n}
           all == ns \cup {n}
           siblings == Siblings(t, n, col, parent)
           at == Clamp(index, Len(siblings)) + 1
           front == SubSeq(siblings, 1, at - 1)
           back == SubSeq(siblings, at, Len(siblings))
           list == Placed(t, n, col, parent, index)
<1>1. ns \in SUBSET DOMAIN t /\ IsFiniteSet(ns) /\ siblings = InOrder(t, ns)
  BY FS_Subset DEF Under, Siblings
<1>2. list = (front \o <<n>>) \o back
  BY DEF Placed, InsertAt
<1>3. Placing(t, n, col, parent) = all
  BY DEF Placing
<1> HIDE DEF ns, siblings, list
<1>4. /\ siblings \in Seq(ns) /\ Len(siblings) \in Nat
      /\ \A m \in ns : \E i \in 1 .. Len(siblings) : siblings[i] = m
  BY <1>1, InOrderIs, LenProperties
<1>5. siblings \in Seq(all) /\ \A i \in 1 .. Len(siblings) : siblings[i] \in all
  BY <1>4, SeqMonotonic, ElementOfSeq
<1>6. at \in 1 .. Len(siblings) + 1
  <2>1. Clamp(index, Len(siblings)) \in 0 .. Len(siblings)
    BY <1>4 DEF Clamp, Min
  <2> QED
    BY <1>4, <2>1
<1> HIDE DEF at
<1>7. /\ front \in Seq(all) /\ Len(front) = at - 1
      /\ \A i \in 1 .. at - 1 : front[i] = siblings[i]
  <2>1. \A i \in 1 .. at - 1 : siblings[i] \in all
    BY <1>4, <1>5, <1>6
  <2>2. /\ front \in Seq(all) /\ Len(front) = IF 1 <= at - 1 THEN (at - 1) - 1 + 1 ELSE 0
        /\ \A i \in 1 .. (at - 1) - 1 + 1 : front[i] = siblings[1 + i - 1]
    BY <1>4, <1>6, <2>1, SubSeqProperties
  <2> HIDE DEF front
  <2>3. (at - 1) - 1 + 1 = at - 1 /\ at - 1 \in Nat /\ (~(1 <= at - 1) => at - 1 = 0)
    BY <1>4, <1>6
  <2>4. Len(front) = at - 1
    BY <2>2, <2>3
  <2>5. ASSUME NEW i \in 1 .. at - 1 PROVE front[i] = siblings[i]
    <3>1. 1 + i - 1 = i /\ i \in 1 .. (at - 1) - 1 + 1
      BY <2>3
    <3> QED
      BY <2>2, <3>1
  <2> QED
    BY <2>2, <2>4, <2>5
<1>8. /\ back \in Seq(all) /\ Len(back) = Len(siblings) - at + 1
      /\ \A i \in 1 .. Len(siblings) - at + 1 : back[i] = siblings[at + i - 1]
  <2>1. \A i \in at .. Len(siblings) : siblings[i] \in all
    BY <1>4, <1>5, <1>6
  <2>2. /\ back \in Seq(all) /\ Len(back) = IF at <= Len(siblings) THEN Len(siblings) - at + 1 ELSE 0
        /\ \A i \in 1 .. Len(siblings) - at + 1 : back[i] = siblings[at + i - 1]
    BY <1>4, <1>6, <2>1, SubSeqProperties
  <2> HIDE DEF back
  <2> QED
    BY <1>4, <1>6, <2>2
<1> HIDE DEF front, back
<1>9. <<n>> \in Seq(all) /\ Len(<<n>>) = 1 /\ <<n>>[1] = n
  OBVIOUS
<1>10. PICK begun : begun = front \o <<n>>
  OBVIOUS
<1>11. /\ begun \in Seq(all) /\ Len(begun) = at
       /\ \A i \in 1 .. at : begun[i] = IF i <= at - 1 THEN siblings[i] ELSE n
  <2>1. /\ begun \in Seq(all) /\ Len(begun) = Len(front) + 1
        /\ \A i \in 1 .. Len(front) + 1 : begun[i] = IF i <= Len(front) THEN front[i] ELSE <<n>>[i - Len(front)]
    BY <1>7, <1>9, <1>10, ConcatProperties
  <2>2. Len(front) + 1 = at
    BY <1>4, <1>6, <1>7
  <2>3. ASSUME NEW i \in 1 .. at PROVE begun[i] = IF i <= at - 1 THEN siblings[i] ELSE n
    <3>1. CASE i <= at - 1
      <4>1. i \in 1 .. at - 1 /\ i \in 1 .. Len(front) + 1 /\ i <= Len(front)
        BY <1>4, <1>6, <1>7, <2>2, <3>1
      <4> QED
        BY <1>7, <2>1, <3>1, <4>1
    <3>2. CASE i = at
      BY <1>4, <1>6, <1>7, <1>9, <2>1, <2>2, <3>2
    <3> QED
      BY <1>4, <1>6, <3>1, <3>2
  <2> QED
    BY <2>1, <2>2, <2>3
<1>12. /\ list \in Seq(all) /\ Len(list) = Len(siblings) + 1
       /\ \A i \in 1 .. Len(siblings) + 1 :
            list[i] = IF i <= at THEN begun[i] ELSE back[i - at]
  <2>1. /\ list \in Seq(all) /\ Len(list) = Len(begun) + Len(back)
        /\ \A i \in 1 .. Len(begun) + Len(back) : list[i] = IF i <= Len(begun) THEN begun[i] ELSE back[i - Len(begun)]
    BY <1>2, <1>8, <1>10, <1>11, ConcatProperties
  <2>2. Len(begun) + Len(back) = Len(siblings) + 1
    BY <1>4, <1>6, <1>8, <1>11
  <2> QED
    BY <1>11, <2>1, <2>2
<1>13. ASSUME NEW m \in all PROVE \E i \in 1 .. Len(list) : list[i] = m
  <2>1. CASE m = n
    <3>1. at \in 1 .. Len(list) /\ list[at] = n
      BY <1>4, <1>6, <1>11, <1>12
    <3> QED
      BY <2>1, <3>1
  <2>2. CASE m \in ns
    <3>1. PICK i \in 1 .. Len(siblings) : siblings[i] = m
      BY <1>4, <2>2
    <3>2. CASE i < at
      <4>1. i \in 1 .. at /\ i \in 1 .. Len(siblings) + 1 /\ i <= at - 1
        BY <1>4, <1>6, <3>2
      <4>2. list[i] = m
        BY <1>11, <1>12, <3>1, <4>1
      <4> QED
        BY <1>12, <4>1, <4>2
    <3>3. CASE i >= at
      <4>1. PICK j \in Nat : j = i + 1
        BY <1>4
      <4>2. PICK k \in Nat : k = j - at
        BY <1>4, <1>6, <3>3, <4>1
      <4>3. /\ j \in 1 .. Len(siblings) + 1 /\ ~(j <= at)
            /\ k \in 1 .. Len(siblings) - at + 1 /\ at + k - 1 = i
        BY <1>4, <1>6, <3>3, <4>1, <4>2
      <4>4. list[j] = back[k] /\ back[k] = siblings[i]
        BY <1>8, <1>12, <4>2, <4>3
      <4> QED
        BY <1>12, <3>1, <4>3, <4>4
    <3> QED
      BY <1>4, <1>6, <3>2, <3>3
  <2> QED
    BY <1>13, <2>1, <2>2
<1> QED
  BY <1>3, <1>12, <1>13 DEF list

\* So each of them has a place of its own, and no one else has one.
LEMMA PlacesAreApart ==
  ASSUME NEW S, NEW list \in Seq(S), \A m \in S : \E i \in 1 .. Len(list) : list[i] = m, NEW m
  PROVE  /\ Contains(list, m) <=> m \in S
         /\ m \in S => PositionOf(m, list) \in 1 .. Len(list) /\ list[PositionOf(m, list)] = m
<1>1. DOMAIN list = 1 .. Len(list) /\ \A i \in 1 .. Len(list) : list[i] \in S
  BY LenProperties, ElementOfSeq
<1>2. m \in S => PositionOf(m, list) \in DOMAIN list /\ list[PositionOf(m, list)] = m
  BY <1>1 DEF PositionOf
<1> QED
  BY <1>1, <1>2 DEF Contains

------------------------------------------------------------------------------
(* The types: what the user's actions and the answers put into the trees.  *)

LEMMA TreeFacts ==
  ASSUME NEW t, IsTree(t)
  PROVE  /\ IsFiniteSet(DOMAIN t) /\ Rows(t) /\ \A m \in DOMAIN t : t[m].order \in Nat
<1>1. IsFiniteSet(DOMAIN t)
  BY RequestTreeConstants, FS_Subset DEF IsTree
<1>2. ASSUME NEW m \in DOMAIN t PROVE IsRow(t[m]) /\ t[m].order \in Nat
  <2>1. t[m] \in Node
    BY DEF IsTree
  <2> QED
    BY <2>1 DEF Node, IsRow
<1> QED
  BY <1>1, <1>2 DEF Rows

LEMMA TypedRows ==
  ASSUME NEW r \in Node, NEW col \in Collections, NEW parent \in Nodes \cup {Root}, NEW order \in Nat
  PROVE  /\ RowOf(r, col, parent, order) \in Node /\ [r EXCEPT !.col = col] \in Node
         /\ [r EXCEPT !.version = 1] \in Node
         /\ r.col \in Collections /\ r.parent \in Nodes \cup {Root} /\ r.order \in Nat /\ r.version \in Nat
  BY DEF Node, RowOf

LEMMA SplicedTree ==
  ASSUME NEW t, IsTree(t), NEW n \in DOMAIN t, NEW col \in Collections, NEW parent \in Nodes \cup {Root},
         NEW index \in Nat
  PROVE  IsTree(Splice(t, n, col, parent, index)) /\ DOMAIN Splice(t, n, col, parent, index) = DOMAIN t
<1> DEFINE s == Splice(t, n, col, parent, index)
           list == Placed(t, n, col, parent, index)
           all == Placing(t, n, col, parent)
<1>1. IsFiniteSet(DOMAIN t) /\ Rows(t) /\ \A m \in DOMAIN t : t[m].order \in Nat
  BY TreeFacts
<1>2. /\ DOMAIN s = DOMAIN t /\ s[n] = RowOf(t[n], col, parent, NewOrder(t, list, n))
      /\ \A m \in DOMAIN t \ {n} : s[m] = RowOf(t[m], t[m].col, t[m].parent, NewOrder(t, list, m))
  BY <1>1, SplicedRows
<1>3. list \in Seq(all) /\ \A m \in all : \E i \in 1 .. Len(list) : list[i] = m
  BY <1>1, PlacedIs
<1> HIDE DEF s, list, all
<1>4. ASSUME NEW m \in DOMAIN t PROVE NewOrder(t, list, m) \in Nat
  <2>1. CASE m \in all
    <3>1. Contains(list, m) /\ PositionOf(m, list) \in 1 .. Len(list)
      BY <1>3, <2>1, PlacesAreApart
    <3> QED
      BY <1>3, <3>1, LenProperties DEF NewOrder
  <2>2. CASE m \notin all
    BY <1>1, <1>3, <2>2, PlacesAreApart DEF NewOrder
  <2> QED
    BY <2>1, <2>2
<1>5. ASSUME NEW m \in DOMAIN t PROVE s[m] \in Node
  <2>1. t[m] \in Node /\ t[n] \in Node
    BY DEF IsTree
  <2>2. PICK o \in Nat : o = NewOrder(t, list, m)
    BY <1>4
  <2>3. CASE m = n
    <3>1. s[m] = RowOf(t[n], col, parent, o)
      BY <1>2, <2>2, <2>3
    <3>2. RowOf(t[n], col, parent, o) \in Node
      BY <2>1, TypedRows, Zenon
    <3> QED
      BY <3>1, <3>2
  <2>4. CASE m # n
    <3>1. PICK c \in Collections, p \in Nodes \cup {Root} : c = t[m].col /\ p = t[m].parent
      BY <2>1, TypedRows
    <3>2. s[m] = RowOf(t[m], c, p, o)
      BY <1>2, <2>2, <2>4, <3>1
    <3>3. RowOf(t[m], c, p, o) \in Node
      BY <2>1, TypedRows, Zenon
    <3> QED
      BY <3>2, <3>3
  <2> QED
    BY <2>3, <2>4
<1> QED
  BY <1>2, <1>5 DEF IsTree, s

LEMMA MovedTree ==
  ASSUME NEW n, NEW col \in Collections, NEW parent \in Nodes \cup {Root}, NEW index \in Nat
  PROVE  /\ IsTree(ui) /\ n \in DOMAIN ui => IsTree(MoveLocally(n, col, parent, index))
         /\ IsTree(db) /\ n \in DOMAIN db => IsTree(MoveNode(n, col, parent, index))
<1>1. ASSUME IsTree(ui), n \in DOMAIN ui PROVE IsTree(MoveLocally(n, col, parent, index))
  <2> DEFINE s == Splice(ui, n, col, parent, index)
             carried == IF ui[n].kind = "folder" /\ ui[n].col # col THEN Subtree(s, n) ELSE {}
             moved == MoveLocally(n, col, parent, index)
  <2>1. IsTree(s)
    BY <1>1, SplicedTree
  <2>2. moved = [m \in DOMAIN s |-> IF m \in carried THEN [s[m] EXCEPT !.col = col] ELSE s[m]]
    BY DEF MoveLocally
  <2> HIDE DEF s, carried, moved
  <2>3. ASSUME NEW m \in DOMAIN s PROVE moved[m] \in Node
    <3>1. s[m] \in Node
      BY <2>1 DEF IsTree
    <3>2. [s[m] EXCEPT !.col = col] \in Node
      BY <3>1 DEF Node
    <3> QED
      BY <2>2, <3>1, <3>2
  <2>4. DOMAIN moved = DOMAIN s
    BY <2>2
  <2>5. IsTree(moved)
    BY <2>1, <2>3, <2>4 DEF IsTree
  <2> QED
    BY <2>5 DEF moved
<1>2. ASSUME IsTree(db), n \in DOMAIN db PROVE IsTree(MoveNode(n, col, parent, index))
  <2> DEFINE placed == Recoloured(db, n, col)
  <2>1. MoveNode(n, col, parent, index) = Splice(placed, n, col, parent, index)
    BY DEF MoveNode, Recoloured, Carried
  <2>2. placed = [m \in DOMAIN db |-> IF m \in Carried(db, n) THEN [db[m] EXCEPT !.col = col] ELSE db[m]]
    BY DEF Recoloured
  <2> HIDE DEF placed
  <2>3. ASSUME NEW m \in DOMAIN db PROVE placed[m] \in Node
    <3>1. db[m] \in Node
      BY <1>2 DEF IsTree
    <3>2. [db[m] EXCEPT !.col = col] \in Node
      BY <3>1 DEF Node
    <3> QED
      BY <2>2, <3>1, <3>2
  <2>4. DOMAIN placed = DOMAIN db
    BY <2>2
  <2>5. IsTree(placed) /\ n \in DOMAIN placed
    BY <1>2, <2>3, <2>4 DEF IsTree
  <2> QED
    BY <2>1, <2>5, SplicedTree
<1> QED
  BY <1>1, <1>2

LEMMA GreatestOrder ==
  ASSUME IsTree(db), NEW col, NEW parent
  PROVE  LET O == {0} \cup {db[m].order + 1 : m \in Under(db, "request", col, parent)}
         IN  O \in SUBSET Nat /\ \E x \in O : \A y \in O : x >= y
<1> DEFINE S == Under(db, "request", col, parent)
           O == {0} \cup {db[m].order + 1 : m \in S}
<1>1. S \subseteq DOMAIN db /\ IsFiniteSet(S)
  BY TreeFacts, FS_Subset DEF Under
<1>2. \A m \in S : db[m].order \in Nat
  BY <1>1, TreeFacts
<1> HIDE DEF S
<1>3. O \in SUBSET Nat /\ O # {}
  BY <1>2
<1>4. \E b \in Nat : \A x \in O : x <= b
  <2>1. CASE S = {}
    BY <2>1
  <2>2. CASE S # {}
    <3> DEFINE order == [m \in S |-> db[m].order]
    <3>1. \A m \in S : order[m] = db[m].order
      OBVIOUS
    <3> HIDE DEF order
    <3>2. \E m \in S : \A k \in S : order[k] <= order[m]
      BY <1>1, <1>2, <2>2, <3>1, LastExists
    <3>3. PICK m \in S : \A k \in S : db[k].order <= db[m].order
      BY <3>1, <3>2
    <3>4. db[m].order + 1 \in Nat /\ \A x \in O : x <= db[m].order + 1
      BY <1>2, <3>3
    <3> QED
      BY <3>4
  <2> QED
    BY <2>1, <2>2
<1>5. \E x \in O : \A y \in O : x >= y
  <2> HIDE DEF O
  <2>1. PICK b \in Nat : \A x \in O : x <= b
    BY <1>4
  <2> QED
    BY <1>3, <2>1, GreatestOfNats
<1> QED
  BY <1>3, <1>5 DEF S

\* Behind the last sibling there is a place.
LEMMA BornTyped ==
  ASSUME IsTree(db), NEW n, NEW col \in Collections, NEW parent \in Nodes \cup {Root}, NEW version \in Nat
  PROVE  Born(n, col, parent, version) \in Node
<1> DEFINE O == {0} \cup {db[m].order + 1 : m \in Under(db, "request", col, parent)}
<1>1. O \in SUBSET Nat /\ \E x \in O : \A y \in O : x >= y
  BY GreatestOrder
<1>2. Max(O) \in Nat
  <2> HIDE DEF O
  <2> QED
    BY <1>1 DEF Max
<1>3. Born(n, col, parent, version) =
        [kind |-> "request", col |-> col, parent |-> parent, version |-> version, order |-> Max(O)]
  BY DEF Born
<1> HIDE DEF O
<1> QED
  BY <1>2, <1>3 DEF Node

CallIsTyped(c) ==
  /\ c.kind \in {"create", "update"} => c.row \in Node
  /\ c.kind = "read" => IsTree(c.tree)
  /\ IsRefusal(c) => IsTree(c.before)
TreeTypes ==
  /\ IsTree(db) /\ IsTree(ui) /\ Len(answers) <= MaxAnswers
  /\ \A i \in 1 .. Len(answers) : CallIsTyped(answers[i])

LEMMA PlacedTyped ==
  ASSUME TreeShapes, TreeTypes, NEW c, Place(c), CallIsTyped(c)
  PROVE  Len(answers') <= MaxAnswers /\ \A i \in 1 .. Len(answers') : CallIsTyped(answers'[i])
<1>1. answers' = Append(answers, c) /\ Len(answers) < MaxAnswers /\ MaxAnswers \in Nat
  BY RequestTreeConstants DEF Place
<1>2. /\ Len(answers) \in Nat /\ Len(answers') = Len(answers) + 1
      /\ \A i \in 1 .. Len(answers) : answers'[i] = answers[i]
      /\ answers'[Len(answers) + 1] = c
  BY <1>1, Appended DEF TreeShapes
<1>3. \A i \in 1 .. Len(answers') : i \in 1 .. Len(answers) \/ i = Len(answers) + 1
  BY <1>2
<1>4. Len(answers') <= MaxAnswers
  BY <1>1, <1>2
<1> QED
  BY <1>2, <1>3, <1>4 DEF TreeTypes

LEMMA LeftTyped ==
  ASSUME TreeShapes, TreeTypes, answers # <<>>
  PROVE  /\ IsList(Tail(answers)) /\ Len(Tail(answers)) \in Nat /\ Len(Tail(answers)) + 1 <= MaxAnswers
         /\ CallIsTyped(Head(answers))
         /\ \A i \in 1 .. Len(Tail(answers)) : CallIsTyped(Tail(answers)[i])
<1>1. /\ IsList(Tail(answers)) /\ Len(answers) \in Nat /\ Len(answers) >= 1 /\ Len(Tail(answers)) = Len(answers) - 1
      /\ \A i \in 1 .. Len(Tail(answers)) : Tail(answers)[i] = answers[i + 1]
      /\ Head(answers) = answers[1]
  BY Rest DEF TreeShapes
<1>2. 1 \in 1 .. Len(answers) /\ \A i \in 1 .. Len(Tail(answers)) : i + 1 \in 1 .. Len(answers)
  BY <1>1
<1>3. Len(Tail(answers)) \in Nat /\ Len(Tail(answers)) + 1 <= MaxAnswers
  BY <1>1 DEF TreeTypes
<1> QED
  BY <1>1, <1>2, <1>3 DEF TreeTypes

LEMMA PrunedTree ==
  ASSUME NEW t, IsTree(t), NEW gone
  PROVE  IsTree(Prune(t, gone))
  BY DEF IsTree, Prune

LEMMA NothingIsTyped == IsTree(<<>>)
  BY NoTreeIsAForest DEF IsTree

LEMMA InsertTyped ==
  ASSUME TreeShapes, TreeTypes, NEW n \in Drafted, NEW row \in Node, Insert(n, row)
  PROVE  TreeTypes'
<1> PICK c : c = [kind |-> "create", node |-> n, row |-> row, home |-> home]
  OBVIOUS
<1>1. db' = [m \in DOMAIN db \cup {n} |-> IF m = n THEN row ELSE db[m]] /\ Place(c) /\ ui' = ui
  BY DEF Insert
<1>2. CallIsTyped(c)
  BY DEF CallIsTyped, IsRefusal
<1>3. IsTree(db')
  BY <1>1 DEF TreeTypes, IsTree, Nodes
<1> QED
  BY <1>1, <1>2, <1>3, PlacedTyped DEF TreeTypes

\* A drop is at a place among the children.
LEMMA DroppedAt ==
  ASSUME IsTree(ui), NEW n, NEW col, NEW parent, NEW gap \in Nat
  PROVE  LET siblings == InOrder(ui, Under(ui, ui[n].kind, col, parent))
             at       == IF Contains(siblings, n) THEN PositionOf(n, siblings) ELSE 0
         IN  StoreIndex(gap, at) \in Nat
<1> DEFINE ns == Under(ui, ui[n].kind, col, parent)
           siblings == InOrder(ui, ns)
           at == IF Contains(siblings, n) THEN PositionOf(n, siblings) ELSE 0
<1>1. ns \in SUBSET DOMAIN ui /\ IsFiniteSet(ns) /\ \A m \in ns : ui[m].order \in Nat
  BY TreeFacts, FS_Subset DEF Under
<1> HIDE DEF ns
<1>2. /\ siblings \in Seq(ns) /\ \A m \in ns : \E i \in 1 .. Len(siblings) : siblings[i] = m
  BY <1>1, InOrderIs
<1> HIDE DEF siblings
<1>3. at \in Nat
  <2>1. Contains(siblings, n) => PositionOf(n, siblings) \in 1 .. Len(siblings)
    BY <1>2, PlacesAreApart
  <2> QED
    BY <1>2, <2>1, LenProperties
<1> HIDE DEF at
<1>4. StoreIndex(gap, at) \in Nat
  BY <1>3 DEF StoreIndex
<1> QED
  BY <1>4 DEF at, siblings, ns

LEMMA DropTyped ==
  ASSUME TreeShapes, TreeTypes, NEW n, NEW col \in Collections, NEW parent \in DOMAIN ui \cup {Root},
         NEW gap \in Nat, Drop(n, col, parent, gap)
  PROVE  TreeTypes'
<1> DEFINE siblings == InOrder(ui, Under(ui, ui[n].kind, col, parent))
           at == IF Contains(siblings, n) THEN PositionOf(n, siblings) ELSE 0
<1> PICK index : index = StoreIndex(gap, at)
  OBVIOUS
<1> PICK before : before = ui
  OBVIOUS
<1> DEFINE yes == [kind |-> "move", ok |-> TRUE]
           no == [kind |-> "move", ok |-> FALSE, before |-> before, home |-> home]
<1>1. /\ n \in DOMAIN ui /\ ui' = MoveLocally(n, col, parent, index)
      /\ \/ Movable(n, parent) /\ db' = MoveNode(n, col, parent, index) /\ Place(yes)
         \/ db' = db /\ Place(no)
  BY DEF Drop
<1>2. IsTree(db) /\ IsTree(ui) /\ parent \in Nodes \cup {Root}
  BY DEF TreeTypes, IsTree
<1>3. index \in Nat
  BY <1>2, DroppedAt
<1>4. IsTree(ui')
  BY <1>1, <1>2, <1>3, MovedTree
<1> HIDE DEF siblings, at
<1>5. CASE db' = db /\ Place(no)
  <2>1. PICK c : c = no
    OBVIOUS
  <2>2. c.kind = "move" /\ c.before = ui /\ Place(c)
    BY <1>5, <2>1
  <2>3. CallIsTyped(c)
    BY <1>2, <2>2 DEF CallIsTyped
  <2> QED
    BY <1>2, <1>4, <1>5, <2>2, <2>3, PlacedTyped DEF TreeTypes
<1>6. CASE Movable(n, parent) /\ db' = MoveNode(n, col, parent, index) /\ Place(yes)
  <2>1. PICK c : c = yes
    OBVIOUS
  <2>2. c.kind = "move" /\ c.ok = TRUE /\ Place(c)
    BY <1>6, <2>1
  <2>3. CallIsTyped(c)
    BY <2>2 DEF CallIsTyped, IsRefusal
  <2>4. IsTree(db')
    BY <1>2, <1>3, <1>6, MovedTree DEF Movable
  <2> QED
    BY <1>4, <2>2, <2>3, <2>4, PlacedTyped DEF TreeTypes
<1> QED
  BY <1>1, <1>5, <1>6

LEMMA AnswerTyped ==
  ASSUME TreeShapes, TreeTypes, AnswerArrives
  PROVE  TreeTypes'
<1> PICK c : c = Head(answers)
  OBVIOUS
<1>1. answers # <<>> /\ db' = db /\ Answered(c)
  BY DEF AnswerArrives
<1>2. CallFits(c)
  BY <1>1, CallsLeft
<1>3. /\ IsList(Tail(answers)) /\ Len(Tail(answers)) \in Nat /\ Len(Tail(answers)) + 1 <= MaxAnswers
      /\ CallIsTyped(c) /\ \A i \in 1 .. Len(Tail(answers)) : CallIsTyped(Tail(answers)[i])
  BY <1>1, LeftTyped
<1>4. IsTree(db) /\ IsTree(ui) /\ MaxAnswers \in Nat
  BY RequestTreeConstants DEF TreeTypes
<1>5. CASE answers' = Tail(answers) /\ IsTree(ui')
  BY <1>1, <1>3, <1>4, <1>5 DEF TreeTypes
<1>6. CASE /\ c.kind = "move" /\ ~c.ok /\ ui' = c.before
           /\ answers' = Append(Tail(answers), [kind |-> "read", tree |-> Read, load |-> FALSE, home |-> home])
  <2>1. PICK stored : stored = Read
    OBVIOUS
  <2>2. PICK d : d = [kind |-> "read", tree |-> stored, load |-> FALSE, home |-> home]
    OBVIOUS
  <2>3. d.kind = "read" /\ d.tree = stored /\ answers' = Append(Tail(answers), d)
    BY <1>6, <2>1, <2>2
  <2>4. IsTree(stored)
    BY <1>4, <2>1, NothingIsTyped DEF Read
  <2>5. CallIsTyped(d)
    BY <2>3, <2>4 DEF CallIsTyped, IsRefusal
  <2>6. /\ Len(answers') = Len(Tail(answers)) + 1
        /\ \A i \in 1 .. Len(Tail(answers)) : answers'[i] = Tail(answers)[i]
        /\ answers'[Len(Tail(answers)) + 1] = d
    BY <1>3, <2>3, Appended
  <2>7. \A i \in 1 .. Len(answers') : i \in 1 .. Len(Tail(answers)) \/ i = Len(Tail(answers)) + 1
    BY <1>3, <2>6
  <2>8. IsTree(ui')
    BY <1>3, <1>6 DEF CallIsTyped, IsRefusal
  <2>9. Len(answers') <= MaxAnswers
    BY <1>3, <2>6
  <2>10. \A i \in 1 .. Len(answers') : CallIsTyped(answers'[i])
    BY <1>3, <2>5, <2>6, <2>7
  <2> QED
    BY <1>1, <1>4, <2>8, <2>9, <2>10 DEF TreeTypes
<1>7. CASE /\ c.kind = "create" /\ answers' = Tail(answers)
           /\ ui' = [m \in DOMAIN ui \cup {c.node} |-> IF m = c.node THEN c.row ELSE ui[m]]
  <2>1. c.row \in Node /\ c.node \in Nodes
    BY <1>2, <1>3, <1>7 DEF CallFits, CallIsTyped, Nodes
  <2>2. IsTree(ui')
    BY <1>4, <1>7, <2>1 DEF IsTree
  <2> QED
    BY <1>5, <1>7, <2>2
<1>8. CASE c.kind = "delete" /\ ui' = Prune(ui, Subtree(ui, c.node)) /\ answers' = Tail(answers)
  BY <1>4, <1>5, <1>8, PrunedTree
<1>9. CASE /\ c.kind = "update" /\ answers' = Tail(answers)
           /\ ui' = IF c.node \in DOMAIN ui THEN [ui EXCEPT ![c.node] = c.row] ELSE ui
  <2>1. c.row \in Node
    BY <1>3, <1>9 DEF CallIsTyped
  <2>2. IsTree(ui')
    BY <1>4, <1>9, <2>1 DEF IsTree
  <2> QED
    BY <1>5, <1>9, <2>2
<1>10. CASE c.kind = "read" /\ ui' = c.tree /\ answers' = Tail(answers)
  BY <1>3, <1>5, <1>10 DEF CallIsTyped
<1>11. CASE ui' = ui /\ answers' = Tail(answers)
  BY <1>4, <1>5, <1>11
<1>12. CASE c.kind = "move" /\ ~c.ok /\ ui' = c.before /\ answers' = Tail(answers)
  BY <1>3, <1>5, <1>12 DEF CallIsTyped, IsRefusal
<1> QED
  BY <1>1, <1>6, <1>7, <1>8, <1>9, <1>10, <1>11, <1>12 DEF Answered

LEMMA TypesGoOn == TreeShapes /\ TreeTypes /\ [TreeNext]_treeVars => TreeTypes'
<1> SUFFICES ASSUME TreeShapes, TreeTypes, [TreeNext]_treeVars PROVE TreeTypes'
  OBVIOUS
<1>1. IsTree(db) /\ IsTree(ui)
  BY DEF TreeTypes
<1>2. CASE UNCHANGED treeVars
  BY <1>2 DEF treeVars, TreeTypes
<1>3. ASSUME NEW col \in Collections, NEW parent \in DOMAIN ui \cup {Root}, CreateRequest(col, parent)
      PROVE  TreeTypes'
  <2>1. PICK n \in Unused : Insert(n, Born(n, col, parent, 0))
    BY <1>3 DEF CreateRequest
  <2>2. n \in Drafted /\ Born(n, col, parent, 0) \in Node
    BY <1>1, BornTyped DEF Unused, IsTree
  <2> QED
    BY <2>1, <2>2, InsertTyped
<1>4. ASSUME NEW q, DuplicateRequest(q) PROVE TreeTypes'
  <2>1. PICK n \in Unused : q \in DOMAIN db /\ Insert(n, Born(n, db[q].col, db[q].parent, db[q].version))
    BY <1>4 DEF DuplicateRequest
  <2>2. db[q] \in Node
    BY <1>1, <2>1 DEF IsTree
  <2>3. db[q].col \in Collections /\ db[q].parent \in Nodes \cup {Root} /\ db[q].version \in Nat
    BY <2>2 DEF Node
  <2>4. n \in Drafted /\ Born(n, db[q].col, db[q].parent, db[q].version) \in Node
    BY <1>1, <2>3, BornTyped DEF Unused
  <2> QED
    BY <2>1, <2>4, InsertTyped
<1>5. ASSUME NEW n, DeleteNode(n) PROVE TreeTypes'
  <2> PICK c : c = [kind |-> "delete", node |-> n]
    OBVIOUS
  <2>1. db' = Prune(db, Subtree(db, n)) /\ Place(c) /\ ui' = ui
    BY <1>5 DEF DeleteNode
  <2>2. CallIsTyped(c)
    BY DEF CallIsTyped, IsRefusal
  <2> QED
    BY <1>1, <2>1, <2>2, PlacedTyped, PrunedTree DEF TreeTypes
<1>6. ASSUME NEW n, UpdateNode(n) PROVE TreeTypes'
  <2> PICK row : row = [ui[n] EXCEPT !.version = 1]
    OBVIOUS
  <2> PICK c : c = [kind |-> "update", node |-> n, row |-> row]
    OBVIOUS
  <2>1. /\ n \in DOMAIN ui /\ db' = (IF n \in DOMAIN db THEN [db EXCEPT ![n].version = 1] ELSE db)
        /\ Place(c) /\ ui' = ui
    BY <1>6 DEF UpdateNode
  <2>2. row \in Node
    <3>1. ui[n] \in Node
      BY <1>1, <2>1 DEF IsTree
    <3> QED
      BY <3>1 DEF Node
  <2>3. CallIsTyped(c)
    BY <2>2 DEF CallIsTyped, IsRefusal
  <2>4. IsTree(db')
    <3>1. CASE n \in DOMAIN db
      <4>1. db[n] \in Node
        BY <1>1, <3>1 DEF IsTree
      <4>2. [db[n] EXCEPT !.version = 1] \in Node
        BY <4>1 DEF Node
      <4> PICK r : r = [db[n] EXCEPT !.version = 1]
        OBVIOUS
      <4>3. db' = [db EXCEPT ![n] = r]
        BY <2>1, <3>1
      <4> QED
        BY <1>1, <4>2, <4>3 DEF IsTree
    <3> QED
      BY <1>1, <2>1, <3>1
  <2> QED
    BY <1>1, <2>1, <2>3, <2>4, PlacedTyped DEF TreeTypes
<1>7. ASSUME NEW col \in Collections, NEW parent \in DOMAIN ui \cup {Root}, NEW n,
             NEW gap \in 0 .. Cardinality(DOMAIN ui), Drop(n, col, parent, gap)
      PROVE  TreeTypes'
  <2>1. gap \in Nat
    BY <1>1, TreeFacts, FS_CardinalityType
  <2> QED
    BY <1>7, <2>1, DropTyped
<1>8. ASSUME NEW stored, NEW c, IsTree(stored), c.kind = "read", c.tree = stored, Place(c),
             db' = db, ui' = ui \/ ui' = <<>>
      PROVE  TreeTypes'
  <2>1. CallIsTyped(c)
    BY <1>8 DEF CallIsTyped, IsRefusal
  <2>2. IsTree(ui')
    BY <1>1, <1>8, NothingIsTyped
  <2> QED
    BY <1>1, <1>8, <2>1, <2>2, PlacedTyped DEF TreeTypes
<1>9. CASE ReloadTree
  <2> PICK stored : stored = Read
    OBVIOUS
  <2>1. IsTree(stored)
    BY <1>1, NothingIsTyped DEF Read
  <2> PICK c : c = [kind |-> "read", tree |-> stored, load |-> FALSE, home |-> home]
    OBVIOUS
  <2>2. c.kind = "read" /\ c.tree = stored /\ Place(c) /\ db' = db /\ ui' = ui
    BY <1>9 DEF ReloadTree
  <2> QED
    BY <1>8, <2>1, <2>2
<1>10. CASE SetShown
  <2> PICK stored : stored = IF home THEN <<>> ELSE db
    OBVIOUS
  <2>1. IsTree(stored)
    BY <1>1, NothingIsTyped
  <2> PICK c : c = [kind |-> "read", tree |-> stored, load |-> TRUE, home |-> ~home]
    OBVIOUS
  <2>2. c.kind = "read" /\ c.tree = stored /\ Place(c) /\ db' = db /\ ui' = <<>>
    BY <1>10 DEF SetShown
  <2> QED
    BY <1>8, <2>1, <2>2
<1>11. CASE AnswerArrives
  BY <1>11, AnswerTyped
<1> QED
  BY <1>2, <1>3, <1>4, <1>5, <1>6, <1>7, <1>9, <1>10, <1>11 DEF TreeNext

LEMMA TypesBegin == TreeInit => TreeTypes
<1>1. IsTree(Planted)
  BY RequestTreeConstants DEF IsTree, Nodes
<1> QED
  BY <1>1, RequestTreeConstants DEF TreeInit, TreeTypes

\* Both trees are rows of known nodes, each of them with one of the collections,
\* a parent there is, and a place that is a number, whatever the moves and the
\* answers of apiTreeStore.ts have made of them.
THEOREM TreeTypeCorrect == TreeSpec => []TreeTypeOK
<1>1. TreeInit => TreeInv /\ TreeTypes
  BY TreeInvInit, TypesBegin
<1>2. TreeInv /\ TreeTypes /\ [TreeNext]_treeVars => TreeInv' /\ TreeTypes'
  BY TreeInvStep, TypesGoOn DEF TreeInv
<1>3. TreeInv /\ TreeTypes => TreeTypeOK
  BY DEF TreeInv, TreeShapes, TreeTypes, TreeTypeOK
<1> QED
  BY <1>1, <1>2, <1>3, PTL DEF TreeSpec

------------------------------------------------------------------------------
(* No two children of a place have the same order.                         *)

Apart(t) == \A n, m \in DOMAIN t : SamePlace(n, m, t) /\ n # m => t[n].order # t[m].order
EveryChildHasItsPlace == raced \/ Apart(db)

\* A move gives the children of the destination places of their own, and carries
\* the others along with their parent.
LEMMA MoveKeepsApart ==
  ASSUME Forest(db), Housed(db), IsTree(db), Apart(db),
         NEW n \in DOMAIN db, NEW col, NEW parent, NEW index \in Nat,
         db[n].kind = "folder" => parent \notin Subtree(db, n)
  PROVE  Apart(MoveNode(n, col, parent, index))
<1> DEFINE moved == MoveNode(n, col, parent, index)
           list == Placed(db, n, col, parent, index)
           all == Placing(db, n, col, parent)
           colOf(m) == IF m = n \/ m \in Carried(db, n) THEN col ELSE db[m].col
<1>1. IsFiniteSet(DOMAIN db) /\ Rows(db) /\ Root \notin DOMAIN db /\ \A m \in DOMAIN db : db[m].order \in Nat
  BY ForestFacts, TreeFacts
<1>2. DOMAIN moved = DOMAIN db /\ \A m \in DOMAIN db : moved[m] = After(db, n, col, parent, index, m)
  BY <1>1, MoveNodeIs
<1>3. \A m \in DOMAIN db : /\ moved[m].kind = db[m].kind /\ moved[m].col = colOf(m)
                           /\ moved[m].parent = IF m = n THEN parent ELSE db[m].parent
                           /\ moved[m].order = NewOrder(db, list, m)
  BY <1>2, RowOfIsRow DEF After
<1>4. list \in Seq(all) /\ \A m \in all : \E i \in 1 .. Len(list) : list[i] = m
  BY <1>1, PlacedIs
<1>5. \A m \in Carried(db, n) \ {n} : m \in DOMAIN db /\ db[m].parent \in Subtree(db, n) /\ db[n].kind = "folder"
  BY <1>1, SubtreeHasParents DEF Carried
<1>6. Subtree(db, n) \subseteq DOMAIN db
  BY <1>1, SubtreeIsHoused
<1> HIDE DEF moved, list
<1>7. n \in all /\ \A m \in DOMAIN db \ {n} :
        m \in all <=> db[m].kind = db[n].kind /\ db[m].col = col /\ db[m].parent = parent
  BY DEF Placing, Under
<1> HIDE DEF all
<1>8. \A m \in all : NewOrder(db, list, m) = PositionOf(m, list) - 1 /\ list[PositionOf(m, list)] = m
                    /\ PositionOf(m, list) \in Nat
  <2> TAKE m \in all
  <2>1. Contains(list, m) /\ PositionOf(m, list) \in 1 .. Len(list) /\ list[PositionOf(m, list)] = m
    BY <1>4, PlacesAreApart
  <2> QED
    BY <1>4, <2>1, LenProperties DEF NewOrder
<1>9. \A m \in DOMAIN db \ all : NewOrder(db, list, m) = db[m].order
  BY <1>4, PlacesAreApart DEF NewOrder
\* What has come to be in the place of n is a child of the destination.
<1>10. ASSUME NEW x \in all, NEW y \in DOMAIN db, x \in DOMAIN db, SamePlace(x, y, moved) PROVE y \in all
  <2>1. moved[x].kind = db[n].kind /\ moved[x].col = col /\ moved[x].parent = parent
    <3>1. CASE x = n
      BY <1>3, <3>1
    <3>2. CASE x # n
      BY <1>3, <1>7, <1>10, <3>2
    <3> QED
      BY <3>1, <3>2
  <2>2. moved[y].kind = db[n].kind /\ moved[y].col = col /\ moved[y].parent = parent
    BY <1>10, <2>1 DEF SamePlace
  <2>3. CASE y = n
    BY <1>7, <2>3
  <2>4. CASE y # n
    <3>1. db[y].kind = db[n].kind /\ db[y].parent = parent /\ colOf(y) = col
      BY <1>3, <2>2, <2>4
    <3>2. y \notin Carried(db, n)
      BY <1>5, <2>4, <3>1
    <3> QED
      BY <1>7, <2>4, <3>1, <3>2
  <2> QED
    BY <2>3, <2>4
<1>11. ASSUME NEW x \in DOMAIN db, NEW y \in DOMAIN db, SamePlace(x, y, moved), x # y
       PROVE  moved[x].order # moved[y].order
  <2>1. SamePlace(y, x, moved)
    BY <1>11 DEF SamePlace
  <2>2. CASE x \in all /\ y \in all
    BY <1>3, <1>8, <1>11, <2>2
  <2>3. CASE x \notin all /\ y \notin all
    <3>1. /\ x # n /\ y # n /\ db[x].kind = db[y].kind /\ db[x].parent = db[y].parent
          /\ colOf(x) = colOf(y)
      BY <1>3, <1>7, <1>11, <2>3 DEF SamePlace
    <3>2. db[x].col = db[y].col
      <4>1. CASE db[x].parent = Root
        <5>1. x \notin Carried(db, n) /\ y \notin Carried(db, n)
          BY <1>1, <1>5, <1>6, <3>1, <4>1
        <5> QED
          BY <3>1, <5>1
      <4>2. CASE db[x].parent # Root
        BY <3>1, <4>2 DEF Housed
      <4> QED
        BY <4>1, <4>2
    <3>3. db[x].order # db[y].order
      BY <1>11, <3>1, <3>2 DEF Apart, SamePlace
    <3> QED
      BY <1>3, <1>9, <2>3, <3>3
  <2> QED
    BY <1>10, <1>11, <2>1, <2>2, <2>3
<1> QED
  BY <1>2, <1>11 DEF Apart, moved

\* A new row is behind its siblings.
LEMMA BornBehind ==
  ASSUME IsTree(db), Apart(db), NEW n, n \notin DOMAIN db, NEW col, NEW parent, NEW version
  PROVE  Apart([m \in DOMAIN db \cup {n} |-> IF m = n THEN Born(n, col, parent, version) ELSE db[m]])
<1> DEFINE row == Born(n, col, parent, version)
           S == Under(db, "request", col, parent)
           t == [m \in DOMAIN db \cup {n} |-> IF m = n THEN row ELSE db[m]]
<1>1. \A m \in S : row.order >= db[m].order + 1
  <2> DEFINE O == {0} \cup {db[m].order + 1 : m \in S}
  <2>1. row.order = Max(O)
    BY DEF Born
  <2>2. \E x \in O : \A y \in O : x >= y
    BY GreatestOrder
  <2>3. \A y \in O : Max(O) >= y
    <3> HIDE DEF O
    <3> QED
      BY <2>2 DEF Max
  <2> HIDE DEF row, S
  <2> QED
    BY <2>1, <2>3
<1>2. row.kind = "request" /\ row.col = col /\ row.parent = parent
  BY BornRow
<1>3. \A m \in DOMAIN db : db[m].order \in Nat
  BY TreeFacts
<1>4. ASSUME NEW m \in DOMAIN db, db[m].kind = "request", db[m].col = col, db[m].parent = parent
      PROVE  row.order # db[m].order
  <2>1. m \in S
    BY <1>4 DEF Under
  <2> HIDE DEF S, row
  <2>2. row.order >= db[m].order + 1 /\ db[m].order \in Nat
    BY <1>1, <1>3, <2>1
  <2> QED
    BY <2>2
<1> HIDE DEF row, S
<1>5. DOMAIN t = DOMAIN db \cup {n} /\ t[n] = row /\ \A m \in DOMAIN db : t[m] = db[m]
  OBVIOUS
<1> HIDE DEF t
<1>6. \A x, y \in DOMAIN db : SamePlace(x, y, db) /\ x # y => db[x].order # db[y].order
  BY DEF Apart
<1>7. Apart(t)
  <2> SUFFICES ASSUME NEW x \in DOMAIN t, NEW y \in DOMAIN t, SamePlace(x, y, t), x # y
               PROVE  t[x].order # t[y].order
    BY DEF Apart
  <2>1. CASE x = n
    BY <1>2, <1>4, <1>5, <2>1 DEF SamePlace
  <2>2. CASE y = n
    BY <1>2, <1>4, <1>5, <2>2 DEF SamePlace
  <2>3. CASE x # n /\ y # n
    BY <1>5, <1>6, <2>3 DEF SamePlace
  <2> QED
    BY <2>1, <2>2, <2>3
<1> QED
  BY <1>7 DEF t, row

LEMMA ApartGoesOn ==
  TreeInv /\ TreeTypes /\ EveryChildHasItsPlace /\ [TreeNext]_treeVars => EveryChildHasItsPlace'
<1> SUFFICES ASSUME TreeInv, TreeTypes, raced \/ Apart(db), [TreeNext]_treeVars, ~raced'
             PROVE  Apart(db)'
  BY DEF EveryChildHasItsPlace
<1>1. IsTree(db) /\ IsTree(ui) /\ TreeShapes
  BY DEF TreeInv, TreeTypes
<1>2. CASE ~raced /\ db' = db
  BY <1>2 DEF Apart, SamePlace
<1>3. ASSUME NEW n, n \notin DOMAIN db, NEW col, NEW parent, NEW version, Insert(n, Born(n, col, parent, version))
      PROVE  Apart(db')
  <2> PICK row : row = Born(n, col, parent, version)
    OBVIOUS
  <2>1. db' = [m \in DOMAIN db \cup {n} |-> IF m = n THEN row ELSE db[m]] /\ (~raced' => ~raced)
    BY <1>3 DEF Insert
  <2> QED
    BY <1>1, <1>3, <2>1, BornBehind
<1>4. ASSUME NEW col, NEW parent, CreateRequest(col, parent) PROVE Apart(db')
  BY <1>3, <1>4 DEF CreateRequest, Unused
<1>5. ASSUME NEW q, DuplicateRequest(q) PROVE Apart(db')
  BY <1>3, <1>5 DEF DuplicateRequest, Unused
<1>6. ASSUME NEW n, DeleteNode(n) PROVE Apart(db')
  BY <1>6 DEF DeleteNode, Prune, Apart, SamePlace
<1>7. ASSUME NEW n, UpdateNode(n) PROVE Apart(db')
  <2>1. db' = (IF n \in DOMAIN db THEN [db EXCEPT ![n].version = 1] ELSE db) /\ ~raced
    BY <1>7 DEF UpdateNode
  <2>2. CASE n \notin DOMAIN db
    BY <1>2, <2>1, <2>2 DEF Apart, SamePlace
  <2>3. CASE n \in DOMAIN db
    <3> PICK r : r = [db[n] EXCEPT !.version = 1]
      OBVIOUS
    <3>1. db' = [db EXCEPT ![n] = r]
      BY <2>1, <2>3
    <3>2. r.kind = db[n].kind /\ r.col = db[n].col /\ r.parent = db[n].parent /\ r.order = db[n].order
      <4>1. db[n] \in Node
        BY <1>1, <2>3 DEF IsTree
      <4> QED
        BY <4>1 DEF Node
    <3>3. DOMAIN db' = DOMAIN db /\ \A m \in DOMAIN db :
            /\ db'[m].kind = db[m].kind /\ db'[m].col = db[m].col
            /\ db'[m].parent = db[m].parent /\ db'[m].order = db[m].order
      BY <3>1, <3>2
    <3> QED
      BY <2>1, <3>3 DEF Apart, SamePlace
  <2> QED
    BY <2>2, <2>3
<1>8. ASSUME NEW n, NEW col, NEW parent, NEW gap \in Nat, Drop(n, col, parent, gap) PROVE Apart(db')
  <2>1. ~raced
    BY <1>8 DEF Drop
  <2>2. CASE db' = db
    BY <1>2, <2>1, <2>2
  <2>3. CASE db' # db
    <3>1. PICK index \in Nat : Movable(n, parent) /\ db' = MoveNode(n, col, parent, index)
      BY <1>1, <1>8, <2>3, DroppedAt DEF Drop
    <3>2. Forest(db) /\ Housed(db) /\ Apart(db)
      BY <1>1, <2>1 DEF TreeInv, TreeOrder, TreeShapes
    <3> QED
      BY <1>1, <3>1, <3>2, MoveKeepsApart DEF Movable
  <2> QED
    BY <2>2, <2>3
<1>9. ASSUME NEW parent, NEW col, NEW n, NEW gap \in 0 .. Cardinality(DOMAIN ui), Drop(n, col, parent, gap)
      PROVE  Apart(db')
  <2>1. gap \in Nat
    BY <1>1, TreeFacts, FS_CardinalityType
  <2> QED
    BY <1>8, <1>9, <2>1
<1>10. CASE UNCHANGED treeVars
  BY <1>2, <1>10 DEF treeVars
<1>11. CASE ReloadTree
  BY <1>2, <1>11 DEF ReloadTree
<1>12. CASE SetShown
  BY <1>2, <1>12 DEF SetShown
<1>13. CASE AnswerArrives
  <2>1. PICK c : Answered(c) /\ db' = db
    BY <1>13 DEF AnswerArrives
  <2>2. ~raced
    BY <2>1, Zenon DEF Answered
  <2> QED
    BY <1>2, <2>1, <2>2
<1> QED
  BY <1>4, <1>5, <1>6, <1>7, <1>9, <1>10, <1>11, <1>12, <1>13 DEF TreeNext

\* Outside of those races the siblings of a kind have different orders in the
\* database, which has no constraint for it: what NextChildOrder and the renumbering
\* of a move write is enough for the rows to come back in the order they were put.
THEOREM SiblingsNeverShareAnOrder == TreeSpec => []EveryChildHasItsPlace
<1>1. TreeInit => TreeInv /\ TreeTypes /\ EveryChildHasItsPlace
  <2> SUFFICES ASSUME TreeInit PROVE TreeInv /\ TreeTypes /\ Apart(db)
    BY DEF EveryChildHasItsPlace
  <2>1. db = Planted
    BY DEF TreeInit
  <2> QED
    BY <2>1, TypesBegin, TreeInvInit, RequestTreeConstants DEF Apart
<1>2. TreeInv /\ TreeTypes /\ EveryChildHasItsPlace /\ [TreeNext]_treeVars
        => TreeInv' /\ TreeTypes' /\ EveryChildHasItsPlace'
  BY TreeInvStep, TypesGoOn, ApartGoesOn DEF TreeInv
<1> QED
  BY <1>1, <1>2, PTL DEF TreeSpec

==============================================================================
