-------------------------------- MODULE Sends --------------------------------
(***************************************************************************)
(* A send of the request builder, from the Send button to the last row it  *)
(* leaves behind: the reply shown in the tab, the variables its scripts    *)
(* changed, the cookies it set and its entry in the history.               *)
(*                                                                         *)
(* runSend is one async function; a stage of a send is the await it stands *)
(* at, and what it reads when it resumes it reads from the stores as they  *)
(* are by then: the workspace may have changed, the tab may be closed, the *)
(* active environment may be another.  Text and timing are left out; an    *)
(* environment's content is the name of the environment it came from.      *)
(***************************************************************************)
EXTENDS Naturals, Sequences, FiniteSets

CONSTANTS
  Spaces,          \* workspaces
  HomeOf,          \* HomeOf[t]: the workspace tab t belongs to
  EnvsOf,          \* EnvsOf[w]: the environments of w
  MaxSends, MaxSendOps,  \* bounds
  FirstSpace, None

ASSUME SendConstants ==
  /\ \A t \in DOMAIN HomeOf : HomeOf[t] \in Spaces
  /\ MaxSends \in Nat /\ FirstSpace \in Spaces /\ DOMAIN EnvsOf = Spaces /\ None \notin UNION {EnvsOf[w] : w \in Spaces}

VARIABLES
  space,     \* workspaceId of the stores
  loaded,    \* the stores hold the rows of that workspace
  builder,   \* the tab RequestBuilder shows, or None
  closedTabs,
  orphans,   \* history: the sends whose tab was released before they ended
  activeEnv, \* activeEnvironmentId
  content,   \* content[e]: whose variables environment e holds
  track,     \* trackRef of the builder on screen: one for all its tabs
  sent,      \* the sends so far, in order
  sending, reply,  \* apiRuntimeStore: the spinner and the reply of each tab
  jar,       \* <<send, workspace>> of each cookie filed
  history,   \* <<send, workspace>> of each history entry
  sendOps    \* how many things the user has done

sendVars == <<space, loaded, builder, closedTabs, orphans, activeEnv, content, track,
              sent, sending, reply, jar, history, sendOps>>

BuilderTabs == DOMAIN HomeOf
Environments == UNION {EnvsOf[w] : w \in Spaces}
Stages == {"resolving", "flying", "scopes", "cookies", "history", "file", "failed", "over"}
Sent == [tab : BuilderTabs, env : Environments \cup {None}, download : BOOLEAN, at : Stages]

SendTypeOK ==
  /\ space \in Spaces /\ loaded \in BOOLEAN
  /\ builder \in BuilderTabs \cup {None} /\ closedTabs \subseteq BuilderTabs
  /\ orphans \subseteq DOMAIN sent
  /\ activeEnv \in Environments \cup {None} /\ content \in [Environments -> Environments]
  /\ Len(sent) <= MaxSends /\ \A i \in DOMAIN sent : sent[i] \in Sent
  /\ track \in {0} \cup DOMAIN sent
  /\ sending \in [BuilderTabs -> BOOLEAN] /\ reply \in [BuilderTabs -> 0 .. MaxSends]
  /\ jar \cup history \subseteq (DOMAIN sent) \X Spaces

OpenTabs == IF loaded THEN {t \in BuilderTabs \ closedTabs : HomeOf[t] = space} ELSE {}
Underway(s) == sent[s].at # "over"
\* releaseTab and disposeTab: the tabs are forgotten, their sends go on.
Release(released) ==
  /\ sending' = [t \in BuilderTabs |-> sending[t] /\ t \notin released]
  /\ reply' = [t \in BuilderTabs |-> IF t \in released THEN 0 ELSE reply[t]]
  /\ orphans' = orphans \cup {s \in DOMAIN sent : sent[s].tab \in released /\ Underway(s)}
GoTo(s, stage) == sent' = [sent EXCEPT ![s].at = stage]

SendInit ==
  /\ space = FirstSpace /\ loaded = TRUE /\ builder = None
  /\ closedTabs = {} /\ orphans = {} /\ activeEnv = None /\ content = [e \in Environments |-> e]
  /\ track = 0 /\ sent = <<>> /\ jar = {} /\ history = {} /\ sendOps = 0
  /\ sending = [t \in BuilderTabs |-> FALSE] /\ reply = [t \in BuilderTabs |-> 0]

(* ------------------------------- the user ------------------------------- *)

\* The builder is not remounted for another tab: its trackRef stays.
ShowTab(t) ==
  /\ t \in OpenTabs \ {builder}
  /\ builder' = t
  /\ UNCHANGED <<space, loaded, closedTabs, orphans, activeEnv, content, track, sent, sending, reply, jar, history>>

\* Faulty variant: a tab that is already sending sends again.
SendAgain(download) ==
  /\ builder # None /\ Len(sent) < MaxSends
  /\ sent' = Append(sent, [tab |-> builder, env |-> activeEnv, download |-> download, at |-> "resolving"])
  /\ track' = Len(sent')
  /\ sending' = [sending EXCEPT ![builder] = TRUE]
  /\ reply' = [reply EXCEPT ![builder] = 0]
  /\ UNCHANGED <<space, loaded, builder, closedTabs, orphans, activeEnv, content, jar, history>>
Send(download) ==
  /\ builder # None /\ Len(sent) < MaxSends
  /\ ~sending[builder]
  /\ sent' = Append(sent, [tab |-> builder, env |-> activeEnv, download |-> download, at |-> "resolving"])
  /\ track' = Len(sent')
  /\ sending' = [sending EXCEPT ![builder] = TRUE]
  /\ reply' = [reply EXCEPT ![builder] = 0]
  /\ UNCHANGED <<space, loaded, builder, closedTabs, orphans, activeEnv, content, jar, history>>

\* Before the core has registered the id the cancel finds nothing.
CancelSend ==
  /\ builder # None /\ sending[builder] /\ track # 0
  /\ sent[track].at = "flying" /\ GoTo(track, "failed")
  /\ UNCHANGED <<space, loaded, builder, closedTabs, orphans, activeEnv, content, track, sending, reply, jar, history>>

CloseShownTab ==
  /\ builder # None
  /\ closedTabs' = closedTabs \cup {builder} /\ Release({builder})
  /\ \/ builder' \in OpenTabs \ {builder} /\ track' = track
     \/ OpenTabs = {builder} /\ builder' = None /\ track' = 0
  /\ UNCHANGED <<space, loaded, activeEnv, content, sent, jar, history>>

SetActiveEnvironment(e) ==
  /\ loaded /\ e \in (EnvsOf[space] \cup {None}) \ {activeEnv}
  /\ activeEnv' = e
  /\ UNCHANGED <<space, loaded, builder, closedTabs, orphans, content, track, sent, sending, reply, jar, history>>

\* setWorkspace releases the tabs, and its resets unmount the builder; the tabs
\* come back under their own ids when the user does.
LeaveFor(w) ==
  /\ w # space
  /\ space' = w /\ loaded' = FALSE /\ builder' = None /\ track' = 0 /\ activeEnv' = None
  /\ Release(OpenTabs)
  /\ UNCHANGED <<closedTabs, content, sent, jar, history>>
Loaded ==
  /\ ~loaded /\ loaded' = TRUE
  /\ UNCHANGED <<space, builder, closedTabs, orphans, activeEnv, content, track, sent, sending, reply, jar, history>>

(* ------------------------- what a send does by itself ------------------------- *)

\* resolveRequest and the pre-request script are over: the core has the request.
Resolved(s) ==
  /\ sent[s].at = "resolving" /\ GoTo(s, "flying")
  /\ UNCHANGED <<space, loaded, builder, closedTabs, orphans, activeEnv, content, track, sending, reply, jar, history>>

SendFails(s) ==
  /\ sent[s].at \in {"resolving", "flying", "file"} /\ GoTo(s, "failed")
  /\ UNCHANGED <<space, loaded, builder, closedTabs, orphans, activeEnv, content, track, sending, reply, jar, history>>

\* The reply is shown and persistScopeWrites picks the environment that is
\* active now, to write over it all the variables of the one read before.
Replied(s) ==
  /\ sent[s].at = "flying" /\ GoTo(s, "scopes")
  /\ reply' = [reply EXCEPT ![sent[s].tab] = s]
  /\ \/ UNCHANGED content
     \/ /\ loaded /\ sent[s].env # None /\ activeEnv # None
        /\ content' = [content EXCEPT ![activeEnv] = content[sent[s].env]]
  /\ UNCHANGED <<space, loaded, builder, closedTabs, orphans, activeEnv, track, sending, jar, history>>

\* persistCookies files them in the workspace that is selected now.
FileCookies(s) ==
  /\ sent[s].at = "scopes" /\ GoTo(s, "cookies")
  /\ \/ UNCHANGED jar
     \/ jar' = jar \cup {<<s, space>>}
  /\ UNCHANGED <<space, loaded, builder, closedTabs, orphans, activeEnv, content, track, sending, reply, history>>

\* recordHistory, of a reply or of a failure: a tab that is gone leaves none.
\* Faulty variant: the tab is not looked for.
RecordWithoutItsTab(s) == history' = history \cup {<<s, space>>}
RecordHistory(s) ==
  history' = IF sent[s].tab \in OpenTabs THEN history \cup {<<s, space>>} ELSE history

RecordReply(s) ==
  /\ sent[s].at = "cookies" /\ GoTo(s, IF sent[s].download THEN "file" ELSE "history")
  /\ RecordHistory(s)
  /\ UNCHANGED <<space, loaded, builder, closedTabs, orphans, activeEnv, content, track, sending, reply, jar>>

\* The catch: also of a download that failed after its reply was recorded.
RecordFailure(s) ==
  /\ sent[s].at = "failed" /\ GoTo(s, "history")
  /\ reply' = [reply EXCEPT ![sent[s].tab] = s]
  /\ RecordHistory(s)
  /\ UNCHANGED <<space, loaded, builder, closedTabs, orphans, activeEnv, content, track, sending, jar>>

\* The finally.
SendEnds(s) ==
  /\ sent[s].at \in {"history", "file"} /\ GoTo(s, "over")
  /\ sending' = [sending EXCEPT ![sent[s].tab] = FALSE]
  /\ track' = IF track = s THEN 0 ELSE track
  /\ UNCHANGED <<space, loaded, builder, closedTabs, orphans, activeEnv, content, reply, jar, history>>

SendNext ==
  \/ /\ sendOps < MaxSendOps /\ sendOps' = sendOps + 1
     /\ \/ \E t \in BuilderTabs : ShowTab(t)
        \/ \E download \in BOOLEAN : Send(download)
        \/ CancelSend \/ CloseShownTab
        \/ \E e \in Environments \cup {None} : SetActiveEnvironment(e)
        \/ \E w \in Spaces : LeaveFor(w)
  \/ /\ UNCHANGED sendOps
     /\ \/ Loaded
        \/ \E s \in DOMAIN sent :
             \/ Resolved(s) \/ SendFails(s) \/ Replied(s) \/ FileCookies(s)
             \/ RecordReply(s) \/ RecordFailure(s) \/ SendEnds(s)

SendSpec == SendInit /\ [][SendNext]_sendVars

(* ------------------------------- properties ------------------------------ *)

\* Whatever the user does while a send is under way, its history entry is filed
\* in the workspace of the tab it was sent from, or in none.
HistoryStaysHome == \A entry \in history : entry[2] = HomeOf[sent[entry[1]].tab]

\* The spinner of a tab turns exactly while a send of that tab is under way, and
\* the reply under it is that of the last send: two sends of one tab, or the end
\* of another tab's, must not mix them up.  Excepted is a tab that was released
\* with a send under way, by a close or by leaving its workspace: nothing ties
\* that send to the tab that comes back under the same id.
SpinnerTellsTheTruth ==
  \A t \in BuilderTabs \ {sent[s].tab : s \in orphans} :
    /\ sending[t] <=> \E s \in DOMAIN sent : sent[s].tab = t /\ Underway(s)
    /\ reply[t] # 0 => \A s \in DOMAIN sent : sent[s].tab = t => s <= reply[t]

==============================================================================
