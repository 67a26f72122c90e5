------------------------------- MODULE Sockets -------------------------------
(***************************************************************************)
(* The streaming connections of the API client (WebSocket, Socket.IO and   *)
(* MQTT): the panel's Connect and Disconnect, the runtime store's map from *)
(* a tab to its connection, the core's registry, and the events of a       *)
(* change of status, delivered in the step that publishes them.  A         *)
(* connection is named by the attempt that made it: the code's id is the   *)
(* tab's with the time in milliseconds.  Frames are left out: they reach a *)
(* tab by the same lookup as a status.                                     *)
(***************************************************************************)
EXTENDS Naturals, Sequences

CONSTANTS StreamTabs, MaxDials, MaxStreamOps  \* tabs, and bounds

ASSUME SocketBounds == MaxDials \in Nat /\ MaxStreamOps \in Nat

VARIABLES
  shut,     \* the tabs that were closed
  conn,     \* connections[t] of apiRuntimeStore: an attempt and a status; 0 is none
  dials,    \* the attempts, and how far each is
  live,     \* _live of StreamRegistry
  leaving,  \* leaving[t]: Disconnect clicks of t the core has not answered
  tangled,  \* history: the tabs that met a race named below
  streamOps

streamVars == <<shut, conn, dials, live, leaving, tangled, streamOps>>

Statuses == {"connecting", "open", "closed", "error"}
NoConnection == [id |-> 0, status |-> "closed"]
Dial == [tab : StreamTabs, at : {"resolving", "dialling", "open", "failed", "over"}, disposed : 0 .. 2]

SocketTypeOK ==
  /\ shut \cup tangled \subseteq StreamTabs
  /\ conn \in [StreamTabs -> [id : 0 .. MaxDials, status : Statuses]]
  /\ Len(dials) <= MaxDials /\ \A k \in DOMAIN dials : dials[k] \in Dial
  /\ live \subseteq DOMAIN dials
  /\ leaving \in [StreamTabs -> 0 .. MaxStreamOps]

SocketInit ==
  /\ shut = {} /\ dials = <<>> /\ live = {} /\ tangled = {} /\ streamOps = 0
  /\ conn = [t \in StreamTabs |-> NoConnection]
  /\ leaving = [t \in StreamTabs |-> 0]

DialsOf(t) == {k \in DOMAIN dials : dials[k].tab = t}
Unsettled(t) == {k \in DialsOf(t) : dials[k].at \in {"resolving", "dialling", "failed"}}

\* tabForConnection looks for the event's "connection_id" ...
TabForConnection(event) ==
  {t \in StreamTabs : "connection_id" \in DOMAIN event /\ conn[t].id = event.connection_id}
\* ... and PublishStatusAsync names the connection "id": no tab hears of it.
Heard(k, status) ==
  LET event == [id |-> k, status |-> status] IN
  [t \in StreamTabs |-> IF t \in TabForConnection(event) THEN [conn[t] EXCEPT !.status = event.status] ELSE conn[t]]

\* DisconnectAsync: whatever the attempt was doing, its object is disposed.
Disconnected(k) ==
  /\ live' = live \ {k}
  /\ dials' = IF k \in live
              THEN [dials EXCEPT ![k].disposed = @ + 1, ![k].at = IF @ = "open" THEN "over" ELSE @]
              ELSE dials

(* ------------------------------- the panel ------------------------------ *)

\* connect up to its first await; the button is there while no connection is.
Connect(t) ==
  /\ t \notin shut /\ conn[t].id = 0 /\ Len(dials) < MaxDials
  /\ dials' = Append(dials, [tab |-> t, at |-> "resolving", disposed |-> 0])
  /\ tangled' = IF Unsettled(t) # {} \/ leaving[t] > 0 THEN tangled \cup {t} ELSE tangled
  /\ UNCHANGED <<shut, conn, live, leaving>>

\* The request is resolved: the store learns the id, the core registers the
\* connection and starts to dial, whatever became of the tab meanwhile.
Resolve(k) ==
  /\ dials[k].at = "resolving"
  /\ conn' = [conn EXCEPT ![dials[k].tab] = [id |-> k, status |-> "connecting"]]
  /\ dials' = [dials EXCEPT ![k].at = "dialling"] /\ live' = live \cup {k}
  /\ UNCHANGED <<shut, leaving, tangled>>

\* The catch of connect: whichever connection the tab has by now is forgotten.
ConnectFails(k) ==
  /\ dials[k].at \in {"resolving", "failed"}
  /\ dials' = [dials EXCEPT ![k].at = "over"]
  /\ conn' = [conn EXCEPT ![dials[k].tab] = NoConnection]
  /\ UNCHANGED <<shut, live, leaving, tangled>>

Disconnect(t) ==
  /\ t \notin shut /\ conn[t].id # 0
  /\ Disconnected(conn[t].id)
  /\ conn' = IF conn[t].id \in live THEN Heard(conn[t].id, "closed") ELSE conn
  /\ leaving' = [leaving EXCEPT ![t] = @ + 1]
  /\ UNCHANGED <<shut, tangled>>
DisconnectAnswered(t) ==
  /\ leaving[t] > 0
  /\ leaving' = [leaving EXCEPT ![t] = @ - 1]
  /\ conn' = [conn EXCEPT ![t] = NoConnection]
  /\ UNCHANGED <<shut, dials, live, tangled>>

\* releaseTab: the socket is dropped, then the tab is disposed of.
\* Faulty variant: disposed of first, so that there is no socket to drop.
DisposeFirst(t) ==
  /\ t \notin shut
  /\ shut' = shut \cup {t}
  /\ conn' = [conn EXCEPT ![t] = NoConnection]
  /\ tangled' = IF \E k \in DialsOf(t) : dials[k].at = "resolving" THEN tangled \cup {t} ELSE tangled
  /\ UNCHANGED <<dials, live, leaving>>
ReleaseTab(t) ==
  /\ t \notin shut
  /\ shut' = shut \cup {t}
  /\ IF conn[t].id # 0 THEN Disconnected(conn[t].id) ELSE UNCHANGED <<dials, live>>
  /\ conn' = [conn EXCEPT ![t] = NoConnection]
  /\ tangled' = IF \E k \in DialsOf(t) : dials[k].at = "resolving" THEN tangled \cup {t} ELSE tangled
  /\ UNCHANGED leaving

(* ---------------------------- the core's side ---------------------------- *)

Opens(k) ==
  /\ dials[k].at = "dialling" /\ dials[k].disposed = 0
  /\ dials' = [dials EXCEPT ![k].at = "open"]
  /\ conn' = Heard(k, "open")
  /\ UNCHANGED <<shut, live, leaving, tangled>>

\* The dial's own error path, then the registry's: the object is disposed, once
\* more when a disconnect did so already.
DialFails(k) ==
  /\ dials[k].at = "dialling"
  /\ dials' = [dials EXCEPT ![k].at = "failed", ![k].disposed = @ + 1]
  /\ live' = live \ {k}
  /\ conn' = Heard(k, "error")
  /\ UNCHANGED <<shut, leaving, tangled>>

\* The server closes, or the pump fails: nothing reconnects.
Drops(k) ==
  /\ dials[k].at = "open"
  /\ dials' = [dials EXCEPT ![k].at = "over"] /\ live' = live \ {k}
  /\ \E status \in {"closed", "error"} : conn' = Heard(k, status)
  /\ UNCHANGED <<shut, leaving, tangled>>

SocketNext ==
  \/ /\ streamOps < MaxStreamOps /\ streamOps' = streamOps + 1
     /\ \E t \in StreamTabs : Connect(t) \/ Disconnect(t) \/ ReleaseTab(t)
  \/ /\ UNCHANGED streamOps
     /\ \/ \E k \in DOMAIN dials : Resolve(k) \/ ConnectFails(k) \/ Opens(k) \/ DialFails(k) \/ Drops(k)
        \/ \E t \in StreamTabs : DisconnectAnswered(t)

SocketSpec == SocketInit /\ [][SocketNext]_streamVars

(* ------------------------------- properties ------------------------------ *)

\* Once nothing addresses a connection nobody can close it, says the panel: a
\* connection the core holds is the one its tab shows.  Excepted are the tabs
\* that met what the panel has no guard for: a Connect while an attempt or a
\* Disconnect of the tab is unanswered, and a close while one is being resolved.
SocketsAreAddressed ==
  \A k \in live : dials[k].tab \notin tangled => conn[dials[k].tab].id = k

=============================================================================
