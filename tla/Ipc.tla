--------------------------------- MODULE Ipc ---------------------------------
(***************************************************************************)
(* The two processes and the two channels between them: the shell's           *)
(* IpcClient (shell/src/ipc-client.ts) with its startup and quit in        *)
(* main.ts, and the core's IpcServer with the lifetime Program.cs gives it. *)
(*                                                                         *)
(* A request is known by its call: ids are never reused, replies may come  *)
(* in any order, so what is on the wire is a set.  Events are left to the  *)
(* components that publish them.                                           *)
(***************************************************************************)
EXTENDS Naturals, FiniteSets

CONSTANTS Calls   \* the invocations the renderer places

Kinds == {"rpc", "stream"}

VARIABLES
  electron,    \* the Electron process: running or gone
  startup,  \* main.ts: spawning, connecting, done, failed
  status,   \* IpcClient.status
  sock,     \* the shell's end of each channel
  call,     \* what the promise of each invocation is doing
  wire,     \* the connection itself, as the operating system has it
  asked,    \* requests written and not yet read
  answered, \* replies written and not yet read
  core,     \* the sidecar process
  conn,     \* the core's end of each channel
  linked,   \* the token source PumpAsync made for the rpc channel's handlers
  handler,  \* the dispatch of each request
  exitSeen, \* the child's exit event was handled
  term      \* the sidecar was sent SIGTERM

electronVars == <<startup, status, sock, call, exitSeen>>
coreVars  == <<conn, linked, handler>>
ipcVars == <<electron, electronVars, wire, asked, answered, core, coreVars, term>>

IpcTypeOK ==
  /\ electron \in {"running", "gone"} /\ exitSeen \in BOOLEAN /\ term \in BOOLEAN
  /\ startup \in {"spawning", "connecting", "done", "failed"}
  /\ status \in {"starting", "ready", "down"}
  /\ sock \in [Kinds -> {"none", "dialing", "up", "closed"}]
  /\ call \in [Calls -> {"new", "waiting", "pending", "settled"}]
  /\ wire \in [Kinds -> {"none", "open", "broken"}]
  /\ asked \subseteq Calls /\ answered \subseteq Calls
  /\ core \in {"starting", "listening", "closing", "exited"}
  /\ conn \in [Kinds -> {"none", "shaking", "serving", "dropping", "closed"}]
  /\ linked \in {"none", "live", "cancelled", "disposed"}
  /\ handler \in [Calls -> {"none", "running", "done", "cancelled", "gone"}]
  /\ \A k \in Kinds : sock[k] \in {"up", "closed"} => wire[k] # "none"

IpcInit ==
  /\ electron = "running" /\ exitSeen = FALSE /\ term = FALSE
  /\ startup = "spawning" /\ status = "starting"
  /\ sock = [k \in Kinds |-> "none"]
  /\ call = [c \in Calls |-> "new"]
  /\ wire = [k \in Kinds |-> "none"]
  /\ asked = {} /\ answered = {}
  /\ core = "starting"
  /\ conn = [k \in Kinds |-> "none"]
  /\ linked = "none"
  /\ handler = [c \in Calls |-> "none"]

-----------------------------------------------------------------------------
(* The shell. *)

Cut(ks) == [k \in Kinds |-> IF k \in ks /\ wire[k] = "open" THEN "broken" ELSE wire[k]]

Waiting == {c \in Calls : call[c] = "waiting"}

(* Faulty variant: what is pending is forgotten. *)
MarkDownKeepingPending ==
  /\ status' = "down"
  /\ wire' = IF startup = "done" THEN Cut(Kinds) ELSE wire
  /\ UNCHANGED call

(* markDown: the sockets the client holds are destroyed and what is pending *)
(* is rejected.  It holds none until connect has both; whoever waits for    *)
(* readiness is left to its timer.                                         *)
MarkDown ==
  /\ status' = "down"
  /\ wire' = IF startup = "done" THEN Cut(Kinds) ELSE wire
  /\ call' = [c \in Calls |-> IF call[c] = "pending" THEN "settled" ELSE call[c]]

(* Faulty variant: the sockets count as connected once they exist. *)
StartSidecarConnected ==
  /\ electron = "running" /\ startup = "spawning" /\ core = "listening"
  /\ startup' = "connecting"
  /\ sock' = [k \in Kinds |-> "up"]
  /\ UNCHANGED <<electron, status, call, exitSeen, wire, asked, answered, core, coreVars, term>>

(* The core's first line names the endpoint; both channels are dialled. *)
StartSidecar ==
  /\ electron = "running" /\ startup = "spawning" /\ core = "listening"
  /\ startup' = "connecting"
  /\ sock' = [k \in Kinds |-> "dialing"]
  /\ UNCHANGED <<electron, status, call, exitSeen, wire, asked, answered, core, coreVars, term>>

(* A dial reaches the kernel's backlog; failed ones are repeated. *)
Dial(k) ==
  /\ electron = "running" /\ sock[k] = "dialing" /\ wire[k] = "none"
  /\ core \in {"listening", "closing"}
  /\ wire' = [wire EXCEPT ![k] = "open"]
  /\ conn' = [conn EXCEPT ![k] = "shaking"]
  /\ UNCHANGED <<electron, electronVars, asked, answered, core, linked, handler, term>>

(* The connect event.  With the second one the client is ready, and the    *)
(* calls that waited are written, in the same turn of the event loop.      *)
Connected(k) ==
  /\ electron = "running" /\ sock[k] = "dialing" /\ wire[k] # "none"
  /\ sock' = [sock EXCEPT ![k] = "up"]
  /\ \/ /\ startup = "connecting" /\ \A o \in Kinds \ {k} : sock[o] \in {"up", "closed"}
        /\ startup' = "done" /\ status' = "ready"
        /\ call' = [c \in Calls |-> IF c \in Waiting THEN "pending" ELSE call[c]]
        /\ asked' = asked \cup (IF wire["rpc"] = "open" THEN Waiting ELSE {})
     \/ /\ startup # "connecting" \/ \E o \in Kinds \ {k} : sock[o] = "dialing"
        /\ UNCHANGED <<startup, status, call, asked>>
  /\ UNCHANGED <<electron, exitSeen, wire, answered, core, coreVars, term>>

(* 15 seconds of refused dials: Promise.all rejects, and main marks it down. *)
DialGivesUp(k) ==
  /\ electron = "running" /\ sock[k] = "dialing" /\ wire[k] = "none"
  /\ sock' = [sock EXCEPT ![k] = "none"]
  /\ startup' = "failed"
  /\ \/ startup = "connecting" /\ MarkDown
     \/ startup = "failed" /\ UNCHANGED <<status, wire, call>>
  /\ UNCHANGED <<electron, exitSeen, asked, answered, core, coreVars, term>>

(* The child's exit event: before its first line startSidecar rejects,     *)
(* afterwards it is marked down.                                           *)
ExitHeard ==
  /\ electron = "running" /\ core = "exited" /\ ~exitSeen
  /\ exitSeen' = TRUE
  /\ startup' = IF startup = "spawning" THEN "failed" ELSE startup
  /\ MarkDown
  /\ UNCHANGED <<electron, sock, asked, answered, core, coreVars, term>>

(* Faulty variant: only the channel of the calls counts. *)
SocketClosesOfCalls(k) ==
  /\ electron = "running" /\ sock[k] = "up" /\ wire[k] = "broken"
  /\ sock' = [sock EXCEPT ![k] = "closed"]
  /\ \/ status = "ready" /\ k = "rpc" /\ MarkDown
     \/ (status # "ready" \/ k # "rpc") /\ UNCHANGED <<status, wire, call>>
  /\ UNCHANGED <<electron, startup, exitSeen, asked, answered, core, coreVars, term>>

(* A socket's close event; it counts only while the client is ready. *)
SocketCloses(k) ==
  /\ electron = "running" /\ sock[k] = "up" /\ wire[k] = "broken"
  /\ sock' = [sock EXCEPT ![k] = "closed"]
  /\ \/ status = "ready" /\ MarkDown
     \/ status # "ready" /\ UNCHANGED <<status, wire, call>>
  /\ UNCHANGED <<electron, startup, exitSeen, asked, answered, core, coreVars, term>>

(* invoke: written at once, made to wait, or refused. *)
Invoke(c) ==
  /\ electron = "running" /\ call[c] = "new"
  /\ call' = [call EXCEPT ![c] = CASE status = "ready" -> "pending"
                                   [] status = "starting" -> "waiting"
                                   [] status = "down" -> "settled"]
  /\ asked' = IF status = "ready" /\ wire["rpc"] = "open" THEN asked \cup {c} ELSE asked
  /\ UNCHANGED <<electron, startup, status, sock, exitSeen, wire, answered, core, coreVars, term>>

(* whenReady's timer. *)
WaitTimesOut(c) ==
  /\ electron = "running" /\ call[c] = "waiting"
  /\ call' = [call EXCEPT ![c] = "settled"]
  /\ UNCHANGED <<electron, startup, status, sock, exitSeen, wire, asked, answered, core, coreVars, term>>

(* A reply is read, also out of a socket whose peer has gone. *)
ReplyRead(c) ==
  /\ electron = "running" /\ sock["rpc"] = "up" /\ c \in answered
  /\ answered' = answered \ {c}
  /\ call' = [call EXCEPT ![c] = IF @ = "pending" THEN "settled" ELSE @]
  /\ UNCHANGED <<electron, startup, status, sock, exitSeen, wire, asked, core, coreVars, term>>

(* The app quits, telling the sidecar; or it dies without a word. *)
ShellEnds(signals) ==
  /\ electron = "running"
  /\ electron' = "gone" /\ term' = signals
  /\ wire' = Cut(Kinds)
  /\ UNCHANGED <<electronVars, asked, answered, core, coreVars>>

-----------------------------------------------------------------------------
(* The core. *)

Listen ==
  /\ core = "starting"
  /\ core' = "listening"
  /\ UNCHANGED <<electron, electronVars, wire, asked, answered, coreVars, term>>

(* Accepted and recognised; the rpc pump makes the token its handlers get. *)
Handshake(k) ==
  /\ core = "listening" /\ conn[k] = "shaking"
  /\ \/ /\ wire[k] = "open"
        /\ conn' = [conn EXCEPT ![k] = "serving"]
        /\ linked' = IF k = "rpc" THEN "live" ELSE linked
     \/ /\ wire[k] = "broken"
        /\ conn' = [conn EXCEPT ![k] = "closed"]
        /\ UNCHANGED linked
  /\ UNCHANGED <<electron, electronVars, wire, asked, answered, core, handler, term>>

(* A request is read and dispatched, not awaited. *)
Dispatch(c) ==
  /\ core = "listening" /\ conn["rpc"] = "serving" /\ c \in asked
  /\ asked' = asked \ {c}
  /\ handler' = [handler EXCEPT ![c] = "running"]
  /\ UNCHANGED <<electron, electronVars, wire, answered, core, conn, linked, term>>

(* The handler ends, well or not; its reply is written if there is still   *)
(* somewhere to write it.                                                  *)
Respond(c) ==
  /\ core \in {"listening", "closing"} /\ handler[c] = "running"
  /\ handler' = [handler EXCEPT ![c] = "done"]
  /\ answered' = IF wire["rpc"] = "open" /\ conn["rpc"] # "closed"
                 THEN answered \cup {c} ELSE answered
  /\ UNCHANGED <<electron, electronVars, wire, asked, core, conn, linked, term>>

HandlerCancelled(c) ==
  /\ core \in {"listening", "closing"} /\ handler[c] = "running" /\ linked = "cancelled"
  /\ handler' = [handler EXCEPT ![c] = "cancelled"]
  /\ UNCHANGED <<electron, electronVars, wire, asked, answered, core, conn, linked, term>>

(* End of stream, or the host's token: PumpAsync leaves, and its linked    *)
(* source is disposed, cancelled or not.                                   *)
ChannelDrops(k) ==
  /\ conn[k] = "serving" /\ core \in {"listening", "closing"}
  /\ wire[k] = "broken" \/ core = "closing"
  /\ conn' = [conn EXCEPT ![k] = "dropping"]
  /\ linked' = IF k = "rpc" /\ linked = "live" THEN "disposed" ELSE linked
  /\ UNCHANGED <<electron, electronVars, wire, asked, answered, core, handler, term>>

(* Faulty variant: nobody stops the host. *)
ChannelClosedUnheard(k) ==
  /\ conn[k] = "dropping" /\ core \in {"listening", "closing"}
  /\ conn' = [conn EXCEPT ![k] = "closed"]
  /\ wire' = Cut({k})
  /\ UNCHANGED <<electron, electronVars, asked, answered, core, linked, handler, term>>

(* ServeAsync's finally: the host is told, and stops if this was the rpc   *)
(* channel; the connection is disposed.                                    *)
ChannelClosed(k) ==
  /\ conn[k] = "dropping" /\ core \in {"listening", "closing"}
  /\ conn' = [conn EXCEPT ![k] = "closed"]
  /\ core' = IF k = "rpc" THEN "closing" ELSE core
  /\ wire' = Cut({k})
  /\ UNCHANGED <<electron, electronVars, asked, answered, linked, handler, term>>

(* An interrupt from a terminal cancels the host's token. *)
Interrupt ==
  /\ core = "listening"
  /\ core' = "closing"
  /\ linked' = IF linked = "live" THEN "cancelled" ELSE linked
  /\ UNCHANGED <<electron, electronVars, wire, asked, answered, conn, handler, term>>

(* A connection that was not recognised yet is given up, unannounced. *)
HandshakeCancelled(k) ==
  /\ core = "closing" /\ conn[k] = "shaking"
  /\ conn' = [conn EXCEPT ![k] = "closed"]
  /\ wire' = Cut({k})
  /\ UNCHANGED <<electron, electronVars, asked, answered, core, linked, handler, term>>

(* The process is over: RunAsync returned once every pump had, or it       *)
(* crashed, or it was told to terminate.  Nobody awaits the handlers.      *)
Exit ==
  /\ core' = "exited"
  /\ wire' = Cut(Kinds)
  /\ handler' = [c \in Calls |-> IF handler[c] = "running" THEN "gone" ELSE handler[c]]
  /\ UNCHANGED <<electron, electronVars, asked, answered, conn, linked, term>>

RunReturns == core = "closing" /\ (\A k \in Kinds : conn[k] \in {"none", "closed"}) /\ Exit

Terminated == term /\ core # "exited" /\ Exit

Crash == core # "exited" /\ Exit

-----------------------------------------------------------------------------
(* A local socket both ends of which are served may still break. *)
LinkBreaks(k) ==
  /\ conn[k] = "serving" /\ wire[k] = "open"
  /\ wire' = Cut({k})
  /\ UNCHANGED <<electron, electronVars, asked, answered, core, coreVars, term>>

ShellNext ==
  \/ StartSidecar \/ ExitHeard
  \/ \E k \in Kinds : Dial(k) \/ Connected(k) \/ DialGivesUp(k) \/ SocketCloses(k)
  \/ \E c \in Calls : Invoke(c) \/ WaitTimesOut(c) \/ ReplyRead(c)
  \/ \E signals \in BOOLEAN : ShellEnds(signals)

CoreNext ==
  \/ Listen \/ Interrupt \/ RunReturns \/ Terminated \/ Crash
  \/ \E k \in Kinds : Handshake(k) \/ ChannelDrops(k) \/ ChannelClosed(k) \/ HandshakeCancelled(k)
  \/ \E c \in Calls : Dispatch(c) \/ Respond(c) \/ HandlerCancelled(c)

IpcNext == ShellNext \/ CoreNext \/ \E k \in Kinds : LinkBreaks(k)

IpcSpec == IpcInit /\ [][IpcNext]_ipcVars

(* Events that are due are delivered, timers fire, a command ends by itself *)
(* (AiRuns shows it of the longest ones), and a signalled process ends.    *)
(* Nothing makes the core start, a link break or a process die.            *)
IpcFairness ==
  /\ WF_ipcVars(ExitHeard) /\ WF_ipcVars(RunReturns) /\ WF_ipcVars(Terminated)
  /\ \A k \in Kinds :
       /\ WF_ipcVars(Connected(k)) /\ WF_ipcVars(SocketCloses(k)) /\ WF_ipcVars(Handshake(k))
       /\ WF_ipcVars(ChannelDrops(k)) /\ WF_ipcVars(ChannelClosed(k)) /\ WF_ipcVars(HandshakeCancelled(k))
  /\ \A c \in Calls :
       WF_ipcVars(WaitTimesOut(c)) /\ WF_ipcVars(ReplyRead(c)) /\ WF_ipcVars(Dispatch(c)) /\ WF_ipcVars(Respond(c))

IpcFairSpec == IpcSpec /\ IpcFairness

-----------------------------------------------------------------------------
(* Properties. *)

(* The core is on its way out, or is about to learn that it has to be. *)
CoreIsLeaving ==
  \/ core \in {"closing", "exited"} \/ conn["rpc"] = "dropping"
  \/ (conn["rpc"] = "serving" /\ wire["rpc"] = "broken")

(* A reply is on its way through an open channel, wherever it is by now. *)
ReplyIsDue(c) ==
  /\ sock["rpc"] = "up" /\ wire["rpc"] = "open" /\ core = "listening"
  /\ \/ c \in asked /\ conn["rpc"] \in {"shaking", "serving"}
     \/ handler[c] = "running" \/ c \in answered

(* A socket the client listens to is closed, or will be. *)
CloseIsDue == \E k \in Kinds : sock[k] = "up" /\ (wire[k] = "broken" \/ CoreIsLeaving)

(* ipc-client.ts:164: whatever is pending is answered or rejected: a reply *)
(* or a close event is due as long as the client has not been marked down, *)
(* and nothing is pending after.  Program.cs:156: a core whose rpc channel *)
(* was served and is over does not go on listening.                        *)
NobodyIsLeftWaiting ==
  /\ electron = "running" =>
       \A c \in Calls : call[c] = "pending" => status = "ready" /\ (ReplyIsDue(c) \/ CloseIsDue)
  /\ core = "listening" /\ linked # "none" => conn["rpc"] \in {"serving", "dropping"}

(* lib/bridge/host.ts:106: every call is settled, whatever happens to the core and    *)
(* the channels and in whatever order the two processes notice.            *)
EveryCallSettles ==
  \A c \in Calls : call[c] \in {"waiting", "pending"} ~> (call[c] = "settled" \/ electron = "gone")

(* Program.cs:156: a core that served the shell does not outlive it, nor   *)
(* the channel the shell called it on.                                     *)
CoreEndsWithItsShell ==
  conn["rpc"] = "serving" /\ wire["rpc"] = "broken" ~> core = "exited"
=============================================================================
