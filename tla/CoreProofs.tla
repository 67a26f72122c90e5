----------------------------- MODULE CoreProofs ------------------------------
(***************************************************************************)
(* The processes of the core that others talk to or start from, and what   *)
(* of a diff it gives to a model.                                          *)
(*                                                                         *)
(* The calls of the shell, for any number of them: the two ends of each    *)
(* channel agree on what has become of it, and an rpc channel that broke   *)
(* before the core served it went with one of the processes, or after the  *)
(* client had given up on both; so whoever waits still has a reply or a    *)
(* close to come.                                                          *)
(*                                                                         *)
(* The diff, for every hunk, list of files and budget: the lines kept fall *)
(* into runs that are the same wherever in them one starts, and the        *)
(* sharing of the budget keeps to one of two cases: nobody is cut so far,  *)
(* and what was given can be given to each that waits; or from here on     *)
(* everyone is given s or s + 1.                                           *)
(*                                                                         *)
(* The launches, for any number of workspaces and wherever the launches    *)
(* before died: what a launch may rely on depends on the statement it is   *)
(* at, and comes from the statements before it or from the launches that   *)
(* got further.  The tables fall into three groups that no statement       *)
(* mixes, each with an invariant of its own: the roots of the request      *)
(* client, the contexts with their files, and the prompts.                 *)
(*                                                                         *)
(* A terminal session, for every depth of the channel and of the           *)
(* pseudo-terminal and any number of chunks: what holds is where each      *)
(* chunk is.  shown <= taken <= read <= written, the channel holds exactly *)
(* what lies between the two middle ones, and each gap is bounded.         *)
(***************************************************************************)
EXTENDS Ipc, Terminal, Migrations, PromptDiff, ListsProofs

------------------------------------------------------------------------------
(* Of Ipc.                                                                 *)

(* Each end of a channel knows of it no more than there is. *)
EndsAgree ==
  /\ \A k \in Kinds : /\ wire[k] = "none" <=> conn[k] = "none"
                      /\ sock[k] = "closed" \/ conn[k] = "closed" => wire[k] = "broken"
  /\ core = "starting" => \A k \in Kinds : conn[k] = "none" /\ sock[k] = "none"
  /\ electron = "gone" \/ core = "exited" => \A k \in Kinds : wire[k] # "open"

(* The token source is as old as the rpc channel's service, and a channel  *)
(* that broke before it was served broke with one of the processes, or     *)
(* after the client had given up on both.                                  *)
CoreKeepsPace ==
  /\ conn["rpc"] \in {"serving", "dropping"} => linked # "none"
  /\ linked # "none" => conn["rpc"] \in {"serving", "dropping", "closed"}
  /\ linked = "cancelled" => core # "listening"
  /\ \A c \in Calls : handler[c] = "running" => linked # "none"
  /\ wire["rpc"] = "broken" /\ linked = "none" =>
       \/ electron = "gone" \/ core \in {"closing", "exited"}
       \/ status = "down" /\ startup = "done"

(* How far the startup is, by the two sockets; a client that is ready has  *)
(* at least one whose close event it will hear.                            *)
ShellKeepsPace ==
  /\ startup = "spawning" => status = "starting" /\ \A k \in Kinds : sock[k] = "none"
  /\ startup = "connecting" =>
       (\A k \in Kinds : sock[k] # "none") /\ (\E k \in Kinds : sock[k] = "dialing")
  /\ startup = "done" => \A k \in Kinds : sock[k] \in {"up", "closed"}
  /\ startup = "failed" => status = "down" /\ \E k \in Kinds : sock[k] = "none"
  /\ status = "ready" => startup = "done" /\ \E k \in Kinds : sock[k] = "up"

IpcInv == IpcTypeOK /\ EndsAgree /\ CoreKeepsPace /\ ShellKeepsPace /\ NobodyIsLeftWaiting

LEMMA IpcInitially == IpcInit => IpcInv
<1> USE DEF IpcInit, Kinds
<1>1. IpcInit => IpcTypeOK
  <2> SUFFICES ASSUME IpcInit  PROVE IpcTypeOK  OBVIOUS
  <2>1. /\ sock = [k \in Kinds |-> "none"] /\ wire = [k \in Kinds |-> "none"] /\ conn = [k \in Kinds |-> "none"]
        /\ call = [c \in Calls |-> "new"] /\ handler = [c \in Calls |-> "none"]
    OBVIOUS
  <2>2. sock \in [Kinds -> {"none", "dialing", "up", "closed"}]  BY <2>1
  <2>3. call \in [Calls -> {"new", "waiting", "pending", "settled"}]  BY <2>1
  <2>4. wire \in [Kinds -> {"none", "open", "broken"}]  BY <2>1
  <2>5. conn \in [Kinds -> {"none", "shaking", "serving", "dropping", "closed"}]  BY <2>1
  <2>6. handler \in [Calls -> {"none", "running", "done", "cancelled", "gone"}]  BY <2>1
  <2> QED  BY <2>1, <2>2, <2>3, <2>4, <2>5, <2>6 DEF IpcTypeOK
<1>2. IpcInit => EndsAgree /\ CoreKeepsPace /\ ShellKeepsPace
  BY DEF EndsAgree, CoreKeepsPace, ShellKeepsPace
<1>3. IpcInit => NobodyIsLeftWaiting  BY DEF NobodyIsLeftWaiting
<1> QED  BY <1>1, <1>2, <1>3 DEF IpcInv

LEMMA StartSidecarKeeps ==
  ASSUME IpcInv, StartSidecar  PROVE IpcInv'
<1> USE DEF StartSidecar, Kinds, electronVars, coreVars
<1>1. IpcTypeOK'
  BY SMT DEF IpcInv, IpcTypeOK
<1>2. EndsAgree'
  BY SMT DEF IpcInv, IpcTypeOK, EndsAgree
<1>3. CoreKeepsPace'
  BY SMT DEF IpcInv, IpcTypeOK, EndsAgree, CoreKeepsPace, ShellKeepsPace
<1>4. ShellKeepsPace'
  BY SMT DEF IpcInv, IpcTypeOK, EndsAgree, ShellKeepsPace
<1>5. NobodyIsLeftWaiting'
  BY SMT DEF IpcInv, IpcTypeOK, EndsAgree, CoreKeepsPace, ShellKeepsPace, NobodyIsLeftWaiting, CoreIsLeaving, ReplyIsDue, CloseIsDue
<1> QED  BY <1>1, <1>2, <1>3, <1>4, <1>5 DEF IpcInv

LEMMA ExitHeardKeeps ==
  ASSUME IpcInv, ExitHeard  PROVE IpcInv'
<1> USE DEF ExitHeard, MarkDown, Cut, Kinds, electronVars, coreVars
<1>1. IpcTypeOK'
  BY SMT DEF IpcInv, IpcTypeOK
<1>2. EndsAgree'
  BY SMT DEF IpcInv, IpcTypeOK, EndsAgree
<1>3. CoreKeepsPace'
  BY SMT DEF IpcInv, IpcTypeOK, EndsAgree, CoreKeepsPace, ShellKeepsPace
<1>4. ShellKeepsPace'
  BY SMT DEF IpcInv, IpcTypeOK, EndsAgree, ShellKeepsPace
<1>5. NobodyIsLeftWaiting'
  BY SMT DEF IpcInv, IpcTypeOK, EndsAgree, CoreKeepsPace, ShellKeepsPace, NobodyIsLeftWaiting, CoreIsLeaving, ReplyIsDue, CloseIsDue
<1> QED  BY <1>1, <1>2, <1>3, <1>4, <1>5 DEF IpcInv

LEMMA DialKeeps ==
  ASSUME IpcInv, NEW k \in Kinds, Dial(k)  PROVE IpcInv'
<1> USE DEF Dial, Kinds, electronVars, coreVars
<1>1. IpcTypeOK'
  BY SMT DEF IpcInv, IpcTypeOK
<1>2. EndsAgree'
  BY SMT DEF IpcInv, IpcTypeOK, EndsAgree
<1>3. CoreKeepsPace'
  BY SMT DEF IpcInv, IpcTypeOK, EndsAgree, CoreKeepsPace, ShellKeepsPace
<1>4. ShellKeepsPace'
  BY SMT DEF IpcInv, IpcTypeOK, EndsAgree, ShellKeepsPace
<1>5. NobodyIsLeftWaiting'
  BY SMT DEF IpcInv, IpcTypeOK, EndsAgree, CoreKeepsPace, ShellKeepsPace, NobodyIsLeftWaiting, CoreIsLeaving, ReplyIsDue, CloseIsDue
<1> QED  BY <1>1, <1>2, <1>3, <1>4, <1>5 DEF IpcInv

LEMMA ConnectedKeeps ==
  ASSUME IpcInv, NEW k \in Kinds, Connected(k)  PROVE IpcInv'
<1> USE DEF Connected, Waiting, Kinds, electronVars, coreVars
<1>1. IpcTypeOK'
  BY SMT DEF IpcInv, IpcTypeOK
<1>2. EndsAgree'
  BY SMT DEF IpcInv, IpcTypeOK, EndsAgree
<1>3. CoreKeepsPace'
  BY SMT DEF IpcInv, IpcTypeOK, EndsAgree, CoreKeepsPace, ShellKeepsPace
<1>4. ShellKeepsPace'
  BY SMT DEF IpcInv, IpcTypeOK, EndsAgree, ShellKeepsPace
<1>5. NobodyIsLeftWaiting'
  BY SMT DEF IpcInv, IpcTypeOK, EndsAgree, CoreKeepsPace, ShellKeepsPace, NobodyIsLeftWaiting, CoreIsLeaving, ReplyIsDue, CloseIsDue
<1> QED  BY <1>1, <1>2, <1>3, <1>4, <1>5 DEF IpcInv

LEMMA DialGivesUpKeeps ==
  ASSUME IpcInv, NEW k \in Kinds, DialGivesUp(k)  PROVE IpcInv'
<1> USE DEF DialGivesUp, MarkDown, Cut, Kinds, electronVars, coreVars
<1>1. IpcTypeOK'
  BY SMT DEF IpcInv, IpcTypeOK
<1>2. EndsAgree'
  BY SMT DEF IpcInv, IpcTypeOK, EndsAgree
<1>3. CoreKeepsPace'
  BY SMT DEF IpcInv, IpcTypeOK, EndsAgree, CoreKeepsPace, ShellKeepsPace
<1>4. ShellKeepsPace'
  BY SMT DEF IpcInv, IpcTypeOK, EndsAgree, ShellKeepsPace
<1>5. NobodyIsLeftWaiting'
  BY SMT DEF IpcInv, IpcTypeOK, EndsAgree, CoreKeepsPace, ShellKeepsPace, NobodyIsLeftWaiting, CoreIsLeaving, ReplyIsDue, CloseIsDue
<1> QED  BY <1>1, <1>2, <1>3, <1>4, <1>5 DEF IpcInv

LEMMA SocketClosesKeeps ==
  ASSUME IpcInv, NEW k \in Kinds, SocketCloses(k)  PROVE IpcInv'
<1> USE DEF SocketCloses, MarkDown, Cut, Kinds, electronVars, coreVars
<1>1. IpcTypeOK'
  BY SMT DEF IpcInv, IpcTypeOK
<1>2. EndsAgree'
  BY SMT DEF IpcInv, IpcTypeOK, EndsAgree
<1>3. CoreKeepsPace'
  BY SMT DEF IpcInv, IpcTypeOK, EndsAgree, CoreKeepsPace, ShellKeepsPace
<1>4. ShellKeepsPace'
  BY SMT DEF IpcInv, IpcTypeOK, EndsAgree, ShellKeepsPace
<1>5. NobodyIsLeftWaiting'
  BY SMT DEF IpcInv, IpcTypeOK, EndsAgree, CoreKeepsPace, ShellKeepsPace, NobodyIsLeftWaiting, CoreIsLeaving, ReplyIsDue, CloseIsDue
<1> QED  BY <1>1, <1>2, <1>3, <1>4, <1>5 DEF IpcInv

LEMMA InvokeKeeps ==
  ASSUME IpcInv, NEW c \in Calls, Invoke(c)  PROVE IpcInv'
<1> USE DEF Invoke, Kinds, electronVars, coreVars
<1>1. IpcTypeOK'
  BY SMT DEF IpcInv, IpcTypeOK
<1>2. EndsAgree'
  BY SMT DEF IpcInv, IpcTypeOK, EndsAgree
<1>3. CoreKeepsPace'
  BY SMT DEF IpcInv, IpcTypeOK, EndsAgree, CoreKeepsPace, ShellKeepsPace
<1>4. ShellKeepsPace'
  BY SMT DEF IpcInv, IpcTypeOK, EndsAgree, ShellKeepsPace
<1>5. NobodyIsLeftWaiting'
  BY SMT DEF IpcInv, IpcTypeOK, EndsAgree, CoreKeepsPace, ShellKeepsPace, NobodyIsLeftWaiting, CoreIsLeaving, ReplyIsDue, CloseIsDue
<1> QED  BY <1>1, <1>2, <1>3, <1>4, <1>5 DEF IpcInv

LEMMA WaitTimesOutKeeps ==
  ASSUME IpcInv, NEW c \in Calls, WaitTimesOut(c)  PROVE IpcInv'
<1> USE DEF WaitTimesOut, Kinds, electronVars, coreVars
<1>1. IpcTypeOK'
  BY SMT DEF IpcInv, IpcTypeOK
<1>2. EndsAgree'
  BY SMT DEF IpcInv, IpcTypeOK, EndsAgree
<1>3. CoreKeepsPace'
  BY SMT DEF IpcInv, IpcTypeOK, EndsAgree, CoreKeepsPace, ShellKeepsPace
<1>4. ShellKeepsPace'
  BY SMT DEF IpcInv, IpcTypeOK, EndsAgree, ShellKeepsPace
<1>5. NobodyIsLeftWaiting'
  BY SMT DEF IpcInv, IpcTypeOK, EndsAgree, CoreKeepsPace, ShellKeepsPace, NobodyIsLeftWaiting, CoreIsLeaving, ReplyIsDue, CloseIsDue
<1> QED  BY <1>1, <1>2, <1>3, <1>4, <1>5 DEF IpcInv

LEMMA ReplyReadKeeps ==
  ASSUME IpcInv, NEW c \in Calls, ReplyRead(c)  PROVE IpcInv'
<1> USE DEF ReplyRead, Kinds, electronVars, coreVars
<1>1. IpcTypeOK'
  BY SMT DEF IpcInv, IpcTypeOK
<1>2. EndsAgree'
  BY SMT DEF IpcInv, IpcTypeOK, EndsAgree
<1>3. CoreKeepsPace'
  BY SMT DEF IpcInv, IpcTypeOK, EndsAgree, CoreKeepsPace, ShellKeepsPace
<1>4. ShellKeepsPace'
  BY SMT DEF IpcInv, IpcTypeOK, EndsAgree, ShellKeepsPace
<1>5. NobodyIsLeftWaiting'
  BY SMT DEF IpcInv, IpcTypeOK, EndsAgree, CoreKeepsPace, ShellKeepsPace, NobodyIsLeftWaiting, CoreIsLeaving, ReplyIsDue, CloseIsDue
<1> QED  BY <1>1, <1>2, <1>3, <1>4, <1>5 DEF IpcInv

LEMMA ListenKeeps ==
  ASSUME IpcInv, Listen  PROVE IpcInv'
<1> USE DEF Listen, Kinds, electronVars, coreVars
<1>1. IpcTypeOK'
  BY SMT DEF IpcInv, IpcTypeOK
<1>2. EndsAgree'
  BY SMT DEF IpcInv, IpcTypeOK, EndsAgree
<1>3. CoreKeepsPace'
  BY SMT DEF IpcInv, IpcTypeOK, EndsAgree, CoreKeepsPace, ShellKeepsPace
<1>4. ShellKeepsPace'
  BY SMT DEF IpcInv, IpcTypeOK, EndsAgree, ShellKeepsPace
<1>5. NobodyIsLeftWaiting'
  BY SMT DEF IpcInv, IpcTypeOK, EndsAgree, CoreKeepsPace, ShellKeepsPace, NobodyIsLeftWaiting, CoreIsLeaving, ReplyIsDue, CloseIsDue
<1> QED  BY <1>1, <1>2, <1>3, <1>4, <1>5 DEF IpcInv

LEMMA InterruptKeeps ==
  ASSUME IpcInv, Interrupt  PROVE IpcInv'
<1> USE DEF Interrupt, Kinds, electronVars, coreVars
<1>1. IpcTypeOK'
  BY SMT DEF IpcInv, IpcTypeOK
<1>2. EndsAgree'
  BY SMT DEF IpcInv, IpcTypeOK, EndsAgree
<1>3. CoreKeepsPace'
  BY SMT DEF IpcInv, IpcTypeOK, EndsAgree, CoreKeepsPace, ShellKeepsPace
<1>4. ShellKeepsPace'
  BY SMT DEF IpcInv, IpcTypeOK, EndsAgree, ShellKeepsPace
<1>5. NobodyIsLeftWaiting'
  BY SMT DEF IpcInv, IpcTypeOK, EndsAgree, CoreKeepsPace, ShellKeepsPace, NobodyIsLeftWaiting, CoreIsLeaving, ReplyIsDue, CloseIsDue
<1> QED  BY <1>1, <1>2, <1>3, <1>4, <1>5 DEF IpcInv

LEMMA RunReturnsKeeps ==
  ASSUME IpcInv, RunReturns  PROVE IpcInv'
<1> USE DEF RunReturns, Exit, Cut, Kinds, electronVars, coreVars
<1>1. IpcTypeOK'
  BY SMT DEF IpcInv, IpcTypeOK
<1>2. EndsAgree'
  BY SMT DEF IpcInv, IpcTypeOK, EndsAgree
<1>3. CoreKeepsPace'
  BY SMT DEF IpcInv, IpcTypeOK, EndsAgree, CoreKeepsPace, ShellKeepsPace
<1>4. ShellKeepsPace'
  BY SMT DEF IpcInv, IpcTypeOK, EndsAgree, ShellKeepsPace
<1>5. NobodyIsLeftWaiting'
  BY SMT DEF IpcInv, IpcTypeOK, EndsAgree, CoreKeepsPace, ShellKeepsPace, NobodyIsLeftWaiting, CoreIsLeaving, ReplyIsDue, CloseIsDue
<1> QED  BY <1>1, <1>2, <1>3, <1>4, <1>5 DEF IpcInv

LEMMA TerminatedKeeps ==
  ASSUME IpcInv, Terminated  PROVE IpcInv'
<1> USE DEF Terminated, Exit, Cut, Kinds, electronVars, coreVars
<1>1. IpcTypeOK'
  BY SMT DEF IpcInv, IpcTypeOK
<1>2. EndsAgree'
  BY SMT DEF IpcInv, IpcTypeOK, EndsAgree
<1>3. CoreKeepsPace'
  BY SMT DEF IpcInv, IpcTypeOK, EndsAgree, CoreKeepsPace, ShellKeepsPace
<1>4. ShellKeepsPace'
  BY SMT DEF IpcInv, IpcTypeOK, EndsAgree, ShellKeepsPace
<1>5. NobodyIsLeftWaiting'
  BY SMT DEF IpcInv, IpcTypeOK, EndsAgree, CoreKeepsPace, ShellKeepsPace, NobodyIsLeftWaiting, CoreIsLeaving, ReplyIsDue, CloseIsDue
<1> QED  BY <1>1, <1>2, <1>3, <1>4, <1>5 DEF IpcInv

LEMMA CrashKeeps ==
  ASSUME IpcInv, Crash  PROVE IpcInv'
<1> USE DEF Crash, Exit, Cut, Kinds, electronVars, coreVars
<1>1. IpcTypeOK'
  BY SMT DEF IpcInv, IpcTypeOK
<1>2. EndsAgree'
  BY SMT DEF IpcInv, IpcTypeOK, EndsAgree
<1>3. CoreKeepsPace'
  BY SMT DEF IpcInv, IpcTypeOK, EndsAgree, CoreKeepsPace, ShellKeepsPace
<1>4. ShellKeepsPace'
  BY SMT DEF IpcInv, IpcTypeOK, EndsAgree, ShellKeepsPace
<1>5. NobodyIsLeftWaiting'
  BY SMT DEF IpcInv, IpcTypeOK, EndsAgree, CoreKeepsPace, ShellKeepsPace, NobodyIsLeftWaiting, CoreIsLeaving, ReplyIsDue, CloseIsDue
<1> QED  BY <1>1, <1>2, <1>3, <1>4, <1>5 DEF IpcInv

LEMMA HandshakeKeeps ==
  ASSUME IpcInv, NEW k \in Kinds, Handshake(k)  PROVE IpcInv'
<1> USE DEF Handshake, Kinds, electronVars, coreVars
<1>1. IpcTypeOK'
  BY SMT DEF IpcInv, IpcTypeOK
<1>2. EndsAgree'
  BY SMT DEF IpcInv, IpcTypeOK, EndsAgree
<1>3. CoreKeepsPace'
  BY SMT DEF IpcInv, IpcTypeOK, EndsAgree, CoreKeepsPace, ShellKeepsPace
<1>4. ShellKeepsPace'
  BY SMT DEF IpcInv, IpcTypeOK, EndsAgree, ShellKeepsPace
<1>5. NobodyIsLeftWaiting'
  BY SMT DEF IpcInv, IpcTypeOK, EndsAgree, CoreKeepsPace, ShellKeepsPace, NobodyIsLeftWaiting, CoreIsLeaving, ReplyIsDue, CloseIsDue
<1> QED  BY <1>1, <1>2, <1>3, <1>4, <1>5 DEF IpcInv

LEMMA ChannelDropsKeeps ==
  ASSUME IpcInv, NEW k \in Kinds, ChannelDrops(k)  PROVE IpcInv'
<1> USE DEF ChannelDrops, Kinds, electronVars, coreVars
<1>1. IpcTypeOK'
  BY SMT DEF IpcInv, IpcTypeOK
<1>2. EndsAgree'
  BY SMT DEF IpcInv, IpcTypeOK, EndsAgree
<1>3. CoreKeepsPace'
  BY SMT DEF IpcInv, IpcTypeOK, EndsAgree, CoreKeepsPace, ShellKeepsPace
<1>4. ShellKeepsPace'
  BY SMT DEF IpcInv, IpcTypeOK, EndsAgree, ShellKeepsPace
<1>5. NobodyIsLeftWaiting'
  BY SMT DEF IpcInv, IpcTypeOK, EndsAgree, CoreKeepsPace, ShellKeepsPace, NobodyIsLeftWaiting, CoreIsLeaving, ReplyIsDue, CloseIsDue
<1> QED  BY <1>1, <1>2, <1>3, <1>4, <1>5 DEF IpcInv

LEMMA ChannelClosedKeeps ==
  ASSUME IpcInv, NEW k \in Kinds, ChannelClosed(k)  PROVE IpcInv'
<1> USE DEF ChannelClosed, Cut, Kinds, electronVars, coreVars
<1>1. IpcTypeOK'
  BY SMT DEF IpcInv, IpcTypeOK
<1>2. EndsAgree'
  BY SMT DEF IpcInv, IpcTypeOK, EndsAgree
<1>3. CoreKeepsPace'
  BY SMT DEF IpcInv, IpcTypeOK, EndsAgree, CoreKeepsPace, ShellKeepsPace
<1>4. ShellKeepsPace'
  BY SMT DEF IpcInv, IpcTypeOK, EndsAgree, ShellKeepsPace
<1>5. NobodyIsLeftWaiting'
  BY SMT DEF IpcInv, IpcTypeOK, EndsAgree, CoreKeepsPace, ShellKeepsPace, NobodyIsLeftWaiting, CoreIsLeaving, ReplyIsDue, CloseIsDue
<1> QED  BY <1>1, <1>2, <1>3, <1>4, <1>5 DEF IpcInv

LEMMA HandshakeCancelledKeeps ==
  ASSUME IpcInv, NEW k \in Kinds, HandshakeCancelled(k)  PROVE IpcInv'
<1> USE DEF HandshakeCancelled, Cut, Kinds, electronVars, coreVars
<1>1. IpcTypeOK'
  BY SMT DEF IpcInv, IpcTypeOK
<1>2. EndsAgree'
  BY SMT DEF IpcInv, IpcTypeOK, EndsAgree
<1>3. CoreKeepsPace'
  BY SMT DEF IpcInv, IpcTypeOK, EndsAgree, CoreKeepsPace, ShellKeepsPace
<1>4. ShellKeepsPace'
  BY SMT DEF IpcInv, IpcTypeOK, EndsAgree, ShellKeepsPace
<1>5. NobodyIsLeftWaiting'
  BY SMT DEF IpcInv, IpcTypeOK, EndsAgree, CoreKeepsPace, ShellKeepsPace, NobodyIsLeftWaiting, CoreIsLeaving, ReplyIsDue, CloseIsDue
<1> QED  BY <1>1, <1>2, <1>3, <1>4, <1>5 DEF IpcInv

LEMMA DispatchKeeps ==
  ASSUME IpcInv, NEW c \in Calls, Dispatch(c)  PROVE IpcInv'
<1> USE DEF Dispatch, Kinds, electronVars, coreVars
<1>1. IpcTypeOK'
  BY SMT DEF IpcInv, IpcTypeOK
<1>2. EndsAgree'
  BY SMT DEF IpcInv, IpcTypeOK, EndsAgree
<1>3. CoreKeepsPace'
  BY SMT DEF IpcInv, IpcTypeOK, EndsAgree, CoreKeepsPace, ShellKeepsPace
<1>4. ShellKeepsPace'
  BY SMT DEF IpcInv, IpcTypeOK, EndsAgree, ShellKeepsPace
<1>5. NobodyIsLeftWaiting'
  BY SMT DEF IpcInv, IpcTypeOK, EndsAgree, CoreKeepsPace, ShellKeepsPace, NobodyIsLeftWaiting, CoreIsLeaving, ReplyIsDue, CloseIsDue
<1> QED  BY <1>1, <1>2, <1>3, <1>4, <1>5 DEF IpcInv

LEMMA RespondKeeps ==
  ASSUME IpcInv, NEW c \in Calls, Respond(c)  PROVE IpcInv'
<1> USE DEF Respond, Kinds, electronVars, coreVars
<1>1. IpcTypeOK'
  BY SMT DEF IpcInv, IpcTypeOK
<1>2. EndsAgree'
  BY SMT DEF IpcInv, IpcTypeOK, EndsAgree
<1>3. CoreKeepsPace'
  BY SMT DEF IpcInv, IpcTypeOK, EndsAgree, CoreKeepsPace, ShellKeepsPace
<1>4. ShellKeepsPace'
  BY SMT DEF IpcInv, IpcTypeOK, EndsAgree, ShellKeepsPace
<1>5. NobodyIsLeftWaiting'
  BY SMT DEF IpcInv, IpcTypeOK, EndsAgree, CoreKeepsPace, ShellKeepsPace, NobodyIsLeftWaiting, CoreIsLeaving, ReplyIsDue, CloseIsDue
<1> QED  BY <1>1, <1>2, <1>3, <1>4, <1>5 DEF IpcInv

LEMMA HandlerCancelledKeeps ==
  ASSUME IpcInv, NEW c \in Calls, HandlerCancelled(c)  PROVE IpcInv'
<1> USE DEF HandlerCancelled, Kinds, electronVars, coreVars
<1>1. IpcTypeOK'
  BY SMT DEF IpcInv, IpcTypeOK
<1>2. EndsAgree'
  BY SMT DEF IpcInv, IpcTypeOK, EndsAgree
<1>3. CoreKeepsPace'
  BY SMT DEF IpcInv, IpcTypeOK, EndsAgree, CoreKeepsPace, ShellKeepsPace
<1>4. ShellKeepsPace'
  BY SMT DEF IpcInv, IpcTypeOK, EndsAgree, ShellKeepsPace
<1>5. NobodyIsLeftWaiting'
  BY SMT DEF IpcInv, IpcTypeOK, EndsAgree, CoreKeepsPace, ShellKeepsPace, NobodyIsLeftWaiting, CoreIsLeaving, ReplyIsDue, CloseIsDue
<1> QED  BY <1>1, <1>2, <1>3, <1>4, <1>5 DEF IpcInv

LEMMA ShellEndsKeeps ==
  ASSUME IpcInv, NEW signals \in BOOLEAN, ShellEnds(signals)  PROVE IpcInv'
<1> USE DEF ShellEnds, Cut, Kinds, electronVars, coreVars
<1>1. IpcTypeOK'
  BY SMT DEF IpcInv, IpcTypeOK
<1>2. EndsAgree'
  BY SMT DEF IpcInv, IpcTypeOK, EndsAgree
<1>3. CoreKeepsPace'
  BY SMT DEF IpcInv, IpcTypeOK, EndsAgree, CoreKeepsPace, ShellKeepsPace
<1>4. ShellKeepsPace'
  BY SMT DEF IpcInv, IpcTypeOK, EndsAgree, ShellKeepsPace
<1>5. NobodyIsLeftWaiting'
  BY SMT DEF IpcInv, IpcTypeOK, EndsAgree, CoreKeepsPace, ShellKeepsPace, NobodyIsLeftWaiting, CoreIsLeaving, ReplyIsDue, CloseIsDue
<1> QED  BY <1>1, <1>2, <1>3, <1>4, <1>5 DEF IpcInv

LEMMA LinkBreaksKeeps ==
  ASSUME IpcInv, NEW k \in Kinds, LinkBreaks(k)  PROVE IpcInv'
<1> USE DEF LinkBreaks, Cut, Kinds, electronVars, coreVars
<1>1. IpcTypeOK'
  BY SMT DEF IpcInv, IpcTypeOK
<1>2. EndsAgree'
  BY SMT DEF IpcInv, IpcTypeOK, EndsAgree
<1>3. CoreKeepsPace'
  BY SMT DEF IpcInv, IpcTypeOK, EndsAgree, CoreKeepsPace, ShellKeepsPace
<1>4. ShellKeepsPace'
  BY SMT DEF IpcInv, IpcTypeOK, EndsAgree, ShellKeepsPace
<1>5. NobodyIsLeftWaiting'
  BY SMT DEF IpcInv, IpcTypeOK, EndsAgree, CoreKeepsPace, ShellKeepsPace, NobodyIsLeftWaiting, CoreIsLeaving, ReplyIsDue, CloseIsDue
<1> QED  BY <1>1, <1>2, <1>3, <1>4, <1>5 DEF IpcInv

LEMMA IpcStutters == IpcInv /\ UNCHANGED ipcVars => IpcInv'
BY DEF ipcVars, electronVars, coreVars, IpcInv, IpcTypeOK, EndsAgree, CoreKeepsPace, ShellKeepsPace,
  NobodyIsLeftWaiting, CoreIsLeaving, ReplyIsDue, CloseIsDue

LEMMA IpcSteps == IpcInv /\ [IpcNext]_ipcVars => IpcInv'
<1> SUFFICES ASSUME IpcInv, [IpcNext]_ipcVars  PROVE IpcInv'  OBVIOUS
<1>1. CASE ShellNext
  BY <1>1, StartSidecarKeeps, ExitHeardKeeps, DialKeeps, ConnectedKeeps, DialGivesUpKeeps,
    SocketClosesKeeps, InvokeKeeps, WaitTimesOutKeeps, ReplyReadKeeps, ShellEndsKeeps DEF ShellNext
<1>2. CASE CoreNext
  BY <1>2, ListenKeeps, InterruptKeeps, RunReturnsKeeps, TerminatedKeeps, CrashKeeps, HandshakeKeeps,
    ChannelDropsKeeps, ChannelClosedKeeps, HandshakeCancelledKeeps, DispatchKeeps, RespondKeeps,
    HandlerCancelledKeeps DEF CoreNext
<1> QED  BY <1>1, <1>2, LinkBreaksKeeps, IpcStutters DEF IpcNext

LEMMA IpcAlways == IpcSpec => []IpcInv
BY IpcInitially, IpcSteps, PTL DEF IpcSpec

(* ipc-client.ts:164, Program.cs:156: a call that is pending has a reply   *)
(* or a close on its way to it, and a core whose rpc channel is over is on *)
(* its way out, however crashes, breaks, drops, dials and timers interleave *)
(* and for any number of calls.                                            *)
THEOREM NobodyIsEverLeftWaiting == IpcSpec => []NobodyIsLeftWaiting
<1>1. IpcInv => NobodyIsLeftWaiting  BY DEF IpcInv
<1> QED  BY IpcAlways, <1>1, PTL

(* Both ends of a channel, the calls and the handlers keep their types.    *)
THEOREM IpcTypeCorrect == IpcSpec => []IpcTypeOK
<1>1. IpcInv => IpcTypeOK  BY DEF IpcInv
<1> QED  BY IpcAlways, <1>1, PTL

------------------------------------------------------------------------------
(* Of PromptDiff.                                                          *)

LEMMA IntervalOf ==
  ASSUME NEW i \in Nat, NEW j \in Nat, NEW k
  PROVE  k \in Min({i, j}) .. Max({i, j}) <=> k \in Int /\ ((i <= k /\ k <= j) \/ (j <= k /\ k <= i))
<1> DEFINE S == {i, j}
<1>1. S \in SUBSET Nat /\ S # {} /\ i \in S /\ j \in S /\ \A x \in S : x <= i + j
  OBVIOUS
<1>2. i + j \in Nat
  OBVIOUS
<1>3. \A x \in S : x = i \/ x = j
  OBVIOUS
<1> HIDE DEF S
<1>4. \E x \in S : \A y \in S : x <= y
  BY <1>1, LeastOfNats
<1>5. \E x \in S : \A y \in S : x >= y
  BY <1>1, <1>2, GreatestOfNats
<1>6. Min(S) \in S /\ \A y \in S : Min(S) <= y
  BY <1>4 DEF Min
<1>7. Max(S) \in S /\ \A y \in S : Max(S) >= y
  BY <1>5 DEF Max
<1> PICK lo \in Nat, hi \in Nat : lo = Min(S) /\ hi = Max(S)
  BY <1>1, <1>6, <1>7
<1>8. (lo = i \/ lo = j) /\ lo <= i /\ lo <= j /\ (hi = i \/ hi = j) /\ hi >= i /\ hi >= j
  BY <1>1, <1>3, <1>6, <1>7
<1>9. k \in lo .. hi <=> k \in Int /\ ((i <= k /\ k <= j) \/ (j <= k /\ k <= i))
  <2>1. k \in lo .. hi <=> k \in Int /\ lo <= k /\ k <= hi
    OBVIOUS
  <2>2. CASE i <= j
    <3>1. lo = i /\ hi = j
      BY <1>8, <2>2
    <3>2. ASSUME k \in Int, j <= k, k <= i PROVE i <= k /\ k <= j
      BY <2>2, <3>2
    <3>3. k \in lo .. hi <=> k \in Int /\ i <= k /\ k <= j
      BY <2>1, <3>1
    <3> QED
      BY <3>2, <3>3
  <2>3. CASE j <= i
    <3>1. lo = j /\ hi = i
      BY <1>8, <2>3
    <3>2. ASSUME k \in Int, i <= k, k <= j PROVE j <= k /\ k <= i
      BY <2>3, <3>2
    <3>3. k \in lo .. hi <=> k \in Int /\ j <= k /\ k <= i
      BY <2>1, <3>1
    <3> QED
      BY <3>2, <3>3
  <2> QED
    BY <2>2, <2>3
<1> QED
  BY <1>9 DEF S

\* The lines of a run can be reached from each other without leaving the set.
LEMMA RunIs ==
  ASSUME NEW among \in SUBSET Nat, NEW i \in among, NEW j
  PROVE  j \in RunOf(i, among) <=>
           j \in among /\ \A k \in Nat : ((i <= k /\ k <= j) \/ (j <= k /\ k <= i)) => k \in among
<1> SUFFICES ASSUME j \in among
             PROVE  Min({i, j}) .. Max({i, j}) \subseteq among <=>
                      \A k \in Nat : ((i <= k /\ k <= j) \/ (j <= k /\ k <= i)) => k \in among
  BY DEF RunOf
<1> PICK I : I = Min({i, j}) .. Max({i, j})
  OBVIOUS
<1>1. \A k : k \in I <=> k \in Int /\ ((i <= k /\ k <= j) \/ (j <= k /\ k <= i))
  BY IntervalOf
<1>2. i \in Nat /\ j \in Nat
  OBVIOUS
<1> PICK a \in Nat, b \in Nat : a = i /\ b = j
  BY <1>2
<1>5. \A k \in Int : k \in I <=> ((a <= k /\ k <= b) \/ (b <= k /\ k <= a))
  BY <1>1
<1>3. \A k \in I : k \in Nat
  <2> SUFFICES ASSUME NEW k \in Int, k \in I PROVE k \in Nat
    BY <1>1
  <2>1. (a <= k /\ k <= b) \/ (b <= k /\ k <= a)
    BY <1>5
  <2>2. k >= 0
    BY <2>1
  <2> QED
    BY <2>2
<1>4. \A k \in Nat : k \in I <=> ((i <= k /\ k <= j) \/ (j <= k /\ k <= i))
  <2>1. \A k \in Nat : k \in Int
    OBVIOUS
  <2> QED
    BY <1>5, <2>1
<1> QED
  BY <1>3, <1>4

LEMMA RunsAreOne ==
  ASSUME NEW among \in SUBSET Nat, NEW i \in among, NEW m \in RunOf(i, among)
  PROVE  RunOf(m, among) = RunOf(i, among)
<1>1. m \in among /\ \A k \in Nat : ((i <= k /\ k <= m) \/ (m <= k /\ k <= i)) => k \in among
  BY RunIs
<1>2. ASSUME NEW j \in RunOf(i, among) PROVE j \in RunOf(m, among)
  <2>1. j \in among /\ \A k \in Nat : ((i <= k /\ k <= j) \/ (j <= k /\ k <= i)) => k \in among
    BY <1>2, RunIs
  <2>2. ASSUME NEW k \in Nat, (m <= k /\ k <= j) \/ (j <= k /\ k <= m) PROVE k \in among
    <3> PICK a \in Nat, b \in Nat, c \in Nat : a = i /\ b = m /\ c = j
      BY <1>1, <2>1
    <3>1. (b <= k /\ k <= c) \/ (c <= k /\ k <= b)
      BY <2>2
    <3>2. ((a <= k /\ k <= b) \/ (b <= k /\ k <= a)) \/ ((a <= k /\ k <= c) \/ (c <= k /\ k <= a))
      <4>1. CASE a <= k
        BY <3>1, <4>1
      <4>2. CASE k <= a
        BY <3>1, <4>2
      <4> QED
        BY <4>1, <4>2
    <3> QED
      BY <1>1, <2>1, <3>2
  <2> QED
    BY <1>1, <2>1, <2>2, RunIs
<1>3. ASSUME NEW j \in RunOf(m, among) PROVE j \in RunOf(i, among)
  <2>1. j \in among /\ \A k \in Nat : ((m <= k /\ k <= j) \/ (j <= k /\ k <= m)) => k \in among
    BY <1>1, <1>3, RunIs
  <2>2. ASSUME NEW k \in Nat, (i <= k /\ k <= j) \/ (j <= k /\ k <= i) PROVE k \in among
    BY <1>1, <2>1, <2>2
  <2> QED
    BY <2>1, <2>2, RunIs
<1> QED
  BY <1>2, <1>3

LEMMA PromptTypes == PromptSpec => []PromptTypeOK
<1>1. PromptInit => PromptTypeOK
  BY DEF PromptInit, PromptTypeOK
<1>2. PromptTypeOK /\ [PromptNext]_promptVars => PromptTypeOK'
  <2> SUFFICES ASSUME PromptTypeOK, [PromptNext]_promptVars PROVE PromptTypeOK'
    OBVIOUS
  <2>1. ASSUME NEW length \in Lengths, costs' = Append(costs, length), hunk' = hunk PROVE PromptTypeOK'
    <3>1. Append(costs, length) \in Seq(Lengths)
      BY DEF PromptTypeOK
    <3> QED
      BY <2>1, <3>1 DEF PromptTypeOK
  <2>2. ASSUME NEW isChange \in BOOLEAN, hunk' = Append(hunk, isChange), costs' = costs PROVE PromptTypeOK'
    <3>1. Append(hunk, isChange) \in Seq(BOOLEAN)
      BY DEF PromptTypeOK
    <3> QED
      BY <2>2, <3>1 DEF PromptTypeOK
  <2>3. CASE UNCHANGED promptVars
    BY <2>3 DEF PromptTypeOK, promptVars
  <2> QED
    BY <2>1, <2>2, <2>3 DEF PromptNext
<1> QED
  BY <1>1, <1>2, PTL DEF PromptSpec

LEMMA HunkIsShown == ASSUME hunk \in Seq(BOOLEAN) PROVE EveryChangeIsShown
<1> PICK dom : dom = DOMAIN hunk
  OBVIOUS
<1> PICK kept : kept = KeptLines
  OBVIOUS
<1> PICK near : near = Near
  OBVIOUS
<1> USE PromptConstants
<1>1. /\ dom \in SUBSET Nat /\ near \in SUBSET dom /\ kept \in SUBSET dom /\ near \subseteq kept
      /\ \A i \in dom, j \in dom, k \in Nat : (i <= k /\ k <= j) \/ (j <= k /\ k <= i) => k \in dom
      /\ IsFiniteSet(dom)
  <2>1. dom = 1 .. Len(hunk) /\ Len(hunk) \in Nat
    OBVIOUS
  <2>2. IsFiniteSet(dom)
    <3>1. 1 \in Int /\ Len(hunk) \in Int
      BY <2>1
    <3> QED
      BY <2>1, <3>1, FS_Interval
  <2>3. near \in SUBSET dom /\ kept \in SUBSET dom /\ near \subseteq kept
    BY DEF Near, KeptLines
  <2> QED
    BY <2>1, <2>2, <2>3
<1>2. \A i \in kept : i \in RunOf(i, kept) /\ RunOf(i, kept) \subseteq kept
  <2> SUFFICES ASSUME NEW i \in kept PROVE i \in RunOf(i, kept) /\ RunOf(i, kept) \subseteq kept
    OBVIOUS
  <2>1. \A k \in Nat : (i <= k /\ k <= i) \/ (i <= k /\ k <= i) => k \in kept
    BY <1>1
  <2> QED
    BY <1>1, <2>1, RunIs DEF RunOf
<1>3. ASSUME NEW i \in dom, hunk[i]
      PROVE  i \in kept /\ {j \in dom : j - i \in -ContextLines .. ContextLines} \subseteq RunOf(i, kept)
  <2>1. \A j \in dom : j - i \in -ContextLines .. ContextLines => j \in near
    <3> SUFFICES ASSUME NEW j \in dom, j - i \in -ContextLines .. ContextLines PROVE j \in near
      OBVIOUS
    <3>1. i - j \in -ContextLines .. ContextLines
      BY <1>1
    <3> QED
      BY <1>3, <3>1 DEF Near
  <2>2. i \in near
    <3>1. i - i \in -ContextLines .. ContextLines
      BY <1>1
    <3> QED
      BY <2>1, <3>1
  <2>3. ASSUME NEW j \in dom, j - i \in -ContextLines .. ContextLines PROVE j \in RunOf(i, kept)
    <3>1. j \in kept
      BY <1>1, <2>1, <2>3
    <3>2. ASSUME NEW k \in Nat, (i <= k /\ k <= j) \/ (j <= k /\ k <= i) PROVE k \in kept
      <4>1. k \in dom
        BY <1>1, <3>2
      <4>2. k - i \in -ContextLines .. ContextLines
        BY <1>1, <2>3, <3>2
      <4> QED
        BY <1>1, <2>1, <4>1, <4>2
    <3> QED
      BY <1>1, <2>2, <3>1, <3>2, RunIs
  <2> QED
    BY <1>1, <2>2, <2>3
<1>4. ASSUME NEW i \in dom \ kept
      PROVE  /\ Cardinality(RunOf(i, dom \ kept)) > DeclarableGap
             /\ i \in RunOf(i, dom \ kept) /\ RunOf(i, dom \ kept) \subseteq dom
  <2> PICK far : far = dom \ near
    OBVIOUS
  <2> PICK out : out = dom \ kept
    OBVIOUS
  <2>1. i \in far /\ far \in SUBSET Nat /\ out \in SUBSET Nat /\ out \subseteq far /\ i \in out
    BY <1>1
  <2>2. \A m \in far : m \in kept <=> Cardinality(RunOf(m, far)) <= DeclarableGap
    BY DEF KeptLines
  <2>3. \A m \in RunOf(i, far) : m \in out
    <3> SUFFICES ASSUME NEW m \in RunOf(i, far) PROVE m \in out
      OBVIOUS
    <3>1. RunOf(m, far) = RunOf(i, far)
      BY <2>1, RunsAreOne
    <3>2. m \in far
      BY DEF RunOf
    <3> QED
      BY <2>1, <2>2, <3>1, <3>2
  <2>4. RunOf(i, far) = RunOf(i, out)
    <3>1. ASSUME NEW j \in RunOf(i, far) PROVE j \in RunOf(i, out)
      <4>1. \A k \in Nat : (i <= k /\ k <= j) \/ (j <= k /\ k <= i) => k \in RunOf(i, far)
        <5> SUFFICES ASSUME NEW k \in Nat, (i <= k /\ k <= j) \/ (j <= k /\ k <= i) PROVE k \in RunOf(i, far)
          OBVIOUS
        <5>1. j \in far /\ \A l \in Nat : (i <= l /\ l <= j) \/ (j <= l /\ l <= i) => l \in far
          BY <2>1, <3>1, RunIs
        <5>2. \A l \in Nat : (i <= l /\ l <= k) \/ (k <= l /\ l <= i) => (i <= l /\ l <= j) \/ (j <= l /\ l <= i)
          BY <2>1, <5>1
        <5> QED
          BY <2>1, <5>1, <5>2, RunIs
      <4>2. \A k \in Nat : (i <= k /\ k <= j) \/ (j <= k /\ k <= i) => k \in out
        BY <2>3, <4>1
      <4> QED
        BY <2>1, <2>3, <3>1, <4>2, RunIs
    <3>2. ASSUME NEW j \in RunOf(i, out) PROVE j \in RunOf(i, far)
      <4>1. j \in out /\ \A k \in Nat : (i <= k /\ k <= j) \/ (j <= k /\ k <= i) => k \in out
        BY <2>1, <3>2, RunIs
      <4> QED
        BY <2>1, <4>1, RunIs
    <3> QED
      BY <3>1, <3>2
  <2>5. Cardinality(RunOf(i, out)) \in Nat /\ RunOf(i, out) \subseteq dom
    <3>1. RunOf(i, out) \in SUBSET dom
      BY DEF RunOf
    <3> QED
      BY <1>1, <3>1, FS_Subset, FS_CardinalityType
  <2>6. ~(Cardinality(RunOf(i, out)) <= DeclarableGap)
    BY <2>1, <2>2, <2>4
  <2>7. i \in RunOf(i, out)
    <3>1. \A k \in Nat : (i <= k /\ k <= i) \/ (i <= k /\ k <= i) => k \in out
      BY <2>1
    <3> QED
      BY <2>1, <3>1, RunIs
  <2> PICK size \in Nat : size = Cardinality(RunOf(i, out))
    BY <2>5
  <2>8. size > DeclarableGap
    BY <2>6
  <2> QED
    BY <2>5, <2>7, <2>8
<1>5. KeptRuns = {RunOf(i, kept) : i \in kept}
      /\ Gaps = IF kept = {} THEN {} ELSE {RunOf(i, dom \ kept) : i \in dom \ kept}
  BY DEF KeptRuns, Gaps
<1>6. \A i \in dom : hunk[i] =>
        \E run \in KeptRuns : {j \in dom : j - i \in -ContextLines .. ContextLines} \subseteq run
  BY <1>3, <1>5
<1>7. \A gap \in Gaps : Cardinality(gap) > DeclarableGap
  BY <1>4, <1>5
<1>8. ASSUME NEW i \in dom, hunk[i] PROVE UNION (KeptRuns \cup Gaps) = dom
  <2>1. kept # {}
    BY <1>3, <1>8
  <2>2. \A run \in KeptRuns \cup Gaps : run \subseteq dom
    <3>1. \A m \in kept : RunOf(m, kept) \subseteq dom
      BY <1>1, <1>2
    <3>2. \A m \in dom \ kept : RunOf(m, dom \ kept) \subseteq dom
      BY <1>4
    <3>3. ASSUME NEW run \in KeptRuns PROVE run \subseteq dom
      <4>1. PICK m \in kept : run = RunOf(m, kept)
        BY <1>5, <3>3
      <4> QED
        BY <3>1, <4>1
    <3>4. ASSUME NEW gap \in Gaps PROVE gap \subseteq dom
      <4> PICK out : out = dom \ kept
        OBVIOUS
      <4>1. Gaps = {RunOf(m, out) : m \in out}
        BY <1>5, <2>1
      <4>2. PICK m \in out : gap = RunOf(m, out)
        BY <3>4, <4>1
      <4> QED
        BY <3>2, <4>2
    <3> QED
      BY <3>3, <3>4
  <2>3. \A j \in dom : \E run \in KeptRuns \cup Gaps : j \in run
    BY <1>2, <1>4, <1>5, <2>1
  <2> QED
    BY <2>2, <2>3
<1> QED
  BY <1>6, <1>7, <1>8 DEF EveryChangeIsShown

(***************************************************************************)
(* Whatever the hunk and the two lengths: every changed line is written in *)
(* one run with its context, what is left out is longer than it takes to   *)
(* declare it, and nothing is in neither (PromptDiff.cs).                  *)
(***************************************************************************)
THEOREM EveryChangeIsAlwaysShown == PromptSpec => []EveryChangeIsShown
<1>1. PromptTypeOK => EveryChangeIsShown
  BY HunkIsShown DEF PromptTypeOK
<1> QED
  BY <1>1, PromptTypes, PTL

------------------------------------------------------------------------------
LEMMA MinOfTwo ==
  ASSUME NEW a \in Nat, NEW b \in Nat
  PROVE  Min({a, b}) = IF a <= b THEN a ELSE b
<1> DEFINE S == {a, b}
<1>1. S \in SUBSET Nat /\ S # {} /\ a \in S /\ b \in S /\ \A x \in S : x = a \/ x = b
  OBVIOUS
<1> HIDE DEF S
<1>2. \E x \in S : \A y \in S : x <= y
  BY <1>1, LeastOfNats
<1>3. Min(S) \in S /\ \A y \in S : Min(S) <= y
  BY <1>2 DEF Min
<1> PICK m \in Nat : m = Min(S)
  BY <1>1, <1>3
<1>4. (m = a \/ m = b) /\ m <= a /\ m <= b
  BY <1>1, <1>3
<1> QED
  BY <1>4 DEF S

LEMMA Division ==
  ASSUME NEW r \in Nat, NEW w \in Nat \ {0}
  PROVE  \E q \in Nat : q = r \div w /\ q * w <= r /\ r <= q * w + w - 1
<1>1. r \div w \in Nat
  OBVIOUS
<1>2. (r \div w) * w <= r /\ r <= (r \div w) * w + w - 1
  OBVIOUS
<1> QED
  BY <1>1, <1>2

LEMMA Products ==
  ASSUME NEW a \in Nat, NEW b \in Nat, NEW w \in Nat, a <= b
  PROVE  a * w \in Nat /\ b * w \in Nat /\ a * w <= b * w
<1>1. PICK d \in Nat : b = a + d
  <2>1. b - a \in Nat /\ b = a + (b - a)
    OBVIOUS
  <2> QED
    BY <2>1
<1>2. (a + d) * w = a * w + d * w
  OBVIOUS
<1>3. a * w \in Nat /\ d * w \in Nat
  OBVIOUS
<1> QED
  BY <1>1, <1>2, <1>3

(* ------------------------------- the sum -------------------------------- *)

\* f[n] is the sum of the first n shares.
SumsOf(L, s, f) ==
  f \in [0 .. L -> Nat] /\ f[0] = 0 /\ \A n \in 1 .. L : f[n] = f[n - 1] + s[n]

LEMMA SumIs ==
  ASSUME NEW L \in Nat, NEW s \in [1 .. L -> Nat]
  PROVE  \E f : SumsOf(L, s, f) /\ SumOf(s) = f[L]
<1>1. s \in Seq(Nat) /\ Len(s) = L
  OBVIOUS
<1> DEFINE body(f, n) == IF n = 0 THEN 0 ELSE f[n - 1] + s[n]
           upTo == CHOOSE f : f = [n \in 0 .. Len(s) |-> body(f, n)]
<1>2. \E f : f = [n \in 0 .. L |-> body(f, n)]
  <2> DEFINE step == [n \in 1 .. L |-> [sum \in Nat |-> sum + s[n]]]
  <2>1. step \in [1 .. L -> [Nat -> Nat]]
    OBVIOUS
  <2>2. \A n \in 1 .. L : \A sum \in Nat : step[n][sum] = sum + s[n]
    OBVIOUS
  <2> HIDE DEF step
  <2>3. PICK f : FoldOf(Nat, L, 0, step, f)
    <3>1. 0 \in Nat
      OBVIOUS
    <3> QED
      BY <2>1, <3>1, FoldExists
  <2>4. f \in [0 .. L -> Nat] /\ f[0] = 0 /\ \A n \in 1 .. L : f[n] = step[n][f[n - 1]]
    BY <2>3 DEF FoldOf
  <2>5. \A n \in 0 .. L : f[n] = body(f, n)
    <3> SUFFICES ASSUME NEW n \in 0 .. L PROVE f[n] = body(f, n)
      OBVIOUS
    <3>1. CASE n = 0
      BY <3>1, <2>4
    <3>2. CASE n # 0
      <4>1. n \in 1 .. L /\ n - 1 \in 0 .. L
        BY <3>2
      <4> QED
        BY <3>2, <4>1, <2>2, <2>4
    <3> QED
      BY <3>1, <3>2
  <2> HIDE DEF body
  <2>6. f = [n \in 0 .. L |-> body(f, n)]
    BY <2>4, <2>5
  <2> QED
    BY <2>6
<1>3. upTo = [n \in 0 .. L |-> body(upTo, n)]
  <2> HIDE DEF body
  <2> QED
    BY <1>1, <1>2
<1>4. SumOf(s) = upTo[Len(s)]
  BY DEF SumOf
<1> HIDE DEF upTo
<1>5. upTo[0] = 0 /\ \A n \in 1 .. L : upTo[n] = upTo[n - 1] + s[n]
  <2>1. ASSUME NEW n \in 0 .. L PROVE upTo[n] = body(upTo, n)
    <3> HIDE DEF body
    <3> QED
      BY <1>3
  <2> QED
    BY <2>1
<1> DEFINE X == {n \in Nat : n <= L => upTo[n] \in Nat}
<1>6. 0 \in X
  BY <1>5
<1>7. ASSUME NEW n \in Nat, n \in X PROVE n + 1 \in X
  <2> SUFFICES ASSUME n + 1 <= L PROVE upTo[n + 1] \in Nat
    OBVIOUS
  <2>1. upTo[n] \in Nat /\ s[n + 1] \in Nat /\ upTo[n + 1] = upTo[n] + s[n + 1]
    BY <1>5, <1>7
  <2> QED
    BY <2>1
<1>8. \A n \in 0 .. L : upTo[n] \in Nat
  <2> HIDE DEF X
  <2>1. Nat \subseteq X
    BY <1>6, <1>7, NatSetInduction
  <2> QED
    BY <2>1 DEF X
<1>9. upTo \in [0 .. L -> Nat]
  <2> HIDE DEF body
  <2> QED
    BY <1>3, <1>8
<1>10. SumsOf(L, s, upTo)
  BY <1>5, <1>9 DEF SumsOf
<1> QED
  BY <1>1, <1>4, <1>10

Given(s, i, v) == [s EXCEPT ![i] = v]
GrowsBy(s, i, v) ==
  SumOf(s) \in Nat /\ SumOf(Given(s, i, v)) \in Nat /\ SumOf(Given(s, i, v)) = SumOf(s) + v

\* A file that had nothing is given v.
LEMMA SumGrows ==
  ASSUME NEW L \in Nat, NEW s \in [1 .. L -> Nat], NEW i \in 1 .. L, s[i] = 0, NEW v \in Nat
  PROVE  GrowsBy(s, i, v)
<1> PICK t : t = Given(s, i, v)
  OBVIOUS
<1>0. t = [s EXCEPT ![i] = v]
  BY DEF Given
<1>1. t \in [1 .. L -> Nat] /\ t[i] = v /\ \A j \in 1 .. L : j # i => t[j] = s[j]
  BY <1>0
<1>2. PICK f : SumsOf(L, s, f) /\ SumOf(s) = f[L]
  BY SumIs
<1>3. PICK g : SumsOf(L, t, g) /\ SumOf(t) = g[L]
  BY <1>1, SumIs
<1> DEFINE X == {n \in Nat : n <= L => g[n] = f[n] + IF n < i THEN 0 ELSE v}
<1>4. 0 \in X
  BY <1>2, <1>3 DEF SumsOf
<1>5. ASSUME NEW n \in Nat, n \in X PROVE n + 1 \in X
  <2> SUFFICES ASSUME n + 1 <= L PROVE g[n + 1] = f[n + 1] + IF n + 1 < i THEN 0 ELSE v
    OBVIOUS
  <2>1. n + 1 \in 1 .. L /\ n \in 0 .. L /\ (n + 1) - 1 = n
    OBVIOUS
  <2>2. f[n + 1] = f[n] + s[n + 1] /\ g[n + 1] = g[n] + t[n + 1]
    BY <1>2, <1>3, <2>1 DEF SumsOf
  <2>3. f[n] \in Nat /\ g[n] \in Nat /\ s[n + 1] \in Nat /\ t[n + 1] \in Nat
    BY <1>1, <1>2, <1>3, <2>1 DEF SumsOf
  <2>4. g[n] = f[n] + IF n < i THEN 0 ELSE v
    BY <1>5, <2>1
  <2>5. CASE n + 1 = i
    <3>1. n < i /\ t[n + 1] = v /\ s[n + 1] = 0
      BY <1>1, <2>5
    <3>2. g[n] = f[n]
      BY <2>3, <2>4, <3>1
    <3> QED
      BY <2>2, <2>3, <2>5, <3>1, <3>2
  <2>6. CASE n + 1 < i
    BY <1>1, <2>1, <2>2, <2>3, <2>4, <2>6
  <2>7. CASE n + 1 > i
    BY <1>1, <2>1, <2>2, <2>3, <2>4, <2>7
  <2> QED
    BY <2>5, <2>6, <2>7
<1>6. L \in X
  <2> HIDE DEF X
  <2> QED
    BY <1>4, <1>5, NatSetInduction
<1>7. f[L] \in Nat
  BY <1>2 DEF SumsOf
<1> QED
  BY <1>2, <1>3, <1>6, <1>7 DEF GrowsBy

LEMMA SumOfNothing ==
  ASSUME NEW L \in Nat, NEW s, s = [i \in 1 .. L |-> 0]
  PROVE  SumOf(s) = 0
<1>1. s \in [1 .. L -> Nat]
  OBVIOUS
<1>2. PICK f : SumsOf(L, s, f) /\ SumOf(s) = f[L]
  BY <1>1, SumIs
<1> DEFINE X == {n \in Nat : n <= L => f[n] = 0}
<1>3. 0 \in X
  BY <1>2 DEF SumsOf
<1>4. ASSUME NEW n \in Nat, n \in X PROVE n + 1 \in X
  <2> SUFFICES ASSUME n + 1 <= L PROVE f[n + 1] = 0
    OBVIOUS
  <2>1. n + 1 \in 1 .. L /\ (n + 1) - 1 = n
    OBVIOUS
  <2>2. f[n + 1] = f[n] + s[n + 1]
    BY <1>2, <2>1 DEF SumsOf
  <2> QED
    BY <1>4, <2>1, <2>2
<1>5. L \in X
  <2> HIDE DEF X
  <2> QED
    BY <1>3, <1>4, NatSetInduction
<1> QED
  BY <1>2, <1>5

(* ------------------------------ the sharing ------------------------------ *)

LEMMA CheapestIs ==
  ASSUME NEW list, NEW waiting \in SUBSET Nat, waiting # {}, \A i \in waiting : list[i] \in Nat
  PROVE  Cheapest(list, waiting) \in waiting /\ \A j \in waiting : list[Cheapest(list, waiting)] <= list[j]
<1> DEFINE lengths == {list[i] : i \in waiting}
<1>1. lengths \in SUBSET Nat /\ lengths # {}
  OBVIOUS
<1>2. PICK m \in lengths : \A l \in lengths : m <= l
  <2> HIDE DEF lengths
  <2> QED
    BY <1>1, LeastOfNats
<1>3. m \in Nat /\ \A j \in waiting : m <= list[j]
  BY <1>1, <1>2
<1> DEFINE cheapest == {i \in waiting : list[i] = m}
<1>4. cheapest \in SUBSET Nat /\ cheapest # {}
  BY <1>2
<1>5. PICK c \in cheapest : \A i \in cheapest : c <= i
  <2> HIDE DEF cheapest
  <2> QED
    BY <1>4, LeastOfNats
<1>6. c \in waiting /\ list[c] = m
  OBVIOUS
<1>7. ASSUME NEW j \in waiting PROVE list[c] < list[j] \/ (list[c] = list[j] /\ c <= j)
  <2>1. CASE list[j] = m
    BY <2>1, <1>5, <1>6
  <2>2. CASE list[j] # m
    <3>1. m <= list[j] /\ list[j] \in Nat
      BY <1>3
    <3> QED
      BY <2>2, <3>1, <1>3, <1>6
  <2> QED
    BY <2>1, <2>2
<1> DEFINE first(i) == \A j \in waiting : list[i] < list[j] \/ (list[i] = list[j] /\ i <= j)
<1>8. \E i \in waiting : first(i)
  BY <1>6, <1>7
<1>9. PICK i \in waiting : i = Cheapest(list, waiting) /\ first(i)
  <2>1. Cheapest(list, waiting) = CHOOSE i \in waiting : first(i)
    BY DEF Cheapest
  <2> HIDE DEF first
  <2> QED
    BY <1>8, <2>1
<1>10. \A j \in waiting : list[i] <= list[j]
  BY <1>9
<1> QED
  BY <1>9, <1>10

\* Nobody is cut so far, and those still waiting can each be given what any was ...
Plenty(list, done, w) ==
  \A i \in DOMAIN list \ done.waiting : done.shares[i] = list[i] /\ list[i] * w <= done.remaining
\* ... or some have been: from then on everyone gets s or, where the division leaves one, s + 1.
Scarce(list, done, w) ==
  \E s \in Nat :
    /\ s * w <= done.remaining /\ done.remaining <= (s + 1) * w
    /\ \A j \in done.waiting : s + 1 <= list[j]
    /\ \A i \in DOMAIN list \ done.waiting :
         done.shares[i] <= s + 1 /\ (done.shares[i] < list[i] => s <= done.shares[i])

Sharing(list, budget, done, w) ==
  /\ done = [shares |-> done.shares, remaining |-> done.remaining, waiting |-> done.waiting]
  /\ done.shares \in [DOMAIN list -> Nat] /\ done.remaining \in Nat
  /\ done.waiting \in SUBSET DOMAIN list /\ IsFiniteSet(done.waiting) /\ Cardinality(done.waiting) = w
  /\ \A i \in DOMAIN list : done.shares[i] <= list[i]
  /\ \A j \in done.waiting : done.shares[j] = 0
  /\ \A i \in DOMAIN list \ done.waiting, j \in done.waiting : list[i] <= list[j]
  /\ SumOf(done.shares) + done.remaining = budget
  /\ Plenty(list, done, w) \/ Scarce(list, done, w)

LEMMA SharingStarts ==
  ASSUME NEW list \in Seq(Nat), NEW budget \in Nat
  PROVE  Sharing(list, budget, Unshared(list, budget), Len(list))
<1> PICK L \in Nat : L = Len(list) /\ DOMAIN list = 1 .. L
  OBVIOUS
<1> PICK done : done = Unshared(list, budget)
  OBVIOUS
<1>1. /\ done.shares = [i \in 1 .. L |-> 0] /\ done.remaining = budget /\ done.waiting = 1 .. L
      /\ done = [shares |-> done.shares, remaining |-> done.remaining, waiting |-> done.waiting]
  BY DEF Unshared
<1>2. done.shares \in [1 .. L -> Nat] /\ \A i \in 1 .. L : done.shares[i] = 0
  BY <1>1
<1>3. IsFiniteSet(1 .. L) /\ Cardinality(1 .. L) = L
  <2>1. 1 \in Int /\ L \in Int
    OBVIOUS
  <2>2. IsFiniteSet(1 .. L) /\ Cardinality(1 .. L) = IF 1 > L THEN 0 ELSE L - 1 + 1
    BY <2>1, FS_Interval
  <2> QED
    BY <2>2
<1>4. SumOf(done.shares) = 0
  BY <1>1, SumOfNothing
<1>5. Plenty(list, done, L)
  BY <1>1 DEF Plenty
<1>6. \A i \in 1 .. L : list[i] \in Nat
  OBVIOUS
<1>7. \A i \in 1 .. L : done.shares[i] <= list[i]
  BY <1>2, <1>6
<1> QED
  BY <1>1, <1>2, <1>3, <1>4, <1>5, <1>7 DEF Sharing

LEMMA SharingGoesOn ==
  ASSUME NEW list \in Seq(Nat), NEW budget \in Nat, NEW done, NEW w \in Nat, Sharing(list, budget, done, w + 1)
  PROVE  Sharing(list, budget, Grant(done, list), w)
<1> PICK D : D = DOMAIN list /\ D \in SUBSET Nat
  OBVIOUS
<1> PICK L \in Nat : L = Len(list) /\ D = 1 .. L
  OBVIOUS
<1>0. \A i \in D : list[i] \in Nat
  OBVIOUS
<1> PICK W, S : W = done.waiting /\ S = done.shares
  OBVIOUS
<1> PICK R \in Nat : R = done.remaining
  BY DEF Sharing
<1>1. /\ S \in [D -> Nat] /\ R \in Nat /\ W \in SUBSET D /\ IsFiniteSet(W) /\ Cardinality(W) = w + 1
      /\ \A i \in D : S[i] <= list[i]
      /\ \A j \in W : S[j] = 0
      /\ \A i \in D \ W : \A j \in W : list[i] <= list[j]
      /\ SumOf(S) + R = budget
  BY DEF Sharing
<1>2. W # {}
  BY <1>1, FS_EmptySet
<1>3. PICK c : c = Cheapest(list, W) /\ c \in W /\ \A j \in W : list[c] <= list[j]
  <2>1. W \in SUBSET Nat /\ \A i \in W : list[i] \in Nat
    BY <1>0, <1>1
  <2> QED
    BY <1>2, <2>1, CheapestIs
<1>4. PICK q \in Nat : q = R \div (w + 1) /\ q * (w + 1) <= R /\ R <= q * (w + 1) + w
  <2>1. PICK v \in Nat \ {0} : v = w + 1
    OBVIOUS
  <2>2. PICK q \in Nat : q = R \div v /\ q * v <= R /\ R <= q * v + v - 1
    BY <1>1, Division
  <2> QED
    BY <2>1, <2>2
<1>40. PICK qw \in Nat : qw = q * w /\ qw + q <= R /\ R <= qw + q + w
  <2>1. q * (w + 1) = q * w + q /\ q * w \in Nat
    OBVIOUS
  <2> QED
    BY <1>4, <2>1
<1>41. qw + q <= R /\ R <= qw + q + w
  BY <1>40
<1>5. PICK l \in Nat : l = list[c] /\ c \in D
  BY <1>0, <1>1, <1>3
<1>6. PICK g \in Nat : g = Min({l, q}) /\ g = IF l <= q THEN l ELSE q
  <2>1. Min({l, q}) = IF l <= q THEN l ELSE q
    BY MinOfTwo
  <2> QED
    BY <2>1
<1> PICK next : next = Grant(done, list)
  OBVIOUS
<1>7. next = [shares |-> [S EXCEPT ![c] = g], remaining |-> R - g, waiting |-> W \ {c}]
  BY <1>1, <1>3, <1>4, <1>5, <1>6 DEF Grant
<1> PICK T, Q, V : T = [S EXCEPT ![c] = g] /\ Q = R - g /\ V = W \ {c}
  OBVIOUS
<1>8. next = [shares |-> T, remaining |-> Q, waiting |-> V]
  BY <1>7
<1>9. next.shares = T /\ next.remaining = Q /\ next.waiting = V
  BY <1>8
<1>10. T \in [D -> Nat] /\ T[c] = g /\ \A i \in D : i # c => T[i] = S[i]
  BY <1>1, <1>5
<1>11. q <= R /\ g <= q /\ g <= l /\ Q \in Nat /\ Q = R - g
  <2>1. q <= q * (w + 1)
    OBVIOUS
  <2>2. q <= R
    BY <2>1, <1>1, <1>4
  <2>3. g <= q /\ g <= l
    BY <1>6
  <2> QED
    BY <1>1, <2>2, <2>3
<1>12. V \in SUBSET D /\ IsFiniteSet(V) /\ Cardinality(V) = w
  <2>1. IsFiniteSet(W \ {c}) /\ Cardinality(W \ {c}) = Cardinality(W) - 1
    <3>1. IsFiniteSet(W)
      BY <1>1
    <3>2. /\ IsFiniteSet(W \ {c})
          /\ Cardinality(W \ {c}) = IF c \in W THEN Cardinality(W) - 1 ELSE Cardinality(W)
      BY <3>1, FS_RemoveElement
    <3> QED
      BY <3>2, <1>3
  <2>2. V \in SUBSET D /\ IsFiniteSet(V) /\ Cardinality(V) = Cardinality(W) - 1
    BY <1>1, <2>1
  <2> QED
    BY <1>1, <2>2
<1>13. \A i \in D : T[i] <= list[i]
  BY <1>1, <1>5, <1>10, <1>11
<1>14. \A j \in V : T[j] = 0
  BY <1>1, <1>10
<1>15. \A i \in D \ V : i = c \/ i \in D \ W
  OBVIOUS
<1>16. \A i \in D \ V : \A j \in V : list[i] <= list[j]
  BY <1>1, <1>3, <1>15
<1>17. SumOf(T) + Q = budget
  <2>1. S[c] = 0 /\ c \in 1 .. L /\ S \in [1 .. L -> Nat]
    BY <1>1, <1>3, <1>5
  <2>2. SumOf(S) \in Nat /\ SumOf(Given(S, c, g)) = SumOf(S) + g
    <3> PICK s \in [1 .. L -> Nat] : s = S
      BY <2>1
    <3> PICK i \in 1 .. L : i = c
      BY <2>1
    <3>1. s[i] = 0
      BY <2>1
    <3>2. GrowsBy(s, i, g)
      BY <3>1, SumGrows
    <3> QED
      BY <3>2 DEF GrowsBy
  <2>3. T = Given(S, c, g)
    BY DEF Given
  <2> QED
    <3>1. SumOf(S) + R = budget /\ SumOf(T) = SumOf(S) + g
      BY <1>1, <2>2, <2>3
    <3> PICK a \in Nat : a = SumOf(S)
      BY <2>2
    <3>2. a + R = budget /\ SumOf(T) = a + g
      BY <3>1
    <3> QED
      BY <3>2, <1>11
<1>18. Plenty(list, next, w) \/ Scarce(list, next, w)
  <2>1. CASE Plenty(list, done, w + 1) /\ l <= q
    <3>1. g = l
      BY <1>6, <2>1
    <3>2. PICK lw \in Nat : lw = l * w /\ lw <= qw
      BY <1>40, <2>1, Products
    <3>3. lw + l <= R /\ lw <= Q
      BY <1>41, <1>11, <2>1, <3>1, <3>2
    <3>4. ASSUME NEW i \in D \ V PROVE T[i] = list[i] /\ list[i] * w <= Q
      <4>1. CASE i = c
        BY <4>1, <1>5, <1>10, <3>1, <3>2, <3>3
      <4>2. CASE i \in D \ W
        <5>1. S[i] = list[i] /\ i # c /\ i \in D
          BY <2>1, <4>2, <1>3 DEF Plenty
        <5>2. PICK m \in Nat : m = list[i] /\ m <= l
          BY <1>0, <1>1, <1>3, <1>5, <4>2
        <5>3. PICK mw \in Nat : mw = m * w /\ mw <= lw
          BY <3>2, <5>2, Products
        <5>4. mw <= Q
          <6> PICK v \in Nat : v = Q
            BY <1>11
          <6>1. lw <= v /\ mw <= lw
            BY <3>3, <5>3
          <6>2. mw <= v
            BY <6>1
          <6> QED
            BY <6>2
        <5> QED
          BY <1>10, <5>1, <5>2, <5>3, <5>4
      <4> QED
        BY <4>1, <4>2, <1>15
    <3> QED
      BY <1>9, <3>4 DEF Plenty
  <2>2. CASE Plenty(list, done, w + 1) /\ ~(l <= q)
    <3>1. g = q /\ q + 1 <= l
      BY <1>6, <2>2
    <3>2. q * w <= Q /\ Q <= (q + 1) * w
      <4>1. (q + 1) * w = qw + w
        BY <1>40
      <4>2. qw <= Q /\ Q <= qw + w
        BY <1>40, <1>11, <3>1
      <4> QED
        BY <1>40, <4>1, <4>2
    <3>3. \A j \in V : q + 1 <= list[j]
      BY <1>0, <1>1, <1>3, <1>5, <3>1
    <3>4. ASSUME NEW i \in D \ V PROVE T[i] <= q + 1 /\ (T[i] < list[i] => q <= T[i])
      <4>1. CASE i = c
        BY <4>1, <1>10, <3>1
      <4>2. CASE i \in D \ W
        <5>1. S[i] = list[i] /\ list[i] * (w + 1) <= R /\ i # c /\ i \in D
          BY <2>2, <4>2, <1>3 DEF Plenty
        <5>2. PICK m \in Nat : m = list[i]
          BY <1>0, <4>2
        <5>3. m <= q
          <6> SUFFICES ASSUME m >= q + 1 PROVE FALSE
            OBVIOUS
          <6>1. (q + 1) * w = qw + w /\ m * (w + 1) = m * w + m
            BY <1>40
          <6>2. PICK mw \in Nat : mw = m * w /\ qw + w <= mw
            <7>1. PICK p \in Nat : p = q + 1
              OBVIOUS
            <7>2. p * w \in Nat /\ m * w \in Nat /\ p * w <= m * w
              BY <7>1, Products
            <7> QED
              BY <6>1, <7>1, <7>2
          <6>3. mw + m <= R
            BY <5>1, <5>2, <6>1, <6>2
          <6> QED
            BY <1>41, <6>2, <6>3
        <5> QED
          BY <1>10, <5>1, <5>2, <5>3
      <4> QED
        BY <4>1, <4>2, <1>15
    <3>5. Scarce(list, next, w)
      BY <1>9, <3>2, <3>3, <3>4 DEF Scarce
    <3> QED
      BY <3>5
  <2>3. CASE Scarce(list, done, w + 1)
    <3>1. PICK s \in Nat : /\ s * (w + 1) <= R /\ R <= (s + 1) * (w + 1)
                           /\ \A j \in W : s + 1 <= list[j]
                           /\ \A i \in D \ W : S[i] <= s + 1 /\ (S[i] < list[i] => s <= S[i])
      BY <2>3 DEF Scarce
    <3>0. PICK sw \in Nat : sw = s * w /\ sw + s <= R /\ R <= sw + w + s + 1
      <4>1. s * (w + 1) = s * w + s /\ s * w \in Nat
        OBVIOUS
      <4>2. (s + 1) * (w + 1) = s * (w + 1) + w + 1
        OBVIOUS
      <4> QED
        BY <3>1, <4>1, <4>2
    <3>02. sw + s <= R /\ R <= sw + w + s + 1
      BY <3>0
    <3>2. s + 1 <= l
      BY <1>3, <1>5, <3>1
    <3>3. s <= q
      <4> SUFFICES ASSUME q + 1 <= s PROVE FALSE
        OBVIOUS
      <4>1. (q + 1) * w = qw + w
        BY <1>40
      <4>2. PICK v \in Nat : v = s * w /\ qw + w <= v
        <5>1. PICK p \in Nat : p = q + 1
          OBVIOUS
        <5>2. p * w \in Nat /\ s * w \in Nat /\ p * w <= s * w
          BY <5>1, Products
        <5> QED
          BY <4>1, <5>1, <5>2
      <4>3. qw + w <= sw
        BY <3>0, <4>2
      <4> QED
        BY <1>41, <3>02, <4>3
    <3>4. q <= s + 1
      <4> SUFFICES ASSUME s + 2 <= q PROVE FALSE
        OBVIOUS
      <4>1. (s + 2) * w = s * w + w + w
        OBVIOUS
      <4>2. (s + 2) * w <= qw
        BY <1>40, Products
      <4>3. sw + w + w <= qw
        BY <3>0, <4>1, <4>2
      <4> QED
        BY <1>41, <3>02, <4>3
    <3>5. g = q
      BY <1>6, <3>2, <3>4
    <3>6. s * w <= Q /\ Q <= (s + 1) * w
      <4>1. (s + 1) * w = sw + w
        BY <3>0
      <4>2. CASE q = s
        <5>1. sw <= Q /\ Q <= sw + w
          BY <1>40, <1>11, <3>0, <3>5, <4>2
        <5> QED
          BY <3>0, <4>1, <5>1
      <4>3. CASE q = s + 1
        <5>1. qw = sw + w
          BY <1>40, <4>1, <4>3
        <5>2. sw <= Q /\ Q <= sw + w
          BY <1>40, <1>11, <3>0, <3>5, <4>3, <5>1
        <5> QED
          BY <3>0, <4>1, <5>2
      <4> QED
        BY <3>3, <3>4, <4>2, <4>3
    <3>7. \A j \in V : s + 1 <= list[j]
      BY <3>1
    <3>8. ASSUME NEW i \in D \ V PROVE T[i] <= s + 1 /\ (T[i] < list[i] => s <= T[i])
      <4>1. CASE i = c
        BY <4>1, <1>10, <3>3, <3>4, <3>5
      <4>2. CASE i \in D \ W
        BY <4>2, <1>3, <1>10, <3>1
      <4> QED
        BY <4>1, <4>2, <1>15
    <3>9. Scarce(list, next, w)
      BY <1>9, <3>6, <3>7, <3>8 DEF Scarce
    <3> QED
      BY <3>9
  <2> QED
    BY <2>1, <2>2, <2>3 DEF Sharing
<1> QED
  BY <1>8, <1>9, <1>10, <1>11, <1>12, <1>13, <1>14, <1>16, <1>17, <1>18 DEF Sharing

\* f[n] is where the sharing is once n files have had their share.
StepsOfShare(list, budget, f) ==
  f[0] = Unshared(list, budget) /\ \A n \in 1 .. Len(list) : f[n] = Grant(f[n - 1], list)

LEMMA ShareIs ==
  ASSUME NEW list \in Seq(Nat), NEW budget \in Nat
  PROVE  \E f : StepsOfShare(list, budget, f) /\ Share(list, budget) = f[Len(list)].shares
<1> PICK L \in Nat : L = Len(list)
  OBVIOUS
<1> DEFINE body(f, n) == IF n = 0 THEN Unshared(list, budget) ELSE Grant(f[n - 1], list)
           upTo == CHOOSE f : f = [n \in 0 .. Len(list) |-> body(f, n)]
<1>1. \E f : f = [n \in 0 .. L |-> body(f, n)]
  <2> DEFINE X == {m \in Nat : \E f : f = [n \in 0 .. m |-> body(f, n)]}
  <2>1. 0 \in X
    <3> DEFINE f == [n \in 0 .. 0 |-> Unshared(list, budget)]
    <3>1. \A n \in 0 .. 0 : f[n] = body(f, n)
      OBVIOUS
    <3>2. f = [n \in 0 .. 0 |-> f[n]]
      OBVIOUS
    <3> HIDE DEF f, body
    <3>3. f = [n \in 0 .. 0 |-> body(f, n)]
      BY <3>1, <3>2
    <3> QED
      BY <3>3
  <2>2. ASSUME NEW m \in Nat, m \in X PROVE m + 1 \in X
    <3>1. PICK f : f = [n \in 0 .. m |-> body(f, n)]
      BY <2>2
    <3> DEFINE g == [n \in 0 .. m + 1 |-> IF n = m + 1 THEN Grant(f[m], list) ELSE f[n]]
    <3>2. \A n \in 0 .. m : f[n] = body(f, n) /\ g[n] = f[n]
      <4> SUFFICES ASSUME NEW n \in 0 .. m PROVE f[n] = body(f, n) /\ g[n] = f[n]
        OBVIOUS
      <4>1. g[n] = f[n]
        OBVIOUS
      <4> HIDE DEF body, g
      <4> QED
        BY <3>1, <4>1
    <3>3. g[m + 1] = Grant(f[m], list) /\ g[m] = f[m]
      OBVIOUS
    <3>4. g = [n \in 0 .. m + 1 |-> g[n]]
      OBVIOUS
    <3> HIDE DEF g
    <3>5. \A n \in 0 .. m + 1 : g[n] = body(g, n)
      <4> SUFFICES ASSUME NEW n \in 0 .. m + 1 PROVE g[n] = body(g, n)
        OBVIOUS
      <4>1. CASE n = 0
        BY <4>1, <3>2
      <4>2. CASE n \in 1 .. m
        <5>1. n \in 0 .. m /\ n - 1 \in 0 .. m /\ n # 0
          BY <4>2
        <5>2. g[n] = f[n] /\ g[n - 1] = f[n - 1] /\ f[n] = Grant(f[n - 1], list)
          BY <3>2, <5>1
        <5> QED
          BY <5>1, <5>2
      <4>3. CASE n = m + 1
        BY <4>3, <3>3
      <4> QED
        BY <4>1, <4>2, <4>3
    <3> HIDE DEF body
    <3>6. g = [n \in 0 .. m + 1 |-> body(g, n)]
      BY <3>4, <3>5
    <3> QED
      BY <3>6
  <2> HIDE DEF X
  <2>3. L \in X
    BY <2>1, <2>2, NatSetInduction
  <2> QED
    BY <2>3 DEF X
<1>2. upTo = [n \in 0 .. L |-> body(upTo, n)]
  <2> HIDE DEF body
  <2> QED
    BY <1>1
<1>3. Share(list, budget) = upTo[Len(list)].shares
  BY DEF Share
<1> HIDE DEF upTo
<1>4. \A n \in 0 .. L : upTo[n] = body(upTo, n)
  <2> HIDE DEF body
  <2> QED
    BY <1>2
<1>5. StepsOfShare(list, budget, upTo)
  <2>1. upTo[0] = Unshared(list, budget)
    BY <1>4
  <2>2. ASSUME NEW n \in 1 .. L PROVE upTo[n] = Grant(upTo[n - 1], list)
    <3>1. n \in 0 .. L /\ n # 0
      OBVIOUS
    <3> QED
      BY <3>1, <1>4
  <2> QED
    BY <2>1, <2>2 DEF StepsOfShare
<1> QED
  BY <1>3, <1>5

LEMMA OneApart ==
  ASSUME NEW q \in Nat, NEW a \in Nat, NEW b \in Nat, q <= a, b <= q + 1
  PROVE  b <= a + 1
OBVIOUS

LEMMA SharingEnds ==
  ASSUME NEW list \in Seq(Nat), NEW budget \in Nat
  PROVE  FairlyShared(list, Share(list, budget), budget)
<1> PICK L \in Nat : L = Len(list) /\ DOMAIN list = 1 .. L
  OBVIOUS
<1>1. PICK f : StepsOfShare(list, budget, f) /\ Share(list, budget) = f[Len(list)].shares
  BY ShareIs
<1> DEFINE X == {n \in Nat : n <= L => Sharing(list, budget, f[n], L - n)}
<1>2. 0 \in X
  <2>1. Sharing(list, budget, Unshared(list, budget), Len(list))
    BY SharingStarts
  <2>2. L - 0 = Len(list) /\ f[0] = Unshared(list, budget)
    BY <1>1 DEF StepsOfShare
  <2> QED
    BY <2>1, <2>2
<1>3. ASSUME NEW n \in Nat, n \in X PROVE n + 1 \in X
  <2> SUFFICES ASSUME n + 1 <= L PROVE Sharing(list, budget, f[n + 1], L - (n + 1))
    OBVIOUS
  <2>1. PICK w \in Nat : w = L - (n + 1) /\ w + 1 = L - n
    <3>1. L - (n + 1) \in Nat /\ (L - (n + 1)) + 1 = L - n
      OBVIOUS
    <3> QED
      BY <3>1
  <2>2. Sharing(list, budget, f[n], w + 1)
    BY <1>3, <2>1
  <2>3. f[n + 1] = Grant(f[n], list)
    <3>1. n + 1 \in 1 .. Len(list) /\ (n + 1) - 1 = n
      OBVIOUS
    <3> QED
      BY <1>1, <3>1 DEF StepsOfShare
  <2>4. Sharing(list, budget, Grant(f[n], list), w)
    BY <2>2, SharingGoesOn
  <2> QED
    BY <2>1, <2>3, <2>4
<1>4. Sharing(list, budget, f[L], 0)
  <2>1. L \in X
    <3> HIDE DEF X
    <3> QED
      BY <1>2, <1>3, NatSetInduction
  <2>2. L - L = 0
    OBVIOUS
  <2> QED
    BY <2>1, <2>2
<1> PICK done : done = f[L] /\ Share(list, budget) = done.shares
  BY <1>1
<1> PICK s : s = done.shares
  OBVIOUS
<1> PICK R \in Nat : R = done.remaining
  BY <1>4 DEF Sharing
<1>5. done.waiting = {}
  <2>1. IsFiniteSet(done.waiting) /\ Cardinality(done.waiting) = 0
    BY <1>4 DEF Sharing
  <2> QED
    BY <2>1, FS_EmptySet
<1>6. /\ s \in [1 .. L -> Nat] /\ SumOf(s) + R = budget /\ \A i \in 1 .. L : s[i] <= list[i]
      /\ Plenty(list, done, 0) \/ Scarce(list, done, 0)
  BY <1>4 DEF Sharing
<1>7. SumOf(s) \in Nat
  <2>1. PICK sums : SumsOf(L, s, sums) /\ SumOf(s) = sums[L]
    BY <1>6, SumIs
  <2> QED
    BY <2>1 DEF SumsOf
<1> DEFINE cut == {i \in DOMAIN list : s[i] < list[i]}
<1>8. (\A i \in cut : \A j \in 1 .. L : s[j] <= s[i] + 1) /\ IF cut = {} THEN SumOf(s) <= budget ELSE SumOf(s) = budget
  <2>1. CASE Plenty(list, done, 0)
    <3>1. \A i \in 1 .. L : s[i] = list[i]
      BY <2>1, <1>5 DEF Plenty
    <3>2. cut = {}
      BY <1>6, <3>1
    <3> QED
      BY <1>6, <1>7, <3>2
  <2>2. CASE Scarce(list, done, 0)
    <3>1. PICK q \in Nat : /\ q * 0 <= R /\ R <= (q + 1) * 0
                           /\ \A i \in 1 .. L : s[i] <= q + 1 /\ (s[i] < list[i] => q <= s[i])
      BY <2>2, <1>5 DEF Scarce
    <3>2. R = 0
      BY <3>1
    <3>3. SumOf(s) = budget
      BY <1>6, <1>7, <3>2
    <3>4. \A i \in cut : \A j \in 1 .. L : s[j] <= s[i] + 1
      <4> SUFFICES ASSUME NEW i \in 1 .. L, s[i] < list[i], NEW j \in 1 .. L PROVE s[j] <= s[i] + 1
        OBVIOUS
      <4>1. q <= s[i] /\ s[j] <= q + 1 /\ s[i] \in Nat /\ s[j] \in Nat
        BY <1>6, <3>1
      <4> PICK a \in Nat, b \in Nat : a = s[i] /\ b = s[j]
        BY <4>1
      <4>2. q <= a /\ b <= q + 1
        BY <4>1
      <4>3. b <= a + 1
        BY <4>2, OneApart
      <4> QED
        BY <4>3
    <3> QED
      BY <3>3, <3>4
  <2> QED
    BY <1>6, <2>1, <2>2
<1> QED
  BY <1>6, <1>8 DEF FairlyShared

(***************************************************************************)
(* Whatever the files and the budget: no file gets more than it needs, one *)
(* that is cut gets as much as any other but for what a division leaves,   *)
(* and then the budget is spent to the last character (PromptDiff.cs,      *)
(* Share).                                                                 *)
(***************************************************************************)
THEOREM TheBudgetIsAlwaysShared == PromptSpec => []TheBudgetIsShared
<1>1. PromptTypeOK => TheBudgetIsShared
  <2> SUFFICES ASSUME PromptTypeOK, NEW budget \in Budgets
               PROVE  FairlyShared(costs, Share(costs, budget), budget)
    BY DEF TheBudgetIsShared
  <2>1. budget \in Nat
    BY PromptConstants
  <2>2. costs \in Seq(Nat)
    <3>1. Lengths \subseteq Nat /\ costs \in Seq(Lengths)
      BY PromptConstants DEF PromptTypeOK
    <3>2. PICK n \in Nat : costs \in [1 .. n -> Lengths]
      BY <3>1, SeqDef
    <3>3. costs \in [1 .. n -> Nat]
      BY <3>1, <3>2
    <3> QED
      BY <3>3, SeqDef
  <2> QED
    BY <2>1, <2>2, SharingEnds
<1> QED
  BY <1>1, PromptTypes, PTL

------------------------------------------------------------------------------
(* Of Migrations.                                                          *)

BeforeUp == {"add column"}
AfterBackfill == {"refresh"} \cup BeforeUp
AfterStandards == {"backfill"} \cup AfterBackfill
AfterFiles == {"insert standards", "drop standards"} \cup AfterStandards
AfterContexts == {"insert files", "drop files"} \cup AfterFiles
AfterGlobals == {"add home", "fill home", "delete homeless", "drop project"} \cup AfterContexts
AfterCopy == {"globals"} \cup AfterGlobals
AfterSchema == {"finish"} \cup AfterCopy

Rows == [id : RootTables \cup {"globals", "gone", "context", "file"}, home : Workspaces \cup {NoHome}]
Old(i) == shape[Roots[i]] = "old"
SetAside(i) == legacy[Roots[i]] # NoTable

\* The roots are moved aside in order, all of them or no launch gets past the schema.
RootsInv ==
  /\ shape \in [RootTables -> {"none", "old", "new"}] /\ root \in 0 .. 3
  /\ stored \in [RootTables -> SUBSET Rows] /\ workspaces \in Seq(Workspaces)
  /\ DOMAIN legacy = RootTables /\ legacy = [t \in RootTables |-> legacy[t]]
  /\ \A t \in RootTables : legacy[t] = NoTable \/ legacy[t] \subseteq Rows
  /\ \A i, j \in 1 .. 4 : i < j /\ Old(i) => Old(j)
  /\ \A i, j \in 1 .. 4 : i < j /\ SetAside(j) => SetAside(i)
  /\ \A i \in 1 .. 4 : Old(i) => stored[Roots[i]] = OldRows(Roots[i])
  /\ Old(1) => \A i \in 1 .. 4 : ~SetAside(i)
  /\ launch = "rename" =>
       /\ \A i \in 1 .. root : ~Old(i) /\ SetAside(i)
       /\ \A i \in root + 1 .. 4 : Old(i) /\ ~SetAside(i)
  /\ launch = "schema" => \A i \in 1 .. root : shape[Roots[i]] # "none"
  /\ launch \in AfterSchema => \A t \in RootTables : shape[t] = "new"
  /\ launch \in AfterCopy /\ workspaces # <<>> => \A t \in RootTables : legacy[t] = NoTable
  /\ launch \in AfterGlobals => WithoutGlobals = {}

\* A file is inserted before its table is dropped.
ContextsInv ==
  /\ contexts \in [columns : SUBSET {"project", "workspace"}, rows : SUBSET Rows]
  /\ launch \in {"finish", "globals", "add home"} => contexts.columns # {}
  /\ launch \in {"fill home", "delete homeless", "drop project"} => contexts.columns = {"project", "workspace"}
  /\ launch \in AfterContexts => contexts.columns = {"workspace"}
  /\ files # NoTable =>
       /\ files \subseteq Rows
       /\ \A a, b \in files : a.id = b.id => a = b
       /\ \A a \in files, b \in contexts.rows : a.id = b.id => a = b
  /\ launch = "drop files" => files # NoTable /\ files \subseteq contexts.rows
  /\ launch \in AfterFiles => files = NoTable

\* The user's own standards are taken over before the defaults are filled in.
PromptsInv ==
  /\ workspaces \in Seq(Workspaces)
  /\ prompts \in [Workspaces -> {"none", "former", "default", "edited"}]
  /\ standards # NoTable =>
       standards \subseteq AllWorkspaces /\ \A w \in standards : prompts[w] \in {"none", "edited"}
  /\ launch = "drop standards" => standards # NoTable /\ \A w \in standards : prompts[w] = "edited"
  /\ launch \in AfterStandards \cup {"up"} => standards = NoTable
  /\ \A w \in Workspaces : prompts[w] = "edited" => w \in AllWorkspaces
  /\ launch \in AfterBackfill => \A w \in AllWorkspaces : prompts[w] # "none"
  /\ launch \in BeforeUp => \A w \in AllWorkspaces : prompts[w] \in {"default", "edited"}

LaunchInv == RootsInv /\ ContextsInv /\ PromptsInv

LEMMA RootNames ==
  /\ DOMAIN Roots = 1 .. 4 /\ Len(Roots) = 4 /\ Roots[1] = "collections"
  /\ RootTables = {Roots[i] : i \in 1 .. 4}
  /\ \A i, j \in 1 .. 4 : Roots[i] = Roots[j] => i = j
  /\ Roots[2] = "environments" /\ Roots[3] \in Indexed /\ Roots[4] \in Indexed
  /\ Roots[3] = "history" /\ Roots[4] = "cookies"
<1>1. /\ Roots = <<"collections", "environments", "history", "cookies">>
      /\ DOMAIN Roots = 1 .. 4 /\ Len(Roots) = 4
  BY DEF Roots
<1>2. /\ Roots[1] = "collections" /\ Roots[2] = "environments"
      /\ Roots[3] = "history" /\ Roots[4] = "cookies"
  BY DEF Roots
<1>3. \A i \in 1 .. 4 : i = 1 \/ i = 2 \/ i = 3 \/ i = 4
  OBVIOUS
<1>4. \A i, j \in 1 .. 4 : Roots[i] = Roots[j] => i = j
  BY <1>2, <1>3
<1>5. RootTables = {Roots[i] : i \in 1 .. 4}
  BY <1>1 DEF RootTables
<1>6. Roots[3] \in Indexed /\ Roots[4] \in Indexed
  BY <1>2 DEF Indexed
<1> QED  BY <1>1, <1>2, <1>4, <1>5, <1>6

LEMMA Order ==
  /\ After("globals") = "add home" /\ After("add home") = "fill home"
  /\ After("fill home") = "delete homeless" /\ After("delete homeless") = "drop project"
  /\ After("drop project") = "insert files" /\ After("insert files") = "drop files"
  /\ After("drop files") = "insert standards" /\ After("insert standards") = "drop standards"
  /\ After("drop standards") = "backfill" /\ After("backfill") = "refresh"
  /\ After("refresh") = "add column" /\ After("add column") = "up"
<1>1. /\ DOMAIN Steps = 1 .. 13
      /\ Steps[1] = "globals" /\ Steps[2] = "add home" /\ Steps[3] = "fill home"
      /\ Steps[4] = "delete homeless" /\ Steps[5] = "drop project" /\ Steps[6] = "insert files"
      /\ Steps[7] = "drop files" /\ Steps[8] = "insert standards" /\ Steps[9] = "drop standards"
      /\ Steps[10] = "backfill" /\ Steps[11] = "refresh" /\ Steps[12] = "add column" /\ Steps[13] = "up"
  BY DEF Steps
<1>2. \A i \in 1 .. 13 : \/ i = 1 \/ i = 2 \/ i = 3 \/ i = 4 \/ i = 5 \/ i = 6 \/ i = 7
                         \/ i = 8 \/ i = 9 \/ i = 10 \/ i = 11 \/ i = 12 \/ i = 13
  OBVIOUS
<1>3. ASSUME NEW i \in 1 .. 12, \A j \in 1 .. 13 : Steps[j] = Steps[i] => j = i
      PROVE  After(Steps[i]) = Steps[1 + i]
  <2>0. i \in 1 .. 13
    OBVIOUS
  <2>1. i \in DOMAIN Steps /\ \A j \in DOMAIN Steps : Steps[j] = Steps[i] => j = i
    BY <1>1, <1>3, <2>0, Zenon
  <2>2. (CHOOSE j \in DOMAIN Steps : Steps[j] = Steps[i]) = i
    BY <2>1
  <2> QED  BY <2>2 DEF After
<1>4. \A i \in 1 .. 12 : (\A j \in 1 .. 13 : Steps[j] = Steps[i] => j = i) => After(Steps[i]) = Steps[1 + i]
  BY <1>3
<1>5. After("globals") = "add home"
  <2>1. \A j \in 1 .. 13 : Steps[j] = Steps[1] => j = 1
    BY <1>1, <1>2
  <2>2. After(Steps[1]) = Steps[1 + 1] /\ 1 + 1 = 2
    BY <1>4, <2>1
  <2> QED  BY <1>1, <2>2
<1>6. After("add home") = "fill home"
  <2>1. \A j \in 1 .. 13 : Steps[j] = Steps[2] => j = 2
    BY <1>1, <1>2
  <2>2. After(Steps[2]) = Steps[1 + 2] /\ 1 + 2 = 3
    BY <1>4, <2>1
  <2> QED  BY <1>1, <2>2
<1>7. After("fill home") = "delete homeless"
  <2>1. \A j \in 1 .. 13 : Steps[j] = Steps[3] => j = 3
    BY <1>1, <1>2
  <2>2. After(Steps[3]) = Steps[1 + 3] /\ 1 + 3 = 4
    BY <1>4, <2>1
  <2> QED  BY <1>1, <2>2
<1>8. After("delete homeless") = "drop project"
  <2>1. \A j \in 1 .. 13 : Steps[j] = Steps[4] => j = 4
    BY <1>1, <1>2
  <2>2. After(Steps[4]) = Steps[1 + 4] /\ 1 + 4 = 5
    BY <1>4, <2>1
  <2> QED  BY <1>1, <2>2
<1>9. After("drop project") = "insert files"
  <2>1. \A j \in 1 .. 13 : Steps[j] = Steps[5] => j = 5
    BY <1>1, <1>2
  <2>2. After(Steps[5]) = Steps[1 + 5] /\ 1 + 5 = 6
    BY <1>4, <2>1
  <2> QED  BY <1>1, <2>2
<1>10. After("insert files") = "drop files"
  <2>1. \A j \in 1 .. 13 : Steps[j] = Steps[6] => j = 6
    BY <1>1, <1>2
  <2>2. After(Steps[6]) = Steps[1 + 6] /\ 1 + 6 = 7
    BY <1>4, <2>1
  <2> QED  BY <1>1, <2>2
<1>11. After("drop files") = "insert standards"
  <2>1. \A j \in 1 .. 13 : Steps[j] = Steps[7] => j = 7
    BY <1>1, <1>2
  <2>2. After(Steps[7]) = Steps[1 + 7] /\ 1 + 7 = 8
    BY <1>4, <2>1
  <2> QED  BY <1>1, <2>2
<1>12. After("insert standards") = "drop standards"
  <2>1. \A j \in 1 .. 13 : Steps[j] = Steps[8] => j = 8
    BY <1>1, <1>2
  <2>2. After(Steps[8]) = Steps[1 + 8] /\ 1 + 8 = 9
    BY <1>4, <2>1
  <2> QED  BY <1>1, <2>2
<1>13. After("drop standards") = "backfill"
  <2>1. \A j \in 1 .. 13 : Steps[j] = Steps[9] => j = 9
    BY <1>1, <1>2
  <2>2. After(Steps[9]) = Steps[1 + 9] /\ 1 + 9 = 10
    BY <1>4, <2>1
  <2> QED  BY <1>1, <2>2
<1>14. After("backfill") = "refresh"
  <2>1. \A j \in 1 .. 13 : Steps[j] = Steps[10] => j = 10
    BY <1>1, <1>2
  <2>2. After(Steps[10]) = Steps[1 + 10] /\ 1 + 10 = 11
    BY <1>4, <2>1
  <2> QED  BY <1>1, <2>2
<1>15. After("refresh") = "add column"
  <2>1. \A j \in 1 .. 13 : Steps[j] = Steps[11] => j = 11
    BY <1>1, <1>2
  <2>2. After(Steps[11]) = Steps[1 + 11] /\ 1 + 11 = 12
    BY <1>4, <2>1
  <2> QED  BY <1>1, <2>2
<1>16. After("add column") = "up"
  <2>1. \A j \in 1 .. 13 : Steps[j] = Steps[12] => j = 12
    BY <1>1, <1>2
  <2>2. After(Steps[12]) = Steps[1 + 12] /\ 1 + 12 = 13
    BY <1>4, <2>1
  <2> QED  BY <1>1, <2>2
<1> QED  BY <1>5, <1>6, <1>7, <1>8, <1>9, <1>10, <1>11, <1>12, <1>13, <1>14, <1>15, <1>16

(* ------------------------------- the roots ------------------------------- *)

LEMMA OldRowsAreRows ==
  ASSUME NEW t \in RootTables
  PROVE  OldRows(t) \in SUBSET Rows
<1>1. \A id \in RootTables \cup {"globals"} : Row(id, NoHome) \in Rows
  BY DEF Row, Rows
<1> QED  BY <1>1 DEF OldRows

LEMMA RootsBegin == MigrationInit => RootsInv
<1> SUFFICES ASSUME MigrationInit PROVE RootsInv
  OBVIOUS
<1>1. PICK age \in {"none", "old"} :
        /\ shape = [t \in RootTables |-> age]
        /\ stored = [t \in RootTables |-> IF age = "old" THEN OldRows(t) ELSE {}]
  BY DEF MigrationInit
<1>2. workspaces \in Seq(Workspaces)
  <2>1. workspaces = <<>> \/ \E w \in Workspaces : workspaces = <<w>>
    BY DEF MigrationInit
  <2>2. <<>> \in Seq(Workspaces) /\ \A w \in Workspaces : <<w>> \in Seq(Workspaces)
    OBVIOUS
  <2> QED  BY <2>1, <2>2
<1>3. stored \in [RootTables -> SUBSET Rows]
  BY <1>1, OldRowsAreRows
<1>4. legacy = [t \in RootTables |-> NoTable] /\ launch = "down" /\ root = 0
  BY DEF MigrationInit
<1>5. \A i \in 1 .. 4 : Roots[i] \in RootTables
  BY RootNames
<1>6. \A i \in 1 .. 4 : ~SetAside(i) /\ (Old(i) <=> age = "old")
  BY <1>1, <1>4, <1>5 DEF SetAside, Old
<1>7. \A i \in 1 .. 4 : Old(i) => stored[Roots[i]] = OldRows(Roots[i])
  BY <1>1, <1>5, <1>6
<1>8. shape \in [RootTables -> {"none", "old", "new"}]
  BY <1>1
<1> QED  BY <1>2, <1>3, <1>4, <1>6, <1>7, <1>8 DEF RootsInv, AfterSchema, AfterCopy, AfterGlobals,
         AfterContexts, AfterFiles, AfterStandards, AfterBackfill, BeforeUp

(* The statements that touch no root, and the application.                 *)
LEMMA RootsAlone ==
  ASSUME RootsInv, UNCHANGED <<shape, stored, legacy>>, root' \in 0 .. 3,
         workspaces' \in Seq(Workspaces),
         \/ launch' \in {"down", "failed", "up"}
         \/ launch \in AfterGlobals /\ launch' \in AfterGlobals /\ workspaces' = workspaces
  PROVE  RootsInv'
<1>1. \A i : Old(i)' = Old(i) /\ SetAside(i)' = SetAside(i)
  BY DEF Old, SetAside
<1>2. workspaces' = workspaces => WithoutGlobals' = WithoutGlobals
  BY DEF WithoutGlobals, AllWorkspaces
<1>3. CASE launch' \in {"down", "failed", "up"}
  BY <1>1, <1>3 DEF RootsInv, AfterSchema, AfterCopy, AfterGlobals,
         AfterContexts, AfterFiles, AfterStandards, AfterBackfill, BeforeUp
<1>4. CASE launch \in AfterGlobals /\ launch' \in AfterGlobals /\ workspaces' = workspaces
  <2>1. AfterGlobals \subseteq AfterCopy /\ AfterCopy \subseteq AfterSchema
        /\ "rename" \notin AfterGlobals /\ "schema" \notin AfterGlobals
    BY DEF AfterSchema, AfterCopy, AfterGlobals, AfterContexts, AfterFiles, AfterStandards, AfterBackfill, BeforeUp
  <2> QED  BY <1>1, <1>2, <1>4, <2>1 DEF RootsInv
<1> QED  BY <1>3, <1>4

LEMMA RootsOpen == ASSUME RootsInv, Open PROVE RootsInv'
<1>1. UNCHANGED <<shape, stored, legacy, workspaces>> /\ root' = 0
  BY DEF Open, databaseVars
<1>2. \A i : Old(i)' = Old(i) /\ SetAside(i)' = SetAside(i)
  BY <1>1 DEF Old, SetAside
<1>3. launch' \in {"rename", "schema"} /\ (launch' = "rename" => Old(1))
  BY RootNames DEF Open, Old
<1>4. launch' \notin AfterSchema
  BY <1>3 DEF AfterSchema, AfterCopy, AfterGlobals, AfterContexts, AfterFiles, AfterStandards, AfterBackfill, BeforeUp
<1>5. launch' \notin AfterCopy /\ launch' \notin AfterGlobals
  BY <1>4 DEF AfterSchema, AfterCopy
<1>6. Old(1) => \A i \in 1 .. 4 : Old(i) /\ ~SetAside(i)
  BY DEF RootsInv
<1> QED  BY <1>1, <1>2, <1>3, <1>4, <1>5, <1>6 DEF RootsInv

LEMMA RootsRename ==
  ASSUME RootsInv, RenameRoot
  PROVE  RootsInv' /\ \A t \in RootTables : Kept(t) \subseteq Kept(t)'
<1> PICK n \in 1 .. 4 : n = root + 1
  BY DEF RootsInv
<1> DEFINE t == Roots[n]
<1>1. n = root + 1 /\ n \in 1 .. 4 /\ t \in RootTables /\ root \in 0 .. 3
  BY RootNames DEF RootsInv
<1>2. /\ root' = (root + 1) % 4
      /\ launch' = IF root' = 0 THEN "schema" ELSE "rename"
      /\ shape' = [shape EXCEPT ![t] = "none"] /\ stored' = [stored EXCEPT ![t] = {}]
      /\ legacy' = [legacy EXCEPT ![t] = stored[t]]
      /\ workspaces' = workspaces /\ launch = "rename"
  BY RootNames DEF RenameRoot
<1>3. (\A i \in 1 .. root : ~Old(i) /\ SetAside(i)) /\ \A i \in n .. 4 : Old(i) /\ ~SetAside(i)
  BY <1>2 DEF RootsInv
<1>4. Old(n) /\ ~SetAside(n) /\ stored[t] = OldRows(t)
  BY <1>1, <1>3 DEF RootsInv
<1>5. stored[t] # NoTable /\ stored[t] \in SUBSET Rows
  BY <1>1, <1>4, OldRowsAreRows, MigrationConstants
<1>6. /\ shape \in [RootTables -> {"none", "old", "new"}]
      /\ stored \in [RootTables -> SUBSET Rows]
      /\ DOMAIN legacy = RootTables /\ legacy = [u \in RootTables |-> legacy[u]]
  BY DEF RootsInv
<1>7. /\ shape'[t] = "none" /\ \A u \in RootTables \ {t} : shape'[u] = shape[u]
      /\ shape' \in [RootTables -> {"none", "old", "new"}]
  BY <1>1, <1>2, <1>6
<1>8. /\ stored'[t] = {} /\ \A u \in RootTables \ {t} : stored'[u] = stored[u]
      /\ stored' \in [RootTables -> SUBSET Rows]
  BY <1>1, <1>2, <1>6
<1>9. /\ legacy'[t] = stored[t] /\ \A u \in RootTables \ {t} : legacy'[u] = legacy[u]
      /\ DOMAIN legacy' = RootTables /\ legacy' = [u \in RootTables |-> legacy'[u]]
  BY <1>1, <1>2, <1>6
<1>10. \A i \in 1 .. 4 : Roots[i] \in RootTables /\ (i # n => Roots[i] # t)
  BY <1>1, RootNames
<1>11. \A i \in 1 .. 4 : i # n => Old(i)' = Old(i) /\ SetAside(i)' = SetAside(i)
  BY <1>7, <1>9, <1>10 DEF Old, SetAside
<1>12. ~Old(n)' /\ SetAside(n)'
  BY <1>5, <1>7, <1>9 DEF Old, SetAside
<1> HIDE DEF t
<1>13. \A i \in 1 .. n : ~Old(i)' /\ SetAside(i)'
  BY <1>1, <1>3, <1>11, <1>12
<1>14. \A i \in n + 1 .. 4 : Old(i)' /\ ~SetAside(i)'
  BY <1>1, <1>3, <1>11
<1>15. /\ \A i, j \in 1 .. 4 : i < j /\ Old(i)' => Old(j)'
       /\ \A i, j \in 1 .. 4 : i < j /\ SetAside(j)' => SetAside(i)'
       /\ ~Old(1)'
  BY <1>1, <1>13, <1>14
<1>16. \A i \in 1 .. 4 : Old(i)' => stored'[Roots[i]] = OldRows(Roots[i])
  BY <1>1, <1>8, <1>10, <1>11, <1>12 DEF RootsInv
<1>17. \A u \in RootTables : legacy'[u] = NoTable \/ legacy'[u] \subseteq Rows
  BY <1>1, <1>5, <1>9 DEF RootsInv
<1>18. root' \in 0 .. 3 /\ ((launch' = "rename" /\ root' = n) \/ (launch' = "schema" /\ root' = 0))
  BY <1>1, <1>2
<1>19. launch' \notin AfterSchema /\ launch' \notin AfterCopy /\ launch' \notin AfterGlobals
  BY <1>18 DEF AfterSchema, AfterCopy, AfterGlobals, AfterContexts, AfterFiles, AfterStandards, AfterBackfill, BeforeUp
<1>20. workspaces' \in Seq(Workspaces)
  BY <1>2 DEF RootsInv
<1>21. (launch' = "rename" => (\A i \in 1 .. root' : ~Old(i)' /\ SetAside(i)') /\ \A i \in root' + 1 .. 4 : Old(i)' /\ ~SetAside(i)')
       /\ (launch' = "schema" => \A i \in 1 .. root' : shape'[Roots[i]] # "none")
  <2>1. CASE launch' = "rename" /\ root' = n
    BY <1>13, <1>14, <2>1
  <2>2. CASE launch' = "schema" /\ root' = 0
    BY <2>2
  <2> QED  BY <1>18, <2>1, <2>2
<1>22. RootsInv'
  BY <1>7, <1>8, <1>9, <1>15, <1>16, <1>17, <1>18, <1>19, <1>20, <1>21 DEF RootsInv
<1>23. Kept(t) \subseteq Kept(t)'
  BY <1>4, <1>5, <1>9 DEF Kept, SetAside, t
<1>24. \A u \in RootTables \ {t} : Kept(u)' = Kept(u)
  BY <1>8, <1>9 DEF Kept
<1> QED  BY <1>22, <1>23, <1>24

LEMMA RootsCreate == ASSUME RootsInv, CreateRoot PROVE RootsInv'
<1> PICK n \in 1 .. 4 : n = root + 1
  BY DEF RootsInv
<1> DEFINE t == Roots[n]
<1>1. n = root + 1 /\ t \in RootTables /\ root \in 0 .. 3
  BY RootNames DEF RootsInv
<1>2. /\ launch = "schema" /\ ~(shape[t] = "old" /\ t \in Indexed)
      /\ root' = (root + 1) % 4 /\ launch' = IF root' = 0 THEN "finish" ELSE "schema"
      /\ shape' = [shape EXCEPT ![t] = IF @ = "none" THEN "new" ELSE @]
      /\ UNCHANGED <<stored, legacy, workspaces>>
  BY RootNames DEF CreateRoot
<1>3. shape \in [RootTables -> {"none", "old", "new"}]
  BY DEF RootsInv
<1>4. /\ shape'[t] = IF shape[t] = "none" THEN "new" ELSE shape[t]
      /\ \A u \in RootTables \ {t} : shape'[u] = shape[u]
      /\ shape' \in [RootTables -> {"none", "old", "new"}]
  BY <1>1, <1>2, <1>3
<1>5. \A i \in 1 .. 4 : Roots[i] \in RootTables /\ (i # n => Roots[i] # t)
  BY <1>1, RootNames
<1> HIDE DEF t
<1>6. \A u \in RootTables : (shape'[u] = "old" <=> shape[u] = "old") /\ (shape[u] # "none" => shape'[u] # "none")
  BY <1>4
<1>7. \A i \in 1 .. 4 : Old(i)' = Old(i) /\ SetAside(i)' = SetAside(i)
  BY <1>2, <1>5, <1>6 DEF Old, SetAside
<1>8. \A i \in 1 .. root : shape[Roots[i]] # "none"
  BY <1>2 DEF RootsInv
<1>9. \A i \in 1 .. n : shape'[Roots[i]] # "none"
  <2>1. shape'[Roots[n]] # "none"
    BY <1>3, <1>4 DEF t
  <2>2. \A i \in 1 .. root : i \in 1 .. 4 /\ shape'[Roots[i]] # "none"
    BY <1>1, <1>5, <1>6, <1>8
  <2> QED  BY <1>1, <2>1, <2>2
<1>10. root' \in 0 .. 3 /\ ((launch' = "schema" /\ root' = n) \/ (launch' = "finish" /\ root' = 0 /\ n = 4))
  BY <1>1, <1>2
<1>11. launch' = "finish" => \A u \in RootTables : shape'[u] = "new"
  <2> SUFFICES ASSUME launch' = "finish", NEW i \in 1 .. 4 PROVE shape'[Roots[i]] = "new"
    BY RootNames
  <2>1. n = 4
    BY <1>10
  <2>2. ~Old(4)
    BY <1>2, <2>1, RootNames DEF Old, t
  <2>3. ~Old(i)
    BY <2>2 DEF RootsInv
  <2> QED  BY <1>4, <1>5, <1>7, <1>9, <2>1, <2>3 DEF Old
<1>12. launch' # "rename" /\ launch' \notin AfterCopy /\ launch' \notin AfterGlobals
       /\ (launch' \in AfterSchema => launch' = "finish")
  BY <1>10 DEF AfterSchema, AfterCopy, AfterGlobals, AfterContexts, AfterFiles, AfterStandards, AfterBackfill, BeforeUp
<1>13. launch' = "schema" => \A i \in 1 .. root' : shape'[Roots[i]] # "none"
  BY <1>9, <1>10
<1> QED  BY <1>2, <1>4, <1>7, <1>10, <1>11, <1>12, <1>13 DEF RootsInv

LEMMA CopiedRows ==
  ASSUME RootsInv, workspaces # <<>>, NEW t \in RootTables, legacy[t] # NoTable
  PROVE  Copied(t) \in SUBSET Rows
<1>1. workspaces[1] \in Workspaces
  BY DEF RootsInv
<1>2. \A id \in Ids(legacy[t]) : Row(id, workspaces[1]) \in Rows
  BY <1>1 DEF RootsInv, Ids, Row, Rows
<1> QED  BY <1>2 DEF Copied

LEMMA RootsCopy ==
  ASSUME RootsInv, CopyLegacyApiTables
  PROVE  RootsInv' /\ \A t \in RootTables : Kept(t) \ {"globals"} \subseteq Kept(t)'
<1>1. /\ launch = "finish" /\ workspaces # <<>> /\ \A t \in RootTables : legacy[t] # NoTable
      /\ stored' = [t \in RootTables |-> stored[t] \cup Copied(t)]
      /\ legacy' = [t \in RootTables |-> NoTable] /\ launch' = "globals"
      /\ UNCHANGED <<root, shape, workspaces>>
  BY DEF CopyLegacyApiTables
<1>2. \A t \in RootTables : shape[t] = "new"
  BY <1>1 DEF RootsInv, AfterSchema
<1>3. stored' \in [RootTables -> SUBSET Rows]
  BY <1>1, CopiedRows DEF RootsInv
<1>4. \A i \in 1 .. 4 : ~Old(i)' /\ ~SetAside(i)'
  BY <1>1, <1>2, RootNames DEF Old, SetAside
<1>5. launch' \notin AfterGlobals
  BY <1>1 DEF AfterGlobals, AfterContexts, AfterFiles, AfterStandards, AfterBackfill, BeforeUp
<1>6. \A t \in RootTables : legacy'[t] = NoTable /\ shape'[t] = "new"
  BY <1>1, <1>2
<1>7. RootsInv'
  BY <1>1, <1>3, <1>4, <1>5, <1>6 DEF RootsInv
<1>8. ASSUME NEW t \in RootTables, NEW id \in Kept(t) \ {"globals"} PROVE id \in Kept(t)'
  <2>1. Kept(t)' = Ids(stored[t] \cup Copied(t))
    BY <1>1 DEF Kept
  <2>2. CASE id \in Ids(stored[t])
    BY <2>1, <2>2 DEF Ids
  <2>3. CASE id \in Ids(legacy[t]) \ Ids(stored[t])
    <3>1. Row(id, workspaces[1]) \in Copied(t)
      BY <1>8, <2>3 DEF Copied
    <3> QED  BY <2>1, <3>1 DEF Ids, Row
  <2> QED  BY <1>1, <1>8, <2>2, <2>3 DEF Kept
<1> QED  BY <1>7, <1>8

LEMMA RootsGoOn ==
  ASSUME RootsInv, NothingToCopy
  PROVE  RootsInv'
<1>1. /\ launch = "finish" /\ launch' = "globals"
      /\ legacy["collections"] = NoTable \/ workspaces = <<>>
      /\ UNCHANGED <<root, shape, stored, legacy, workspaces>>
  BY DEF NothingToCopy, SkipTo, databaseVars
<1>2. \A i \in 1 .. 4 : Old(i)' = Old(i) /\ SetAside(i)' = SetAside(i)
  BY <1>1 DEF Old, SetAside
<1>3. \A t \in RootTables : shape[t] = "new"
  BY <1>1 DEF RootsInv, AfterSchema
<1>4. legacy["collections"] = NoTable => \A t \in RootTables : legacy[t] = NoTable
  <2> SUFFICES ASSUME legacy["collections"] = NoTable, NEW i \in 1 .. 4 PROVE ~SetAside(i)
    BY RootNames DEF SetAside
  <2>1. ~SetAside(1)
    BY RootNames DEF SetAside
  <2>2. \A j \in 1 .. 4 : 1 < j /\ SetAside(j) => SetAside(1)
    BY DEF RootsInv
  <2> QED  BY <2>1, <2>2
<1>5. launch' \notin AfterGlobals
  BY <1>1 DEF AfterGlobals, AfterContexts, AfterFiles, AfterStandards, AfterBackfill, BeforeUp
<1>6. workspaces' # <<>> => \A t \in RootTables : legacy'[t] = NoTable
  BY <1>1, <1>4
<1> QED  BY <1>1, <1>2, <1>3, <1>5, <1>6 DEF RootsInv

LEMMA RootsGlobals ==
  ASSUME RootsInv, EnsureGlobalsEnvironment
  PROVE  RootsInv' /\ \A t \in RootTables : Kept(t) \subseteq Kept(t)'
<1> DEFINE added == {Row("globals", w) : w \in WithoutGlobals}
<1>1. /\ launch = "globals" /\ launch' = "add home"
      /\ stored' = [stored EXCEPT !["environments"] = @ \cup added]
      /\ UNCHANGED <<root, shape, legacy, workspaces>>
  BY Order DEF EnsureGlobalsEnvironment, At
<1>2. AllWorkspaces \subseteq Workspaces
  BY DEF AllWorkspaces, RootsInv
<1>3. added \in SUBSET Rows
  <2>1. \A w \in Workspaces : Row("globals", w) \in Rows
    BY DEF Row, Rows
  <2> QED  BY <1>2, <2>1 DEF WithoutGlobals
<1>4. "environments" \in RootTables /\ stored \in [RootTables -> SUBSET Rows]
  BY RootNames DEF RootsInv
<1>5. /\ stored' \in [RootTables -> SUBSET Rows]
      /\ stored'["environments"] = stored["environments"] \cup added
      /\ \A t \in RootTables : stored[t] \subseteq stored'[t]
  BY <1>1, <1>3, <1>4
<1>6. WithoutGlobals' = {}
  BY <1>1, <1>5 DEF WithoutGlobals, AllWorkspaces
<1>7. \A t \in RootTables : shape'[t] = "new"
  BY <1>1 DEF RootsInv, AfterSchema, AfterCopy
<1>8. \A i \in 1 .. 4 : ~Old(i)' /\ SetAside(i)' = SetAside(i)
  BY <1>1, <1>7, RootNames DEF Old, SetAside
<1>9. workspaces' # <<>> => \A t \in RootTables : legacy'[t] = NoTable
  BY <1>1 DEF RootsInv, AfterCopy
<1> HIDE DEF added
<1>10. RootsInv'
  <2>1. /\ launch' # "rename" /\ launch' # "schema" /\ root' \in 0 .. 3 /\ workspaces' \in Seq(Workspaces)
        /\ DOMAIN legacy' = RootTables /\ legacy' = [t \in RootTables |-> legacy'[t]]
        /\ \A t \in RootTables : legacy'[t] = NoTable \/ legacy'[t] \subseteq Rows
        /\ shape' \in [RootTables -> {"none", "old", "new"}]
    BY <1>1 DEF RootsInv
  <2>2. \A i, j \in 1 .. 4 : i < j /\ SetAside(j)' => SetAside(i)'
    BY <1>8 DEF RootsInv
  <2> QED  BY <1>5, <1>6, <1>7, <1>8, <1>9, <2>1, <2>2 DEF RootsInv
<1>11. \A t \in RootTables : Kept(t) \subseteq Kept(t)'
  BY <1>1, <1>5 DEF Kept, Ids
<1> QED  BY <1>10, <1>11

(* ------------------------------ the contexts ----------------------------- *)

LEMMA ContextsBegin == MigrationInit => ContextsInv
<1> SUFFICES ASSUME MigrationInit PROVE ContextsInv
  OBVIOUS
<1>1. \A a, b \in AllWorkspaces : a = b /\ a \in Workspaces
  <2>1. workspaces = <<>> \/ \E w \in Workspaces : workspaces = <<w>>
    BY DEF MigrationInit
  <2>2. AllWorkspaces = {} \/ \E w \in Workspaces : AllWorkspaces = {w}
    BY <2>1 DEF AllWorkspaces
  <2> QED  BY <2>2
<1> DEFINE projects == [columns |-> {"project"},
                        rows |-> {Row("gone", NoHome)} \cup {Row("context", w) : w \in AllWorkspaces}]
           none == [columns |-> {}, rows |-> {}]
<1>2. contexts = none \/ contexts = projects
  BY DEF MigrationInit
<1>3. /\ \A w \in Workspaces \cup {NoHome} : \A id \in {"gone", "context", "file"} : Row(id, w) \in Rows
      /\ \A w : Row("file", w).id = "file" /\ Row("gone", w).id = "gone" /\ Row("context", w).id = "context"
  BY DEF Row, Rows
<1>4. projects.rows \subseteq Rows /\ projects.columns = {"project"} /\ none.rows = {} /\ none.columns = {}
      /\ none \in [columns : SUBSET {"project", "workspace"}, rows : SUBSET Rows]
      /\ projects \in [columns : SUBSET {"project", "workspace"}, rows : SUBSET Rows]
  BY <1>1, <1>3
<1>5. \A row \in contexts.rows : row.id \in {"gone", "context"}
  BY <1>2, <1>3, <1>4
<1>6. files # NoTable => files = {Row("file", w) : w \in AllWorkspaces}
  BY DEF MigrationInit
<1>7. files # NoTable =>
        /\ files \subseteq Rows /\ \A a \in files : a.id = "file"
        /\ \A a, b \in files : a = b
  BY <1>1, <1>3, <1>6
<1>8. launch = "down"
  BY DEF MigrationInit
<1>9. launch \notin AfterContexts /\ launch \notin AfterFiles
  BY <1>8 DEF AfterContexts, AfterFiles, AfterStandards, AfterBackfill, BeforeUp
<1> HIDE DEF projects, none
<1> QED  BY <1>2, <1>4, <1>5, <1>7, <1>8, <1>9 DEF ContextsInv

(* What touches neither the contexts nor the files.                        *)
LEMMA ContextsAlone ==
  ASSUME ContextsInv, UNCHANGED <<contexts, files>>,
         \/ launch' \in {"down", "failed", "up", "rename", "schema"}
         \/ launch \in {"finish", "globals"} /\ launch' \in {"globals", "add home"}
         \/ launch \in AfterFiles /\ launch' \in AfterFiles
  PROVE  ContextsInv'
<1>1. \/ launch' \in {"down", "failed", "up", "rename", "schema"}
      \/ launch' \in {"globals", "add home"}
      \/ launch' \in AfterFiles
  OBVIOUS
<1>2. /\ AfterFiles \subseteq AfterContexts
      /\ \A l \in {"down", "failed", "up", "rename", "schema", "globals", "add home"} : l \notin AfterContexts
      /\ \A l \in {"finish", "globals", "add home", "fill home", "delete homeless", "drop project", "drop files"} :
           l \notin AfterFiles
  BY DEF AfterContexts, AfterFiles, AfterStandards, AfterBackfill, BeforeUp
<1>3. CASE launch' \in {"down", "failed", "up", "rename", "schema"}
  BY <1>2, <1>3 DEF ContextsInv
<1>4. CASE launch \in {"finish", "globals"} /\ launch' \in {"globals", "add home"}
  BY <1>2, <1>4 DEF ContextsInv
<1>5. CASE launch \in AfterFiles /\ launch' \in AfterFiles
  BY <1>2, <1>5 DEF ContextsInv
<1> QED  BY <1>3, <1>4, <1>5

LEMMA ContextsCreate == ASSUME ContextsInv, CreateRoot PROVE ContextsInv' /\ Texts \subseteq Texts'
<1>1. /\ contexts' = [contexts EXCEPT !.columns = IF @ = {} THEN {"workspace"} ELSE @]
      /\ files' = files /\ launch' \in {"schema", "finish"}
  BY DEF CreateRoot
<1>2. contexts \in [columns : SUBSET {"project", "workspace"}, rows : SUBSET Rows]
  BY DEF ContextsInv
<1>3. /\ contexts' \in [columns : SUBSET {"project", "workspace"}, rows : SUBSET Rows]
      /\ contexts'.rows = contexts.rows /\ contexts'.columns # {}
  BY <1>1, <1>2
<1>4. launch' \notin AfterContexts /\ launch' \notin AfterFiles
  BY <1>1 DEF AfterContexts, AfterFiles, AfterStandards, AfterBackfill, BeforeUp
<1>5. ContextsInv'
  BY <1>1, <1>3, <1>4 DEF ContextsInv
<1> QED  BY <1>1, <1>3, <1>5 DEF Texts

(* The four statements of MigrateReviewContextsToWorkspace.                *)
LEMMA ContextsMove ==
  ASSUME ContextsInv, ContextsAreNew \/ AddHome \/ FillHome \/ DeleteHomeless \/ DropProject
  PROVE  ContextsInv' /\ Texts \subseteq Texts'
<1>1. contexts \in [columns : SUBSET {"project", "workspace"}, rows : SUBSET Rows]
  BY DEF ContextsInv
<1>2. /\ \A l \in {"add home", "fill home", "delete homeless", "drop project", "insert files"} :
           l \notin AfterFiles /\ l # "drop files"
      /\ \A l \in {"add home", "fill home", "delete homeless", "drop project"} : l \notin AfterContexts
  BY DEF AfterContexts, AfterFiles, AfterStandards, AfterBackfill, BeforeUp
<1>3. CASE ContextsAreNew
  <2>1. /\ launch = "add home" /\ launch' = "insert files" /\ UNCHANGED <<contexts, files>>
        /\ "project" \notin contexts.columns
    BY <1>3 DEF ContextsAreNew, SkipTo, databaseVars
  <2>2. contexts.columns = {"workspace"}
    <3>1. contexts.columns # {} /\ contexts.columns \in SUBSET {"project", "workspace"}
      BY <1>1, <2>1 DEF ContextsInv
    <3> QED  BY <2>1, <3>1
  <2> QED  BY <1>1, <1>2, <2>1, <2>2 DEF ContextsInv, Texts
<1>4. CASE AddHome
  <2>1. /\ launch = "add home" /\ launch' = "fill home" /\ files' = files
        /\ "project" \in contexts.columns
        /\ contexts' = [contexts EXCEPT !.columns = @ \cup {"workspace"}]
    BY <1>4, Order DEF AddHome, At
  <2>2. /\ contexts' \in [columns : SUBSET {"project", "workspace"}, rows : SUBSET Rows]
        /\ contexts'.rows = contexts.rows /\ contexts'.columns = {"project", "workspace"}
    BY <1>1, <2>1
  <2> QED  BY <1>2, <2>1, <2>2 DEF ContextsInv, Texts
<1>5. CASE FillHome
  <2>1. launch = "fill home" /\ launch' = "delete homeless" /\ UNCHANGED <<contexts, files>>
    BY <1>5, Order DEF FillHome, At, databaseVars
  <2> QED  BY <1>1, <1>2, <2>1 DEF ContextsInv, Texts
<1>6. CASE DeleteHomeless
  <2>1. /\ launch = "delete homeless" /\ launch' = "drop project" /\ files' = files
        /\ contexts' = [contexts EXCEPT !.rows = {row \in @ : row.home # NoHome}]
    BY <1>6, Order DEF DeleteHomeless, At
  <2>2. /\ contexts' \in [columns : SUBSET {"project", "workspace"}, rows : SUBSET Rows]
        /\ contexts'.rows = {row \in contexts.rows : row.home # NoHome} /\ contexts'.columns = contexts.columns
    BY <1>1, <2>1
  <2> QED  BY <1>2, <2>1, <2>2 DEF ContextsInv, Texts
<1>7. CASE DropProject
  <2>1. /\ launch = "drop project" /\ launch' = "insert files" /\ files' = files
        /\ contexts' = [contexts EXCEPT !.columns = @ \ {"project"}]
        /\ contexts.columns = {"project", "workspace"}
    BY <1>7, Order DEF DropProject, At, ContextsInv
  <2>2. /\ contexts' \in [columns : SUBSET {"project", "workspace"}, rows : SUBSET Rows]
        /\ contexts'.rows = contexts.rows /\ contexts'.columns = {"workspace"}
    BY <1>1, <2>1
  <2> QED  BY <1>2, <2>1, <2>2 DEF ContextsInv, Texts
<1> QED  BY <1>3, <1>4, <1>5, <1>6, <1>7

(* The statements of MigrateWorkspaceMdFiles: every file is a context when *)
(* its table goes.                                                         *)
LEMMA ContextsTakeFiles ==
  ASSUME ContextsInv, NoFiles \/ InsertFiles \/ DropFiles
  PROVE  ContextsInv' /\ Texts \subseteq Texts'
<1>1. contexts \in [columns : SUBSET {"project", "workspace"}, rows : SUBSET Rows]
  BY DEF ContextsInv
<1>2. /\ "drop files" \notin AfterFiles /\ "insert standards" \in AfterFiles /\ "insert standards" \in AfterContexts
      /\ "insert files" \in AfterContexts /\ "drop files" \in AfterContexts
      /\ "insert files" \notin AfterFiles
  BY DEF AfterContexts, AfterFiles, AfterStandards, AfterBackfill, BeforeUp
<1>3. CASE NoFiles
  <2>1. /\ launch = "insert files" /\ launch' = "insert standards" /\ UNCHANGED <<contexts, files>>
        /\ files = NoTable
    BY <1>3, Order DEF NoFiles, SkipTo, databaseVars
  <2> QED  BY <1>1, <1>2, <2>1 DEF ContextsInv, Texts
<1>4. CASE InsertFiles
  <2> DEFINE added == {row \in files : row.id \notin Ids(contexts.rows)}
  <2>1. /\ launch = "insert files" /\ launch' = "drop files" /\ files' = files /\ files # NoTable
        /\ contexts' = [contexts EXCEPT !.rows = @ \cup added]
    BY <1>4, Order DEF InsertFiles, At
  <2>2. /\ files \subseteq Rows /\ contexts.columns = {"workspace"}
        /\ \A a, b \in files : a.id = b.id => a = b
        /\ \A a \in files, b \in contexts.rows : a.id = b.id => a = b
    BY <1>2, <2>1 DEF ContextsInv
  <2>3. /\ contexts' \in [columns : SUBSET {"project", "workspace"}, rows : SUBSET Rows]
        /\ contexts'.rows = contexts.rows \cup added /\ contexts'.columns = {"workspace"}
    BY <1>1, <2>1, <2>2
  <2>4. ASSUME NEW a \in files PROVE a \in contexts'.rows
    <3>1. CASE a.id \notin Ids(contexts.rows)
      BY <2>3, <3>1
    <3>2. CASE a.id \in Ids(contexts.rows)
      BY <2>2, <2>3, <2>4, <3>2 DEF Ids
    <3> QED  BY <3>1, <3>2
  <2>5. \A a \in files, b \in contexts'.rows : a.id = b.id => a = b
    BY <2>2, <2>3
  <2>6. files' \subseteq contexts'.rows /\ contexts.rows \subseteq contexts'.rows
    BY <2>1, <2>3, <2>4
  <2> HIDE DEF added
  <2>7. ContextsInv'
    BY <1>2, <2>1, <2>2, <2>3, <2>5, <2>6 DEF ContextsInv
  <2> QED  BY <2>1, <2>6, <2>7 DEF Texts
<1>5. CASE DropFiles
  <2>1. /\ launch = "drop files" /\ launch' = "insert standards" /\ contexts' = contexts /\ files' = NoTable
        /\ files \subseteq contexts.rows
    BY <1>5, Order DEF DropFiles, At, ContextsInv
  <2> QED  BY <1>1, <1>2, <2>1 DEF ContextsInv, Texts
<1> QED  BY <1>3, <1>4, <1>5

(* ------------------------------ the prompts ------------------------------ *)

LEMMA PromptsBegin == MigrationInit => PromptsInv
<1> SUFFICES ASSUME MigrationInit PROVE PromptsInv
  OBVIOUS
<1>1. workspaces \in Seq(Workspaces)
  BY RootsBegin DEF RootsInv
<1>2. \/ prompts = [w \in Workspaces |-> "none"]
      \/ prompts = [w \in Workspaces |-> IF w \in AllWorkspaces THEN "former" ELSE "none"]
  BY DEF MigrationInit
<1>3. AllWorkspaces \subseteq Workspaces
  BY <1>1 DEF AllWorkspaces
<1>4. standards # NoTable => standards = AllWorkspaces /\ prompts = [w \in Workspaces |-> "none"]
  BY DEF MigrationInit
<1>5. launch = "down" /\ launch \notin AfterStandards /\ launch \notin AfterBackfill /\ launch \notin BeforeUp
  BY DEF MigrationInit, AfterStandards, AfterBackfill, BeforeUp
<1>6. prompts \in [Workspaces -> {"none", "former", "default", "edited"}]
      /\ \A w \in Workspaces : prompts[w] \in {"none", "former"}
  BY <1>2
<1>7. standards # NoTable => \A w \in standards : prompts[w] \in {"none", "edited"}
  BY <1>3, <1>4
<1> QED  BY <1>1, <1>4, <1>5, <1>6, <1>7 DEF PromptsInv

(* A statement before the standards are taken over, or the end of a launch. *)
LEMMA PromptsAlone ==
  ASSUME PromptsInv, UNCHANGED <<standards, prompts, workspaces>>,
         launch' \notin {"drop standards", "up"} \cup AfterStandards
  PROVE  PromptsInv'
<1>1. AfterBackfill \subseteq AfterStandards /\ BeforeUp \subseteq AfterStandards
  BY DEF AfterStandards, AfterBackfill
<1>2. launch' \notin AfterBackfill /\ launch' \notin BeforeUp
  BY <1>1
<1> QED  BY <1>2 DEF PromptsInv, AllWorkspaces

LEMMA PromptsTaken ==
  ASSUME PromptsInv, NoStandards \/ InsertStandards \/ DropStandards
  PROVE  PromptsInv' /\ \A w \in Workspaces : OwnStandard(w) => OwnStandard(w)'
<1>1. /\ \A l \in {"drop standards", "backfill"} : l \notin AfterBackfill /\ l \notin BeforeUp
      /\ "drop standards" \notin AfterStandards /\ "backfill" # "drop standards"
  BY DEF AfterStandards, AfterBackfill, BeforeUp
<1>2. CASE NoStandards
  <2>1. launch' = "backfill" /\ standards = NoTable /\ UNCHANGED <<standards, prompts, workspaces>>
    BY <1>2, Order DEF NoStandards, SkipTo, databaseVars
  <2> QED  BY <1>1, <2>1 DEF PromptsInv, AllWorkspaces, OwnStandard
<1>3. CASE InsertStandards
  <2>1. /\ launch' = "drop standards" /\ standards # NoTable /\ UNCHANGED <<standards, workspaces>>
        /\ prompts' = [w \in Workspaces |-> IF w \in standards /\ prompts[w] = "none" THEN "edited" ELSE prompts[w]]
    BY <1>3, Order DEF InsertStandards, At
  <2>2. AllWorkspaces' = AllWorkspaces /\ AllWorkspaces \subseteq Workspaces
    <3>1. workspaces \in Seq(Workspaces) /\ workspaces' = workspaces
      BY <2>1 DEF PromptsInv
    <3> QED  BY <3>1 DEF AllWorkspaces
  <2>3. /\ standards \subseteq AllWorkspaces /\ \A w \in standards : prompts[w] \in {"none", "edited"}
        /\ prompts \in [Workspaces -> {"none", "former", "default", "edited"}]
        /\ \A w \in Workspaces : prompts[w] = "edited" => w \in AllWorkspaces
    BY <2>1 DEF PromptsInv
  <2>4. \A w \in Workspaces : prompts'[w] = IF w \in standards /\ prompts[w] = "none" THEN "edited" ELSE prompts[w]
    BY <2>1
  <2>5. prompts' \in [Workspaces -> {"none", "former", "default", "edited"}]
    BY <2>1, <2>3
  <2>6. \A w \in standards : prompts'[w] = "edited"
    BY <2>2, <2>3, <2>4
  <2>7. \A w \in Workspaces : prompts'[w] = "edited" => w \in AllWorkspaces
    BY <2>3, <2>4
  <2>8. workspaces' \in Seq(Workspaces)
    BY <2>1 DEF PromptsInv
  <2>9. PromptsInv'
    BY <1>1, <2>1, <2>2, <2>3, <2>5, <2>6, <2>7, <2>8 DEF PromptsInv
  <2> QED  BY <2>1, <2>4, <2>9 DEF OwnStandard
<1>4. CASE DropStandards
  <2>1. /\ launch = "drop standards" /\ launch' = "backfill" /\ standards' = NoTable
        /\ UNCHANGED <<prompts, workspaces>>
    BY <1>4, Order DEF DropStandards, At
  <2>2. standards # NoTable /\ \A w \in standards : prompts[w] = "edited"
    BY <2>1 DEF PromptsInv
  <2> QED  BY <1>1, <2>1, <2>2 DEF PromptsInv, AllWorkspaces, OwnStandard
<1> QED  BY <1>2, <1>3, <1>4

(* The defaults, in place of what is missing and then of the former ones.  *)
LEMMA PromptsFilled ==
  ASSUME PromptsInv, BackfillWorkspacePrompts \/ RefreshUneditedSeededPrompts \/ AddColumn
  PROVE  PromptsInv' /\ \A w \in Workspaces : OwnStandard(w) => OwnStandard(w)'
<1>1. /\ {"backfill", "refresh", "add column"} \subseteq AfterStandards
      /\ {"refresh", "add column"} \subseteq AfterBackfill /\ "add column" \in BeforeUp /\ "refresh" \notin BeforeUp
      /\ "up" \notin AfterStandards /\ "up" \notin AfterBackfill /\ "up" \notin BeforeUp
  BY DEF AfterStandards, AfterBackfill, BeforeUp
<1>2. /\ standards' = standards /\ workspaces' = workspaces
      /\ launch \in {"backfill", "refresh", "add column"}
  BY DEF BackfillWorkspacePrompts, RefreshUneditedSeededPrompts, AddColumn, At
<1>3. standards = NoTable /\ launch' # "drop standards"
  BY <1>1, <1>2, Order DEF PromptsInv, BackfillWorkspacePrompts, RefreshUneditedSeededPrompts, AddColumn, At
<1>4. AllWorkspaces' = AllWorkspaces /\ AllWorkspaces \subseteq Workspaces /\ workspaces' \in Seq(Workspaces)
  <2>1. workspaces \in Seq(Workspaces) /\ workspaces' = workspaces
    BY <1>2 DEF PromptsInv
  <2> QED  BY <2>1 DEF AllWorkspaces
<1>5. /\ prompts \in [Workspaces -> {"none", "former", "default", "edited"}]
      /\ \A w \in Workspaces : prompts[w] = "edited" => w \in AllWorkspaces
  BY DEF PromptsInv
<1>6. CASE BackfillWorkspacePrompts
  <2>1. /\ launch' = "refresh"
        /\ prompts' = [w \in Workspaces |-> IF w \in AllWorkspaces /\ prompts[w] = "none" THEN "default" ELSE prompts[w]]
    BY <1>6, Order DEF BackfillWorkspacePrompts, At
  <2>2. prompts' \in [Workspaces -> {"none", "former", "default", "edited"}]
    BY <1>5, <2>1
  <2>3. \A w \in Workspaces : (prompts'[w] = "edited" <=> prompts[w] = "edited") /\ (w \in AllWorkspaces => prompts'[w] # "none")
    BY <1>5, <2>1
  <2>4. PromptsInv'
    BY <1>1, <1>2, <1>3, <1>4, <1>5, <2>1, <2>2, <2>3 DEF PromptsInv
  <2> QED  BY <1>2, <1>3, <2>3, <2>4 DEF OwnStandard
<1>7. CASE RefreshUneditedSeededPrompts
  <2>1. /\ launch = "refresh" /\ launch' = "add column"
        /\ prompts' = [w \in Workspaces |-> IF prompts[w] = "former" THEN "default" ELSE prompts[w]]
    BY <1>7, Order DEF RefreshUneditedSeededPrompts, At
  <2>2. prompts' \in [Workspaces -> {"none", "former", "default", "edited"}]
    BY <1>5, <2>1
  <2>3. \A w \in AllWorkspaces : prompts[w] # "none"
    BY <1>1, <2>1 DEF PromptsInv
  <2>4. \A w \in Workspaces : (prompts'[w] = "edited" <=> prompts[w] = "edited") /\ (w \in AllWorkspaces => prompts'[w] \in {"default", "edited"})
    BY <1>5, <2>1, <2>3
  <2>5. \A w \in AllWorkspaces : prompts'[w] # "none"
    BY <1>4, <2>4
  <2>6. PromptsInv'
    BY <1>1, <1>2, <1>3, <1>4, <1>5, <2>1, <2>2, <2>4, <2>5 DEF PromptsInv
  <2> QED  BY <1>2, <1>3, <2>4, <2>6 DEF OwnStandard
<1>8. CASE AddColumn
  <2>1. launch' = "up" /\ prompts' = prompts
    BY <1>8, Order DEF AddColumn, At
  <2>2. PromptsInv'
    BY <1>1, <1>2, <1>3, <1>4, <1>5, <2>1 DEF PromptsInv
  <2> QED  BY <1>2, <2>1, <2>2 DEF OwnStandard
<1> QED  BY <1>6, <1>7, <1>8

(* Only a workspace without a row gets one of its own by being made.       *)
LEMMA PromptsLive ==
  ASSUME PromptsInv, NEW w \in Workspaces, EditStandard(w) \/ \E seeded \in BOOLEAN : Create(w, seeded)
  PROVE  PromptsInv' /\ \A v \in Workspaces : OwnStandard(v) => OwnStandard(v)'
<1>1. /\ launch = "up" /\ standards' = standards /\ launch' \in {"up", "down"}
      /\ (w \in AllWorkspaces /\ workspaces' = workspaces /\ prompts' = [prompts EXCEPT ![w] = "edited"])
         \/ (w \notin AllWorkspaces /\ workspaces' = Append(workspaces, w)
             /\ (prompts' = [prompts EXCEPT ![w] = "default"] \/ prompts' = prompts))
  BY DEF EditStandard, Create, PromptsInv
<1>2. standards = NoTable
  BY <1>1 DEF PromptsInv
<1>3. \A l \in {"up", "down"} : l \notin AfterStandards /\ l \notin AfterBackfill /\ l \notin BeforeUp /\ l # "drop standards"
  BY DEF AfterStandards, AfterBackfill, BeforeUp
<1>4. /\ prompts \in [Workspaces -> {"none", "former", "default", "edited"}] /\ workspaces \in Seq(Workspaces)
      /\ \A v \in Workspaces : prompts[v] = "edited" => v \in AllWorkspaces
  BY DEF PromptsInv
<1>5. workspaces' \in Seq(Workspaces) /\ AllWorkspaces \subseteq AllWorkspaces'
  BY <1>1, <1>4 DEF AllWorkspaces
<1>6. prompts' \in [Workspaces -> {"none", "former", "default", "edited"}]
  BY <1>1, <1>4
<1>7. \A v \in Workspaces : (prompts[v] = "edited" => prompts'[v] = "edited")
                            /\ (prompts'[v] = "edited" => v \in AllWorkspaces)
  BY <1>1, <1>4
<1>8. PromptsInv'
  BY <1>1, <1>2, <1>3, <1>5, <1>6, <1>7 DEF PromptsInv
<1> QED  BY <1>1, <1>2, <1>7, <1>8 DEF OwnStandard

(* ------------------------------ the launches ----------------------------- *)

LEMMA WhatIsUntouchedStays ==
  /\ UNCHANGED <<stored, legacy>> => \A t \in RootTables : Kept(t)' = Kept(t)
  /\ UNCHANGED <<contexts, files>> => Texts' = Texts
  /\ UNCHANGED <<prompts, standards>> => \A w \in Workspaces : OwnStandard(w)' = OwnStandard(w)
BY DEF Kept, Texts, OwnStandard

\* Where a statement is, for each of the three groups.
LEMMA Places ==
  /\ {"add home", "fill home", "delete homeless", "drop project", "insert files", "drop files",
      "insert standards", "drop standards", "backfill", "refresh", "add column"} \subseteq AfterGlobals
  /\ {"insert standards", "drop standards", "backfill", "refresh", "add column"} \subseteq AfterFiles
  /\ {"down", "failed", "rename", "schema", "finish", "globals", "add home", "fill home", "delete homeless",
      "drop project", "insert files", "drop files", "insert standards"}
       \cap ({"drop standards", "up"} \cup AfterStandards) = {}
BY DEF AfterGlobals, AfterContexts, AfterFiles, AfterStandards, AfterBackfill, BeforeUp

LEMMA LaunchBegins == MigrationInit => LaunchInv
BY RootsBegin, ContextsBegin, PromptsBegin DEF LaunchInv

LEMMA LaunchStep ==
  ASSUME LaunchInv, [MigrationNext]_migrationVars
  PROVE  LaunchInv' /\ NothingIsLost
<1> USE DEF LaunchInv
<1>1. root \in 0 .. 3 /\ workspaces \in Seq(Workspaces)
  BY DEF RootsInv
<1>2. CASE Open
  <2>1. UNCHANGED <<workspaces, databaseVars>> /\ launch' \in {"rename", "schema"}
    BY <1>2 DEF Open
  <2>2. RootsInv' /\ ContextsInv' /\ PromptsInv'
    BY <1>2, <2>1, RootsOpen, ContextsAlone, PromptsAlone, Places DEF databaseVars
  <2> QED  BY <2>1, <2>2, WhatIsUntouchedStays DEF NothingIsLost, databaseVars
<1>3. CASE RenameRoot
  <2>1. UNCHANGED <<contexts, files, standards, prompts, workspaces>> /\ launch' \in {"rename", "schema"}
    BY <1>3 DEF RenameRoot
  <2>2. RootsInv' /\ (\A t \in RootTables : Kept(t) \subseteq Kept(t)') /\ ContextsInv' /\ PromptsInv'
    BY <1>3, <2>1, RootsRename, ContextsAlone, PromptsAlone, Places
  <2> QED  BY <2>1, <2>2, WhatIsUntouchedStays DEF NothingIsLost
<1>4. CASE CreateRoot
  <2>1. UNCHANGED <<stored, legacy, standards, prompts, workspaces>> /\ launch' \in {"schema", "finish"}
    BY <1>4 DEF CreateRoot
  <2>2. RootsInv' /\ ContextsInv' /\ Texts \subseteq Texts' /\ PromptsInv'
    BY <1>4, <2>1, RootsCreate, ContextsCreate, PromptsAlone, Places
  <2> QED  BY <2>1, <2>2, WhatIsUntouchedStays DEF NothingIsLost
<1>5. CASE SchemaFails \/ AddHomeFails \/ Dies
  <2>0. UNCHANGED <<workspaces, databaseVars>> /\ launch' \in {"down", "failed"} /\ (root' = root \/ root' = 0)
    BY <1>5 DEF SchemaFails, AddHomeFails, Dies
  <2>1. /\ UNCHANGED <<workspaces, databaseVars>> /\ launch' \in {"down", "failed"}
        /\ root' \in 0 .. 3 /\ workspaces' \in Seq(Workspaces)
    BY <1>1, <2>0
  <2>2. RootsInv' /\ ContextsInv' /\ PromptsInv'
    BY <2>1, RootsAlone, ContextsAlone, PromptsAlone, Places DEF databaseVars
  <2> QED  BY <2>1, <2>2, WhatIsUntouchedStays DEF NothingIsLost, databaseVars
<1>6. CASE CopyLegacyApiTables
  <2>1. UNCHANGED <<contexts, files, standards, prompts, workspaces>> /\ launch = "finish" /\ launch' = "globals"
    BY <1>6 DEF CopyLegacyApiTables
  <2>2. RootsInv' /\ (\A t \in RootTables : Kept(t) \ {"globals"} \subseteq Kept(t)') /\ ContextsInv' /\ PromptsInv'
    BY <1>6, <2>1, RootsCopy, ContextsAlone, PromptsAlone, Places
  <2> QED  BY <2>1, <2>2, WhatIsUntouchedStays DEF NothingIsLost
<1>7. CASE NothingToCopy
  <2>1. UNCHANGED <<workspaces, databaseVars>> /\ launch = "finish" /\ launch' = "globals"
    BY <1>7 DEF NothingToCopy, SkipTo
  <2>2. RootsInv' /\ ContextsInv' /\ PromptsInv'
    BY <1>7, <2>1, RootsGoOn, ContextsAlone, PromptsAlone, Places DEF databaseVars
  <2> QED  BY <2>1, <2>2, WhatIsUntouchedStays DEF NothingIsLost, databaseVars
<1>8. CASE EnsureGlobalsEnvironment
  <2>1. /\ UNCHANGED <<contexts, files, standards, prompts, workspaces>>
        /\ launch = "globals" /\ launch' = "add home"
    BY <1>8, Order DEF EnsureGlobalsEnvironment, At
  <2>2. RootsInv' /\ (\A t \in RootTables : Kept(t) \subseteq Kept(t)') /\ ContextsInv' /\ PromptsInv'
    BY <1>8, <2>1, RootsGlobals, ContextsAlone, PromptsAlone, Places
  <2> QED  BY <2>1, <2>2, WhatIsUntouchedStays DEF NothingIsLost
<1>9. CASE ContextsAreNew \/ AddHome \/ FillHome \/ DeleteHomeless \/ DropProject
  <2>1. /\ UNCHANGED <<root, shape, stored, legacy, standards, prompts, workspaces>>
        /\ launch \in {"add home", "fill home", "delete homeless", "drop project"}
        /\ launch' \in {"fill home", "delete homeless", "drop project", "insert files"}
    BY <1>9, Order DEF ContextsAreNew, AddHome, FillHome, DeleteHomeless, DropProject, At, SkipTo, databaseVars
  <2>2. root' \in 0 .. 3 /\ workspaces' \in Seq(Workspaces)
    BY <1>1, <2>1
  <2>3. RootsInv' /\ ContextsInv' /\ Texts \subseteq Texts' /\ PromptsInv'
    BY <1>9, <2>1, <2>2, RootsAlone, ContextsMove, PromptsAlone, Places
  <2> QED  BY <2>1, <2>3, WhatIsUntouchedStays DEF NothingIsLost
<1>10. CASE NoFiles \/ InsertFiles \/ DropFiles
  <2>1. /\ UNCHANGED <<root, shape, stored, legacy, standards, prompts, workspaces>>
        /\ launch \in {"insert files", "drop files"} /\ launch' \in {"drop files", "insert standards"}
    BY <1>10, Order DEF NoFiles, InsertFiles, DropFiles, At, SkipTo, databaseVars
  <2>2. root' \in 0 .. 3 /\ workspaces' \in Seq(Workspaces)
    BY <1>1, <2>1
  <2>3. RootsInv' /\ ContextsInv' /\ Texts \subseteq Texts' /\ PromptsInv'
    BY <1>10, <2>1, <2>2, RootsAlone, ContextsTakeFiles, PromptsAlone, Places
  <2> QED  BY <2>1, <2>3, WhatIsUntouchedStays DEF NothingIsLost
<1>11. CASE NoStandards \/ InsertStandards \/ DropStandards
  <2>1. /\ UNCHANGED <<root, shape, stored, legacy, contexts, files, workspaces>>
        /\ launch \in {"insert standards", "drop standards"} /\ launch' \in {"drop standards", "backfill"}
    BY <1>11, Order DEF NoStandards, InsertStandards, DropStandards, At, SkipTo, databaseVars
  <2>2. root' \in 0 .. 3 /\ workspaces' \in Seq(Workspaces)
    BY <1>1, <2>1
  <2>3. RootsInv' /\ ContextsInv'
    BY <2>1, <2>2, RootsAlone, ContextsAlone, Places
  <2>4. PromptsInv' /\ \A w \in Workspaces : OwnStandard(w) => OwnStandard(w)'
    BY <1>11, PromptsTaken
  <2> QED  BY <2>1, <2>3, <2>4, WhatIsUntouchedStays DEF NothingIsLost
<1>12. CASE BackfillWorkspacePrompts \/ RefreshUneditedSeededPrompts \/ AddColumn
  <2>1. /\ UNCHANGED <<root, shape, stored, legacy, contexts, files, workspaces>>
        /\ launch \in {"backfill", "refresh", "add column"} /\ launch' \in {"refresh", "add column", "up"}
    BY <1>12, Order DEF BackfillWorkspacePrompts, RefreshUneditedSeededPrompts, AddColumn, At
  <2>2. root' \in 0 .. 3 /\ workspaces' \in Seq(Workspaces)
    BY <1>1, <2>1
  <2>3. RootsInv' /\ ContextsInv'
    BY <2>1, <2>2, RootsAlone, ContextsAlone, Places
  <2>4. PromptsInv' /\ \A w \in Workspaces : OwnStandard(w) => OwnStandard(w)'
    BY <1>12, PromptsFilled
  <2> QED  BY <2>1, <2>3, <2>4, WhatIsUntouchedStays DEF NothingIsLost
<1>13. ASSUME NEW w \in Workspaces, EditStandard(w) \/ \E seeded \in BOOLEAN : Create(w, seeded)
       PROVE  LaunchInv' /\ NothingIsLost
  <2>1. UNCHANGED <<root, shape, stored, legacy, contexts, files>> /\ launch' \in {"up", "down"}
    BY <1>13 DEF EditStandard, Create
  <2>2. PromptsInv' /\ \A v \in Workspaces : OwnStandard(v) => OwnStandard(v)'
    BY <1>13, PromptsLive
  <2>3. root' \in 0 .. 3 /\ workspaces' \in Seq(Workspaces)
    BY <1>1, <2>1, <2>2 DEF PromptsInv
  <2>4. RootsInv' /\ ContextsInv'
    BY <2>1, <2>3, RootsAlone, ContextsAlone
  <2> QED  BY <2>1, <2>2, <2>4, WhatIsUntouchedStays DEF NothingIsLost
<1>14. CASE UNCHANGED migrationVars
  <2>1. UNCHANGED <<launch, root, shape, stored, legacy, contexts, files, standards, prompts, column, workspaces>>
    BY <1>14 DEF migrationVars, databaseVars
  <2>2. /\ \A i : Old(i)' = Old(i) /\ SetAside(i)' = SetAside(i)
        /\ WithoutGlobals' = WithoutGlobals /\ AllWorkspaces' = AllWorkspaces
    BY <2>1 DEF Old, SetAside, WithoutGlobals, AllWorkspaces
  <2>3. RootsInv'
    BY <2>1, <2>2 DEF RootsInv
  <2>4. ContextsInv'
    BY <2>1 DEF ContextsInv
  <2>5. PromptsInv'
    BY <2>1, <2>2 DEF PromptsInv
  <2> QED  BY <2>1, <2>3, <2>4, <2>5, WhatIsUntouchedStays DEF NothingIsLost
<1> QED
  BY <1>2, <1>3, <1>4, <1>5, <1>6, <1>7, <1>8, <1>9, <1>10, <1>11, <1>12, <1>13, <1>14 DEF MigrationNext, Statement

LEMMA LaunchInvariance == MigrationSpec => []LaunchInv
<1>1. LaunchInv /\ [MigrationNext]_migrationVars => LaunchInv'
  BY LaunchStep
<1> QED  BY LaunchBegins, <1>1, PTL DEF MigrationSpec

(* A launch comes up by its last statement only.                           *)
LEMMA UpIsLast ==
  ASSUME LaunchInv, [MigrationNext]_migrationVars, launch # "up", launch' = "up"
  PROVE  AddColumn
<1>1. ~Open /\ ~RenameRoot /\ ~CreateRoot /\ ~SchemaFails /\ ~CopyLegacyApiTables /\ ~NothingToCopy /\ ~Dies
      /\ ~AddHomeFails /\ ~UNCHANGED migrationVars
  BY DEF Open, RenameRoot, CreateRoot, SchemaFails, CopyLegacyApiTables, NothingToCopy, SkipTo, Dies, AddHomeFails,
     migrationVars
<1>2. /\ ~EnsureGlobalsEnvironment /\ ~ContextsAreNew /\ ~AddHome /\ ~FillHome /\ ~DeleteHomeless /\ ~DropProject
      /\ ~NoFiles /\ ~InsertFiles /\ ~DropFiles /\ ~NoStandards /\ ~InsertStandards /\ ~DropStandards
      /\ ~BackfillWorkspacePrompts /\ ~RefreshUneditedSeededPrompts
  BY Order DEF At, SkipTo, EnsureGlobalsEnvironment, ContextsAreNew, AddHome, FillHome, DeleteHomeless, DropProject,
     NoFiles, InsertFiles, DropFiles, NoStandards, InsertStandards, DropStandards,
     BackfillWorkspacePrompts, RefreshUneditedSeededPrompts
<1>3. \A w \in Workspaces : ~EditStandard(w) /\ \A seeded \in BOOLEAN : ~Create(w, seeded)
  BY DEF EditStandard, Create
<1> QED  BY <1>1, <1>2, <1>3 DEF MigrationNext, Statement

LEMMA UpIsMigrated ==
  ASSUME LaunchInv, AddColumn
  PROVE  Migrated'
<1>1. /\ launch = "add column" /\ column' = TRUE
      /\ UNCHANGED <<shape, stored, legacy, contexts, files, standards, prompts, workspaces>>
  BY DEF AddColumn, At
<1>2. /\ "add column" \in AfterSchema /\ "add column" \in AfterCopy /\ "add column" \in AfterGlobals
      /\ "add column" \in AfterContexts /\ "add column" \in AfterFiles /\ "add column" \in AfterStandards
      /\ "add column" \in BeforeUp
  BY DEF AfterSchema, AfterCopy, AfterGlobals, AfterContexts, AfterFiles, AfterStandards, AfterBackfill, BeforeUp
<1>3. /\ \A t \in RootTables : shape[t] = "new" /\ (workspaces # <<>> => legacy[t] = NoTable)
      /\ WithoutGlobals = {}
  BY <1>1, <1>2 DEF LaunchInv, RootsInv
<1>4. contexts.columns = {"workspace"} /\ files = NoTable
  BY <1>1, <1>2 DEF LaunchInv, ContextsInv
<1>5. standards = NoTable /\ \A w \in AllWorkspaces : prompts[w] \in {"default", "edited"}
  BY <1>1, <1>2 DEF LaunchInv, PromptsInv
<1>6. WithoutGlobals' = WithoutGlobals /\ AllWorkspaces' = AllWorkspaces
  BY <1>1 DEF WithoutGlobals, AllWorkspaces
<1> QED  BY <1>1, <1>3, <1>4, <1>5, <1>6 DEF Migrated

(* Every launch is an upgrade (Migrations.cs): wherever it and the         *)
(* launches before it died, nothing a user wrote is lost, and one that     *)
(* comes up has finished the work of them all.                             *)
THEOREM EveryLaunchIsAnUpgrade == MigrationSpec => LaunchesAreUpgrades
<1>1. LaunchInv /\ [MigrationNext]_migrationVars =>
        [NothingIsLost /\ (launch # "up" /\ launch' = "up" => Migrated')]_migrationVars
  BY LaunchStep, UpIsLast, UpIsMigrated
<1> QED  BY LaunchInvariance, <1>1, PTL DEF MigrationSpec, LaunchesAreUpgrades

------------------------------------------------------------------------------
(* Of Terminal.                                                            *)

(* The channel holds the chunks read and not taken, without a hole; the    *)
(* one in the reader's hand is not in it, and is lost only to a close.     *)
QueueIsTheGap ==
  /\ taken <= read
  /\ reader = "reading" => queue = (taken + 1)..read
  /\ reader = "writing" => queue = (taken + 1)..(read - 1) /\ taken < read
  /\ reader = "ended" => \/ queue = (taken + 1)..read
                         \/ Cancelled /\ queue = (taken + 1)..(read - 1) /\ taken < read

(* The publisher holds at most one chunk, and leaves with nothing behind   *)
(* unless the session was closed.                                          *)
PublisherKeepsUp ==
  /\ writer = "waiting" => shown = taken
  /\ writer = "publishing" => taken = shown + 1
  /\ writer \in {"leaving", "done"} =>
       /\ shown = taken \/ taken = shown + 1
       /\ Cancelled \/ (shell = "exited" /\ shown = written)
  /\ writer # "done" => exits = 0

(* The reader ends after the last chunk of a shell that ended, or because  *)
(* of a close.                                                             *)
EndsAreReasoned ==
  /\ complete => reader = "ended"
  /\ reader = "ended" => Cancelled \/ (shell = "exited" /\ read = written)

(* What the pseudo-terminal, the channel and the reader's hand may hold.   *)
GapsAreBounded ==
  /\ written - read <= PtyDepth
  /\ reader = "reading" => read - taken <= Depth
  /\ read - taken <= Depth + 1

Inv == TerminalTypeOK /\ QueueIsTheGap /\ PublisherKeepsUp /\ EndsAreReasoned /\ GapsAreBounded

USE DepthAssumption DEF DepthAssumption
-----------------------------------------------------------------------------
(* The session starts with every counter at zero and nothing in hand.      *)
LEMMA InitInv == TerminalInit => Inv
<1> SUFFICES ASSUME TerminalInit PROVE Inv
  OBVIOUS
<1>1. TerminalTypeOK
  <2>1. complete \in BOOLEAN
    BY DEF TerminalInit
  <2>2. queue \subseteq 1..written
    BY DEF TerminalInit
  <2>3. /\ read \in 0..written /\ taken \in 0..written /\ shown \in 0..written
        /\ exits \in 0..1 /\ written \in Nat
    BY DEF TerminalInit
  <2>4. /\ shell \in {"running", "exited"} /\ reader \in {"reading", "writing", "ended"}
        /\ writer \in {"waiting", "publishing", "leaving", "done"}
        /\ closing \in {"open", "cancelled", "disposed", "closed"}
    BY DEF TerminalInit
  <2> QED
    BY <2>1, <2>2, <2>3, <2>4 DEF TerminalTypeOK
<1>2. PublisherKeepsUp /\ EndsAreReasoned
  BY DEF TerminalInit, PublisherKeepsUp, EndsAreReasoned
<1>3. QueueIsTheGap
  BY DEF TerminalInit, QueueIsTheGap
<1>4. GapsAreBounded
  BY DEF TerminalInit, GapsAreBounded
<1> QED
  BY <1>1, <1>2, <1>3, <1>4 DEF Inv

(* A completed, drained channel that nobody cancelled: all is shown.       *)
LEMMA DrainedMeansShown ==
  ASSUME Inv, writer = "waiting", complete, queue = {}, ~Cancelled
  PROVE  shell = "exited" /\ shown = written
  BY DEF Inv, TerminalTypeOK, QueueIsTheGap, PublisherKeepsUp, EndsAreReasoned

(* Every step keeps the invariant.                                         *)
LEMMA NextInv == Inv /\ [TerminalNext]_terminalVars => Inv'
<1> SUFFICES ASSUME Inv, [TerminalNext]_terminalVars PROVE Inv'
  OBVIOUS
<1> USE DEF Inv
<1>1. CASE ShellWrites
  BY <1>1 DEF ShellWrites, readerVars, writerVars, TerminalTypeOK, QueueIsTheGap, PublisherKeepsUp,
              EndsAreReasoned, GapsAreBounded, Cancelled
<1>2. CASE ShellExits
  BY <1>2 DEF ShellExits, readerVars, writerVars, TerminalTypeOK, QueueIsTheGap, PublisherKeepsUp,
              EndsAreReasoned, GapsAreBounded, Cancelled
<1>3. CASE Read
  <2> USE <1>3 DEF Read, shellVars, writerVars
  <2>1. TerminalTypeOK'           BY DEF TerminalTypeOK
  <2>2. QueueIsTheGap'    BY DEF TerminalTypeOK, QueueIsTheGap
  <2>3. PublisherKeepsUp' BY DEF PublisherKeepsUp, Cancelled
  <2>4. EndsAreReasoned'  BY DEF EndsAreReasoned, Cancelled
  <2>5. GapsAreBounded'   BY DEF TerminalTypeOK, GapsAreBounded
  <2> QED BY <2>1, <2>2, <2>3, <2>4, <2>5
<1>4. CASE Enqueue
  <2> USE <1>4 DEF Enqueue, shellVars, writerVars
  <2>1. TerminalTypeOK'
    BY DEF TerminalTypeOK, QueueIsTheGap
  <2>2. QueueIsTheGap'
    BY DEF TerminalTypeOK, QueueIsTheGap
  <2>3. PublisherKeepsUp' BY DEF PublisherKeepsUp, Cancelled
  <2>4. EndsAreReasoned'  BY DEF EndsAreReasoned, Cancelled
  <2>5. GapsAreBounded'
    <3>1. queue = (taken + 1)..(read - 1) /\ taken + 1 \in Int /\ read - 1 \in Int /\ taken < read
      BY DEF TerminalTypeOK, QueueIsTheGap
    <3>2. Cardinality((taken + 1)..(read - 1))
            = IF taken + 1 > read - 1 THEN 0 ELSE (read - 1) - (taken + 1) + 1
      BY <3>1, FS_Interval
    <3>3. read - taken <= Depth
      BY <3>1, <3>2 DEF TerminalTypeOK
    <3> QED BY <3>3 DEF TerminalTypeOK, GapsAreBounded
  <2> QED BY <2>1, <2>2, <2>3, <2>4, <2>5
<1>5. CASE ReadEnds
  <2> USE <1>5 DEF ReadEnds, shellVars, writerVars
  <2>1. TerminalTypeOK'           BY DEF TerminalTypeOK
  <2>2. QueueIsTheGap'    BY DEF TerminalTypeOK, QueueIsTheGap, Cancelled
  <2>3. PublisherKeepsUp' BY DEF PublisherKeepsUp, Cancelled
  <2>4. EndsAreReasoned'  BY DEF EndsAreReasoned, Cancelled
  <2>5. GapsAreBounded'   BY DEF TerminalTypeOK, GapsAreBounded
  <2> QED BY <2>1, <2>2, <2>3, <2>4, <2>5
<1>6. CASE Take
  <2> USE <1>6 DEF Take, shellVars, readerVars
  <2>1. /\ taken' = taken + 1 /\ taken + 1 \in queue
        /\ queue' = queue \ {taken + 1}
    BY DEF TerminalTypeOK, QueueIsTheGap
  <2>2. TerminalTypeOK'           BY <2>1 DEF TerminalTypeOK
  <2>3. QueueIsTheGap'    BY <2>1 DEF TerminalTypeOK, QueueIsTheGap, Cancelled
  <2>4. PublisherKeepsUp' BY <2>1 DEF TerminalTypeOK, PublisherKeepsUp, Cancelled
  <2>5. EndsAreReasoned'  BY DEF EndsAreReasoned, Cancelled
  <2>6. GapsAreBounded'   BY <2>1 DEF TerminalTypeOK, GapsAreBounded
  <2> QED BY <2>2, <2>3, <2>4, <2>5, <2>6
<1>7. CASE Publish
  BY <1>7 DEF Publish, shellVars, readerVars, TerminalTypeOK, QueueIsTheGap, PublisherKeepsUp,
              EndsAreReasoned, GapsAreBounded, Cancelled
<1>8. CASE LoopEnds
  <2> USE <1>8 DEF LoopEnds, shellVars, readerVars
  <2>1. TerminalTypeOK' /\ QueueIsTheGap' /\ EndsAreReasoned' /\ GapsAreBounded'
    BY DEF TerminalTypeOK, QueueIsTheGap, EndsAreReasoned, GapsAreBounded, Cancelled
  <2>2. Cancelled \/ (shell = "exited" /\ shown = written)
    BY DrainedMeansShown
  <2>3. PublisherKeepsUp'
    BY <2>2 DEF PublisherKeepsUp, Cancelled
  <2> QED BY <2>1, <2>3
<1>9. CASE PublishExit
  BY <1>9 DEF PublishExit, shellVars, readerVars, TerminalTypeOK, QueueIsTheGap, PublisherKeepsUp,
              EndsAreReasoned, GapsAreBounded, Cancelled
<1>10. CASE Close
  BY <1>10 DEF Close, shellVars, readerVars, writerVars, TerminalTypeOK, QueueIsTheGap,
               PublisherKeepsUp, EndsAreReasoned, GapsAreBounded, Cancelled
<1>11. CASE DisposeConnection
  BY <1>11 DEF DisposeConnection, readerVars, writerVars, TerminalTypeOK, QueueIsTheGap,
               PublisherKeepsUp, EndsAreReasoned, GapsAreBounded, Cancelled
<1>12. CASE CloseReturns
  BY <1>12 DEF CloseReturns, shellVars, readerVars, writerVars, TerminalTypeOK, QueueIsTheGap,
               PublisherKeepsUp, EndsAreReasoned, GapsAreBounded, Cancelled
<1>13. CASE UNCHANGED terminalVars
  BY <1>13 DEF terminalVars, shellVars, readerVars, writerVars, TerminalTypeOK, QueueIsTheGap,
               PublisherKeepsUp, EndsAreReasoned, GapsAreBounded, Cancelled
<1> QED
  BY <1>1, <1>2, <1>3, <1>4, <1>5, <1>6, <1>7, <1>8, <1>9, <1>10, <1>11, <1>12, <1>13 DEF TerminalNext

(* The positions of the chunks hold throughout.                            *)
LEMMA Invariance == TerminalSpec => []Inv
  BY InitInv, NextInv, PTL DEF TerminalSpec

-----------------------------------------------------------------------------
(* Nothing is carried that the shell did not write, and the end is         *)
(* announced at most once.                                                 *)
THEOREM TypeCorrectness == TerminalSpec => []TerminalTypeOK
  BY Invariance, PTL DEF Inv

(* A shell that prints for ever costs a bounded number of chunks, whatever *)
(* the two depths are.                                                     *)
THEOREM MemoryIsBounded == TerminalSpec => []Backpressure
<1>1. Inv => Backpressure
  BY DEF Inv, TerminalTypeOK, QueueIsTheGap, PublisherKeepsUp, GapsAreBounded, Backpressure
<1> QED BY <1>1, Invariance, PTL

(* The two tasks and the channel between them implement TerminalStream:    *)
(* nothing dropped, doubled or overtaken, and the exit once and last.      *)
THEOREM SessionIsAStream == TerminalSpec => KeepsItsPromise
<1>1. TerminalInit => Stream!StreamInit
  BY DEF TerminalInit, Stream!StreamInit, Cancelled
<1>2. Inv /\ [TerminalNext]_terminalVars =>
        [Stream!Produce \/ Stream!Deliver \/ Stream!End \/ Stream!CutShort
           \/ Stream!Announce]_(Stream!streamVars)
  <2> SUFFICES ASSUME Inv, [TerminalNext]_terminalVars
               PROVE  \/ Stream!Produce \/ Stream!Deliver \/ Stream!End \/ Stream!CutShort
                      \/ Stream!Announce
                      \/ UNCHANGED Stream!streamVars
    OBVIOUS
  <2>1. CASE ShellWrites
    <3>1. Stream!Produce
      BY <2>1 DEF ShellWrites, Stream!Produce, writerVars, Cancelled
    <3> QED BY <3>1
  <2>2. CASE ShellExits
    <3>1. Stream!End
      BY <2>2 DEF ShellExits, Stream!End, writerVars, Cancelled
    <3> QED BY <3>1
  <2>3. CASE Read \/ Enqueue \/ ReadEnds \/ Take \/ LoopEnds \/ CloseReturns
    <3>1. UNCHANGED Stream!streamVars
      BY <2>3 DEF Read, Enqueue, ReadEnds, Take, LoopEnds, CloseReturns, shellVars,
                  readerVars, writerVars, Stream!streamVars, Cancelled
    <3> QED BY <3>1
  <2>4. CASE Publish
    <3>1. Stream!Deliver
      BY <2>4 DEF Publish, Stream!Deliver, Inv, TerminalTypeOK, PublisherKeepsUp, shellVars,
                  Cancelled
    <3> QED BY <3>1
  <2>5. CASE PublishExit
    <3>1. Stream!Announce
      BY <2>5 DEF PublishExit, Stream!Announce, Inv, TerminalTypeOK, PublisherKeepsUp, shellVars,
                  Cancelled
    <3> QED BY <3>1
  <2>6. CASE Close
    <3>1. Stream!CutShort
      BY <2>6 DEF Close, Stream!CutShort, shellVars, writerVars, Cancelled
    <3> QED BY <3>1
  <2>7. CASE DisposeConnection
    <3>1. Stream!End
      BY <2>7 DEF DisposeConnection, Stream!End, writerVars, Cancelled
    <3> QED BY <3>1
  <2>8. CASE UNCHANGED terminalVars
    <3>1. UNCHANGED Stream!streamVars
      BY <2>8 DEF terminalVars, shellVars, writerVars, Stream!streamVars, Cancelled
    <3> QED BY <3>1
  <2> QED
    BY <2>1, <2>2, <2>3, <2>4, <2>5, <2>6, <2>7, <2>8 DEF TerminalNext
<1> QED
  BY <1>1, <1>2, Invariance, PTL DEF TerminalSpec, KeepsItsPromise, Stream!StreamSpec

==============================================================================
