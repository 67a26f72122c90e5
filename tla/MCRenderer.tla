------------------------------ MODULE MCRenderer ------------------------------
(***************************************************************************)
(* The independent models of the renderer, side by side: `part' names the  *)
(* one that moves, the others keep their initial state, so that the states *)
(* of this specification are those of the parts, one part after another.   *)
(***************************************************************************)
EXTENDS Workbench, Sends, Sockets, Runner, RequestTree, Conversations, Jobs,
  RepoView, Editor, GraphLayout, TLC

VARIABLE part

RendererInit ==
  /\ part \in {"workbench", "sends", "sockets", "runner", "tree", "chat",
                "jobs", "view", "editor", "graph"}
  /\ BenchInit /\ SendInit /\ SocketInit /\ RunnerInit
  /\ TreeInit /\ ChatInit /\ JobsInit /\ ViewInit
  /\ EditorInit /\ GraphInit
RendererNext ==
  /\ UNCHANGED part
  /\ \/ /\ part = "workbench" /\ BenchNext
        /\ UNCHANGED <<sendVars, streamVars, runnerVars, treeVars, chatVars,
                      jobVars, viewVars, editorVars, graphVars>>
     \/ /\ part = "sends" /\ SendNext
        /\ UNCHANGED <<benchVars, streamVars, runnerVars, treeVars, chatVars,
                      jobVars, viewVars, editorVars, graphVars>>
     \/ /\ part = "sockets" /\ SocketNext
        /\ UNCHANGED <<benchVars, sendVars, runnerVars, treeVars, chatVars,
                      jobVars, viewVars, editorVars, graphVars>>
     \/ /\ part = "runner" /\ RunnerNext
        /\ UNCHANGED <<benchVars, sendVars, streamVars, treeVars, chatVars,
                      jobVars, viewVars, editorVars, graphVars>>
     \/ /\ part = "tree" /\ TreeNext
        /\ UNCHANGED <<benchVars, sendVars, streamVars, runnerVars, chatVars,
                      jobVars, viewVars, editorVars, graphVars>>
     \/ /\ part = "chat" /\ ChatNext
        /\ UNCHANGED <<benchVars, sendVars, streamVars, runnerVars, treeVars,
                      jobVars, viewVars, editorVars, graphVars>>
     \/ /\ part = "jobs" /\ JobsNext
        /\ UNCHANGED <<benchVars, sendVars, streamVars, runnerVars, treeVars,
                      chatVars, viewVars, editorVars, graphVars>>
     \/ /\ part = "view" /\ ViewNext
        /\ UNCHANGED <<benchVars, sendVars, streamVars, runnerVars, treeVars,
                      chatVars, jobVars, editorVars, graphVars>>
     \/ /\ part = "editor" /\ EditorNext
        /\ UNCHANGED <<benchVars, sendVars, streamVars, runnerVars, treeVars,
                      chatVars, jobVars, viewVars, graphVars>>
     \/ /\ part = "graph" /\ GraphNext
        /\ UNCHANGED <<benchVars, sendVars, streamVars, runnerVars, treeVars,
                      chatVars, jobVars, viewVars, editorVars>>
rendererVars == <<part, benchVars, sendVars, streamVars, runnerVars, treeVars,
                  chatVars, jobVars, viewVars, editorVars, graphVars>>
RendererSpec == RendererInit /\ [][RendererNext]_rendererVars

CONSTANTS A, B
OneFiled == "a1" :> A
OneFresh == {"n1"}
ThreeTabs == "t1" :> A @@ "t2" :> A @@ "t3" :> B
TwoEnvironments == A :> {"e1", "e2"} @@ B :> {}
NodeAt(kind, parent, order) == [kind |-> kind, col |-> "c1", parent |-> parent, order |-> order, version |-> 0]
SmallTree == "f1" :> NodeAt("folder", Root, 0) @@ "f2" :> NodeAt("folder", "f1", 0)
          @@ "r1" :> NodeAt("request", "f2", 0) @@ "r2" :> NodeAt("request", Root, 0)
==============================================================================
