SPECIFICATION RendererSpec
CONSTANTS
  A = A
  B = B
  Workspaces = {A, B}
  FirstWorkspace = A
  Filed <- OneFiled
  Fresh <- OneFresh
  MaxEdits = 1
  MaxTabs = 2
  MaxCalls = 3
  MaxOps = 7
  Nil = Nil
  Spaces = {A, B}
  FirstSpace = A
  HomeOf <- ThreeTabs
  EnvsOf <- TwoEnvironments
  MaxSends = 2
  MaxSendOps = 5
  None = None
  StreamTabs = {"t1", "t2"}
  MaxDials = 3
  MaxStreamOps = 5
  PlanLength = 2
  Iterations = 2
  ExecutionCap = 5
  MaxRuns = 2
  MaxModals = 2
  MaxRunnerOps = 6
  Collections = {"c1", "c2"}
  Planted <- SmallTree
  Drafted = {"n1"}
  MaxAnswers = 2
  MaxTreeOps = 3
  Root = Root
  Engines = {"claude", "codex"}
  FirstEngine = "claude"
  MaxTurns = 3
  MaxReads = 2
  MaxChatOps = 5
  JobIds = {"j1", "j2", "j3"}
  StoredJobs = {"j1"}
  MaxJobOps = 5
  Repos = {A, B}
  FirstRepo = A
  NoTree = NoTree
  MaxLoads = 2
  MaxFlows = 1
  MaxViewOps = 3
  Projects = {A, B}
  FirstProject = A
  Files = {"x", "y"}
  NoFile = NoFile
  NoProject = NoProject
  MaxPanes = 2
  MaxFileCalls = 2
  MaxEditorOps = 5
  Window = 5
  Beyond = 1
  NoCommit = NoCommit
INVARIANTS
  CleanTabsAreSaved
  NoDraftIsLost
  HistoryStaysHome
  SpinnerTellsTheTruth
  SocketsAreAddressed
  ARunKeepsToItsPlan
  TheTreeShownIsStored
  OneConversationIsShown
  JobsAreListedOnce
  TheTreeLeftStaysGone
  ChangesShowUp
  OpenFilesAreShown
  CleanIsOnDisk
  FirstParentLinesAreClear
CHECK_DEADLOCK FALSE
