SPECIFICATION SidesSpec
CONSTANTS
  Calls = {c1, c2}
  PtyDepth = 2
  Depth = 2
  MaxChunks = 8
  ContextLines = 3
  DeclarableGap = 1
  Lengths = {2, 3, 4, 7}
  Budgets = {0, 3, 6, 8, 13}
  MaxFiles = 4
  MaxHunk = 10
  Workspaces = {w1, w2}
  NoHome = NoHome
  NoTable = NoTable
CHECK_DEADLOCK FALSE
INVARIANTS
  NobodyIsLeftWaiting
  Backpressure
  TheBudgetIsShared
  EveryChangeIsShown
PROPERTIES
  EveryCallSettles
  CoreEndsWithItsShell
  KeepsItsPromise
  ExitIsAnnounced
  CloseAlwaysReturns
  LaunchesAreUpgrades
