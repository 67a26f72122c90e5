SPECIFICATION ReviewSpec
CONSTANTS
  p1 = p1
  p2 = p2
  f1 = f1
  f2 = f2
  j1 = j1
  j2 = j2
  File = {f1}
  Place = {p1, p2}
  FileOf <- OneWithout
  SuffixOf = {}
  Level = {1, 3}
  Jobs = {j1}
  MaxRuns = 3
  MaxFound = 2
  MaxPushes = 1
  MaxMarks = 1
  Numbered = TRUE
  Omits = FALSE
  MaxDeletes = 1
  Unknown = Unknown
  NoFile = NoFile
  Hosts = {"github", "azure"}
  MaxThreads = 3
  MaxBatches = 2
  Faults = TRUE
CHECK_DEADLOCK FALSE
INVARIANTS
  IdsAreDistinct
  MemoryIsCarried
  ReappearingStartsOver
  RestatedIsNotRefiled
  ResolvedMeansMoved
  SuccessIsRemembered
  ThreadsAreNotShared
PROPERTIES
  NoSecondThreadForARow
