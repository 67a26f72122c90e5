SPECIFICATION ReviewSpec
CONSTANTS
  p1 = p1
  p2 = p2
  f1 = f1
  f2 = f2
  j1 = j1
  j2 = j2
  File = {f1}
  Place = {p1}
  FileOf <- OneFile
  SuffixOf = {}
  Level = {1}
  Jobs = {j1}
  MaxRuns = 2
  MaxFound = 1
  MaxPushes = 1
  MaxMarks = 1
  Numbered = TRUE
  Omits = FALSE
  MaxDeletes = 0
  Unknown = Unknown
  NoFile = NoFile
  Hosts = {"github"}
  MaxThreads = 3
  MaxBatches = 2
  Faults = FALSE
CHECK_DEADLOCK FALSE
INVARIANTS
  MarksSurvivePosting
