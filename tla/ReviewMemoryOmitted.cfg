SPECIFICATION MemorySpec
CONSTANTS
  p1 = p1
  p2 = p2
  f1 = f1
  f2 = f2
  j1 = j1
  j2 = j2
  File = {f1, f2}
  Place = {p1, p2}
  FileOf <- TwoFiles
  SuffixOf = {}
  Level = {2}
  Jobs = {j1}
  MaxRuns = 3
  MaxFound = 1
  MaxPushes = 1
  MaxMarks = 0
  Numbered = TRUE
  Omits = TRUE
  MaxDeletes = 0
  Unknown = Unknown
  NoFile = NoFile
CHECK_DEADLOCK FALSE
INVARIANTS
  ResolvedWasReviewed
