SPECIFICATION MoversSpec
CONSTANTS
  r1 = r1
  r2 = r2
  main = main
  topic = topic
  w1 = w1
  w2 = w2
  name = name
  Repos = {r1, r2}
  Branches = {main, topic}
  f1 = f1
  f2 = f2
  Flows = {f1, f2}
  Works = {w1, w2}
  Home <- OneInEach
  Colliding = {w1}
  Has <- OnlyTopicHasW2
  NoRepo = NoRepo
  Files = {name}
  Contents = {found, replaced}
  Absent = Absent
  Found = found
  Replaced = replaced
  MaxCheckpoints = 1
  MaxIds = 0
  MaxEdits = 0
  MaxStashes = 2
SYMMETRY Symmetry
CHECK_DEADLOCK FALSE
PROPERTY CarryAppliesItsOwn
