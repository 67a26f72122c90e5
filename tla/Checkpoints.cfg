SPECIFICATION CheckpointsSpec
CONSTANTS
  Files = {name, other}
  Contents = {found, replaced}
  Absent = Absent
  Found = found
  Replaced = replaced
  MaxCheckpoints = 1
  MaxIds = 1
  MaxEdits = 1
CHECK_DEADLOCK FALSE
INVARIANT SnapshotRecordsAbsence
