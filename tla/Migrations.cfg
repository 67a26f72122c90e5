SPECIFICATION MigrationSpec
CONSTANTS
  Workspaces = {w1, w2}
  NoHome = NoHome
  NoTable = NoTable
CHECK_DEADLOCK FALSE
INVARIANT EveryLaunchCompletes
