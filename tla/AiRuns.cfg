SPECIFICATION FairSpec
CONSTANTS
  Runs = {r1}
  MaxLines = 2
CHECK_DEADLOCK FALSE
INVARIANTS
  LiveChildIsReachable
  CompletedRunIsQuiet
  OutcomeHasACause
PROPERTIES
  StopEndsTheRun
  SilenceEndsTheRun
