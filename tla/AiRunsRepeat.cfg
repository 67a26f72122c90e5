SPECIFICATION Spec
CONSTANTS
  Runs = {r1}
  MaxLines = 1
CHECK_DEADLOCK FALSE
INVARIANT
  StoppedRunIsNotRepeated
