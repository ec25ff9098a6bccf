CONSTANTS
  CPUs = {0, 1}
  Times = {0, 2, 3}
  CorrDelta = 2
  Window = 1
  MaxLines = 5
SPECIFICATION Spec
CHECK_DEADLOCK FALSE
INVARIANTS
  StackOfMostRecentEvent
