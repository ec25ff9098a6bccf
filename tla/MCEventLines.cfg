SPECIFICATION Spec
CONSTANTS
  Numbers = {"0", "1", "7", "8", "12", "120"}
  FlagWords = {"d..1."}
  LongAtoms = {"migration-cpu"}
  Printed <- MCPrinted
INVARIANTS LineIsUnderstood ArgumentsAreRead
PROPERTY EveryLineEnds
CHECK_DEADLOCK FALSE
