SPECIFICATION Spec
CONSTANTS
  Files <- MCFiles
  MaxBytes = 7
  BufSize = 3
  NBuf = 2
  MaxArgs = 2
  PoolSize = 4
INVARIANTS
  LinesOfFile
  ArgumentsStay
