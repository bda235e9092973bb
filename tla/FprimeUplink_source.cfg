SPECIFICATION Spec
CONSTANTS
  Uplinks = {u1}
  Size = 3
  ChunkSize = 2
  MaxRecv = 2
  MaxBytes = 3
  Cancellable = {}
  Faulty = {u1}
  MaxFailures = 0
INVARIANTS SourceErrorKills
CHECK_DEADLOCK FALSE
