SPECIFICATION MCSpec
CONSTANTS
  Capacity = 1
  ExpectedSize = 3
  MaxOffset = 2
  MaxLen = 2
  MaxChunks = 3
  ShortWrites = 1
  IoErrors = 1
  Files = 3
  Disconnects = TRUE
INVARIANTS FileIsAccounted ReportIsTrue SessionsListed
PROPERTIES EndedReports KeepsThePromise
CHECK_DEADLOCK FALSE
