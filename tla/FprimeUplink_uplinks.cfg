SPECIFICATION FairSpec
CONSTANTS
  Uplinks = {u1, u2}
  Size = 3
  ChunkSize = 2
  MaxRecv = 2
  MaxBytes = 4
  Cancellable = {u1}
  Faulty = {u1}
  MaxFailures = 1
INVARIANTS WireIsSound BackPressure OutcomeIsTold NobodyIsStuck
PROPERTIES UplinkReturns KeepsThePromise
CHECK_DEADLOCK FALSE
