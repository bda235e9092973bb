SPECIFICATION Spec
CONSTANTS
  Files = 2
  Disconnects = FALSE
INVARIANTS CrcFailedIsReal
CHECK_DEADLOCK FALSE
