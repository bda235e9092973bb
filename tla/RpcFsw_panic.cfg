SPECIFICATION Spec
CONSTANTS
  Requests = {q1}
  Uplinks = {u1}
  Faulty = {}
  Cancellable = {q1}
  Capacity = 1
  Window = 1
  MaxReplies = 2
  MaxData = 1
  Closes = {"eof", "broken"}
INVARIANTS ClosingIsClean
CHECK_DEADLOCK FALSE
