SPECIFICATION FairSpec
CONSTANTS
  Emitters = {e1, e2}
  Handlers = {h1}
  Waiters = {w1}
  Flushers = {f1}
  Disposers = {d1}
  Matching = {e2}
  Abandoners = {w1}
  Capacity = 2
  MaxEmits = 1
INVARIANTS Delivers
PROPERTIES ImplementsLog FlushDelivers NobodyIsHeld
CHECK_DEADLOCK FALSE
