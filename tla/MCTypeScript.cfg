SPECIFICATION MCSpec
CONSTANTS
  MaxUpdates = 3
  Handlers = {h1}
  Dicts = {d1, d2}
  MaxLoads = 2
  Kinds = {profiles, connections}
  Signalled = {connections}
  Debounced = {profiles}
  MaxChanges = 2
  MaxRefreshes = 2
  Fsws = {f1, f2}
  Nobody = Nobody
  MaxStarts = 2
  MaxDraws = 1
  Bits = 5
  Mantissa = 8
  MaxTrips = 2
INVARIANTS WiredToCurrent AliveIsCurrent StatusIsTrue
INVARIANTS NothingForgotten ViewIsCurrent EntryIsSound
INVARIANTS SentIsReceived PlainObjectKeepsAll 
CHECK_DEADLOCK FALSE
