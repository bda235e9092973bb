CONSTANTS
  Starters = {s1}
  Stoppers = {p1}
  Updaters = {}
  Settings = {v1}
  MaxRuns = 1
  Subscribed = FALSE
SPECIFICATION Spec
INVARIANT StoppedMeansIdle
CHECK_DEADLOCK FALSE
