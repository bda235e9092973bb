SPECIFICATION FairSpec
CONSTANTS
  Starters = {s1}
  Stoppers = {p1}
  Updaters = {}
  Settings = {v1}
  MaxRuns = 2
  Subscribed = FALSE
PROPERTIES CallersReturn
CHECK_DEADLOCK FALSE
