CONSTANTS
  Starters = {s1}
  Stoppers = {}
  Updaters = {u1}
  Settings = {v1}
  MaxRuns = 1
  Subscribed = TRUE
SPECIFICATION NotifySpec
PROPERTIES UpdatesAreSent
CHECK_DEADLOCK FALSE
