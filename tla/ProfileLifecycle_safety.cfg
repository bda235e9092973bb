CONSTANTS
  Starters = {s1, s2}
  Stoppers = {p1}
  Updaters = {u1}
  Settings = {v1}
  MaxRuns = 2
  Subscribed = FALSE
SPECIFICATION Spec
SYMMETRY CallerSymmetry
INVARIANTS IInv
PROPERTIES StopsAreReal KeepsThePromise
CHECK_DEADLOCK FALSE
