SPECIFICATION Spec
CONSTANTS
  Ids = {p1, p2}
  Stoppers = {s1}
INVARIANT
  NoUntrackedProcess
CHECK_DEADLOCK FALSE
