SPECIFICATION Spec
CONSTANTS
  Runs = {r1}
  Streams = {s1}
  Stops = {k1}
PROPERTY
  DeadlineEndsRun
CHECK_DEADLOCK FALSE
