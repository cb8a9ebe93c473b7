SPECIFICATION Spec
CONSTANTS
  Runs = {r1}
  Streams = {s1}
  Stops = {k1}
PROPERTY
  CancelledRunIsNotSpawned
CHECK_DEADLOCK FALSE
