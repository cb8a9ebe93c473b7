SPECIFICATION PipelineSpec
CONSTANTS
  Runs = {r1}
  Streams = {s1, s2}
  Stops = {k1}
INVARIANTS
  PipelineTypeOK
  CompletedMeansExited
  EndedRunsNothing
PROPERTY
  EndReported
CHECK_DEADLOCK FALSE
