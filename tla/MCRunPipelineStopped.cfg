SPECIFICATION PipelineSpec
CONSTANTS
  Runs = {r1}
  Streams = {s1}
  Stops = {k1}
PROPERTY
  StoppedIsNotFailed
CHECK_DEADLOCK FALSE
