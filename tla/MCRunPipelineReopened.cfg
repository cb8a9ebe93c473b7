SPECIFICATION PipelineSpec
CONSTANTS
  Runs = {r1}
  Streams = {s1, s2}
  Stops = {k1}
PROPERTY
  CompletedStaysCompleted
CHECK_DEADLOCK FALSE
