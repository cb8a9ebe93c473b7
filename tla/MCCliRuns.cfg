SPECIFICATION Spec
CONSTANTS
  Runs = {r1}
  Streams = {s1, s2}
  Stops = {k1}
INVARIANTS
  TypeOK
  HandleIsFollowed
  OrphanOnlyAfterLoss
PROPERTIES
  EndedRunIsNotReopened
  StopFindsRun
  StreamEnds
CHECK_DEADLOCK FALSE
