SPECIFICATION Spec
CONSTANTS
  Ids = {p1}
  Stoppers = {s1, s2, s3}
INVARIANTS
  TypeOK
  EndedMeansExited
  ExitCodeTruthful
PROPERTIES
  RemovalLosesNoProcess
  ImplementsLife
  StopAnswered
  ExitNoticed
CHECK_DEADLOCK FALSE
