SPECIFICATION Spec
CONSTANTS
  Runs = {1, 2, 3}
  Times = {1, 2}
  Retained = 2
  MaxEvents = 2
INVARIANTS
  TypeOK
  EventsHaveRun
  EndIsRecorded
  ErrorIsRecorded
PROPERTIES
  PruneDropsOldest
  LateEventsDoNotReopen
