SPECIFICATION Spec
CONSTANTS
  Prompts = {1, 2}
  Stops = {k1}
  Types = {"run.completed", "assistant.delta"}
  MaxWire = 1
INVARIANTS
  OpenStreamIsActive
  TextIsOfThisChat
  CompletedIsRecorded
PROPERTIES
  CurrentStaysListed
  EndIsKept
  ComposerComesBack
CHECK_DEADLOCK FALSE
