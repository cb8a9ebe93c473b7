SPECIFICATION SpecSilent
CONSTANTS
  Prompts = {1}
  Stops = {k1}
  Types = {"run.completed"}
  MaxWire = 1
PROPERTIES
  SilentStreamIsGivenUp
CHECK_DEADLOCK FALSE
