SPECIFICATION Spec
CONSTANTS
  Moves = 2  Mishaps = 1  Retries = 1  Pool = 7
PROPERTIES
  Connect
  NobodyLingers
CHECK_DEADLOCK FALSE
