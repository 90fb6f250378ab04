SPECIFICATION MicSpec
CONSTANTS
  Turns = 2  Events = 3  Attempts = 1  Streams = 3
INVARIANTS
  NoOrphan
  SentIsAsSet
PROPERTIES
  Replaced
CHECK_DEADLOCK FALSE
