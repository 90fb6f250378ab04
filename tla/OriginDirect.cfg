SPECIFICATION FairTransportSpec
CONSTANTS
  Size = 2
  Ahead = 1
  Edge = 4
  MaxCalls = 3
INVARIANTS
  NeverHoles
CHECK_DEADLOCK FALSE
