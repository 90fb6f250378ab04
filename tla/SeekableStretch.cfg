SPECIFICATION Spec
CONSTANTS
  Members = {s, a}
  Sharer = s
  PieceCount = 3
  Duration = 6
  Half = 1
  Buckets = 2
  StartBuffer = 3
  Tolerance = 1000
  Moves = 3
  Asks = 2
INVARIANTS
  ClampAccepted
PROPERTIES
  SeekLands
  GateOpens
