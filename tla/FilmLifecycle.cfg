SPECIFICATION FilmFairSpec
CONSTANTS
  Own = {o}
  Theirs = {a, b}
  None = None
  Hosting = TRUE
  MaxTurns = 4
INVARIANTS
  WatchesTheRoom
  SharerServes
PROPERTIES
  SpinnerEnds
CHECK_DEADLOCK FALSE
