SPECIFICATION FairSpec
CONSTANTS
  Slot = {2, 4}
  Origin = {0, 2}
  Moves = 7
INVARIANTS
  BlankStaysAway
  FilmNotCovered
  ChatAsAsked
PROPERTIES
  PictureReturns
CHECK_DEADLOCK FALSE
