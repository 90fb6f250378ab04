SPECIFICATION Spec
CONSTANTS
  Client = {c1}
  Film = {1, 2, 3}
  Local = 3
  History = 2
  Events = 3
  Losses = 1
INVARIANTS
  ChatAgrees
  FiguresHaveFilm
  RightUrl
PROPERTIES
  ReportsCatchUp
CHECK_DEADLOCK FALSE
