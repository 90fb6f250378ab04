SPECIFICATION FairSpec
CONSTANTS
  Conn = {c1, c2}
  Code = {r1}
  NoRoom = NoRoom
  MaxRoomMembers = 2
  P2PFilm = {}
  OriginFilm = {}
  LocalFilm = {l1}
  NoMedia = NoMedia
  NoMember = NoMember
  OriginConfigured = TRUE
  MaxSeq = 2
INVARIANTS
  FilmCurrent
  AnchorCurrentWithFilm
PROPERTIES
  NewFilmClosesGate
  PhaseIsShown
CHECK_DEADLOCK FALSE
