SPECIFICATION FairSpec
CONSTANTS
  Conn = {c1, c2, c3}
  Code = {r1, r2}
  NoRoom = NoRoom
  MaxRoomMembers = 3
INVARIANTS
  RoomsOutliveMembers
  OneHost
  RosterCurrent
PROPERTIES
  Succession
  KeepsPromise
  GhostsReaped
CHECK_DEADLOCK FALSE
