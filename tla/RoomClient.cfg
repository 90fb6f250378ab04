SPECIFICATION FairSpec
CONSTANTS
  Client = {a}
  MaxDials = 2
  Code = {r1}
  NoRoom = NoRoom
  MaxRoomMembers = 1
INVARIANTS
  LeftForGood
  OneAttempt
PROPERTIES
  KeepsTrying
CHECK_DEADLOCK FALSE
