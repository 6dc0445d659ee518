SPECIFICATION FairSpec
CONSTANTS
  Conn = {c1}
  Room = {r1}
  RoomID = RoomID
  Game = {g1}
  None = None
  QueueLen = 2
  MaxPublished = 2
CHECK_DEADLOCK FALSE
INVARIANTS
  TypeOK
  NeverSendsOnClosed
  FollowersAreTold
PROPERTY GoneIsForgotten
