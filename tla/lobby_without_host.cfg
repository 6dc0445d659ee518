SPECIFICATION Spec
CONSTANTS
  Player = {p1, p2, p3}
  None = None
  RoomSize = 2
  MaxGames = 1
CHECK_DEADLOCK FALSE
INVARIANT LobbyHasHost
