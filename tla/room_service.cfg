SPECIFICATION Spec
CONSTANTS
  Player = {p1, p2, p3, p4, p5}
  None = None
  RoomSize = 3
  MaxGames = 3
SYMMETRY PlayerSymmetry
CHECK_DEADLOCK FALSE
INVARIANTS
  TypeOK
  HostIsPresent
  LobbyNeverOverfull
  NobodyWithoutSeat
  OneRunningGame
PROPERTIES
  HostlessOnlyWhenDeserted
  StartedByTheHost
  RematchAmongTheSame
