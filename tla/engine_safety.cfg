SPECIFICATION Spec
CONSTANTS
  Player = {p1, p2, p3, p4, p5}
  Seat = {p1, p2, p3, p4, p5}
  None = None
  NumKillers = 2
  MaxDay = 2
  MaxInflight = 3
  Faults = TRUE
SYMMETRY SeatSymmetry
CHECK_DEADLOCK FALSE
INVARIANTS
  TypeOK
  NoInputSkipped
  WinnerMatchesTown
  OneDeathPerResolution
  OfferedMovesAreAccepted
PROPERTIES
  DeathsAreEarned
  EndedIsFinal
  ImplementsTown
