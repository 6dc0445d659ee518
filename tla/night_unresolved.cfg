SPECIFICATION FairSpec
CONSTANTS
  Player = {p1, p2, p3, p4}
  Seat = {p1, p2, p3, p4}
  None = None
  NumKillers = 1
  MaxDay = 1
  MaxInflight = 2
  Faults = FALSE
CHECK_DEADLOCK FALSE
PROPERTY NightIsResolved
