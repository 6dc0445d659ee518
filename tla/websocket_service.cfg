SPECIFICATION Spec
CONSTANTS
  Room = {r1, r2}
  None = None
  MaxTasks = 3
  MaxChannels = 5
  MaxCalls = 3
  MaxFaults = 2
CHECK_DEADLOCK FALSE
INVARIANTS
  TypeOK
  NeverForgotten
  StatusIsHonest
PROPERTY ComesBack
