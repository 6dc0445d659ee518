SPECIFICATION Spec
CONSTANTS
  Session = {s1, s2}
  None = None
  Logout = {c1, c2}
  MaxAsking = 5
  MaxFaults = 3
CHECK_DEADLOCK FALSE
INVARIANTS
  TypeOK
  RestoredWhole
  LoadingMeansAsking
PROPERTIES
  RestoredIsOwed
  KeepsAsking
