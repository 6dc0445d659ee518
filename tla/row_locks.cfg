SPECIFICATION Spec
CONSTANTS
  Requests = 3
  p1 = p1
  p2 = p2
  Seats <- MCSeats
  Room = Room
  Game = Game
  Nobody = Nobody
  Conns = 3
CHECK_DEADLOCK FALSE
INVARIANTS
  TypeOK
  DeadlocksNeedTheHost
  OnlyVotesStarve
PROPERTY AnsweredUnlessVoteStarves
