SPECIFICATION Spec
CONSTANTS
  FeedLimit = 2
  SpawnLimit = 1
  MaxGoals = 2
  MaxMoves = 2
  MaxFaults = 1
INVARIANTS GoalsShown SpawnsTold RateBounded FeedTold
