SPECIFICATION FairSpec
CONSTANTS
  Threshold = 3
  QueueSize = 2
  StaleRaises <- HandleErrors
  MaxStarts = 2
  MaxCancels = 2
INVARIANTS NobodyWaitsForTheDead QueueIsFresh HandleReleased BreakerNotLate
PROPERTIES StopEnds 
