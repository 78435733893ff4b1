SPECIFICATION FairService
CONSTANTS
  Threshold = 3
  FastTicks = 2
  StaleRaises <- AnyErrors
  Malformed = TRUE
  LongInterval = TRUE
INVARIANTS BreakerJustified DeadHandleDropped 
PROPERTIES Recovers StopHonoured
