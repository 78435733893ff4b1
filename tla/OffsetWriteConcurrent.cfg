SPECIFICATION FairSpec
CONSTANTS
  c1 = c1  c2 = c2  r1 = r1  r2 = r2  none = none
  Caller = {c1, c2}
  Request = {r1, r2}
  Register = {1}
  NoRegister = none
  Values = {0, 1}
  AbsMax = 1
  Large = 1
  Machines <- Calm
  Batches <- Crossed
  Granted <- BothWalls
  Single = FALSE
  Commits = FALSE
  Faults = TRUE
  Crashes = TRUE
  MaxCalls = 2
  MaxDisturbances = 0
INVARIANTS SuccessIsTrue
PROPERTIES CallsEnd
CHECK_DEADLOCK FALSE
