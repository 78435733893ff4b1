SPECIFICATION Spec
CONSTANTS
  c1 = c1  c2 = c2  r1 = r1  r2 = r2  none = none
  Caller = {c1}
  Request = {r1, r2}
  Register = {1}
  NoRegister = none
  Values = {0, 1, 3}
  AbsMax = 2
  Large = 1
  Machines <- AnyMode
  Batches <- Twice
  Granted <- SomeGrants
  Single = FALSE
  Commits = TRUE
  Faults = TRUE
  Crashes = FALSE
  MaxCalls = 2
  MaxDisturbances = 2
INVARIANTS GateHolds 
CHECK_DEADLOCK FALSE
