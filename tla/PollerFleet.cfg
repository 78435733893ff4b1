SPECIFICATION FairSpec
CONSTANTS
  p1 = p1  p2 = p2   m1 = m1  m2 = m2
  Pid <- TwoPids
  Machine <- Machines
  NoPid = NoPid
  Garbled = Garbled
  FleetLock = FleetLock
  FleetPath = "run/fleet"
  UnitPath <- Units
  SinglePath <- Units
  Account <- OneAccount
  CanQuery <- SameAccount
  Strangers = TRUE
  Faults = TRUE
  MaxKills = 2
 
PROPERTIES LocksAreKept StopsClean
