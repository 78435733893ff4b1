SPECIFICATION Spec
CONSTANTS
  h1 = h1  w1 = w1  m1 = m1  p1 = p1  p2 = p2  p3 = p3  st = st
  v1 = v1  v2 = v2  v3 = v3  own = own  empty = empty  none = none
  Key <- PotKeys
  Order <- PotOrder
  Geom = {}
  Skip = {}
  Pots = {p1, p2, p3}
  Status = {st}
  Value <- Identities
  Own = own
  Empty = empty
  Cancel = {empty, own}
  Nothing = none
  ReinitMin = 2
  Unreliable = {}
  Poller = {1}
  MaxSweeps = 3
  MaxEdits = 2
INVARIANTS ResetAlarmed
PROPERTIES ToolMemory
CHECK_DEADLOCK FALSE
SYMMETRY AnyIdentity
