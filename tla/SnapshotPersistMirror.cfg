SPECIFICATION Spec
CONSTANTS
  h1 = h1  w1 = w1  m1 = m1  p1 = p1  p2 = p2  p3 = p3  st = st
  v1 = v1  v2 = v2  v3 = v3  own = own  empty = empty  none = none
  Key <- MixedKeys
  Order <- MixedOrder
  Geom = {h1}
  Skip = {m1}
  Pots = {}
  Status = {}
  Value <- Lengths
  Own = own
  Empty = empty
  Cancel = {}
  Nothing = none
  ReinitMin = 2
  Unreliable = {w1}
  Poller = {1}
  MaxSweeps = 4
  MaxEdits = 3
INVARIANTS LedgerReplays HistoryIsTrue
PROPERTY ImplementsAuditedMirror
CHECK_DEADLOCK FALSE
SYMMETRY AnyLength
