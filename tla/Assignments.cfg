SPECIFICATION Spec
CONSTANTS
  c1 = c1  c2 = c2   a1 = a1  a2 = a2  t1 = t1  m1 = m1  none = none
  Session = {c1, c2}
  Asg = {a1, a2}
  Tool = {t1}
  Machine = {m1}
  Number = {1, 2, 3}
  None = none
  MachineRow <- Probes
  Places <- TwoPlaces
  Moves <- SomeMoves
  MaxCalls = 4
  MaxPatches = 1
INVARIANTS SlotsUnique ChecksHold
PROPERTY OnlySentColumns
SYMMETRY Symmetry
CHECK_DEADLOCK FALSE
