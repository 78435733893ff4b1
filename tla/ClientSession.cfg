SPECIFICATION Spec
CONSTANTS
  User = {u1, u2}
  Slot = {c1, c2}
  NoUser = nobody
  NoPair = nopair
  Boot = boot
  Me = me
  MaxLogins = 2
  MaxLosses = 1
  MaxErrors = 1
INVARIANTS
  TypeOK TokensFitPage
PROPERTIES
  SessionSurvives CallsSettle
