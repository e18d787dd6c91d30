\* two terminals, two accounts, one fault
SPECIFICATION Spec
CONSTANTS
  Conns = {c1, c2}
  Passwords = {p1, p2}
  None = None
  RandomSecret = TRUE
  MaxRows = 2
  MaxIssued = 3
  MaxFaults = 1
SYMMETRY Symmetry
INVARIANT AccountsTypeOK
INVARIANT RefreshFollowsPassword
INVARIANT ConfirmedCounts
INVARIANT RegistrationOpen
CHECK_DEADLOCK FALSE
