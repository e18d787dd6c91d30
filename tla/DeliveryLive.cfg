\* two logins and a crash; liveness, so without symmetry
SPECIFICATION FairSpec
CONSTANTS
  N = 1
  Binary = {}
  Conns = {c1, c2}
  NoConn = NoConn
  MaxFaults = 1
PROPERTY ShownOnceOnline
CHECK_DEADLOCK FALSE
