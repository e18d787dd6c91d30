\* messages, one of them a binary file, over two logins and a crash
SPECIFICATION Spec
CONSTANTS
  N = 2
  Binary = {2}
  Conns = {c1, c2}
  NoConn = NoConn
  MaxFaults = 1
SYMMETRY ConnSymmetry
INVARIANT TypeOK
PROPERTY ImplementsMailbox
CHECK_DEADLOCK FALSE
