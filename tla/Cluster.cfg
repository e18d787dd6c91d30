\* two connections to one instance, one to the other
SPECIFICATION Spec
CONSTANTS
  i1 = i1  i2 = i2  c1 = c1  c2 = c2  c3 = c3  m1 = m1
  Instances <- TwoInstances
  Conns <- ThreeConns
  At <- TwoOnI1
  Msgs = {m1}
  None = None
  MaxFaults = 1
INVARIANT ClusterTypeOK
INVARIANT KeyIsTrue
INVARIANT NotLost
CHECK_DEADLOCK FALSE
