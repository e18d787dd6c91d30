\* liveness, so without symmetry
SPECIFICATION StreamFairSpec
CONSTANTS
  Conns = {c1, c2}
  Background = {p1}
  Msgs = {1, 2}
  SendCap = 1
  SlowPeers = TRUE
  MaxClosers = 1
  MaxOffers = 2
PROPERTY ImplementsStream
PROPERTY DropEndsConnection
CHECK_DEADLOCK FALSE
