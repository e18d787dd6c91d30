\* liveness, so without symmetry
SPECIFICATION HubFairSpec
CONSTANTS
  Conns = {c1, c2}
  QQs = {q1}
  Background = {p1}
  Msgs = {m}
  SendCap = 1
  SlowPeers = FALSE
  MaxClosers = 1
  NoQQ = NoQQ
  NoConn = NoConn
  MaxConns = 2
  MaxOffline = 0
  Relogin = FALSE
PROPERTY KickedEnds
CHECK_DEADLOCK FALSE
