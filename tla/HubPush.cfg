\* more offline messages than the send buffer holds
SPECIFICATION PushSpec
CONSTANTS
  Conns = {c1}
  QQs = {q1}
  Background = {p1}
  Msgs = {m}
  SendCap = 2
  SlowPeers = TRUE
  MaxClosers = 2
  NoQQ = NoQQ
  NoConn = NoConn
  MaxConns = 1
  MaxOffline = 4
  Relogin = FALSE
PROPERTY PushSurvives
CHECK_DEADLOCK FALSE
