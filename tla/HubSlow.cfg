\* slow readers, repeated logins on one connection, one account
SPECIFICATION HubSpec
CONSTANTS
  Conns = {c1, c2}
  QQs = {q1}
  Background = {p1}
  Msgs = {m}
  SendCap = 1
  SlowPeers = TRUE
  MaxClosers = 1
  NoQQ = NoQQ
  NoConn = NoConn
  MaxConns = 2
  MaxOffline = 1
  Relogin = TRUE
SYMMETRY Symmetry
INVARIANT HubTypeOK
INVARIANT LiveIsRegistered
INVARIANT RoutesToOwner
INVARIANT RegisteredIsOpen
INVARIANT LockLeaksByClosed
PROPERTY ConnContract
CHECK_DEADLOCK FALSE
