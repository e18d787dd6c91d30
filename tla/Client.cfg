\* an account with saved tokens and one to register; liveness, so without symmetry
SPECIFICATION FairSpec
CONSTANTS
  QQs <- TwoQQs
  Registered = {1}
  Saved = {1}
  Passwords = {p1}
  First = p1
  NoPassword = NoPassword
  Msgs = {m1}
  To <- ToFirst
  MaxCommands = 2
  MaxEvents = 2
INVARIANT ClientTypeOK
INVARIANT FilesAreOwn
INVARIANT SessionAgrees
PROPERTY LoggedAsAcked
PROPERTY LogsInByItself
CHECK_DEADLOCK FALSE
