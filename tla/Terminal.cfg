\* a chat with a peer and one in a group
SPECIFICATION Spec
CONSTANTS
  user = user  peer = peer  group = group
  Me <- user
  Peers = {peer}
  Groups = {group}
  None = None
  PageSize = 1
  Stored <- ThreeRows
  StoredFiles = {}
  Ranges <- SomeRanges
  MaxRows = 4
  MaxCommands = 3
  MaxEvents = 1
INVARIANT TerminalTypeOK
INVARIANT OneTarget
INVARIANT PagesFollowTarget
INVARIANT LastAnswerShown
INVARIANT WalkComplete
INVARIANT ContextIsNeighbour
INVARIANT SessionsShowNewest
PROPERTY StepByPage
CHECK_DEADLOCK FALSE
