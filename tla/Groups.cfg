\* a founder, a user with two connections and one more
SPECIFICATION Spec
CONSTANTS
  u1 = u1  u2 = u2  u3 = u3
  s1 = s1  s2 = s2  s3 = s3  s4 = s4
  Users <- ThreeUsers
  Sessions <- FourSessions
  UserOf <- TwoOfU2
  Founder = s1
  MaxMembers = 2
  MaxHandlers = 5
  MaxFaults = 1
INVARIANT GroupsTypeOK
INVARIANT OneRowEach
INVARIANT CountAgrees
INVARIANT CapacityKept
CHECK_DEADLOCK FALSE
