\* two users around one who has a friend already
SPECIFICATION ObservedSpec
CONSTANTS
  u1 = u1  u2 = u2  u3 = u3  u4 = u4
  s1 = s1  s2 = s2
  Users <- FourUsers
  Sessions <- TwoSessions
  Owner <- OneEach
  MaxFriends = 2
  Known <- AroundU1
  Chats <- ToU1
  Stored <- OneFriend
  MaxFaults = 1
INVARIANT FriendsTypeOK
INVARIANT FriendLimit
INVARIANT QuotaKept
INVARIANT MutualFriends
CHECK_DEADLOCK FALSE
