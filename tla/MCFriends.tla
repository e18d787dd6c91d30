----------------------------- MODULE MCFriends ------------------------------
EXTENDS Friendship
CONSTANTS u1, u2, u3, u4, s1, s2

\* u1 has a friend, u4, and has been asked by u3; u2 may write to u1.
FourUsers == {u1, u2, u3, u4}
AroundU1 == {<<u1, u1>>, <<u1, u2>>, <<u2, u1>>, <<u1, u3>>}
ToU1 == {<<u2, u1>>}
OneFriend == [p \in Pairs |-> CASE p \in {<<u1, u4>>, <<u4, u1>>} -> "accepted"
                               [] p = <<u3, u1>> -> "pending"
                               [] OTHER -> "none"]
TwoSessions == {s1, s2}
OneEach == [s \in TwoSessions |-> IF s = s1 THEN u1 ELSE u2]
=============================================================================
