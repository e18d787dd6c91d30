------------------------------ MODULE MCGroups ------------------------------
EXTENDS Groups
CONSTANTS u1, u2, u3, s1, s2, s3, s4

\* u1 founds the group; handlers of two connections of u2 may run at once.
ThreeUsers == {u1, u2, u3}
FourSessions == {s1, s2, s3, s4}
TwoOfU2 == [s \in FourSessions |-> CASE s = s1 -> u1 [] s = s3 -> u3 [] OTHER -> u2]
=============================================================================
