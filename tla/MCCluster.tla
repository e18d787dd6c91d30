------------------------------ MODULE MCCluster -----------------------------
EXTENDS Cluster
CONSTANTS i1, i2, c1, c2, c3, m1

\* Two instances, the user on both of them, and twice on the first.
TwoInstances == {i1, i2}
ThreeConns == {c1, c2, c3}
TwoOnI1 == [c \in ThreeConns |-> IF c = c3 THEN i2 ELSE i1]
=============================================================================
