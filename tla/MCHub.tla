------------------------------- MODULE MCHub --------------------------------
EXTENDS Hub, TLC
Symmetry == Permutations(Conns) \cup Permutations(QQs) \cup Permutations(Background)
=============================================================================
