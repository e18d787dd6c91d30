----------------------------- MODULE MCDelivery -----------------------------
EXTENDS Delivery, TLC
ConnSymmetry == Permutations(Conns)
=============================================================================
