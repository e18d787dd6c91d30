----------------------------- MODULE MCAccounts -----------------------------
EXTENDS Accounts, TLC

Symmetry == Permutations(Conns) \cup Permutations(Passwords)
=============================================================================
