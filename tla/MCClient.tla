------------------------------ MODULE MCClient ------------------------------
EXTENDS Client

\* The terminal has tokens of account 1; account 2 may be registered.
TwoQQs == 1..2
ToFirst == [m \in Msgs |-> 1]
=============================================================================
