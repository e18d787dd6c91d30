---------------------------- MODULE MCTerminal ------------------------------
EXTENDS Terminal
CONSTANTS user, peer, group

\* Two rows with a peer, and one in a group.
ThreeRows == <<[from |-> user, to |-> peer, group |-> None], [from |-> peer, to |-> None, group |-> group],
               [from |-> peer, to |-> user, group |-> None]>>
SomeRanges == {<<2, MaxRows>>}
=============================================================================
