------------------------------ MODULE MCDhtGet ------------------------------
EXTENDS DhtGet

CONSTANTS g1, g2, c1

\* Two generators and a search with callbacks.
Mixed == {g1, g2, c1}
Coroutines == {g1, g2}
=============================================================================
