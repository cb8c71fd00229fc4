----------------------------- MODULE MCHandles -----------------------------
EXTENDS Handles

CONSTANTS x1, x2, r1, p1

OneChannel == {x1}
TwoChannels == {x1, x2}
OneRoom == {r1}
OnePort == {p1}
=============================================================================
