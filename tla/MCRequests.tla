----------------------------- MODULE MCRequests -----------------------------
EXTENDS Requests

CONSTANTS c1, c2

TwoCalls == {c1, c2}
TwoEntries == {0, 2}
=============================================================================
