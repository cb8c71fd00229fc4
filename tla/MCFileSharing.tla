--------------------------- MODULE MCFileSharing ---------------------------
EXTENDS FileSharing

CONSTANTS o1, o2, o3

ThreeOps == {o1, o2, o3}
=============================================================================
