CONSTANTS
    o1 = o1
    o2 = o2
    o3 = o3
    Ops <- ThreeOps
    MaxStops = 2
SPECIFICATION FairSpec
INVARIANTS
    OnlySecondEndsFault
    Accounted
PROPERTIES
    SearchEnds
