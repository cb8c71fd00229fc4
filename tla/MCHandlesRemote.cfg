CONSTANTS
    x1 = x1
    x2 = x2
    r1 = r1
    p1 = p1
    Channels <- OneChannel
    Rooms = {}
    Ports <- OnePort
    MaxDepth = 4
    Nothing = Nothing
SPECIFICATION Spec
INVARIANTS
    DestroyedOnce
