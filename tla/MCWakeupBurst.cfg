CONSTANTS
    q1 = q1
    q2 = q2
    d1 = d1
    s1 = s1
    m1 = m1
    Calls <- Burst
    OnMain = {}
    Kind <- KindOf
    BufSize = 2
    PipeCap = 4
    Paced = FALSE
    Nobody = Nobody
SPECIFICATION WakeupFairSpec
PROPERTIES
    AddedRuns
CHECK_DEADLOCK FALSE
