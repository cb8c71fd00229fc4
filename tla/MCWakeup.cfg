CONSTANTS
    q1 = q1
    q2 = q2
    d1 = d1
    s1 = s1
    m1 = m1
    Calls <- FourCalls
    OnMain <- MainsOwn
    Kind <- KindOf
    BufSize = 3
    PipeCap = 3
    Paced = TRUE
    Nobody = Nobody
SPECIFICATION WakeupFairSpec
INVARIANTS
    NoLostWakeup
    NeverBlocksInRead
PROPERTIES
    AddedRuns
