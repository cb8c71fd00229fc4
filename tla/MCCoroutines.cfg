CONSTANTS
    a1 = a1
    a2 = a2
    t1 = t1
    v1 = v1
    g1 = g1
    Asyncs <- AsyncFrames
    Tasks <- TaskFrames
    VoidTasks <- VoidFrames
    Generators <- GeneratorFrames
    NoCoro = NoCoro
SPECIFICATION FairSpec
INVARIANTS
    TypeOK
    NoFault
    ContinuationWaits
PROPERTIES
    CallSpec
    FramesFreed
