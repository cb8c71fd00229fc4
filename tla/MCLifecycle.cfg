CONSTANTS
    dht = dht
    gns = gns
    cadet = cadet
    cadet2 = cadet2
    Services <- AllKinds
    Deferred <- Queueing
    Calling <- WithChannels
    CallbacksCare = TRUE
    MaxRuns = 1
    Stop = Stop
SPECIFICATION FairSpec
INVARIANTS
    TypeOK
    NoFault
    RegistryComplete
PROPERTIES
    ShutdownStopsLoop
