CONSTANTS
    TaskIds <- TwoTasks
    Handles = {h1, h2, h3}
    Workers = {w}
    LaterPhases <- UntilStopped
    Disciplined = TRUE
    MaxReady = 1
    NullHandle = NullHandle
    NoTask = NoTask
    NoEntry = NoEntry
SPECIFICATION FairSpec
INVARIANTS
    OnlyLateCancelFaults
    TableMatchesGNUnet
    OneShotOnce
    WaitingRanAtShutdown
    NoTimerSurvives
PROPERTIES
    TaskSettles
    ShutdownCompletes
