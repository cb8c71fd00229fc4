CONSTANTS
    TaskIds <- TwoTasks
    Handles = {h1, h2, h3}
    Workers = {w}
    LaterPhases <- UntilStopped
    Disciplined = FALSE
    MaxReady = 1
    NullHandle = NullHandle
    NoTask = NoTask
    NoEntry = NoEntry
SPECIFICATION Spec
INVARIANTS
    RunDelayReferenceValid
