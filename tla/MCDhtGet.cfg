CONSTANTS
    g1 = g1
    g2 = g2
    c1 = c1
    Searches <- Mixed
    Generators <- Coroutines
    MaxUnread = 2
    NoSearch = NoSearch
SPECIFICATION FairSpec
INVARIANTS
    NoUseAfterFree
    EndedOnce
    TimerGuardsSearch
    WaitingHasEnd
PROPERTIES
    SearchEnds
    ConsumerResumed
