CONSTANTS
    c1 = c1
    c2 = c2
    Calls <- TwoCalls
    UidBits = 2
    Entries <- TwoEntries
    NoCall = NoCall
SPECIFICATION FairSpec
INVARIANTS
    TypeOK
    NoUseAfterFree
    ToldOnce
    CursorExact
PROPERTIES
    LookupAnswered
