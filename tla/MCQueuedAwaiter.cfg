CONSTANTS
    Results = {r1, r2}
    Failure = Failure
    End = End
    MaxReports = 4
SPECIFICATION FairSpec
INVARIANTS
    TypeOK
    NoLostResume
PROPERTIES
    StreamSpec
