SPECIFICATION FairSpec
CONSTANTS
    Roots = {old, new}
    FirstRoot = old
    Children = {"state", "results", "raw"}
    Loose = {"state", "results"}
    Content <- FirstContent
    NoCommand = NoCommand
    MaxAsked = 2
    MaxRows = 1
    MaxRuns = 1
    MaxCrashes = 1
INVARIANTS
    TypeOK
    PointerIsComplete
    NothingLost
    RecordsUnderPointer
PROPERTIES
    PauseEnds
    OldDataRetained
CHECK_DEADLOCK FALSE
