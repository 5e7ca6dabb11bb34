SPECIFICATION Spec
CONSTANTS
    depth = depth
    feature = feature
    selection = selection
    Key = {depth, feature, selection}
    RawKeys = {depth}
    FeatureKeys = {feature}
    MetaKey = selection
    MaxEvents = 2
    Segment = 2
    CleanSlack = 1
    BackfillAfter = 9
    MaxClock = 5
    FaultLimit <- CrashAndRegister
CHECK_DEADLOCK FALSE
INVARIANTS
    TypeOK
    EventsAreKept
    CleanSessionsKeepAll
    CoverageIsComplete
    CoveredOnce
    OldChunksAreCovered
