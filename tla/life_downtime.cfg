SPECIFICATION Spec
CONSTANTS
    depth = depth
    feature = feature
    selection = selection
    Key = {depth, selection}
    RawKeys = {depth}
    FeatureKeys = {}
    MetaKey = selection
    MaxEvents = 4
    Segment = 9
    CleanSlack = 1
    BackfillAfter = 3
    MaxClock = 6
    FaultLimit <- Restarts
CHECK_DEADLOCK FALSE
INVARIANTS
    DowntimeIsLogged
