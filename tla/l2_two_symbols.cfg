SPECIFICATION Spec
CONSTANTS
    btc = btc
    eth = eth
    bid = bid
    ask = ask
    Symbols = {btc, eth}
    Priority = {btc}
    Featured = {btc}
    DiskLevels = {"OK", "PRESSURE"}
    Levels <- MCLevels
    LevelOf <- MCLevelOf
    MaxUpdate = 2
    UpdateBound <- BothTrade
    QueueSize = 2
    SnapshotLag = 1
    FaultLimit <- EveryFault
INVARIANTS
    DrainedBooksAreCurrent
