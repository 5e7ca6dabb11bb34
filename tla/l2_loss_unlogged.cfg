SPECIFICATION FairSpec
CONSTANTS
    btc = btc
    eth = eth
    bid = bid
    ask = ask
    Symbols = {btc}
    Priority = {btc}
    Featured = {}
    DiskLevels = {"OK"}
    Levels <- MCLevels
    LevelOf <- MCLevelOf
    MaxUpdate = 2
    UpdateBound <- OneSymbol
    QueueSize = 2
    SnapshotLag = 0
    FaultLimit <- SocketLost
PROPERTIES
    LossIsLogged
