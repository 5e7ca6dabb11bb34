SPECIFICATION FairSpec
CONSTANTS
    btc = btc
    eth = eth
    bid = bid
    ask = ask
    Symbols = {btc}
    Priority = {btc}
    Featured = {}
    DiskLevels = {"OK"}
    Levels <- MCLevels
    LevelOf <- MCLevelOf
    MaxUpdate = 4
    UpdateBound <- OneSymbol
    QueueSize = 2
    SnapshotLag = 1
    FaultLimit <- EveryFault
INVARIANTS
    TypeOK
    HealthyBookIsExchangeBook
    HolesAreLogged
    DropsAreLogged
    OpenRowsAreHeld
PROPERTIES
    TrustedSpec
    OutageEnds
