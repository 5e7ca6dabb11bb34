SPECIFICATION Spec
CONSTANTS
    BTC = BTC
    ETH = ETH
    Symbols = {BTC, ETH}
    Rows <- FewRows
    InitialEquity = 10000
    Risk = 50
    NotionalPct = 20
    MarketSlip = 2
    AggressiveSlip = 1
    PassiveOffset = 1
    PassiveTtl = 2
    MakerFee = 20
    TakerFee = 50
    MaxHold = 2
    MaxBars = 3
    MaxBreaks = 2
    MaxTraders = 2
SYMMETRY SymbolSymmetry
INVARIANTS
    TypeOK
    EquityMatchesRows
    NothingSpansFailure
    FillsAreTimely
PROPERTIES
    RowsMoveForward
CHECK_DEADLOCK FALSE
