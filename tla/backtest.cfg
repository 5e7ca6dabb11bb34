SPECIFICATION Spec
CONSTANTS
    Order <- TwoSymbols
    Rows <- FewRows
    Bars = 4
    MaxHoles = 1
    InitialEquity = 10000
    NormalRisk = 50
    CModeRisk = 25
    MaxTotalRisk = 80
    CorrelatedPct = 50
    NotionalPct = 8
    MarketSlip = 2
    AggressiveSlip = 1
    PassiveOffset = 1
    PassiveTtl = 2
    MakerFee = 20
    TakerFee = 50
    MaxHold = 2
    TP1R = 1
    TP1Pct = 60
    Breakeven = TRUE
INVARIANT TypeOK
INVARIANT CashReconciles
INVARIANT TradesAreWhole
INVARIANT OpenRiskCapped
PROPERTY ValidTradesSpanNoGap
PROPERTY StopFirst
CHECK_DEADLOCK FALSE
