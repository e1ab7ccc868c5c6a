CONSTANTS
    A = A
    B = B
    SPY = SPY
    AAA = AAA
    Instruments <- MCInstruments
    MarkPrices <- MCMarkPrices
    Changes <- MCChanges
    Accounts <- MCAccounts
    RiskPolicy <- MCRiskPolicy
    Reported = {}
    DeskPolicy <- MCDeskPolicy
    MaxTime = 1
    Symbols <- MCSymbols
    Watchlists <- MCWatchlists
    Benchmark = SPY
    Quotes <- MCQuotes
    MaxBarTime = 5
    ChartBars = 4
    FreshnessLimit = 0
    Scores <- MCScores
    Period <- MCPeriod
    Overbought = 70
    Oversold = 30
    ZHigh = 1
SPECIFICATION PartsSpec
CHECK_DEADLOCK FALSE
INVARIANTS
    EquityIsConserved
    LimitsCannotBeEvaded
    AlertsAreEarned
    ReportsAreSound
