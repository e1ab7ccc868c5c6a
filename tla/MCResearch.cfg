CONSTANTS
    Parts = {"store", "replay", "series", "structure", "universe"}
    Processes = {p1}
    Ids = {1, 2, 3}
    MaxTime = 1
    Requests <- MCOnlyBars
    Readers = {r1}
    Limits = {1, 2}
    None = None
    Bars <- MCBars
    MaxBars = 6
    MaxHold = 2
    MinTrades = 1
    Period <- MCPeriod
    Overbought = 70
    Oversold = 30
    ZHigh = 1
    Candles <- MCCandles
    MaxCandles = 7
    LeftSpan = 1
    RightSpan = 1
    HalfWidth = 1
    Instruments <- MCInstruments
    Source = IEX
    Feed <- MCFeed
    Windows <- MCWindows
    Moments = {2, 3}
    MaxObservations = 4
    MaxScanTime = 1
    p1 = p1
    p2 = p2
    r1 = r1
    AAA = AAA
    BBB = BBB
    IEX = IEX
    CSV = CSV
SPECIFICATION PartsSpec
CHECK_DEADLOCK FALSE
INVARIANTS
    ReplaysAreSound
    ResearchIsConsistent
    TradesAreCausal
    StructureIsConsistent
    ScansAreSound
PROPERTIES
    HistoryOnlyGrows
    ResearchIsFinal
    StructureOnlyAdvances
