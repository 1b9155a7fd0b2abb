SPECIFICATION Spec
CONSTANTS
    None = None
    NoTarget = NoTarget
    Targets = {}
    Positions = {}
    Configs <- TwoConfigs
    Quotes <- AllQuotes
    Books <- AllBooks
    Tickers = TRUE
    DayLength = 3
    RefreshInterval = 2
    Closed = {1}
    MaxTime = 3
    MaxToggles = 0
    MaxReloads = 1
    MaxRestarts = 1
INVARIANTS
    TypeOK
    HedgeIsSettled
PROPERTIES
    HedgesOnGoodData
    HedgesReduceDelta
    HedgesWithinLimits
    HedgesMoveWithPrice
    OutUntilRestart
