\* Does a strategy that could trade ever hedge?
SPECIFICATION FairSpec
CONSTANTS
    None = None
    NoTarget = NoTarget
    Targets = {}
    Positions = {}
    Configs <- AnyPriceConfig
    Quotes <- WideQuotes
    Books <- TwoBooks
    Tickers = TRUE
    DayLength = 3
    RefreshInterval = 2
    Closed = {1}
    MaxTime = 3
    MaxToggles = 1
    MaxReloads = 0
    MaxRestarts = 1
INVARIANT
    SuspensionStopsHedging
PROPERTIES
    HedgesWhenNeeded
    DeskSpec
