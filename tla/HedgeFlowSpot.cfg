\* The wiring of the daemon: nothing calls on_ticker.
SPECIFICATION FairSpec
CONSTANTS
    None = None
    NoTarget = NoTarget
    Targets = {}
    Positions = {}
    Configs <- OneConfig
    Quotes <- GoodQuotes
    Books <- OneBook
    Tickers = FALSE
    DayLength = 4
    RefreshInterval = 2
    Closed = {3}
    MaxTime = 2
    MaxToggles = 0
    MaxReloads = 0
    MaxRestarts = 0
PROPERTIES
    SpotFollowsQuote
