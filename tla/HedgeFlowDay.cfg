\* The daily count on the second day.
SPECIFICATION Spec
CONSTANTS
    None = None
    NoTarget = NoTarget
    Targets = {}
    Positions = {}
    Configs <- OneConfig
    Quotes <- GoodQuotes
    Books <- OneBook
    Tickers = TRUE
    DayLength = 4
    RefreshInterval = 2
    Closed = {3}
    MaxTime = 5
    MaxToggles = 0
    MaxReloads = 0
    MaxRestarts = 0
INVARIANTS
    CountIsOfToday
