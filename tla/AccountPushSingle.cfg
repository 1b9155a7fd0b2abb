\* The listener alone, with two faults of any kind but a lost COMMIT answer.
CONSTANTS
    Syncers = {"push"}
    Summaries = {nav}
    NoNav = NoNav
    None = None
    Conns = {c1, c2}
    Statements = 2
    Faults = {"redis", "statement", "connection", "crash"}
    MaxFaults = 2
    MaxVersion = 2
SPECIFICATION FairSpec
INVARIANTS
    TypeOK
    WrittenIsStored
PROPERTIES
    NoStaleOverwrite
    FlatNeedsGoodRead
    Converges
