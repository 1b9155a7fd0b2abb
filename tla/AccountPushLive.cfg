\* Both syncers and one fault of any kind.
CONSTANTS
    Syncers = {"push", "force"}
    Summaries = {nav}
    NoNav = NoNav
    None = None
    Conns = {c1, c2, c3}
    Statements = 2
    Faults = {"redis", "statement", "connection", "ack", "crash"}
    MaxFaults = 1
    MaxVersion = 1
SPECIFICATION FairSpec
INVARIANT
    NoOrphanTransaction
PROPERTIES
    CopySpec
    NoLostWakeUp
    Converges
