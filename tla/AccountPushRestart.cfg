\* One syncer, one restart. One summary is enough: contents also differ in positions.
CONSTANTS
    Syncers = {"push"}
    Summaries = {nav}
    NoNav = NoNav
    None = None
    Conns = {c1, c2}
    Statements = 2
    Faults = {"crash"}
    MaxFaults = 1
    MaxVersion = 1
SPECIFICATION Spec
PROPERTY
    NoDegradedFlatBook
