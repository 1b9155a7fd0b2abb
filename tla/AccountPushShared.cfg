\* The listener and a forced write share the connection and the cache.
CONSTANTS
    Syncers = {"push", "force"}
    Summaries = {nav}
    NoNav = NoNav
    None = None
    Conns = {c1, c2, c3}
    Statements = 2
    Faults = {"statement"}
    MaxFaults = 1
    MaxVersion = 2
SPECIFICATION Spec
INVARIANT
    WrittenIsStored
