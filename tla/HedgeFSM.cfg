\* Two targets, two positions, every event.
SPECIFICATION HedgeSpec
CONSTANTS
    NoTarget = NoTarget
    Targets = {0, 3}
    Positions = {0, 1, 5}
INVARIANTS
    MachineOK
    TargetIffBusy
PROPERTIES
    NeedIsFixed
