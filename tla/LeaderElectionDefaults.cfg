\* lease.py's own defaults, in seconds, with calls of up to two seconds.
CONSTANTS
    p1 = p1
    p2 = p2
    Pods = {p1, p2}
    NoPod = NoPod
    LeaseDuration <- DefaultDuration
    RenewDeadline <- DefaultDeadline
    RetryPeriod <- DefaultPeriod
    Second = 1
    MaxDelay = 2
    Drain = 2
    RestartTime = 5
    MaxSkew = 0
    MaxTime = 20
SPECIFICATION Spec
SYMMETRY PodSymmetry
INVARIANT
    AtMostOneService
CHECK_DEADLOCK FALSE
