\* Timing-safe and tight for both pods: 2 + 1 + 3*1 + 1 + 1 = 8 for p1 and
\* 4 + 1 + 3*1 + 1 + 1 = 10 for p2, in ticks of half a second; a lease one
\* shorter already lets two services overlap.
CONSTANTS
    p1 = p1
    p2 = p2
    Pods = {p1, p2}
    NoPod = NoPod
    LeaseDuration <- MixedDuration
    RenewDeadline <- MixedDeadline
    RetryPeriod <- MixedPeriod
    Second = 2
    MaxDelay = 1
    Drain = 1
    RestartTime = 1
    MaxSkew = 1
    MaxTime = 13
SPECIFICATION Spec
INVARIANTS
    TypeOK
    AtMostOneService
    LiveHoldsLease
    StepsDownInTime
PROPERTY
    LockSpec
    TakeoverOnlyOfExpired
CHECK_DEADLOCK FALSE
