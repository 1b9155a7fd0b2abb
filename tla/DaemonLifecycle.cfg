\* Two commands, one change of the flag, one of the config file and two
\* exceptions: enough for a stop behind another command, a flag that is set or
\* cleared (it starts either way), a change that fails to load, and an exception
\* after another.
SPECIFICATION FairSpec
CONSTANTS
    MaxCommands = 2
    MaxToggles = 1
    MaxFaults = 2
    MaxEdits = 1
    None = None
INVARIANTS
    TypeOK
    NothingOutlivesCleanup
    CleanupWaitsForCancelled
    FailedReloadIsDue
PROPERTIES
    StopIsFinal
    DrainIsBounded
    ServiceSpec
    StopIsObeyed
    StopCommandIsObeyed
    SuspensionIsFollowed
    StatusFollows
    ConfigIsFollowed
CHECK_DEADLOCK FALSE
