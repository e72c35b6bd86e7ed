CONSTANTS
    Policies = {"swr", "cache-first", "network-only"}
    Reasons <- OwnOrOther
    Retry = 1
    Cooldown = TRUE
    MaxChanges = 3
    MaxListeners = 2
    MaxSubscribes = 2
    MaxHides = 1
    MaxFailures = 1

SPECIFICATION FairSpec

INVARIANTS
    EventsAreNeverDropped
    QueryStateIsTrue

PROPERTIES
    EventuallyReconciled

\* The bounds run out.
CHECK_DEADLOCK FALSE
