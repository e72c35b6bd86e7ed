SPECIFICATION Spec
CONSTANTS
    Id = {1, 2}
    Key = {1, 2}
    Starts <- LostForceStarts
    PageSize = 1
    Retry = 1
    Cases <- LostForceCases
INVARIANTS
    RootsReconcileUnwatched
CHECK_DEADLOCK FALSE
