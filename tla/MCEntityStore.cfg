CONSTANTS
    i1 = i1
    i2 = i2
    Setups <- MCSetups
    MaxFetches = 1
SPECIFICATION FairSpec
INVARIANTS NoGhostIntent Converged NoReconcileLost
PROPERTIES DependantsAreNotSent LanesAreReleased
\* The bounds run out.
CHECK_DEADLOCK FALSE
