CONSTANTS
    Modes = {"cursor", "offset"}
    Rows = {1, 2, 3}
    Starts <- MCStarts
    PageSize = 1
    MaxFailures = 1
    MaxTurns <- MCMaxTurns
SPECIFICATION FairSpec
INVARIANTS ShowsPrefixUnlessRaced ChainIsKept
PROPERTIES EventuallyIdle
CHECK_DEADLOCK FALSE
