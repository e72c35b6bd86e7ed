CONSTANTS
    Modes <- MCModes
    Rows = {1, 2, 3, 4}
    Starts <- MCStarts
    Ranges <- MCRanges
    PageSize = 2
    PreloadPages = 0
    MaxPages = 1
    MaxTurns = 1
    MaxCalls = 4
SPECIFICATION FairSpec
INVARIANTS PagesFollowReaders
PROPERTIES EvictionSparesReaders ColdReadsSettle
CHECK_DEADLOCK FALSE
