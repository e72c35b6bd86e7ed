CONSTANTS
    Queries <- AllPages
    Id = {1, 2, 3}
    Key = {1, 2, 3}
    Ties = TRUE
    Writes = {"created", "patched", "removed"}
    OwnCreates = TRUE
    MaxWrites = 2
    PageMoves = FALSE

SPECIFICATION FairSpec

INVARIANTS
    MatchesServer

PROPERTIES
    EventuallyMatchesServer

\* The server stops writing at its bound.
CHECK_DEADLOCK FALSE
