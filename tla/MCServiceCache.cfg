SPECIFICATION CacheSpec
CONSTANTS
    Id = {1, 2, 3}
    Key = {0, 1, 2}
    Starts <- MCStarts
    PageSize = 1
    Retry = 1
    Cases <- MCCases
    Ids = {i1, i2}
    Stored = {{}, {i1}}
    Actors = {a}
    MaxCalls = 2
    MaxRevs = 3
    MaxHides = 1
INVARIANTS
    AnswersAgree
    CacheIsComplete
    HooksTellTheTruth
    CacheConverges
CHECK_DEADLOCK FALSE
