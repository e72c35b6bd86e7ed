SPECIFICATION FairSpec
CONSTANTS
    EventLimit = 2
    TimelineLimit = 2
    PayloadLimit = 3
    SpanLimit = 1
    WriteLimit = 1
    HistoryLimit = 1
    FrameLimit = 3
    Queries = {1, 2}
    Workloads <- MCWorkloads
    MaxSteps = 6
    MaxRemote = 3
    MaxPanel = 1
CHECK_DEADLOCK FALSE
INVARIANTS
    RecordsAreExact
    InFlightIsTrue
PROPERTIES
    PanelCatchesUp
