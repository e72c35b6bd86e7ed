CONSTANTS
    Kinds = {"fanIn", "junction", "perParent"}
    Rows = {1, 2}
    Starts <- MCStarts
    Consumers = {"c1"}
    MaxChanges = 1
    MaxFails = 1
    MaxCalls = 3
    MaxSteps = 4
SPECIFICATION FairSpec
INVARIANTS ShowsTheTree TornDownWhenLeft
PROPERTIES NothingVanishes SuspendedReadsSettle
CHECK_DEADLOCK FALSE
