SPECIFICATION HooksSpec
CONSTANTS
    Components = {c1, c2, own}
    Keyed = {c1, c2}
    MaxQueues = 2
    MaxCalls = 1
    MaxFails = 1
    Keys = {k1, k2}
    Readers = {tagged, many}
    Tagged = {tagged}
    Many = {many}
    QueryIds = {1, 2, 3, 4}
    Windowed = {one, two}
    Ranges = {r1}
    Capacity = 1
    WindowIds = {1, 2, 3}
    MaxReads = 3
CHECK_DEADLOCK FALSE
INVARIANTS
    QueuesAreReachable
    ReadersShare
    ColdReadsAreKept
PROPERTIES
    UnfinishedIsKept
    ComesToRest
