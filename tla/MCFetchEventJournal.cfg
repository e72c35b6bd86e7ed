CONSTANTS
    Cursor = {c1, c2, c3}
    Event = {e1, e2}
    MaxEvents = 2
SPECIFICATION Spec

INVARIANTS
    JournalIsBounded
    IInv

PROPERTIES
    ImplementsFetchLog

\* Every cursor may have been handed out and ended: the run then stops.
CHECK_DEADLOCK FALSE
