\* A queue with a debounce, one without, and calls outside of both.  One entity
\* and the custom method "call", which stands in no lane: writes of a queue meet
\* in one lane, and pass each other outside of it.
CONSTANTS
    q1 = q1
    q2 = q2
    e1 = e1
    Queue = {q1, q2}
    Debounced = {q1}
    Patient = {"patch", "call"}
    Id = {e1}
    Methods = {"create", "patch", "call"}
    Direct = {"patch"}
    Retries = 1
    MaxCalls = 3
    MaxFailures = 1
SPECIFICATION FairSpec

INVARIANTS
    Serial
    CoalescedCallsAreSent
    NoTimerHoldsBack
    DiscardIsComplete

PROPERTIES
    EveryCallSettles

CHECK_DEADLOCK FALSE
