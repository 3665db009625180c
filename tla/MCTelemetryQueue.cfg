SPECIFICATION Spec
CONSTANTS
    e1 = e1
    e2 = e2
    e3 = e3
    Events <- MCEvents
    Payload <- MCPayload
    Calls = {c1, c2}
    NoEvent = NoEvent
    NoCall = NoCall
CHECK_DEADLOCK FALSE
INVARIANTS
    ExactlyOnceInOrder
    BacklogDrained
PROPERTY ShutdownReturns
