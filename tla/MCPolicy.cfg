\* Three evaluations over two scan ids: any two may collide on an id, and a
\* third may start after another was reset.  Six transitions over a history of
\* three evict records.
CONSTANTS
    ScanIds = {s1, s2}
    NoScan = NoScan
    MaxHistoryDepth = 3
    MaxTransitions = 6
    Evaluations = {e1, e2, e3}
SPECIFICATION MCSpec
CHECK_DEADLOCK FALSE
INVARIANTS
    HistoryFaithful
    SoloIsRecorded
    FailsClosed
PROPERTY SessionsEnd
