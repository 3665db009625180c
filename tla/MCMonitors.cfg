\* A bucket of two tokens that gains half a token a tick, over a queue of two;
\* three clients for a Map of two; two workers; two overlapping synchronisations.
CONSTANTS
    Capacity = 2
    RefillRate = 1
    Unit = 2
    MaxQueueDepth = 2
    MaxTime = 3
    MaxElapsed = 6
    MaxEvents = 6
    Clients = {c1, c2, c3}
    Threshold = 2
    Window = 2
    MaxTracked = 2
    BanTtl = 2
    MaxBurst = 3
    MaxTrafficTime = 4
    Batches <- MCBatches
    MaxConcurrency = 2
    MaxPayload = 151
    Accounts = {a1, a2}
    Nonces = {0, 1}
    Syncs = {s1, s2}
    HistoryLimit = 2
    MaxObjects = 3
    MaxAlerts = 2
    MaxTimers = 2
SPECIFICATION MCSpec
CHECK_DEADLOCK FALSE
INVARIANTS
    AdmissionBounded
    QueueFaithful
    AllowedBounded
    BansHold
    DriftAccounted
PROPERTIES
    BatchCompletes
