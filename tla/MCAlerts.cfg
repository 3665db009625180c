\* One notification and one escalation over two rosters, two batches of at most
\* two alerts, two webhook calls.
CONSTANTS
    Endpoints = {e1, e2}
    NotifyCalls = {n1}
    IncidentCalls = {i1}
    NumPrimaries = 2
    NumSecondaries = 1
    NumManagers = 0
    MaxDays = 1
    MaxRotations = 1
    DispatchBatches = {b1, b2}
    MaxInputs = 2
    Sends = {s1, s2}
SPECIFICATION MCSpec
CHECK_DEADLOCK FALSE
INVARIANTS
    NoSilentFailure
    CountersAddUp
    ReportedAsSent
PROPERTIES
    AlertsSettle
