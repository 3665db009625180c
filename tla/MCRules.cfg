\* Every graph of four roles with up to four inheritances; batches of up
\* to five entries; four events with the thresholds of the code; two policies
\* and two keys.
CONSTANTS
    Policies <- MCPolicies
    NumRoles = 4
    MaxDepth = 1
    LogBatches <- MCBatches
    ErrorThreshold = 2
    WindowMs = 1
    EventTypes = {"login"}
    MaxEvents = 4
    MaxEventTime = 4
    BurstWindowSecs = 2
    LowToMedium = 3
    MediumToHigh = 3
    HighToCritical = 3
    NumPaths = 2
    Policy = {"a", "b"}
    Manifests <- MCManifests
    Signers = {"k1", "k2"}
    MaxWrites = 2
SPECIFICATION MCSpec
CHECK_DEADLOCK FALSE
INVARIANTS
    FindingsAreExact
    SpikesCovered
    BurstsRaise
    VerifiedIsSigned
