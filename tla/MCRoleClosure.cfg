\* Every graph of three roles with up to four inheritances, far from the depth
\* limit.
CONSTANTS
    Policies <- MCPolicies
    NumRoles = 3
    MaxDepth = 10
    LogBatches <- MCBatches
    ErrorThreshold = 2
    WindowMs = 1
    EventTypes = {"login"}
    MaxEvents = 1
    MaxEventTime = 1
    BurstWindowSecs = 2
    LowToMedium = 3
    MediumToHigh = 3
    HighToCritical = 3
    NumPaths = 2
    Policy = {"a", "b"}
    Manifests <- MCManifests
    Signers = {"k1"}
    MaxWrites = 0
SPECIFICATION MCSpec
CHECK_DEADLOCK FALSE
INVARIANTS
    EffectiveIsFull
