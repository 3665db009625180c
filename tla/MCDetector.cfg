\* Two processes and one address with three nonces, one crash; two nodes, two
\* feeds and two polls at a time.
CONSTANTS
    r1 = r1
    r2 = r2
    Procs = {p1, p2}
    Addrs = {a1}
    MaxNonce = 2
    Batches <- MCBatches
    MaxCrashes = 1
    NoProc = NoProc
    NumNodes = 2
    NumFeeds = 2
    Relayers = {r1, r2}
    Lists <- MCLists
    Polls = {q1, q2}
    FailoverEventCap = 2
    MaxDropped = 1
SPECIFICATION MCSpec
INVARIANTS
    AckedSurvives
    FailoverChain
    ListedStaysReported
PROPERTIES
    DiskMonotone
    EverySaveEnds
    SettlesOnLiveNode
