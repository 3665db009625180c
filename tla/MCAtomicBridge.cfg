\* A replayable request, one that must not be repeated and one with an empty
\* idempotency key, over three distinct endpoints of which the first is faulty.
CONSTANTS
    a = a
    b = b
    c = c
    get = get
    post = post
    nokey = nokey
    truth = truth
    lie = lie
    junk = junk
    Requests = {get, post, nokey}
    Kind <- MCKind
    Upstreams = {a, b, c}
    Route <- MCRoute
    MaxRetries = 2
    RequireVerification = TRUE
    Values = {truth, lie, junk}
    Truth = truth
    Unprojectable = {junk}
    NoValue = NoValue
    Faulty = {a}
SPECIFICATION Spec
INVARIANTS
    VotesSound
    AtMostOneSubmission
    TrafficBounded
PROPERTY EveryRelayReturns
