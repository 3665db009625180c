\* Two requests compete for one pending slot.  Seven clock values leave room
\* before, inside and after a window and let expires_at wrap around.
CONSTANTS
    RequestIds = {r1, r2}
    WordSize = 7
    MinDelay = 1
    MaxDelay = 2
    MaxAmount = 1
    Grace = 2
    MaxPending = 1
    Amounts = {1, 2}
    ReasonLengths = {4, 5}
SYMMETRY Symmetry
SPECIFICATION Spec
INVARIANTS
    ReleasedOnlyInWindow
    WithinPendingLimit
    NeverCorrupt
PROPERTY MeetsContract
