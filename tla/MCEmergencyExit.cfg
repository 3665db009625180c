SPECIFICATION Spec
CONSTANTS
    a1 = a1
    a2 = a2
    a3 = a3
    Auths <- MCAuths
    AuthTime <- MCAuthTime
    Valid = {a1, a2}
    AuthWindow = 1
    MaxTime = 2
    MaxReceipts = 3
    MaxVersion = 3
    HasNotifyHook = TRUE
INVARIANTS
    TransitionsSerial
    WithdrawnWhileHalted
PROPERTY LockIsReleased
