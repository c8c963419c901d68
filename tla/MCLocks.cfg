SPECIFICATION LocksSpec
CONSTANTS
    Node = {n1}
    RetentionLimit = 3
    Result = {r1}
    NoResult = NoResult
    ReceiptCap = 2
    PruneTo = 1
    SentLease <- MCSentLease
    MaxInFlight = 1
    Worker = {w1, w2, w3}
    SlotCount = 2
    Event = {e1, e2}
    MaxLines = 2
    Keys = {k1, k2}
    Secrets = 2
    MaxPid = 5
    MaxAlive = 3
SYMMETRY MCSymmetry
CHECK_DEADLOCK FALSE
INVARIANT OwnershipIsExclusive
