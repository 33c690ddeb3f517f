SPECIFICATION FairSpecAnswer
CONSTANTS
    k1 = k1
    k2 = k2
    k3 = k3
    c1 = c1
    c2 = c2
    Free = Free
    Nil = Nil
    Callers <- MCCallers
    Keys <- MCKeys
    Data <- MCData
    Size <- MCSize
    MaxBytes = 3
INVARIANTS
    TypeOK
    MapListAgree
    UsedIsTotal
    WithinCapacity
PROPERTIES
    ImplementsLRU
    LockReleased
