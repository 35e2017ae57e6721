CONSTANTS
    ka = ka
    kb = kb
    kc = kc
    Keys <- MCKeys
    KeyLen <- MCKeyLen
    Requests <- MCRequests
    NoList = NoList
    Dimension = 2
    VectorTypeStr = "uint8"
    TopCount = 2
    Points = 3
    Storage <- MCStorage
SPECIFICATION Spec
INVARIANTS
    TypeOK
    KeyIsolation
CHECK_DEADLOCK FALSE
