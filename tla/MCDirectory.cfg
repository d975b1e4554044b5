SPECIFICATION Spec
CONSTANTS
    Cores = {c1, c2}
    a1 = a1
    a2 = a2
    Addrs = {a1, a2}
    NoData = NoData
    L1Lines = 1
    L1MSHR = 2
    recvWritebackAck = TRUE
    DirMSHR = 3
    MaxOps = 3
    Ops <- Mixed
SYMMETRY CoreSymmetry
INVARIANTS     RetryIsFront
CHECK_DEADLOCK FALSE
