SPECIFICATION Spec
CONSTANTS
    Cores = {c1, c2}
    a1 = a1
    a2 = a2
    Addrs = {a1}
    NoData = NoData
    L1Lines = 1
    L1MSHR = 3
    recvWritebackAck = TRUE
    DirMSHR = 3
    MaxOps = 2
    Ops <- Flushes
SYMMETRY CoreSymmetry
INVARIANT DataValue
CHECK_DEADLOCK FALSE
