SPECIFICATION Spec
CONSTANTS
    Cores = {c1, c2}
    a1 = a1
    a2 = a2
    Addrs = {a1, a2}
    NoData = NoData
    L1Lines = 1
    L1MSHR = 3
    recvWritebackAck = FALSE
    L2Lines = 1
    L2MSHR = 3
    MaxOps = 2
    Ops <- Mixed
SYMMETRY Symmetry
INVARIANTS TypeOK SWMR DataValue SCAtomic  QuietIsClean
