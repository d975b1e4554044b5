SPECIFICATION Spec
CONSTANTS
    Reqs = {r1, r2, r3}
    Addrs = {a1, a2}
    MaxParts = 2
    max_requests_per_cycle = 1
    SimpleMem = TRUE
INVARIANTS TypeOK ResponseFound AnsweredWhole FlushOrder FlushWakeup ClockRunning
PROPERTIES AllServed ServiceSpec
