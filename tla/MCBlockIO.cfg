SPECIFICATION FairSpec
CONSTANTS
    Procs = {p1, p2}
    Blocks = {k1, k2, k3}
    Bufs = {b1, b2}
    Values = {v0, v1}
    ZeroValue = v0
    MaxPinned = 1
    None = None
CHECK_DEADLOCK FALSE
INVARIANTS BuffersExact ReadsLastWrite QueueMatchesWaiters
PROPERTIES SleepersWoken
