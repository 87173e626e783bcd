SPECIFICATION SwapSpec
CONSTANTS
    Slots = {1, 2}
    RamPages = 2
    DiscPages = 2
    Dirs = {1, 2, 3}
    MaxPages = 3
    MaxPid = 4
    MaxCalls = 5
CHECK_DEADLOCK FALSE
INVARIANT ForkCopiesSwap
