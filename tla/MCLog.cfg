SPECIFICATION Spec
CONSTANTS
    Procs = {p1, p2}
    Blocks = {b1, b2, b3}
    Values = {v1, v2}
    OpBlocks = 2
    MAXOPBLOCKS = 4
    LOGSIZE = 8
    nlog = 8
INVARIANTS ReservationHolds LoggedOncePinned
PROPERTIES LogIsAtomic
