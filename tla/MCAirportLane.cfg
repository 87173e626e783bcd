SPECIFICATION Spec
CONSTANTS
    Passengers = {p1, p2}
    kiosks = 1
    belts = 1
    passengers_per_belt = 1
CHECK_DEADLOCK FALSE
INVARIANT LaneExclusive
