SPECIFICATION FairSpec
CONSTANTS
    Passengers = {p1, p2, p3}
    kiosks = 2
    belts = 1
    passengers_per_belt = 1
CHECK_DEADLOCK FALSE
INVARIANTS KioskReady LaneExact
PROPERTIES AllBoard
