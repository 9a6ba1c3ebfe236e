CONSTANTS
    Copy = {c1, c2, c3}
    Nobody = Nobody
    Interval <- TwoTicks
    LeaseTicks <- ThreeIntervals
    MaxPass = 8
    MaxFaults = 3

SPECIFICATION LeaseSpec
INVARIANTS
    OnePass
    TakenOver
PROPERTIES
    TasksRun
