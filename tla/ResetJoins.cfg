SPECIFICATION Spec
CONSTANTS
    p1 = p1
    p2 = p2
    Players = {p1, p2}
    Sweeps <- MCSomeTracked
    OpenTail = 1
    Lanes = 1
    MaxEvents = 1
    None = None
INVARIANTS LateDayJoins
CHECK_DEADLOCK FALSE
