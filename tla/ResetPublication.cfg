SPECIFICATION Spec
CONSTANTS
    p1 = p1
    p2 = p2
    Players = {p1, p2}
    Sweeps <- MCSomeTracked
    OpenTail = 1
    Lanes = 1
    MaxEvents = 2
    None = None
CONSTRAINT Bounded
SYMMETRY Symmetry
INVARIANTS OneAtATime NoResultLost ArmiesFollowDays
PROPERTIES SharedLockHolds NeverOlder
CHECK_DEADLOCK FALSE
