SPECIFICATION CollectorSpec
CONSTANTS
    Requests = {r1, r2, r3}
    Keys = {k1, k2}
    PerKey = 2
    Connections = 2
    Threshold = 2
    MaxDelay = 2
    MaxRedirects = 1
    i1 = i1
    b1 = b1
    b2 = b2
    c1 = c1
    c2 = c2
SYMMETRY Symmetry
INVARIANTS EverySlotServes SleepersAreWoken SavedOnce ChangeKept
PROPERTIES StartsAllowed
