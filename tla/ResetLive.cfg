SPECIFICATION FairSpec
CONSTANTS
    p1 = p1
    p2 = p2
    Players = {p1, p2}
    Sweeps <- MCAllTracked
    OpenTail = 1
    Lanes = 1
    MaxEvents = 1
    None = None
PROPERTIES EveryResultShown
CHECK_DEADLOCK FALSE
