SPECIFICATION DaysSpec
CONSTANTS
    p1 = p1
    p2 = p2
    w1 = w1
    w2 = w2
    lane1 = lane1
    s1 = s1
    s2 = s2
    sweep = sweep
    val1 = val1
    val2 = val2
    val3 = val3
    alice = alice
    bob = bob
    dave = dave
    k1 = k1
    k2 = k2
    Accounts = {alice, bob, dave}
    Players = {1, 2, 3, 4}
    Crews = {1, 2, 3}
    Sizes = {2, 3}
    CrewLimit = 2
    Writes = {k1, k2}
    MaxWrites = 2
    Linked <- MCLinked
    Founded <- MCFounded
    None = None
SYMMETRY Symmetry
INVARIANTS StaleDayHasCause StaleIsSeen LocksNeverCircle CrewsHold NoMutualWait
PROPERTIES StillAllowed
CHECK_DEADLOCK FALSE
