SPECIFICATION ServicesSpec
CONSTANTS
    Owners = {o1, o2}
    Sightings = {s1, s2}
    Original = original
    Generations = {g1, g2}
    WaitAttempts = 1
    RecoveryWindow = 1
    RecoveryHold = 2
    MaxTime = 2
    MaxFaults = 2
    Nothing = nothing
    User1 = user1
SYMMETRY Symmetry
INVARIANTS VerifiedHasBytes UnboundIsUploading OnceEach QuietWhenOff
PROPERTIES MissingIsMissing RetiringIsUnused
CHECK_DEADLOCK FALSE
