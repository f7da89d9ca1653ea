SPECIFICATION StorageSpec
CONSTANTS
    i1 = i1
    i2 = i2
    b1 = b1
    c1 = c1
    LastResponse = 2
    Identities = {i1, i2}
    Bodies = {b1}
    Contents = {c1}
    IdentityOf <- MCApart
    BodyOf <- MCBoth
    ContentOf <- MCOneContent
    MaxCrashes = 1
    MaxFaults = 1
    Owners = {o1}
    Sightings = {s1, s2}
    Original = original
    Generations = {g1}
    WaitAttempts = 1
    RecoveryWindow = 0
    RecoveryHold = 2
    MaxTime = 0
    MaxArchiveFaults = 1
INVARIANTS BodiesKept SavedOnce
PROPERTIES SpoolSettles UploadSettles
CHECK_DEADLOCK FALSE
