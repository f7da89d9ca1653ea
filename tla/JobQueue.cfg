SPECIFICATION FairSpec
CONSTANTS
    j1 = j1
    j2 = j2
    w1 = w1
    w2 = w2
    Jobs = {j1}
    Workers = {w1, w2}
    NoWorker = NoWorker
    Supports <- MCUniform
    MaxAttempts = 2
    ClaimBatch = 1
    MaxClaims = 4
    MaxGiveBacks = 2
INVARIANTS RunningRowIsLease
PROPERTIES AttemptsAddUp ImplementsContract EventuallySettled
CHECK_DEADLOCK FALSE
