SPECIFICATION Spec
CONSTANTS
    j1 = j1
    j2 = j2
    w1 = w1
    w2 = w2
    Jobs = {j2}
    Workers = {w1, w2}
    NoWorker = NoWorker
    Supports <- MCRolling
    MaxAttempts = 2
    ClaimBatch = 1
    MaxClaims = 2
    MaxGiveBacks = 1
INVARIANTS ReleasedIsClaimable
CHECK_DEADLOCK FALSE
