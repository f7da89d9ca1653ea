SPECIFICATION FairSpec
CONSTANTS
    Players = {p1}
    Focuses <- MCFocuses
    LastReset = 2
    Retries = 1
INVARIANTS ChecksHeldDuringReset EvidenceFollows
PROPERTIES ResetsEnd
CHECK_DEADLOCK FALSE
