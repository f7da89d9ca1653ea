SPECIFICATION MCSpec
CONSTANTS
    Scenarios <- MCScenarios
    DayEnd = 2
    Horizon = 4
    Lag = 1
    Length = 1
    StaleLag = 3
    ReadingsFrom = 1
    MaxAmbiguous = 6
    StartTotal = 100
    Floor = 100
    MaxBattles = 2
    MaxEvents = 4
    p1 = p1
    p2 = p2
    w1 = w1
    w2 = w2
    x = x
    y = y
    None = None
SYMMETRY MCSymmetry
INVARIANTS TrueDayStands ProvenIsTrue ReportsCount
PROPERTY ChangeQueuesDays
CHECK_DEADLOCK FALSE
