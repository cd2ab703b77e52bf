SPECIFICATION LiveSpec
CONSTANTS
    MinLife = 4
    InitialRetry = 5
    MaxRetry = 12
    Expiries = {1, 48}
    Horizons = {0, 7, 40, NoHorizon}
    NoHorizon = NoHorizon
    MaxAttempts = 4
    MaxTime = 50
INVARIANTS NeverOversleeps StopLeavesNothing
PROPERTIES HorizonEnds
CHECK_DEADLOCK FALSE
