CONSTANTS
    MaxTime = 11
    DayLength = 4
    HourLength = 2
    RowTimes = {0, 3, 4, 5, 8}
    LiveTimes = {4, 5, 8, 10}
    Windows <- MCWindows
    Envs <- Stub1m
SPECIFICATION Spec
INVARIANT
    CanonicalWins
