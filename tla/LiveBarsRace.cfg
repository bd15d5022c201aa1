CONSTANTS
    Req = {r1, r2}
    Writers = {}
    MaxTime = 5
    MaxNow = 0
    DayLength = 3
    BarTimes = {1, 3, 4}
    DayOf <- MCDayOf
    Windows <- TwoDays
    Lookback = 2
    LegacyMarks <- NoWindows
    Envs <- Equity1m
SPECIFICATION Spec
SYMMETRY Symmetry
INVARIANTS
    PartialsRetained
    MissSuppressesBackfill
