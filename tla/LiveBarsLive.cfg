CONSTANTS
    Req = {r1, r2}
    Writers = {}
    MaxTime = 3
    MaxNow = 1
    DayLength = 2
    BarTimes = {2}
    DayOf <- MCDayOf
    Windows <- Straddling
    Lookback = 2
    LegacyMarks <- Straddling
    Envs <- Equity1m
SPECIFICATION FairSpec
PROPERTY
    RequestsAnswered
