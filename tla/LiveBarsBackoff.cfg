CONSTANTS
    Req = {r1}
    Writers = {}
    MaxTime = 5
    MaxNow = 5
    DayLength = 3
    BarTimes = {1, 3, 4}
    DayOf <- MCDayOf
    Windows <- NoWindows
    Lookback = 1
    LegacyMarks <- NoWindows
    Envs <- Equity1m
SPECIFICATION Spec
CHECK_DEADLOCK FALSE
PROPERTY
    DefaultWindowBacksOff
