CONSTANTS
    Req = {r1}
    Writers = {u1}
    MaxTime = 5
    MaxNow = 1
    DayLength = 3
    BarTimes = {0, 1, 3}
    DayOf <- MCDayOf
    Windows <- OneAndTwoDays
    Lookback = 1
    LegacyMarks <- Covering
    Envs <- AllEnvs
SPECIFICATION ReadSpec
INVARIANTS
    TypeOK
    CoveredNeedsNoBackfill
PROPERTIES
    UncoveredIsBackfilled
    BackfillKeepsBars
    ImplementsStore
