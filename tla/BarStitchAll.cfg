CONSTANTS
    MaxTime = 11
    DayLength = 4
    HourLength = 2
    RowTimes = {0, 3, 4, 5, 8}
    LiveTimes = {4, 5, 8, 10}
    Windows <- MCWindows
    Envs <- MCEnvs
SPECIFICATION Spec
INVARIANTS
    TypeOK
    FinalizedRowsServed
    CanonicalBeatsLive
    NoHoleAfterCanonical
    TailReplacesOneRow
