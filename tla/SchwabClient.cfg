CONSTANTS
    DayLength = 4
    EtLag = 1
    Lead = 8
    ChunkDays = 2
    Strategies = 2
    Window <- Windows
    Stamp <- Days
    None = None
    Body <- Bodies
    Caller = {h, a, b}
    History = h
    Intervals <- SomeIntervals
SPECIFICATION ClientFairSpec
INVARIANTS
    ChunksTile
    EachCandleOnce
    FallbackOnlyWhenEmpty
PROPERTIES
    Spaced
    EveryCallerServed
    HistoryEnds
