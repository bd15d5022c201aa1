CONSTANTS
    Caller = {c1, c2}
    Symbol <- Symbols
    Date <- Dates
    Rest <- Rests
    Item <- Items
    Ask <- Lists
    None = None
    Ttl <- TtlPerKind
    MaxDelay = 1
    MaxRequests = 3
    MaxTime = 3
CHECK_DEADLOCK FALSE
SYMMETRY Symmetry
SPECIFICATION Spec
INVARIANTS
    AnswersMatch
    StalenessBounded
    BackwardsBounded
PROPERTY
    MissMeansExpired
