CONSTANTS
    StubSymbols = 2
    MaxTicks = 2
SPECIFICATION FairSpec
INVARIANTS
    NothingLeftOpen
PROPERTIES
    NoTaskOutlivesConnections
    ShutdownEnds
CHECK_DEADLOCK FALSE
