CONSTANTS
    Client = {c1, c2}
    Key = {"a", "b"}
    Payload <- MCPayload
    Initial <- MCInitial
    QMax = 2
    MaxPuts = 4
    MaxFaults = 2
SPECIFICATION FairSpec
CHECK_DEADLOCK FALSE
INVARIANTS
    TypeOK
    SessionMatchesIntent
    NoReadDuringSubscribe
    NewestIsNotOvertaken
PROPERTIES
    EventuallySettled
    CancelEnds
