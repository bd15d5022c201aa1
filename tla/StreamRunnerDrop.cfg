CONSTANTS
    Client = {c1, c2}
    Key = {"a", "b"}
    Payload <- MCPayload
    Initial <- MCInitial
    QMax = 2
    MaxPuts = 4
    MaxFaults = 2
SPECIFICATION Spec
CHECK_DEADLOCK FALSE
PROPERTY
    PayloadNeverDropped
