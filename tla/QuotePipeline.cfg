CONSTANTS
    Frame <- SomeFrames
    QueueMax = 2
    MaxFrames = 4
    MaxFaults = 1
    Client = {c1}
    Event <- QuoteEvent
    Readable <- QuoteEvent
    Count = 2
    MaxErrors = 1
SPECIFICATION PipelineFairSpec
INVARIANTS
    PublishedInOrder
    TasksBalanced
    HandledIsPublished
    QueueIsNewest
    NothingMissed
    OnlyLostFramesMissing
PROPERTIES
    ImplementsFeed
    QuotesArrive
