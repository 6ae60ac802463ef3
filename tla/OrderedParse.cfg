SPECIFICATION FairSpec
CONSTANTS
    Documents <- MCDocuments
    MaxSize = 5
    MaxFailing = 2
    LongSize = 8
    Threads = 2
    QueueDepth = 1
    Capacity = 2
    BuildMayFail = TRUE
INVARIANTS
    DeliveredIsPrefix
    OutcomeIsSerial
    BufferBound
PROPERTIES
    CancelledWorkersStop
    ImplementsSerialParse
    EventuallyReturns
