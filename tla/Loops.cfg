SPECIFICATION BinaryFairSpec
CONSTANTS
    Size = 3
    Newlines <- SomeNewlines
    RawSizes = {1, 2, 3, 4}
    Requests <- SomeRequests
    MaxArrived = 7
    MaxAccepted = 7
    NoidleWithPair = FALSE
    Announced = {0, 2, 4}
    BufferSizes = {1, 4}
INVARIANTS
    LineIntact
    WaitsToSomePurpose
    FailureIsFatal
PROPERTIES
    TooLargeIsTooLarge
    BehavesAsQueues
    RefusedOnlyIfTooLong
    CallsReturn
    ChunkIsWhole
