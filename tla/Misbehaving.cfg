SPECIFICATION FairSpec
CONSTANTS
    MaxRequests = 4
    MaxPairs = 1
    Garbage <- OnlyGarbage
    LongArguments = TRUE
    StrayLines <- Stray
    Careless <- Sloppy
INVARIANT RemainingInRange FlushedBeforeReceiving
PROPERTY FatalIsSticky CallReturns
