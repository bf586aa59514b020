SPECIFICATION Spec
CONSTANTS
    MaxRequests = 5
    MaxPairs = 1
    Garbage <- AnyGarbage
    LongArguments = FALSE
    StrayLines <- NoLines
    Careless <- NoHabits
INVARIANTS
    NoAssertFails
    InSync
    ResponsesAligned
    EndIsGenuine
    StaysInStep
