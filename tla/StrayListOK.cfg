SPECIFICATION Spec
CONSTANTS
    MaxRequests = 2
    MaxPairs = 1
    Garbage <- ZeroGarbage
    LongArguments = FALSE
    StrayLines <- StrayListOK
    Careless <- NoHabits
INVARIANT NoAssertFails
