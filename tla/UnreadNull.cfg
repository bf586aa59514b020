SPECIFICATION Spec
CONSTANTS
    MaxRequests = 4
    MaxPairs = 1
    Garbage <- ZeroGarbage
    LongArguments = FALSE
    StrayLines <- NoLines
    Careless <- NextOverNull
INVARIANT EndIsGenuine
