SPECIFICATION SearchSpec
CONSTANTS
    MaxRequests = 2
    MaxPairs = 0
    Garbage <- ZeroGarbage
    LongArguments = TRUE
    StrayLines <- NoLines
    Careless <- NoHabits
    MaxParts = 3
INVARIANTS
    TextIsWhatWasAsked
PROPERTIES
    NothingLostSilently
    KeepsTheConnection
