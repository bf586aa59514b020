SPECIFICATION CommandsSpec
CONSTANTS
    MaxRequests = 2
    MaxPairs = 0
    Garbage <- ZeroGarbage
    LongArguments = FALSE
    StrayLines <- NoLines
    Careless <- NoHabits
    UnsignedRange = 8
    MaxNames = 2
    Chosen <- SomeChosen
INVARIANT ServerReadsWhatWasMeant
PROPERTY RunsAreAnswered
