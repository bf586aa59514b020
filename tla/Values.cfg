SPECIFICATION Spec
CONSTANTS
    Digits <- SomeDigits
    UnsignedRange = 1073741824
    Zone <- SomeZone
    TagNames = {"Title", "Artist"}
    Pairs <- SomePairs
    MaxFed = 3
    MaxRoom = 8
INVARIANTS
    NothingLeaks
    DurationsAgree
    ElapsedToTheHundredth
    DatesAreUtc
