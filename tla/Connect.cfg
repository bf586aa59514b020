SPECIFICATION Spec
CONSTANTS
    Givens <- SomeGivens
    Second = 2
    Wrap = 8
    DefaultTimeout = 3
    MaxAddresses = 2
    Welcomes <- SomeWelcomes
    Garbage <- SomeGarbage
INVARIANTS
    NothingLeaks
    ErrorIsOfTheLastAttempt
    WaitIsBounded
    SettingsAsDocumented
