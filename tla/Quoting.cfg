SPECIFICATION Spec
CONSTANTS
    Arguments <- Texts
    Command <- TwoLetters
    MaxArguments = 2
    MaxRoom = 14
INVARIANTS
    WithinMemory
    ServerReadsArguments
    RefusedForCause
