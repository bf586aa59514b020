SPECIFICATION Spec
CONSTANTS
    Numbers = {"0", "2", "5"}
    Words = {"word", "OK"}
    Names <- TheNames
    Values <- TheValues
    CommandNames <- TheCommands
    Messages <- TheMessages
    SystemErrors = {"EPIPE", "ECONNRESET"}
    MaxMessages = 2
    FlushesAnyway = FALSE
INVARIANTS
    LinesAreReadAsSent
    ErrorIsTheServers
    MessagesAreOwned
