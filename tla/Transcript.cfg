SPECIFICATION Spec
CONSTANTS
    KeepLast = 2
    MaxCompressions = 2
    MaxBatch = 2
    MaxMessages = 7
    MaxCommands = 1
    MaxAborts = 1
INVARIANTS
    TypeOK
    PairsStayTogether
    NothingForgotten
CHECK_DEADLOCK FALSE
