SPECIFICATION Spec
CONSTANTS
    Steps = 2
    MaxResumes = 1
    PlanMode = FALSE
    Outcomes <- MCOutcomes
    MaxRequests = 2
    MaxCommands = 1
    MaxTurns = 2
INVARIANTS
    TypeOK
    ScreenFollowsTurn
    OneTurnPerAgent
    
    
    OneUndoPerRequest
    NothingStoppedComesBack
PROPERTIES
    ComesToRest
\* The user's last request ends a behaviour.
CHECK_DEADLOCK FALSE
